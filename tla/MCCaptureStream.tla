-------------------------- MODULE MCCaptureStream --------------------------
(* Small instances of the capture stream for TLC.                          *)
EXTENDS CaptureStream, TLC

CONSTANTS c1, c2, small, large, whole, inset

ConsumersSymmetry == Permutations(Consumers)

(* The inset does not scale to the small shape, so with_target refuses it. *)
MCScales == (Shapes \X Placements) \ {<<small, inset>>}
=============================================================================
