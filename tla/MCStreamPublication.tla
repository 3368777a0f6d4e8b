------------------------ MODULE MCStreamPublication ------------------------
(***************************************************************************)
(* The publications of a stream for TLC, with a consumer or with drops, as *)
(* `reading` says: who waits for a frame does not look at drops or shapes, *)
(* and drops take a longer sequence to show.                               *)
(***************************************************************************)
EXTENDS MCCaptureStream

VARIABLE reading

ReadInit == reading \in BOOLEAN /\ Init

(* What is published to the consumer keeps its shape and place.            *)
Plain == publishing' # NoPublication =>
            publishing'.frame.shape = small /\ publishing'.frame.placement = whole

ReadNext ==
    /\ Next /\ UNCHANGED reading
    /\ IF reading THEN recorder' = Idle /\ cursor'.next <= 2 /\ Plain
       ELSE UNCHANGED consumerVars

ReadSpec == ReadInit /\ [][ReadNext]_<<reading, vars>> /\ Fairness
=============================================================================
