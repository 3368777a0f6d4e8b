--------------------------- MODULE FrameIdentity ---------------------------
(***************************************************************************)
(* Frame stamps and the cursor that hands them out                         *)
(* (crates/automation/core/src/identity.rs).                               *)
(*                                                                         *)
(* The code counts in u64; MaxEpoch, MaxSequence and MaxGeometry stand for *)
(* u64::MAX, so that the exhaustion of a counter is a reachable case.  The *)
(* Option<u64> of `next_sequence` is a number up to MaxSequence + 1, whose *)
(* largest value stands for None.                                          *)
(***************************************************************************)
EXTENDS Integers

CONSTANTS
    MaxEpoch, MaxSequence, MaxGeometry,
    Shapes,      \* a frame's extent and pixel format
    Placements   \* where a frame lies in its target; one value is `none`

ASSUME IdentityAssumption ==
    /\ MaxEpoch \in Nat
    /\ MaxSequence \in Nat
    /\ MaxGeometry \in Nat

Epochs == 0..MaxEpoch
Sequences == 0..MaxSequence
Geometries == 0..MaxGeometry

(* A frame is its stamp and the transform it carries; pixels are left out. *)
Frames == [epoch : Epochs, sequence : Sequences, geometry : Geometries,
           shape : Shapes, placement : Placements]

(* The order of two stamps of one stream: the epoch, then the sequence.    *)
Before(a, b) ==
    \/ a.epoch < b.epoch
    \/ a.epoch = b.epoch /\ a.sequence < b.sequence

(* A frame may follow `old` when its stamp is later, its geometry revision *)
(* is not earlier, a revision is kept only with the whole transform, and   *)
(* an epoch only with the extent and pixel format.                         *)
Follows(old, new) ==
    /\ Before(old, new)
    /\ old.geometry <= new.geometry
    /\ old.geometry = new.geometry =>
           old.shape = new.shape /\ old.placement = new.placement
    /\ old.epoch = new.epoch => old.shape = new.shape

Cursors == [epoch : Epochs, next : 0..(MaxSequence + 1)]

FirstCursor == [epoch |-> 0, next |-> 0]

CanSkip(cursor, count) == count = 0 \/ cursor.next + count <= MaxSequence

Skip(cursor, count) == [cursor EXCEPT !.next = @ + count]

CanBeginEpoch(cursor) == cursor.epoch < MaxEpoch

BeginEpoch(cursor) == [epoch |-> cursor.epoch + 1, next |-> 0]

CanStampWrapping(cursor) == cursor.next <= MaxSequence + 1

CanStamp(cursor) == cursor.next <= MaxSequence

AfterStamp(cursor) == [cursor EXCEPT !.next = @ + 1]
=============================================================================
