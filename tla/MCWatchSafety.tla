---------------------------- MODULE MCWatchSafety ----------------------------
(***************************************************************************)
(* TemplateWatch for TLC, in two settings that TLC explores together: one  *)
(* query alone sees many frames, or two that ask the same question see few *)
(* of them while the session or the scheduler is closed.                   *)
(***************************************************************************)
EXTENDS TemplateWatch, TLC

CONSTANTS
    q1,             \* the query that is alone
    q2, q3,         \* the two that share
    SharedFrames    \* bounds the frames those two see

MCSymmetry == Permutations(Workers) \cup Permutations({q2, q3})

(* The last frame belongs to another geometry revision.                    *)
TwoViews == [f \in 1..MaxFrame |-> IF f = MaxFrame THEN 2 ELSE 1]
SameQuestion == [q \in Queries |-> "same"]
StreakOfFirst == [q \in Queries |-> IF q = q1 THEN 2 ELSE 1]

(* Cancelled by its handle and not by its context.  From there on it goes  *)
(* like one that was interrupted and swept: an ended query's context is    *)
(* not asked any more.                                                     *)
Handled(q) == query[q].terminal = "Cancelled" /\ ~query[q].stopped

(* Bounds of the two settings: what is left out of one happens in the      *)
(* other, except an interruption after the last of the many frames.        *)
Alone ==
    /\ \A q \in Queries \ {q1} : ~query[q].registered
    /\ ~closed /\ ~schedulerClosed
    /\ captured = MaxFrame => ~query[q1].stopped

Together ==
    /\ ~query[q1].registered
    /\ captured <= SharedFrames /\ captureEnd = "open"
    /\ \A q \in Queries : query[q].terminal # "Overloaded"

Bounded == (Alone \/ Together) /\ \A q \in Queries : ~Handled(q)
=============================================================================
