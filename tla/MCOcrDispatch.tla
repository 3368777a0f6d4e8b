--------------------------- MODULE MCOcrDispatch ---------------------------
(* Instances of OcrDispatch for TLC.                                       *)
EXTENDS OcrDispatch

AllAtHome == [q \in Texts \cup Templates |-> 1]

(* The last frame belongs to another geometry revision.                    *)
TwoViews == [f \in 1..MaxFrame |-> IF f = MaxFrame THEN 2 ELSE 1]
OneView == [f \in 1..MaxFrame |-> 1]

Immediate == [q \in Texts |-> 1]
Streak == [q \in Texts |-> 2]
=============================================================================
