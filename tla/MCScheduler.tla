----------------------------- MODULE MCScheduler -----------------------------
(***************************************************************************)
(* What the engine's scheduler shares out, for TLC: its query and session  *)
(* limits (WatchLifecycle) or the turns of the OCR lease (OcrDispatch), as *)
(* `share` says.  The two have no state in common here.                    *)
(***************************************************************************)
EXTENDS WatchLifecycle, TLC

CONSTANTS
    s1, s2,
    Texts, Workers, MaxFrame, None      \* OcrDispatch

SecondSession == CHOOSE q \in Queries : TRUE
OneAndTwo == [q \in Queries |-> IF q = SecondSession THEN s2 ELSE s1]

VARIABLES
    share,      \* which of them it is
    captureEnd, published, busy, offering, publications, text, template,
    authority, sessionEnded, schedulerClosed, closing, sessionActivated,
    dispatch, barrier, textCursor, job

turnVars == <<captureEnd, published, busy, offering, publications, text, template,
              authority, sessionEnded, schedulerClosed, closing, sessionActivated,
              dispatch, barrier, textCursor, job>>

Turns == INSTANCE OcrDispatch WITH
        Sessions <- {1}, Templates <- {}, Home <- [q \in Texts |-> 1],
        View <- [f \in 1..MaxFrame |-> 1], Required <- [q \in Texts |-> 1],
        Skipping <- {}, Results <- {"empty"}, Disturbances <- {},
        sourceEnded <- sessionEnded, activated <- sessionActivated

MCSymmetry == Permutations(Workers)

-----------------------------------------------------------------------------
ShareInit == share \in {"turns", "limits"} /\ Init /\ Turns!Init

ShareNext ==
    \/ share = "limits" /\ Next /\ UNCHANGED <<share, turnVars>>
    \/ share = "turns" /\ Turns!Next /\ UNCHANGED <<share, vars>>

ShareSpec == ShareInit /\ [][ShareNext]_<<share, vars, turnVars>>

TurnsRotate == Turns!TurnsRotate
=============================================================================
