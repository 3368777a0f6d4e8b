--------------------------- MODULE MCWindowsReplay ---------------------------
(***************************************************************************)
(* Instances of the replay and the Windows adapter for TLC: `adapter` says *)
(* which of them an execution is of.  They share no state, so that their   *)
(* state spaces add up.                                                    *)
(***************************************************************************)
EXTENDS ReplaySession

CONSTANTS Sessions, Callbacks, Workers, Closers, Permits, MaxEvents, None

VARIABLES
    adapter,    \* which of them it is
    winLive, winOwner, winMine, winStream, winLast, winAccepting, winFenced,
    winStage, winFrame, winTransition, winSurfaces, winTarget, winEnded,
    winRemoved, winTask, winResult, winReported, winAt, winOn, winInterrupted,
    winPermits, winQueue, winExecutor, winLost, winJob, winEvents

winVars == <<winLive, winOwner, winMine, winStream, winLast, winAccepting,
           winFenced, winStage, winFrame, winTransition, winSurfaces,
           winTarget, winEnded, winRemoved, winTask, winResult, winReported,
           winAt, winOn, winInterrupted, winPermits, winQueue, winExecutor,
           winLost, winJob, winEvents>>

Windows == INSTANCE WindowsCapture WITH
        live <- winLive, owner <- winOwner, mine <- winMine,
        stream <- winStream, last <- winLast, accepting <- winAccepting,
        fenced <- winFenced, stage <- winStage, frame <- winFrame,
        transition <- winTransition, surfaces <- winSurfaces,
        target <- winTarget, ended <- winEnded, removed <- winRemoved,
        task <- winTask, result <- winResult, reported <- winReported,
        at <- winAt, on <- winOn, interrupted <- winInterrupted,
        permits <- winPermits, queue <- winQueue, executor <- winExecutor,
        lost <- winLost, job <- winJob, events <- winEvents

-----------------------------------------------------------------------------
AdapterInit == adapter \in {"windows", "replay"} /\ Init /\ Windows!Init

AdapterNext ==
    \/ adapter = "replay" /\ Next /\ UNCHANGED <<adapter, winVars>>
    \/ adapter = "windows" /\ Windows!Next /\ UNCHANGED <<adapter, vars>>

(* The fairness of the adapter it is, as in the FairSpec of each.          *)
AdapterSpec ==
    /\ AdapterInit /\ [][AdapterNext]_<<adapter, vars, winVars>>
    /\ \A c \in Callers : WF_vars(adapter = "replay" /\ Work(c))
    /\ SF_vars(adapter = "replay" /\ \E c \in Callers : Restore(c))
    /\ \A s \in Sessions :
          /\ WF_winVars(adapter = "windows" /\ Windows!DropClose(s))
          /\ \A k \in Callbacks :
                WF_winVars(adapter = "windows" /\ Windows!Callback(s, k))
    /\ \A d \in Closers : WF_winVars(adapter = "windows" /\ Windows!CloseStep(d))
    /\ \A w \in Workers : WF_winVars(adapter = "windows" /\ Windows!Teardown(w))
    /\ WF_winVars(adapter = "windows" /\ Windows!DropQueue)

-----------------------------------------------------------------------------
(* The properties of the two modules; a liveness one says which adapter it *)
(* is about.                                                               *)
OwnedOnce == Windows!OwnedOnce
FramesAreMarked == Windows!FramesAreMarked
TeardownSettles == adapter = "windows" => Windows!TeardownSettles
RequestsAnswered == adapter = "replay" => RequestsReturn
=============================================================================
