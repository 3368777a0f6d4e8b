------------------------- MODULE MCMacosDiagnostics -------------------------
(***************************************************************************)
(* Instances of the diagnostic stream and the macOS adapter for TLC:       *)
(* `part` says which of them an execution is of.  They share no state, so  *)
(* that their state spaces add up.                                         *)
(***************************************************************************)
EXTENDS DiagnosticStream

CONSTANTS e1, e2, s1, s2, Closers, MaxEvents

(* A thread of a session, and one that holds a retained frame.             *)
MCOf == [t \in Emitters |-> IF t = e1 THEN s2 ELSE Detached]

VARIABLES
    part,       \* which of them it is
    macLive, macRegistered, macStream, macPublished, macSlot, macExtent,
    macAccepting, macFenced, macStopped, macStart, macStarted, macOutput,
    macStop, macPhase, macError, macTold, macWanted, macWake, macShutdown,
    macTaken, macContent, macSurface, macAt, macDelivery, macHeld, macOwner,
    macInterrupted, macMissed, macEvents

macVars == <<macLive, macRegistered, macStream, macPublished, macSlot,
           macExtent, macAccepting, macFenced, macStopped, macStart,
           macStarted, macOutput, macStop, macPhase, macError, macTold,
           macWanted, macWake, macShutdown, macTaken, macContent, macSurface,
           macAt, macDelivery, macHeld, macOwner, macInterrupted, macMissed,
           macEvents>>

Macos == INSTANCE MacosCapture WITH
        live <- macLive, registered <- macRegistered, stream <- macStream,
        published <- macPublished, slot <- macSlot, extent <- macExtent,
        accepting <- macAccepting, fenced <- macFenced, stopped <- macStopped,
        start <- macStart, started <- macStarted, output <- macOutput,
        stop <- macStop, phase <- macPhase, error <- macError,
        told <- macTold, wanted <- macWanted, wake <- macWake,
        shutdown <- macShutdown, taken <- macTaken, content <- macContent,
        surface <- macSurface, at <- macAt, delivery <- macDelivery,
        held <- macHeld, owner <- macOwner, interrupted <- macInterrupted,
        missed <- macMissed, events <- macEvents

-----------------------------------------------------------------------------
PartInit == part \in {"diagnostics", "macos"} /\ Init /\ Macos!Init

PartNext ==
    \/ part = "diagnostics" /\ Next /\ UNCHANGED <<part, macVars>>
    \/ part = "macos" /\ Macos!Next /\ UNCHANGED <<part, vars>>

(* The fairness of the part it is, as in the FairSpec of each.             *)
PartSpec ==
    /\ PartInit /\ [][PartNext]_<<part, vars, macVars>>
    /\ \A t \in Emitters : WF_vars(part = "diagnostics" /\ Produce(t))
    /\ \A s \in Sinks :
          /\ WF_vars(part = "diagnostics" /\ Subtract(s))
          /\ WF_vars(part = "diagnostics" /\ Seal(s))
    /\ SF_vars(part = "diagnostics" /\ \E s \in Sinks : SealLock(s))
    /\ WF_vars(part = "diagnostics" /\ Drain)
    /\ WF_macVars(part = "macos" /\ Macos!Owner)
    /\ WF_macVars(part = "macos" /\ Macos!Completion)
    /\ WF_macVars(part = "macos" /\ (Macos!Delivery \/ Macos!Ending("frame")))
    /\ WF_macVars(part = "macos" /\ (Macos!AdmitFinal \/ Macos!Ending("stop")))
    /\ WF_macVars(part = "macos" /\ (Macos!Worker \/ Macos!Ending("worker")))
    /\ \A d \in Closers : WF_macVars(part = "macos" /\ Macos!CloseStep(d))

-----------------------------------------------------------------------------
(* The properties of the two modules; a liveness one says which part it is *)
(* about.                                                                  *)
ProducersSeal == part = "diagnostics" => LastProducerSeals
ReclaimedSafely == Macos!ReclaimedSafely
PublishesOwn == Macos!PublishesOwn
RequestsAreTaken == part = "macos" => Macos!RequestsAreTaken
TeardownEnds == part = "macos" => Macos!TeardownEnds
=============================================================================
