------------------------------ MODULE FrameLog ------------------------------
(***************************************************************************)
(* What one capture stream promises its readers, with no threads, locks or *)
(* waiting: an append-only log of frames in stamp order that ends once.    *)
(***************************************************************************)
EXTENDS FrameIdentity, Sequences

CONSTANTS
    Faults,  \* the terminal faults an adapter can report
    NoFault

VARIABLES
    log,     \* every frame published so far, in publication order
    phase,   \* Lifecycle: open, closing or closed
    cause    \* the terminal fault, NoFault for none

logVars == <<log, phase, cause>>

LogInit ==
    /\ log = <<>>
    /\ phase = "Open"
    /\ cause = NoFault

AppendFrame(frame) ==
    /\ phase = "Open"
    /\ \A i \in 1..Len(log) : Follows(log[i], frame)
    /\ log' = Append(log, frame)
    /\ UNCHANGED <<phase, cause>>

(* Capture ends: by a fault, or by a close that reports none.              *)
End(fault) ==
    /\ phase = "Open"
    /\ phase' = "Closing"
    /\ cause' = fault
    /\ UNCHANGED log

(* While cleanup runs, a first fault can still be recorded.                *)
Blame(fault) ==
    /\ phase = "Closing"
    /\ cause = NoFault
    /\ cause' = fault
    /\ UNCHANGED <<log, phase>>

Seal ==
    /\ phase = "Closing"
    /\ phase' = "Closed"
    /\ UNCHANGED <<log, cause>>

LogNext ==
    \/ \E frame \in Frames : AppendFrame(frame)
    \/ \E fault \in Faults \cup {NoFault} : End(fault)
    \/ \E fault \in Faults : Blame(fault)
    \/ Seal

LogSpec == LogInit /\ [][LogNext]_logVars
=============================================================================
