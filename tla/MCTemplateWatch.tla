--------------------------- MODULE MCTemplateWatch ---------------------------
(***************************************************************************)
(* Instances of TemplateWatch for TLC.  MCWatchLiveness.cfg also holds the *)
(* supervisor whose sweep TemplateWatch relies on (WatchSupervisor): the   *)
(* two have no state in common, and `part` says which of them acts.        *)
(***************************************************************************)
EXTENDS TemplateWatch

CONSTANT Attended     \* the queries of WatchSupervisor

OneView == [f \in 1..MaxFrame |-> 1]

SameQuestion == [q \in Queries |-> "same"]

Streak == [q \in Queries |-> 2]

VARIABLES
    part,
    stage, interrupted, ended, held, queryCount, shutdown, supervisor, left

supervisorVars ==
    <<stage, interrupted, ended, held, queryCount, shutdown, supervisor, left>>

Attendance == INSTANCE WatchSupervisor WITH Queries <- Attended

-----------------------------------------------------------------------------
PartInit == part \in {"watch", "supervisor"} /\ Init /\ Attendance!Init

PartNext ==
    \/ part = "watch" /\ Next /\ UNCHANGED <<part, supervisorVars>>
    \/ part = "supervisor" /\ Attendance!Next /\ UNCHANGED <<part, vars>>

(* No fair action of either is enabled before its own part has begun.      *)
PartSpec ==
    /\ PartInit /\ [][PartNext]_<<part, vars, supervisorVars>>
    /\ Fairness /\ Attendance!Fairness

SupervisorAttends == Attendance!SupervisorAttends
=============================================================================
