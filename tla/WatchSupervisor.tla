--------------------------- MODULE WatchSupervisor ---------------------------
(***************************************************************************)
(* The supervisor thread of the watch scheduler (watch.rs: supervisor_loop,*)
(* sweep_authority, wake) against the calls that must wake it: the start   *)
(* of a query, a publication and WatchScheduler::close.                    *)
(*                                                                         *)
(* While queries exist it looks at each of them again and again, so that   *)
(* one whose deadline passed or whose token was cancelled ends although    *)
(* no frame comes.  While there is none it waits with no timeout.  The     *)
(* count it waits for is changed without the lock of the condition: only   *)
(* wake takes that lock, before it notifies.                               *)
(***************************************************************************)
EXTENDS Naturals, FiniteSets

CONSTANTS Queries

VARIABLES
    stage,         \* per query: where WatchSession::start_query is
    interrupted,   \* its operation was cancelled or its deadline passed
    ended, held,   \* it has an outcome; it counts in queryCount
    queryCount,    \* WatchScheduler::query_count
    shutdown,       \* where WatchScheduler::close is
    supervisor,    \* where supervisor_loop is
    left           \* the queries it has still to look at

queryVars == <<stage, interrupted, ended, held, queryCount>>
supervisorVars == <<queryVars, shutdown, supervisor, left>>

Init ==
    /\ stage = [q \in Queries |-> "new"]
    /\ interrupted = [q \in Queries |-> FALSE]
    /\ ended = [q \in Queries |-> FALSE] /\ held = [q \in Queries |-> FALSE]
    /\ queryCount = 0
    /\ shutdown = "open"
    /\ supervisor = "none" /\ left = {}

Closed == shutdown # "open"
Goto(q, label) == stage' = [stage EXCEPT ![q] = label]

Listed(q) == stage[q] \in {"registered", "started"} /\ ~ended[q]

(* wake_state is locked from the first look of wait_while to the moment    *)
(* the thread is among those that a notification reaches.                  *)
WakeLocked == supervisor \in {"waiting", "counting", "parking"}

(* Mutant of Wake: the condition is notified without its lock.             *)
WakeUnlocked ==
    supervisor' = IF supervisor = "parked" THEN "waiting" ELSE supervisor

(* wake: a supervisor that waits looks again, one that pauses goes on.     *)
Wake ==
    /\ ~WakeLocked
    /\ supervisor' = CASE supervisor = "parked" -> "waiting"
                       [] supervisor = "pausing" -> "top"
                       [] OTHER -> supervisor

-----------------------------------------------------------------------------
(* WatchSession::start_query, as far as the supervisor sees it.            *)

EnsureWorkers(q) ==
    /\ stage[q] = "new"
    /\ Goto(q, "ready")
    /\ supervisor' = IF supervisor = "none" THEN "top" ELSE supervisor
    /\ UNCHANGED <<interrupted, ended, held, queryCount, shutdown, left>>

Reserve(q) ==
    /\ stage[q] = "ready"
    /\ Goto(q, "reserved")
    /\ queryCount' = queryCount + 1
    /\ held' = [held EXCEPT ![q] = TRUE]
    /\ UNCHANGED <<interrupted, ended, shutdown, supervisor, left>>

(* The query is registered with its session, unless the scheduler closed   *)
(* or its context is interrupted: then nobody is woken.                    *)
Register(q) ==
    /\ stage[q] = "reserved"
    /\ IF Closed \/ interrupted[q]
         THEN Goto(q, "refused") /\ ended' = [ended EXCEPT ![q] = TRUE]
         ELSE Goto(q, "registered") /\ UNCHANGED ended
    /\ UNCHANGED <<interrupted, held, queryCount, shutdown, supervisor, left>>

(* ensure_acquisition returns and start_query wakes the threads, or it     *)
(* fails and the query ends.                                               *)
Started(q) ==
    /\ stage[q] = "registered"
    /\ Goto(q, "started")
    /\ Wake
    /\ UNCHANGED <<interrupted, ended, held, queryCount, shutdown, left>>

Failed(q) ==
    /\ stage[q] = "registered"
    /\ Goto(q, "refused")
    /\ ended' = [ended EXCEPT ![q] = TRUE]
    /\ UNCHANGED <<interrupted, held, queryCount, shutdown, supervisor, left>>

Interrupt(q) ==
    /\ ~interrupted[q]
    /\ interrupted' = [interrupted EXCEPT ![q] = TRUE]
    /\ UNCHANGED <<stage, ended, held, queryCount, shutdown, supervisor, left>>

(* A query that can be found matches, or its handle is dropped.            *)
Ends(q) ==
    /\ Listed(q)
    /\ ended' = [ended EXCEPT ![q] = TRUE]
    /\ UNCHANGED <<stage, interrupted, held, queryCount, shutdown, supervisor, left>>

(* release_query_reservation, by whoever ended the query.                  *)
Release(q) ==
    /\ ended[q] /\ held[q]
    /\ held' = [held EXCEPT ![q] = FALSE]
    /\ queryCount' = queryCount - 1
    /\ UNCHANGED <<stage, interrupted, ended, shutdown, supervisor, left>>

(* The end of WatchSession::publish; the acquisition thread is there as    *)
(* long as there are registered queries.                                   *)
Publish ==
    /\ \E q \in Queries : Listed(q)
    /\ Wake
    /\ UNCHANGED <<queryVars, shutdown, left>>

-----------------------------------------------------------------------------
(* WatchScheduler::close: the flag, the sessions, and at last wake.        *)

Seal ==
    /\ shutdown = "open"
    /\ shutdown' = "sealed"
    /\ UNCHANGED <<queryVars, supervisor, left>>

CloseSessions ==
    /\ shutdown = "sealed"
    /\ shutdown' = "waking"
    /\ ended' = [q \in Queries |-> ended[q] \/ Listed(q)]
    /\ UNCHANGED <<stage, interrupted, held, queryCount, supervisor, left>>

CloseWakes ==
    /\ shutdown = "waking"
    /\ shutdown' = "done"
    /\ Wake
    /\ UNCHANGED <<queryVars, left>>

-----------------------------------------------------------------------------
(* supervisor_loop.                                                        *)

At(label) == supervisor = label

Top ==
    /\ At("top")
    /\ supervisor' = IF Closed THEN "gone" ELSE "count"
    /\ UNCHANGED <<queryVars, shutdown, left>>

(* The first look at the count, without the lock.                          *)
Count ==
    /\ At("count")
    /\ supervisor' = IF queryCount = 0 THEN "waiting" ELSE "snapshot"
    /\ UNCHANGED <<queryVars, shutdown, left>>

(* wait_while: the flag, the count and the wait, with the lock held.       *)
WaitLooks ==
    /\ At("waiting")
    /\ supervisor' = IF Closed THEN "top" ELSE "counting"
    /\ UNCHANGED <<queryVars, shutdown, left>>

WaitCounts ==
    /\ At("counting")
    /\ supervisor' = IF queryCount = 0 THEN "parking" ELSE "top"
    /\ UNCHANGED <<queryVars, shutdown, left>>

Park ==
    /\ At("parking")
    /\ supervisor' = "parked"
    /\ UNCHANGED <<queryVars, shutdown, left>>

(* sweep_authority: the registered queries of the sessions, one by one.    *)
Snapshot ==
    /\ At("snapshot")
    /\ supervisor' = "sweeping"
    /\ left' = {q \in Queries : Listed(q)}
    /\ UNCHANGED <<queryVars, shutdown>>

SweepQuery(q) ==
    /\ At("sweeping") /\ q \in left
    /\ left' = left \ {q}
    /\ ended' = [ended EXCEPT ![q] = @ \/ interrupted[q]]
    /\ UNCHANGED <<stage, interrupted, held, queryCount, shutdown, supervisor>>

SweepDone ==
    /\ At("sweeping") /\ left = {}
    /\ supervisor' = "pausing"
    /\ UNCHANGED <<queryVars, shutdown, left>>

(* The wait between two sweeps has a timeout.                              *)
PauseElapses ==
    /\ At("pausing")
    /\ supervisor' = "top"
    /\ UNCHANGED <<queryVars, shutdown, left>>

-----------------------------------------------------------------------------
StartQuery(q) == Reserve(q) \/ Register(q) \/ Started(q) \/ Failed(q)

Close == CloseSessions \/ CloseWakes

Supervise ==
    \/ Top \/ Count \/ WaitLooks \/ WaitCounts \/ Park
    \/ Snapshot \/ SweepDone \/ PauseElapses
    \/ \E q \in Queries : SweepQuery(q)

Next ==
    \/ \E q \in Queries :
          EnsureWorkers(q) \/ StartQuery(q) \/ Interrupt(q) \/ Ends(q) \/ Release(q)
    \/ Publish \/ Seal \/ Close \/ Supervise

(* The threads run on, whoever they belong to.                             *)
Fairness ==
    /\ \A q \in Queries : WF_supervisorVars(StartQuery(q)) /\ WF_supervisorVars(Release(q))
    /\ WF_supervisorVars(Close) /\ WF_supervisorVars(Supervise)

-----------------------------------------------------------------------------
(* No wake-up is lost: a started query that is interrupted ends although   *)
(* no frame and no other call ever comes, and the supervisor leaves after  *)
(* the scheduler closed, so that whoever drops its thread can join it.     *)
SupervisorAttends ==
    /\ \A q \in Queries : (stage[q] = "started" /\ interrupted[q]) ~> ended[q]
    /\ (Closed /\ supervisor # "none") ~> supervisor = "gone"
=============================================================================
