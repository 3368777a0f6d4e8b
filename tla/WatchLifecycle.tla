--------------------------- MODULE WatchLifecycle ---------------------------
(***************************************************************************)
(* How template queries come and go (watch.rs: WatchSession::start_query,  *)
(* reserve_query_slot, ensure_acquisition, acquisition_loop, close and the *)
(* release of reservations; session.rs: Session::start_template_watch and  *)
(* Session::close).                                                        *)
(*                                                                         *)
(* Starting a query reserves an engine count and a session slot, activates *)
(* the session, registers the query and hands it to the one acquisition    *)
(* thread of the session, which is spawned, refreshed or awaited.  Every   *)
(* end of a query gives all of it back, and the thread leaves when nobody  *)
(* is left.  Session close and scheduler close cut in anywhere, and each   *)
(* of their callers joins the thread if it finds its handle.               *)
(*                                                                         *)
(* A step is one critical section or one atomic access.  Which frame goes  *)
(* to which query, and what the workers do with it, is TemplateWatch.      *)
(***************************************************************************)
EXTENDS Naturals, FiniteSets

CONSTANTS
    Sessions, Queries,
    Of,                     \* Of[q]: the session that query q is started on
    Callers, Engine,        \* threads that call Session::close; that drops the Engine
    MaxEngine, MaxSession,  \* MAX_ENGINE_QUERIES, MAX_SESSION_QUERIES
    MaxActive,              \* MAX_ACTIVE_SESSIONS
    Disturbances            \* bounds what a run lets happen to a session

ASSUME LifecycleAssumption ==
    /\ IsFiniteSet(Queries) /\ IsFiniteSet(Sessions)
    /\ Of \in [Queries -> Sessions]
    /\ Queries \cap Callers = {} /\ Engine \notin Queries \cup Callers
    /\ MaxEngine \in Nat /\ MaxSession \in Nat /\ MaxActive \in Nat
    /\ Disturbances \subseteq {"facade", "scheduler", "lost", "closed"}

VARIABLES
    gate, watcher,               \* Session::closing, the watcher cell
    scheduler, toClose,          \* WatchScheduler::close, sessions it took
    queryCount, activeSessions,  \* WatchScheduler counters
    registry,                    \* SchedulerRegistry::sessions
    closed, sourceEnded,         \* WatchSession flags
    active, activated,           \* WatchSession::active_queries, activated
    queries,                     \* WatchSessionState::queries
    running, exiting,            \* acquisition_running, acquisition_exiting
    stored, cancelled,           \* acquisition_cancel; the thread's own token
    thread, handle,              \* where the acquisition thread is; whether its
                                 \* handle is in WatchThreadOwner
    source,                      \* the capture session behind it
    call,                        \* call[s][c]: where c's close of s is
    pc, ended, held, offered     \* per query: start_query; its terminal
                                 \* outcome; what it holds; saw a frame

gateVars == <<gate, watcher>>
schedulerVars == <<scheduler, toClose>>
countVars == <<queryCount, activeSessions, registry, active, activated>>
flagVars == <<closed, sourceEnded>>
acquisitionVars == <<running, exiting, stored, cancelled, thread, handle>>
queryVars == <<pc, ended, held, offered>>
vars == <<gateVars, schedulerVars, countVars, flagVars, queries,
          acquisitionVars, source, call, queryVars>>

(* Who may close a session: its callers, a query that is refused, and the  *)
(* engine.                                                                 *)
Closers == Queries \cup Callers \cup {Engine}

Init ==
    /\ gate = [s \in Sessions |-> FALSE] /\ watcher = [s \in Sessions |-> FALSE]
    /\ scheduler = "open" /\ toClose = {}
    /\ queryCount = 0 /\ activeSessions = 0 /\ registry = {}
    /\ closed = [s \in Sessions |-> FALSE] /\ sourceEnded = [s \in Sessions |-> FALSE]
    /\ active = [s \in Sessions |-> 0] /\ activated = [s \in Sessions |-> FALSE]
    /\ queries = [s \in Sessions |-> {}]
    /\ running = [s \in Sessions |-> FALSE] /\ exiting = [s \in Sessions |-> FALSE]
    /\ stored = [s \in Sessions |-> "none"] /\ cancelled = [s \in Sessions |-> FALSE]
    /\ thread = [s \in Sessions |-> "none"] /\ handle = [s \in Sessions |-> FALSE]
    /\ source = [s \in Sessions |-> "open"]
    /\ call = [s \in Sessions |-> [c \in Closers |-> "idle"]]
    /\ pc = [q \in Queries |-> "new"] /\ ended = [q \in Queries |-> FALSE]
    /\ held = [q \in Queries |-> "nothing"] /\ offered = [q \in Queries |-> FALSE]

SchedulerClosed == scheduler # "open"
Shut(s) == closed[s] \/ sourceEnded[s] \/ SchedulerClosed
AcceptsWork(s) == ~gate[s] /\ source[s] = "open"
Goto(q, label) == pc' = [pc EXCEPT ![q] = label]
Call(s, c, label) == call' = [call EXCEPT ![s][c] = label]

(* Who spawns a thread holds the state lock of the session from its last   *)
(* look at the flags until the thread is registered.                       *)
Unlocked(s) == \A q \in Queries : Of[q] = s => pc[q] # "spawning"

(* CancellationToken::cancel on acquisition_cancel: it reaches the thread  *)
(* only if the stored token is the one the thread waits with.              *)
CancelStored(s) ==
    cancelled' = [cancelled EXCEPT ![s] = @ \/ stored[s] = "own"]

-----------------------------------------------------------------------------
(* Session::start_template_watch.                                          *)

(* The first test of the gate.                                             *)
Admit(q) ==
    /\ pc[q] = "new"
    /\ Goto(q, IF AcceptsWork(Of[q]) THEN "admitted" ELSE "refused")
    /\ UNCHANGED <<gateVars, schedulerVars, countVars, flagVars, queries,
                   acquisitionVars, source, call, ended, held, offered>>

(* get_or_init of the watcher.                                             *)
InitWatcher(q) ==
    /\ pc[q] = "admitted"
    /\ Goto(q, "watched")
    /\ watcher' = [watcher EXCEPT ![Of[q]] = TRUE]
    /\ UNCHANGED <<gate, schedulerVars, countVars, flagVars, queries,
                   acquisitionVars, source, call, ended, held, offered>>

(* Mutant of Readmit: the gate is not tested again.                        *)
ReadmitUntested(q) ==
    /\ pc[q] = "watched"
    /\ Goto(q, "starting")
    /\ UNCHANGED <<gateVars, schedulerVars, countVars, flagVars, queries,
                   acquisitionVars, source, call, ended, held, offered>>

(* The second test: a close that began meanwhile may have missed the       *)
(* watcher, so the caller closes it.                                       *)
Readmit(q) ==
    /\ pc[q] = "watched"
    /\ IF AcceptsWork(Of[q])
         THEN Goto(q, "starting") /\ UNCHANGED call
         ELSE Goto(q, "refused") /\ Call(Of[q], q, "called")
    /\ UNCHANGED <<gateVars, schedulerVars, countVars, flagVars, queries,
                   acquisitionVars, source, ended, held, offered>>

-----------------------------------------------------------------------------
(* WatchSession::start_query.                                              *)

ReserveEngine(q) ==
    /\ pc[q] = "starting"
    /\ IF Shut(Of[q]) \/ queryCount >= MaxEngine
         THEN Goto(q, "refused") /\ UNCHANGED <<queryCount, held>>
         ELSE /\ Goto(q, "reserved")
              /\ queryCount' = queryCount + 1
              /\ held' = [held EXCEPT ![q] = "engine"]
    /\ UNCHANGED <<gateVars, schedulerVars, activeSessions, registry, active, activated,
                   flagVars, queries, acquisitionVars, source, call, ended, offered>>

(* reserve_query_slot, under the activation lock: the first query of an    *)
(* inactive session also reserves one of the active sessions.              *)
Activates(s) == active[s] = 0 /\ ~activated[s]

ReserveSlot(q) ==
    /\ pc[q] = "reserved"
    /\ LET s == Of[q] IN
       IF \/ Shut(s)
          \/ active[s] >= MaxSession
          \/ Activates(s) /\ activeSessions >= MaxActive
         THEN Goto(q, "unreserve")
              /\ UNCHANGED <<activeSessions, registry, active, activated, held>>
         ELSE /\ Goto(q, "slotted")
              /\ activeSessions' = activeSessions + (IF Activates(s) THEN 1 ELSE 0)
              /\ activated' = [activated EXCEPT ![s] = TRUE]
              /\ registry' = IF Activates(s) THEN registry \cup {s} ELSE registry
              /\ active' = [active EXCEPT ![s] = @ + 1]
              /\ held' = [held EXCEPT ![q] = "slot"]
    /\ UNCHANGED <<gateVars, schedulerVars, queryCount, flagVars, queries,
                   acquisitionVars, source, call, ended, offered>>

(* The refusal of the slot gives the engine reservation back.              *)
(* Mutant of Unreserve: the engine reservation is forgotten.               *)
UnreserveNothing(q) ==
    /\ pc[q] = "unreserve"
    /\ Goto(q, "refused")
    /\ held' = [held EXCEPT ![q] = "nothing"]
    /\ UNCHANGED <<gateVars, schedulerVars, countVars, flagVars, queries,
                   acquisitionVars, source, call, ended, offered>>

Unreserve(q) ==
    /\ pc[q] = "unreserve"
    /\ Goto(q, "refused")
    /\ queryCount' = queryCount - 1
    /\ held' = [held EXCEPT ![q] = "nothing"]
    /\ UNCHANGED <<gateVars, schedulerVars, activeSessions, registry, active, activated,
                   flagVars, queries, acquisitionVars, source, call, ended, offered>>

(* Publication to the caller fails if its context was interrupted; then    *)
(* the query is registered under the state lock unless a close or the end  *)
(* of the source came first.  A query that is not published is terminated. *)
Register(q) ==
    /\ pc[q] = "slotted"
    /\ Unlocked(Of[q])
    /\ \/ /\ ~Shut(Of[q])
          /\ Goto(q, "registered")
          /\ queries' = [queries EXCEPT ![Of[q]] = @ \cup {q}]
          /\ UNCHANGED ended
       \/ /\ Goto(q, "refused")
          /\ ended' = [ended EXCEPT ![q] = TRUE]
          /\ UNCHANGED queries
    /\ UNCHANGED <<gateVars, schedulerVars, countVars, flagVars, acquisitionVars,
                   source, call, held, offered>>

(* ensure_acquisition, under the state lock: wait for a thread that is     *)
(* leaving, refresh one that stays, or go on to spawn one.                 *)
(* Mutant of EnsureAcquisition: a thread that leaves passes for one that   *)
(* stays.                                                                  *)
EnsureAcquisitionEager(q) ==
    /\ pc[q] = "registered"
    /\ Unlocked(Of[q])
    /\ IF Shut(Of[q])
         THEN /\ Goto(q, "refused")
              /\ ended' = [ended EXCEPT ![q] = TRUE]
              /\ UNCHANGED cancelled
         ELSE /\ IF running[Of[q]] THEN Goto(q, "live") /\ CancelStored(Of[q])
                 ELSE Goto(q, "spawning") /\ UNCHANGED cancelled
              /\ UNCHANGED ended
    /\ UNCHANGED <<gateVars, schedulerVars, countVars, flagVars, queries, running,
                   exiting, stored, thread, handle, source, call, held, offered>>

(* Mutant of EnsureAcquisition: the waiting thread is left alone.          *)
EnsureAcquisitionQuiet(q) ==
    /\ pc[q] = "registered"
    /\ Unlocked(Of[q]) /\ ~(running[Of[q]] /\ exiting[Of[q]])
    /\ IF Shut(Of[q])
         THEN Goto(q, "refused") /\ ended' = [ended EXCEPT ![q] = TRUE]
         ELSE Goto(q, IF running[Of[q]] THEN "live" ELSE "spawning") /\ UNCHANGED ended
    /\ UNCHANGED <<gateVars, schedulerVars, countVars, flagVars, queries,
                   acquisitionVars, source, call, held, offered>>

EnsureAcquisition(q) ==
    /\ pc[q] = "registered"
    /\ LET s == Of[q] IN
       /\ Unlocked(s) /\ ~(running[s] /\ exiting[s])
       /\ IF Shut(s)
            THEN /\ Goto(q, "refused")
                 /\ ended' = [ended EXCEPT ![q] = TRUE]
                 /\ UNCHANGED cancelled
            ELSE /\ IF running[s] THEN Goto(q, "live") /\ CancelStored(s)
                    ELSE Goto(q, "spawning") /\ UNCHANGED cancelled
                 /\ UNCHANGED ended
    /\ UNCHANGED <<gateVars, schedulerVars, countVars, flagVars, queries, running,
                   exiting, stored, thread, handle, source, call, held, offered>>

(* The new thread's handle takes the place of the last one's, which the    *)
(* caller joins if nobody has: that thread has left already.               *)
Spawn(q) ==
    /\ pc[q] = "spawning"
    /\ Goto(q, "live")
    /\ LET s == Of[q] IN
       /\ running' = [running EXCEPT ![s] = TRUE]
       /\ stored' = [stored EXCEPT ![s] = "own"]
       /\ cancelled' = [cancelled EXCEPT ![s] = FALSE]
       /\ thread' = [thread EXCEPT ![s] = "top"]
       /\ handle' = [handle EXCEPT ![s] = TRUE]
    /\ UNCHANGED <<gateVars, schedulerVars, countVars, flagVars, queries, exiting,
                   source, call, ended, held, offered>>

-----------------------------------------------------------------------------
(* The end of a query and the release of what it holds.                    *)

(* The query matches, fails, expires, is cancelled or interrupted.         *)
EndQuery(q) ==
    /\ pc[q] \in {"registered", "spawning", "live"} /\ ~ended[q]
    /\ ended' = [ended EXCEPT ![q] = TRUE]
    /\ UNCHANGED <<gateVars, schedulerVars, countVars, flagVars, queries,
                   acquisitionVars, source, call, pc, held, offered>>

(* release_reservation: first the engine reservation.                      *)
ReleaseEngine(q) ==
    /\ ended[q] /\ held[q] = "slot"
    /\ queryCount' = queryCount - 1
    /\ held' = [held EXCEPT ![q] = "slot only"]
    /\ UNCHANGED <<gateVars, schedulerVars, activeSessions, registry, active, activated,
                   flagVars, queries, acquisitionVars, source, call, pc, ended, offered>>

(* deactivate_locked.                                                      *)
Deactivated(s) ==
    /\ activated' = [activated EXCEPT ![s] = FALSE]
    /\ activeSessions' = activeSessions - (IF activated[s] THEN 1 ELSE 0)
    /\ registry' = IF activated[s] THEN registry \ {s} ELSE registry

(* Mutant of ReleaseSlot: deactivation is left to the thread.              *)
ReleaseSlotOnly(q) ==
    /\ ended[q] /\ held[q] = "slot only" /\ Unlocked(Of[q])
    /\ LET s == Of[q] IN
       /\ active' = [active EXCEPT ![s] = @ - 1]
       /\ queries' = [queries EXCEPT ![s] = @ \ {q}]
       /\ IF active[s] = 1 THEN CancelStored(s) ELSE UNCHANGED cancelled
    /\ held' = [held EXCEPT ![q] = "nothing"]
    /\ UNCHANGED <<gateVars, schedulerVars, queryCount, activated, activeSessions,
                   registry, flagVars, running, exiting, stored, thread, handle,
                   source, call, pc, ended, offered>>

(* release_query_slot, under the activation lock, and unregister_query:    *)
(* the last query asks the thread to stop, and deactivates the session     *)
(* unless a thread is there to do it.                                      *)
ReleaseSlot(q) ==
    /\ ended[q] /\ held[q] = "slot only" /\ Unlocked(Of[q])
    /\ LET s == Of[q] IN
       /\ active' = [active EXCEPT ![s] = @ - 1]
       /\ queries' = [queries EXCEPT ![s] = @ \ {q}]
       /\ IF active[s] = 1 THEN CancelStored(s) ELSE UNCHANGED cancelled
       /\ IF active[s] = 1 /\ ~running[s]
            THEN Deactivated(s)
            ELSE UNCHANGED <<activated, activeSessions, registry>>
    /\ held' = [held EXCEPT ![q] = "nothing"]
    /\ UNCHANGED <<gateVars, schedulerVars, queryCount, flagVars, running, exiting,
                   stored, thread, handle, source, call, pc, ended, offered>>

-----------------------------------------------------------------------------
(* acquisition_loop.                                                       *)

At(s, label) == thread[s] = label
Move(s, label) == thread' = [thread EXCEPT ![s] = label]

Leaving(s) == closed[s] \/ sourceEnded[s] \/ active[s] = 0

(* The top of the loop, under the state lock.                              *)
LoopTop(s) ==
    /\ At(s, "top")
    /\ IF Leaving(s)
         THEN Move(s, "leaving") /\ exiting' = [exiting EXCEPT ![s] = TRUE]
         ELSE Move(s, IF cancelled[s] THEN "renew" ELSE "ask") /\ UNCHANGED exiting
    /\ UNCHANGED <<gateVars, schedulerVars, countVars, flagVars, queries, running,
                   stored, cancelled, handle, source, call, queryVars>>

(* A fresh token, which nobody else knows until it is stored.              *)
RenewToken(s) ==
    /\ At(s, "renew")
    /\ Move(s, "store")
    /\ stored' = [stored EXCEPT ![s] = IF @ = "own" THEN "old" ELSE @]
    /\ cancelled' = [cancelled EXCEPT ![s] = FALSE]
    /\ UNCHANGED <<gateVars, schedulerVars, countVars, flagVars, queries, running,
                   exiting, handle, source, call, queryVars>>

StoreToken(s) ==
    /\ At(s, "store")
    /\ IF Leaving(s)
         THEN /\ Move(s, "leaving")
              /\ exiting' = [exiting EXCEPT ![s] = TRUE]
              /\ UNCHANGED stored
         ELSE /\ Move(s, "ask")
              /\ stored' = [stored EXCEPT ![s] = "own"]
              /\ UNCHANGED exiting
    /\ UNCHANGED <<gateVars, schedulerVars, countVars, flagVars, queries, running,
                   cancelled, handle, source, call, queryVars>>

(* needs_current over the registered queries decides what is asked.        *)
NeedsCurrent(q) == ~ended[q] /\ ~offered[q]

Ask(s) ==
    /\ At(s, "ask")
    /\ Move(s, IF \E q \in queries[s] : NeedsCurrent(q) THEN "latest" ELSE "newer")
    /\ UNCHANGED <<gateVars, schedulerVars, countVars, flagVars, queries, running,
                   exiting, stored, cancelled, handle, source, call, queryVars>>

(* CaptureSession::frame gives a frame, and publish offers it to all the   *)
(* registered queries.                                                     *)
Publish(s, label) ==
    /\ At(s, label) /\ source[s] = "open"
    /\ Move(s, "top")
    /\ offered' = [q \in Queries |-> offered[q] \/ q \in queries[s]]
    /\ UNCHANGED <<gateVars, schedulerVars, countVars, flagVars, queries, running,
                   exiting, stored, cancelled, handle, source, call, pc, ended, held>>

PublishLatest(s) == Publish(s, "latest")
PublishNewer(s) == Publish(s, "newer")

(* The token ends the wait: the loop goes on, unless the session closed.   *)
WaitCancelled(s) ==
    /\ thread[s] \in {"latest", "newer"} /\ cancelled[s]
    /\ Move(s, IF closed[s] THEN "leaving" ELSE "top")
    /\ UNCHANGED <<gateVars, schedulerVars, countVars, flagVars, queries, running,
                   exiting, stored, cancelled, handle, source, call, queryVars>>

(* The wait reports the end of capture.                                    *)
SourceEnds(s) ==
    /\ thread[s] \in {"latest", "newer"} /\ source[s] # "open"
    /\ IF closed[s]
         THEN Move(s, "leaving") /\ UNCHANGED sourceEnded
         ELSE /\ Move(s, "ending")
              /\ sourceEnded' = [sourceEnded EXCEPT ![s] = TRUE]
    /\ UNCHANGED <<gateVars, schedulerVars, countVars, closed, queries, running,
                   exiting, stored, cancelled, handle, source, call, queryVars>>

(* terminate_queries, or terminate_idle_queries: some are left to finish.  *)
EndRegistered(s) ==
    /\ At(s, "ending")
    /\ Move(s, "finished")
    /\ \E idle \in SUBSET queries[s] :
          /\ source[s] = "lost" => idle = queries[s]
          /\ ended' = [q \in Queries |-> ended[q] \/ q \in idle]
    /\ UNCHANGED <<gateVars, schedulerVars, countVars, flagVars, queries, running,
                   exiting, stored, cancelled, handle, source, call, pc, held,
                   offered>>

(* deactivate_if_finished, by the thread or by the closer.                 *)
DeactivateIfFinished(s) ==
    IF active[s] = 0
      THEN /\ CancelStored(s)
           /\ IF running[s] THEN UNCHANGED <<activated, activeSessions, registry>>
              ELSE Deactivated(s)
      ELSE UNCHANGED <<cancelled, activated, activeSessions, registry>>

AfterSource(s) ==
    /\ At(s, "finished")
    /\ Move(s, "leaving")
    /\ DeactivateIfFinished(s)
    /\ UNCHANGED <<gateVars, schedulerVars, queryCount, active, flagVars, queries,
                   running, exiting, stored, handle, source, call, queryVars>>

(* The last step of the thread, under the activation and state locks.      *)
Leave(s) ==
    /\ At(s, "leaving")
    /\ Move(s, "none")
    /\ IF active[s] = 0 THEN Deactivated(s)
       ELSE UNCHANGED <<activated, activeSessions, registry>>
    /\ running' = [running EXCEPT ![s] = FALSE]
    /\ exiting' = [exiting EXCEPT ![s] = FALSE]
    /\ stored' = [stored EXCEPT ![s] = "none"]
    /\ UNCHANGED <<gateVars, schedulerVars, queryCount, active, flagVars, queries,
                   cancelled, handle, source, call, queryVars>>

(* The capture session ends, on its own or closed by Session::close, whose *)
(* caller has closed the watcher before.                                   *)
CaptureEnds(s, kind) ==
    /\ \/ kind \in Disturbances
       \/ kind = "closed" /\ \E k \in Callers : call[s][k] = "done"
    /\ source[s] = "open"
    /\ source' = [source EXCEPT ![s] = kind]
    /\ UNCHANGED <<gateVars, schedulerVars, countVars, flagVars, queries,
                   acquisitionVars, call, queryVars>>

-----------------------------------------------------------------------------
(* Close.                                                                  *)

(* Session::close raises the gate, then closes the watcher if there is one.*)
FacadeGate(s, k) ==
    /\ "facade" \in Disturbances
    /\ call[s][k] = "idle"
    /\ Call(s, k, "gated")
    /\ gate' = [gate EXCEPT ![s] = TRUE]
    /\ UNCHANGED <<watcher, schedulerVars, countVars, flagVars, queries,
                   acquisitionVars, source, queryVars>>

FacadeRead(s, k) ==
    /\ call[s][k] = "gated"
    /\ Call(s, k, IF watcher[s] THEN "called" ELSE "done")
    /\ UNCHANGED <<gateVars, schedulerVars, countVars, flagVars, queries,
                   acquisitionVars, source, queryVars>>

(* WatchScheduler::close seals the scheduler, takes the registry and       *)
(* closes each session in it, one after the other.                         *)
SealScheduler ==
    /\ "scheduler" \in Disturbances
    /\ scheduler = "open"
    /\ scheduler' = "sealed"
    /\ UNCHANGED <<gateVars, toClose, countVars, flagVars, queries, acquisitionVars,
                   source, call, queryVars>>

TakeSessions ==
    /\ scheduler = "sealed"
    /\ scheduler' = "closing"
    /\ toClose' = registry
    /\ registry' = {}
    /\ UNCHANGED <<gateVars, queryCount, activeSessions, active, activated, flagVars,
                   queries, acquisitionVars, source, call, queryVars>>

Calling(s, c) == call[s][c] \notin {"idle", "done"}

SchedulerCloses(s) ==
    /\ s \in toClose
    /\ \A t \in Sessions : ~Calling(t, Engine)
    /\ toClose' = toClose \ {s}
    /\ Call(s, Engine, "called")
    /\ UNCHANGED <<gateVars, scheduler, countVars, flagVars, queries, acquisitionVars,
                   source, queryVars>>

(* WatchSession::close: the first caller ends the queries; every caller    *)
(* joins the acquisition thread.                                           *)
CloseCalled(s, c) ==
    /\ call[s][c] = "called"
    /\ Call(s, c, IF closed[s] THEN "join" ELSE "cancel")
    /\ closed' = [closed EXCEPT ![s] = TRUE]
    /\ UNCHANGED <<gateVars, schedulerVars, countVars, sourceEnded, queries,
                   acquisitionVars, source, queryVars>>

Closes(s, c, from, to) == call[s][c] = from /\ Call(s, c, to)

(* Mutant of CloseCancel: the token is dropped without being cancelled.    *)
CloseForget(s, c) ==
    /\ Closes(s, c, "cancel", "terminate")
    /\ Unlocked(s)
    /\ stored' = [stored EXCEPT ![s] = "none"]
    /\ UNCHANGED <<gateVars, schedulerVars, countVars, flagVars, queries, running,
                   exiting, cancelled, thread, handle, source, queryVars>>

CloseCancel(s, c) ==
    /\ Closes(s, c, "cancel", "terminate")
    /\ Unlocked(s)
    /\ CancelStored(s)
    /\ stored' = [stored EXCEPT ![s] = "none"]
    /\ UNCHANGED <<gateVars, schedulerVars, countVars, flagVars, queries, running,
                   exiting, thread, handle, source, queryVars>>

CloseTerminate(s, c) ==
    /\ Closes(s, c, "terminate", "deactivate")
    /\ Unlocked(s)
    /\ ended' = [q \in Queries |-> ended[q] \/ q \in queries[s]]
    /\ UNCHANGED <<gateVars, schedulerVars, countVars, flagVars, queries,
                   acquisitionVars, source, pc, held, offered>>

CloseDeactivate(s, c) ==
    /\ Closes(s, c, "deactivate", "join")
    /\ Unlocked(s)
    /\ DeactivateIfFinished(s)
    /\ UNCHANGED <<gateVars, schedulerVars, queryCount, active, flagVars, queries,
                   running, exiting, stored, thread, handle, source, queryVars>>

(* join_acquisitions takes the handle of the thread out of the list, waits *)
(* for the thread and looks again.  A caller that finds no handle returns, *)
(* although another that took it may still wait.                           *)
TakeHandle(s, c) ==
    /\ call[s][c] = "join"
    /\ Call(s, c, IF ~handle[s] THEN "done"
                  ELSE IF At(s, "none") THEN "join" ELSE "joining")
    /\ handle' = [handle EXCEPT ![s] = FALSE]
    /\ UNCHANGED <<gateVars, schedulerVars, countVars, flagVars, queries, running,
                   exiting, stored, cancelled, thread, source, queryVars>>

JoinThread(s, c) ==
    /\ Closes(s, c, "joining", "join")
    /\ At(s, "none")
    /\ UNCHANGED <<gateVars, schedulerVars, countVars, flagVars, queries,
                   acquisitionVars, source, queryVars>>

-----------------------------------------------------------------------------
Start(q) ==
    \/ InitWatcher(q) \/ Readmit(q) \/ ReserveEngine(q) \/ ReserveSlot(q)
    \/ Unreserve(q) \/ Register(q) \/ EnsureAcquisition(q) \/ Spawn(q)

Release(q) == ReleaseEngine(q) \/ ReleaseSlot(q)

Acquire(s) ==
    \/ LoopTop(s) \/ RenewToken(s) \/ StoreToken(s) \/ Ask(s)
    \/ PublishLatest(s) \/ WaitCancelled(s) \/ SourceEnds(s)
    \/ EndRegistered(s) \/ AfterSource(s) \/ Leave(s)

CloseStep(s, c) ==
    \/ CloseCalled(s, c) \/ CloseCancel(s, c) \/ CloseTerminate(s, c)
    \/ CloseDeactivate(s, c) \/ TakeHandle(s, c) \/ JoinThread(s, c)

Next ==
    \/ \E q \in Queries : Admit(q) \/ Start(q) \/ EndQuery(q) \/ Release(q)
    \/ \E s \in Sessions : Acquire(s) \/ PublishNewer(s) \/ SchedulerCloses(s)
    \/ \E s \in Sessions, k \in Callers : FacadeGate(s, k) \/ FacadeRead(s, k)
    \/ \E s \in Sessions, c \in Closers : CloseStep(s, c)
    \/ \E s \in Sessions, kind \in {"lost", "closed"} : CaptureEnds(s, kind)
    \/ SealScheduler \/ TakeSessions

Spec == Init /\ [][Next]_vars

(* The threads run on and a capture that has a current frame returns it;   *)
(* nothing makes a newer frame arrive.  A query that is refused closes the *)
(* session with the thread that started it.                                *)
Fairness ==
    /\ \A q \in Queries : WF_vars(Start(q) \/ CloseStep(Of[q], q)) /\ WF_vars(Release(q))
    /\ \A s \in Sessions : WF_vars(Acquire(s))
    /\ \A s \in Sessions, k \in Callers : WF_vars(FacadeRead(s, k) \/ CloseStep(s, k))
    /\ WF_vars(TakeSessions \/ \E s \in Sessions : SchedulerCloses(s) \/ CloseStep(s, Engine))

FairSpec == Spec /\ Fairness

-----------------------------------------------------------------------------
(* Properties.                                                             *)

(* The state keeps its shape.                                              *)
SchedulerType ==
    /\ scheduler \in {"open", "sealed", "closing"} /\ toClose \subseteq Sessions
    /\ queryCount \in Nat /\ activeSessions \in Nat /\ registry \subseteq Sessions

Calls == {"idle", "gated", "called", "cancel", "terminate", "deactivate", "join",
          "joining", "done"}

SessionType ==
    /\ gate \in [Sessions -> BOOLEAN] /\ watcher \in [Sessions -> BOOLEAN]
    /\ closed \in [Sessions -> BOOLEAN] /\ sourceEnded \in [Sessions -> BOOLEAN]
    /\ active \in [Sessions -> Nat] /\ activated \in [Sessions -> BOOLEAN]
    /\ queries \in [Sessions -> SUBSET Queries]
    /\ source \in [Sessions -> {"open", "lost", "closed"}]
    /\ call \in [Sessions -> [Closers -> Calls]]

Places == {"none", "top", "renew", "store", "ask", "latest", "newer", "ending",
           "finished", "leaving"}

AcquisitionType ==
    /\ running \in [Sessions -> BOOLEAN] /\ exiting \in [Sessions -> BOOLEAN]
    /\ stored \in [Sessions -> {"none", "own", "old"}]
    /\ cancelled \in [Sessions -> BOOLEAN]
    /\ thread \in [Sessions -> Places] /\ handle \in [Sessions -> BOOLEAN]

Points == {"new", "admitted", "watched", "starting", "reserved", "unreserve",
           "slotted", "registered", "spawning", "live", "refused"}
Holdings == {"nothing", "engine", "slot", "slot only"}

QueryType ==
    /\ pc \in [Queries -> Points] /\ held \in [Queries -> Holdings]
    /\ ended \in [Queries -> BOOLEAN] /\ offered \in [Queries -> BOOLEAN]

TypeOK == SchedulerType /\ SessionType /\ AcquisitionType /\ QueryType

EngineHolders == {q \in Queries : held[q] \in {"engine", "slot"}}
SlotHolders(s) == {q \in Queries : Of[q] = s /\ held[q] \in {"slot", "slot only"}}

(* The counters are what the queries hold, each is within its limit, and   *)
(* none goes below zero: whatever ends a query, in whatever order, gives   *)
(* back exactly what start_query took.                                     *)
CountsExact ==
    /\ queryCount = Cardinality(EngineHolders) /\ queryCount <= MaxEngine
    /\ \A s \in Sessions : /\ active[s] = Cardinality(SlotHolders(s))
                           /\ active[s] <= MaxSession
    /\ activeSessions = Cardinality({s \in Sessions : activated[s]})
    /\ activeSessions <= MaxActive

(* The session's own acquisition thread serves a started query: a query is *)
(* never handed to a thread that already decided to leave.                 *)
LiveIsAcquired ==
    \A q \in Queries :
        LET s == Of[q] IN
        pc[q] = "live" /\ ~ended[q] /\ ~closed[s] /\ ~sourceEnded[s] =>
            running[s] /\ ~exiting[s] /\ thread[s] # "none"

(* Once a close has returned and no other is under way, no query of the    *)
(* session lives and its acquisition thread is gone: a caller that finds   *)
(* the thread's handle taken returns before the one that joins, and a      *)
(* close that missed the watcher is made up for by the query that made it. *)
CloseIsComplete ==
    \A s \in Sessions :
        (\E c \in Closers : call[s][c] = "done") /\ (\A c \in Closers : ~Calling(s, c)) =>
            /\ thread[s] = "none"
            /\ \A q \in Queries :
                  Of[q] = s /\ pc[q] \in {"registered", "spawning", "live"} => ended[q]

(* What the acquisition thread owes to queries and to a close.             *)
ThreadServesSession == TypeOK /\ LiveIsAcquired /\ CloseIsComplete

(* A started query is offered the current frame even if no newer frame     *)
(* ever comes: the refresh that start_query asks for is not lost.          *)
NewQueryIsOffered ==
    \A q \in Queries :
        (pc[q] = "live" /\ ~ended[q]) ~>
            (offered[q] \/ ended[q] \/ source[Of[q]] # "open" \/ closed[Of[q]])

(* A session whose last query has gone is deactivated, unless another      *)
(* query comes: by that query or by the thread that leaves last.           *)
IdleIsDeactivated ==
    \A s \in Sessions : (activated[s] /\ active[s] = 0) ~> (~activated[s] \/ active[s] > 0)

(* The acquisition of a session starts and stops with its queries.         *)
AcquisitionFollows == NewQueryIsOffered /\ IdleIsDeactivated

(* Every close call returns, whoever joins the thread.                     *)
CloseReturns ==
    \A s \in Sessions : \A c \in Closers : Calling(s, c) ~> call[s][c] = "done"
=============================================================================
