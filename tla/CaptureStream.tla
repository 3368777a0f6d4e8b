--------------------------- MODULE CaptureStream ---------------------------
(***************************************************************************)
(* The published state of one capture stream                               *)
(* (crates/automation/capture/src/stream.rs, StreamState): an adapter      *)
(* publishes frames and records dropped candidates, consumers ask for      *)
(* frames and wait, closers drain, and a fault may end capture at any time.*)
(*                                                                         *)
(* Critical sections of the stream mutex are single steps, except a        *)
(* publication: it reads `pending_drops` when it prepares and subtracts    *)
(* when it commits, and the lock-free try_record_drop runs in between.     *)
(* The condition variable is waited on with a timeout everywhere, so a     *)
(* waiter may wake at any time and a notification adds no behaviour.       *)
(***************************************************************************)
EXTENDS FrameIdentity, Sequences, FiniteSets

CONSTANTS
    Consumers,   \* threads that call frame() and commit_frame()
    Closers,     \* threads that call drain() or begin_close()
    Faults, NoFault,
    Scales,      \* the <<shape, placement>> pairs that with_target accepts
    MaxDrops,    \* stands for u64::MAX of pending_drops
    NoFrame, NoPublication

PreparedPublications == [frame : Frames, cursor : Cursors, consumed : Nat]

ASSUME StreamAssumption ==
    /\ IsFiniteSet(Consumers)
    /\ MaxDrops \in Nat
    /\ NoFault \notin Faults
    /\ NoFrame \notin Frames
    /\ NoPublication \notin PreparedPublications
    /\ Scales \subseteq Shapes \X Placements
    /\ Faults \cap {"none", "ok", "Interrupted", "SessionClosed", "ForeignStream"} = {}

VARIABLES
    cursor, geometry, latest, lifecycle, waiters, terminal,  \* Inner
    pendingDrops, publishedAny, acceptingDrops,              \* the atomics
    publishing,   \* the publication that holds the mutex between its steps
    recorder,     \* where the try_record_drop call is
    ending,       \* the fault of a terminate call not yet at the mutex
    pc, want, picked, stopped, held, out,                    \* consumers
    closerPc, closerStopped,                                 \* closers
    log, recorded \* history: the frames published, the drops accounted

innerVars == <<cursor, geometry, latest, lifecycle, waiters, terminal>>
atomics == <<pendingDrops, publishedAny, acceptingDrops>>
consumerVars == <<pc, want, picked, stopped, held, out>>
closerVars == <<closerPc, closerStopped>>
history == <<log, recorded>>
vars == <<innerVars, atomics, publishing, recorder, ending, consumerVars,
          closerVars, history>>

Requests == {"Latest", "Newer", "Foreign", "Commit", "CommitForeign"}
Continuities == {"Continuous", "GeometryChanged", "Discontinuous"}
Publications == [shape : Shapes, placement : Placements,
                 continuity : Continuities]
Idle == "idle"

Init ==
    /\ cursor = FirstCursor
    /\ geometry = 0
    /\ latest = NoFrame
    /\ lifecycle = "Open"
    /\ waiters = 0
    /\ terminal = NoFault
    /\ pendingDrops = 0
    /\ publishedAny = FALSE
    /\ acceptingDrops = TRUE
    /\ publishing = NoPublication
    /\ recorder = Idle
    /\ ending = NoFault
    /\ pc = [c \in Consumers |-> Idle]
    /\ want = [c \in Consumers |-> "Latest"]
    /\ picked = [c \in Consumers |-> NoFrame]
    /\ stopped = [c \in Consumers |-> FALSE]
    /\ held = [c \in Consumers |-> NoFrame]
    /\ out = [c \in Consumers |-> "none"]
    /\ closerPc = [d \in Closers |-> Idle]
    /\ closerStopped = [d \in Closers |-> FALSE]
    /\ log = <<>>
    /\ recorded = 0

MutexFree == publishing = NoPublication

(* Mutant of Ended: a consumer is only released by the end of the drain.    *)
EndedWhenClosed == lifecycle = "Closed"

Ended == terminal # NoFault \/ lifecycle # "Open"

(* The terminal fault outranks the closed outcome.                         *)
EndOutcome == IF terminal # NoFault THEN terminal ELSE "SessionClosed"

-----------------------------------------------------------------------------
(* Publication: prepare, then commit_with.                                 *)

Resolve(p) ==
    CASE latest # NoFrame /\ latest.shape # p.shape -> "Discontinuous"
      [] /\ latest # NoFrame /\ latest.shape = p.shape
         /\ latest.placement # p.placement
         /\ p.continuity = "Continuous" -> "GeometryChanged"
      [] OTHER -> p.continuity

BeginsEpoch(p) == Resolve(p) = "Discontinuous" /\ latest # NoFrame

NextGeometry(p) == IF Resolve(p) = "Continuous" THEN geometry ELSE geometry + 1

ConsumedDrops(p) ==
    IF latest # NoFrame /\ ~BeginsEpoch(p) THEN pendingDrops ELSE 0

PreparedCursor(p) ==
    IF BeginsEpoch(p) THEN BeginEpoch(cursor)
    ELSE Skip(cursor, ConsumedDrops(p))

AcceptsLate(p) ==
    /\ NextGeometry(p) <= MaxGeometry
    /\ IF BeginsEpoch(p) THEN CanBeginEpoch(cursor)
       ELSE CanSkip(cursor, ConsumedDrops(p))
    /\ CanStamp(PreparedCursor(p))

(* Every rule that can refuse a publication.                               *)
Accepts(p) ==
    /\ ~Ended
    /\ NextGeometry(p) <= MaxGeometry
    /\ IF BeginsEpoch(p) THEN CanBeginEpoch(cursor)
       ELSE CanSkip(cursor, ConsumedDrops(p))
    /\ CanStamp(PreparedCursor(p))
    /\ <<p.shape, p.placement>> \in Scales

Prepared(p) ==
    [frame |-> [epoch |-> PreparedCursor(p).epoch,
                sequence |-> PreparedCursor(p).next,
                geometry |-> NextGeometry(p),
                shape |-> p.shape, placement |-> p.placement],
     cursor |-> AfterStamp(PreparedCursor(p)),
     consumed |-> ConsumedDrops(p)]

PublishPrepare(p) ==
    /\ MutexFree
    /\ Accepts(p)
    /\ publishing' = Prepared(p)
    /\ UNCHANGED <<innerVars, atomics, recorder, ending, consumerVars,
                   closerVars, history>>

(* Mutant of PublishCommit: the counter is stored, not subtracted from.    *)
PublishCommitStoring ==
    /\ ~MutexFree
    /\ cursor' = publishing.cursor
    /\ geometry' = publishing.frame.geometry
    /\ latest' = publishing.frame
    /\ pendingDrops' = IF publishing.consumed > 0 THEN 0 ELSE pendingDrops
    /\ publishedAny' = TRUE
    /\ log' = Append(log, publishing.frame)
    /\ publishing' = NoPublication
    /\ UNCHANGED <<lifecycle, waiters, terminal, acceptingDrops, recorder,
                   ending, consumerVars, closerVars, recorded>>

PublishCommit ==
    /\ ~MutexFree
    /\ cursor' = publishing.cursor
    /\ geometry' = publishing.frame.geometry
    /\ latest' = publishing.frame
    /\ pendingDrops' = pendingDrops - publishing.consumed
    /\ publishedAny' = TRUE
    /\ log' = Append(log, publishing.frame)
    /\ publishing' = NoPublication
    /\ UNCHANGED <<lifecycle, waiters, terminal, acceptingDrops, recorder,
                   ending, consumerVars, closerVars, recorded>>

-----------------------------------------------------------------------------
(* try_record_drop: three atomic accesses, no lock.                        *)

RecordAdmit ==
    /\ recorder = Idle
    /\ acceptingDrops
    /\ recorder' = "accepted"
    /\ UNCHANGED <<innerVars, atomics, publishing, ending, consumerVars,
                   closerVars, history>>

RecordObserve ==
    /\ recorder = "accepted"
    /\ recorder' = IF publishedAny THEN "add" ELSE Idle
    /\ UNCHANGED <<innerVars, atomics, publishing, ending, consumerVars,
                   closerVars, history>>

RecordAdd ==
    /\ recorder = "add"
    /\ recorder' = Idle
    /\ IF pendingDrops < MaxDrops
         THEN /\ pendingDrops' = pendingDrops + 1
              /\ recorded' = recorded + 1
         ELSE UNCHANGED <<pendingDrops, recorded>>
    /\ UNCHANGED <<innerVars, publishedAny, acceptingDrops, publishing,
                   ending, consumerVars, closerVars, log>>

-----------------------------------------------------------------------------
(* frame() and commit_frame(), by one consumer.                            *)

QualifiesSame(c) ==
    /\ latest # NoFrame
    /\ want[c] = "Newer" => ~Before(latest, held[c])

Qualifies(c) ==
    /\ latest # NoFrame
    /\ \/ want[c] = "Latest"
       \/ want[c] = "Newer" /\ Before(held[c], latest)

Return(c, outcome) ==
    /\ pc' = [pc EXCEPT ![c] = Idle]
    /\ out' = [out EXCEPT ![c] = outcome]
    /\ picked' = [picked EXCEPT ![c] = NoFrame]
    /\ stopped' = [stopped EXCEPT ![c] = FALSE]
    /\ want' = [want EXCEPT ![c] = "Latest"]

(* Operation::admit succeeded.  NewerThan and commit_frame name a frame    *)
(* this consumer was given earlier, or one of another stream.              *)
Call(c, request) ==
    /\ pc[c] = Idle
    /\ request \in {"Newer", "Commit"} => held[c] # NoFrame
    /\ want' = [want EXCEPT ![c] = request]
    /\ out' = [out EXCEPT ![c] = "none"]
    /\ IF request \in {"Commit", "CommitForeign"}
         THEN /\ pc' = [pc EXCEPT ![c] = "order"]
              /\ picked' = [picked EXCEPT ![c] = held[c]]
         ELSE /\ pc' = [pc EXCEPT ![c] = "check"]
              /\ UNCHANGED picked
    /\ UNCHANGED <<innerVars, atomics, publishing, recorder, ending, stopped,
                   held, closerVars, history>>

(* The context of a running call is cancelled or passes its deadline.      *)
Interrupt(c) ==
    /\ pc[c] # Idle
    /\ ~stopped[c]
    /\ stopped' = [stopped EXCEPT ![c] = TRUE]
    /\ UNCHANGED <<innerVars, atomics, publishing, recorder, ending, pc, want,
                   picked, held, out, closerVars, history>>

CheckEnded(c) ==
    /\ pc[c] = "check" /\ MutexFree /\ Ended
    /\ Return(c, EndOutcome)
    /\ UNCHANGED <<innerVars, atomics, publishing, recorder, ending, held,
                   closerVars, history>>

CheckForeign(c) ==
    /\ pc[c] = "check" /\ MutexFree /\ ~Ended
    /\ want[c] = "Foreign" /\ latest # NoFrame
    /\ Return(c, "ForeignStream")
    /\ UNCHANGED <<innerVars, atomics, publishing, recorder, ending, held,
                   closerVars, history>>

CheckPick(c) ==
    /\ pc[c] = "check" /\ MutexFree /\ ~Ended
    /\ Qualifies(c)
    /\ picked' = [picked EXCEPT ![c] = latest]
    /\ pc' = [pc EXCEPT ![c] = "arbitrate"]
    /\ UNCHANGED <<innerVars, atomics, publishing, recorder, ending, want,
                   stopped, held, out, closerVars, history>>

CheckWait(c) ==
    /\ pc[c] = "check" /\ MutexFree /\ ~Ended
    /\ ~Qualifies(c)
    /\ want[c] = "Foreign" => latest = NoFrame
    /\ waiters' = waiters + 1
    /\ pc' = [pc EXCEPT ![c] = "waiting"]
    /\ UNCHANGED <<cursor, geometry, latest, lifecycle, terminal, atomics,
                   publishing, recorder, ending, want, picked, stopped, held,
                   out, closerVars, history>>

(* wait_timeout returned, by a notification or after POLL_INTERVAL.        *)
Wake(c) ==
    /\ pc[c] = "waiting" /\ MutexFree
    /\ waiters' = waiters - 1
    /\ pc' = [pc EXCEPT ![c] = "checkpoint"]
    /\ UNCHANGED <<cursor, geometry, latest, lifecycle, terminal, atomics,
                   publishing, recorder, ending, want, picked, stopped, held,
                   out, closerVars, history>>

(* The two consultations of the operation context, outside the mutex:      *)
(* checkpoint after a wait, commit before the frame is ordered.            *)
Consult(c) ==
    /\ pc[c] \in {"checkpoint", "arbitrate"}
    /\ IF stopped[c]
         THEN Return(c, "Interrupted")
         ELSE /\ pc' = [pc EXCEPT ![c] =
                            IF @ = "checkpoint" THEN "check" ELSE "order"]
              /\ UNCHANGED <<want, picked, stopped, out>>
    /\ UNCHANGED <<innerVars, atomics, publishing, recorder, ending, held,
                   closerVars, history>>

CommitFrameUnordered(c) ==
    /\ pc[c] = "order" /\ MutexFree
    /\ Return(c, "ok")
    /\ held' = [held EXCEPT ![c] = picked[c]]
    /\ UNCHANGED <<innerVars, atomics, publishing, recorder, ending,
                   closerVars, history>>

(* commit_frame_after_operation.                                           *)
CommitFrame(c) ==
    /\ pc[c] = "order" /\ MutexFree
    /\ IF want[c] = "CommitForeign"
         THEN Return(c, "ForeignStream") /\ UNCHANGED held
       ELSE IF Ended
         THEN Return(c, EndOutcome) /\ UNCHANGED held
       ELSE /\ Return(c, "ok")
            /\ held' = [held EXCEPT ![c] = picked[c]]
    /\ UNCHANGED <<innerVars, atomics, publishing, recorder, ending,
                   closerVars, history>>

-----------------------------------------------------------------------------
(* terminate, and begin_close followed by drain.                           *)

TerminateStore(fault) ==
    /\ ending = NoFault
    /\ acceptingDrops' = FALSE
    /\ ending' = fault
    /\ UNCHANGED <<innerVars, pendingDrops, publishedAny, publishing, recorder,
                   consumerVars, closerVars, history>>

TerminateCommit ==
    /\ ending # NoFault /\ MutexFree
    /\ terminal' = IF lifecycle # "Closed" /\ terminal = NoFault
                     THEN ending ELSE terminal
    /\ lifecycle' = IF lifecycle = "Open" THEN "Closing" ELSE lifecycle
    /\ ending' = NoFault
    /\ UNCHANGED <<cursor, geometry, latest, waiters, atomics, publishing,
                   recorder, consumerVars, closerVars, history>>

DrainStore(d) ==
    /\ closerPc[d] = Idle
    /\ acceptingDrops' = FALSE
    /\ closerPc' = [closerPc EXCEPT ![d] = "begin"]
    /\ UNCHANGED <<innerVars, pendingDrops, publishedAny, publishing, recorder,
                   ending, consumerVars, closerStopped, history>>

InterruptDrain(d) ==
    /\ closerPc[d] # Idle
    /\ ~closerStopped[d]
    /\ closerStopped' = [closerStopped EXCEPT ![d] = TRUE]
    /\ UNCHANGED <<innerVars, atomics, publishing, recorder, ending,
                   consumerVars, closerPc, history>>

(* The lock of begin_close.  A begin_close called alone, with no drain     *)
(* after it, changes what a drain interrupted at its admission changes.    *)
DrainBegin(d) ==
    /\ closerPc[d] = "begin" /\ MutexFree
    /\ lifecycle' = IF lifecycle = "Open" THEN "Closing" ELSE lifecycle
    /\ closerPc' = [closerPc EXCEPT ![d] = "admit"]
    /\ UNCHANGED <<cursor, geometry, latest, waiters, terminal, atomics,
                   publishing, recorder, ending, consumerVars, closerStopped,
                   history>>

DrainReturn(d) ==
    /\ closerPc' = [closerPc EXCEPT ![d] = Idle]
    /\ closerStopped' = [closerStopped EXCEPT ![d] = FALSE]

DrainCheckEager(d) ==
    /\ closerPc[d] = "check" /\ MutexFree
    /\ closerPc' = [closerPc EXCEPT ![d] =
                        IF lifecycle = "Closed" THEN "commitClosed" ELSE "commit"]
    /\ UNCHANGED <<innerVars, atomics, publishing, recorder, ending,
                   consumerVars, closerStopped, history>>

DrainCheck(d) ==
    /\ closerPc[d] = "check" /\ MutexFree
    /\ closerPc' = [closerPc EXCEPT ![d] =
                        CASE lifecycle = "Closed" -> "commitClosed"
                          [] lifecycle # "Closed" /\ waiters = 0 -> "commit"
                          [] OTHER -> "admit"]
    /\ UNCHANGED <<innerVars, atomics, publishing, recorder, ending,
                   consumerVars, closerStopped, history>>

(* Operation::admit, the checkpoint after each timed wait, and commit.     *)
DrainConsult(d) ==
    /\ closerPc[d] \in {"admit", "commit", "commitClosed"}
    /\ IF closerStopped[d] \/ closerPc[d] = "commitClosed"
         THEN DrainReturn(d)
         ELSE /\ closerPc' = [closerPc EXCEPT ![d] =
                                  IF @ = "admit" THEN "check" ELSE "finish"]
              /\ UNCHANGED closerStopped
    /\ UNCHANGED <<innerVars, atomics, publishing, recorder, ending,
                   consumerVars, history>>

DrainFinish(d) ==
    /\ closerPc[d] = "finish" /\ MutexFree
    /\ IF lifecycle # "Closed"
         THEN lifecycle' = "Closed" /\ latest' = NoFrame
         ELSE UNCHANGED <<lifecycle, latest>>
    /\ DrainReturn(d)
    /\ UNCHANGED <<cursor, geometry, waiters, terminal, atomics, publishing,
                   recorder, ending, consumerVars, history>>

-----------------------------------------------------------------------------
Consume(c) ==
    \/ CheckEnded(c) \/ CheckForeign(c) \/ CheckPick(c) \/ CheckWait(c)
    \/ Wake(c) \/ Consult(c) \/ CommitFrame(c)

Drain(d) == DrainBegin(d) \/ DrainCheck(d) \/ DrainConsult(d) \/ DrainFinish(d)

Next ==
    \/ \E p \in Publications : PublishPrepare(p)
    \/ PublishCommit
    \/ RecordAdmit \/ RecordObserve \/ RecordAdd
    \/ \E c \in Consumers :
          \/ \E request \in Requests : Call(c, request)
          \/ Interrupt(c)
          \/ Consume(c)
    \/ \E fault \in Faults : TerminateStore(fault)
    \/ TerminateCommit
    \/ \E d \in Closers : DrainStore(d) \/ InterruptDrain(d) \/ Drain(d)

Spec == Init /\ [][Next]_vars

(* A thread inside a call keeps running: no call blocks other than on the  *)
(* mutex, which is held for a bounded time, and on timed waits.            *)
Fairness ==
    /\ WF_vars(PublishCommit)
    /\ WF_vars(TerminateCommit)
    /\ \A c \in Consumers : WF_vars(Consume(c))
    /\ \A d \in Closers : WF_vars(Drain(d))

LiveSpec == Spec /\ Fairness

-----------------------------------------------------------------------------
(* Properties.                                                             *)

ConsumerStates == {Idle, "check", "waiting", "checkpoint", "arbitrate", "order"}
CloserStates == {Idle, "begin", "admit", "check", "commit", "commitClosed",
                 "finish"}
Outcomes == {"none", "ok", "Interrupted", "SessionClosed", "ForeignStream"}
                \cup Faults
(* The type of every variable.                                             *)
TypeOK ==
    /\ cursor \in Cursors
    /\ geometry \in Geometries
    /\ latest \in Frames \cup {NoFrame}
    /\ lifecycle \in {"Open", "Closing", "Closed"}
    /\ waiters \in Nat
    /\ terminal \in Faults \cup {NoFault}
    /\ pendingDrops \in 0..MaxDrops
    /\ publishedAny \in BOOLEAN
    /\ acceptingDrops \in BOOLEAN
    /\ publishing \in PreparedPublications \cup {NoPublication}
    /\ recorder \in {Idle, "accepted", "add"}
    /\ ending \in Faults \cup {NoFault}
    /\ pc \in [Consumers -> ConsumerStates]
    /\ want \in [Consumers -> Requests]
    /\ picked \in [Consumers -> Frames \cup {NoFrame}]
    /\ stopped \in [Consumers -> BOOLEAN]
    /\ held \in [Consumers -> Frames \cup {NoFrame}]
    /\ out \in [Consumers -> Outcomes]
    /\ closerPc \in [Closers -> CloserStates]
    /\ closerStopped \in [Closers -> BOOLEAN]
    /\ log \in Seq(Frames)
    /\ recorded \in Nat

(* The frames published so far are totally ordered by their stamps, a      *)
(* geometry revision stands for one transform and an epoch for one extent  *)
(* and format, whatever continuity the adapter claimed (prepare).          *)
LogOrdered ==
    \A i, j \in 1..Len(log) : i < j => Follows(log[i], log[j])

(* The stamps of an epoch below its latest that no frame carries.          *)
Gaps ==
    {p \in Epochs \X Sequences :
        /\ \E i \in 1..Len(log) : log[i].epoch = p[1] /\ log[i].sequence > p[2]
        /\ \A i \in 1..Len(log) : <<log[i].epoch, log[i].sequence>> # p}

(* No recorded drop is lost or counted twice, though try_record_drop adds  *)
(* while a publication is between its load of pending_drops and its        *)
(* subtraction, and though a discontinuity defers the debt.                *)
DropsAccounted == recorded = pendingDrops + Cardinality(Gaps)

(* The counters of the stream stay in their ranges, though each runs out,  *)
(* and drops are accounted for: a publication that is refused for a        *)
(* counter at its limit consumes no drop.                                  *)
CountersExact == TypeOK /\ DropsAccounted

Waiting == {c \in Consumers : pc[c] = "waiting"}

(* `waiters` counts the threads inside the timed wait, and the two         *)
(* debug assertions of drain hold: between its check of the waiters and    *)
(* its second lock no waiter can have appeared.                            *)
DrainSettled ==
    /\ waiters = Cardinality(Waiting)
    /\ \A d \in Closers : closerPc[d] \in {"commit", "finish"} =>
           lifecycle # "Open" /\ waiters = 0
    /\ lifecycle = "Closed" => waiters = 0 /\ latest = NoFrame

(* Every caller that was told a fault was told the first one, and it still *)
(* is the stream's; a caller told the session closed was told after close  *)
(* was admitted.                                                           *)
OneCause ==
    \A c \in Consumers :
        /\ out[c] \in Faults => out[c] = terminal
        /\ out[c] = "SessionClosed" => lifecycle # "Open"

(* A caller that asks for a frame newer than one it holds is never given   *)
(* that frame or an older one, however long the call waits.                *)
NewerIsNewer ==
    [][\A c \in Consumers :
          want[c] = "Newer" /\ pc[c] # Idle /\ out'[c] = "ok"
              => Before(held[c], held'[c])]_vars

(* Once one caller has learned that capture ended, no other call commits   *)
(* a frame, not even one that picked its frame before the end.             *)
EndIsCommon ==
    [][(\E c \in Consumers : out[c] \in Faults \cup {"SessionClosed"})
         => \A c \in Consumers : out'[c] = "ok" => out[c] = "ok"]_vars

(* A wait does not outlive the stream: it unwinds once close began.        *)
WaitersUnwind ==
    \A c \in Consumers :
        (pc[c] = "waiting" /\ lifecycle # "Open") ~> (pc[c] = Idle)

(* The stream implements the ordered log that readers are promised.        *)
Log == INSTANCE FrameLog WITH phase <- lifecycle, cause <- terminal

LogSpec == Log!LogSpec
=============================================================================
