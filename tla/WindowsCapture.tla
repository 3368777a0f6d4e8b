----------------------------- MODULE WindowsCapture -----------------------------
(***************************************************************************)
(* The capture sessions of the Windows adapter                             *)
(* (crates/platform/windows/src/native.rs).                                *)
(*                                                                         *)
(* The frame pool of a session calls back on its own threads.  A callback  *)
(* is admitted before it touches the session, takes the transition lock    *)
(* without waiting, and recreates the pool, drops its frame or publishes   *)
(* it.  Any number of threads may close the session, and the value itself  *)
(* may be dropped without a close.  Native resources must be released by a *)
(* thread of an initialised apartment: they leave the session as a job for *)
(* a process-wide pool of workers, and they carry a permit, so that there  *)
(* are never more of them than the job queue has room for.                 *)
(*                                                                         *)
(* The stream is reduced to its lifecycle and its last frame: CaptureStream *)
(* is about the rest.  The frame pool, the item and the window behind them *)
(* are external, and appear as what they hand to callbacks.                *)
(***************************************************************************)
EXTENDS Naturals, Sequences, FiniteSets

CONSTANTS
    Sessions,
    Callbacks,      \* the frame pool's threads, for each session
    Closers,        \* threads that close sessions
    Workers,        \* TEARDOWN_WORKER_COUNT
    Permits,        \* TEARDOWN_QUEUE_CAPACITY
    MaxEvents,      \* bounds what is done to the program: opens, frames, movements,
                    \* losses, close calls, drops, interruptions
    None

VARIABLES
    live,       \* the NativeSession: "none", "open", "dropping" or "gone"
    owner,      \* who holds the session's NativeResources: the session, its
                \* "job", no one any more ("released", or "discarded" by the
                \* loss of the executor), a "callback" that still uses what was
                \* discarded, or no one for ever ("quarantined")
    mine,       \* the teardown executor the session knows
    stream,     \* its lifecycle
    last,       \* the last frame published
    accepting, fenced,  \* CallbackControl (its count is the callbacks inside)
    stage, frame,       \* each callback, and the frame it is about to publish
    transition, \* TransitionState
    surfaces,   \* the frames in the pool
    target,     \* the window or display: its extent, and how often it moved
    ended,      \* native_ended
    removed,    \* frame_handler_removed
    task, result, reported,     \* close_task (its channel), close_result, ...
    at, on, interrupted,        \* the close calls
    permits, queue,     \* the process-wide teardown
    executor, lost,     \* which executor it is, and its workers that were lost
    job,        \* what each worker runs
    events      \* how much was done to the program

session == <<live, owner, mine, stream, last, accepting, fenced, removed>>
closing == <<task, result, reported>>
native  == <<transition, surfaces, target, ended>>
callers == <<at, on, interrupted>>
workers == <<permits, queue, executor, lost, job>>
vars == <<session, closing, native, stage, frame, callers, workers, events>>

All(value) == [s \in Sessions |-> value]

Init ==
    /\ live = All("none") /\ owner = All("none") /\ mine = All(0)
    /\ stream = All("Open") /\ last = All(None)
    /\ accepting = All(TRUE) /\ fenced = All(FALSE) /\ removed = All(FALSE)
    /\ task = All("none") /\ result = All("none") /\ reported = All(FALSE)
    /\ transition = All([extent |-> 0, placement |-> 0, pool |-> 0,
                         discontinuity |-> FALSE, geometry |-> FALSE])
    /\ surfaces = All(<<>>) /\ target = All([extent |-> 0, moves |-> 0])
    /\ ended = All(FALSE)
    /\ stage = [s \in Sessions |-> [k \in Callbacks |-> "idle"]]
    /\ frame = [s \in Sessions |-> [k \in Callbacks |-> None]]
    /\ at = [d \in Closers |-> "idle"] /\ on = [d \in Closers |-> None]
    /\ interrupted = {}
    /\ permits = Permits /\ queue = <<>> /\ executor = 1 /\ lost = {}
    /\ job = [w \in Workers |-> None]
    /\ events = 0

(* Something is done to the program.                                       *)
Event == events < MaxEvents /\ events' = events + 1

(* The callbacks that hold a lease, and those that are in process_frame.   *)
Inside(s) == {k \in Callbacks : stage[s][k] \notin {"idle", "dispatched"}}
Framing(s) == {k \in Callbacks : stage[s][k] \in {"recreating", "copying"}}

-----------------------------------------------------------------------------
(* Opening: teardown_executor replaces an executor that has no live worker, *)
(* a permit is reserved before there is anything to tear down, and the     *)
(* capture starts.  (An open that fails later drops what it built: the     *)
(* permit, or, once started, the session.)  The queue of the executor that  *)
(* is gone has been dropped by then.                                       *)
Live == lost # Workers

Executor(s) ==
    /\ Live \/ queue = <<>>
    /\ executor' = IF Live THEN executor ELSE executor + 1
    /\ lost' = IF Live THEN lost ELSE {}
    /\ mine' = [mine EXCEPT ![s] = executor']

Open(s) ==
    /\ live[s] = "none" /\ permits > 0 /\ Event
    /\ live' = [live EXCEPT ![s] = "open"]
    /\ owner' = [owner EXCEPT ![s] = "runtime"]
    /\ permits' = permits - 1
    /\ Executor(s)
    /\ UNCHANGED <<stream, last, accepting, fenced, removed, closing, native, stage,
                   frame, callers, queue, job>>

-----------------------------------------------------------------------------
(* The native side.                                                        *)

(* The target is resized, or it moves.                                     *)
Resize(s) ==
    /\ live[s] = "open" /\ Event
    /\ target' = [target EXCEPT ![s].extent = @ + 1]
    /\ UNCHANGED <<session, closing, transition, surfaces, ended, stage,
                   frame, callers, workers>>

Move(s) ==
    /\ live[s] = "open" /\ Event
    /\ target' = [target EXCEPT ![s].moves = @ + 1]
    /\ UNCHANGED <<session, closing, transition, surfaces, ended, stage,
                   frame, callers, workers>>

(* A frame is captured, and a thread of the pool sets out to tell.  It may *)
(* still be on its way when the handler is removed.                        *)
Arrive(s, k) ==
    /\ owner[s] # "none" /\ ~removed[s] /\ ~ended[s]
    /\ stage[s][k] = "idle" /\ Event
    /\ surfaces' = [surfaces EXCEPT ![s] =
          IF Len(@) < 2
            THEN Append(@, [extent |-> target[s].extent, pixels |-> target[s].moves,
                            fresh |-> TRUE])
            ELSE @]
    /\ stage' = [stage EXCEPT ![s][k] = "dispatched"]
    /\ UNCHANGED <<session, closing, transition, target, ended, frame, callers, workers>>

(* GraphicsCaptureItem.Closed: the latch comes before admission.           *)
Lose(s, k) ==
    /\ owner[s] \in {"runtime", "job"} /\ ~ended[s] /\ stage[s][k] = "idle" /\ Event
    /\ ended' = [ended EXCEPT ![s] = TRUE]
    /\ stage' = [stage EXCEPT ![s][k] =
                   IF accepting[s] /\ ~fenced[s] THEN "failing" ELSE "idle"]
    /\ UNCHANGED <<session, closing, transition, surfaces, target, frame,
                   callers, workers>>

(* TeardownPermits::release.                                               *)
Capped(n) == IF n > Permits THEN Permits ELSE n

-----------------------------------------------------------------------------
(* A frame callback.                                                       *)
Step(s, k, next) == stage' = [stage EXCEPT ![s][k] = next]

Admit(s, k) ==
    /\ stage[s][k] = "dispatched"
    /\ Step(s, k, IF accepting[s] /\ ~fenced[s] THEN "admitted" ELSE "idle")
    /\ UNCHANGED <<session, closing, native, frame, callers, workers, events>>

(* The core is gone with the session, or another callback is in            *)
(* process_frame.                                                          *)
TurnBack(s, k) ==
    /\ stage[s][k] = "admitted"
    /\ \/ live[s] = "gone" /\ Inside(s) = {k}
       \/ Framing(s) # {}
    /\ Step(s, k, "leaving")
    /\ UNCHANGED <<session, closing, native, frame, callers, workers, events>>

(* process_frame up to the branch it takes: the transition lock is free.   *)
Enters(s, k) == stage[s][k] = "admitted" /\ Framing(s) = {}
First(s) == Head(surfaces[s])
TakeFirst(s) == surfaces' = [surfaces EXCEPT ![s] = Tail(@)]

(* The pool has nothing, or a native call on the way fails.                *)
TakeFails(s, k) ==
    /\ Enters(s, k)
    /\ IF surfaces[s] = <<>> THEN UNCHANGED surfaces ELSE TakeFirst(s)
    /\ Step(s, k, "failing")
    /\ UNCHANGED <<session, closing, transition, target, ended, frame,
                   callers, workers, events>>

(* Another extent: the frame goes, and the native owner is upgraded for    *)
(* the recreation.                                                         *)
TakeResized(s, k) ==
    /\ Enters(s, k) /\ surfaces[s] # <<>>
    /\ First(s).extent # transition[s].extent
    /\ TakeFirst(s)
    /\ IF owner[s] \notin {"released", "discarded"}
         THEN Step(s, k, "recreating") /\ frame' = [frame EXCEPT ![s][k] = First(s)]
         ELSE Step(s, k, "failing") /\ UNCHANGED frame
    /\ UNCHANGED <<session, closing, transition, target, ended, callers, workers, events>>

Fenced(s) == \/ last[s] # None /\ target[s].moves # transition[s].placement
             \/ ~First(s).fresh

(* accepts_frame_geometry refuses: the target moved since the last frame,  *)
(* and only pixels captured from now on can show where it is; or these     *)
(* were captured before such an observation.                               *)
TakeFenced(s, k) ==
    /\ Enters(s, k) /\ surfaces[s] # <<>>
    /\ First(s).extent = transition[s].extent /\ Fenced(s)
    /\ IF last[s] # None /\ target[s].moves # transition[s].placement
         THEN /\ transition' = [transition EXCEPT ![s].placement = target[s].moves,
                                                  ![s].geometry = TRUE]
              /\ surfaces' = [surfaces EXCEPT ![s] =
                    [i \in 1..(Len(@) - 1) |-> [@[i + 1] EXCEPT !.fresh = FALSE]]]
         ELSE TakeFirst(s) /\ UNCHANGED transition
    /\ Step(s, k, "leaving")
    /\ UNCHANGED <<session, closing, target, ended, frame, callers, workers, events>>

(* No texture is free or the copy would wait: the frame is dropped; or it  *)
(* is copied, with the placement observed here.                            *)
TakeCopied(s, k) ==
    /\ Enters(s, k) /\ surfaces[s] # <<>>
    /\ First(s).extent = transition[s].extent /\ ~Fenced(s)
    /\ TakeFirst(s)
    /\ \/ Step(s, k, "leaving") /\ UNCHANGED frame
       \/ /\ Step(s, k, "copying")
          /\ frame' = [frame EXCEPT ![s][k] =
                         [pixels |-> First(s).pixels, placement |-> target[s].moves]]
    /\ UNCHANGED <<session, closing, transition, target, ended, callers, workers, events>>

(* Mutant of Recreate: the discontinuity is pending whatever was published. *)
RecreateUnconditional(s, k) ==
    /\ stage[s][k] = "recreating"
    /\ \/ /\ transition' = [transition EXCEPT ![s].extent = frame[s][k].extent,
                                              ![s].pool = @ + 1,
                                              ![s].discontinuity = TRUE]
          /\ surfaces' = [surfaces EXCEPT ![s] = <<>>]
          /\ Step(s, k, "leaving")
       \/ Step(s, k, "failing") /\ UNCHANGED <<transition, surfaces>>
    /\ frame' = [frame EXCEPT ![s][k] = None]
    /\ IF owner[s] = "callback"
         THEN /\ owner' = [owner EXCEPT ![s] = "discarded"]
              /\ permits' = Capped(permits + 1)
         ELSE UNCHANGED <<owner, permits>>
    /\ UNCHANGED <<live, mine, stream, last, accepting, fenced, removed, closing, target,
                   ended, callers, queue, executor, lost, job, events>>

(* replace_producer_after_recreate and pool_recreated.  The upgraded owner  *)
(* is given back, and is the last one if the job was lost meanwhile.       *)
Recreate(s, k) ==
    /\ stage[s][k] = "recreating"
    /\ \/ /\ transition' = [transition EXCEPT ![s].extent = frame[s][k].extent,
                                              ![s].pool = @ + 1,
                                              ![s].discontinuity = last[s] # None]
          /\ surfaces' = [surfaces EXCEPT ![s] = <<>>]
          /\ Step(s, k, "leaving")
       \/ Step(s, k, "failing") /\ UNCHANGED <<transition, surfaces>>
    /\ frame' = [frame EXCEPT ![s][k] = None]
    /\ IF owner[s] = "callback"
         THEN /\ owner' = [owner EXCEPT ![s] = "discarded"]
              /\ permits' = Capped(permits + 1)
         ELSE UNCHANGED <<owner, permits>>
    /\ UNCHANGED <<live, mine, stream, last, accepting, fenced, removed, closing, target,
                   ended, callers, queue, executor, lost, job, events>>

Continuity(s) ==
    IF transition[s].discontinuity THEN "Discontinuous"
    ELSE IF transition[s].geometry THEN "GeometryChanged" ELSE "Continuous"

(* The publication, which a stream that is not open refuses; the callback  *)
(* then says nothing, for the session ends anyway.                         *)
Publish(s, k) ==
    /\ stage[s][k] = "copying"
    /\ IF stream[s] = "Open"
         THEN /\ last' = [last EXCEPT ![s] =
                    [pixels |-> frame[s][k].pixels, placement |-> frame[s][k].placement,
                     pool |-> transition[s].pool, continuity |-> Continuity(s)]]
              /\ transition' = [transition EXCEPT ![s].placement = frame[s][k].placement,
                                                  ![s].discontinuity = FALSE,
                                                  ![s].geometry = FALSE]
         ELSE UNCHANGED <<last, transition>>
    /\ Step(s, k, "leaving")
    /\ frame' = [frame EXCEPT ![s][k] = None]
    /\ UNCHANGED <<live, owner, mine, stream, accepting, fenced, removed, closing,
                   surfaces, target, ended, callers, workers, events>>

(* fail_native.                                                            *)
Fail(s, k) ==
    /\ stage[s][k] = "failing"
    /\ accepting' = [accepting EXCEPT ![s] = FALSE]
    /\ stream' = [stream EXCEPT ![s] = IF @ = "Open" THEN "Closing" ELSE @]
    /\ Step(s, k, "leaving")
    /\ UNCHANGED <<live, owner, mine, last, fenced, removed, closing, native, frame,
                   callers, workers, events>>

(* CallbackLease::drop.                                                    *)
Leave(s, k) ==
    /\ stage[s][k] = "leaving" /\ Step(s, k, "idle")
    /\ UNCHANGED <<session, closing, native, frame, callers, workers, events>>

Callback(s, k) ==
    \/ Admit(s, k) \/ TurnBack(s, k) \/ TakeFails(s, k) \/ TakeResized(s, k)
    \/ TakeFenced(s, k) \/ TakeCopied(s, k) \/ Recreate(s, k) \/ Publish(s, k)
    \/ Fail(s, k) \/ Leave(s, k)

-----------------------------------------------------------------------------
(* NativeSession::close, called by a thread that holds the session.        *)
Goto(d, next) == at' = [at EXCEPT ![d] = next]

(* The call returns.                                                       *)
Return(d, what) ==
    /\ Goto(d, what) /\ interrupted' = interrupted \ {d}
    /\ on' = [on EXCEPT ![d] = None]

Returned == {"idle", "Ok", "Interrupted", "Fault", "Error"}
Calling == {d \in Closers : at[d] \notin Returned}
Gated == {d \in Calling : at[d] \notin {"stopping", "gating"}}

Interrupt(d) ==
    /\ d \in Calling /\ d \notin interrupted /\ Event
    /\ interrupted' = interrupted \cup {d}
    /\ UNCHANGED <<session, closing, native, stage, frame, at, on, workers>>

(* begin_close ...                                                         *)
Close(d, s) ==
    /\ d \notin Calling /\ live[s] = "open"
    /\ Event
    /\ on' = [on EXCEPT ![d] = s] /\ Goto(d, "stopping")
    /\ stream' = [stream EXCEPT ![s] = IF @ = "Open" THEN "Closing" ELSE @]
    /\ UNCHANGED <<live, owner, mine, last, accepting, fenced, removed, closing, native,
                   stage, frame, interrupted, workers>>

(* ... stop_admission ...                                                  *)
Stop(d) ==
    /\ at[d] = "stopping" /\ Goto(d, "gating")
    /\ accepting' = [accepting EXCEPT ![on[d]] = FALSE]
    /\ UNCHANGED <<live, owner, mine, stream, last, fenced, removed, closing, native,
                   stage, frame, on, interrupted, workers, events>>

(* ... lock_with_operation(close_gate): the gate that was taken is given   *)
(* back if the operation is interrupted ...                                *)
Gate(d) ==
    /\ at[d] = "gating"
    /\ IF d \in interrupted
         THEN Return(d, "Interrupted")
         ELSE /\ \A other \in Gated : on[other] # on[d]
              /\ Goto(d, "removing") /\ UNCHANGED <<on, interrupted>>
    /\ UNCHANGED <<session, closing, native, stage, frame, workers, events>>

(* ... remove_frame_handler ...                                            *)
Remove(d) ==
    /\ at[d] = "removing" /\ Goto(d, "draining")
    /\ removed' = [removed EXCEPT ![on[d]] = TRUE]
    /\ UNCHANGED <<live, owner, mine, stream, last, accepting, fenced, closing, native,
                   stage, frame, on, interrupted, workers, events>>

(* ... CallbackControl::drain, whose wait is timed: the operation is        *)
(* consulted with the lock given up, and again before the fence ...        *)
Drain(d) ==
    /\ at[d] = "draining"
    /\ IF d \in interrupted
         THEN Return(d, "Interrupted")
         ELSE /\ fenced[on[d]] \/ Inside(on[d]) = {}
              /\ Goto(d, IF fenced[on[d]] THEN "sending" ELSE "fencing")
              /\ UNCHANGED <<on, interrupted>>
    /\ UNCHANGED <<session, closing, native, stage, frame, workers, events>>

Fence(d) ==
    /\ at[d] = "fencing" /\ Goto(d, "sending")
    /\ fenced' = [fenced EXCEPT ![on[d]] = TRUE]
    /\ UNCHANGED <<live, owner, mine, stream, last, accepting, removed, closing, native,
                   stage, frame, on, interrupted, workers, events>>

(* The job goes to the executor the session knows, unless its workers are  *)
(* gone.  The resources leave the session with it.                         *)
Known(s) == Live /\ mine[s] = executor

Send(s, drain) ==
    /\ queue' = Append(queue, [session |-> s, drain |-> drain])
    /\ owner' = [owner EXCEPT ![s] = "job"]
    /\ task' = [task EXCEPT ![s] = "running"]
    /\ removed' = [removed EXCEPT ![s] = TRUE]

(* ... start_native_close: once only; an executor that is gone is replaced, *)
(* and if that fails the resources stay ...                                *)
StartClose(d) ==
    LET s == on[d] IN
    /\ at[d] = "sending"
    /\ \/ /\ d \in interrupted /\ Return(d, "Interrupted")
          /\ UNCHANGED <<session, closing, workers>>
       \/ /\ task[s] # "none" \/ result[s] # "none"
          /\ Goto(d, "awaiting") /\ UNCHANGED <<session, closing, on, interrupted, workers>>
       \/ /\ task[s] = "none" /\ result[s] = "none"
          /\ Send(s, FALSE)
          /\ Executor(s)
          /\ Goto(d, "awaiting")
          /\ UNCHANGED <<live, stream, last, accepting, fenced, result, reported,
                         on, interrupted, permits, job>>
       \/ /\ task[s] = "none" /\ result[s] = "none" /\ ~Live
          /\ Return(d, "Error") /\ UNCHANGED <<session, closing, workers>>
    /\ UNCHANGED <<native, stage, frame, events>>

(* Mutant of Await: a channel that was broken counts as an empty one.      *)
AwaitAnswer(d) ==
    LET s == on[d] IN
    /\ at[d] = "awaiting"
    /\ IF result[s] # "none" \/ task[s] \in {"ok", "fault"}
         THEN /\ result' = [result EXCEPT ![s] = IF @ # "none" THEN @ ELSE task[s]]
              /\ task' = [task EXCEPT ![s] = "none"]
              /\ Goto(d, "reporting") /\ UNCHANGED <<on, interrupted>>
         ELSE d \in interrupted /\ Return(d, "Interrupted") /\ UNCHANGED <<task, result>>
    /\ UNCHANGED <<session, reported, native, stage, frame, workers, events>>

(* ... the poll of the job's answer; a channel broken by the loss of the   *)
(* worker is a fault ...                                                   *)
Await(d) ==
    LET s == on[d] IN
    /\ at[d] = "awaiting"
    /\ IF result[s] # "none" \/ task[s] # "running"
         THEN /\ result' = [result EXCEPT ![s] =
                    IF @ # "none" THEN @ ELSE IF task[s] = "ok" THEN "ok" ELSE "fault"]
              /\ task' = [task EXCEPT ![s] = "none"]
              /\ Goto(d, "reporting") /\ UNCHANGED <<on, interrupted>>
         ELSE d \in interrupted /\ Return(d, "Interrupted") /\ UNCHANGED <<task, result>>
    /\ UNCHANGED <<session, reported, native, stage, frame, workers, events>>

(* ... the answer committed, and a fault in it told to one caller ...      *)
Report(d) ==
    LET s == on[d] IN
    /\ at[d] = "reporting"
    /\ IF d \in interrupted
         THEN Return(d, "Interrupted") /\ UNCHANGED reported
         ELSE IF result[s] = "fault" /\ ~reported[s]
         THEN Return(d, "Fault") /\ reported' = [reported EXCEPT ![s] = TRUE]
         ELSE Goto(d, "settling") /\ UNCHANGED <<on, interrupted, reported>>
    /\ UNCHANGED <<session, task, result, native, stage, frame, workers, events>>

(* ... and the drain of the stream (DrainSettled of CaptureStream).        *)
Settle(d) ==
    /\ at[d] = "settling"
    /\ IF d \in interrupted
         THEN Return(d, "Interrupted") /\ UNCHANGED stream
         ELSE Return(d, "Ok") /\ stream' = [stream EXCEPT ![on[d]] = "Closed"]
    /\ UNCHANGED <<live, owner, mine, last, accepting, fenced, removed, closing, native,
                   stage, frame, workers, events>>

CloseStep(d) ==
    \/ Stop(d) \/ Gate(d) \/ Remove(d) \/ Drain(d) \/ Fence(d) \/ StartClose(d)
    \/ Await(d) \/ Report(d) \/ Settle(d)

-----------------------------------------------------------------------------
(* Drop of the session, which no close call borrows.                       *)
Drop(s) ==
    /\ live[s] = "open" /\ Event /\ \A d \in Calling : on[d] # s
    /\ live' = [live EXCEPT ![s] = "dropping"]
    /\ accepting' = [accepting EXCEPT ![s] = FALSE]
    /\ UNCHANGED <<owner, mine, stream, last, fenced, removed, closing, native, stage,
                   frame, callers, workers>>

(* Mutant of DropClose: the job is told that callbacks were drained.       *)
DropUndrained(s) ==
    /\ live[s] = "dropping" /\ live' = [live EXCEPT ![s] = "gone"]
    /\ \/ owner[s] # "runtime" /\ UNCHANGED <<owner, removed, task, queue>>
       \/ owner[s] = "runtime" /\ Known(s) /\ Send(s, FALSE)
       \/ /\ owner[s] = "runtime" /\ ~Known(s)
          /\ owner' = [owner EXCEPT ![s] = "quarantined"]
          /\ UNCHANGED <<removed, task, queue>>
    /\ UNCHANGED <<mine, stream, last, accepting, fenced, result, reported, native, stage,
                   frame, callers, permits, executor, lost, job, events>>

(* The teardown is handed over with the drain still to do; there is no      *)
(* operation to wait for another executor with, and resources no worker    *)
(* can take are kept for ever, with their permit.                          *)
DropClose(s) ==
    /\ live[s] = "dropping" /\ live' = [live EXCEPT ![s] = "gone"]
    /\ \/ owner[s] # "runtime" /\ UNCHANGED <<owner, removed, task, queue>>
       \/ owner[s] = "runtime" /\ Known(s) /\ Send(s, TRUE)
       \/ /\ owner[s] = "runtime" /\ ~Known(s)
          /\ owner' = [owner EXCEPT ![s] = "quarantined"]
          /\ UNCHANGED <<removed, task, queue>>
    /\ UNCHANGED <<mine, stream, last, accepting, fenced, result, reported, native, stage,
                   frame, callers, permits, executor, lost, job, events>>

-----------------------------------------------------------------------------
(* A worker: TeardownJob::run.                                             *)
Running(w) == job[w] # None
Runs(w, next) == job' = [job EXCEPT ![w] = next]

Take(w) ==
    /\ w \notin lost /\ job[w] = None /\ queue # <<>>
    /\ Runs(w, Head(queue)) /\ queue' = Tail(queue)
    /\ UNCHANGED <<session, closing, native, stage, frame, callers, permits, executor,
                   lost, events>>

(* drain_uninterruptible.                                                  *)
DrainJob(w) ==
    /\ Running(w) /\ job[w].drain
    /\ LET s == job[w].session IN
         /\ fenced[s] \/ Inside(s) = {}
         /\ fenced' = [fenced EXCEPT ![s] = TRUE]
    /\ Runs(w, [job[w] EXCEPT !.drain = FALSE])
    /\ UNCHANGED <<live, owner, mine, stream, last, accepting, removed, closing, native,
                   stage, frame, callers, permits, queue, executor, lost, events>>

(* The job's end: what becomes of the native owner, the permit that goes   *)
(* with it, and the answer.                                                *)
Over(s, where, answer) ==
    /\ owner' = [owner EXCEPT ![s] = where]
    /\ task' = [task EXCEPT ![s] = answer]
    /\ permits' = Capped(permits + 1)

(* close_native_resources, and the answer.                                 *)
Finish(w) ==
    /\ Running(w) /\ ~job[w].drain
    /\ \E answer \in {"ok", "fault"} : Over(job[w].session, "released", answer)
    /\ Runs(w, None)
    /\ UNCHANGED <<live, mine, stream, last, accepting, fenced, removed, result, reported,
                   native, stage, frame, callers, queue, executor, lost, events>>

(* The worker is lost in the native calls, and unwinding drops its job.    *)
Panic(w) ==
    /\ Running(w) /\ ~job[w].drain /\ Event
    /\ Over(job[w].session, "released", "lost")
    /\ lost' = lost \cup {w} /\ Runs(w, None)
    /\ UNCHANGED <<live, mine, stream, last, accepting, fenced, removed, result, reported,
                   native, stage, frame, callers, queue, executor>>

(* The queue goes with the last worker, and its jobs with the queue, drained *)
(* or not: a callback that recreates the pool is then the last owner.      *)
DropQueue ==
    /\ ~Live /\ queue # <<>>
    /\ LET s == Head(queue).session
           inUse == \E k \in Callbacks : stage[s][k] = "recreating" IN
         IF inUse
           THEN /\ owner' = [owner EXCEPT ![s] = "callback"]
                /\ task' = [task EXCEPT ![s] = "lost"] /\ UNCHANGED permits
           ELSE Over(s, "discarded", "lost")
    /\ queue' = Tail(queue)
    /\ UNCHANGED <<live, mine, stream, last, accepting, fenced, removed, result, reported,
                   native, stage, frame, callers, executor, lost, job, events>>

Teardown(w) == Take(w) \/ DrainJob(w) \/ Finish(w)

-----------------------------------------------------------------------------
Next ==
    \/ \E s \in Sessions :
          \/ Open(s) \/ Resize(s) \/ Move(s) \/ Drop(s) \/ DropClose(s)
          \/ \E k \in Callbacks : Arrive(s, k) \/ Lose(s, k) \/ Callback(s, k)
    \/ \E d \in Closers : \/ Interrupt(d) \/ CloseStep(d)
                          \/ \E s \in Sessions : Close(d, s)
    \/ \E w \in Workers : Teardown(w) \/ Panic(w)
    \/ DropQueue

Spec == Init /\ [][Next]_vars

(* Callbacks, close calls, workers and a drop that has begun go on.        *)
FairSpec ==
    /\ Spec
    /\ \A s \in Sessions :
          WF_vars(DropClose(s)) /\ \A k \in Callbacks : WF_vars(Callback(s, k))
    /\ \A d \in Closers : WF_vars(CloseStep(d))
    /\ \A w \in Workers : WF_vars(Teardown(w))
    /\ WF_vars(DropQueue)

-----------------------------------------------------------------------------
(* Native resources are released once, by a worker, when no callback is    *)
(* left that could use them, and a close that has its answer finds them    *)
(* released (unless every worker was lost); a permit is out exactly for    *)
(* resources that exist, so the job queue always has room (the strong_count *)
(* assertion of close_native_resources, TeardownPermits, Drop).            *)
OwnedOnce ==
    /\ permits + Cardinality({s \in Sessions :
                               owner[s] \notin {"none", "released", "discarded"}})
          = Permits
    /\ Len(queue) <= Permits
    /\ \A w \in Workers : Running(w) =>
          /\ owner[job[w].session] = "job"
          /\ ~job[w].drain => Inside(job[w].session) = {}
    /\ \A s \in Sessions :
          /\ owner[s] = "released" => Inside(s) = {} /\ fenced[s]
          /\ result[s] # "none" \/ task[s] \in {"ok", "fault", "lost"} =>
                owner[s] \in {"released", "discarded", "callback"}

(* A frame is marked Discontinuous exactly when the pool was recreated     *)
(* since the frame before it, and GeometryChanged exactly when it was not  *)
(* and the target was seen elsewhere, however many frames were dropped     *)
(* between; the placement of a frame that moved is that of its pixels      *)
(* (pool_recreated, accepts_frame_geometry, continuity).                   *)
FramesAreMarked ==
    [][\A s \in Sessions : last'[s] # last[s] =>
          IF last[s] = None
            THEN last'[s].continuity = "Continuous"
            ELSE /\ last'[s].continuity =
                       IF last'[s].pool # last[s].pool THEN "Discontinuous"
                       ELSE IF last'[s].placement # last[s].placement THEN "GeometryChanged"
                       ELSE "Continuous"
                 /\ last'[s].placement # last[s].placement =>
                       last'[s].pixels = last'[s].placement]_vars

(* A close call returns, though a worker may be lost with its job; and the *)
(* resources of a session that is dropped are released, or kept with their *)
(* permit (close_native, drain, Drop).                                     *)
TeardownSettles ==
    /\ \A d \in Closers : (d \in Calling) ~> (d \notin Calling)
    /\ \A s \in Sessions :
          (live[s] = "dropping") ~> (owner[s] \in {"released", "discarded", "quarantined"})

=============================================================================
