# Verification of mado-pilot

mado-pilot is a Rust workspace that captures windows and displays, looks for templates and
text in the captured frames, and sends input back to the target. Its promises are about
order: which frame an answer came from, what a caller is told when capture ends, who works
on what, and what the host was left with when an input sequence stops half way. This
directory states those promises as TLA+ specifications translated from the code, checks them
with TLC on small instances and proves the most important ones with TLAPS for every value of
the constants.

Paths below are relative to `crates/` of the repository unless they say otherwise.

## 1. Inventory

### Components

| Component | Where | State | Operations | Here |
| --- | --- | --- | --- | --- |
| Frame identity | `automation/core/src/identity.rs` | cursor: epoch, next sequence | stamp, skip, begin an epoch, order | `FrameIdentity` |
| Operation | `automation/core/src/operation.rs` | deadline, cancellation, latched interruption | admit, checkpoint, commit | in every module, as an `interrupted` flag read where the code reads it |
| Capture stream | `automation/capture/src/stream.rs` | latest frame, cursor, geometry revision, lifecycle, waiters, terminal fault, pending drops | publish, record a drop, frame, commit_frame, terminate, begin_close, drain | `CaptureStream`, `FrameLog` |
| Template watch | `automation/runtime/src/watch.rs` | per query: pending frame, claim, flight, streak, rate, outcome; per session: authority, queries; publication fence | publish, enqueue, claim, coalesce, map, admit, analyse, complete, sweep, close; the supervisor thread and its wait | `TemplateWatch`, `WatchSupervisor` |
| Watch lifecycle | `automation/runtime/src/watch.rs`, `session.rs` | reservation counters, registry, acquisition thread and token | start a query, release, acquisition loop, session close, scheduler close, join | `WatchLifecycle` |
| OCR text watch and dispatch | `automation/runtime/src/ocr_watch.rs`, `watch.rs` | per query as above; dispatch state, mapping barrier, cursors, one physical lease | scan, claim, convert, admit, recognise, complete, give the lease back | `OcrDispatch` |
| Input controller | `automation/input/src/{controller,request,receipt,cleanup}.rs`, `platform/{windows,macos}/src/input.rs` | gate: lifecycle, busy, owner, waiters, admissions, threads in caller code; run: route, events done, keys owed | admit, execute, stop, clean up, drain | `InputController` |
| Session | `automation/runtime/src/session.rs` | closing flag, watcher cell | acquire, commit, search, recognise, send, close | the watcher and its close in `WatchLifecycle`; the rest delegates |
| Frame mapping and storage | `automation/capture/src/{mapping,mapping_cache,storage,frame}.rs` | four weak entries per frame | map, reuse | not modelled: an answer |
| Pacing, geometry, time | `automation/core`, `automation/capture/src/pacing.rs` | values | checked arithmetic | not modelled |
| Diagnostics | `automation/runtime/src/diagnostic.rs` | bounded records, losses, two pending words with their fences, producers, seal | emit, count a loss, clone and release a sink, drain, seal | `DiagnosticStream` |
| Replay adapter | `adapter/replay/src/provider.rs` | remaining frames, the claim on their head | open, frame (look up, or advance and publish), close | `ReplaySession` |
| Vision, OCR contract, backends | `automation/{vision,ocr}`, `backend/{opencv,onnx}` | models, catalogues | match, recognise, normalise | answers are nondeterministic inputs |
| Assets | `automation/assets` | archives, manifests, limits | load | not modelled |
| Windows capture | `platform/windows/src/native.rs` | per session: native owner, callback control, transition, close task and result; per process: permits, job queue, executor and its workers | open, callback, recreate the pool, close, drop, tear down | `WindowsCapture` |
| macOS capture | `platform/macos/src/native.rs`, `platform/macos/native/madopilot_macos_shim.m` | admission fence, pending slot, registration, reconfigure slot and wake, phase of close, close gate | open, stage and commit a frame, report a stop, reconfigure, close, drop, quarantine | `MacosCapture` |
| Native input | `platform/{windows,macos}/src/{input,native_input}.rs` | routes, geometry ledger | post, clean up | the input run only |
| C bindings | `bindings/capi` | reference-counted handles | wrap every call | not modelled |
| Facade, engine, testkit, tools | `mado-pilot`, `automation/runtime/src/engine.rs`, `support`, `tools` | wiring | construct, re-export | not modelled |

### How they interact

An adapter publishes frames into the `StreamState` of a session from its own callback thread,
and reports the end of capture there. Callers wait for frames on it. A watched session has one
acquisition thread, which waits on the same stream and offers each frame to every query of the
session, template and text alike. Two workers, shared by the whole engine, take pending frames
from queries, map them, search or recognise without a lock, and write what they found back under
the locks of scheduler, session and query, in that order, after asking the stream whether
capture still stands. A supervisor thread sweeps queries whose cancellation or deadline came,
and waits without a timeout while there are none. `Session::close` closes the watcher, then
input, then capture; closing the scheduler closes every session. Whatever happens is told to the
engine's diagnostic stream, which drops what it cannot take rather than make anyone wait. Input
has nothing to do with any of this but shares the session's lifetime: one controller per target,
entered by any thread.

No component calls a caller's code (clocks, cancellation, diagnostics hosts) under a lock.
That is why so many operations have the shape *decide, unlock, consult, lock, act*, and it is
where nearly all the hard behaviour is.

### What is hard

* Steps of two threads in an order nobody wrote a test for: a drop recorded between the two
  halves of a publication; a query started while the acquisition thread is leaving; the scan
  of one worker made stale by the claim of the other.
* State read before an unlock and used after it: the streak a completion extends, the
  capture's consent to a match, the quiet gate a closer saw.
* Ends that race: a deadline, a cancellation, an expired residence, a lost target, a session
  close, a scheduler shutdown and a match may all be on their way to one query.
* Resources given back by whoever is last: reservations, the mapping barrier, the physical
  lease that outlives its query, the registry slot of an idle session.
* Partial failure: an input sequence that stops inside an event leaves keys the host holds; an
  exception of a framework unwinds between two halves of a delivery; a worker is lost with the
  native resources it was to release.
* Teardown without the caller: a close that gives up and a session that is dropped leave work
  that somebody else must finish, exactly once, after the last callback.

`PROJECT.json` lists each hazard with its line and the properties that cover it.

### What makes each component correct

* **Stream.** Stamps strictly increase; a geometry revision names one transform and an epoch
  one shape; drops become exactly the gaps in the sequence; the first fault is the one every
  caller hears; after one caller learned of the end no call commits; a drain finishes only
  when no waiter is left, and none is left for ever.
* **Watch.** Every offered frame ends in one disposition; results arrive in stamp order; a
  match rests on an unbroken streak of one view; a claim is in one worker's hands; the
  recorded authority decides the outcome; pending frames and the end of capture are acted on; a
  query that is interrupted ends although no frame comes.
* **Lifecycle.** Counters equal what is held; a live query has a thread and sees the current
  frame; every close returns, and when the last of them has, nothing of the session runs.
* **Dispatch.** OCR conversion and template mapping exclude each other; the barrier is up
  exactly while there is a reason; the lease is unique and physical; turns rotate; both
  classes are served; the documented precedence of outcomes holds
  (`docs/ocr-text-watch.md`: session authority, then scheduler shutdown, cancellation,
  deadline, then the rest).
* **Diagnostics.** Every emission is told once, as a record or as a loss of its own level; the
  end is told last and always.
* **Replay.** The source comes out whole and in order however requests fail; nobody is told of
  an end that is not there; every request returns.
* **Windows capture.** Native resources are released once, after the last callback, and never
  outnumber the room for them; a frame carries the continuity its pixels have; closes and drops
  settle even if workers are lost.
* **macOS capture.** The registration is given back once nothing can reach it; an exception
  never publishes a frame late; resize requests are taken; closes and drops settle.
* **Input.** One sequence at a time; a closed controller is quiet; a receipt never claims
  less than what the host was left with; close ends.

## 2. Modules

| Module | Kind | Models |
| --- | --- | --- |
| `FrameIdentity` | operators | stamps, their order, the cursor and its exhaustion |
| `FrameLog` | abstract specification | what a stream promises: an append-only ordered log that ends once, for one cause |
| `CaptureStream` | component | `StreamState` with publisher, drop recorder, consumers, closers, adapter |
| `CaptureStream_proofs` | proofs | the inductive invariants and ten theorems |
| `TemplateWatch` | component | queries of one session, its publications, the workers |
| `TemplateWatch_proofs` | proofs | the inductive invariant of the queries and their workers, and six theorems |
| `WatchSupervisor` | component | the supervisor thread, its untimed wait, and the calls that wake it |
| `WatchLifecycle` | component | start and end of queries, sessions, threads, and every caller of a close |
| `OcrDispatch` | component | OCR queries beside template queries on the two workers |
| `OcrDispatch_proofs` | proofs | the inductive invariant of the lease and the text queries, and five theorems |
| `Scheduler_proofs` | proofs | `WatchLifecycle`: the inductive invariant of the counters and threads, and three theorems; and one of `OcrDispatch` carried to the run that checks both |
| `DiagnosticStream` | component | the record queue, its loss words, sinks, seal and reader |
| `ReplaySession` | component | the requests of one replay session |
| `WindowsCapture` | component | Windows capture sessions and the process-wide teardown |
| `WindowsCapture_proofs` | proofs | the inductive invariants of the teardown and of the frames, and four theorems |
| `WindowsReplay_proofs` | proofs | `ReplaySession`: the inductive invariant of a replay session and three theorems; and two of `WindowsCapture` carried to the run that checks both |
| `MacosCapture` | component | a macOS capture session over its Objective-C shim |
| `MacosDiagnostics_proofs` | proofs | `DiagnosticStream`: the inductive invariant of the queue and its seal, and three theorems; `MacosCapture`: the inductive invariant of a session, and three theorems |
| `InputController` | component | the gate, and the run, cleanup and receipt of a sequence |
| `InputController_proofs` | proofs | the inductive invariants of the gate and of the runs, and five theorems |
| `MC*` | instances | model values, views, sequences and symmetry for TLC |

`MCScheduler`, `MCWindowsReplay` and `MCMacosDiagnostics` each hold two instances, of one module
or of two, and a variable that says which of them an execution is of and never changes. The two
share no state: an execution takes the steps of one while the other stays as it began, so the
run's state space is the sum of the two and each property is about one of them. They are put
together so that one TLC run answers the questions about both. `MCScheduler` extends
`WatchLifecycle`, whose counters it checks, and holds `OcrDispatch` as an instance; likewise
`MCTemplateWatch`, for the run `watch_liveness`, extends `TemplateWatch` and holds `WatchSupervisor`
under the variable `part`.

Two MC modules split the executions of one module in the same way. `MCStreamPublication` has
`reading`: a stream with a consumer and no drops, whose frames keep one shape and place, or one
with drops and all shapes and placements and no consumer; a consumer that waits looks at
neither, and drops need longer sequences to show. `MCWatchLifecycle` has `setting`: of the
closes by callers, the drop of the engine and the loss of the target, two meet at a time,
callers and engine over the life of one query. All three at once are left out of the run; the
theorems have no such limit, since they are about the specification without the split.
`MCWatchSafety` keeps an execution to one of two settings of the same module with a state
constraint instead: TLC checks the first state outside of it and goes no further. A query
cancelled by its handle is such a state: from there on it is like one that was interrupted and
swept, since an ended query's context is not asked any more. What neither setting holds is their
combination (a rated, change-skipping query with a streak that is closed or shut down, or that
shares frames); the other properties of the module are checked of the rated query under close
and cancellation by `watch_liveness`. The constrained run checks only invariants and one action
property, none of which a constraint can make true of an execution that violates it within the
bounds.

The three watch modules are three views of one runtime, cut so that TLC can check each:
`WatchLifecycle` has everything about the existence of queries and nothing about frames;
`TemplateWatch` has everything that happens to the frames of template queries, of which those
that exist are given; `OcrDispatch` has the sharing of workers and the OCR queries, and of a
template query only whether it has a candidate, is mapped or has ended. What one of them
leaves to another is said in its header.

### State and actions against the code

A variable is a field of the code under the code's name, or a group of fields in one record
(`query[q]` for `QueryData`, `text[q]` for `OcrQueryData`, `dispatch` for `DispatchState`). Each
thread has a program counter (`pc`, `stage`, `thread`, `call`, `supervisor`) or a job (`job[w]`,
what `ClaimedWork`, `OcrWork` and the worker's locals hold). One action is one critical section,
one atomic access made without a lock, one consultation of the caller's context, or one native
call; a section that ends by releasing a lock and notifying is one action together with its
notification. The map in `PROJECT.json` gives the lines of every definition.

* **`CaptureStream`**: `publish*` is `PublishPrepare` (everything `prepare` may refuse, and the
  load of `pending_drops`) and `PublishCommit` (`commit_with`, to the release of the mutex);
  they are two because `try_record_drop` (`RecordAdmit`, `RecordObserve`, `RecordAdd`, three
  atomic accesses) takes no lock. `frame` is `Call`, `CheckEnded`/`CheckForeign`/`CheckPick`/
  `CheckWait`, `Wake`, `Consult`, `CommitFrame`; `terminate` and `begin_close` are each a store
  and a section; `drain` is `DrainBegin`, `DrainCheck`, `DrainConsult`, `DrainFinish`. A refused
  publication changes nothing and has no action. `held` is what a consumer was given; `log`
  and `recorded` are history that only properties read.
* **`TemplateWatch`**: the acquisition thread is `PublishBegin`, `Enqueue` per query,
  `PublishEnd`, `SourceEnds`, `EndQuery`; a worker goes `Pick`, `Claim` (with coalesced
  peers and the check of the publication fence), `MapInterrupted`/`Map`/`FailMapping`/
  `Release`, `Admit` (with change skipping and rate), `Analyse`, `CompleteAsk` (capture's
  consent, no lock), `CompleteCommit`, `Settle`.
* **`WatchLifecycle`**: `Session::start_template_watch` is `Admit`, `InitWatcher`, `Readmit`: two
  tests of the closing gate with `get_or_init` of the watcher between them, so that a close may
  read the cell before it is filled. `start_query` is `ReserveEngine`, `ReserveSlot`, `Register`,
  `EnsureAcquisition` and `Spawn`, which keeps the state lock from its last look at the flags until
  the thread is registered (`Unlocked`). The acquisition thread is `LoopTop` to `Leave`.
  `Session::close` is `FacadeGate` and `FacadeRead`, `WatchScheduler::close` is `SealScheduler`,
  `TakeSessions`, `SchedulerCloses`; both, and a query refused by `Readmit`, call
  `WatchSession::close`. There each caller has its own `call[s][c]`: `CloseCalled`, for the first
  `CloseCancel`, `CloseTerminate`, `CloseDeactivate`, and for all of them `TakeHandle` and
  `JoinThread`. `TakeHandle` takes the thread's handle out of its place before the wait, so a caller
  that finds none returns while another still waits for the thread.
* **`WatchSupervisor`**: `supervisor_loop` is `Top`, `Count` (a look without the lock), `WaitLooks`,
  `WaitCounts` and `Park` (`wait_while`, with `wake_state` locked from its first look until the
  thread can be notified), `Snapshot` and `SweepQuery` (`sweep_authority`). `Wake` takes the same
  lock; it is part of `Started`, `Publish` and `CloseWakes`, and of nothing else that changes what
  the supervisor waits for.
* **`OcrDispatch`**: `next_dispatch` is `NextDispatch` (fence and cursors), `Scan` per OCR
  query, and one of the `Decide*` actions under the admission lock; `process_ocr` is
  `ProcessText`, `Prepare`, `Compare`, `AdmitText`, `Execute`; `complete` is `CompleteAsk` and
  `CompleteCommit`; the drop of the lease is `LeaveQuery`, `LeaveScheduler`, `LeaveSession`.
* **`DiagnosticStream`**: `emit` is `Offer`, `TryLock`, `Emit`, and `CountLoss` when the lock is
  taken; `release_producer` is `Release` (the swap), `Subtract`, and for the last one `SealLock`,
  `SealNormal`, `SealDebug`, `SealFlag`; a drain is `DrainLock`, `DrainNormal`, `DrainDebug`,
  `DrainCommit`. The loss words are taken and fenced by separate atomic operations, while
  producers count without the lock, so each is an action. `emitted`, `reported`, `late` and
  `uncounted` are history: what was offered, what was told, and what a sealed stream or a full
  word refused.
* **`ReplaySession`**: `frame` is `Ask` and then `Look`, `Arbitrate`, `CommitFrame` for a frame
  that is there, or the advance: `Consult`, `TryLock`, `TryReserve`, `CompareClaimed` or
  `CompareEnded`, `CommitClaim`, `Publish`, and `Restore`, the drop of the reservation.
* **`WindowsCapture`**: a callback is `Arrive`, `Admit`, then `TurnBack` or one of the `Take*`,
  which go on to `Recreate`, `Publish` or `Fail`, and `Leave`; a lost target is `Lose` and
  `Fail`. A close is `Close`, `Stop`, `Gate`, `Remove`, `Drain`, `StartClose`, `Await`,
  `Settle`; a drop is `Drop` and `DropClose`. A teardown worker does `Take`, `DrainJob`,
  `Finish`, or is lost (`Panic`), and the last one takes the queue with it (`DropQueue`).
* **`MacosCapture`**: a delivery is `Arrive`, `Admit`, `Stage`, `Commit`, `Ask`, `Store`, `Wake`,
  `Publish`, `Leave`, with `Turn` and `Raise` where it ends early; a stop report is `DidStop`,
  `AdmitFinal`, and both end through `Terminalize`, `Fail`, `Disable`, `Clear`, `Terminate`. The
  worker is `Wait`, `Swap`, `Update`, `Collapse`, `Look`. A close is `Call`, `Enter`, `Drained`,
  `Fence`, the `Phase*` steps, `Complete`, `Report`, `Settle`, or `Abandon` at any wait; a drop
  does the same as `owner`, with `DropTimesOut`, `Quarantine` and `Reclaim`. Whether a frame in
  the slot is late for every other delivery (`late`) is history. The shim keeps `started` and the
  stop gate in words of their own, so `PhaseStop`, `PhaseSubmit` and `PhaseRenew` read, and
  `StopClears` and `StopCompletes` write, one at a time: a close that is retried as its stop
  completes may submit a second one.
* **`InputController`**: `Admission::admit` is `Register`, `Consult`, `Gate`, `Wake`,
  `Arbitrate`; `execute` is `SelectRoute`, `Submit`, `Complete`, `StopBefore`, `StopDuring`,
  `Release`, `ReleaseRefused`, `ReleaseExpired`, `FinishCleanup`, `Leave`; `drain` is `Enter`,
  `BeginClose`, `ConsultClose`, `Look`, `CommitClose`, `FinishClose`. `down`, the keys the host
  holds, is external: it is what `SendInput` and `CGEventPost` did, and the program does not
  see it.

### Abstractions

Pixels, coordinates, text and timestamps are left out. A frame is its stamp and transform, or in
the watch modules a number in stamp order with a `View` (epoch and geometry revision). What a
matcher, recogniser or change detector answers is any of the answers its type allows. A
deadline, a residence limit or a rate interval passes at any time; a cancelled context stays
cancelled. Counters that the code holds in `u64` have a bound (`MaxEpoch`, `MaxSequence`,
`MaxGeometry`, `MaxDrops`) that stands for the largest value, so that exhaustion is a reachable
case. A poll (`wait_timeout`) may return at any time, so notifications are not needed for safety
and only shorten waits; waits without a timeout (`ensure_acquisition`, the joins of close) are
guarded by their condition. A native framework is external: it calls back, completes or fails
what was submitted to it, once per `MaxEvents` where it is a disturbance. What TLC may do to the
two capture adapters (opens, frames, movements, losses, calls, interruptions, a drop, a timeout,
a native failure) is counted in `events` and bounded by `MaxEvents`. Mutex poisoning is left
out: every lock of these components recovers the guard.

## 3. Runs

Constant values that bound a run are in its `.cfg`; `Disturbances` names what may happen to
the queries in a run, so that one question does not pay for the races of another.

| Run | Instance | Shows |
| --- | --- | --- |
| `stream_publication` | 1 closer, 1 fault, 2 epochs; with 1 consumer, or with up to 2 drops pending, 2 shapes, 2 placements, 2 revisions and sequences to 3 | `CountersExact`: drops are neither lost nor counted twice, across discontinuities, and no counter wraps; `LogSpec`: the stream implements `FrameLog`; `WaitersUnwind` |
| `stream_delivery` | 2 consumers, 1 closer, 2 faults | `DrainSettled`: the debug assertions of `drain`; `NewerIsNewer`; `EndIsCommon` |
| `watch_safety` | The constraint `Bounded` keeps an execution to one of two settings, with 2 workers. `Alone`: 1 query, rated, skipping, streak of 2; 4 frames, the last of another view; interruption (before the 4th frame), expiry, lost target. `Together`: 2 queries that coalesce, 1 frame; interruption, session close, shutdown. In both a handle may cancel its query | `MatchedIsStable`: a match rests on an unbroken streak; `FramesAccounted`: one disposition each; `WorkIsSound`: claims and analyses are in one worker's hands and results in order; `AuthorityWins` |
| `watch_liveness` | "watch": 1 query, 2 frames, 2 workers; end of capture, close, cancel. "supervisor": 2 queries, interruptions, shutdown | `NothingWaits`: pending frames and the end of the source are acted on; `MatchNeedsCapture`; `SupervisorAttends`: no wake-up of the supervisor is lost |
| `scheduler_shares` | "limits": 3 queries on 2 sessions, limits 2 / 1 / 1, scheduler close. "turns": 3 OCR queries, 2 workers, 2 frames | `CountsExact`: counters are what is held; `TurnsRotate`: an old scan gives nobody a second turn before another's first |
| `lifecycle_close` | 2 queries on 1 session, either of which may have to close it; of 1 caller of session close, the drop of the engine and the loss of the target, two at a time | `ThreadServesSession`: a live query has a thread, and when no close is under way a closed session has nothing; `AcquisitionFollows`: a started query sees the frame on screen, an idle session is deactivated; `CloseReturns`, whoever joins |
| `dispatch_ends` | 1 OCR query: skipping, streak of 2; 4 frames of 2 views; every way of ending it | `TextEndsSound`: frames are counted, streaks restart; `EndsInOrder`: the documented precedence, and a refusal of capture stands |
| `dispatch_liveness` | 1 OCR and 2 template queries, 2 workers; dropped handles and session close | `LeaseIsSound`: exclusion, barrier and lease are exact; `WorkIsServed`; `SessionLeaves` |
| `input_gate` | 2 callers, 1 closer that may retry, both platforms, 2 routes, cleanup budget 1 | `GateExact`, `ClosedIsQuiet`, `RunIsSound`: the receipt claims no less than what the host was left with; `CloseSettles` |
| `input_cleanup` | macOS, 1 caller | a violation, see section 6 |
| `windows_replay` | "replay": 2 callers of 2 requests each, 3 frames, close and interruptions. "windows": 2 sessions with 2 callbacks each, 1 closer, 1 teardown worker, 2 permits, 5 events | `InSourceOrder`, `AnswersAreRight`, `RequestsAnswered`; `OwnedOnce`, `FramesAreMarked`, `TeardownSettles` |
| `macos_diagnostics` | "diagnostics": 2 emitters, one of them a retained frame, 2 sinks, 3 emissions, a queue of 2, loss words of 1, 2 sequence numbers. "macos": 1 session, 2 closers, 4 events | `LossesExact`, `EndIsFinal`, `ProducersSeal`; `ReclaimedSafely`, `PublishesOwn`, `RequestsAreTaken`, `TeardownEnds` |

The type invariant of a component is the first conjunct of one of its invariants (`CountersExact`,
`WorkIsSound`, `ThreadServesSession`, `LeaseIsSound`, `RunIsSound`, `LossesExact`,
`InSourceOrder`), so that it is checked where that is; the stream's says that no counter wraps.
The two capture adapters and the supervisor have none apart from what their properties say.

**Why the bounds are enough to be interesting.** Epochs and revisions of size one
run out while sequences have not, and the reverse. The first frame of an epoch takes sequence 0
and has no gap before it, so with sequences to 3 a later publication consumes one drop or two,
another epoch does so again, a drop is recorded between its preparation and its commit, and a gap
that would pass the last sequence is refused. Two shapes
and two placements reach every branch of `prepare`, including the placement that does not fit
a shape. A streak of two over four frames admits a positive, a negative and two positives, and
a change of view after the second; two workers are the engine's two, and the overlaps that
matter (claim against claim, completion against claim) are of two. Two coalesced queries are
the smallest claim with a peer. Limits of one and two are reached and
passed. A caller or the engine and two refused queries, or both and one query, are three threads
in one session's close; two are enough for one of them to find the handle taken. With two queries
for the supervisor, one may be released while the other is being started, on either side of its
look at the count. With three
OCR queries one worker's scan can be old by a whole turn of another worker while a third query
still waits for its first. In `dispatch_liveness` two
template queries keep both workers mapping, so that an OCR turn has to drain them. A replay of
three frames leaves two to claim after the first, so that the head is restored behind one that
was published. Five events on Windows are an open, a frame, and three of what may disturb it, or
two sessions whose jobs meet in the queue of a lost worker; one worker is enough, since losing it
is losing all. Four events on macOS reach a drop during a delivery with a timeout before its
fence, and a close of two callers one of which gives up. A queue of two with three emissions
evicts, and its counters overflow. The
sequences of `input_gate` owe a release inside an event (text), after an event (press) and
none for a key released earlier, and owe more than cleanup's budget.

**Deadlock** is not checked: in each of the models everything may have ended (a closed stream
with no call, queries that have all gone, a closed controller), which is a state without
successors that the program also reaches. What must not stop is stated as liveness instead.

**Symmetry** is used for workers, consumers or queries only in runs without liveness
properties.

### Fairness

Only steps of threads that are already inside the code are fair, each weakly: a worker with
work (`Work(w)`), a call under way (`Consume`, `Drain`, `Call`, `Close`), the acquisition
thread, the supervisor's sweep. A query that is refused closes the session with the thread that
started it, so that close is as fair as its start. That the sweep comes round is an assumption in
`TemplateWatch`, which `WatchSupervisor` justifies: there the threads that start, release and close
go on and the supervisor does, but its wait ends by a notification alone, and `SupervisorAttends` is
what `TemplateWatch` relies on. They rest on the scheduler of the operating system, on the
matcher, recogniser and native calls returning, and on the code's waits being timed or woken.
A rate interval elapses (`RateElapses`), because clocks run. In the adapters
what was submitted to a framework completes (`Completion`), and callbacks, workers, drops that
have begun and close calls go on. Two steps are strongly fair: the drop of a replay's claim and
the seal of a diagnostic stream, which wait for a mutex that others take again and again; each
holder leaves it after bounded work, and a mutex does not starve a waiter for ever. Nothing is
fair about the
environment: no frame is ever due, no caller need call or close, no interruption or fault need
come. So `NewQueryIsOffered` says that a started query sees the frame on screen although no
newer one arrives, and `WaitersUnwind` speaks of a wait once closing began, not of a frame to
come. `CloseSettles` speaks of a close that is already looking at the gate; that the sequence
inside the gate ends is the assumption that native calls return, and its closer may still give
up at its deadline, which settles it too.

## 4. Proofs

TLAPS checks every theorem below from the assumptions on the constants that the modules name
(`IdentityAssumption`, `StreamAssumption`, `WatchAssumption`, `LifecycleAssumption`,
`DispatchAssumption`, `DiagnosticAssumption`, `InputAssumption`, `ReplayAssumption`): bounds are
naturals, the sets of threads that are counted are finite and disjoint where the code's are, a
value that stands for nothing is none of the values it stands beside. The theorems hold for any
number of threads, any counter width, any sequences.

A module that the runs meet only as an instance gets such conditions as a hypothesis of its
theorems, since TLC would not evaluate an assumption there: `WindowsAssumption` and
`WindowsConstants` (sessions finite, the permits a natural), `TurnsConstants` (queries numbered
from one, as they are registered), `MacosAssumption` (the threads that close are none of the
session's own). The constants of every run satisfy them.

Three of the runs put two modules together (section 2), and three proof modules follow them:
`Scheduler_proofs`, `WindowsReplay_proofs` and `MacosDiagnostics_proofs` extend the run's MC
module, so that what they prove is said of the specification and of the property TLC checks.
Every safety invariant and every action property of a passing run is stated by a theorem. The
runs that split executions (with `MCStreamPublication` and `MCWatchLifecycle`) restrict the
specification that the theorem is about, so the theorem covers more than they do.

### The stream (`CaptureStream_proofs`)

`StreamInvariant` establishes `StreamInv`, the conjunction of six parts, each with a lemma that
one step preserves it:

* `TypeOK`. Alone it is inductive only because `prepare` checks before it counts: `PreparedType`
  says that what an accepted publication consumed is no more than was pending, and
  `PublishingInv` that it still is when it commits, since the recorder only adds.
* `CountInv`: `waiters` is the number of threads in the timed wait.
* `PublishingInv`: a publication between its halves still follows the last one and holds the
  mutex, so nobody else changed the cursor.
* `CloseInv`: a closer past its check of the waiters finds none and a stream that is not open;
  this is what `drain` asserts, strengthened to the steps before and after the assertion.
* `LogInv`: the cursor is one past the last frame, the current geometry is the last frame's, and
  each frame of the log follows all earlier ones. `FollowsTransitive` reduces the comparison
  with the whole log to the last frame.
* `OneCause`.

From it follow `StreamTypeOK`, `StreamLogOrdered`, `StreamDrainSettled`, `StreamOneCause`, the
action property `StreamEndIsCommon`, and `StreamImplementsLog`: with `phase` read from
`lifecycle` and `cause` from `terminal`, the initial state of the stream is one of `FrameLog`,
`PublishCommit` is `AppendFrame`, the first end is `End`, a fault during cleanup is `Blame`,
`DrainFinish` is `Seal`, and every other step stutters.

Two theorems rest on invariants of their own, beside `StreamInv`:

* `StreamDropsAccounted`, and with the types `StreamCountersExact`, from `DropsInv`: a
  publication between its halves skips exactly the drops it consumed when it was prepared,
  whatever the recorder added since. When it commits, the gap it opens lies behind the last
  frame, so the gaps grow by that many stamps (`OpenedCardinality`, `GapsGrow`), and the pending
  drops shrink by as many.
* the action property `StreamNewerIsNewer`, from `NewerInv`: from the moment a call for a newer
  frame picked one until it commits, the frame picked is newer than the one the caller holds,
  although the mutex was given up in between.

### The template queries (`TemplateWatch_proofs`)

`WatchInvariant` establishes `WatchInv`, for any number of queries and workers (the code has
two workers, which nothing needs):

* `QueriesSound` is about one query's record at a time. `Ordered`: the last answered frame is
  before the one in flight, that before the pending one, and both no newer than the source;
  what is in flight is of the source's view. `Streak`: the confirmed frames are of one view, and
  none of them is older than an empty answer. `Accounted`: frames accepted are frames
  outstanding and dispositions. A lemma per way a record changes (`EndedSound`, `ClaimSound`,
  `EnqueuedSound`, `SkippedSound`, `AdmittedSound`, `LandedSound`, `ConcludedSound`) shows
  that it stays sound.
* `WorkersSound` is about who holds it: a claim that is processing is the claim of the worker
  that lists it, of that frame and that generation; no two workers claim for one live query or
  analyse the same generation (`PairInv`); what a query has outstanding is found at some worker
  (`FoundInv`). The generation is what makes a stale completion harmless, and these parts say why:
  a worker analyses for no generation that has not begun.
* `EndInv`: the authority is recorded before the session counts as closed.

`FramesAccounted`, `MatchedIsStable` and `WorkIsSound` follow from it (`EveryFrameAccounted`,
`MatchesAreStable`, `WatchWorkIsSound`), and so does the action property `AuthorityWins`
(`AuthorityDecides`), action by action: each either ends no query, or ends it with what the
session recorded, or finds nothing recorded.

`MatchNeedsCapture` (`MatchesNeedCapture`) rests on a second invariant of the executions after the
end of capture: a worker that is about to commit for the query has been refused (`Shut`). Only
`CompleteAsk` brings a worker there, and it refuses once capture has ended; so the one step that
could write a match, `CompleteCommit`, writes the refusal.

### The watch lifecycle (`Scheduler_proofs`)

`LifecycleInvariant` establishes `LifecycleInv` for any queries, sessions, callers and limits:

* `CountsExact` needs `HoldInv` (which reservations a query holds at each point of its start and
  release, and that the registry lists only queries of its own session) since a release gives back
  what the query says it holds. The counters are cardinalities of the sets of holders;
  `CountsChange` shows that one query that takes or gives back changes each by one. `ActiveInv`: a
  session that counts a query is activated.
* `ThreadInv` says of each session where its thread and the calls of its close are. `Serving`: why
  the thread leaves; `Acquired`: a started query is not left with a thread that does. `Cut`: once
  the first caller of close has ended the queries, none lives. `Missed`: a close that found the
  watcher's cell empty came before every query's second test of the gate, so each of them will be
  refused and close the session itself; this is why two tests are needed. `Spawned`: the state lock
  keeps a spawn from falling between the close's flag and its cancellation. `Owned`: a thread that
  runs has its handle in place or a caller that waits for it, and a handle left behind by a closed
  session is one that some caller has still to take.

`ThreadChange` and `CallChange` say what a step of the thread, or of one caller, leaves true of the
other sessions; a lemma per action gives the rest. `CountsAreExact` and `ThreadServes` follow:
limits are never passed; a live query has a thread; and when one close has returned and no other is
under way, no query of the session lives and its thread is gone. A single return promises less,
because another caller may have taken the handle, and the theorem claims no more.

### The dispatch of OCR work (`OcrDispatch_proofs`)

`DispatchInvariant` establishes `DispatchInv`, for any number of workers, sessions and queries:

* `TextsInv` is about one query's record at a time. `Ordered`: a live query's counted and empty
  frames are before the one under analysis, that before the pending one, which is the newest;
  `StreakInv`: the counted frames are of the source's view, and newer than every empty one;
  `Accounted`: the frames taken are those outstanding and those disposed of. A lemma per way a
  record changes (`EndedSound`, `SourcedSound`, `EnqueuedFollows`, `ClaimedSound`,
  `DroppedSound`, `LandedSound`, `ConcludedSound`) shows that it stays sound.
* `LeaseInv` is about who may touch it: `MappingExclusion`, `LeaseMatches` and `BarrierExact`,
  the three parts of `LeaseIsSound`, and `Hands`, without which they are not inductive. `Hands`
  says that an analysis under way is that of the worker with the lease, with its generation and
  its frame, and that the streak the worker read before it asked capture is still the query's;
  so a stale result changes nothing, and a worker that gives the lease back leaves no analysis
  behind.
* `ClosingInv`: a query that a close has yet to visit belongs to a session whose end is recorded.

All steps but those that claim and return treat a query the same way: it `Yields`, that is,
keeps its physical slot, and its analysis is untouched or given up. `HandsKept`, `LeaseKept` and
`LeaseStep` need only that, so an action of one actor needs no case for what the others hold.
`DispatchLeaseIsSound` and `DispatchTextEndsSound` follow. The action properties do too:
`DispatchEndsInOrder` shows of every action that it ends no query, or with an outcome that
nothing `Outranks`, and of the commit that it lets what capture refused stand;
`DispatchTurnsRotate`, that the check under the admission lock makes the order of an old scan
the present order.

### The diagnostic stream (`MacosDiagnostics_proofs`)

`DiagnosticInvariant` establishes `DiagInv`: the count of producers is exact and, once it is
zero, nobody comes back, since only a live sink is cloned (`ProducersInv`); drain, seal and emit
exclude each other (`LockInv`); both fences are up before the flag (`FenceInv`); a drain has
taken nothing from a word it has not come to (`TakenInv`); behind the fences a word that was
taken stays empty (`FinalInv`); and each emission of a level is in one place: told, queued, lost,
taken, pending, refused, or in its producer's hand (`EmittedInv`). The last needs that evicting
and appending change the count of a level's records by one (`CountRemove`, `CountAppend`,
`Retained`). `DiagnosticLossesExact` and the action property `DiagnosticEndIsFinal` follow.

### The input controller (`InputController_proofs`)

`GateInvariant` establishes `GateInv`: the types of the gate, `GateExact`, `ClosedIsQuiet` and
`ClosingInv` (a closer past `begin_close` finds the gate no longer open). `ClosedIsQuiet` is not
inductive without the others: that no caller enters between a closer's look and its commit
rests on the gate having left `Open`, and that the look itself is right rests on the counters
being exact, for a set of any size (`CountChange`, from the theorems on finite sets). From it
follow `InputGateExact` and `InputClosedIsQuiet`.

`RunsInvariant` establishes `RunsInv`, for every sequence: nothing has happened before a caller
submits; while it submits, the keys the host holds are covered by what the submitted events leave
held; once it was stopped, by what is owing, and the keys owing and those released add up to those
owed. What is held is computed by recursion over the events (`held_after`). That the recursion
defines what it says is `HeldUnfolds`: were there a prefix it does not define, there would be a
shortest one (`LeastExists`, from the library's theorem on well-founded relations), and that one
can be defined from the one before. So one event (`PressedCovers`) is all that a step of the
invariant has to look at, and the induction over the events is the one over the steps of the run.
`InputRunIsSound` follows by counting (`KeyCount`): a list covers no more keys than its length.

### The replay session (`WindowsReplay_proofs`)

`ReplayInvariant` establishes `ReplayInv`, four parts that need each other:

* `TypeOK`;
* `ClaimInv`: one request owns the claim, from `TryReserve` to `Restore`, the flag is up exactly
  then, and only the owner has a frame out;
* `OrderInv`: `InSourceOrder` frame by frame. The published frames are numbered from one, the
  claimed one follows them and the remaining ones follow that, up to the last of the source.
  Concatenations are poor inductive hypotheses, and this form has none; `ThreeParts` gives the
  concatenation back at the end;
* `AnswerInv`: what a request at each stage may rely on. A chosen frame is newer than the stamp
  and published; a request that looks finds a newer frame or a closed session; and a request that
  found the queue empty and unclaimed still does, because whoever could put a frame back has
  none. That is the part that makes `StreamEnded` right.

A lemma per action shows that it keeps the four, most of them through `StepKeeps` and `FreeKeeps`:
other requests may rely on what they did. From the invariant follow `ReplayInSourceOrder` and the
action property `ReplayAnswersAreRight`.

### The Windows sessions (`WindowsCapture_proofs`)

`TeardownInvariant` establishes `TeardownInv`, for any sessions, callbacks, closing threads,
workers and permits:

* `PermitsOut`: permits free and sessions whose resources exist add up to the capacity. So a
  release never meets the cap of `TeardownPermits::release`, which would hide a permit given back
  twice; the change of the set of holders by one is `PermitTaken` and `PermitBack`.
* `JobsInv`: the jobs queued and the jobs run are of different sessions, each of which handed its
  resources over, and a job without a drain finds the fence up. The bound of the queue follows
  (`QueueBounded`): an injection of the queue into the holders of permits.
* `SessionInv`: resources leave a session once, leaving a task or a result behind, which is
  what makes a second close wait and a drop after a close do nothing; behind the fence no callback
  is inside; what was released was fenced.
* `CloserInv`: what a close call has established at each of its steps. That the drain it saw
  still holds when it raises the fence rests on admission having stopped.

`ResourcesOwnedOnce` follows. `MarkedInvariant` establishes a second invariant, of the frames,
which needs nothing of the constants: a pending discontinuity means that the pool is another than
the last frame's, and a pending change of geometry that the placement is (`TransitionInv`); while
one is pending, fresh pixels in the pool were captured at that placement or later (`PoolInv`), so
a copy taken where the target still is shows it (`CopyInv`); and the one callback in
`process_frame` is why none of this changes between the copy and its publication. The action
property `FramesAreMarked` is then a fact about `Publish` alone (`FramesMarked`).

### The macOS session (`MacosDiagnostics_proofs`)

`MacosInvariant` establishes `MacInv`, for any number of closing threads and any bound on the
framework's events. Two questions have to be answered for `ReclaimedSafely`: who may still be
inside, and whose frame the slot holds.

* `SessionInv`: what the owner does follows from the state of its session, nobody closes one
  that is not open, and the registration is out from the open to the reclaim.
* `WorkerInv`: whoever is past the drain of the resize worker has seen it end, and it does not
  come back, since only the start of capture spawns it and nobody is past a drain before that.
* `SealedInv`: once the fence is up no callback is beyond its dispatch, so none can fill the
  slot; whoever is past the fence emptied it. A drop whose fence timed out (`macMissed`) is the
  exception: it goes to quarantine and raises the fence again, so only the drop that did not miss
  is known to have an empty slot.
* `PhaseInv`: how far the native close has come. A complete close has its fence, and neither
  the start nor the stop is still submitted.
* `SlotInv`: a frame an exception left in the slot (`late`) is there only once admission has
  ended, because `Terminalize` clears `accepting` before the delivery leaves its frame behind, and
  nothing sets it again. So a delivery that stages finds the slot empty, and one that commits finds
  nothing or its own.

The steps are grouped by who takes them (`OpeningSteps`, `FrameworkSteps`, `DeliverySteps`,
`WorkerSteps`, `EndingSteps`, `PhaseSteps`, `CloserSteps`, `DropSteps`): a group disturbs few of
the parts. `MacosReclaimsSafely` and the action property `MacosPublishesOwn` follow.

### Components proved apart, checked together

`WindowsCapture` and `OcrDispatch` have proof modules of their own, and their runs hold them as
instances beside another module, in executions that are of one part or the other.
`WindowsReplay_proofs` and `Scheduler_proofs` take the proof module as an instance with the same
substitution, show that its initial predicate, its steps and its properties are those of the
run's instance, and that an execution of the other part stutters in this one (`AdapterIsWindows`,
`ShareIsTurns`). So `AdapterOwnsOnce`, `AdapterMarksFrames` and `ShareTurnsRotate` state of the
run's specification what `ResourcesOwnedOnce`, `FramesMarked` and `DispatchTurnsRotate` state of
the component.

### What only TLC checks

* Liveness, which rests on fairness and so on `ENABLED`, beyond what these provers do:
  `WaitersUnwind`, `NothingWaits`, `SupervisorAttends`, `AcquisitionFollows`, `CloseReturns`,
  `WorkIsServed`, `SessionLeaves`, `CloseSettles`, `RequestsAnswered`, `TeardownSettles`,
  `ProducersSeal`, `RequestsAreTaken`, `TeardownEnds`.
* `WatchSupervisor`, whose one property is of that kind.
* `IncompleteIsRefused`, which the code violates (section 6).

## 5. How the properties were tested

Each property of a passing run has a mutant in `PROJECT.json`: one definition of the model
changed the way a plausible mistake in the code would change it, defined beside the original
(`EndedWhenClosed`, `PublishCommitStoring`, `ArbitrateUnguarded` and so on). With it the run
finds the property violated, so none of them holds merely by the shape of the model.

## 6. Findings

**A cleanup deadline that passes inside a release (macOS).** `automation/input/src/cleanup.rs`
promises that a cleanup that reaches either of its own bounds is `Exhausted` *rather than a failed
release*, and `receipt.rs` says of `Incomplete` that *a release it attempted did not succeed*. The
Windows `run_cleanup` keeps them apart. The macOS one looks at the deadline between releases,
but takes every error of the release itself for a refusal, and a deadline that passes at the
native boundary is such an error before anything was posted. `input_cleanup` finds a receipt
that says `Incomplete` though no release was refused. Nothing is lost by it but the distinction
the receipt is documented to make.

## 7. What is not modelled, and why

* **Frame mapping and its cache**: the cache only saves a copy. Each mapper keeps pixels it made
  or found under their key, so no interleaving changes an answer; the pixels themselves are data.
* **Windows capture**: the start-up of an executor with its slot and timeouts, executors that
  overlap while one is torn down, byte budgets, the texture pool, pacing, the clock that cannot
  be read (`observed_now()` is `None`) and the polling of a target's liveness by key.
* **macOS capture**: drop accounting, the geometry of a required window, pacing, storage budgets
  and producer leases, the refusal of a close that a caller's clock re-enters, contention for the
  claim of a surface.
* **Geometry, pacing and time arithmetic**: numeric code over floating point and nanoseconds
  without interleavings.
* **Recognition and matching**: their results are inputs.
* **Assets, C bindings, facade**: sequential parsing, delegation and wiring.
* **Composition of `Session::close`**: the three closes it makes are modelled each in its module.
* **Input coordinates**: pointer mapping, the geometry ledger and focus evidence of a request.
* **`finish_mapping` with an unrepresentable interval**: a clock near the end of its range makes
  `checked_add` fail; the models' clocks have no end.

Two things the macOS code does that no property is about. A resize request that races a shutdown
may be counted as rejected by both sides, which only a diagnostic count shows. A close that is
interrupted after the shim handed over its fault loses that fault, since the shim tells it once.

## 8. Plan

What the plan set out to prove is proved. Left to model, if the code grows around them: the
start-up of the Windows executor, the storage leases of the macOS shim, the three closes of
`Session::close` composed, the geometry ledger of the input adapters.
