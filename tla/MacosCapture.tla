------------------------------ MODULE MacosCapture ------------------------------
(***************************************************************************)
(* A capture session of the macOS adapter: the Rust session                *)
(* (crates/platform/macos/src/native.rs) over the Objective-C shim         *)
(* (crates/platform/macos/native/madopilot_macos_shim.m).                  *)
(*                                                                         *)
(* The framework calls back on two queues: one delivers frames, one after  *)
(* the other, the other tells that the stream has stopped.  Both run in the *)
(* shim's admission fence and enter the Rust session through one strong    *)
(* reference, its registration, that is given back when no callback can    *)
(* reach it any more.  A frame is staged by one callback and published by  *)
(* a second one, so that an exception of the framework between them leaves *)
(* it unseen.  A worker applies the surface that frames ask for.  Closing  *)
(* is a machine of phases that any close call advances as far as its time  *)
(* allows; a session that is dropped without a close does the same, and    *)
(* hands what it cannot finish to a thread that waits for ever.            *)
(*                                                                         *)
(* The stream is reduced to its lifecycle and its last frame: CaptureStream *)
(* is about the rest.  ScreenCaptureKit is external, and appears as the    *)
(* callbacks and completions it calls.                                     *)
(***************************************************************************)
EXTENDS Naturals, FiniteSets

CONSTANTS
    Closers,    \* threads that close the session
    MaxEvents,  \* bounds what is done to the program: frames, resizes, stops, close
                \* calls, interruptions, a drop, and what fails or takes too long
    None

VARIABLES
    live,       \* the NativeSession: "none", "opening", "open", "dropping",
                \* "quarantined" (its teardown has a thread of its own), "gone",
                \* or "leaked" (that thread could not be had)
    registered, \* the strong references the shim holds as its context
    stream,     \* its lifecycle
    published,  \* the last frame published
    slot,       \* PendingSlot: the frame staged
    extent,     \* TransitionState
    accepting, fenced, stopped,     \* MPShimAdmission, stop_reported
    start, started, output, stop,   \* MPShimStartGate, MPShimStopGate, their flags
    phase, error, told, \* close_phase, close_error, close_error_reported
    wanted, wake, shutdown, taken,  \* Reconfigure, and what its worker applies
    content, surface,   \* the extents of the target and of the producer
    at,         \* what each thread does
    delivery, held,     \* the sample delivered, and the frame being committed
    owner,      \* CloseGate
    interrupted,        \* the callers that gave up
    missed,     \* the fence of a drop ran out of time
    events      \* how much was done to the program

rust    == <<live, registered, stream, published, slot, extent, owner, missed>>
fence   == <<accepting, fenced, stopped>>
capture == <<start, started, output, stop, phase, error, told>>
resize  == <<wanted, wake, shutdown, taken, content, surface>>
frames  == <<delivery, held>>
vars == <<rust, fence, capture, resize, frames, at, interrupted, events>>

Threads == {"frame", "stop", "worker", "owner"} \cup Closers

Init ==
    /\ live = "none" /\ registered = 0 /\ stream = "Open" /\ published = None
    /\ slot = None /\ extent = 1 /\ owner = None /\ missed = FALSE
    /\ accepting = TRUE /\ fenced = FALSE /\ stopped = FALSE
    /\ start = "idle" /\ started = FALSE /\ output = TRUE /\ stop = "none"
    /\ phase = "start" /\ error = FALSE /\ told = FALSE
    /\ wanted = 0 /\ wake = FALSE /\ shutdown = FALSE /\ taken = 0
    /\ content = 1 /\ surface = 1
    /\ delivery = None /\ held = None
    /\ at = [t \in Threads |-> "idle"]
    /\ interrupted = {} /\ events = 0

Event == events < MaxEvents /\ events' = events + 1

(* What may go wrong counts as something done to the program.              *)
Sound == UNCHANGED events

Goto(t, next) == at' = [at EXCEPT ![t] = next]

(* The callbacks the fence counts.                                         *)
Inside == {t \in {"frame", "stop"} : at[t] \notin {"idle", "dispatched"}}

-----------------------------------------------------------------------------
(* Opening.  The registration is handed over before the native session is  *)
(* opened (an open the shim refuses takes it back at once) ...             *)
Open ==
    /\ live = "none" /\ live' = "opening" /\ registered' = 1
    /\ Goto("owner", "opening")
    /\ UNCHANGED <<stream, published, slot, extent, owner, missed, fence,
                   capture, resize, frames, interrupted, events>>

(* ... the reconfigure worker is spawned, or shut down for want of a       *)
(* thread, and the capture is started, once ...                            *)
Start ==
    /\ at["owner"] = "opening"
    /\ \/ at' = [at EXCEPT !["owner"] = "starting", !["worker"] = "waiting"]
          /\ Sound /\ UNCHANGED shutdown
       \/ Goto("owner", "starting") /\ Event /\ shutdown' = TRUE
    /\ start' = "pending"
    /\ UNCHANGED <<rust, fence, started, output, stop, phase, error, told, wanted, wake,
                   taken, content, surface, frames, interrupted>>

(* ... its completion is external ...                                      *)
StartCompletes ==
    /\ start = "pending"
    /\ \/ start' = "ok" /\ started' = TRUE /\ Sound
       \/ start' = "failed" /\ Event /\ UNCHANGED started
    /\ UNCHANGED <<rust, fence, output, stop, phase, error, told, resize, frames, at,
                   interrupted>>

(* ... and awaited, unless the caller gives up.  What was opened is then    *)
(* torn down as a dropped session is.                                      *)
Opened ==
    /\ at["owner"] = "starting" /\ start \in {"ok", "failed"}
    /\ IF start = "ok"
         THEN live' = "open" /\ Goto("owner", "idle")
         ELSE live' = "dropping" /\ Goto("owner", "disabling")
    /\ UNCHANGED <<registered, stream, published, slot, extent, owner, missed,
                   fence, capture, resize, frames, interrupted, events>>

GiveUp ==
    /\ at["owner"] \in {"opening", "starting"} /\ Event
    /\ live' = "dropping" /\ Goto("owner", "disabling")
    /\ UNCHANGED <<registered, stream, published, slot, extent, owner, missed,
                   fence, capture, resize, frames, interrupted>>

-----------------------------------------------------------------------------
(* The framework.                                                          *)
Capturing == start \in {"pending", "ok"} /\ stop \notin {"ok", "fault"}

Resize ==
    /\ Capturing /\ Event /\ content' = 3 - content
    /\ UNCHANGED <<rust, fence, capture, wanted, wake, shutdown, taken, surface, frames,
                   at, interrupted>>

(* A sample is on its way.  It asks for a surface of its content's extent  *)
(* if that is not what it was produced in (surface_request).               *)
Arrive ==
    /\ Capturing /\ output /\ at["frame"] = "idle" /\ Event
    /\ Goto("frame", "dispatched")
    /\ delivery' = [extent |-> content, asks |-> content # surface, late |-> FALSE]
    /\ UNCHANGED <<rust, fence, capture, resize, held, interrupted>>

(* So is the news that the stream has stopped.                             *)
DidStop ==
    /\ Capturing /\ at["stop"] = "idle" /\ Event
    /\ Goto("stop", "dispatched")
    /\ UNCHANGED <<rust, fence, capture, resize, frames, interrupted>>

-----------------------------------------------------------------------------
(* A delivery.                                                             *)
Admit ==
    /\ at["frame"] = "dispatched"
    /\ Goto("frame", IF accepting /\ ~fenced THEN "staging" ELSE "idle")
    /\ UNCHANGED <<rust, fence, capture, resize, frames, interrupted, events>>

(* A sample that is no complete frame or for which no storage is left is   *)
(* dropped; one of another window geometry ends the session, and so does   *)
(* an exception ...                                                        *)
Turn ==
    /\ at["frame"] = "staging"
    /\ \/ Goto("frame", "leaving") /\ Sound
       \/ Goto("frame", "terminating") /\ Event
    /\ UNCHANGED <<rust, fence, capture, resize, frames, interrupted>>

(* ... on_frame stages the others, if the slot is free; a frame that could *)
(* not be detached or staged is dropped, and delivery goes on ...          *)
Stage ==
    /\ at["frame"] = "staging" /\ Goto("frame", "staged")
    /\ slot' \in IF slot = None THEN {None, delivery} ELSE {slot}
    /\ UNCHANGED <<live, registered, stream, published, extent, owner, missed,
                   fence, capture, resize, frames, interrupted, events>>

(* Mutant of Raise: the exception is contained and nothing else.           *)
RaiseContained ==
    /\ at["frame"] = "staged" /\ Event /\ Goto("frame", "leaving")
    /\ UNCHANGED <<rust, fence, capture, resize, frames, interrupted>>

(* ... an exception after it ...                                           *)
Raise ==
    /\ at["frame"] = "staged" /\ Event /\ Goto("frame", "terminating")
    /\ UNCHANGED <<rust, fence, capture, resize, frames, interrupted>>

(* ... or on_frame_commit takes what is staged.                            *)
Commit ==
    /\ at["frame"] = "staged"
    /\ Goto("frame", IF slot = None THEN "leaving"
                     ELSE IF slot.asks THEN "asking" ELSE "publishing")
    /\ held' = slot /\ slot' = None
    /\ UNCHANGED <<live, registered, stream, published, extent, owner, missed,
                   fence, capture, resize, delivery, interrupted, events>>

(* process_frame: Reconfigure::request, which takes no lock ...            *)
Ask ==
    /\ at["frame"] = "asking"
    /\ Goto("frame", IF shutdown THEN "publishing" ELSE "storing")
    /\ UNCHANGED <<rust, fence, capture, resize, frames, interrupted, events>>

Store ==
    /\ at["frame"] = "storing" /\ Goto("frame", "waking")
    /\ wanted' = held.extent
    /\ UNCHANGED <<rust, fence, capture, wake, shutdown, taken, content, surface, frames,
                   interrupted, events>>

Wake ==
    /\ at["frame"] = "waking" /\ Goto("frame", "publishing")
    /\ IF shutdown \/ at["worker"] = "idle"
         THEN shutdown' = TRUE /\ wanted' = 0 /\ UNCHANGED wake
         ELSE wake' = TRUE /\ UNCHANGED <<wanted, shutdown>>
    /\ UNCHANGED <<rust, fence, capture, taken, content, surface, frames, interrupted, events>>

(* ... the first frame of another extent is dropped, and others go to the  *)
(* stream, which refuses them once it has ended; what else goes wrong ends *)
(* the session.                                                            *)
Publish ==
    /\ at["frame"] = "publishing"
    /\ \/ /\ held.extent # extent /\ extent' = held.extent
          /\ Goto("frame", "leaving") /\ Sound /\ UNCHANGED published
       \/ /\ held.extent = extent /\ Goto("frame", "leaving") /\ Sound
          /\ published' = IF stream = "Open"
                            THEN [extent |-> held.extent, late |-> held.late]
                            ELSE published
          /\ UNCHANGED extent
       \/ Goto("frame", "failing") /\ Event /\ UNCHANGED <<published, extent>>
    /\ held' = None
    /\ UNCHANGED <<live, registered, stream, slot, owner, missed, fence, capture,
                   resize, delivery, interrupted>>

(* A frame that is still staged is late for every other delivery.          *)
Leave(t) ==
    /\ at[t] = "leaving" /\ Goto(t, "idle")
    /\ IF t = "frame"
         THEN /\ delivery' = None
              /\ slot' = IF slot = None THEN None ELSE [slot EXCEPT !.late = TRUE]
         ELSE UNCHANGED <<delivery, slot>>
    /\ UNCHANGED <<live, registered, stream, published, extent, owner, missed,
                   fence, capture, resize, held, interrupted, events>>

-----------------------------------------------------------------------------
(* Mutant of AdmitFinal: the stop report sits outside the fence.           *)
AdmitFinalAlways ==
    /\ at["stop"] = "dispatched" /\ Goto("stop", "terminating")
    /\ UNCHANGED <<rust, fence, capture, resize, frames, interrupted, events>>

(* The stop report has a door of its own, for it is what stops admission.  *)
AdmitFinal ==
    /\ at["stop"] = "dispatched"
    /\ Goto("stop", IF fenced THEN "idle" ELSE "terminating")
    /\ UNCHANGED <<rust, fence, capture, resize, frames, interrupted, events>>

(* mp_shim_session_terminalize, and the one stopped callback it makes.     *)
Terminalize(t) ==
    /\ at[t] = "terminating"
    /\ accepting' = FALSE /\ stopped' = TRUE
    /\ Goto(t, IF stopped THEN "leaving" ELSE "failing")
    /\ UNCHANGED <<rust, fenced, capture, resize, frames, interrupted, events>>

(* fail_native: discard_pending_frame, disable_callbacks, shutdown,         *)
(* terminate.                                                              *)
Fail(t) ==
    /\ at[t] = "failing" /\ Goto(t, "disabling")
    /\ slot' = None
    /\ UNCHANGED <<live, registered, stream, published, extent, owner, missed,
                   fence, capture, resize, frames, interrupted, events>>

Terminate(t) ==
    /\ at[t] = "ending" /\ Goto(t, IF t = "worker" THEN "idle" ELSE "leaving")
    /\ stream' = IF stream = "Open" THEN "Closing" ELSE stream
    /\ UNCHANGED <<live, registered, published, slot, extent, owner, missed, fence,
                   capture, resize, frames, interrupted, events>>

(* What every way out begins with, and what comes after it.                *)
AfterShutdown(t) ==
    IF t \in Closers THEN "gating" ELSE IF t = "owner" THEN "draining" ELSE "ending"

Disable(t) ==
    /\ at[t] = "disabling"
    /\ accepting' = FALSE /\ shutdown' = TRUE
    /\ Goto(t, IF shutdown THEN AfterShutdown(t) ELSE "clearing")
    /\ UNCHANGED <<rust, fenced, stopped, capture, wanted, wake, taken, content, surface,
                   frames, interrupted, events>>

(* The rest of Reconfigure::shutdown, for the thread that set its flag.    *)
Clear(t) ==
    /\ at[t] = "clearing" /\ Goto(t, AfterShutdown(t))
    /\ wanted' = 0 /\ wake' = TRUE
    /\ UNCHANGED <<rust, fence, capture, shutdown, taken, content, surface, frames,
                   interrupted, events>>

Ending(t) ==
    \/ Terminalize(t) \/ Fail(t) \/ Disable(t) \/ Clear(t)
    \/ Terminate(t) \/ Leave(t)

Delivery ==
    Admit \/ Turn \/ Stage \/ Raise \/ Commit \/ Ask \/ Store \/ Wake \/ Publish

-----------------------------------------------------------------------------
(* The reconfigure worker.  Its wait is timed and looks for a shutdown.    *)
Wait ==
    /\ at["worker"] = "waiting" /\ (shutdown \/ wake)
    /\ IF shutdown
         THEN Goto("worker", "idle") /\ UNCHANGED wake
         ELSE Goto("worker", "woken") /\ wake' = FALSE
    /\ UNCHANGED <<rust, fence, capture, wanted, shutdown, taken, content, surface, frames,
                   interrupted, events>>

Swap ==
    /\ at["worker"] = "woken"
    /\ IF shutdown
         THEN Goto("worker", "idle") /\ UNCHANGED <<wanted, taken>>
         ELSE /\ Goto("worker", IF wanted = 0 THEN "waiting" ELSE "updating")
              /\ taken' = wanted /\ wanted' = 0
    /\ UNCHANGED <<rust, fence, capture, wake, shutdown, content, surface, frames,
                   interrupted, events>>

(* The native call: the surface changes, or it does not; a budget that is  *)
(* exhausted ends the session, and the worker.                             *)
Update ==
    /\ at["worker"] = "updating"
    /\ \/ surface' = taken /\ Goto("worker", "collapsing") /\ Sound
       \/ /\ UNCHANGED surface /\ Event
          /\ \E next \in {"collapsing", "failing"} : Goto("worker", next)
    /\ taken' = 0
    /\ UNCHANGED <<rust, fence, capture, wanted, wake, shutdown, content, frames,
                   interrupted>>

Collapse ==
    /\ at["worker"] = "collapsing" /\ Goto("worker", "looking")
    /\ wake' = FALSE
    /\ UNCHANGED <<rust, fence, capture, wanted, shutdown, taken, content, surface, frames,
                   interrupted, events>>

(* Mutant of Look: a token collapsed is not given back.                    *)
LookAway ==
    /\ at["worker"] = "looking" /\ Goto("worker", "waiting")
    /\ UNCHANGED <<rust, fence, capture, resize, frames, interrupted, events>>

Look ==
    /\ at["worker"] = "looking" /\ Goto("worker", "waiting")
    /\ wake' = (wake \/ wanted # 0)
    /\ UNCHANGED <<rust, fence, capture, wanted, shutdown, taken, content, surface, frames,
                   interrupted, events>>

Worker == Wait \/ Swap \/ Update \/ Collapse \/ Look

-----------------------------------------------------------------------------
(* The phases of mp_shim_session_close, advanced by the thread that has the *)
(* claim (one has, for the gate admits one caller and a drop comes after   *)
(* them).                                                                  *)
Fallible == \/ Sound /\ UNCHANGED error
            \/ Event /\ error' = TRUE

PhaseStart ==
    /\ phase = "start" /\ start # "pending"
    /\ phase' = "output" /\ error' = (error \/ start = "failed")
    /\ UNCHANGED <<fenced, started, output, stop, events>>

PhaseOutput ==
    /\ phase = "output" /\ phase' = "stop"
    /\ output' = FALSE /\ Fallible
    /\ UNCHANGED <<fenced, started, stop>>

(* The flag and the gate are looked at one after the other ...             *)
PhaseStop ==
    /\ phase = "stop" /\ phase' = IF started THEN "submitting" ELSE "stopping"
    /\ UNCHANGED <<fenced, started, output, stop, error, events>>

(* ... so the stop is submitted unless it is pending, again if it completed *)
(* in between; a submission that fails is its own answer.                  *)
PhaseSubmit ==
    /\ phase = "submitting"
    /\ \/ stop' = "pending" /\ phase' = "stopping" /\ Sound /\ UNCHANGED error
       \/ /\ stop # "pending" /\ stop' = "fault" /\ phase' = "fence"
          /\ Event /\ error' = TRUE
    /\ UNCHANGED <<fenced, started, output>>

(* A wait that runs out of time releases the claim, and whoever claims next *)
(* looks again.                                                            *)
PhaseRenew ==
    /\ phase = "stopping" /\ stop = "pending" /\ phase' = "stop"
    /\ UNCHANGED <<fenced, started, output, stop, error, events>>

PhaseStopped ==
    /\ phase = "stopping" /\ stop # "pending"
    /\ phase' = "fence" /\ error' = (error \/ stop = "fault")
    /\ UNCHANGED <<fenced, started, output, stop, events>>

(* After the fence the release runs to its end: the native objects go.     *)
PhaseFence ==
    /\ phase = "fence" /\ Inside = {}
    /\ phase' = "complete" /\ fenced' = TRUE /\ Fallible
    /\ UNCHANGED <<started, output, stop>>

Phase ==
    \/ PhaseStart \/ PhaseOutput \/ PhaseStop \/ PhaseSubmit \/ PhaseRenew
    \/ PhaseStopped \/ PhaseFence

Advance(t) ==
    /\ at[t] = "closing" /\ Phase
    /\ UNCHANGED <<rust, accepting, stopped, start, told, resize, frames, at, interrupted>>

(* The completion of the stop is external.  It clears the flag and then    *)
(* settles the gate.                                                       *)
StopClears ==
    /\ stop = "pending" /\ started /\ started' = FALSE
    /\ UNCHANGED <<rust, fence, start, output, stop, phase, error, told, resize, frames,
                   at, interrupted, events>>

StopCompletes ==
    /\ stop = "pending" /\ ~started
    /\ \/ stop' = "ok" /\ Sound
       \/ stop' = "fault" /\ Event
    /\ UNCHANGED <<rust, fence, start, started, output, phase, error, told, resize,
                   frames, at, interrupted>>

-----------------------------------------------------------------------------
(* NativeSession::close: begin_close, disable_callbacks, shutdown ...      *)
Calling == {d \in Closers : at[d] # "idle"}

Call(d) ==
    /\ live = "open" /\ at[d] = "idle" /\ Event
    /\ Goto(d, "disabling")
    /\ stream' = IF stream = "Open" THEN "Closing" ELSE stream
    /\ UNCHANGED <<live, registered, published, slot, extent, owner, missed,
                   fence, capture, resize, frames, interrupted>>

Interrupt(d) ==
    /\ d \in Calling \ interrupted /\ Event
    /\ interrupted' = interrupted \cup {d}
    /\ UNCHANGED <<rust, fence, capture, resize, frames, at>>

(* A call returns, and gives the gate back if it had it.                   *)
Return(d) ==
    /\ Goto(d, "idle") /\ interrupted' = interrupted \ {d}
    /\ owner' = IF owner = d THEN None ELSE owner

(* Mutant of Abandon: the gate is not given back.                          *)
AbandonHolding(d) ==
    /\ d \in interrupted
    /\ \/ at[d] \in {"gating", "draining", "committing", "settling"}
       \/ at[d] = "fencing" /\ Inside # {}
       \/ at[d] = "closing" /\ phase \notin {"submitting", "complete"}
    /\ Goto(d, "idle") /\ interrupted' = interrupted \ {d}
    /\ UNCHANGED <<rust, fence, capture, resize, frames, events>>

(* A caller that was interrupted stops where it is asked, and where a      *)
(* native wait has to be renewed.                                          *)
Abandon(d) ==
    /\ d \in interrupted
    /\ \/ at[d] \in {"gating", "draining", "committing", "settling"}
       \/ at[d] = "fencing" /\ Inside # {}
       \/ at[d] = "closing" /\ phase \notin {"submitting", "complete"}
    /\ Return(d)
    /\ UNCHANGED <<live, registered, stream, published, slot, extent, missed,
                   fence, capture, resize, frames, events>>

(* ... CloseGate::enter, whose owner gives the gate back if the operation  *)
(* is interrupted on the way, and Reconfigure::drain ...                   *)
Enter(d) ==
    /\ at[d] = "gating" /\ d \notin interrupted /\ owner = None
    /\ owner' = d /\ Goto(d, "draining")
    /\ UNCHANGED <<live, registered, stream, published, slot, extent, missed,
                   fence, capture, resize, frames, interrupted, events>>

Drained(d) ==
    /\ at[d] = "draining" /\ d \notin interrupted /\ at["worker"] = "idle"
    /\ Goto(d, "fencing")
    /\ UNCHANGED <<rust, fence, capture, resize, frames, interrupted, events>>

(* ... fence_and_close: the fence, and discard_pending_frame ...           *)
Fence(t) ==
    /\ at[t] = "fencing" /\ Inside = {}
    /\ fenced' = TRUE /\ slot' = None /\ Goto(t, "closing")
    /\ UNCHANGED <<live, registered, stream, published, extent, owner, missed,
                   accepting, stopped, capture, resize, frames, interrupted, events>>

(* ... the native close, which tells its fault once ...                    *)
Complete(d) ==
    /\ at[d] = "closing" /\ phase = "complete"
    /\ Goto(d, IF error /\ ~told THEN "committing" ELSE "settling")
    /\ told' = (told \/ error)
    /\ UNCHANGED <<rust, fence, start, started, output, stop, phase, error, resize, frames,
                   interrupted, events>>

(* ... to a caller that is still there (close_reported says what the shim's *)
(* flag has said), unless it is the stream having stopped before ...       *)
Report(d) ==
    /\ at[d] = "committing" /\ d \notin interrupted
    /\ \/ Return(d)
       \/ Goto(d, "settling") /\ UNCHANGED <<owner, interrupted>>
    /\ UNCHANGED <<live, registered, stream, published, slot, extent, missed, fence, capture,
                   resize, frames, events>>

(* ... and the drain of the stream.                                        *)
Settle(d) ==
    /\ at[d] = "settling" /\ d \notin interrupted
    /\ stream' = "Closed" /\ Return(d)
    /\ UNCHANGED <<live, registered, published, slot, extent, missed, fence,
                   capture, resize, frames, events>>

CloseStep(d) ==
    \/ Disable(d) \/ Clear(d) \/ Abandon(d) \/ Enter(d) \/ Drained(d)
    \/ Fence(d) \/ Advance(d) \/ Complete(d) \/ Report(d) \/ Settle(d)

-----------------------------------------------------------------------------
(* Drop of the session, which no close call borrows, and of what a failed  *)
(* open leaves.                                                            *)
Drop ==
    /\ live = "open" /\ Calling = {} /\ Event
    /\ live' = "dropping" /\ Goto("owner", "disabling")
    /\ UNCHANGED <<registered, stream, published, slot, extent, owner, missed,
                   fence, capture, resize, frames, interrupted>>

(* drain_for_drop; the quarantine waits for as long as it takes.           *)
DropDrained ==
    /\ at["owner"] = "draining" /\ at["worker"] = "idle"
    /\ Goto("owner", "fencing")
    /\ UNCHANGED <<rust, fence, capture, resize, frames, interrupted, events>>

(* quarantine_session: what is left to do is started over by a thread that *)
(* has no time limit, or by none.                                          *)
Quarantine ==
    /\ \/ live' = "quarantined" /\ Goto("owner", "draining")
       \/ live' = "leaked" /\ Goto("owner", "idle")
    /\ missed' = FALSE

(* The worker is not done in time; close_registered misses its fence, and  *)
(* closes all the same; or that close runs out of time.                    *)
DropTimesOut ==
    /\ live = "dropping" /\ Event
    /\ \/ at["owner"] = "draining" /\ at["worker"] # "idle" /\ Quarantine
       \/ /\ at["owner"] = "fencing" /\ Inside # {}
          /\ missed' = TRUE /\ Goto("owner", "closing") /\ UNCHANGED live
       \/ /\ at["owner"] = "closing" /\ phase \notin {"submitting", "complete"}
          /\ Quarantine
    /\ UNCHANGED <<registered, stream, published, slot, extent, owner, fence,
                   capture, resize, frames, interrupted>>

(* The registration is reclaimed if the fence was there before the close.  *)
Reclaim ==
    /\ at["owner"] = "closing" /\ phase = "complete"
    /\ IF missed
         THEN Quarantine /\ UNCHANGED registered
         ELSE /\ live' = "gone" /\ registered' = registered - 1
              /\ Goto("owner", "idle") /\ UNCHANGED missed
    /\ told' = (told \/ error)
    /\ UNCHANGED <<stream, published, slot, extent, owner, fence, start, started,
                   output, stop, phase, error, resize, frames, interrupted, events>>

Owner ==
    \/ Open \/ Start \/ Opened \/ Disable("owner") \/ Clear("owner")
    \/ DropDrained \/ Fence("owner") \/ Advance("owner") \/ Reclaim

-----------------------------------------------------------------------------
Completion == StartCompletes \/ StopClears \/ StopCompletes

Next ==
    \/ Owner \/ GiveUp \/ Drop \/ DropTimesOut
    \/ Completion \/ Resize \/ Arrive \/ DidStop
    \/ Delivery \/ AdmitFinal \/ Worker
    \/ \E t \in {"frame", "stop", "worker"} : Ending(t)
    \/ \E d \in Closers : Call(d) \/ Interrupt(d) \/ CloseStep(d)

Spec == Init /\ [][Next]_vars

(* Callbacks, the worker, close calls and a teardown that has begun go on, *)
(* and the framework completes what was submitted to it.                   *)
FairSpec ==
    /\ Spec
    /\ WF_vars(Owner) /\ WF_vars(Completion)
    /\ WF_vars(Delivery \/ Ending("frame"))
    /\ WF_vars(AdmitFinal \/ Ending("stop"))
    /\ WF_vars(Worker \/ Ending("worker"))
    /\ \A d \in Closers : WF_vars(CloseStep(d))

-----------------------------------------------------------------------------
(* The registration is reclaimed once, and the native objects go, when no  *)
(* callback is inside or can enter, the worker has ended, nothing is        *)
(* submitted and, for the registration or a close that found them gone, no *)
(* frame is staged (close_registered, quarantine_session, fence_and_close, *)
(* mp_shim_session_close).                                                 *)
ReclaimedSafely ==
    /\ phase = "complete" =>
          /\ fenced /\ Inside = {} /\ at["worker"] = "idle"
          /\ "pending" \notin {start, stop}
    /\ registered \in {0, 1}
    /\ live # "none" => (registered = 0 <=> live = "gone")
    /\ live = "gone" \/ (\E d \in Closers : at[d] \in {"committing", "settling"}) =>
          phase = "complete" /\ slot = None

(* A frame is published by the delivery that staged it or never: one that   *)
(* an exception left behind is not mistaken for the next (stage_frame,     *)
(* commit_staged_frame, mp_shim_session_terminalize).                      *)
PublishesOwn == [][published' # published => ~published'.late]_vars

(* A request for a surface is taken by the worker or withdrawn, however it *)
(* races with the worker and with a shutdown (Reconfigure).                *)
RequestsAreTaken == (wanted # 0) ~> (wanted = 0)

(* A close call returns, and a session that is dropped, or whose open was  *)
(* given up, gives its registration back, unless the thread for it could   *)
(* not be had (CloseGate, NativeSession::drop, quarantine_session).        *)
TeardownEnds ==
    /\ \A d \in Closers : (d \in Calling) ~> (d \notin Calling)
    /\ (live = "dropping") ~> (live \in {"gone", "leaked"})

=============================================================================
