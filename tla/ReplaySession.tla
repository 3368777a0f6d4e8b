----------------------------- MODULE ReplaySession -----------------------------
(***************************************************************************)
(* One open replay session (crates/adapter/replay/src/provider.rs): a      *)
(* finite sequence of frames that advances because a caller asks for a     *)
(* frame newer than one it has.                                            *)
(*                                                                         *)
(* Concurrent requests compete for the head of the sequence.  A claim moves *)
(* the head out of the queue and can be undone until it publishes: the     *)
(* caller's context is consulted, with no lock held, between the claim and *)
(* the publication, and a claim that is dropped puts its frame back.       *)
(*                                                                         *)
(* Frames are numbered in source order and the first was published when    *)
(* the session opened.  The stream is what CaptureStream shows it to be, a *)
(* log that accepts frames while it is open: nothing else publishes to it, *)
(* no drop is recorded and no fault ends it, and a request that reaches it *)
(* never waits, because a frame newer than the stamp is already there.     *)
(***************************************************************************)
EXTENDS Naturals, Sequences, SequencesExt

CONSTANTS
    Callers,    \* threads asking for frames
    MaxFrames,  \* the length of the source
    MaxCalls,   \* bounds the calls of each caller
    NoFrame

ASSUME ReplayAssumption ==
    /\ MaxFrames \in Nat \ {0} /\ MaxCalls \in Nat
    /\ NoFrame \notin 1..MaxFrames

Source == [i \in 1..MaxFrames |-> i]

VARIABLES
    frames, reserved,   \* Remainder
    log, lifecycle,     \* the stream: the published frames, and whether it is open
    stage,      \* how far each caller's request is
    wanted,     \* the stamp the request must be newer than
    claim,      \* the frame of the caller's Reservation
    chosen,     \* the frame the request is about to return
    outcome,    \* what the last request of each caller came to
    interrupted,    \* callers whose operation context is interrupted
    calls       \* requests made so far

vars == <<frames, reserved, log, lifecycle, stage, wanted, claim, chosen, outcome,
          interrupted, calls>>

Latest == Last(log)

(* Right after open.                                                       *)
Init ==
    /\ frames = Tail(Source) /\ reserved = FALSE
    /\ log = <<1>> /\ lifecycle = "Open"
    /\ stage = [c \in Callers |-> "idle"]
    /\ wanted = [c \in Callers |-> 1]
    /\ claim = [c \in Callers |-> NoFrame]
    /\ chosen = [c \in Callers |-> NoFrame]
    /\ outcome = [c \in Callers |-> "none"]
    /\ interrupted = {}
    /\ calls = [c \in Callers |-> 0]

GoTo(c, next) == stage' = [stage EXCEPT ![c] = next]
Outcome(c, what) == outcome' = [outcome EXCEPT ![c] = what]

(* The request returns: with an error, or with the frame it chose.         *)
Return(c, what) ==
    /\ GoTo(c, "idle") /\ Outcome(c, what)
    /\ chosen' = [chosen EXCEPT ![c] = NoFrame]
    /\ wanted' = [wanted EXCEPT ![c] = 1]
    /\ interrupted' = interrupted \ {c}

Interrupt(c) ==
    /\ stage[c] # "idle" /\ c \notin interrupted
    /\ interrupted' = interrupted \cup {c}
    /\ UNCHANGED <<frames, reserved, log, lifecycle, stage, wanted, claim, chosen,
                   outcome, calls>>

-----------------------------------------------------------------------------
(* ReplaySession::frame.                                                   *)

(* A closed session and a frame that is already newer are left to the      *)
(* stream; only a request for what is not there yet advances the sequence. *)
Ask(c, stamp) ==
    /\ stage[c] = "idle" /\ calls[c] < MaxCalls
    /\ stamp <= Latest
    /\ calls' = [calls EXCEPT ![c] = @ + 1]
    /\ wanted' = [wanted EXCEPT ![c] = stamp]
    /\ GoTo(c, IF lifecycle = "Open" /\ Latest = stamp THEN "admitting" ELSE "looking")
    /\ Outcome(c, "none")
    /\ UNCHANGED <<frames, reserved, log, lifecycle, claim, chosen, interrupted>>

(* StreamState::frame, for a frame that is there.                          *)
Look(c) ==
    /\ stage[c] = "looking"
    /\ IF lifecycle # "Open"
         THEN Return(c, "SessionClosed")
         ELSE /\ GoTo(c, "committing")
              /\ chosen' = [chosen EXCEPT ![c] = Latest]
              /\ UNCHANGED <<wanted, outcome, interrupted>>
    /\ UNCHANGED <<frames, reserved, log, lifecycle, claim, calls>>

(* The arbitration of the operation that precedes the order with the end.  *)
Arbitrate(c) ==
    /\ stage[c] = "committing"
    /\ IF c \in interrupted
         THEN Return(c, "Interrupted")
         ELSE GoTo(c, "ordering") /\ UNCHANGED <<wanted, chosen, outcome, interrupted>>
    /\ UNCHANGED <<frames, reserved, log, lifecycle, claim, calls>>

(* StreamState::commit_frame_after_operation.                              *)
CommitFrame(c) ==
    /\ stage[c] = "ordering"
    /\ Return(c, IF lifecycle = "Open" THEN "Frame" ELSE "SessionClosed")
    /\ UNCHANGED <<frames, reserved, log, lifecycle, claim, calls>>

-----------------------------------------------------------------------------
(* ReplaySession::advance.                                                 *)

(* The admission of the operation, and its checkpoint after each poll.     *)
Consult(c) ==
    /\ stage[c] \in {"admitting", "polling"}
    /\ IF c \in interrupted
         THEN Return(c, "Interrupted")
         ELSE GoTo(c, "reserving") /\ UNCHANGED <<wanted, chosen, outcome, interrupted>>
    /\ UNCHANGED <<frames, reserved, log, lifecycle, claim, calls>>

(* try_lock, which fails while another request is in the mutex.  (A claim  *)
(* being dropped is in it too, but looks to others like a claim that is    *)
(* still there.)                                                           *)
TryLock(c) ==
    /\ stage[c] = "reserving"
    /\ GoTo(c, IF \E other \in Callers : stage[other] = "locked" THEN "polling" ELSE "locked")
    /\ UNCHANGED <<frames, reserved, log, lifecycle, wanted, claim, chosen, outcome,
                   interrupted, calls>>

(* Mutant of TryReserve: an empty queue is looked at before the claim.     *)
TryReserveQueueFirst(c) ==
    /\ stage[c] = "locked"
    /\ \/ frames = <<>> /\ GoTo(c, "ended") /\ UNCHANGED <<frames, reserved, claim>>
       \/ frames # <<>> /\ reserved /\ GoTo(c, "polling")
          /\ UNCHANGED <<frames, reserved, claim>>
       \/ /\ frames # <<>> /\ ~reserved
          /\ claim' = [claim EXCEPT ![c] = Head(frames)]
          /\ frames' = Tail(frames) /\ reserved' = TRUE
          /\ GoTo(c, "claimed")
    /\ UNCHANGED <<log, lifecycle, wanted, chosen, outcome, interrupted, calls>>

(* try_reserve in the mutex: another request owns the head, the sequence   *)
(* is exhausted, or the head is claimed.                                   *)
TryReserve(c) ==
    /\ stage[c] = "locked"
    /\ \/ reserved /\ GoTo(c, "polling") /\ UNCHANGED <<frames, reserved, claim>>
       \/ ~reserved /\ frames = <<>> /\ GoTo(c, "ended")
          /\ UNCHANGED <<frames, reserved, claim>>
       \/ /\ ~reserved /\ frames # <<>>
          /\ claim' = [claim EXCEPT ![c] = Head(frames)]
          /\ frames' = Tail(frames) /\ reserved' = TRUE
          /\ GoTo(c, "claimed")
    /\ UNCHANGED <<log, lifecycle, wanted, chosen, outcome, interrupted, calls>>

(* maintained_after, once the claim or the exhaustion has fixed it.        *)
Maintained(c) == Latest > wanted[c]

(* The claim is not needed if another advance answered the request.        *)
CompareClaimed(c) ==
    /\ stage[c] = "claimed"
    /\ IF Maintained(c)
         THEN GoTo(c, "restoring") /\ chosen' = [chosen EXCEPT ![c] = Latest]
         ELSE GoTo(c, "claiming") /\ UNCHANGED chosen
    /\ UNCHANGED <<frames, reserved, log, lifecycle, wanted, claim, outcome,
                   interrupted, calls>>

CompareEnded(c) ==
    /\ stage[c] = "ended"
    /\ IF Maintained(c)
         THEN /\ GoTo(c, "committing")
              /\ chosen' = [chosen EXCEPT ![c] = Latest]
              /\ UNCHANGED <<wanted, outcome, interrupted>>
         ELSE Return(c, "StreamEnded")
    /\ UNCHANGED <<frames, reserved, log, lifecycle, claim, calls>>

(* The arbitration of the claim: an interruption drops it.                 *)
CommitClaim(c) ==
    /\ stage[c] = "claiming"
    /\ IF c \in interrupted
         THEN GoTo(c, "restoring") /\ Outcome(c, "Interrupted")
         ELSE GoTo(c, "publishing") /\ UNCHANGED outcome
    /\ UNCHANGED <<frames, reserved, log, lifecycle, wanted, claim, chosen,
                   interrupted, calls>>

(* Mutant of Publish: the refused frame is not handed back to the claim.   *)
PublishConsuming(c) ==
    /\ stage[c] = "publishing"
    /\ GoTo(c, "restoring")
    /\ claim' = [claim EXCEPT ![c] = NoFrame]
    /\ IF lifecycle = "Open"
         THEN /\ log' = Append(log, claim[c])
              /\ chosen' = [chosen EXCEPT ![c] = claim[c]]
              /\ UNCHANGED outcome
         ELSE Outcome(c, "SessionClosed") /\ UNCHANGED <<log, chosen>>
    /\ UNCHANGED <<frames, reserved, lifecycle, wanted, interrupted, calls>>

(* Reservation::publish: a refused frame stays with the claim.             *)
Publish(c) ==
    /\ stage[c] = "publishing"
    /\ GoTo(c, "restoring")
    /\ IF lifecycle = "Open"
         THEN /\ log' = Append(log, claim[c])
              /\ chosen' = [chosen EXCEPT ![c] = claim[c]]
              /\ claim' = [claim EXCEPT ![c] = NoFrame]
              /\ UNCHANGED outcome
         ELSE Outcome(c, "SessionClosed") /\ UNCHANGED <<log, chosen, claim>>
    /\ UNCHANGED <<frames, reserved, lifecycle, wanted, interrupted, calls>>

(* The frame goes back to the head unless it was published.                *)
Unclaimed(c) == IF claim[c] = NoFrame THEN frames ELSE <<claim[c]>> \o frames

(* Mutant of Restore: the claim is kept by a request that fails.           *)
RestoreOnSuccess(c) ==
    /\ stage[c] = "restoring"
    /\ \A other \in Callers : stage[other] # "locked"
    /\ frames' = Unclaimed(c)
    /\ reserved' = (chosen[c] = NoFrame)
    /\ claim' = [claim EXCEPT ![c] = NoFrame]
    /\ IF chosen[c] = NoFrame
         THEN Return(c, outcome[c])
         ELSE GoTo(c, "committing") /\ UNCHANGED <<wanted, chosen, outcome, interrupted>>
    /\ UNCHANGED <<log, lifecycle, calls>>

(* Reservation::drop, and the end of a failed advance; a successful one    *)
(* goes on to commit the frame it found or published.                      *)
Restore(c) ==
    /\ stage[c] = "restoring"
    /\ \A other \in Callers : stage[other] # "locked"
    /\ frames' = Unclaimed(c)
    /\ reserved' = FALSE
    /\ claim' = [claim EXCEPT ![c] = NoFrame]
    /\ IF chosen[c] = NoFrame
         THEN Return(c, outcome[c])
         ELSE GoTo(c, "committing") /\ UNCHANGED <<wanted, chosen, outcome, interrupted>>
    /\ UNCHANGED <<log, lifecycle, calls>>

-----------------------------------------------------------------------------
(* ReplaySession::close, up to begin_close; its drain has no waiter to wait *)
(* for and a closed stream answers as a closing one does.                  *)
Close ==
    /\ lifecycle = "Open" /\ lifecycle' = "Closing"
    /\ UNCHANGED <<frames, reserved, log, stage, wanted, claim, chosen, outcome,
                   interrupted, calls>>

Advance(c) ==
    \/ Consult(c) \/ TryLock(c) \/ TryReserve(c) \/ CompareClaimed(c)
    \/ CompareEnded(c) \/ CommitClaim(c) \/ Publish(c) \/ Restore(c)

Work(c) == Look(c) \/ Arbitrate(c) \/ CommitFrame(c) \/ Advance(c)

Next ==
    \/ \E c \in Callers : \/ Interrupt(c) \/ Work(c)
                          \/ \E stamp \in 1..MaxFrames : Ask(c, stamp)
    \/ Close

Spec == Init /\ [][Next]_vars

(* A request that was made goes on: its waits are timed polls.  The drop   *)
(* of a claim gets the mutex that the others try and leave between sleeps. *)
FairSpec ==
    /\ Spec
    /\ \A c \in Callers : WF_vars(Work(c))
    /\ SF_vars(\E c \in Callers : Restore(c))

-----------------------------------------------------------------------------
Stages == {"idle", "admitting", "polling", "reserving", "locked", "ended", "claimed",
           "claiming", "publishing", "restoring", "looking", "committing", "ordering"}
Outcomes == {"none", "Interrupted", "StreamEnded", "SessionClosed", "Frame"}
Frames == 1..MaxFrames

TypeOK ==
    /\ frames \in Seq(Frames) /\ reserved \in BOOLEAN
    /\ log \in Seq(Frames) /\ log # <<>> /\ lifecycle \in {"Open", "Closing"}
    /\ stage \in [Callers -> Stages] /\ wanted \in [Callers -> Frames]
    /\ claim \in [Callers -> Frames \cup {NoFrame}]
    /\ chosen \in [Callers -> Frames \cup {NoFrame}]
    /\ outcome \in [Callers -> Outcomes]
    /\ interrupted \subseteq Callers /\ calls \in [Callers -> Nat]

Holders == {c \in Callers : claim[c] # NoFrame}
Held == IF Holders = {} THEN <<>> ELSE <<claim[CHOOSE c \in Holders : TRUE]>>

(* The frames published, the one frame that is claimed and the frames that *)
(* remain are the source, in its order: no request that failed, was        *)
(* refused or was not needed lost, repeated or overtook a frame, and the   *)
(* flag is up exactly while one request has yet to give up its claim       *)
(* (Remainder, Reservation).                                               *)
InSourceOrder ==
    /\ TypeOK
    /\ log \o Held \o frames = Source
    /\ reserved <=> \E c \in Callers :
                       stage[c] \in {"claimed", "claiming", "publishing", "restoring"}

(* A request is told that the stream ended only if the whole sequence was  *)
(* published and it had asked for more than its last frame, although that  *)
(* frame may just have been claimed and restored by others; and a frame it *)
(* is given is newer than its stamp (reserve, maintained_after).           *)
AnswersAreRight ==
    [][\A c \in Callers : stage'[c] = "idle" /\ stage[c] # "idle" =>
          /\ outcome'[c] = "StreamEnded" => log = Source /\ wanted[c] = MaxFrames
          /\ outcome'[c] = "Frame" =>
                chosen[c] > wanted[c] /\ chosen[c] <= Latest /\ lifecycle = "Open"]_vars

(* Every request returns: no claim is left behind for the others to poll   *)
(* on, as long as other callers do not keep taking it.                     *)
RequestsReturn == \A c \in Callers : (stage[c] # "idle") ~> (stage[c] = "idle")

=============================================================================
