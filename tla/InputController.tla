---------------------------- MODULE InputController ----------------------------
(***************************************************************************)
(* One input controller: the gate that lets one sequence run at a time     *)
(* (Admission, crates/automation/input/src/controller.rs), the run of a    *)
(* sequence with the cleanup of what a stopped one had pressed             *)
(* (crates/platform/windows/src/input.rs and its macOS counterpart), and   *)
(* the receipt that says what was done (receipt.rs).                       *)
(*                                                                         *)
(* There is no queue: a caller that finds the gate busy sleeps for a poll  *)
(* interval and looks again, so a wait always ends and notifications only  *)
(* shorten it.  Clocks and cancellation tokens are the caller's code and   *)
(* are consulted with the gate unlocked; closing waits for the callers in  *)
(* such a consultation, too.  A step is one critical section, one          *)
(* consultation or one native call.                                        *)
(*                                                                         *)
(* The routes differ in their native calls only and are numbered here;     *)
(* coordinates, focus and evidence are left out.  `down` is what the host  *)
(* holds, which the program cannot see.                                    *)
(***************************************************************************)
EXTENDS Naturals, FiniteSets, Sequences, SequencesExt

CONSTANTS
    Callers,        \* threads, each executing one sequence
    Closers,        \* threads closing the controller, as often as they like
    Sequence,       \* Sequence[c]: the events c submits
    Routes,         \* how many routes the request allows
    MaxReleases,    \* CleanupBudget::max_events
    Platforms,      \* the adapters considered
    None

Threads == Callers \cup Closers
Text == "text"      \* the release a half-inserted text owes

ASSUME InputAssumption ==
    /\ IsFiniteSet(Callers) /\ Callers \cap Closers = {}
    /\ None \notin Threads
    /\ None \notin {"ControllerClosed", "Interrupted", "Unexecuted", "Partial", "Complete"}
    /\ \A c \in Callers :
          /\ Sequence[c] \in Seq(ToSet(Sequence[c]))
          /\ \A i \in DOMAIN Sequence[c] :
                Sequence[c][i].act \in {"press", "release", "text", "move"}
    /\ Routes \in Nat /\ MaxReleases \in Nat
    /\ Platforms \subseteq {"windows", "macos"}

VARIABLES
    platform,                                       \* which adapter this is
    lifecycle, busy, owner, waiters, pending, entering,     \* AdmissionState
    stage,          \* what each thread is doing
    interrupted,    \* threads whose operation context is interrupted
    run,            \* the sequence each caller runs, and its receipt
    down            \* keys a caller's sequence left held on the host

gateVars == <<lifecycle, busy, owner, waiters, pending, entering>>
vars == <<platform, gateVars, stage, interrupted, run, down>>

NewRun == [route |-> 1, submitted |-> 0, effect |-> FALSE, owing |-> <<>>,
           owed |-> 0, released |-> 0, refused |-> FALSE,
           outcome |-> None, cleanup |-> "NotNeeded"]

Init ==
    /\ platform \in Platforms
    /\ lifecycle = "Open" /\ busy = FALSE /\ owner = None
    /\ waiters = 0 /\ pending = 0 /\ entering = {}
    /\ stage = [t \in Threads |-> "out"]
    /\ interrupted = {}
    /\ run = [c \in Callers |-> NewRun]
    /\ down = [c \in Callers |-> {}]

GoTo(t, next) == stage' = [stage EXCEPT ![t] = next]

(* A context is cancelled or passes its deadline, and stays so.            *)
Interrupt(t) ==
    /\ t \notin interrupted /\ stage[t] # "done"
    /\ interrupted' = interrupted \cup {t}
    /\ UNCHANGED <<platform, gateVars, stage, run, down>>

-----------------------------------------------------------------------------
(* Admission::admit.                                                       *)

(* AdmissionEntry::unregister.                                             *)
Unregister(t) ==
    /\ entering' = entering \ {t}
    /\ pending' = IF t \in Callers THEN pending - 1 ELSE pending

(* The call returns an error, and the entry is dropped.                    *)
Refused(c, error) ==
    /\ Unregister(c)
    /\ GoTo(c, "done")
    /\ run' = [run EXCEPT ![c].outcome = error]
    /\ UNCHANGED <<lifecycle, busy, owner, waiters>>

Register(c) ==
    /\ stage[c] = "out"
    /\ IF lifecycle # "Open"
         THEN /\ GoTo(c, "done")
              /\ run' = [run EXCEPT ![c].outcome = "ControllerClosed"]
              /\ UNCHANGED <<entering, pending>>
         ELSE /\ GoTo(c, "admitting")
              /\ entering' = entering \cup {c} /\ pending' = pending + 1
              /\ UNCHANGED run
    /\ UNCHANGED <<platform, lifecycle, busy, owner, waiters, interrupted, down>>

(* Mutant of Consult: an interrupted caller keeps its entry.               *)
ConsultKeepingEntry(c) ==
    /\ stage[c] \in {"admitting", "checkpoint"}
    /\ IF c \in interrupted
         THEN /\ GoTo(c, "done")
              /\ run' = [run EXCEPT ![c].outcome = "Interrupted"]
              /\ UNCHANGED gateVars
         ELSE GoTo(c, "gate") /\ UNCHANGED <<gateVars, run>>
    /\ UNCHANGED <<platform, interrupted, down>>

(* Operation::admit, and the checkpoint after each wait.                   *)
Consult(c) ==
    /\ stage[c] \in {"admitting", "checkpoint"}
    /\ IF c \in interrupted THEN Refused(c, "Interrupted")
       ELSE GoTo(c, "gate") /\ UNCHANGED <<gateVars, run>>
    /\ UNCHANGED <<platform, interrupted, down>>

Gate(c) ==
    /\ stage[c] = "gate"
    /\ \/ lifecycle # "Open" /\ Refused(c, "ControllerClosed")
       \/ /\ lifecycle = "Open" /\ ~busy
          /\ busy' = TRUE /\ owner' = c
          /\ Unregister(c)
          /\ GoTo(c, "claimed")
          /\ UNCHANGED <<lifecycle, waiters, run>>
       \/ /\ lifecycle = "Open" /\ busy
          /\ waiters' = waiters + 1
          /\ GoTo(c, "waiting")
          /\ UNCHANGED <<lifecycle, busy, owner, pending, entering, run>>
    /\ UNCHANGED <<platform, interrupted, down>>

(* Notified or timed out.                                                  *)
Wake(c) ==
    /\ stage[c] = "waiting"
    /\ waiters' = waiters - 1
    /\ GoTo(c, "checkpoint")
    /\ UNCHANGED <<platform, lifecycle, busy, owner, pending, entering,
                   interrupted, run, down>>

(* Mutant of Arbitrate: the guard is made after the commit.                *)
ArbitrateUnguarded(c) ==
    /\ stage[c] = "claimed"
    /\ IF c \in interrupted
         THEN /\ GoTo(c, "done")
              /\ run' = [run EXCEPT ![c].outcome = "Interrupted"]
         ELSE GoTo(c, "routing") /\ UNCHANGED run
    /\ UNCHANGED <<platform, gateVars, interrupted, down>>

(* The final commit, which may drop the guard just made.                   *)
Arbitrate(c) ==
    /\ stage[c] = "claimed"
    /\ IF c \in interrupted
         THEN /\ GoTo(c, "leaving")
              /\ run' = [run EXCEPT ![c].outcome = "Interrupted"]
         ELSE GoTo(c, "routing") /\ UNCHANGED run
    /\ UNCHANGED <<platform, gateVars, interrupted, down>>

(* AdmissionGuard::drop; then execute has returned.                        *)
Leave(c) ==
    /\ stage[c] = "leaving"
    /\ busy' = FALSE /\ owner' = None
    /\ GoTo(c, "done")
    /\ UNCHANGED <<platform, lifecycle, waiters, pending, entering,
                   interrupted, run, down>>

-----------------------------------------------------------------------------
(* execute, between the claim and the drop of the guard.                   *)

(* select_route: a refused route leads to the next, but not after a fault  *)
(* no route can survive.                                                   *)
SelectRoute(c) ==
    /\ stage[c] = "routing"
    /\ \/ /\ run[c].route <= Routes
          /\ GoTo(c, "submitting") /\ UNCHANGED run
       \/ /\ run[c].route < Routes
          /\ run' = [run EXCEPT ![c].route = @ + 1] /\ UNCHANGED stage
       \/ /\ GoTo(c, "leaving")
          /\ run' = [run EXCEPT ![c].outcome = "Unexecuted"]
    /\ UNCHANGED <<platform, gateVars, interrupted, down>>

(* InputSequence::held_after: what the first n events leave pressed, the   *)
(* last pressed first.  A release takes the latest press of its key.       *)
Pressed(held, e) ==
    CASE e.act = "press" -> <<e.key>> \o held
      [] e.act = "release" /\ e.key \in ToSet(held) ->
            RemoveAt(held, SelectInSeq(held, LAMBDA k : k = e.key))
      [] OTHER -> held

HeldPrefixes(s) ==
    LET held[n \in 0..Len(s)] == IF n = 0 THEN <<>> ELSE Pressed(held[n - 1], s[n])
    IN  held

HeldAfter(s, n) == HeldPrefixes(s)[n]

(* Mutant of PossiblyHeldAfter: the event under way is left out.           *)
HeldByWholeEvents(s, n, mayPress) == HeldAfter(s, n)

(* possibly_held_after: with the press that may have had effect.           *)
PossiblyHeldAfter(s, n, mayPress) ==
    LET held == HeldAfter(s, n) IN
    IF /\ mayPress /\ n < Len(s)
       /\ s[n + 1].act = "press" /\ s[n + 1].key \notin ToSet(held)
      THEN <<s[n + 1].key>> \o held ELSE held

(* The host after event e: what has happened, and what may have if the     *)
(* event was not seen to its end.                                          *)
After(keys, e) ==
    CASE e.act = "press" -> keys \cup {e.key}
      [] e.act = "release" -> keys \ {e.key}
      [] OTHER -> keys

Submit(c) ==
    /\ stage[c] = "submitting"
    /\ run[c].submitted < Len(Sequence[c]) /\ c \notin interrupted
    /\ run' = [run EXCEPT ![c].submitted = @ + 1, ![c].effect = TRUE]
    /\ down' = [down EXCEPT ![c] = After(@, Sequence[c][run[c].submitted + 1])]
    /\ UNCHANGED <<platform, gateVars, stage, interrupted>>

Complete(c) ==
    /\ stage[c] = "submitting"
    /\ run[c].submitted = Len(Sequence[c])
    /\ run' = [run EXCEPT ![c].outcome = "Complete"]
    /\ GoTo(c, "leaving")
    /\ UNCHANGED <<platform, gateVars, interrupted, down>>

(* stopped_receipt, and what run_cleanup finds to release: first the other *)
(* half of a text, then the keys.                                          *)
Stopped(c, mayEffect, mayPress, halfText) ==
    LET n == run[c].submitted
        owing == (IF halfText THEN <<Text>> ELSE <<>>)
                   \o PossiblyHeldAfter(Sequence[c], n, mayPress)
    IN  IF n = 0 /\ ~mayEffect
          THEN /\ run' = [run EXCEPT ![c].outcome = "Unexecuted"]
               /\ GoTo(c, "leaving")
          ELSE /\ run' = [run EXCEPT ![c].outcome = "Partial",
                                     ![c].effect = @ \/ mayEffect,
                                     ![c].owing = owing, ![c].owed = Len(owing)]
               /\ GoTo(c, IF owing = <<>> THEN "leaving" ELSE "cleaning")

(* The context is interrupted, the target refuses, a delay is cut short.   *)
StopBefore(c) ==
    /\ stage[c] = "submitting"
    /\ run[c].submitted < Len(Sequence[c])
    /\ Stopped(c, FALSE, FALSE, FALSE)
    /\ UNCHANGED <<platform, gateVars, interrupted, down>>

(* The event is cut short in its native calls.  Windows tells an effect    *)
(* that pressed nothing from one that may have; macOS does not.  Text      *)
(* presses no key, but may stop between the two halves of a unit.          *)
StopDuring(c) ==
    /\ stage[c] = "submitting"
    /\ run[c].submitted < Len(Sequence[c]) /\ c \notin interrupted
    /\ LET e == Sequence[c][run[c].submitted + 1] IN
       \E mayPress, halfText, happened \in BOOLEAN :
          /\ platform = "macos" => mayPress
          /\ halfText => e.act = "text"
          /\ happened /\ e.act = "press" => mayPress
          /\ Stopped(c, TRUE, mayPress, halfText)
          /\ LET seen == IF happened THEN After(down[c], e) ELSE down[c] IN
             down' = [down EXCEPT ![c] = seen \cup (IF halfText THEN {Text} ELSE {})]
    /\ UNCHANGED <<platform, gateVars, interrupted>>

-----------------------------------------------------------------------------
(* run_cleanup.                                                            *)

(* with_cleanup and with_exhausted_cleanup.                                *)
Cleaned(c, exhausted) ==
    /\ run' = [run EXCEPT ![c].cleanup =
                  IF run[c].released >= run[c].owed THEN "Complete"
                  ELSE IF exhausted THEN "Exhausted" ELSE "Incomplete"]
    /\ GoTo(c, "leaving")
    /\ UNCHANGED down

Release(c) ==
    /\ stage[c] = "cleaning"
    /\ run[c].owing # <<>> /\ run[c].released < MaxReleases
    /\ run' = [run EXCEPT ![c].owing = Tail(@), ![c].released = @ + 1]
    /\ down' = [down EXCEPT ![c] = @ \ {Head(run[c].owing)}]
    /\ UNCHANGED <<platform, gateVars, stage, interrupted>>

(* Everything is released, or a bound is reached before the next release.  *)
FinishCleanup(c) ==
    /\ stage[c] = "cleaning"
    /\ Cleaned(c, run[c].owing # <<>>)
    /\ UNCHANGED <<platform, gateVars, interrupted>>

(* The release was sent and not accepted.                                  *)
ReleaseRefused(c) ==
    /\ stage[c] = "cleaning"
    /\ run[c].owing # <<>> /\ run[c].released < MaxReleases
    /\ run' = [run EXCEPT ![c].cleanup = "Incomplete", ![c].refused = TRUE]
    /\ GoTo(c, "leaving")
    /\ UNCHANGED <<platform, gateVars, interrupted, down>>

(* The cleanup deadline passes inside the release, before it is sent:      *)
(* Windows takes the exhaustion for what it is, macOS for a failure.       *)
ReleaseExpired(c) ==
    /\ stage[c] = "cleaning"
    /\ run[c].owing # <<>> /\ run[c].released < MaxReleases
    /\ Cleaned(c, platform = "windows")
    /\ UNCHANGED <<platform, gateVars, interrupted>>

-----------------------------------------------------------------------------
(* Admission::drain.                                                       *)

(* Close may be called again, with a context of its own.                   *)
Enter(d) ==
    /\ stage[d] \in {"out", "done"}
    /\ entering' = entering \cup {d}
    /\ interrupted' = interrupted \ {d}
    /\ GoTo(d, "entered")
    /\ UNCHANGED <<platform, lifecycle, busy, owner, waiters, pending, run, down>>

BeginClose(d) ==
    /\ stage[d] = "entered"
    /\ lifecycle' = IF lifecycle = "Open" THEN "Closing" ELSE lifecycle
    /\ GoTo(d, "consulting")
    /\ UNCHANGED <<platform, busy, owner, waiters, pending, entering,
                   interrupted, run, down>>

(* The caller's clock before each look, and the return, whose arbitration  *)
(* changes nothing but the outcome.                                        *)
ConsultClose(d) ==
    /\ stage[d] \in {"consulting", "returning"}
    /\ IF d \in interrupted \/ stage[d] = "returning"
         THEN Unregister(d) /\ GoTo(d, "done")
         ELSE GoTo(d, "looking") /\ UNCHANGED <<entering, pending>>
    /\ UNCHANGED <<platform, lifecycle, busy, owner, waiters, interrupted, run, down>>

(* Mutant of Quiet: callers consulting their clocks are not waited for.    *)
QuietButForEntries == ~busy /\ waiters = 0

Quiet == ~busy /\ waiters = 0 /\ pending = 0

(* A wait is timed and takes no step of its own.                           *)
Look(d) ==
    /\ stage[d] = "looking"
    /\ GoTo(d, CASE lifecycle = "Closed" -> "returning"
                 [] lifecycle # "Closed" /\ Quiet -> "committing"
                 [] lifecycle # "Closed" /\ ~Quiet -> "consulting")
    /\ UNCHANGED <<platform, gateVars, interrupted, run, down>>

(* The commit is arbitrated with the gate unlocked.                        *)
CommitClose(d) ==
    /\ stage[d] = "committing"
    /\ IF d \in interrupted THEN Unregister(d) /\ GoTo(d, "done")
       ELSE GoTo(d, "closing") /\ UNCHANGED <<entering, pending>>
    /\ UNCHANGED <<platform, lifecycle, busy, owner, waiters, interrupted, run, down>>

FinishClose(d) ==
    /\ stage[d] = "closing"
    /\ lifecycle' = "Closed"
    /\ GoTo(d, "returning")
    /\ UNCHANGED <<platform, busy, owner, waiters, pending, entering,
                   interrupted, run, down>>

-----------------------------------------------------------------------------
Call(c) ==
    \/ Register(c) \/ Consult(c) \/ Gate(c) \/ Wake(c) \/ Arbitrate(c) \/ Leave(c)
    \/ SelectRoute(c) \/ Submit(c) \/ Complete(c) \/ StopBefore(c) \/ StopDuring(c)
    \/ Release(c) \/ FinishCleanup(c) \/ ReleaseRefused(c) \/ ReleaseExpired(c)

Close(d) ==
    Enter(d) \/ BeginClose(d) \/ ConsultClose(d) \/ Look(d) \/ CommitClose(d) \/ FinishClose(d)

Next ==
    \/ \E c \in Callers : Call(c)
    \/ \E d \in Closers : Close(d)
    \/ \E t \in Threads : Interrupt(t)

Spec == Init /\ [][Next]_vars

(* A call once made runs on: the platform's calls return and timed waits   *)
(* end.                                                                    *)
Fairness ==
    /\ \A c \in Callers : WF_vars(stage[c] # "out" /\ Call(c))
    /\ \A d \in Closers : WF_vars(stage[d] \notin {"out", "done"} /\ Close(d))

FairSpec == Spec /\ Fairness

-----------------------------------------------------------------------------
(* Properties.                                                             *)

Entering == {"admitting", "gate", "waiting", "checkpoint"}
Running == {"claimed", "routing", "submitting", "cleaning", "leaving"}
Closing == {"entered", "consulting", "looking", "committing", "closing", "returning"}

GateType ==
    /\ platform \in Platforms
    /\ lifecycle \in {"Open", "Closing", "Closed"}
    /\ busy \in BOOLEAN /\ owner \in Callers \cup {None}
    /\ waiters \in Nat /\ pending \in Nat
    /\ entering \subseteq Threads /\ interrupted \subseteq Threads
    /\ stage \in [Threads -> Entering \cup Running \cup Closing \cup {"out", "done"}]
    /\ \A c \in Callers : stage[c] \notin Closing
    /\ \A d \in Closers : stage[d] \notin Entering \cup Running

(* The state keeps its shape; an admission unregistered twice would leave  *)
(* the naturals.                                                           *)
TypeOK ==
    /\ GateType
    /\ \A c \in Callers :
          LET Keys == {Text} \cup {Sequence[c][i].key : i \in DOMAIN Sequence[c]} IN
          /\ run[c] \in [route : 1..(Routes + 1), submitted : 0..Len(Sequence[c]),
                         effect : BOOLEAN, owing : Seq(Keys), owed : Nat, released : Nat,
                         refused : BOOLEAN,
                         outcome : {None, "ControllerClosed", "Interrupted", "Unexecuted",
                                    "Partial", "Complete"},
                         cleanup : {"NotNeeded", "Complete", "Incomplete", "Exhausted"}]
          /\ down[c] \subseteq Keys

(* One sequence runs at a time and the gate is busy for it alone, the      *)
(* counters drain waits on are exact, and a thread in the caller's own     *)
(* code is marked, so that calling back into the gate is refused.          *)
GateExact ==
    /\ \A c \in Callers : stage[c] \in Running <=> owner = c
    /\ busy <=> owner # None
    /\ waiters = Cardinality({c \in Callers : stage[c] = "waiting"})
    /\ pending = Cardinality({c \in Callers : stage[c] \in Entering})
    /\ entering = {t \in Threads : stage[t] \in Entering \cup Closing}

(* A controller is closed when no sequence runs, waits or consults its     *)
(* clock, and the arbitration outside the lock lets none in.               *)
ClosedIsQuiet ==
    lifecycle = "Closed" \/ (\E d \in Closers : stage[d] \in {"committing", "closing"})
      => \A c \in Callers : stage[c] \notin Entering \cup Running

(* What a receipt says of a sequence covers what the host was left with:   *)
(* unexecuted means no effect, and no more keys are down than were owed    *)
(* and not released.                                                       *)
ReceiptTruthful ==
    \A c \in Callers : run[c].outcome # None /\ stage[c] \in {"leaving", "done"} =>
        LET r == run[c] IN
        CASE r.outcome = "Complete" -> down[c] \subseteq ToSet(HeldAfter(Sequence[c], r.submitted))
          [] r.outcome = "Partial" ->
                /\ Cardinality(down[c]) + r.released <= r.owed
                /\ r.cleanup \in {"NotNeeded", "Complete"} <=> r.released = r.owed
          [] OTHER -> down[c] = {} /\ ~r.effect

(* The run of a caller, and its receipt.                                   *)
RunIsSound == TypeOK /\ ReceiptTruthful

(* A close that waits comes to an end.                                     *)
CloseSettles == \A d \in Closers : stage[d] = "looking" ~> stage[d] = "done"

(* Cleanup that stopped at its own bound says so: a failed release is one  *)
(* that was sent and refused (cleanup.rs, on CleanupBudget).               *)
IncompleteIsRefused ==
    \A c \in Callers : run[c].cleanup = "Incomplete" => run[c].refused

=============================================================================
