---------------------------- MODULE TemplateWatch ----------------------------
(***************************************************************************)
(* The template queries of one watched session and the workers that serve  *)
(* them (crates/automation/runtime/src/watch.rs: QueryShared, the          *)
(* acquisition loop of WatchSession and the workers of WatchScheduler).    *)
(*                                                                         *)
(* The acquisition thread offers each frame to every query in turn and     *)
(* then waits until all of them have considered it.  A worker picks a      *)
(* pending frame, claims it for a query and for the queries that ask the   *)
(* same question, maps it, admits it under the authority locks, analyses   *)
(* it once and completes each query.  Cancellation, expiry, the end of     *)
(* capture, session close and scheduler close race with all of it.         *)
(*                                                                         *)
(* A step is one critical section.  Clocks are left out: an interruption,  *)
(* an expiry and the end of a rate interval come when they come.  Frames   *)
(* are numbered in stamp order, 0 standing for None.  The OCR queries that *)
(* share the workers have a module of their own, and the counters of       *)
(* work that is not the end of a frame (Admitted, Coalesced, DeferredRate) *)
(* are left out.                                                           *)
(***************************************************************************)
EXTENDS Naturals, FiniteSets

CONSTANTS
    Queries, Workers,
    MaxFrame,       \* bounds the number of frames captured
    View,           \* View[f]: the epoch and geometry revision of frame f
    Question,       \* Question[q]: template, region and options of q
    Required,       \* Required[q]: observations its stability rule asks for
    Timed,          \* queries whose stability rule is a duration
    Skipping,       \* queries whose change policy may skip an analysis
    Rated,          \* queries with a minimum analysis interval
    Disturbances,   \* bounds what a run lets happen to the queries
    None

(* TemplateTerminalOutcome; a query past its deadline counts as cancelled. *)
Outcomes == {"Matched", "Cancelled", "SessionClosed", "SchedulerClosed", "TargetLost",
             "Overloaded", "Failed"}

ASSUME WatchAssumption ==
    /\ MaxFrame \in Nat
    /\ View \in [1..MaxFrame -> Nat]
    /\ Required \in [Queries -> Nat \ {0}]
    /\ DOMAIN Question = Queries
    /\ Timed \subseteq Queries
    /\ Skipping \subseteq Queries
    /\ Rated \subseteq Queries
    /\ Disturbances \subseteq {"interrupt", "cancel", "expire", "lost", "closed",
                               "close", "shutdown"}
    /\ None \notin Outcomes \cup Queries

VARIABLES
    captured, captureEnd,                \* the capture stream
    published, publishing, offering,     \* the acquisition thread, and
    publications, refresh,               \*   what cancels its waits
    query,                               \* QueryData of every query
    authority,                           \* the session's terminal_authority
    closed, sourceEnded, schedulerClosed,
    ending, closing,                     \* queries an end has yet to visit
    job                                  \* the work in each worker's hands

captureVars == <<captured, captureEnd>>
publicationVars == <<published, publishing, offering, publications, refresh>>
authorityVars == <<authority, closed, sourceEnded, schedulerClosed>>
enderVars == <<ending, closing>>
vars == <<captureVars, publicationVars, query, authorityVars, enderVars, job>>

Frames == 1..MaxFrame
FramesOrNone == 0..MaxFrame
NoFlight == [generation |-> 0, frame |-> 0]
NoJob == [stage |-> "idle", frame |-> 0, generation |-> 0, fence |-> 0,
          todo |-> {}, joined |-> {}, at |-> None, settle |-> None,
          result |-> "none", refusal |-> None]

(* The work counters that say how an accepted frame ended.                 *)
Dispositions ==
    {"Completed", "Failed", "Superseded", "SkippedChange", "QueueExpired"}

(* QueryData.  `rate` is rate_eligible_at: unset, in the future, or past.  *)
(* `confirmed` holds the frames behind stability.observations.  Two fields *)
(* are history: `empties`, the frames analysed without a match, and        *)
(* `accepted`, the number of frames enqueue took.                          *)
NewQuery ==
    [registered |-> FALSE, stopped |-> FALSE, terminal |-> None,
     needsCurrent |-> TRUE, source |-> 0, last |-> 0,
     pending |-> 0, processing |-> 0, inFlight |-> NoFlight,
     generation |-> 0, rate |-> "none", mapped |-> FALSE,
     confirmed |-> {}, work |-> [d \in Dispositions |-> 0],
     empties |-> {}, accepted |-> 0]

Init ==
    /\ captured = 0 /\ captureEnd = "open"
    /\ published = 0 /\ publishing = FALSE /\ offering = {}
    /\ publications = 0 /\ refresh = FALSE
    /\ query = [q \in Queries |-> NewQuery]
    /\ authority = None /\ closed = FALSE
    /\ sourceEnded = FALSE /\ schedulerClosed = FALSE
    /\ ending = {} /\ closing = {}
    /\ job = [w \in Workers |-> NoJob]

Registered == {q \in Queries : query[q].registered}
Live(q) == query[q].registered /\ query[q].terminal = None
InFlight(d) == d.inFlight # NoFlight
IsIdle(d) == d.pending = 0 /\ d.processing = 0 /\ ~InFlight(d)

-----------------------------------------------------------------------------
(* Ending a query.                                                         *)

Counted(d, disposition, n) == [d EXCEPT !.work[disposition] = @ + n]

(* Mutant of Outstanding: the claim on the pending frame counts again.      *)
OutstandingClaimAndFrame(d) ==
    (IF d.pending # 0 THEN 1 ELSE 0) + (IF d.processing # 0 THEN 1 ELSE 0)
        + (IF InFlight(d) THEN 1 ELSE 0)

(* supersede_outstanding: what the query still holds is superseded.  A     *)
(* pending frame and the claim on one are counted once.                    *)
Outstanding(d) ==
    (IF d.pending # 0 \/ d.processing # 0 THEN 1 ELSE 0)
        + (IF InFlight(d) THEN 1 ELSE 0)

Superseding(d) ==
    [Counted(d, "Superseded", Outstanding(d)) EXCEPT
        !.pending = 0,
        !.processing = IF d.pending # 0 THEN @ ELSE 0,
        !.inFlight = NoFlight]

Ended(d, outcome) == [Superseding(d) EXCEPT !.terminal = outcome]

(* Mutant of Arbitrated: the scheduler is asked before the session.         *)
ArbitratedSchedulerFirst(outcome) ==
    IF schedulerClosed THEN "SchedulerClosed"
    ELSE IF authority # None THEN authority
    ELSE outcome

(* The recorded end of the session outranks the scheduler's, and both      *)
(* outrank the outcome the caller came with.                               *)
Arbitrated(outcome) ==
    IF authority # None THEN authority
    ELSE IF schedulerClosed THEN "SchedulerClosed"
    ELSE outcome

(* terminate, under the admission and activation locks: the first outcome  *)
(* stays.                                                                  *)
Terminated(q, outcome) ==
    IF Live(q) THEN [query EXCEPT ![q] = Ended(@, Arbitrated(outcome))] ELSE query

(* finish_source_end_if_idle and its use by terminate_idle_queries.        *)
EndedIfIdle(q) ==
    IF IsIdle(query[q]) THEN Terminated(q, "SessionClosed") ELSE query

-----------------------------------------------------------------------------
(* Queries start, and are interrupted.                                     *)

(* Registration in start_query under the state lock; ensure_acquisition    *)
(* then cancels the acquisition's wait so that it looks for the current    *)
(* frame.                                                                  *)
StartQuery(q) ==
    /\ ~query[q].registered
    /\ ~closed /\ ~sourceEnded /\ ~schedulerClosed
    /\ query' = [query EXCEPT ![q].registered = TRUE]
    /\ refresh' = TRUE
    /\ UNCHANGED <<captureVars, published, publishing, offering, publications,
                   authorityVars, enderVars, job>>

(* The query's context is cancelled or passes its deadline.                *)
Interrupt(q) ==
    /\ "interrupt" \in Disturbances
    /\ Live(q) /\ ~query[q].stopped
    /\ query' = [query EXCEPT ![q].stopped = TRUE]
    /\ UNCHANGED <<captureVars, publicationVars, authorityVars, enderVars, job>>

(* Whoever consults the context first terminates the query: the sweep of   *)
(* the supervisor, next_work or run_analysis.                              *)
Sweep(q) ==
    /\ Live(q) /\ query[q].stopped
    /\ query' = Terminated(q, "Cancelled")
    /\ UNCHANGED <<captureVars, publicationVars, authorityVars, enderVars, job>>

(* TemplateQuery::cancel.                                                  *)
Cancel(q) ==
    /\ "cancel" \in Disturbances
    /\ Live(q)
    /\ query' = Terminated(q, "Cancelled")
    /\ UNCHANGED <<captureVars, publicationVars, authorityVars, enderVars, job>>

(* expire_if_current: the pending frame waited too long for a worker.      *)
Expire(q) ==
    /\ "expire" \in Disturbances
    /\ Live(q)
    /\ query[q].pending # 0
    /\ query[q].processing # query[q].pending
    /\ query[q].rate # "held"
    /\ query' =
          IF query[q].stopped \/ authority # None \/ schedulerClosed
            THEN Terminated(q, "Cancelled")
            ELSE [query EXCEPT ![q] =
                    Ended([Counted(@, "QueueExpired", 1) EXCEPT
                              !.pending = 0, !.processing = 0], "Overloaded")]
    /\ UNCHANGED <<captureVars, publicationVars, authorityVars, enderVars, job>>

(* The minimum interval since the last admission has passed.               *)
RateElapses(q) ==
    /\ query[q].rate = "held"
    /\ query' = [query EXCEPT ![q].rate = "due"]
    /\ UNCHANGED <<captureVars, publicationVars, authorityVars, enderVars, job>>

-----------------------------------------------------------------------------
(* The capture stream and the acquisition thread.                          *)

Capture ==
    /\ captureEnd = "open" /\ captured < MaxFrame
    /\ captured' = captured + 1
    /\ UNCHANGED <<captureEnd, publicationVars, query, authorityVars, enderVars, job>>

CaptureEnds(kind) ==
    /\ kind \in Disturbances
    /\ captureEnd = "open"
    /\ captureEnd' = kind
    /\ UNCHANGED <<captured, publicationVars, query, authorityVars, enderVars, job>>

(* has_admitted_or_considered.                                             *)
Considered(q, f) ==
    LET d == query[q] IN
    \/ d.terminal # None
    \/ d.inFlight.frame = f
    \/ d.pending = f /\ (d.rate # "none" \/ InFlight(d))
    \/ d.last >= f

(* The acquisition thread is past its wait for the last frame: every query *)
(* considered it, or a new query cancelled the wait.  The loop's test of   *)
(* `closed` is no guard here: a close may come right after it.             *)
Acquiring ==
    /\ ~publishing /\ ~sourceEnded
    /\ Registered # {}
    /\ refresh \/ \A q \in Registered : Considered(q, published)

(* A frame newer than the last, or the current one again for a query that  *)
(* has seen none; publish() raises the publication fence.  A refresh that  *)
(* came before the loop renewed its token is used up.                      *)
PublishBegin ==
    /\ Acquiring
    /\ captureEnd = "open" /\ captured > 0
    /\ captured > published \/ \E q \in Registered : Live(q) /\ query[q].needsCurrent
    /\ published' = captured
    /\ publishing' = TRUE
    /\ offering' = {q \in Registered : Live(q)}
    /\ refresh' \in {refresh, FALSE}
    /\ UNCHANGED <<captureVars, publications, query, authorityVars, enderVars, job>>

(* enqueue: the newest frame replaces the pending one; a frame of another  *)
(* epoch or geometry revision drops the analysis and the streak.           *)
Enqueued(d) ==
    LET incompatible == d.source # 0 /\ View[d.source] # View[published]
        dropped == (IF d.pending # 0 THEN 1 ELSE 0)
                     + (IF incompatible /\ InFlight(d) THEN 1 ELSE 0)
    IN  [Counted(d, "Superseded", dropped) EXCEPT
            !.needsCurrent = FALSE,
            !.source = published,
            !.pending = published,
            !.rate = "none",
            !.mapped = @ /\ ~incompatible,
            !.confirmed = IF incompatible THEN {} ELSE @,
            !.inFlight = IF incompatible THEN NoFlight ELSE @,
            !.accepted = @ + 1]

Enqueue(q) ==
    /\ publishing /\ q \in offering
    /\ offering' = offering \ {q}
    /\ query' =
          IF query[q].stopped THEN Terminated(q, "Cancelled")
          ELSE IF Live(q) /\ query[q].source < published
                 THEN [query EXCEPT ![q] = Enqueued(@)]
          ELSE query
    /\ UNCHANGED <<captureVars, published, publishing, publications, refresh,
                   authorityVars, enderVars, job>>

PublishEnd ==
    /\ publishing /\ offering = {}
    /\ publishing' = FALSE
    /\ publications' = publications + 1
    /\ UNCHANGED <<captureVars, published, offering, refresh, query,
                   authorityVars, enderVars, job>>

(* The frame wait reports how capture ended: a lost target is recorded as  *)
(* the session's authority and ends every query; an ordinary end ends the  *)
(* idle queries and lets the others finish what they hold.                 *)
SourceEnds ==
    /\ Acquiring
    /\ captureEnd # "open"
    /\ sourceEnded' = TRUE
    /\ authority' = IF captureEnd = "lost" /\ authority = None
                      THEN "TargetLost" ELSE authority
    /\ ending' = Registered
    /\ UNCHANGED <<captureVars, publicationVars, query, closed, schedulerClosed,
                   closing, job>>

EndQuery(q) ==
    /\ q \in ending
    /\ ending' = ending \ {q}
    /\ query' = IF captureEnd = "lost" THEN Terminated(q, "TargetLost")
                ELSE EndedIfIdle(q)
    /\ UNCHANGED <<captureVars, publicationVars, authorityVars, closing, job>>

-----------------------------------------------------------------------------
(* Close.                                                                  *)

(* WatchSession::close, for the session itself or for the scheduler.       *)
CloseSession(outcome) ==
    /\ ~closed
    /\ outcome = "SessionClosed" => "close" \in Disturbances
    /\ outcome = "SchedulerClosed" => schedulerClosed
    /\ closed' = TRUE
    /\ authority' = IF authority = None THEN outcome ELSE authority
    /\ closing' = Registered
    /\ UNCHANGED <<captureVars, publicationVars, query, sourceEnded,
                   schedulerClosed, ending, job>>

(* WatchScheduler::close up to the sessions it closes in turn.             *)
CloseScheduler ==
    /\ "shutdown" \in Disturbances
    /\ ~schedulerClosed
    /\ schedulerClosed' = TRUE
    /\ UNCHANGED <<captureVars, publicationVars, query, authority, closed,
                   sourceEnded, enderVars, job>>

CloseQuery(q) ==
    /\ q \in closing
    /\ closing' = closing \ {q}
    /\ query' = Terminated(q, authority)
    /\ UNCHANGED <<captureVars, publicationVars, authorityVars, ending, job>>

-----------------------------------------------------------------------------
(* Workers.                                                                *)

(* candidate, with the test of the rate in next_work.                      *)
Candidate(q) ==
    /\ Live(q)
    /\ query[q].pending # 0
    /\ query[q].processing = 0
    /\ ~InFlight(query[q])

(* potential_coalescing_candidate, as eligible_coalescing_peers uses it.   *)
Peers(q) ==
    {p \in Queries \ {q} :
        /\ Live(p) /\ ~query[p].stopped
        /\ Question[p] = Question[q]
        /\ query[p].pending = query[q].pending
        /\ ~InFlight(query[p])
        /\ query[p].generation = query[q].generation
        /\ query[p].rate # "held"}

(* The snapshot next_work takes before it asks for the admission lock.     *)
Pick(w, q) ==
    /\ job[w] = NoJob
    /\ ~schedulerClosed /\ ~publishing /\ ~closed
    /\ Candidate(q) /\ ~query[q].stopped /\ query[q].rate # "held"
    /\ job' = [job EXCEPT ![w] =
          [NoJob EXCEPT !.stage = "picked", !.at = q, !.todo = {q} \cup Peers(q),
                        !.frame = query[q].pending,
                        !.generation = query[q].generation + 1,
                        !.fence = publications]]
    /\ UNCHANGED <<captureVars, publicationVars, query, authorityVars, enderVars>>

(* Under the admission lock: nothing was published since the snapshot, and *)
(* no end of the session is recorded.                                      *)
Claimable(w, p) ==
    /\ Candidate(p)
    /\ query[p].pending = job[w].frame
    /\ query[p].generation + 1 = job[w].generation

Claim(w) ==
    /\ job[w].stage = "picked"
    /\ LET claims == {p \in job[w].todo : Claimable(w, p)}
       IN  IF /\ ~schedulerClosed /\ ~publishing
              /\ job[w].fence = publications
              /\ authority = None
              /\ job[w].at \in claims
             THEN /\ query' = [p \in Queries |->
                          IF p \in claims
                            THEN [query[p] EXCEPT !.processing = job[w].frame]
                            ELSE query[p]]
                  /\ job' = [job EXCEPT ![w].stage = "mapping",
                                         ![w].at = None, ![w].todo = claims]
             ELSE /\ query' = IF ~schedulerClosed /\ ~publishing /\ authority # None
                                THEN Terminated(job[w].at, authority) ELSE query
                  /\ job' = [job EXCEPT ![w] = NoJob]
    /\ UNCHANGED <<captureVars, publicationVars, authorityVars, enderVars>>

(* release_claim.                                                          *)
Released(q, f) == [query EXCEPT ![q].processing = IF @ = f THEN 0 ELSE @]

(* The worker of job j has dealt with q in this stage; the queries that    *)
(* joined go on to the next one together.                                  *)
Advanced(j, q, stage, joined) ==
    LET rest == j.todo \ {q} IN
    IF rest # {} THEN [j EXCEPT !.todo = rest, !.joined = joined]
    ELSE IF joined # {} THEN [j EXCEPT !.stage = stage, !.todo = joined, !.joined = {}]
    ELSE NoJob

At(w, stage) == job[w].stage = stage /\ job[w].settle = None

(* map_match for the first claimed query that is not terminal: the pixels  *)
(* are there, the mapping failed, or the query it ran for was interrupted  *)
(* and the claims of the others are released.                              *)
Map(w) ==
    /\ At(w, "mapping")
    /\ IF \E q \in job[w].todo : Live(q)
         THEN \E stage \in {"admitting", "failing"} :
                 job' = [job EXCEPT ![w].stage = stage]
         ELSE job' = [job EXCEPT ![w] = NoJob]
    /\ UNCHANGED <<captureVars, publicationVars, query, authorityVars, enderVars>>

(* Mutant of MapInterrupted: the claims of the others stay.                 *)
MapInterruptedForAll(w, q) ==
    /\ At(w, "mapping") /\ q \in job[w].todo
    /\ Live(q) /\ query[q].stopped
    /\ query' = Terminated(q, "Cancelled")
    /\ job' = [job EXCEPT ![w] = NoJob]
    /\ UNCHANGED <<captureVars, publicationVars, authorityVars, enderVars>>

MapInterrupted(w, q) ==
    /\ At(w, "mapping") /\ q \in job[w].todo
    /\ Live(q) /\ query[q].stopped
    /\ query' = Terminated(q, "Cancelled")
    /\ job' = [job EXCEPT ![w] =
                  Advanced([@ EXCEPT !.stage = "releasing"], q, "idle", {})]
    /\ UNCHANGED <<captureVars, publicationVars, authorityVars, enderVars>>

Release(w, q) ==
    /\ At(w, "releasing") /\ q \in job[w].todo
    /\ query' = Released(q, job[w].frame)
    /\ job' = [job EXCEPT ![w] = Advanced(@, q, "idle", {})]
    /\ UNCHANGED <<captureVars, publicationVars, authorityVars, enderVars>>

(* fail_mapping.                                                           *)
FailMapping(w, q) ==
    /\ At(w, "failing") /\ q \in job[w].todo
    /\ LET f == job[w].frame IN
       query' =
          IF query[q].stopped \/ authority # None \/ schedulerClosed
            THEN Terminated(q, "Cancelled")
          ELSE IF Live(q) /\ query[q].processing = f /\ query[q].pending = f
            THEN [query EXCEPT ![q] =
                    Ended([Counted(@, "Failed", 1) EXCEPT
                              !.pending = 0, !.processing = 0], "Failed")]
          ELSE Released(q, f)
    /\ job' = [job EXCEPT ![w] = Advanced(@, q, "idle", {})]
    /\ UNCHANGED <<captureVars, publicationVars, authorityVars, enderVars>>

(* finish_mapping, under the admission and activation locks, with the      *)
(* tests process makes before it: the claim is kept only by a live query   *)
(* whose pending frame is still the one that was mapped.                   *)
Admissible(w, q) ==
    /\ Live(q) /\ ~query[q].stopped
    /\ authority = None /\ ~closed /\ ~schedulerClosed
    /\ query[q].processing = job[w].frame
    /\ query[q].pending = job[w].frame

AdmitObsolete(w, q) ==
    /\ ~Admissible(w, q)
    /\ query' =
          IF Live(q) /\ query[q].stopped THEN Terminated(q, "Cancelled")
          ELSE IF Live(q) /\ (authority # None \/ closed \/ schedulerClosed)
            THEN Terminated(q, "SessionClosed")
          ELSE Released(q, job[w].frame)
    /\ job' = [job EXCEPT ![w] = Advanced(@, q, "analysing", @.joined)]

(* The pixels did not change since the last mapping, and no streak began.  *)
AdmitSkip(w, q) ==
    /\ Admissible(w, q)
    /\ q \in Skipping /\ query[q].mapped /\ query[q].confirmed = {}
    /\ query' = [query EXCEPT ![q] =
          [Counted(@, "SkippedChange", 1) EXCEPT
              !.pending = 0, !.processing = 0,
              !.last = job[w].frame, !.rate = "none"]]
    /\ job' = [job EXCEPT ![w] =
          [Advanced(@, q, "analysing", @.joined) EXCEPT !.settle = q]]

(* The minimum interval since the last admission has not passed.           *)
AdmitDefer(w, q) ==
    /\ Admissible(w, q)
    /\ q \in Rated /\ query[q].generation > 0 /\ query[q].rate # "due"
    /\ query' = [query EXCEPT ![q].processing = 0, ![q].rate = "held"]
    /\ job' = [job EXCEPT ![w] = Advanced(@, q, "analysing", @.joined)]

AdmitAnalysis(w, q) ==
    /\ Admissible(w, q)
    /\ query[q].rate # "held"
    /\ query' = [query EXCEPT ![q] =
          [query[q] EXCEPT
              !.generation = @ + 1, !.rate = "none", !.pending = 0, !.processing = 0,
              !.inFlight = [generation |-> query[q].generation + 1,
                            frame |-> job[w].frame]]]
    /\ job' = [job EXCEPT ![w] = Advanced(@, q, "analysing", @.joined \cup {q})]

Admit(w, q) ==
    /\ At(w, "admitting") /\ q \in job[w].todo
    /\ \/ AdmitObsolete(w, q) \/ AdmitSkip(w, q)
       \/ AdmitDefer(w, q) \/ AdmitAnalysis(w, q)
    /\ UNCHANGED <<captureVars, publicationVars, authorityVars, enderVars>>

(* run_analysis: one result for every participant, or none when all of     *)
(* them are terminal or interrupted.                                       *)
Analyse(w) ==
    /\ At(w, "analysing")
    /\ \/ /\ \E q \in job[w].todo : Live(q)
          /\ \E result \in {"empty", "found", "error"} :
                job' = [job EXCEPT ![w].stage = "completing", ![w].result = result]
       \/ /\ \A q \in job[w].todo : Live(q) => query[q].stopped
          /\ job' = [job EXCEPT ![w] = NoJob]
    /\ UNCHANGED <<captureVars, publicationVars, query, authorityVars, enderVars>>

-----------------------------------------------------------------------------
(* complete.                                                               *)

Holds(w, q) ==
    query[q].inFlight = [generation |-> job[w].generation, frame |-> job[w].frame]

(* Mutant of CompleteAsk: what acquisition has seen of capture is trusted.  *)
CompleteAskNobody(w, q) ==
    /\ At(w, "completing") /\ q \in job[w].todo
    /\ job[w].at = None
    /\ job' = [job EXCEPT ![w] =
          IF Live(q) /\ Holds(w, q) THEN [@ EXCEPT !.at = q]
          ELSE Advanced(@, q, "idle", {})]
    /\ UNCHANGED <<captureVars, publicationVars, query, authorityVars, enderVars>>

(* Capture is asked, outside the authority locks, whether the frame may    *)
(* still be committed.                                                     *)
CompleteAsk(w, q) ==
    /\ At(w, "completing") /\ q \in job[w].todo
    /\ job[w].at = None
    /\ job' = [job EXCEPT ![w] =
          IF Live(q) /\ Holds(w, q)
            THEN [@ EXCEPT !.at = q,
                           !.refusal = IF query[q].stopped THEN "Cancelled"
                                       ELSE IF captureEnd = "lost" THEN "TargetLost"
                                       ELSE IF captureEnd = "closed" THEN "SessionClosed"
                                       ELSE None]
            ELSE Advanced(@, q, "idle", {})]
    /\ UNCHANGED <<captureVars, publicationVars, query, authorityVars, enderVars>>

(* The rules that call a streak stable.                                    *)
MayBeStable(q, n) == n >= Required[q]
MustBeStable(q, n) == n >= Required[q] /\ q \notin Timed

(* Mutant of Concluded: a frame without a match does not end the streak.    *)
ConcludedKeepingStreak(q, f, result, stable) ==
    LET landed == [query[q] EXCEPT !.inFlight = NoFlight, !.last = f]
        streak == query[q].confirmed \cup {f}
    IN  CASE result = "error" -> Ended(Counted(landed, "Failed", 1), "Failed")
          [] result = "empty" ->
                 [Counted(landed, "Completed", 1) EXCEPT
                     !.mapped = TRUE, !.empties = @ \cup {f}]
          [] result = "found" /\ ~stable ->
                 [Counted(landed, "Completed", 1) EXCEPT
                     !.mapped = TRUE, !.confirmed = streak]
          [] result = "found" /\ stable ->
                 Ended([Counted(landed, "Completed", 1) EXCEPT
                           !.mapped = TRUE, !.confirmed = streak], "Matched")

(* The result of an analysis enters the query.                             *)
Concluded(q, f, result, stable) ==
    LET landed == [query[q] EXCEPT !.inFlight = NoFlight, !.last = f]
        streak == query[q].confirmed \cup {f}
    IN  CASE result = "error" -> Ended(Counted(landed, "Failed", 1), "Failed")
          [] result = "empty" ->
                 [Counted(landed, "Completed", 1) EXCEPT
                     !.mapped = TRUE, !.confirmed = {}, !.empties = @ \cup {f}]
          [] result = "found" /\ ~stable ->
                 [Counted(landed, "Completed", 1) EXCEPT
                     !.mapped = TRUE, !.confirmed = streak]
          [] result = "found" /\ stable ->
                 Ended([Counted(landed, "Completed", 1) EXCEPT
                           !.mapped = TRUE, !.confirmed = streak], "Matched")

(* Under the admission and activation locks, what the query lost while     *)
(* capture was asked comes first.                                          *)
CompleteCommit(w) ==
    /\ At(w, "completing") /\ job[w].at # None
    /\ LET q == job[w].at
           n == Cardinality(query[q].confirmed) + 1
           ended == IF closed \/ authority # None \/ schedulerClosed
                      THEN "SessionClosed" ELSE job[w].refusal
       IN  /\ \E stable \in {MayBeStable(q, n), MustBeStable(q, n)} :
                query' = IF ended # None THEN Terminated(q, ended)
                         ELSE IF ~Holds(w, q) \/ ~Live(q) THEN query
                         ELSE IF query[q].stopped THEN Terminated(q, "Cancelled")
                         ELSE [query EXCEPT ![q] =
                                 Concluded(q, job[w].frame, job[w].result, stable)]
           /\ job' = [job EXCEPT ![w] =
                 [Advanced([@ EXCEPT !.at = None, !.refusal = None], q, "idle", {})
                     EXCEPT !.settle = q]]
    /\ UNCHANGED <<captureVars, publicationVars, authorityVars, enderVars>>

(* Mutant of Settle: the worker does not look for the end of the source.    *)
SettleNothing(w) ==
    /\ job[w].settle # None
    /\ job' = [job EXCEPT ![w].settle = None]
    /\ UNCHANGED <<captureVars, publicationVars, query, authorityVars, enderVars>>

(* finish_source_end_if_idle.                                              *)
Settle(w) ==
    /\ job[w].settle # None
    /\ query' = IF sourceEnded THEN EndedIfIdle(job[w].settle) ELSE query
    /\ job' = [job EXCEPT ![w].settle = None]
    /\ UNCHANGED <<captureVars, publicationVars, authorityVars, enderVars>>

-----------------------------------------------------------------------------
Work(w) ==
    \/ \E q \in Queries : Pick(w, q)
    \/ Claim(w) \/ Map(w) \/ Analyse(w) \/ CompleteCommit(w) \/ Settle(w)
    \/ \E q \in Queries :
          \/ MapInterrupted(w, q) \/ Release(w, q) \/ FailMapping(w, q)
          \/ Admit(w, q) \/ CompleteAsk(w, q)

Acquire ==
    \/ PublishBegin \/ PublishEnd \/ SourceEnds
    \/ \E q \in Queries : Enqueue(q) \/ EndQuery(q)

Next ==
    \/ \E q \in Queries :
          \/ StartQuery(q) \/ Interrupt(q) \/ Sweep(q) \/ Cancel(q)
          \/ Expire(q) \/ RateElapses(q) \/ CloseQuery(q)
    \/ Capture
    \/ \E kind \in {"lost", "closed"} : CaptureEnds(kind)
    \/ Acquire
    \/ \E outcome \in {"SessionClosed", "SchedulerClosed"} : CloseSession(outcome)
    \/ CloseScheduler
    \/ \E w \in Workers : Work(w)

Spec == Init /\ [][Next]_vars

(* The threads run on, the matcher returns, the supervisor sweeps while    *)
(* the scheduler is open, and a closed scheduler closes its sessions.      *)
Fairness ==
    /\ \A w \in Workers : WF_vars(Work(w))
    /\ WF_vars(Acquire)
    /\ \A q \in Queries : /\ WF_vars(Sweep(q))
                          /\ WF_vars(RateElapses(q))
                          /\ WF_vars(CloseQuery(q))
    /\ WF_vars(CloseSession("SchedulerClosed"))

FairSpec == Spec /\ Fairness

-----------------------------------------------------------------------------
(* Properties.                                                             *)

QueryType ==
    [registered : BOOLEAN, stopped : BOOLEAN,
     terminal : Outcomes \cup {None},
     needsCurrent : BOOLEAN, source : FramesOrNone, last : FramesOrNone,
     pending : FramesOrNone, processing : FramesOrNone,
     inFlight : [generation : Nat, frame : FramesOrNone],
     generation : Nat, rate : {"none", "held", "due"}, mapped : BOOLEAN,
     confirmed : SUBSET Frames, work : [Dispositions -> Nat],
     empties : SUBSET Frames, accepted : Nat]

JobType ==
    [stage : {"idle", "picked", "mapping", "failing", "releasing", "admitting",
              "analysing", "completing"},
     frame : FramesOrNone, generation : Nat, fence : Nat,
     todo : SUBSET Queries, joined : SUBSET Queries,
     at : Queries \cup {None}, settle : Queries \cup {None},
     result : {"none", "empty", "found", "error"},
     refusal : {None, "Cancelled", "TargetLost", "SessionClosed"}]

SessionType ==
    /\ captured \in FramesOrNone /\ captureEnd \in {"open", "lost", "closed"}
    /\ published \in FramesOrNone /\ publishing \in BOOLEAN
    /\ offering \subseteq Queries /\ publications \in Nat /\ refresh \in BOOLEAN
    /\ authority \in {None, "TargetLost", "SessionClosed", "SchedulerClosed"}
    /\ closed \in BOOLEAN /\ sourceEnded \in BOOLEAN /\ schedulerClosed \in BOOLEAN
    /\ ending \subseteq Queries /\ closing \subseteq Queries

(* The state keeps its shape: one authority, terminal outcomes and job     *)
(* stages of the kinds watch.rs declares.                                  *)
TypeOK ==
    /\ SessionType
    /\ query \in [Queries -> QueryType]
    /\ job \in [Workers -> JobType]

(* A match rests on the streak its stability rule asks for, all of it seen *)
(* in one epoch and geometry revision, that of the newest frame offered,   *)
(* and with no frame without a match in between: a reset in enqueue or     *)
(* complete that an interleaving skips would let a stale streak match.     *)
MatchedIsStable ==
    \A q \in Queries : query[q].terminal = "Matched" =>
        LET d == query[q] IN
        /\ Cardinality(d.confirmed) >= Required[q]
        /\ \A f \in d.confirmed : View[f] = View[d.source]
        /\ \A e \in d.empties : ~ \E f, g \in d.confirmed : f < e /\ e < g

(* Every frame a query accepted has ended in exactly one way, or is the    *)
(* pending one or the one in flight: coalescing, replacement, invalidation *)
(* and each way of ending count it once, in whatever order they come.      *)
FramesAccounted ==
    \A q \in Queries :
        query[q].accepted =
            (IF Live(q) THEN Outstanding(query[q]) ELSE 0)
                + query[q].work["Completed"] + query[q].work["Failed"]
                + query[q].work["Superseded"] + query[q].work["SkippedChange"]
                + query[q].work["QueueExpired"]

(* A query's claim or analysis is in the hands of exactly one worker: a    *)
(* claim nobody releases would keep its query from being served and from   *)
(* expiring.  Only an analysis abandoned because every participant was     *)
(* interrupted is left behind, for the sweep.                              *)
HeldByOneWorker ==
    \A q \in Queries : Live(q) =>
        /\ query[q].processing # 0 =>
              Cardinality({w \in Workers :
                  /\ job[w].stage \in {"mapping", "failing", "releasing", "admitting"}
                  /\ job[w].frame = query[q].processing
                  /\ q \in job[w].todo}) = 1
        /\ InFlight(query[q]) /\ ~query[q].stopped =>
              Cardinality({w \in Workers :
                  /\ Holds(w, q)
                  /\ \/ job[w].stage = "admitting" /\ q \in job[w].joined
                     \/ job[w].stage \in {"analysing", "completing"} /\ q \in job[w].todo}) = 1

(* What a query holds is in stamp order, so a result never lands after a   *)
(* newer one: concluded, in flight, claimed, pending.                      *)
WorkInOrder ==
    \A q \in Queries : Live(q) =>
        LET d == query[q] IN
        /\ d.pending \in {0, d.source}
        /\ d.processing <= d.pending
        /\ InFlight(d) => d.last < d.inFlight.frame /\ d.inFlight.frame <= d.source
        /\ d.pending # 0 => d.last < d.pending
        /\ InFlight(d) /\ d.pending # 0 => d.inFlight.frame < d.pending
        /\ InFlight(d) => View[d.inFlight.frame] = View[d.source]

(* The work on a query, whoever does it.                                   *)
WorkIsSound == TypeOK /\ HeldByOneWorker /\ WorkInOrder

(* Once the end of the session or of the scheduler is recorded, no query   *)
(* ends in any other way: not by a late match, an expiry, a failed mapping *)
(* or a cancellation that was already on its way.                          *)
AuthorityWins ==
    [][\A q \in Queries : Live(q) /\ query'[q].terminal # None =>
          /\ authority # None => query'[q].terminal = authority
          /\ authority = None /\ schedulerClosed =>
                query'[q].terminal = "SchedulerClosed"]_vars

(* Once capture has ended no match can commit except the ones capture had  *)
(* already allowed, even while the acquisition thread has not seen it.     *)
MatchNeedsCapture ==
    \A q \in Queries :
        []((/\ captureEnd # "open" /\ query[q].terminal # "Matched"
            /\ \A w \in Workers : job[w].at # q)
           => [](query[q].terminal # "Matched"))

(* After an ordinary end of capture every query ends: the idle ones at     *)
(* once, the others when the worker that completes or skips their last     *)
(* frame sees the end, whichever of the two comes first.                   *)
SourceEndSettles == \A q \in Queries : (sourceEnded /\ Live(q)) ~> ~Live(q)

(* A pending frame is served, replaced or given up: no claim, deferral or  *)
(* coalescing leaves it behind.                                            *)
PendingIsServed ==
    \A q \in Queries : \A f \in Frames :
        (Live(q) /\ query[q].pending = f) ~> (~Live(q) \/ query[q].pending # f)

(* Neither a frame nor the end of the source is left waiting.              *)
NothingWaits == SourceEndSettles /\ PendingIsServed
=============================================================================
