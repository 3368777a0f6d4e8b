----------------------------- MODULE OcrDispatch -----------------------------
(***************************************************************************)
(* How two workers are shared between template queries and OCR text        *)
(* queries, and the life of an OCR query                                   *)
(* (crates/automation/runtime/src/ocr_watch.rs, with DispatchState and     *)
(* next_work of watch.rs).                                                 *)
(*                                                                         *)
(* One OCR analysis may run at a time, and while it converts its frame no  *)
(* template mapping may: a worker that finds an OCR query ready and its    *)
(* turn come raises the mapping barrier, the template mappings already     *)
(* dispatched drain, and the worker that then takes the turn lowers the    *)
(* barrier when the conversion is over.  The classes take turns when both  *)
(* have work, and the OCR queries rotate by session and query.  Ending a   *)
(* query ends its analysis logically; the physical lease stays with the    *)
(* worker until its native call returns.                                   *)
(*                                                                         *)
(* Left out, because TemplateWatch and WatchLifecycle have them: what a    *)
(* worker does with a template query beyond its mapping, the rates of      *)
(* template queries, registration, and the acquisition thread's waits.     *)
(* Clocks are left out as they are there.  A step is one critical section; *)
(* the snapshot of a scan is taken one OCR query at a time.                *)
(***************************************************************************)
EXTENDS Naturals, FiniteSets

CONSTANTS
    Sessions,       \* session identities, numbers
    Texts,          \* identities of OCR text queries, numbers
    Templates,      \* template queries
    Home,           \* Home[q]: the session of a query
    Workers,
    MaxFrame,       \* bounds the frames published to a session
    View,           \* View[f]: the epoch and geometry revision of frame f
    Required,       \* Required[q]: consecutive positive analyses asked for
    Skipping,       \* OCR queries whose change policy may skip an analysis
    Results,        \* what the recognizer may return
    Disturbances,   \* bounds what a run lets happen to the queries
    None

Outcomes == {"Cancelled", "DeadlineExceeded", "Overloaded", "Failed", "Matched",
             "TargetLost", "SessionClosed", "SchedulerClosed"}

ASSUME DispatchAssumption ==
    /\ Sessions \subseteq Nat \ {0}
    /\ Texts \subseteq Nat \ {0}
    /\ Texts \cap Templates = {}
    /\ None \notin Workers /\ None \notin Texts
    /\ None \notin Templates /\ None \notin Outcomes
    /\ Home \in [Texts \cup Templates -> Sessions]
    /\ MaxFrame \in Nat
    /\ View \in [1..MaxFrame -> Nat]
    /\ Required \in [Texts -> Nat \ {0}]
    /\ Skipping \subseteq Texts
    /\ Results \subseteq {"empty", "found", "error"}
    /\ Disturbances \subseteq {"cancel", "deadline", "drop", "expire", "unmappable",
                               "lost", "closed", "close", "shutdown"}

VARIABLES
    captureEnd, published,          \* per session: capture, and the last frame
    busy, offering, publications,   \* publications under way, and their fence
    text,                           \* OcrQueryData of every OCR query
    template,                       \* the template queries
    authority, sourceEnded,         \* per session
    schedulerClosed, closing,       \* close, and the queries it has yet to visit
    activated,                      \* sessions in the scheduler's registry
    dispatch, barrier,              \* DispatchState and mapping_barrier
    textCursor,                     \* per session: ocr_query_cursor
    job                             \* what each worker is doing

sourceVars == <<captureEnd, published, busy, offering, publications>>
authorityVars == <<authority, sourceEnded, schedulerClosed, closing>>
dispatchVars == <<dispatch, barrier, textCursor>>
vars == <<sourceVars, text, template, authorityVars, activated, dispatchVars, job>>

FramesOrNone == 0..MaxFrame
AllQueries == Texts \cup Templates
NoExecution == [generation |-> 0, frame |-> 0]

Dispositions == {"Completed", "Failed", "Superseded", "SkippedChange", "QueueExpired"}

(* OcrQueryData.  `deferred` says that rate_eligible_at is set, `cooling`  *)
(* that the interval since last_admitted has not passed.  `confirmed`      *)
(* holds the frames counted by the code's `confirmed`; `empties`, the      *)
(* frames found without the text, and `taken`, the frames enqueue kept,    *)
(* are history.                                                            *)
NewText ==
    [terminal |-> None, stopped |-> None, released |-> FALSE,
     source |-> 0, accepted |-> 0, pending |-> 0,
     deferred |-> FALSE, cooling |-> FALSE,
     generation |-> 0, execution |-> NoExecution, physical |-> FALSE,
     previous |-> FALSE, confirmed |-> {}, empties |-> {}, taken |-> 0,
     work |-> [d \in Dispositions |-> 0]]

NoJob == [stage |-> "idle", fence |-> 0, cursor |-> 0, cursors |-> [s \in Sessions |-> 0],
          todo |-> {}, seen |-> {}, templates |-> FALSE, at |-> None,
          frame |-> 0, generation |-> 0, unchanged |-> FALSE,
          confirmed |-> {}, result |-> "none", refusal |-> None]

(* DispatchState; 0 stands for no cursor yet.                              *)
NewDispatch == [mappings |-> 0, turn |-> FALSE, mapping |-> FALSE, worker |-> None,
                next |-> FALSE, ready |-> FALSE, cursor |-> 0]

Init ==
    /\ captureEnd = [s \in Sessions |-> "open"]
    /\ published = [s \in Sessions |-> 0]
    /\ busy = {} /\ offering = {} /\ publications = 0
    /\ text = [q \in Texts |-> NewText]
    /\ template = [t \in Templates |-> "quiet"]
    /\ authority = [s \in Sessions |-> None]
    /\ sourceEnded = {} /\ schedulerClosed = FALSE /\ closing = {}
    /\ activated = {Home[q] : q \in AllQueries}
    /\ dispatch = NewDispatch /\ barrier = FALSE
    /\ textCursor = [s \in Sessions |-> 0]
    /\ job = [w \in Workers |-> NoJob]

Live(q) == text[q].terminal = None
Executing(d) == d.execution # NoExecution

-----------------------------------------------------------------------------
(* Ending an OCR query.                                                    *)

Counted(d, disposition, n) == [d EXCEPT !.work[disposition] = @ + n]

(* clear_work: the pending frame and the analysis under way are            *)
(* superseded; the physical lease is not touched.                          *)
Cleared(d) ==
    [Counted(d, "Superseded", (IF d.pending # 0 THEN 1 ELSE 0)
                                + (IF Executing(d) THEN 1 ELSE 0)) EXCEPT
        !.pending = 0, !.execution = NoExecution,
        !.previous = FALSE, !.deferred = FALSE]

Ended(d, outcome) == [Cleared(d) EXCEPT !.terminal = outcome]

Yielding == {None, "Cancelled", "DeadlineExceeded"}

(* authority: the session's recorded end, then the scheduler's, then the   *)
(* interruption of the query's own context.                                *)
Authority(q) ==
    IF authority[Home[q]] # None THEN authority[Home[q]]
    ELSE IF schedulerClosed THEN "SchedulerClosed"
    ELSE text[q].stopped

(* Mutant of Decided: the outcome proposed comes before any authority.      *)
DecidedAsProposed(q, proposed) == proposed

(* terminate: what is proposed yields to the authority, except that a      *)
(* cancellation outranks a deadline.                                       *)
Decided(q, proposed) ==
    IF Authority(q) \in {None, "DeadlineExceeded"} /\ proposed = "Cancelled"
      THEN "Cancelled"
    ELSE IF Authority(q) # None THEN Authority(q)
    ELSE proposed

Terminated(q, proposed) ==
    IF Live(q) THEN [text EXCEPT ![q] = Ended(@, Decided(q, proposed))] ELSE text

(* sweep, but for the expiry of the pending frame: the authority first,    *)
(* then the end of the source once nothing is left to do.                  *)
Swept(q) ==
    IF ~Live(q) THEN text
    ELSE IF Authority(q) # None THEN [text EXCEPT ![q] = Ended(@, Authority(q))]
    ELSE IF Home[q] \in sourceEnded /\ text[q].pending = 0 /\ ~Executing(text[q])
      THEN [text EXCEPT ![q] = Ended(@, "SessionClosed")]
    ELSE text

(* deactivate_if_finished and release_query_slot: a session leaves the     *)
(* registry when no query has a slot and no OCR analysis runs.             *)
Deactivated(s, texts, templates) ==
    IF /\ \A q \in Texts : Home[q] = s => texts[q].released /\ ~texts[q].physical
       /\ \A t \in Templates : Home[t] = s => templates[t] = "ended"
      THEN activated \ {s} ELSE activated

(* after_terminal: the reservations are released, once.                    *)
AfterTerminal(q) ==
    /\ ~Live(q) /\ ~text[q].released
    /\ text' = [text EXCEPT ![q].released = TRUE]
    /\ activated' = Deactivated(Home[q], text', template)
    /\ UNCHANGED <<sourceVars, template, authorityVars, dispatchVars, job>>

-----------------------------------------------------------------------------
(* What happens to a query from outside the workers.                       *)

(* The query's context is cancelled or passes its deadline; a cancelled    *)
(* one stays cancelled.                                                    *)
Interrupt(q, outcome) ==
    /\ outcome = "Cancelled" => "cancel" \in Disturbances
    /\ outcome = "DeadlineExceeded" => "deadline" \in Disturbances
    /\ Live(q)
    /\ text[q].stopped # outcome /\ text[q].stopped # "Cancelled"
    /\ text' = [text EXCEPT ![q].stopped = outcome]
    /\ UNCHANGED <<sourceVars, template, authorityVars, activated, dispatchVars, job>>

(* OcrTextQuery::cancel, or the drop of the handle.                        *)
Cancel(q) ==
    /\ "drop" \in Disturbances
    /\ Live(q)
    /\ text' = Terminated(q, "Cancelled")
    /\ UNCHANGED <<sourceVars, template, authorityVars, activated, dispatchVars, job>>

(* The supervisor's sweep_authority and terminate_idle_queries.            *)
Sweep(q) ==
    /\ Swept(q) # text
    /\ text' = Swept(q)
    /\ UNCHANGED <<sourceVars, template, authorityVars, activated, dispatchVars, job>>

(* sweep finds the pending frame waiting too long; QueueExpired is counted *)
(* besides what clear_work counts.                                         *)
Expire(q) ==
    /\ "expire" \in Disturbances
    /\ Live(q) /\ Authority(q) = None
    /\ text[q].pending # 0
    /\ ~(text[q].deferred /\ text[q].cooling)
    /\ text' = [text EXCEPT ![q] = Ended(Counted(@, "QueueExpired", 1), "Overloaded")]
    /\ UNCHANGED <<sourceVars, template, authorityVars, activated, dispatchVars, job>>

RateElapses(q) ==
    /\ text[q].cooling
    /\ text' = [text EXCEPT ![q].cooling = FALSE]
    /\ UNCHANGED <<sourceVars, template, authorityVars, activated, dispatchVars, job>>

(* A template query ends, for whatever reason TemplateWatch gives; one in *)
(* closing ends with its session, which comes to the same here.           *)
EndTemplate(t) ==
    /\ "drop" \in Disturbances
    /\ template[t] # "ended" /\ t \notin closing
    /\ template' = [template EXCEPT ![t] = "ended"]
    /\ activated' = Deactivated(Home[t], text, template')
    /\ UNCHANGED <<sourceVars, text, authorityVars, dispatchVars, job>>

CaptureEnds(s, kind) ==
    /\ kind \in Disturbances
    /\ captureEnd[s] = "open"
    /\ captureEnd' = [captureEnd EXCEPT ![s] = kind]
    /\ UNCHANGED <<published, busy, offering, publications, text, template,
                   authorityVars, activated, dispatchVars, job>>

QueriesOf(s) == {q \in AllQueries : Home[q] = s}

(* query_snapshot and ocr_snapshot; an ended query need not be visited.    *)
Registered(s) ==
    {q \in QueriesOf(s) : IF q \in Texts THEN Live(q) ELSE template[q] # "ended"}

(* The acquisition thread sees the end of capture.                         *)
SourceEnds(s) ==
    /\ captureEnd[s] # "open" /\ s \notin sourceEnded /\ s \notin busy
    /\ sourceEnded' = sourceEnded \cup {s}
    /\ IF captureEnd[s] = "lost" /\ authority[s] = None
         THEN /\ authority' = [authority EXCEPT ![s] = "TargetLost"]
              /\ closing' = closing \cup Registered(s)
         ELSE UNCHANGED <<authority, closing>>
    /\ UNCHANGED <<sourceVars, text, template, schedulerClosed, activated,
                   dispatchVars, job>>

(* WatchSession::close, for the session itself or for the scheduler.       *)
CloseSession(s, outcome) ==
    /\ outcome = "SessionClosed" => "close" \in Disturbances
    /\ outcome = "SchedulerClosed" => schedulerClosed
    /\ authority[s] = None
    /\ authority' = [authority EXCEPT ![s] = outcome]
    /\ closing' = closing \cup Registered(s)
    /\ UNCHANGED <<sourceVars, text, template, sourceEnded, schedulerClosed,
                   activated, dispatchVars, job>>

CloseScheduler ==
    /\ "shutdown" \in Disturbances
    /\ ~schedulerClosed
    /\ schedulerClosed' = TRUE
    /\ UNCHANGED <<sourceVars, text, template, authority, sourceEnded, closing,
                   activated, dispatchVars, job>>

CloseText(q) ==
    /\ q \in closing /\ closing \cap QueriesOf(Home[q]) \subseteq Texts
    /\ closing' = closing \ {q}
    /\ text' = Terminated(q, authority[Home[q]])
    /\ UNCHANGED <<sourceVars, template, authority, sourceEnded, schedulerClosed,
                   activated, dispatchVars, job>>

CloseTemplate(t) ==
    /\ t \in closing
    /\ closing' = closing \ {t}
    /\ template' = [template EXCEPT ![t] = "ended"]
    /\ activated' = Deactivated(Home[t], text, template')
    /\ UNCHANGED <<sourceVars, text, authority, sourceEnded, schedulerClosed,
                   dispatchVars, job>>

-----------------------------------------------------------------------------
(* Publication of a frame to the queries of its session.                   *)

PublishBegin(s) ==
    /\ s \notin busy /\ s \notin sourceEnded
    /\ captureEnd[s] = "open" /\ published[s] < MaxFrame
    /\ published' = [published EXCEPT ![s] = @ + 1]
    /\ busy' = busy \cup {s}
    /\ offering' = offering \cup QueriesOf(s)
    /\ UNCHANGED <<captureEnd, publications, text, template, authorityVars,
                   activated, dispatchVars, job>>

(* enqueue up to the region: a frame of another epoch or geometry revision *)
(* drops the analysis under way and the streak.                            *)
Sourced(d, f) ==
    IF d.source = 0 \/ View[d.source] = View[f] THEN [d EXCEPT !.source = f]
    ELSE [Counted(d, "Superseded", IF Executing(d) THEN 1 ELSE 0) EXCEPT
            !.source = f, !.accepted = 0, !.previous = FALSE, !.confirmed = {},
            !.execution = NoExecution]

(* The frame replaces the pending one and takes over its place in the      *)
(* queue, or waits for the end of the rate interval.                       *)
Enqueued(d, f) ==
    [Counted(Sourced(d, f), "Superseded", IF d.pending # 0 THEN 1 ELSE 0) EXCEPT
        !.pending = f, !.taken = @ + 1,
        !.deferred = IF d.pending # 0 THEN @ ELSE d.cooling]

(* The region does not resolve on the frame, or its pixels are too many.   *)
Unresolved(d, f) == Ended(Sourced(d, f), "Failed")

EnqueueText(q) ==
    /\ q \in offering
    /\ offering' = offering \ {q}
    /\ LET f == published[Home[q]] IN
       text' \in
          IF ~Live(q) \/ text[q].source >= f THEN {text}
          ELSE IF Authority(q) # None THEN {Terminated(q, Authority(q))}
          ELSE {[text EXCEPT ![q] = Enqueued(@, f)]}
                 \cup {[text EXCEPT ![q] = Unresolved(@, f)] :
                          x \in Disturbances \cap {"unmappable"}}
    /\ UNCHANGED <<captureEnd, published, busy, publications, template,
                   authorityVars, activated, dispatchVars, job>>

EnqueueTemplate(t) ==
    /\ t \in offering
    /\ offering' = offering \ {t}
    /\ template' = [template EXCEPT ![t] = IF @ = "quiet" THEN "pending" ELSE @]
    /\ UNCHANGED <<captureEnd, published, busy, publications, text,
                   authorityVars, activated, dispatchVars, job>>

PublishEnd(s) ==
    /\ s \in busy /\ QueriesOf(s) \cap offering = {}
    /\ busy' = busy \ {s}
    /\ publications' = publications + 1
    /\ UNCHANGED <<captureEnd, published, offering, text, template,
                   authorityVars, activated, dispatchVars, job>>

-----------------------------------------------------------------------------
(* Workers: which class is served next.                                    *)

Publishing == busy # {}

(* The order of the scan: sessions after the session cursor first, and in  *)
(* each session the queries after its query cursor.                        *)
Before(x, y, cursor) ==
    IF (x <= cursor) = (y <= cursor) THEN x < y ELSE y <= cursor

PrecedesBy(session, queries, p, q) ==
    IF Home[p] = Home[q] THEN Before(p, q, queries[Home[p]])
    ELSE Before(Home[p], Home[q], session)

Precedes(j, p, q) == PrecedesBy(j.cursor, j.cursors, p, q)

(* ready, once the query is swept.                                         *)
Ready(d) ==
    /\ d.terminal = None
    /\ ~Executing(d) /\ ~d.physical
    /\ d.pending # 0 /\ ~(d.deferred /\ d.cooling)

(* candidate: the template has a frame and no worker holds it.             *)
Candidate(t) == template[t] = "pending" /\ \A w \in Workers : job[w].at # t

(* next_dispatch up to its scan.  While an OCR lease is out no OCR query   *)
(* can be dispatched, and no template query either while it converts.      *)
NextDispatch(w) ==
    /\ job[w] = NoJob
    /\ ~schedulerClosed /\ ~Publishing
    /\ dispatch.worker # None => ~dispatch.mapping
    /\ job' = [job EXCEPT ![w] =
          IF dispatch.worker # None
            THEN [NoJob EXCEPT !.stage = "template", !.fence = publications]
            ELSE [NoJob EXCEPT !.stage = "scan", !.fence = publications,
                        !.cursor = dispatch.cursor, !.cursors = textCursor,
                        !.todo = {q \in Texts : Home[q] \in activated /\ Live(q)},
                        !.templates = \E t \in Templates :
                                         Home[t] \in activated /\ Candidate(t)]]
    /\ UNCHANGED <<sourceVars, text, template, authorityVars, activated, dispatchVars>>

(* ready() of one query, which sweeps it first.                            *)
Scan(w, q) ==
    /\ job[w].stage = "scan" /\ q \in job[w].todo
    /\ \A p \in job[w].todo \ {q} : Precedes(job[w], q, p)
    /\ text' = Swept(q)
    /\ job' = [job EXCEPT ![w].todo = @ \ {q},
                           ![w].seen = IF Ready(text'[q])
                                         THEN @ \cup {<<q, text[q].pending>>} ELSE @]
    /\ UNCHANGED <<sourceVars, template, authorityVars, activated, dispatchVars>>

Scanned(w) == job[w].stage = "scan" /\ job[w].todo = {}

(* Mutant of Stale: the cursors may have moved.                             *)
StaleByPublication(w) ==
    \/ schedulerClosed \/ Publishing
    \/ publications # job[w].fence

(* Under the admission lock: the snapshot says nothing about the present.  *)
Stale(w) ==
    \/ schedulerClosed \/ Publishing
    \/ publications # job[w].fence
    \/ dispatch.cursor # job[w].cursor
    \/ \E x \in job[w].seen : textCursor[Home[x[1]]] # job[w].cursors[Home[x[1]]]

(* claim, for a query whose session is open.                               *)
Claimable(x) ==
    /\ Ready(text[x[1]]) /\ text[x[1]].pending = x[2]
    /\ text[x[1]].stopped = None
    /\ authority[Home[x[1]]] = None

(* claim: the pending frame goes under analysis.                           *)
Claimed(d) ==
    [d EXCEPT !.generation = @ + 1, !.pending = 0, !.deferred = FALSE,
              !.execution = [generation |-> d.generation + 1, frame |-> d.pending],
              !.physical = TRUE]

ToTemplates(w) ==
    job' = [job EXCEPT ![w] = [NoJob EXCEPT !.stage = "template",
                                            !.fence = publications]]

Idle(w) == job' = [job EXCEPT ![w] = NoJob]

DecideStale(w) ==
    /\ Scanned(w) /\ Stale(w)
    /\ Idle(w)
    /\ UNCHANGED <<text, dispatchVars>>

(* The lease was taken since the snapshot.                                 *)
DecideLeased(w) ==
    /\ Scanned(w) /\ ~Stale(w) /\ dispatch.worker # None
    /\ dispatch' = [dispatch EXCEPT !.ready = job[w].seen # {}]
    /\ IF dispatch.mapping \/ dispatch.turn THEN Idle(w) ELSE ToTemplates(w)
    /\ UNCHANGED <<text, barrier, textCursor>>

(* No OCR query is ready: a turn given to one is taken back.               *)
DecideNoText(w) ==
    /\ Scanned(w) /\ ~Stale(w) /\ dispatch.worker = None
    /\ job[w].seen = {}
    /\ dispatch' = [dispatch EXCEPT !.ready = FALSE, !.turn = FALSE]
    /\ barrier' = FALSE
    /\ ToTemplates(w)
    /\ UNCHANGED <<text, textCursor>>

(* Both classes have work and it is the templates' turn.                   *)
DecideTemplates(w) ==
    /\ Scanned(w) /\ ~Stale(w) /\ dispatch.worker = None
    /\ job[w].seen # {}
    /\ ~dispatch.turn /\ ~dispatch.next /\ job[w].templates
    /\ dispatch' = [dispatch EXCEPT !.ready = TRUE]
    /\ ToTemplates(w)
    /\ UNCHANGED <<text, barrier, textCursor>>

TextTurn(w) ==
    /\ Scanned(w) /\ ~Stale(w) /\ dispatch.worker = None
    /\ job[w].seen # {}
    /\ dispatch.turn \/ dispatch.next \/ ~job[w].templates

(* The barrier goes up; no worker waits for the mappings to drain.         *)
DecideDrain(w) ==
    /\ TextTurn(w) /\ dispatch.mappings # 0
    /\ dispatch' = [dispatch EXCEPT !.ready = TRUE, !.turn = TRUE]
    /\ barrier' = TRUE
    /\ Idle(w)
    /\ UNCHANGED <<text, textCursor>>

(* Mutant of DecideText: the mappings under way are not waited for.         *)
DecideTextUndrained(w) ==
    /\ TextTurn(w)
    /\ \E x \in job[w].seen :
          /\ Claimable(x)
          /\ text' = [text EXCEPT ![x[1]] = Claimed(@)]
          /\ job' = [job EXCEPT ![w] =
                [NoJob EXCEPT !.stage = "claimed", !.at = x[1], !.frame = x[2],
                              !.generation = text[x[1]].generation + 1]]
          /\ textCursor' = [textCursor EXCEPT ![Home[x[1]]] = x[1]]
          /\ dispatch' = [dispatch EXCEPT !.ready = TRUE, !.worker = w, !.turn = FALSE,
                            !.mapping = TRUE, !.next = FALSE, !.cursor = Home[x[1]]]
          /\ barrier' = TRUE

(* The first of the scan that can still be claimed takes the lease.        *)
DecideText(w) ==
    /\ TextTurn(w) /\ dispatch.mappings = 0
    /\ \E x \in job[w].seen :
          /\ Claimable(x)
          /\ \A y \in job[w].seen \ {x} :
                Claimable(y) => Precedes(job[w], x[1], y[1])
          /\ text' = [text EXCEPT ![x[1]] = Claimed(@)]
          /\ job' = [job EXCEPT ![w] =
                [NoJob EXCEPT !.stage = "claimed", !.at = x[1], !.frame = x[2],
                              !.generation = text[x[1]].generation + 1]]
          /\ textCursor' = [textCursor EXCEPT ![Home[x[1]]] = x[1]]
          /\ dispatch' = [dispatch EXCEPT !.ready = TRUE, !.worker = w, !.turn = FALSE,
                            !.mapping = TRUE, !.next = FALSE, !.cursor = Home[x[1]]]
          /\ barrier' = TRUE

(* None of them can.                                                       *)
DecideNone(w) ==
    /\ TextTurn(w) /\ dispatch.mappings = 0
    /\ ~ \E x \in job[w].seen : Claimable(x)
    /\ dispatch' = [dispatch EXCEPT !.ready = FALSE, !.turn = FALSE]
    /\ barrier' = FALSE
    /\ ToTemplates(w)
    /\ UNCHANGED <<text, textCursor>>

Decide(w) ==
    /\ \/ DecideStale(w) \/ DecideLeased(w) \/ DecideNoText(w)
       \/ DecideTemplates(w) \/ DecideDrain(w) \/ DecideText(w) \/ DecideNone(w)
    /\ UNCHANGED <<sourceVars, template, authorityVars, activated>>

-----------------------------------------------------------------------------
(* Workers: a template query.                                              *)

(* next_work's tests under the admission lock.                             *)
TemplatesAdmitted(w) ==
    /\ ~schedulerClosed /\ ~Publishing
    /\ publications = job[w].fence
    /\ ~dispatch.mapping /\ ~dispatch.turn
    /\ ~(dispatch.worker = None /\ dispatch.next /\ dispatch.ready)

TakeTemplate(w) ==
    /\ job[w].stage = "template"
    /\ TemplatesAdmitted(w)
    /\ \E t \in Templates :
          /\ Candidate(t) /\ authority[Home[t]] = None
          /\ template' = [template EXCEPT ![t] = "quiet"]
          /\ job' = [job EXCEPT ![w].stage = "mapping", ![w].at = t]
    /\ dispatch' = [dispatch EXCEPT !.mappings = @ + 1, !.next = TRUE]
    /\ UNCHANGED <<sourceVars, text, authorityVars, activated, barrier, textCursor>>

TakeNothing(w) ==
    /\ job[w].stage = "template"
    /\ ~ (/\ TemplatesAdmitted(w)
          /\ \E t \in Templates : Candidate(t) /\ authority[Home[t]] = None)
    /\ Idle(w)
    /\ UNCHANGED <<sourceVars, text, template, authorityVars, activated, dispatchVars>>

(* Mutant of MapReturns: a mapping nobody wants any more is not released.   *)
MapReturnsLive(w) ==
    /\ job[w].stage = "mapping"
    /\ dispatch' = [dispatch EXCEPT !.mappings =
                        IF template[job[w].at] = "ended" THEN @ ELSE @ - 1]
    /\ job' = [job EXCEPT ![w].stage = "analysing"]
    /\ UNCHANGED <<sourceVars, text, template, authorityVars, activated,
                   barrier, textCursor>>

(* TemplateMappingStage is released when map_match returns, or dropped.    *)
MapReturns(w) ==
    /\ job[w].stage = "mapping"
    /\ dispatch' = [dispatch EXCEPT !.mappings = @ - 1]
    /\ job' = [job EXCEPT ![w].stage = "analysing"]
    /\ UNCHANGED <<sourceVars, text, template, authorityVars, activated,
                   barrier, textCursor>>

TemplateDone(w) ==
    /\ job[w].stage = "analysing"
    /\ Idle(w)
    /\ UNCHANGED <<sourceVars, text, template, authorityVars, activated, dispatchVars>>

-----------------------------------------------------------------------------
(* Workers: the OCR query of the lease (process_ocr).                      *)

Current(w) ==
    LET d == text[job[w].at] IN
    /\ d.terminal = None
    /\ d.execution = [generation |-> job[w].generation, frame |-> job[w].frame]

GoTo(w, stage) == job' = [job EXCEPT ![w].stage = stage]

(* The query is swept first; a lease whose work has ended goes back.       *)
ProcessText(w) ==
    /\ job[w].stage = "claimed"
    /\ text' = Swept(job[w].at)
    /\ GoTo(w, IF Swept(job[w].at) = text /\ Current(w) THEN "preparing" ELSE "leaving")
    /\ UNCHANGED <<sourceVars, template, authorityVars, activated, dispatchVars>>

(* prepare returns, and with it the barrier goes down.                     *)
Prepare(w) ==
    /\ job[w].stage = "preparing"
    /\ \E result \in {"prepared"} \cup (Results \cap {"error"}) :
          job' = [job EXCEPT
              ![w].stage = IF result = "error" THEN "completing" ELSE "prepared",
              ![w].result = result]
    /\ dispatch' = [dispatch EXCEPT !.mapping = FALSE]
    /\ barrier' = FALSE
    /\ UNCHANGED <<sourceVars, text, template, authorityVars, activated, textCursor>>

(* The pixels are compared with those of the last analysis, if they are    *)
(* still cached and no streak has begun.                                   *)
Compare(w) ==
    /\ job[w].stage = "prepared"
    /\ LET q == job[w].at
           comparable == q \in Skipping /\ text[q].previous /\ text[q].confirmed = {}
       IN  IF Current(w)
             THEN \E unchanged \in {FALSE, comparable} :
                    job' = [job EXCEPT ![w].stage = "admitting",
                                       ![w].unchanged = unchanged]
             ELSE GoTo(w, "leaving")
    /\ UNCHANGED <<sourceVars, text, template, authorityVars, activated, dispatchVars>>

AdmitObsolete(w) ==
    LET q == job[w].at IN
    /\ Authority(q) # None \/ ~Current(w)
    /\ text' = IF Authority(q) # None THEN Terminated(q, Authority(q)) ELSE text
    /\ GoTo(w, "leaving")

Admissible(w) == Authority(job[w].at) = None /\ Current(w)

AdmitSkip(w) ==
    LET q == job[w].at IN
    /\ Admissible(w)
    /\ job[w].unchanged /\ text[q].confirmed = {}
    /\ text' = [text EXCEPT ![q] = [Counted(@, "SkippedChange", 1) EXCEPT
                                        !.execution = NoExecution]]
    /\ GoTo(w, "settling")

(* The rate interval begins, also for a frame that came during the         *)
(* conversion.                                                             *)
AdmitAnalysis(w) ==
    LET q == job[w].at IN
    /\ Admissible(w)
    /\ ~(job[w].unchanged /\ text[q].confirmed = {})
    /\ text' = [text EXCEPT ![q].cooling = TRUE,
                            ![q].deferred = text[q].pending # 0]
    /\ GoTo(w, "executing")

(* admit_prepared.                                                         *)
AdmitText(w) ==
    /\ job[w].stage = "admitting"
    /\ AdmitObsolete(w) \/ AdmitSkip(w) \/ AdmitAnalysis(w)
    /\ UNCHANGED <<sourceVars, template, authorityVars, activated, dispatchVars>>

Execute(w) ==
    /\ job[w].stage = "executing"
    /\ \E result \in Results :
          job' = [job EXCEPT ![w].stage = "completing", ![w].result = result]
    /\ UNCHANGED <<sourceVars, text, template, authorityVars, activated, dispatchVars>>

(* complete: the streak is read, and the analysis evaluated and committed  *)
(* with capture, outside the authority locks.                              *)
CompleteAsk(w) ==
    /\ job[w].stage = "completing"
    /\ LET q == job[w].at
           s == Home[q]
       IN  IF Current(w)
             THEN job' = [job EXCEPT
                    ![w].stage = "committing",
                    ![w].confirmed = text[q].confirmed,
                    ![w].refusal = IF text[q].stopped # None THEN text[q].stopped
                                   ELSE IF captureEnd[s] = "lost" THEN "TargetLost"
                                   ELSE IF captureEnd[s] = "closed" THEN "SessionClosed"
                                   ELSE None]
             ELSE GoTo(w, "leaving")
    /\ UNCHANGED <<sourceVars, text, template, authorityVars, activated, dispatchVars>>

(* The end that prevails: the session's or the scheduler's; then what      *)
(* capture refused, over an interruption seen before; then an interruption *)
(* seen now, if only an interruption stands against it.                    *)
Prevailing(q, refusal) ==
    LET known == Authority(q)
        first == IF known \in Yielding /\ refusal # None THEN refusal ELSE known
    IN  IF first \in Yielding /\ text[q].stopped # None THEN text[q].stopped ELSE first

(* Mutant of Concluded: a result without the text leaves the streak.        *)
ConcludedKeepingStreak(q, f, result, confirmed) ==
    LET landed == [Counted(text[q], "Completed", 1) EXCEPT
                      !.execution = NoExecution, !.accepted = f,
                      !.previous = q \in Skipping]
        streak == confirmed \cup {f}
    IN  CASE result = "error" ->
                 Ended([Counted(text[q], "Failed", 1) EXCEPT
                           !.execution = NoExecution], "Failed")
          [] result = "empty" -> [landed EXCEPT !.empties = @ \cup {f}]
          [] result = "found" /\ Cardinality(streak) < Required[q] ->
                 [landed EXCEPT !.confirmed = streak]
          [] result = "found" /\ Cardinality(streak) >= Required[q] ->
                 Ended([landed EXCEPT !.confirmed = streak], "Matched")

(* The result of an analysis enters the query.                             *)
Concluded(q, f, result, confirmed) ==
    LET landed == [Counted(text[q], "Completed", 1) EXCEPT
                      !.execution = NoExecution, !.accepted = f,
                      !.previous = q \in Skipping]
        streak == confirmed \cup {f}
    IN  CASE result = "error" ->
                 Ended([Counted(text[q], "Failed", 1) EXCEPT
                           !.execution = NoExecution], "Failed")
          [] result = "empty" ->
                 [landed EXCEPT !.confirmed = {}, !.empties = @ \cup {f}]
          [] result = "found" /\ Cardinality(streak) < Required[q] ->
                 [landed EXCEPT !.confirmed = streak]
          [] result = "found" /\ Cardinality(streak) >= Required[q] ->
                 Ended([landed EXCEPT !.confirmed = streak], "Matched")

(* Under the authority locks, for the execution that still is the query's. *)
CompleteCommit(w) ==
    /\ job[w].stage = "committing"
    /\ LET q == job[w].at
           ended == Prevailing(q, job[w].refusal)
       IN  /\ text' = IF ~Current(w) THEN text
                      ELSE IF ended # None THEN [text EXCEPT ![q] = Ended(@, ended)]
                      ELSE [text EXCEPT ![q] =
                              Concluded(q, job[w].frame, job[w].result, job[w].confirmed)]
           /\ GoTo(w, IF ~Current(w) \/ text'[q].terminal # None
                        THEN "leaving" ELSE "settling")
    /\ UNCHANGED <<sourceVars, template, authorityVars, activated, dispatchVars>>

(* The sweep that follows a skip or a result.                              *)
Settle(w) ==
    /\ job[w].stage = "settling"
    /\ text' = Swept(job[w].at)
    /\ GoTo(w, "leaving")
    /\ UNCHANGED <<sourceVars, template, authorityVars, activated, dispatchVars>>

(* The physical lease is dropped: first the query's and the session's      *)
(* count, then the scheduler's, then the session may leave the registry.   *)
LeaveQuery(w) ==
    /\ job[w].stage = "leaving"
    /\ text' = [text EXCEPT ![job[w].at].physical = FALSE]
    /\ GoTo(w, "left")
    /\ UNCHANGED <<sourceVars, template, authorityVars, activated, dispatchVars>>

LeaveScheduler(w) ==
    /\ job[w].stage = "left"
    /\ dispatch' = [dispatch EXCEPT !.mapping = FALSE, !.worker = None]
    /\ barrier' = dispatch.turn
    /\ GoTo(w, "gone")
    /\ UNCHANGED <<sourceVars, text, template, authorityVars, activated, textCursor>>

(* Mutant of LeaveSession: the session is left to the release of its slots. *)
LeaveSessionThere(w) ==
    /\ job[w].stage = "gone"
    /\ Idle(w)
    /\ UNCHANGED <<sourceVars, text, template, authorityVars, activated, dispatchVars>>

LeaveSession(w) ==
    /\ job[w].stage = "gone"
    /\ activated' = Deactivated(Home[job[w].at], text, template)
    /\ Idle(w)
    /\ UNCHANGED <<sourceVars, text, template, authorityVars, dispatchVars>>

-----------------------------------------------------------------------------
Work(w) ==
    \/ NextDispatch(w) \/ Decide(w)
    \/ \E q \in Texts : Scan(w, q)
    \/ TakeTemplate(w) \/ TakeNothing(w) \/ MapReturns(w) \/ TemplateDone(w)
    \/ ProcessText(w) \/ Prepare(w) \/ Compare(w) \/ AdmitText(w) \/ Execute(w)
    \/ CompleteAsk(w) \/ CompleteCommit(w) \/ Settle(w)
    \/ LeaveQuery(w) \/ LeaveScheduler(w) \/ LeaveSession(w)

Publish(s) ==
    \/ PublishEnd(s)
    \/ \E q \in QueriesOf(s) \cap Texts : EnqueueText(q)
    \/ \E t \in QueriesOf(s) \cap Templates : EnqueueTemplate(t)

Next ==
    \/ \E w \in Workers : Work(w)
    \/ \E s \in Sessions :
          \/ PublishBegin(s) \/ Publish(s) \/ SourceEnds(s)
          \/ \E kind \in {"lost", "closed"} : CaptureEnds(s, kind)
          \/ \E outcome \in {"SessionClosed", "SchedulerClosed"} :
                CloseSession(s, outcome)
    \/ \E q \in Texts :
          \/ \E outcome \in {"Cancelled", "DeadlineExceeded"} : Interrupt(q, outcome)
          \/ Cancel(q) \/ Sweep(q) \/ Expire(q) \/ RateElapses(q)
          \/ AfterTerminal(q) \/ CloseText(q)
    \/ \E t \in Templates : EndTemplate(t) \/ CloseTemplate(t)
    \/ CloseScheduler

Spec == Init /\ [][Next]_vars

(* The threads run on, the matcher and the recognizer return, the clock    *)
(* runs, and a closed scheduler closes its sessions.                       *)
Fairness ==
    /\ \A w \in Workers : WF_vars(Work(w))
    /\ \A s \in Sessions : /\ WF_vars(Publish(s)) /\ WF_vars(SourceEnds(s))
                           /\ WF_vars(CloseSession(s, "SchedulerClosed"))
    /\ \A q \in Texts : /\ WF_vars(Sweep(q)) /\ WF_vars(RateElapses(q))
                        /\ WF_vars(AfterTerminal(q)) /\ WF_vars(CloseText(q))
    /\ \A t \in Templates : WF_vars(CloseTemplate(t))

FairSpec == Spec /\ Fairness

-----------------------------------------------------------------------------
(* Properties.                                                             *)

TextType ==
    [terminal : Outcomes \cup {None},
     stopped : Yielding, released : BOOLEAN,
     source : FramesOrNone, accepted : FramesOrNone, pending : FramesOrNone,
     deferred : BOOLEAN, cooling : BOOLEAN, generation : Nat,
     execution : [generation : Nat, frame : FramesOrNone], physical : BOOLEAN,
     previous : BOOLEAN, confirmed : SUBSET Nat, empties : SUBSET Nat,
     taken : Nat, work : [Dispositions -> Nat]]

LeaseStages == {"claimed", "preparing", "prepared", "admitting", "executing",
                "completing", "committing", "settling", "leaving", "left"}

JobType ==
    [stage : LeaseStages \cup {"idle", "scan", "template", "mapping", "analysing", "gone"},
     fence : Nat, cursor : Nat, cursors : [Sessions -> Nat],
     todo : SUBSET Texts, seen : SUBSET (Texts \X FramesOrNone),
     templates : BOOLEAN, at : AllQueries \cup {None},
     frame : FramesOrNone, generation : Nat, unchanged : BOOLEAN,
     confirmed : SUBSET Nat,
     result : {"none", "prepared", "empty", "found", "error"},
     refusal : Yielding \cup {"TargetLost", "SessionClosed"}]

DispatchType ==
    [mappings : Nat, turn : BOOLEAN, mapping : BOOLEAN, worker : Workers \cup {None},
     next : BOOLEAN, ready : BOOLEAN, cursor : Nat]

(* The state keeps its shape; a mapping counter released twice would leave *)
(* the naturals.                                                           *)
TypeOK ==
    /\ captureEnd \in [Sessions -> {"open", "lost", "closed"}]
    /\ published \in [Sessions -> FramesOrNone]
    /\ busy \subseteq Sessions /\ offering \subseteq AllQueries /\ publications \in Nat
    /\ text \in [Texts -> TextType]
    /\ template \in [Templates -> {"quiet", "pending", "ended"}]
    /\ authority \in [Sessions -> {None, "TargetLost", "SessionClosed", "SchedulerClosed"}]
    /\ sourceEnded \subseteq Sessions /\ schedulerClosed \in BOOLEAN
    /\ closing \subseteq AllQueries /\ activated \subseteq Sessions
    /\ dispatch \in DispatchType /\ barrier \in BOOLEAN
    /\ textCursor \in [Sessions -> Nat]
    /\ job \in [Workers -> JobType]

Leasing(w) == job[w].stage \in LeaseStages
Converting(w) == job[w].stage \in {"claimed", "preparing"}
MappingWorkers == {w \in Workers : job[w].stage = "mapping"}

(* No template mapping is under way while an OCR query converts its frame: *)
(* the mappings dispatched before the barrier have drained and none is     *)
(* dispatched behind it; the counter that says so is exact.                *)
MappingExclusion ==
    /\ dispatch.mappings = Cardinality(MappingWorkers)
    /\ (\E w \in Workers : Converting(w)) => MappingWorkers = {}

(* One lease: the worker the scheduler names is the only one with an OCR   *)
(* query, until it has given back the physical slot of that query, and a   *)
(* logical execution is never without the physical one.                    *)
LeaseMatches ==
    /\ \A w \in Workers : Leasing(w) <=> dispatch.worker = w
    /\ \A q \in Texts :
          /\ text[q].physical <=>
                \E w \in Workers : Leasing(w) /\ job[w].stage # "left" /\ job[w].at = q
          /\ Executing(text[q]) => text[q].physical

(* The barrier is up exactly for a turn given and not taken, or for a      *)
(* conversion, and a turn is never given while the lease is out: no return *)
(* of the lease, failed conversion or withdrawn turn leaves it up.         *)
BarrierExact ==
    /\ barrier <=> dispatch.turn \/ dispatch.mapping
    /\ dispatch.turn => dispatch.worker = None
    /\ dispatch.mapping => \E w \in Workers : Converting(w) \/ job[w].stage \in {"leaving", "left"}

(* The lease protocol of DispatchState, the barrier and the physical slot. *)
LeaseIsSound == TypeOK /\ MappingExclusion /\ LeaseMatches /\ BarrierExact

(* A query that just had its turn does not have the next one while another *)
(* of the scan may have it, whatever the workers did since the scan.       *)
TurnsRotate ==
    [][\A w \in Workers : job[w].stage = "scan" /\ job'[w].stage = "claimed" =>
          \A x \in job[w].seen :
             Claimable(x) /\ x[1] # job'[w].at =>
                PrecedesBy(dispatch.cursor, textCursor, job'[w].at, x[1])]_vars

(* Every frame a query took has ended in one way or is its pending one or  *)
(* the one under analysis.  QueueExpired is counted besides Superseded.    *)
TextFramesAccounted ==
    \A q \in Texts :
        LET d == text[q] IN
        /\ d.taken = (IF d.pending # 0 THEN 1 ELSE 0) + (IF Executing(d) THEN 1 ELSE 0)
                       + d.work["Completed"] + d.work["Failed"]
                       + d.work["Superseded"] + d.work["SkippedChange"]
        /\ d.work["QueueExpired"] = IF d.terminal = "Overloaded" THEN 1 ELSE 0

(* A match rests on as many distinct positive frames as asked for, of one  *)
(* epoch and geometry revision, and without a negative one in between.     *)
MatchedIsStable ==
    \A q \in Texts : text[q].terminal = "Matched" =>
        LET d == text[q] IN
        /\ Cardinality(d.confirmed) >= Required[q]
        /\ \A f \in d.confirmed : View[f] = View[d.source]
        /\ \A e \in d.empties : ~ \E f, g \in d.confirmed : f < e /\ e < g

(* What an OCR query counts and what it matched on, when it ends.          *)
TextEndsSound == TextFramesAccounted /\ MatchedIsStable

(* Session authority precedes scheduler shutdown; for an open query a      *)
(* cancellation precedes a deadline, and both an overload, a failure and a *)
(* match.                                                                  *)
TerminalPrecedence ==
    [][\A q \in Texts : Live(q) /\ text'[q].terminal # None =>
          LET outcome == text'[q].terminal
              recorded == authority[Home[q]]
          IN  /\ recorded # None => outcome = recorded
              /\ recorded = None /\ schedulerClosed => outcome = "SchedulerClosed"
              /\ recorded = None /\ ~schedulerClosed /\ text[q].stopped # None =>
                    outcome \notin {"Overloaded", "Failed", "Matched"}
              /\ recorded = None /\ ~schedulerClosed /\ text[q].stopped = "Cancelled" =>
                    outcome # "DeadlineExceeded"]_vars

(* What capture refused when it was asked ends the query, even if the      *)
(* query is cancelled before that is recorded.                             *)
RefusalStands ==
    [][\A w \in Workers :
          /\ job[w].stage = "committing" /\ job'[w].stage # "committing"
          /\ Current(w) /\ job[w].refusal \notin Yielding
          /\ authority[Home[job[w].at]] = None /\ ~schedulerClosed
          => text'[job[w].at].terminal = job[w].refusal]_vars

(* Which of several ends that race is recorded (terminal_outcome, the      *)
(* arbitration of an answer).                                              *)
EndsInOrder == TerminalPrecedence /\ RefusalStands

(* A pending frame of an OCR query is served, replaced or given up.        *)
TextServed ==
    \A q \in Texts : \A f \in 1..MaxFrame :
        (Live(q) /\ text[q].pending = f) ~> ~(Live(q) /\ text[q].pending = f)

(* So is a template's, whatever the OCR queries do.                        *)
TemplateServed == \A t \in Templates : Candidate(t) ~> ~Candidate(t)

(* Neither kind of work keeps the other from the workers, behind the       *)
(* mapping barrier or in front of it.                                      *)
WorkIsServed == TextServed /\ TemplateServed

(* A session without queries leaves the registry, be it the last query or  *)
(* the last physical analysis that goes last.                              *)
SessionLeaves ==
    \A s \in Sessions :
        (/\ \A q \in Texts : Home[q] = s => text[q].released
         /\ \A t \in Templates : Home[t] = s => template[t] = "ended") ~> s \notin activated

=============================================================================
