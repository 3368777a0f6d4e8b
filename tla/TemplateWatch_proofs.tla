------------------------ MODULE TemplateWatch_proofs ------------------------
(***************************************************************************)
(* Proofs about the template queries of a session, for any queries,        *)
(* workers and frames: their frames are accounted for, each piece of work  *)
(* is in the hands of one worker, a match rests on the streak it needs,    *)
(* the recorded end of the session decides how a query ends, and nothing   *)
(* matches that did not ask capture before it ended.                       *)
(***************************************************************************)
EXTENDS TemplateWatch, FiniteSetTheorems, TLAPS

(* The stages in which a worker holds the claims of its queries.           *)
Claiming == {"mapping", "failing", "releasing", "admitting"}

Claims(w, q) == job[w].stage \in Claiming /\ q \in job[w].todo

Analyses(w, q) ==
    \/ job[w].stage = "admitting" /\ q \in job[w].joined
    \/ job[w].stage \in {"analysing", "completing"} /\ q \in job[w].todo

(* What a query holds, and how its frames ended.                           *)
Lives(d) == d.registered /\ d.terminal = None

Fresh(d) ==
    ~d.registered => /\ d.terminal = None /\ d.pending = 0 /\ d.processing = 0
                     /\ d.inFlight = NoFlight

Ordered(d) ==
    Lives(d) =>
        /\ d.pending \in {0, d.source}
        /\ d.processing <= d.pending
        /\ InFlight(d) => d.last < d.inFlight.frame /\ d.inFlight.frame <= d.source
        /\ d.pending # 0 => d.last < d.pending
        /\ InFlight(d) /\ d.pending # 0 => d.inFlight.frame < d.pending
        /\ InFlight(d) => View[d.inFlight.frame] = View[d.source]
        /\ InFlight(d) => d.processing = 0

Streak(d) ==
    /\ d.last <= d.source
    /\ \A f \in d.confirmed : f <= d.last /\ View[f] = View[d.source]
    /\ \A e \in d.empties : e <= d.last /\ \A f \in d.confirmed : e < f

Total(d) == d.work["Completed"] + d.work["Failed"] + d.work["Superseded"]
                + d.work["SkippedChange"] + d.work["QueueExpired"]

Accounted(d) == d.accepted = (IF Lives(d) THEN Outstanding(d) ELSE 0) + Total(d)

Sound(d) == Fresh(d) /\ Ordered(d) /\ Streak(d) /\ Accounted(d)

Stable(q) == query[q].terminal = "Matched" => Cardinality(query[q].confirmed) >= Required[q]

(* What no step takes back.                                                *)
Follows(d, e) ==
    /\ d.registered => e.registered
    /\ d.terminal # None => e.terminal # None
    /\ d.stopped => e.stopped
    /\ d.generation <= e.generation

(* What a worker has in its hands.                                         *)
WorkerInv(w) ==
    LET j == job[w] IN
    /\ j.stage # "idle" => j.frame # 0 /\ j.generation # 0
    /\ j.stage # "admitting" => j.joined = {}
    /\ \A q \in j.todo \cup j.joined : query[q].registered
    /\ j.stage = "picked" => j.at # None
    /\ j.at # None => j.stage \in {"picked", "completing"} /\ j.at \in j.todo
    /\ j.stage = "completing" => j.result # "none"
    /\ \A q \in Queries : Claims(w, q) /\ Live(q) =>
          query[q].processing = j.frame /\ query[q].generation + 1 = j.generation
    /\ \A q \in Queries : Analyses(w, q) => j.generation <= query[q].generation

(* Two workers never work for the same query.                              *)
PairInv ==
    \A q \in Queries, w, v \in Workers : w # v =>
        /\ ~(Claims(w, q) /\ Claims(v, q) /\ Live(q))
        /\ Analyses(w, q) /\ Analyses(v, q) => job[w].generation # job[v].generation

(* What a query holds is in the hands of a worker.                         *)
FoundInv ==
    \A q \in Queries : Live(q) =>
        /\ query[q].processing # 0 => \E w \in Workers : Claims(w, q)
        /\ InFlight(query[q]) /\ ~query[q].stopped =>
              \E w \in Workers : Analyses(w, q) /\ Holds(w, q)

EndInv == /\ closing # {} => closed
          /\ closed => authority # None

QueriesSound ==
    /\ query \in [Queries -> QueryType]
    /\ \A q \in Queries : Sound(query[q]) /\ Stable(q)

WorkersSound ==
    /\ job \in [Workers -> JobType]
    /\ \A w \in Workers : WorkerInv(w)
    /\ PairInv /\ FoundInv

WatchInv == SessionType /\ EndInv /\ QueriesSound /\ WorkersSound

USE WatchAssumption
USE DEF captureVars, publicationVars, authorityVars, enderVars, Frames, FramesOrNone

-----------------------------------------------------------------------------
(* What happens to the record of one query.                                *)

(* Sums regrouped, for the account of the frames.                          *)
LEMMA SumMoves ==
    ASSUME NEW x \in Nat, NEW y \in Nat, NEW z \in Nat, NEW n \in Nat,
           x + n = y + 1
    PROVE  (y + z) + 1 = x + (z + n)
OBVIOUS

LEMMA SumFlat ==
    ASSUME NEW a \in Nat, NEW b \in Nat, NEW c \in Nat, NEW e \in Nat,
           NEW g \in Nat, NEW n \in Nat
    PROVE  n + (a + b + c + e + g) = n + a + b + c + e + g
OBVIOUS

LEMMA RecordTypes ==
    ASSUME NEW d \in QueryType
    PROVE  /\ d.pending \in FramesOrNone /\ d.processing \in FramesOrNone
           /\ d.source \in FramesOrNone /\ d.last \in FramesOrNone
           /\ d.inFlight \in [generation : Nat, frame : FramesOrNone]
           /\ d.generation \in Nat /\ d.accepted \in Nat /\ d.work \in [Dispositions -> Nat]
           /\ d.confirmed \subseteq Frames /\ d.empties \subseteq Frames
           /\ d.registered \in BOOLEAN /\ d.stopped \in BOOLEAN /\ d.mapped \in BOOLEAN
           /\ 0 \in FramesOrNone /\ NoFlight \in [generation : Nat, frame : FramesOrNone]
           /\ Outstanding(d) \in Nat
BY DEF QueryType, NoFlight, Outstanding

LEMMA CountedRecord ==
    ASSUME NEW d \in QueryType, NEW k \in Dispositions, NEW n \in Nat
    PROVE  /\ Counted(d, k, n) \in QueryType
           /\ Total(Counted(d, k, n)) = Total(d) + n /\ Total(d) \in Nat
           /\ \E work \in [Dispositions -> Nat] : Counted(d, k, n) = [d EXCEPT !.work = work]
<1> DEFINE work == [d.work EXCEPT ![k] = @ + n]
<1>1. d.work \in [Dispositions -> Nat]
  BY RecordTypes
<1>2. work \in [Dispositions -> Nat]
  BY <1>1
<1>3. Counted(d, k, n) = [d EXCEPT !.work = work]
  BY DEF Counted
<1>4. Counted(d, k, n).work = work
  BY <1>3 DEF QueryType
<1>5. Total(d) \in Nat
  BY <1>1 DEF Total, Dispositions
<1>6. Total(Counted(d, k, n)) = Total(d) + n
  <2>1. /\ \A j \in Dispositions : d.work[j] \in Nat
        /\ \A j \in Dispositions : work[j] = IF j = k THEN d.work[j] + n ELSE d.work[j]
    BY <1>1
  <2> HIDE DEF work
  <2> DEFINE c == d.work["Completed"]
             f == d.work["Failed"]
             s == d.work["Superseded"]
             p == d.work["SkippedChange"]
             x == d.work["QueueExpired"]
  <2>2. c \in Nat /\ f \in Nat /\ s \in Nat /\ p \in Nat /\ x \in Nat
    BY <2>1 DEF Dispositions
  <2>3. Total(Counted(d, k, n)) =
           (IF k = "Completed" THEN c + n ELSE c) + (IF k = "Failed" THEN f + n ELSE f)
              + (IF k = "Superseded" THEN s + n ELSE s)
              + (IF k = "SkippedChange" THEN p + n ELSE p)
              + (IF k = "QueueExpired" THEN x + n ELSE x)
    BY <1>4, <2>1 DEF Total, Dispositions
  <2>4. Total(d) = c + f + s + p + x
    BY DEF Total
  <2> HIDE DEF c, f, s, p, x
  <2> QED BY <2>2, <2>3, <2>4 DEF Dispositions
<1> HIDE DEF work
<1>7. [d EXCEPT !.work = work] \in QueryType
  BY <1>2 DEF QueryType
<1> QED BY <1>2, <1>3, <1>5, <1>6, <1>7

LEMMA TotalType == ASSUME NEW d \in QueryType PROVE Total(d) \in Nat
<1>1. "Completed" \in Dispositions
  BY DEF Dispositions
<1> QED BY <1>1, CountedRecord

(* A query ends: what it holds is superseded.                              *)
LEMMA EndedRecord ==
    ASSUME NEW d \in QueryType, NEW o \in Outcomes
    PROVE  /\ Ended(d, o) \in QueryType
           /\ Ended(d, o).terminal = o
           /\ Total(Ended(d, o)) = Total(d) + Outstanding(d)
           /\ \E work \in [Dispositions -> Nat], p \in FramesOrNone :
                 Ended(d, o) = [d EXCEPT !.work = work, !.pending = 0, !.processing = p,
                                         !.inFlight = NoFlight, !.terminal = o]
<1> DEFINE n == Outstanding(d)
           c == Counted(d, "Superseded", n)
           p == IF d.pending # 0 THEN c.processing ELSE 0
           e == [c EXCEPT !.pending = 0, !.processing = p, !.inFlight = NoFlight]
<1>1. "Superseded" \in Dispositions /\ n \in Nat
  BY RecordTypes DEF Dispositions
<1>2. c \in QueryType /\ Total(c) = Total(d) + n
  BY <1>1, CountedRecord
<1>3. PICK work \in [Dispositions -> Nat] : c = [d EXCEPT !.work = work]
  BY <1>1, CountedRecord
<1>4. p \in FramesOrNone
  BY <1>2, RecordTypes
<1>5. Ended(d, o) = [e EXCEPT !.terminal = o]
  BY DEF Ended, Superseding
<1> HIDE DEF n, c, p
<1>6. e \in QueryType /\ e.work = c.work
  BY <1>2, <1>4, RecordTypes DEF QueryType
<1>7. e = [d EXCEPT !.work = work, !.pending = 0, !.processing = p, !.inFlight = NoFlight]
  BY <1>3 DEF QueryType
<1> HIDE DEF e
<1>8. [e EXCEPT !.terminal = o] \in QueryType
  BY <1>6 DEF QueryType
<1>9. [e EXCEPT !.terminal = o].terminal = o /\ [e EXCEPT !.terminal = o].work = c.work
  BY <1>6 DEF QueryType
<1>10. Total(Ended(d, o)) = Total(d) + n
  BY <1>2, <1>5, <1>9 DEF Total
<1>11. [e EXCEPT !.terminal = o] =
          [d EXCEPT !.work = work, !.pending = 0, !.processing = p,
                    !.inFlight = NoFlight, !.terminal = o]
  BY <1>7 DEF QueryType
<1> QED BY <1>3, <1>4, <1>5, <1>8, <1>9, <1>10, <1>11 DEF n

-----------------------------------------------------------------------------
(* A sound record stays sound.                                             *)

LEMMA EndedSound ==
    ASSUME NEW d \in QueryType, Sound(d), Lives(d), NEW o \in Outcomes
    PROVE  /\ Ended(d, o) \in QueryType /\ Sound(Ended(d, o)) /\ Follows(d, Ended(d, o))
           /\ Ended(d, o).terminal = o /\ ~Lives(Ended(d, o))
           /\ Ended(d, o).confirmed = d.confirmed
<1>1. /\ Ended(d, o) \in QueryType /\ Ended(d, o).terminal = o
      /\ Total(Ended(d, o)) = Total(d) + Outstanding(d)
  BY EndedRecord
<1>2. PICK work \in [Dispositions -> Nat], p \in FramesOrNone :
         Ended(d, o) = [d EXCEPT !.work = work, !.pending = 0, !.processing = p,
                                 !.inFlight = NoFlight, !.terminal = o]
  BY EndedRecord
<1>3. /\ Ended(d, o).registered = d.registered /\ Ended(d, o).stopped = d.stopped
      /\ Ended(d, o).generation = d.generation /\ Ended(d, o).accepted = d.accepted
      /\ Ended(d, o).last = d.last /\ Ended(d, o).source = d.source
      /\ Ended(d, o).confirmed = d.confirmed /\ Ended(d, o).empties = d.empties
  BY <1>2 DEF QueryType
<1>4. ~Lives(Ended(d, o))
  BY <1>1 DEF Lives
<1>5. Accounted(Ended(d, o))
  <2>1. /\ d.accepted = Outstanding(d) + Total(d)
        /\ Outstanding(d) \in Nat /\ Total(d) \in Nat
    BY TotalType, RecordTypes DEF Sound, Accounted
  <2>2. Total(Ended(d, o)) = 0 + (Outstanding(d) + Total(d))
    BY <1>1, <2>1
  <2> QED BY <1>3, <1>4, <2>1, <2>2 DEF Accounted
<1>6. Fresh(Ended(d, o)) /\ Ordered(Ended(d, o)) /\ Streak(Ended(d, o))
  BY <1>3, <1>4 DEF Sound, Lives, Fresh, Ordered, Streak
<1>7. Follows(d, Ended(d, o))
  BY <1>1, <1>3, RecordTypes DEF Follows
<1> QED BY <1>1, <1>3, <1>4, <1>5, <1>6, <1>7 DEF Sound

(* The pending frame is counted as ended, and the query with it.           *)
GivenUp(d, k, o) == Ended([Counted(d, k, 1) EXCEPT !.pending = 0, !.processing = 0], o)

LEMMA GivenUpSound ==
    ASSUME NEW d \in QueryType, Sound(d), Lives(d), d.pending # 0,
           NEW k \in Dispositions, NEW o \in Outcomes
    PROVE  LET e == GivenUp(d, k, o)
           IN  /\ e \in QueryType /\ Sound(e) /\ Follows(d, e)
               /\ e.terminal = o /\ ~Lives(e) /\ e.confirmed = d.confirmed
<1> DEFINE c == Counted(d, k, 1)
           g == [c EXCEPT !.pending = 0, !.processing = 0]
<1>1. c \in QueryType /\ Total(c) = Total(d) + 1 /\ Total(d) \in Nat
  BY CountedRecord
<1>2. PICK work \in [Dispositions -> Nat] : c = [d EXCEPT !.work = work]
  BY CountedRecord
<1> HIDE DEF c
<1>3. g = [d EXCEPT !.work = work, !.pending = 0, !.processing = 0] /\ g.work = c.work
  BY <1>1, <1>2 DEF QueryType
<1>4. [d EXCEPT !.work = work, !.pending = 0, !.processing = 0] \in QueryType
  BY RecordTypes DEF QueryType
<1>5. g \in QueryType
  BY <1>3, <1>4
<1>6. /\ g.registered = d.registered /\ g.stopped = d.stopped /\ g.terminal = d.terminal
      /\ g.generation = d.generation /\ g.accepted = d.accepted
      /\ g.last = d.last /\ g.source = d.source /\ g.inFlight = d.inFlight
      /\ g.confirmed = d.confirmed /\ g.empties = d.empties
      /\ g.pending = 0 /\ g.processing = 0
  BY <1>3 DEF QueryType
<1> HIDE DEF g
<1>7. Total(g) = Total(d) + 1
  BY <1>1, <1>3 DEF Total
<1>8. Outstanding(d) = Outstanding(g) + 1
  BY <1>6 DEF Outstanding, InFlight
<1>9. Accounted(g)
  <2>1. /\ d.accepted = Outstanding(d) + Total(d)
        /\ Outstanding(g) \in Nat /\ Total(d) \in Nat
    BY <1>1, <1>5, RecordTypes DEF Sound, Accounted
  <2>2. d.accepted = Outstanding(g) + Total(g)
    BY <1>7, <1>8, <2>1
  <2> QED BY <1>6, <2>2 DEF Accounted, Lives
<1>10. Fresh(g) /\ Ordered(g) /\ Streak(g) /\ Lives(g)
  BY <1>6, RecordTypes DEF Sound, Fresh, Ordered, Streak, Lives, InFlight
<1>11. Sound(g)
  BY <1>9, <1>10 DEF Sound
<1>12. /\ Ended(g, o) \in QueryType /\ Sound(Ended(g, o)) /\ Follows(g, Ended(g, o))
       /\ Ended(g, o).terminal = o /\ ~Lives(Ended(g, o))
       /\ Ended(g, o).confirmed = g.confirmed
  BY <1>5, <1>10, <1>11, EndedSound
<1>13. Follows(d, Ended(g, o))
  BY <1>6, <1>12 DEF Follows
<1> QED BY <1>6, <1>12, <1>13 DEF g, c, GivenUp

(* Fields that the invariant does not look at, or only through Lives.      *)
LEMMA PlainSound ==
    ASSUME NEW d \in QueryType, Sound(d)
    PROVE  /\ LET e == [d EXCEPT !.stopped = TRUE]
              IN  e \in QueryType /\ Sound(e) /\ Follows(d, e)
           /\ \A r \in {"none", "held", "due"} :
                 LET e == [d EXCEPT !.rate = r]
                 IN  e \in QueryType /\ Sound(e) /\ Follows(d, e)
           /\ ~d.registered =>
                 LET e == [d EXCEPT !.registered = TRUE]
                 IN  e \in QueryType /\ Sound(e) /\ Follows(d, e)
<1>1. [d EXCEPT !.stopped = TRUE] \in QueryType /\ [d EXCEPT !.registered = TRUE] \in QueryType
  BY DEF QueryType
<1>2. \A r \in {"none", "held", "due"} : [d EXCEPT !.rate = r] \in QueryType
  BY DEF QueryType
<1>3. ASSUME NEW r \in {"none", "held", "due"},
             NEW e, e \in {[d EXCEPT !.stopped = TRUE], [d EXCEPT !.rate = r]}
      PROVE  Sound(e) /\ Follows(d, e)
  <2>1. /\ e.registered = d.registered /\ e.terminal = d.terminal
        /\ e.pending = d.pending /\ e.processing = d.processing /\ e.inFlight = d.inFlight
        /\ e.source = d.source /\ e.last = d.last /\ e.work = d.work
        /\ e.confirmed = d.confirmed /\ e.empties = d.empties /\ e.accepted = d.accepted
        /\ e.generation = d.generation /\ (d.stopped => e.stopped)
    BY <1>3 DEF QueryType
  <2>2. Sound(e)
    BY <2>1 DEF Sound, Fresh, Ordered, Streak, Accounted, Lives, InFlight, Outstanding, Total
  <2> QED BY <2>1, <2>2, RecordTypes DEF Follows
<1>4. ASSUME ~d.registered, NEW e, e = [d EXCEPT !.registered = TRUE]
      PROVE  Sound(e) /\ Follows(d, e)
  <2>1. /\ e.registered /\ e.terminal = d.terminal
        /\ e.pending = d.pending /\ e.processing = d.processing /\ e.inFlight = d.inFlight
        /\ e.source = d.source /\ e.last = d.last /\ e.work = d.work
        /\ e.confirmed = d.confirmed /\ e.empties = d.empties /\ e.accepted = d.accepted
        /\ e.generation = d.generation /\ e.stopped = d.stopped
    BY <1>4 DEF QueryType
  <2>2. d.pending = 0 /\ d.processing = 0 /\ ~InFlight(d) /\ ~Lives(d)
    BY <1>4 DEF Sound, Fresh, InFlight, Lives
  <2>3. Outstanding(e) = 0 /\ Total(e) = Total(d)
    BY <2>1, <2>2 DEF Outstanding, InFlight, Total
  <2>4. Sound(e)
    BY <2>1, <2>2, <2>3, RecordTypes DEF Sound, Fresh, Ordered, Streak, Accounted, InFlight
  <2> QED BY <2>1, <2>4, RecordTypes DEF Follows
<1> QED BY <1>1, <1>2, <1>3, <1>4

(* A claim, and its release: the pending frame is counted once.            *)
Claimed(d, f, r) == [d EXCEPT !.processing = f, !.rate = r]

LEMMA ClaimSound ==
    ASSUME NEW d \in QueryType, Sound(d), NEW f \in FramesOrNone,
           NEW r \in {"none", "held", "due"},
           f = 0 \/ (Lives(d) /\ ~InFlight(d) /\ d.pending = f)
    PROVE  LET e == Claimed(d, f, r)
           IN  e \in QueryType /\ Sound(e) /\ Follows(d, e) /\ e.processing = f
<1> DEFINE e == [d EXCEPT !.processing = f, !.rate = r]
<1>1. e \in QueryType
  BY DEF QueryType
<1>2. /\ e.registered = d.registered /\ e.terminal = d.terminal
      /\ e.pending = d.pending /\ e.processing = f /\ e.inFlight = d.inFlight
      /\ e.source = d.source /\ e.last = d.last /\ e.work = d.work
      /\ e.confirmed = d.confirmed /\ e.empties = d.empties /\ e.accepted = d.accepted
      /\ e.generation = d.generation /\ e.stopped = d.stopped
  BY DEF QueryType
<1> HIDE DEF e
<1>3. d.processing # 0 /\ Lives(d) => d.pending # 0
  BY RecordTypes DEF Sound, Ordered
<1>4. Lives(d) => Outstanding(e) = Outstanding(d)
  BY <1>2, <1>3 DEF Outstanding, InFlight
<1>5. Accounted(e)
  BY <1>2, <1>4 DEF Sound, Accounted, Lives, Total
<1>6. Ordered(e)
  BY <1>2, RecordTypes DEF Sound, Ordered, Lives, InFlight
<1>7. Fresh(e) /\ Streak(e) /\ Follows(d, e)
  BY <1>2, RecordTypes DEF Sound, Fresh, Streak, Lives, Follows
<1> QED BY <1>1, <1>2, <1>5, <1>6, <1>7 DEF Sound, e, Claimed

(* enqueue: what is dropped is counted, and what stays is older than the   *)
(* new frame and of its view.                                              *)
LEMMA EnqueuedSound ==
    ASSUME NEW d \in QueryType, Sound(d), Lives(d),
           published \in FramesOrNone, d.source < published
    PROVE  LET e == Enqueued(d)
           IN  /\ e \in QueryType /\ Sound(e) /\ Follows(d, e)
               /\ e.processing = d.processing /\ e.generation = d.generation
               /\ InFlight(e) => e.inFlight = d.inFlight
               /\ e.terminal = d.terminal
<1> DEFINE i == d.source # 0 /\ View[d.source] # View[published]
           n == (IF d.pending # 0 THEN 1 ELSE 0) + (IF i /\ InFlight(d) THEN 1 ELSE 0)
<1>1. "Superseded" \in Dispositions /\ n \in Nat
  BY DEF Dispositions
<1> HIDE DEF n
<1> DEFINE c == Counted(d, "Superseded", n)
           m == d.mapped /\ ~i
           s == IF i THEN {} ELSE d.confirmed
           l == IF i THEN NoFlight ELSE d.inFlight
           e == [c EXCEPT !.needsCurrent = FALSE, !.source = published,
                          !.pending = published, !.rate = "none", !.mapped = m,
                          !.confirmed = s, !.inFlight = l, !.accepted = d.accepted + 1]
<1>2. c \in QueryType /\ Total(c) = Total(d) + n
  BY <1>1, CountedRecord
<1>3. PICK work \in [Dispositions -> Nat] : c = [d EXCEPT !.work = work]
  BY <1>1, CountedRecord
<1>4. Enqueued(d) = e
  <2>1. c.mapped = d.mapped /\ c.confirmed = d.confirmed /\ c.inFlight = d.inFlight
        /\ c.accepted = d.accepted
    BY <1>3 DEF QueryType
  <2> HIDE DEF c
  <2>2. Enqueued(d) = [c EXCEPT !.needsCurrent = FALSE, !.source = published,
                          !.pending = published, !.rate = "none", !.mapped = @ /\ ~i,
                          !.confirmed = IF i THEN {} ELSE @,
                          !.inFlight = IF i THEN NoFlight ELSE @, !.accepted = @ + 1]
    BY DEF Enqueued, n, c
  <2> QED BY <2>1, <2>2
<1>5. published # 0 /\ published \in Frames
  BY RecordTypes
<1>6. /\ m \in BOOLEAN /\ s \subseteq Frames /\ d.accepted + 1 \in Nat
      /\ l \in [generation : Nat, frame : FramesOrNone]
  BY RecordTypes
<1> HIDE DEF c, m
<1>7. e \in QueryType
  <2> HIDE DEF s, l
  <2> QED BY <1>2, <1>6 DEF QueryType
<1>8. /\ e.registered = d.registered /\ e.stopped = d.stopped /\ e.terminal = d.terminal
      /\ e.generation = d.generation /\ e.accepted = d.accepted + 1
      /\ e.last = d.last /\ e.source = published /\ e.inFlight = l
      /\ e.confirmed = s /\ e.empties = d.empties
      /\ e.pending = published /\ e.processing = d.processing
  <2> HIDE DEF s, l
  <2> QED BY <1>3 DEF QueryType
<1>9. Total(e) = Total(d) + n
  <2>1. e.work = c.work
    BY <1>2 DEF QueryType
  <2> HIDE DEF e
  <2> QED BY <1>2, <2>1 DEF Total
<1> HIDE DEF e
<1>10. d.processing # 0 => d.pending # 0
  BY RecordTypes DEF Sound, Ordered
<1>11. Outstanding(e) + n = Outstanding(d) + 1
  BY <1>5, <1>8, <1>10 DEF Outstanding, InFlight, n
<1>12. Accounted(e)
  <2>1. /\ d.accepted = Outstanding(d) + Total(d)
        /\ Outstanding(d) \in Nat /\ Outstanding(e) \in Nat /\ Total(d) \in Nat
    BY <1>7, RecordTypes, TotalType DEF Sound, Accounted
  <2>2. d.accepted + 1 = Outstanding(e) + (Total(d) + n)
    <3> DEFINE x == Outstanding(e)
               y == Outstanding(d)
               z == Total(d)
    <3>1. x \in Nat /\ y \in Nat /\ z \in Nat /\ n \in Nat /\ d.accepted = y + z
      BY <1>1, <2>1
    <3>2. x + n = y + 1
      BY <1>11
    <3> HIDE DEF x, y, z
    <3>3. d.accepted + 1 = x + (z + n)
      BY <3>1, <3>2, SumMoves
    <3> QED BY <3>3 DEF x, y, z
  <2> QED BY <1>8, <1>9, <2>2 DEF Accounted, Lives
<1>13. Ordered(e)
  <2>1. InFlight(e) => InFlight(d) /\ l = d.inFlight /\ ~i
    BY <1>8 DEF InFlight
  <2>2. InFlight(e) => View[e.inFlight.frame] = View[e.source]
    <3> SUFFICES ASSUME InFlight(e) PROVE View[e.inFlight.frame] = View[e.source]
      OBVIOUS
    <3>1. d.source # 0
      BY <2>1, RecordTypes DEF Sound, Ordered
    <3>2. View[d.inFlight.frame] = View[d.source]
      BY <2>1 DEF Sound, Ordered
    <3> QED BY <1>8, <2>1, <3>1, <3>2
  <2>3. d.processing <= published /\ d.last < published
    <3>1. /\ d.processing <= d.pending /\ d.pending \in {0, d.source} /\ d.last <= d.source
          /\ d.source < published /\ d.source \in Nat /\ d.last \in Nat
          /\ d.processing \in Nat /\ published \in Nat
      BY RecordTypes DEF Sound, Ordered, Streak
    <3> HIDE DEF Sound
    <3> QED BY <3>1
  <2>4. InFlight(e) => /\ e.last < e.inFlight.frame /\ e.inFlight.frame <= e.source
                       /\ e.inFlight.frame < e.pending /\ e.processing = 0
    BY <1>8, <2>1, RecordTypes DEF Sound, Ordered
  <2> QED BY <1>8, <2>2, <2>3, <2>4 DEF Ordered
<1>14. Streak(e)
  <2>1. ASSUME NEW f \in s PROVE f <= d.last /\ View[f] = View[published]
    <3>1. ~i /\ f <= d.last /\ View[f] = View[d.source] /\ f \in Frames /\ d.last <= d.source
      BY RecordTypes DEF Sound, Streak
    <3>2. d.source # 0
      BY <3>1, RecordTypes
    <3> QED BY <3>1, <3>2
  <2>2. d.last <= published
    BY RecordTypes DEF Sound, Streak
  <2>3. \A x \in d.empties : x <= d.last /\ \A f \in s : x < f
    BY DEF Sound, Streak
  <2> QED BY <1>8, <2>1, <2>2, <2>3 DEF Streak
<1>15. Fresh(e) /\ Follows(d, e)
  BY <1>8, RecordTypes DEF Fresh, Follows, Lives
<1> QED BY <1>4, <1>7, <1>8, <1>12, <1>13, <1>14, <1>15 DEF Sound, InFlight

(* The mapped frame goes: skipped, or into an analysis.                    *)
Skipped(d) ==
    [Counted(d, "SkippedChange", 1) EXCEPT
        !.pending = 0, !.processing = 0, !.last = d.pending, !.rate = "none"]

LEMMA SkippedSound ==
    ASSUME NEW d \in QueryType, Sound(d), Lives(d), d.pending # 0,
           d.processing = d.pending, d.confirmed = {}
    PROVE  LET e == Skipped(d)
           IN  /\ e \in QueryType /\ Sound(e) /\ Follows(d, e)
               /\ e.processing = 0 /\ e.generation = d.generation
               /\ ~InFlight(e) /\ e.terminal = d.terminal
<1> DEFINE c == Counted(d, "SkippedChange", 1)
           e == [c EXCEPT !.pending = 0, !.processing = 0, !.last = d.pending, !.rate = "none"]
<1>1. "SkippedChange" \in Dispositions /\ 1 \in Nat
  BY DEF Dispositions
<1>2. c \in QueryType /\ Total(c) = Total(d) + 1 /\ Total(d) \in Nat
  BY <1>1, CountedRecord
<1>3. PICK work \in [Dispositions -> Nat] : c = [d EXCEPT !.work = work]
  BY <1>1, CountedRecord
<1> HIDE DEF c
<1>4. e \in QueryType
  BY <1>2, RecordTypes DEF QueryType
<1>5. /\ e.registered = d.registered /\ e.stopped = d.stopped /\ e.terminal = d.terminal
      /\ e.generation = d.generation /\ e.accepted = d.accepted
      /\ e.last = d.pending /\ e.source = d.source /\ e.inFlight = d.inFlight
      /\ e.confirmed = d.confirmed /\ e.empties = d.empties
      /\ e.pending = 0 /\ e.processing = 0 /\ e.work = c.work
  BY <1>3 DEF QueryType
<1> HIDE DEF e
<1>6. Total(e) = Total(d) + 1
  BY <1>2, <1>5 DEF Total
<1>7. ~InFlight(d) /\ ~InFlight(e)
  BY <1>5 DEF Sound, Ordered, InFlight
<1>8. Outstanding(d) = 1 /\ Outstanding(e) = 0
  BY <1>5, <1>7 DEF Outstanding
<1>9. Accounted(e)
  BY <1>2, <1>5, <1>6, <1>8 DEF Sound, Accounted, Lives
<1>10. Ordered(e) /\ Fresh(e)
  BY <1>5, <1>7, RecordTypes DEF Sound, Ordered, Fresh, Lives
<1>11. Streak(e)
  <2>1. d.last < d.pending /\ d.pending = d.source
    BY DEF Sound, Ordered
  <2>2. \A x \in d.empties : x <= d.pending
    BY <2>1, RecordTypes DEF Sound, Streak
  <2> QED BY <1>5, <2>1, <2>2, RecordTypes DEF Streak
<1>12. Follows(d, e)
  BY <1>5, RecordTypes DEF Follows
<1> QED BY <1>4, <1>5, <1>7, <1>9, <1>10, <1>11, <1>12 DEF Sound, e, c, Skipped

AdmittedFor(d) ==
    [d EXCEPT !.generation = @ + 1, !.rate = "none", !.pending = 0, !.processing = 0,
              !.inFlight = [generation |-> d.generation + 1, frame |-> d.pending]]

LEMMA AdmittedSound ==
    ASSUME NEW d \in QueryType, Sound(d), Lives(d), d.pending # 0,
           d.processing = d.pending
    PROVE  LET e == AdmittedFor(d)
           IN  /\ e \in QueryType /\ Sound(e) /\ Follows(d, e)
               /\ e.processing = 0 /\ e.generation = d.generation + 1
               /\ e.inFlight = [generation |-> d.generation + 1, frame |-> d.pending]
               /\ e.terminal = d.terminal
<1> DEFINE g == d.generation + 1
           i == [generation |-> g, frame |-> d.pending]
           e == [d EXCEPT !.generation = g, !.rate = "none",
                          !.pending = 0, !.processing = 0, !.inFlight = i]
<1>1. /\ g \in Nat /\ i \in [generation : Nat, frame : FramesOrNone]
      /\ i # NoFlight /\ i.frame = d.pending /\ g > d.generation
  BY RecordTypes DEF NoFlight
<1> HIDE DEF i, g
<1>2. e \in QueryType
  BY <1>1, RecordTypes DEF QueryType
<1>3. /\ e.registered = d.registered /\ e.stopped = d.stopped /\ e.terminal = d.terminal
      /\ e.generation = g /\ e.accepted = d.accepted
      /\ e.last = d.last /\ e.source = d.source /\ e.inFlight = i
      /\ e.confirmed = d.confirmed /\ e.empties = d.empties
      /\ e.pending = 0 /\ e.processing = 0 /\ e.work = d.work
  BY DEF QueryType
<1> HIDE DEF e
<1>4. ~InFlight(d) /\ InFlight(e)
  BY <1>1, <1>3 DEF Sound, Ordered, InFlight
<1>5. Outstanding(d) = 1 /\ Outstanding(e) = 1 /\ Total(e) = Total(d)
  BY <1>3, <1>4 DEF Outstanding, Total
<1>6. Accounted(e)
  BY <1>3, <1>5 DEF Sound, Accounted, Lives
<1>7. Ordered(e)
  BY <1>1, <1>3, RecordTypes DEF Sound, Ordered
<1>8. Fresh(e) /\ Streak(e) /\ Follows(d, e)
  BY <1>1, <1>3, RecordTypes DEF Sound, Streak, Fresh, Follows, Lives
<1> QED BY <1>1, <1>2, <1>3, <1>6, <1>7, <1>8 DEF Sound, e, g, i, AdmittedFor

(* complete: the result is counted, the streak grows by a newer frame or   *)
(* ends.                                                                   *)
Landed(d, k, m, s, x) ==
    [Counted([d EXCEPT !.inFlight = NoFlight, !.last = d.inFlight.frame], k, 1) EXCEPT
        !.mapped = m, !.confirmed = s, !.empties = x]

LEMMA LandedSound ==
    ASSUME NEW d \in QueryType, Sound(d), Lives(d), InFlight(d), NEW s, NEW x,
           \/ s = d.confirmed \cup {d.inFlight.frame} /\ x = d.empties
           \/ s = {} /\ x = d.empties \cup {d.inFlight.frame}
           \/ s = d.confirmed /\ x = d.empties,
           NEW m \in BOOLEAN, NEW k \in Dispositions
    PROVE  LET e == Landed(d, k, m, s, x)
           IN  /\ e \in QueryType /\ Sound(e) /\ Follows(d, e) /\ Lives(e)
               /\ e.processing = d.processing /\ e.generation = d.generation
               /\ ~InFlight(e) /\ e.confirmed = s
<1> DEFINE f == d.inFlight.frame
           a == [d EXCEPT !.inFlight = NoFlight, !.last = f]
           c == Counted(a, k, 1)
           e == [c EXCEPT !.mapped = m, !.confirmed = s, !.empties = x]
<1>1. /\ f \in Frames /\ d.last < f /\ f <= d.source /\ View[f] = View[d.source]
      /\ d.processing = 0 /\ (d.pending # 0 => f < d.pending)
  BY RecordTypes DEF Sound, Ordered
<1>2. s \subseteq Frames /\ x \subseteq Frames
  BY <1>1, RecordTypes
<1>3. a \in QueryType
  <2>1. f \in FramesOrNone /\ NoFlight \in [generation : Nat, frame : FramesOrNone]
    BY RecordTypes
  <2> HIDE DEF f
  <2> QED BY <2>1 DEF QueryType
<1>4. /\ a.inFlight = NoFlight /\ a.last = f /\ a.work = d.work
  BY DEF QueryType
<1> HIDE DEF f
<1>5. c \in QueryType /\ Total(c) = Total(a) + 1
  BY <1>3, CountedRecord
<1>6. PICK work \in [Dispositions -> Nat] : c = [a EXCEPT !.work = work]
  BY <1>3, CountedRecord
<1>7. Total(c) = Total(d) + 1
  BY <1>4, <1>5 DEF Total
<1> HIDE DEF c
<1>8. e \in QueryType
  BY <1>2, <1>5 DEF QueryType
<1>9. /\ e.registered = d.registered /\ e.stopped = d.stopped /\ e.terminal = d.terminal
      /\ e.generation = d.generation /\ e.accepted = d.accepted
      /\ e.last = f /\ e.source = d.source /\ e.inFlight = NoFlight
      /\ e.confirmed = s /\ e.empties = x
      /\ e.pending = d.pending /\ e.processing = d.processing /\ e.work = c.work
  BY <1>6 DEF QueryType
<1> HIDE DEF e, a
<1>10. Total(e) = Total(d) + 1
  BY <1>7, <1>9 DEF Total
<1>11. ~InFlight(e) /\ Lives(e)
  BY <1>9 DEF InFlight, Lives
<1>12. Outstanding(d) = Outstanding(e) + 1
  BY <1>1, <1>9, <1>11 DEF Outstanding
<1>13. Accounted(e)
  <2> DEFINE y == Outstanding(e)
             z == Total(d)
  <2>1. y \in Nat /\ z \in Nat
    BY <1>8, RecordTypes, TotalType
  <2>2. d.accepted = (y + 1) + z
    BY <1>12 DEF Sound, Accounted
  <2> HIDE DEF y, z
  <2>3. d.accepted = y + (z + 1)
    BY <2>1, <2>2
  <2> QED BY <1>9, <1>10, <1>11, <2>3 DEF Accounted, y, z
<1>14. Ordered(e) /\ Fresh(e)
  BY <1>1, <1>9, <1>11, RecordTypes DEF Sound, Ordered, Fresh, Lives
<1>15. Streak(e)
  <2>0. /\ d.last \in FramesOrNone /\ f \in Frames /\ d.last < f /\ View[f] = View[d.source]
        /\ \A y \in d.confirmed : y \in Frames /\ y <= d.last /\ View[y] = View[d.source]
        /\ \A y \in d.empties : /\ y \in Frames /\ y <= d.last
                                /\ \A z \in d.confirmed : y < z
    BY <1>1, RecordTypes DEF Sound, Streak
  <2>1. \A y \in d.confirmed \cup d.empties : y < f /\ y <= f
    BY <2>0
  <2>2. \A y \in s : y <= f /\ View[y] = View[d.source]
    BY <2>0, <2>1 DEF f
  <2>3. \A y \in x : y <= f /\ \A z \in s : y < z
    BY <2>0, <2>1 DEF f
  <2> QED BY <1>1, <1>9, <2>2, <2>3 DEF Streak
<1>16. Follows(d, e)
  BY <1>9, RecordTypes DEF Follows
<1> QED BY <1>8, <1>9, <1>11, <1>13, <1>14, <1>15, <1>16 DEF Sound, e, c, a, f, Landed

-----------------------------------------------------------------------------
(* What a step may do to a query without its workers noticing.             *)

LEMMA LiveIsLives == \A q \in Queries : Live(q) <=> Lives(query[q])
BY DEF Live, Lives

LEMMA JobTypes ==
    ASSUME WatchInv, NEW w \in Workers
    PROVE  /\ job[w].frame \in FramesOrNone /\ job[w].generation \in Nat
           /\ job[w].todo \subseteq Queries /\ job[w].joined \subseteq Queries
           /\ job[w] \in JobType /\ WorkerInv(w)
BY DEF WatchInv, WorkersSound, JobType

LEMMA JobsKept ==
    ASSUME WatchInv, QueriesSound', job' = job,
           \A q \in Queries : Follows(query[q], query'[q]),
           \A q \in Queries : Live(q)' =>
               \/ /\ Live(q)
                  /\ query'[q].processing = query[q].processing
                  /\ query'[q].generation = query[q].generation
                  /\ InFlight(query'[q]) => query'[q].inFlight = query[q].inFlight
               \/ /\ ~query[q].registered
                  /\ query'[q].processing = 0 /\ ~InFlight(query'[q])
    PROVE  WorkersSound'
<1>1. \A q \in Queries : /\ query[q].generation \in Nat /\ query'[q].generation \in Nat
                         /\ query[q].generation <= query'[q].generation
                         /\ query[q].registered => query'[q].registered
                         /\ query[q].stopped => query'[q].stopped
  BY RecordTypes DEF WatchInv, QueriesSound, Follows
<1>2. \A w \in Workers, q \in Queries :
         /\ Claims(w, q)' <=> Claims(w, q)
         /\ Analyses(w, q)' <=> Analyses(w, q)
         /\ Claims(w, q) \/ Analyses(w, q) => query[q].registered
  BY JobTypes DEF Claims, Analyses, WorkerInv
<1>3. ASSUME NEW w \in Workers PROVE WorkerInv(w)'
  <2>1. WorkerInv(w) /\ job[w].generation \in Nat
    BY JobTypes
  <2>2. \A q \in Queries : Claims(w, q)' /\ Live(q)' =>
           /\ query'[q].processing = job'[w].frame
           /\ query'[q].generation + 1 = job'[w].generation
    BY <1>2, <2>1 DEF WorkerInv
  <2>3. \A q \in Queries : Analyses(w, q)' => job'[w].generation <= query'[q].generation
    BY <1>1, <1>2, <2>1 DEF WorkerInv
  <2>4. \A q \in job'[w].todo \cup job'[w].joined : query'[q].registered
    BY <1>1, <2>1, JobTypes DEF WorkerInv
  <2> QED BY <2>1, <2>2, <2>3, <2>4 DEF WorkerInv
<1>4. PairInv'
  BY <1>2 DEF WatchInv, WorkersSound, PairInv
<1>5. FoundInv'
  <2> SUFFICES ASSUME NEW q \in Queries, Live(q)'
               PROVE  /\ query'[q].processing # 0 => \E w \in Workers : Claims(w, q)'
                      /\ InFlight(query'[q]) /\ ~query'[q].stopped =>
                            \E w \in Workers : Analyses(w, q)' /\ Holds(w, q)'
    BY DEF FoundInv
  <2>1. query'[q].processing # 0 => \E w \in Workers : Claims(w, q)'
    BY <1>2 DEF WatchInv, WorkersSound, FoundInv
  <2>2. ASSUME InFlight(query'[q]), ~query'[q].stopped
        PROVE  \E w \in Workers : Analyses(w, q)' /\ Holds(w, q)'
    <3>1. /\ Live(q) /\ InFlight(query[q]) /\ ~query[q].stopped
          /\ query'[q].inFlight = query[q].inFlight
      BY <1>1, <2>2 DEF InFlight
    <3>2. PICK w \in Workers : Analyses(w, q) /\ Holds(w, q)
      BY <3>1 DEF WatchInv, WorkersSound, FoundInv
    <3>3. Analyses(w, q)' /\ Holds(w, q)'
      BY <1>2, <3>1, <3>2 DEF Holds
    <3> QED BY <3>3
  <2> QED BY <2>1, <2>2
<1> QED BY <1>3, <1>4, <1>5 DEF WatchInv, WorkersSound

(* What a worker may do to its queries without the others noticing.        *)
LEMMA WorkerSteps ==
    ASSUME WatchInv, QueriesSound', NEW w \in Workers,
           job' \in [Workers -> JobType],
           \A v \in Workers : v # w => job'[v] = job[v],
           WorkerInv(w)',
           \A q \in Queries : Follows(query[q], query'[q]),
           \A q \in Queries : Live(q)' => Live(q),
           \A q \in Queries : Live(q)' =>
               \/ /\ query'[q].processing = query[q].processing
                  /\ query'[q].generation = query[q].generation
                  /\ Claims(w, q)' <=> Claims(w, q)
               \/ Claims(w, q) /\ query'[q].processing = 0
               \/ /\ query[q].processing = 0 /\ Claims(w, q)'
                  /\ query'[q].generation = query[q].generation,
           \A q \in Queries : Analyses(w, q)' =>
               \/ Analyses(w, q) /\ job'[w].generation = job[w].generation
               \/ query[q].generation < job'[w].generation,
           \A q \in Queries : Live(q)' /\ InFlight(query'[q]) /\ ~query'[q].stopped =>
               \/ Analyses(w, q)' /\ Holds(w, q)'
               \/ /\ query'[q].inFlight = query[q].inFlight
                  /\ ~(Analyses(w, q) /\ Holds(w, q))
    PROVE  WorkersSound'
<1>1. \A q \in Queries : /\ query[q].generation \in Nat /\ query'[q].generation \in Nat
                         /\ query[q].generation <= query'[q].generation
                         /\ query[q].registered => query'[q].registered
                         /\ query[q].stopped => query'[q].stopped
  BY RecordTypes DEF WatchInv, QueriesSound, Follows
<1>2. \A v \in Workers : v # w => \A q \in Queries :
         /\ Claims(v, q)' <=> Claims(v, q)
         /\ Analyses(v, q)' <=> Analyses(v, q)
  BY DEF Claims, Analyses
<1>3. \A v \in Workers, q \in Queries : v # w /\ Claims(v, q) /\ Live(q)' =>
         /\ query'[q].processing = query[q].processing
         /\ query'[q].generation = query[q].generation
         /\ ~Claims(w, q)'
  <2> SUFFICES ASSUME NEW v \in Workers, NEW q \in Queries, v # w, Claims(v, q), Live(q)'
               PROVE  /\ query'[q].processing = query[q].processing
                      /\ query'[q].generation = query[q].generation
                      /\ ~Claims(w, q)'
    OBVIOUS
  <2>1. Live(q) /\ ~Claims(w, q)
    BY DEF WatchInv, WorkersSound, PairInv
  <2>2. query[q].processing # 0
    <3>1. job[v].stage # "idle" /\ WorkerInv(v)
      BY JobTypes DEF Claims, Claiming
    <3> QED BY <2>1, <3>1 DEF WorkerInv
  <2> QED BY <2>1, <2>2
<1>4. ASSUME NEW v \in Workers, v # w PROVE WorkerInv(v)'
  <2>1. WorkerInv(v) /\ job[v].generation \in Nat /\ job'[v] = job[v]
    BY <1>4, JobTypes
  <2>2. \A q \in Queries : Claims(v, q)' /\ Live(q)' =>
           /\ query'[q].processing = job'[v].frame
           /\ query'[q].generation + 1 = job'[v].generation
    BY <1>2, <1>3, <1>4, <2>1 DEF WorkerInv
  <2>3. \A q \in Queries : Analyses(v, q)' => job'[v].generation <= query'[q].generation
    BY <1>1, <1>2, <1>4, <2>1 DEF WorkerInv
  <2>4. \A q \in job'[v].todo \cup job'[v].joined : query'[q].registered
    BY <1>1, <2>1, JobTypes DEF WorkerInv
  <2> QED BY <2>1, <2>2, <2>3, <2>4 DEF WorkerInv
<1>5. PairInv'
  <2> SUFFICES ASSUME NEW q \in Queries, NEW u \in Workers, NEW v \in Workers, u # v
               PROVE  /\ ~(Claims(u, q)' /\ Claims(v, q)' /\ Live(q)')
                      /\ Analyses(u, q)' /\ Analyses(v, q)' =>
                            job'[u].generation # job'[v].generation
    BY DEF PairInv
  <2>1. ~(Claims(u, q)' /\ Claims(v, q)' /\ Live(q)')
    BY <1>2, <1>3 DEF WatchInv, WorkersSound, PairInv
  <2>2. \A x \in Workers : x # w /\ Analyses(x, q) =>
           /\ Analyses(w, q) => job[x].generation # job[w].generation
           /\ job[x].generation <= query[q].generation /\ job[x].generation \in Nat
    BY JobTypes DEF WatchInv, WorkersSound, PairInv, WorkerInv
  <2>3. \A x \in Workers : x # w /\ Analyses(x, q) /\ Analyses(w, q)' =>
           job'[w].generation # job[x].generation
    <3> SUFFICES ASSUME NEW x \in Workers, x # w, Analyses(x, q), Analyses(w, q)'
                 PROVE  job'[w].generation # job[x].generation
      OBVIOUS
    <3>1. job'[w].generation \in Nat
      BY DEF JobType
    <3>2. CASE query[q].generation < job'[w].generation
      BY <1>1, <2>2, <3>1, <3>2
    <3>3. CASE Analyses(w, q) /\ job'[w].generation = job[w].generation
      BY <2>2, <3>3
    <3> QED BY <3>2, <3>3
  <2>4. Analyses(u, q)' /\ Analyses(v, q)' => job'[u].generation # job'[v].generation
    BY <1>2, <2>3 DEF WatchInv, WorkersSound, PairInv
  <2> QED BY <2>1, <2>4
<1>6. FoundInv'
  <2> SUFFICES ASSUME NEW q \in Queries, Live(q)'
               PROVE  /\ query'[q].processing # 0 => \E v \in Workers : Claims(v, q)'
                      /\ InFlight(query'[q]) /\ ~query'[q].stopped =>
                            \E v \in Workers : Analyses(v, q)' /\ Holds(v, q)'
    BY DEF FoundInv
  <2>1. ASSUME query'[q].processing # 0 PROVE \E v \in Workers : Claims(v, q)'
    <3>1. CASE Claims(w, q)'
      BY <3>1
    <3>2. CASE ~Claims(w, q)'
      <4>1. Live(q) /\ query[q].processing # 0 /\ ~Claims(w, q)
        BY <2>1, <3>2
      <4>2. PICK v \in Workers : Claims(v, q)
        BY <4>1 DEF WatchInv, WorkersSound, FoundInv
      <4> QED BY <1>2, <4>1, <4>2
    <3> QED BY <3>1, <3>2
  <2>2. ASSUME InFlight(query'[q]), ~query'[q].stopped
        PROVE  \E v \in Workers : Analyses(v, q)' /\ Holds(v, q)'
    <3>1. CASE Analyses(w, q)' /\ Holds(w, q)'
      BY <3>1
    <3>2. CASE /\ query'[q].inFlight = query[q].inFlight
               /\ ~(Analyses(w, q) /\ Holds(w, q))
      <4>1. Live(q) /\ InFlight(query[q]) /\ ~query[q].stopped
        BY <1>1, <2>2, <3>2 DEF InFlight
      <4>2. PICK v \in Workers : Analyses(v, q) /\ Holds(v, q)
        BY <4>1 DEF WatchInv, WorkersSound, FoundInv
      <4>3. v # w
        BY <3>2, <4>2
      <4>4. Analyses(v, q)' /\ Holds(v, q)'
        BY <1>2, <3>2, <4>2, <4>3 DEF Holds
      <4> QED BY <4>4
    <3> QED BY <2>2, <3>1, <3>2
  <2> QED BY <2>1, <2>2
<1>7. \A v \in Workers : WorkerInv(v)'
  BY <1>4
<1> QED BY <1>5, <1>6, <1>7 DEF WorkersSound

-----------------------------------------------------------------------------
(* A step that changes the record of one query.                            *)

Touches(q) ==
    /\ QueriesSound'
    /\ \A p \in Queries : p # q => query'[p] = query[p]
    /\ Follows(query[q], query'[q])

LEMMA NoFollows == \A d \in QueryType : Follows(d, d)
<1>1. \A d \in QueryType : d.generation \in Nat
  BY RecordTypes
<1> QED BY <1>1 DEF Follows

LEMMA OneQuery ==
    ASSUME WatchInv, NEW q \in Queries, NEW e \in QueryType, Sound(e),
           e.terminal = "Matched" => Cardinality(e.confirmed) >= Required[q],
           Follows(query[q], e), query' = [query EXCEPT ![q] = e]
    PROVE  Touches(q) /\ query'[q] = e
<1>1. query \in [Queries -> QueryType] /\ \A p \in Queries : Sound(query[p]) /\ Stable(p)
  BY DEF WatchInv, QueriesSound
<1>2. /\ query' \in [Queries -> QueryType] /\ query'[q] = e
      /\ \A p \in Queries : p # q => query'[p] = query[p]
  BY <1>1
<1>3. ASSUME NEW p \in Queries PROVE Sound(query'[p]) /\ Stable(p)'
  <2>1. CASE p = q
    BY <1>2, <2>1 DEF Stable
  <2>2. CASE p # q
    BY <1>1, <1>2, <2>2 DEF Stable
  <2> QED BY <2>1, <2>2
<1>4. Sound(query'[q]) /\ \A p \in Queries : Sound(query[p])'
  BY <1>2, <1>3 DEF Sound, Fresh, Ordered, Streak, Accounted, Lives, InFlight, Outstanding, Total,
       NoFlight
<1> QED BY <1>2, <1>3, <1>4 DEF Touches, QueriesSound

LEMMA NoQuery ==
    ASSUME WatchInv, query' = query
    PROVE  QueriesSound' /\ \A q \in Queries : Touches(q) /\ query'[q] = query[q]
<1>1. QueriesSound'
  BY DEF WatchInv, QueriesSound, Sound, Fresh, Ordered, Streak, Accounted, Lives, InFlight,
         Outstanding, Total, NoFlight, Stable
<1>2. \A q \in Queries : Follows(query[q], query'[q])
  <2>1. \A q \in Queries : query[q].generation \in Nat
    BY RecordTypes DEF WatchInv, QueriesSound
  <2> QED BY <2>1 DEF Follows
<1> QED BY <1>1, <1>2 DEF Touches

(* terminate never ends a query as matched: only a result does.            *)
LEMMA TerminatedStep ==
    ASSUME WatchInv, NEW q \in Queries, NEW o \in Outcomes \ {"Matched"},
           query' = Terminated(q, o)
    PROVE  Touches(q) /\ ~Live(q)'
<1>1. CASE ~Live(q)
  <2>1. query' = query
    BY <1>1 DEF Terminated
  <2> QED BY <1>1, <2>1, NoQuery DEF Live
<1>2. CASE Live(q)
  <2> DEFINE a == Arbitrated(o)
             e == Ended(query[q], a)
  <2>1. a \in Outcomes /\ a # "Matched"
    BY DEF Arbitrated, WatchInv, SessionType, Outcomes
  <2>2. query[q] \in QueryType /\ Sound(query[q]) /\ Lives(query[q])
    BY <1>2, LiveIsLives DEF WatchInv, QueriesSound
  <2> HIDE DEF a
  <2>3. e \in QueryType /\ Sound(e) /\ Follows(query[q], e) /\ e.terminal = a /\ ~Lives(e)
    BY <2>1, <2>2, EndedSound
  <2>4. query' = [query EXCEPT ![q] = e]
    BY <1>2 DEF Terminated, a
  <2> HIDE DEF e
  <2>5. Touches(q) /\ query'[q] = e
    BY <2>1, <2>3, <2>4, OneQuery
  <2> QED BY <2>3, <2>5 DEF Live, Lives
<1> QED BY <1>1, <1>2

LEMMA EndedIfIdleStep ==
    ASSUME WatchInv, NEW q \in Queries, query' = EndedIfIdle(q)
    PROVE  Touches(q) /\ (~Live(q)' \/ query' = query)
<1>1. CASE IsIdle(query[q])
  BY <1>1, TerminatedStep DEF EndedIfIdle, Outcomes
<1>2. CASE ~IsIdle(query[q])
  BY <1>2, NoQuery DEF EndedIfIdle
<1> QED BY <1>1, <1>2

(* A step of the session or of a query, the workers standing still.        *)
LEMMA QueryStep ==
    ASSUME WatchInv, SessionType', EndInv', job' = job, NEW q \in Queries, Touches(q),
           Live(q)' =>
               \/ /\ Live(q)
                  /\ query'[q].processing = query[q].processing
                  /\ query'[q].generation = query[q].generation
                  /\ InFlight(query'[q]) => query'[q].inFlight = query[q].inFlight
               \/ /\ ~query[q].registered
                  /\ query'[q].processing = 0 /\ ~InFlight(query'[q])
    PROVE  WatchInv'
<1>1. \A p \in Queries : p # q => query'[p] = query[p] /\ (Live(p)' <=> Live(p))
  BY DEF Touches, Live
<1>2. \A p \in Queries : Follows(query[p], query'[p])
  <2>1. \A p \in Queries : query[p].generation \in Nat
    BY RecordTypes DEF WatchInv, QueriesSound
  <2> QED BY <2>1, <1>1 DEF Follows, Touches
<1>3. QueriesSound'
  BY DEF Touches
<1>4. \A p \in Queries : Live(p)' =>
         \/ /\ Live(p)
            /\ query'[p].processing = query[p].processing
            /\ query'[p].generation = query[p].generation
            /\ InFlight(query'[p]) => query'[p].inFlight = query[p].inFlight
         \/ /\ ~query[p].registered
            /\ query'[p].processing = 0 /\ ~InFlight(query'[p])
  BY <1>1
<1>5. WorkersSound'
  BY <1>2, <1>3, <1>4, JobsKept
<1> QED BY <1>3, <1>5 DEF WatchInv

LEMMA SessionStep ==
    ASSUME WatchInv, SessionType', EndInv', query' = query, job' = job
    PROVE  WatchInv'
<1>1. QueriesSound'
  BY NoQuery
<1>2. \A q \in Queries : Follows(query[q], query'[q])
  BY NoQuery DEF Touches
<1>3. \A q \in Queries : Live(q)' <=> Live(q)
  BY DEF Live
<1>4. WorkersSound'
  BY <1>1, <1>2, <1>3, JobsKept
<1> QED BY <1>1, <1>4 DEF WatchInv

-----------------------------------------------------------------------------
(* The steps of the session, of capture and of the acquisition thread.     *)

LEMMA QueryFacts ==
    ASSUME WatchInv, NEW q \in Queries
    PROVE  /\ query[q] \in QueryType /\ Sound(query[q])
           /\ query[q].terminal = "Matched" =>
                 Cardinality(query[q].confirmed) >= Required[q]
           /\ Live(q) <=> Lives(query[q])
BY LiveIsLives DEF WatchInv, QueriesSound, Stable

LEMMA StartQueryKeeps ==
    ASSUME WatchInv, NEW q \in Queries, StartQuery(q) PROVE WatchInv'
<1> DEFINE e == [query[q] EXCEPT !.registered = TRUE]
<1>1. /\ ~query[q].registered /\ query' = [query EXCEPT ![q] = e] /\ job' = job
      /\ SessionType' /\ EndInv'
  BY DEF WatchInv, SessionType, EndInv, StartQuery
<1>2. e \in QueryType /\ Sound(e) /\ Follows(query[q], e)
  BY <1>1, QueryFacts, PlainSound
<1>3. /\ e.terminal = query[q].terminal /\ e.confirmed = query[q].confirmed
      /\ e.processing = query[q].processing /\ e.inFlight = query[q].inFlight
  BY QueryFacts DEF QueryType
<1> HIDE DEF e
<1>4. Touches(q) /\ query'[q] = e
  BY <1>1, <1>2, <1>3, OneQuery, QueryFacts
<1>5. query'[q].processing = 0 /\ ~InFlight(query'[q])
  BY <1>1, <1>3, <1>4, QueryFacts DEF Sound, Fresh, InFlight
<1> QED BY <1>1, <1>4, <1>5, QueryStep

LEMMA TerminatedKeeps ==
    ASSUME WatchInv, NEW q \in Queries, NEW o \in Outcomes \ {"Matched"},
           query' = Terminated(q, o), job' = job, SessionType', EndInv'
    PROVE  WatchInv'
BY TerminatedStep, QueryStep

(* A change of the context or of the rate of a query.                      *)
LEMMA PlainKeeps ==
    ASSUME WatchInv, NEW q \in Queries, NEW e \in QueryType, Sound(e), Follows(query[q], e),
           /\ e.registered = query[q].registered /\ e.terminal = query[q].terminal
           /\ e.confirmed = query[q].confirmed /\ e.processing = query[q].processing
           /\ e.inFlight = query[q].inFlight /\ e.generation = query[q].generation,
           query' = [query EXCEPT ![q] = e], job' = job, SessionType', EndInv'
    PROVE  WatchInv'
<1>1. Touches(q) /\ query'[q] = e
  BY OneQuery, QueryFacts
<1>2. Live(q)' => Live(q)
  BY <1>1 DEF Live
<1> QED BY <1>1, <1>2, QueryStep

LEMMA InterruptKeeps ==
    ASSUME WatchInv, NEW q \in Queries, Interrupt(q) PROVE WatchInv'
<1> DEFINE e == [query[q] EXCEPT !.stopped = TRUE]
<1>1. query' = [query EXCEPT ![q] = e] /\ job' = job /\ SessionType' /\ EndInv'
  BY DEF WatchInv, SessionType, EndInv, Interrupt
<1>2. e \in QueryType /\ Sound(e) /\ Follows(query[q], e)
  BY QueryFacts, PlainSound
<1>3. /\ e.registered = query[q].registered /\ e.terminal = query[q].terminal
      /\ e.confirmed = query[q].confirmed /\ e.processing = query[q].processing
      /\ e.inFlight = query[q].inFlight /\ e.generation = query[q].generation
  BY QueryFacts DEF QueryType
<1> HIDE DEF e
<1> QED BY <1>1, <1>2, <1>3, PlainKeeps

LEMMA RateElapsesKeeps ==
    ASSUME WatchInv, NEW q \in Queries, RateElapses(q) PROVE WatchInv'
<1> DEFINE e == [query[q] EXCEPT !.rate = "due"]
<1>1. query' = [query EXCEPT ![q] = e] /\ job' = job /\ SessionType' /\ EndInv'
  BY DEF WatchInv, SessionType, EndInv, RateElapses
<1>2. e \in QueryType /\ Sound(e) /\ Follows(query[q], e)
  BY QueryFacts, PlainSound
<1>3. /\ e.registered = query[q].registered /\ e.terminal = query[q].terminal
      /\ e.confirmed = query[q].confirmed /\ e.processing = query[q].processing
      /\ e.inFlight = query[q].inFlight /\ e.generation = query[q].generation
  BY QueryFacts DEF QueryType
<1> HIDE DEF e
<1> QED BY <1>1, <1>2, <1>3, PlainKeeps

LEMMA SweepKeeps ==
    ASSUME WatchInv, NEW q \in Queries, Sweep(q) \/ Cancel(q) PROVE WatchInv'
<1>1. /\ query' = Terminated(q, "Cancelled") /\ job' = job /\ SessionType' /\ EndInv'
      /\ "Cancelled" \in Outcomes \ {"Matched"}
  BY DEF WatchInv, SessionType, EndInv, Sweep, Cancel, Outcomes
<1> QED BY <1>1, TerminatedKeeps

(* The query gives its pending frame up and ends.                          *)
LEMMA GivenUpStep ==
    ASSUME WatchInv, NEW q \in Queries, Live(q), query[q].pending # 0,
           NEW k \in Dispositions, NEW o \in Outcomes \ {"Matched"},
           query' = [query EXCEPT ![q] = GivenUp(query[q], k, o)]
    PROVE  Touches(q) /\ ~Live(q)'
<1> DEFINE e == GivenUp(query[q], k, o)
<1>0. query[q] \in QueryType /\ Sound(query[q]) /\ Lives(query[q]) /\ o \in Outcomes
  BY QueryFacts
<1>1. /\ e \in QueryType /\ Sound(e) /\ Follows(query[q], e)
      /\ e.terminal = o /\ ~Lives(e)
  BY <1>0, GivenUpSound
<1>2. query' = [query EXCEPT ![q] = e] /\ o # "Matched"
  OBVIOUS
<1> HIDE DEF e
<1>3. Touches(q) /\ query'[q] = e
  BY <1>1, <1>2, OneQuery
<1> QED BY <1>1, <1>3 DEF Live, Lives

LEMMA ExpireKeeps ==
    ASSUME WatchInv, NEW q \in Queries, Expire(q) PROVE WatchInv'
<1>1. /\ Live(q) /\ query[q].pending # 0 /\ job' = job /\ SessionType' /\ EndInv'
      /\ {"Cancelled", "Overloaded"} \subseteq Outcomes \ {"Matched"}
      /\ "QueueExpired" \in Dispositions
  BY DEF WatchInv, SessionType, EndInv, Expire, Outcomes, Dispositions
<1>2. CASE query[q].stopped \/ authority # None \/ schedulerClosed
  <2>1. query' = Terminated(q, "Cancelled")
    BY <1>2 DEF Expire
  <2> QED BY <1>1, <2>1, TerminatedKeeps
<1>3. CASE ~(query[q].stopped \/ authority # None \/ schedulerClosed)
  <2>1. query' = [query EXCEPT ![q] = GivenUp(query[q], "QueueExpired", "Overloaded")]
    BY <1>3 DEF Expire, GivenUp
  <2>2. Touches(q) /\ ~Live(q)'
    BY <1>1, <2>1, GivenUpStep
  <2> QED BY <1>1, <2>2, QueryStep
<1> QED BY <1>2, <1>3

LEMMA CaptureKeeps ==
    ASSUME WatchInv,
           \/ Capture \/ \E kind \in {"lost", "closed"} : CaptureEnds(kind)
           \/ PublishBegin \/ PublishEnd \/ SourceEnds \/ CloseScheduler
           \/ \E o \in {"SessionClosed", "SchedulerClosed"} : CloseSession(o)
    PROVE  WatchInv'
<1>1. query' = query /\ job' = job
  BY DEF Capture, CaptureEnds, PublishBegin, PublishEnd, SourceEnds, CloseScheduler,
         CloseSession
<1>2. EndInv' /\ SessionType'
  <2>0. EndInv /\ SessionType
    BY DEF WatchInv
  <2>1. CASE Capture
    BY <2>0, <2>1 DEF SessionType, EndInv, Capture
  <2>2. CASE \E kind \in {"lost", "closed"} : CaptureEnds(kind)
    BY <2>0, <2>2 DEF SessionType, EndInv, CaptureEnds
  <2>3. CASE PublishBegin
    BY <2>0, <2>3 DEF SessionType, EndInv, PublishBegin, Registered
  <2>4. CASE PublishEnd
    <3>1. publications \in Nat /\ publications' = publications + 1
      BY <2>0, <2>4 DEF SessionType, PublishEnd
    <3>2. publications' \in Nat
      BY <3>1
    <3> QED BY <2>0, <2>4, <3>2 DEF SessionType, EndInv, PublishEnd
  <2>5. CASE SourceEnds
    BY <2>0, <2>5 DEF SessionType, EndInv, SourceEnds, Registered
  <2>6. CASE CloseScheduler
    BY <2>0, <2>6 DEF SessionType, EndInv, CloseScheduler
  <2>7. CASE \E o \in {"SessionClosed", "SchedulerClosed"} : CloseSession(o)
    BY <2>0, <2>7 DEF SessionType, EndInv, CloseSession, Registered, Outcomes
  <2> QED BY <2>1, <2>2, <2>3, <2>4, <2>5, <2>6, <2>7
<1> QED BY <1>1, <1>2, SessionStep

LEMMA EnqueueKeeps ==
    ASSUME WatchInv, NEW q \in Queries, Enqueue(q) PROVE WatchInv'
<1>1. /\ job' = job /\ SessionType' /\ EndInv' /\ "Cancelled" \in Outcomes \ {"Matched"}
      /\ published \in FramesOrNone
  BY DEF WatchInv, SessionType, EndInv, Enqueue, Outcomes
<1>2. CASE query[q].stopped
  <2>1. query' = Terminated(q, "Cancelled")
    BY <1>2 DEF Enqueue
  <2> QED BY <1>1, <2>1, TerminatedKeeps
<1>3. CASE ~query[q].stopped /\ Live(q) /\ query[q].source < published
  <2> DEFINE e == Enqueued(query[q])
  <2>1. query' = [query EXCEPT ![q] = e]
    BY <1>3 DEF Enqueue
  <2>2. /\ e \in QueryType /\ Sound(e) /\ Follows(query[q], e)
        /\ e.processing = query[q].processing /\ e.generation = query[q].generation
        /\ InFlight(e) => e.inFlight = query[q].inFlight
        /\ e.terminal = query[q].terminal
    BY <1>1, <1>3, QueryFacts, EnqueuedSound
  <2>3. e.terminal # "Matched"
    BY <1>3, <2>2 DEF Live, Outcomes
  <2> HIDE DEF e
  <2>4. Touches(q) /\ query'[q] = e
    BY <2>1, <2>2, <2>3, OneQuery
  <2> QED BY <1>1, <1>3, <2>2, <2>4, QueryStep
<1>4. CASE ~query[q].stopped /\ ~(Live(q) /\ query[q].source < published)
  <2>1. query' = query
    BY <1>4 DEF Enqueue
  <2> QED BY <1>1, <2>1, SessionStep
<1> QED BY <1>2, <1>3, <1>4

LEMMA EndQueryKeeps ==
    ASSUME WatchInv, NEW q \in Queries, EndQuery(q) PROVE WatchInv'
<1>1. /\ job' = job /\ SessionType' /\ EndInv' /\ "TargetLost" \in Outcomes \ {"Matched"}
  BY DEF WatchInv, SessionType, EndInv, EndQuery, Outcomes
<1>2. CASE captureEnd = "lost"
  <2>1. query' = Terminated(q, "TargetLost")
    BY <1>2 DEF EndQuery
  <2> QED BY <1>1, <2>1, TerminatedKeeps
<1>3. CASE captureEnd # "lost"
  <2>1. query' = EndedIfIdle(q)
    BY <1>3 DEF EndQuery
  <2>2. Touches(q) /\ (~Live(q)' \/ query' = query)
    BY <2>1, EndedIfIdleStep
  <2> QED BY <1>1, <2>2, QueryStep, SessionStep
<1> QED BY <1>2, <1>3

(* A close that visits its queries has recorded how they end.              *)
LEMMA CloseQueryKeeps ==
    ASSUME WatchInv, NEW q \in Queries, CloseQuery(q) PROVE WatchInv'
<1>1. /\ job' = job /\ SessionType' /\ EndInv' /\ authority \in Outcomes \ {"Matched"}
      /\ query' = Terminated(q, authority)
  BY DEF WatchInv, SessionType, EndInv, CloseQuery, Outcomes
<1> QED BY <1>1, TerminatedKeeps

-----------------------------------------------------------------------------
(* A step of a worker that deals with one query.                           *)

(* What Advanced makes of the job.                                         *)
Onward(j, n, q, stage, joined) ==
    /\ n \in JobType
    /\ \/ /\ j.todo \ {q} # {}
          /\ n.stage = j.stage /\ n.todo = j.todo \ {q} /\ n.joined = joined
          /\ n.frame = j.frame /\ n.generation = j.generation /\ n.at = j.at
          /\ n.result = j.result
       \/ /\ j.todo \ {q} = {} /\ joined # {}
          /\ n.stage = stage /\ n.todo = joined /\ n.joined = {}
          /\ n.frame = j.frame /\ n.generation = j.generation /\ n.at = j.at
          /\ n.result = j.result
       \/ /\ j.todo \ {q} = {} /\ joined = {}
          /\ n.stage = "idle" /\ n.todo = {} /\ n.joined = {} /\ n.at = None

Stages == {"idle", "picked", "mapping", "failing", "releasing", "admitting",
           "analysing", "completing"}

LEMMA NoJobType == NoJob \in JobType
BY DEF NoJob, JobType

LEMMA AdvancedJob ==
    ASSUME NEW j \in JobType, NEW q \in Queries, NEW stage \in Stages,
           NEW joined \in SUBSET Queries
    PROVE  LET n == Advanced(j, q, stage, joined) IN
           /\ Onward(j, n, q, stage, joined)
           /\ Onward(j, [n EXCEPT !.settle = q], q, stage, joined)
<1> DEFINE n == Advanced(j, q, stage, joined)
           rest == j.todo \ {q}
<1>0. rest \subseteq Queries /\ stage \in {"idle", "picked", "mapping", "failing",
         "releasing", "admitting", "analysing", "completing"}
  BY DEF JobType, Stages
<1>1. CASE rest # {}
  <2>1. n = [j EXCEPT !.todo = rest, !.joined = joined]
    BY <1>1 DEF Advanced
  <2>2. n \in JobType
    <3>1. \A r \in SUBSET Queries : [j EXCEPT !.todo = r, !.joined = joined] \in JobType
      BY DEF JobType
    <3> QED BY <1>0, <2>1, <3>1
  <2>3. /\ n.stage = j.stage /\ n.todo = rest /\ n.joined = joined
        /\ n.frame = j.frame /\ n.generation = j.generation /\ n.at = j.at
        /\ n.result = j.result
    BY <2>1 DEF JobType
  <2> HIDE DEF n
  <2>4. /\ [n EXCEPT !.settle = q] \in JobType
        /\ LET m == [n EXCEPT !.settle = q] IN
              /\ m.stage = n.stage /\ m.todo = n.todo /\ m.joined = n.joined
              /\ m.frame = n.frame /\ m.generation = n.generation /\ m.at = n.at
              /\ m.result = n.result
    BY <2>2 DEF JobType
  <2> QED BY <1>1, <2>2, <2>3, <2>4 DEF Onward, n
<1>2. CASE rest = {} /\ joined # {}
  <2>1. n = [j EXCEPT !.stage = stage, !.todo = joined, !.joined = {}]
    BY <1>2 DEF Advanced
  <2>2. n \in JobType
    BY <1>0, <2>1 DEF JobType
  <2>3. /\ n.stage = stage /\ n.todo = joined /\ n.joined = {}
        /\ n.frame = j.frame /\ n.generation = j.generation /\ n.at = j.at
        /\ n.result = j.result
    BY <2>1 DEF JobType
  <2> HIDE DEF n
  <2>4. /\ [n EXCEPT !.settle = q] \in JobType
        /\ LET m == [n EXCEPT !.settle = q] IN
              /\ m.stage = n.stage /\ m.todo = n.todo /\ m.joined = n.joined
              /\ m.frame = n.frame /\ m.generation = n.generation /\ m.at = n.at
              /\ m.result = n.result
    BY <2>2 DEF JobType
  <2> QED BY <1>2, <2>2, <2>3, <2>4 DEF Onward, n
<1>3. CASE rest = {} /\ joined = {}
  <2>1. n = NoJob
    BY <1>3 DEF Advanced
  <2>2. n \in JobType
    BY <2>1, NoJobType
  <2>3. /\ n.stage = "idle" /\ n.todo = {} /\ n.joined = {} /\ n.at = None
    BY <2>1 DEF NoJob
  <2> HIDE DEF n
  <2>4. /\ [n EXCEPT !.settle = q] \in JobType
        /\ LET m == [n EXCEPT !.settle = q] IN
              /\ m.stage = n.stage /\ m.todo = n.todo /\ m.joined = n.joined
              /\ m.at = n.at
    BY <2>2 DEF JobType
  <2> QED BY <1>3, <2>2, <2>3, <2>4 DEF Onward, n
<1> QED BY <1>1, <1>2, <1>3

LEMMA JobStep ==
    ASSUME WatchInv, NEW w \in Workers, NEW n \in JobType, job' = [job EXCEPT ![w] = n]
    PROVE  /\ job' \in [Workers -> JobType] /\ job'[w] = n
           /\ \A v \in Workers : v # w => job'[v] = job[v]
BY DEF WatchInv, WorkersSound

(* WorkerSteps for a step that deals with q alone.                         *)
LEMMA WorkerStep ==
    ASSUME WatchInv, NEW w \in Workers, NEW q \in Queries, NEW n \in JobType,
           job' = [job EXCEPT ![w] = n], Touches(q), Live(q)' => Live(q),
           SessionType', EndInv', WorkerInv(w)',
           n.stage # "idle" => n.frame = job[w].frame /\ n.generation = job[w].generation,
           \A p \in Queries : p # q =>
               /\ Claims(w, p)' <=> Claims(w, p)
               /\ Analyses(w, p)' <=> Analyses(w, p),
           Live(q)' =>
               \/ /\ query'[q].processing = query[q].processing
                  /\ query'[q].generation = query[q].generation
                  /\ Claims(w, q)' <=> Claims(w, q)
               \/ Claims(w, q) /\ query'[q].processing = 0,
           Analyses(w, q)' =>
               Analyses(w, q) \/ query[q].generation < job[w].generation,
           Live(q)' /\ InFlight(query'[q]) /\ ~query'[q].stopped =>
               \/ Analyses(w, q)' /\ Holds(w, q)'
               \/ /\ query'[q].inFlight = query[q].inFlight
                  /\ ~(Analyses(w, q) /\ Holds(w, q))
    PROVE  WatchInv'
<1>1. \A p \in Queries : p # q =>
         /\ query'[p] = query[p] /\ (Live(p)' <=> Live(p))
  BY DEF Touches, Live
<1>2. /\ QueriesSound' /\ (\A p \in Queries : Follows(query[p], query'[p]))
      /\ \A p \in Queries : Live(p)' => Live(p)
  <2>1. \A p \in Queries : query[p].generation \in Nat
    BY RecordTypes DEF WatchInv, QueriesSound
  <2> QED BY <2>1, <1>1 DEF Follows, Touches
<1>3. /\ job' \in [Workers -> JobType] /\ job'[w] = n
      /\ \A v \in Workers : v # w => job'[v] = job[v]
  BY JobStep
<1>4. \A p \in Queries : Live(p)' =>
         \/ /\ query'[p].processing = query[p].processing
            /\ query'[p].generation = query[p].generation
            /\ Claims(w, p)' <=> Claims(w, p)
         \/ Claims(w, p) /\ query'[p].processing = 0
  BY <1>1
<1>5. \A p \in Queries : Analyses(w, p)' => n.stage # "idle"
  BY <1>3 DEF Analyses
<1>6. \A p \in Queries : Analyses(w, p)' =>
         \/ Analyses(w, p) /\ job'[w].generation = job[w].generation
         \/ query[p].generation < job'[w].generation
  BY <1>3, <1>5
<1>7. \A p \in Queries : p # q /\ Analyses(w, p) /\ Holds(w, p) => Holds(w, p)'
  BY <1>1, <1>3, <1>5 DEF Holds
<1>8. \A p \in Queries : Live(p)' /\ InFlight(query'[p]) /\ ~query'[p].stopped =>
         \/ Analyses(w, p)' /\ Holds(w, p)'
         \/ /\ query'[p].inFlight = query[p].inFlight
            /\ ~(Analyses(w, p) /\ Holds(w, p))
  BY <1>1, <1>7
<1>9. WorkersSound'
  BY <1>2, <1>3, <1>4, <1>6, <1>8, WorkerSteps
<1> QED BY <1>2, <1>9 DEF WatchInv

(* The others are as they were.                                            *)
LEMMA OthersKept ==
    ASSUME WatchInv, NEW q \in Queries, Touches(q)
    PROVE  /\ \A p \in Queries : p # q => query'[p] = query[p] /\ (Live(p)' <=> Live(p))
           /\ \A p \in Queries : query[p].registered => query'[p].registered
           /\ \A p \in Queries : /\ query[p].generation <= query'[p].generation
                                 /\ query[p].generation \in Nat
                                 /\ query'[p].generation \in Nat
<1>1. \A p \in Queries : p # q => query'[p] = query[p] /\ (Live(p)' <=> Live(p))
  BY DEF Touches, Live
<1>2. \A p \in Queries : query[p].generation \in Nat /\ query'[p].generation \in Nat
  BY RecordTypes DEF WatchInv, QueriesSound, Touches
<1>3. \A p \in Queries : query[p].registered => query'[p].registered
  BY <1>1 DEF Touches, Follows
<1>4. \A p \in Queries : query[p].generation <= query'[p].generation
  <2>1. query[q].generation <= query'[q].generation
    BY DEF Touches, Follows
  <2>2. \A p \in Queries : p # q => query'[p].generation = query[p].generation
    BY <1>1
  <2> QED BY <1>2, <2>1, <2>2
<1> QED BY <1>1, <1>2, <1>3, <1>4

(* A claim is released, or ends with its query.                            *)
LEMMA ClaimDealt ==
    ASSUME WatchInv, NEW w \in Workers, NEW q \in job[w].todo,
           job[w].stage \in {"mapping", "failing", "releasing"},
           NEW j \in JobType, j.stage \in {"failing", "releasing"},
           /\ j.todo = job[w].todo /\ j.frame = job[w].frame
           /\ j.generation = job[w].generation /\ j.at = job[w].at,
           NEW n, Onward(j, n, q, "idle", {}), job' = [job EXCEPT ![w] = n],
           Touches(q),
           Live(q)' => /\ Live(q) /\ query'[q].processing = 0
                       /\ query'[q].inFlight = query[q].inFlight,
           SessionType', EndInv'
    PROVE  WatchInv'
<1>1. /\ WorkerInv(w) /\ q \in Queries /\ job[w].todo \subseteq Queries
      /\ n \in JobType /\ job'[w] = n
      /\ \/ /\ n.stage = j.stage /\ n.todo = job[w].todo \ {q} /\ n.joined = {}
            /\ n.frame = job[w].frame /\ n.generation = job[w].generation
            /\ n.at = job[w].at
         \/ /\ job[w].todo \ {q} = {} /\ n.stage = "idle" /\ n.todo = {} /\ n.joined = {}
            /\ n.at = None
  BY JobTypes, JobStep DEF Onward
<1>2. \A p \in Queries : /\ Claims(w, p) <=> p \in job[w].todo
                         /\ Claims(w, p)' <=> p \in job[w].todo /\ p # q
                         /\ ~Analyses(w, p) /\ ~Analyses(w, p)'
  BY <1>1 DEF Claims, Analyses, Claiming
<1>3. job[w].frame # 0 /\ job[w].generation # 0 /\ job[w].at = None
  BY <1>1 DEF WorkerInv
<1>4. WorkerInv(w)'
  <2>1. \A p \in Queries : Claims(w, p)' /\ Live(p)' =>
           /\ query'[p].processing = n.frame
           /\ query'[p].generation + 1 = n.generation
    <3> SUFFICES ASSUME NEW p \in Queries, Claims(w, p)', Live(p)'
                 PROVE  /\ query'[p].processing = n.frame
                        /\ query'[p].generation + 1 = n.generation
      OBVIOUS
    <3>1. /\ query'[p] = query[p] /\ Live(p) /\ Claims(w, p)
          /\ n.frame = job[w].frame /\ n.generation = job[w].generation
      BY <1>1, <1>2, OthersKept
    <3> QED BY <1>1, <3>1 DEF WorkerInv
  <2>2. \A p \in n.todo \cup n.joined : query'[p].registered
    BY <1>1, OthersKept DEF WorkerInv
  <2>3. /\ n.stage # "idle" => n.frame # 0 /\ n.generation # 0
        /\ n.joined = {} /\ n.stage # "picked" /\ n.at = None
    BY <1>1, <1>3
  <2> QED BY <1>1, <1>2, <2>1, <2>2, <2>3 DEF WorkerInv
<1> QED BY <1>1, <1>2, <1>4, OthersKept, WorkerStep

LEMMA MapInterruptedKeeps ==
    ASSUME WatchInv, NEW w \in Workers, NEW q \in Queries, MapInterrupted(w, q)
    PROVE  WatchInv'
<1> DEFINE j == [job[w] EXCEPT !.stage = "releasing"]
           n == Advanced(j, q, "idle", {})
<1>1. /\ job[w].stage = "mapping" /\ q \in job[w].todo /\ query' = Terminated(q, "Cancelled")
      /\ job' = [job EXCEPT ![w] = n] /\ "Cancelled" \in Outcomes \ {"Matched"}
      /\ SessionType' /\ EndInv' /\ job[w] \in JobType
  BY JobTypes DEF MapInterrupted, At, WatchInv, SessionType, EndInv, Outcomes
<1>2. /\ j \in JobType /\ j.stage = "releasing" /\ j.todo = job[w].todo
      /\ j.frame = job[w].frame /\ j.generation = job[w].generation /\ j.at = job[w].at
  BY <1>1 DEF JobType
<1>3. Onward(j, n, q, "idle", {})
  <2> HIDE DEF j
  <2> QED BY <1>2, AdvancedJob DEF Stages
<1>4. Touches(q) /\ ~Live(q)'
  BY <1>1, TerminatedStep
<1> HIDE DEF j, n
<1> QED BY <1>1, <1>2, <1>3, <1>4, ClaimDealt

(* release_claim gives up the claim on frame f and nothing else.           *)
LEMMA ReleasedStep ==
    ASSUME WatchInv, NEW q \in Queries, NEW f, query' = Released(q, f)
    PROVE  /\ Touches(q) /\ query'[q].inFlight = query[q].inFlight
           /\ query'[q].processing = (IF query[q].processing = f THEN 0 ELSE query[q].processing)
           /\ query'[q].generation = query[q].generation /\ (Live(q)' <=> Live(q))
<1> DEFINE d == query[q]
           p == IF d.processing = f THEN 0 ELSE d.processing
           e == [d EXCEPT !.processing = p]
<1>1. d \in QueryType /\ Sound(d) /\ query' = [query EXCEPT ![q] = e]
  BY QueryFacts DEF Released
<1>2. CASE p = d.processing
  <2>1. e = d
    BY <1>1, <1>2 DEF QueryType
  <2>2. query' = query
    BY <1>1, <2>1 DEF WatchInv, QueriesSound
  <2> QED BY <1>2, <2>2, NoQuery DEF Live
<1>3. CASE p = 0
  <2>1. e = [d EXCEPT !.processing = 0, !.rate = d.rate]
    BY <1>1, <1>3 DEF QueryType
  <2>2. d.rate \in {"none", "held", "due"} /\ 0 \in FramesOrNone
    BY <1>1, RecordTypes DEF QueryType
  <2>3. e \in QueryType /\ Sound(e) /\ Follows(d, e) /\ e.processing = 0
    <3>1. e = Claimed(d, 0, d.rate)
      BY <2>1 DEF Claimed
    <3> HIDE DEF e
    <3>2. \A x \in QueryType : \A r \in {"none", "held", "due"} : Sound(x) =>
             LET y == Claimed(x, 0, r)
             IN  y \in QueryType /\ Sound(y) /\ Follows(x, y) /\ y.processing = 0
      BY <2>2, ClaimSound
    <3> QED BY <1>1, <2>2, <3>1, <3>2
  <2>4. /\ e.registered = d.registered /\ e.terminal = d.terminal /\ e.confirmed = d.confirmed
        /\ e.inFlight = d.inFlight /\ e.generation = d.generation
    BY <1>1 DEF QueryType
  <2> HIDE DEF e
  <2>5. e.terminal = "Matched" => Cardinality(e.confirmed) >= Required[q]
    BY <2>4, QueryFacts
  <2>6. Touches(q) /\ query'[q] = e
    BY <1>1, <2>3, <2>5, OneQuery DEF e
  <2> QED BY <1>3, <2>3, <2>4, <2>6 DEF Live
<1> QED BY <1>2, <1>3

LEMMA ReleaseKeeps ==
    ASSUME WatchInv, NEW w \in Workers, NEW q \in Queries, Release(w, q)
    PROVE  WatchInv'
<1> DEFINE j == job[w]
           n == Advanced(j, q, "idle", {})
<1>1. /\ j.stage = "releasing" /\ q \in j.todo /\ query' = Released(q, j.frame)
      /\ job' = [job EXCEPT ![w] = n] /\ SessionType' /\ EndInv' /\ j \in JobType
  BY JobTypes DEF Release, At, WatchInv, SessionType, EndInv
<1>2. Onward(j, n, q, "idle", {})
  BY <1>1, AdvancedJob DEF Stages
<1>3. Touches(q) /\ query'[q].inFlight = query[q].inFlight /\ (Live(q)' => Live(q))
  BY <1>1, ReleasedStep
<1>4. Live(q)' => query'[q].processing = 0
  <2>1. Live(q) => query[q].processing = j.frame
    BY <1>1, JobTypes DEF WorkerInv, Claims, Claiming
  <2> QED BY <1>1, <2>1, ReleasedStep
<1> HIDE DEF n
<1> QED BY <1>1, <1>2, <1>3, <1>4, ClaimDealt

LEMMA FailMappingKeeps ==
    ASSUME WatchInv, NEW w \in Workers, NEW q \in Queries, FailMapping(w, q)
    PROVE  WatchInv'
<1> DEFINE j == job[w]
           n == Advanced(j, q, "idle", {})
           stop == query[q].stopped \/ authority # None \/ schedulerClosed
           hit == Live(q) /\ query[q].processing = j.frame /\ query[q].pending = j.frame
<1>1. /\ j.stage = "failing" /\ q \in j.todo
      /\ job' = [job EXCEPT ![w] = n] /\ SessionType' /\ EndInv' /\ j \in JobType
      /\ {"Cancelled", "Failed"} \subseteq Outcomes \ {"Matched"} /\ "Failed" \in Dispositions
  BY JobTypes DEF FailMapping, At, WatchInv, SessionType, EndInv, Outcomes, Dispositions
<1>2. Onward(j, n, q, "idle", {})
  BY <1>1, AdvancedJob DEF Stages
<1>3. j.frame # 0 /\ (Live(q) => query[q].processing = j.frame)
  BY <1>1, JobTypes DEF WorkerInv, Claims, Claiming
<1>4. /\ Touches(q)
      /\ Live(q)' => /\ Live(q) /\ query'[q].processing = 0
                     /\ query'[q].inFlight = query[q].inFlight
  <2>1. CASE stop
    <3>1. query' = Terminated(q, "Cancelled")
      BY <2>1 DEF FailMapping
    <3> QED BY <1>1, <3>1, TerminatedStep
  <2>2. CASE ~stop /\ hit
    <3>1. query' = [query EXCEPT ![q] = GivenUp(query[q], "Failed", "Failed")]
      BY <2>2 DEF FailMapping, GivenUp
    <3> QED BY <1>1, <1>3, <2>2, <3>1, GivenUpStep
  <2>3. CASE ~stop /\ ~hit
    <3>1. query' = Released(q, j.frame)
      BY <2>3 DEF FailMapping
    <3> QED BY <1>3, <3>1, ReleasedStep
  <2> QED BY <2>1, <2>2, <2>3
<1> HIDE DEF n
<1> QED BY <1>1, <1>2, <1>4, ClaimDealt

(* A claimed query has been dealt with in admission: `kept` are those that *)
(* go on to the analysis.                                                  *)
LEMMA AdmitDealt ==
    ASSUME WatchInv, NEW w \in Workers, NEW q \in job[w].todo,
           job[w].stage = "admitting",
           NEW kept \in {job[w].joined, job[w].joined \cup {q}},
           NEW n, Onward(job[w], n, q, "analysing", kept), job' = [job EXCEPT ![w] = n],
           Touches(q), Live(q)' => Live(q) /\ query'[q].processing = 0,
           \/ /\ kept = job[w].joined
              /\ Live(q)' /\ InFlight(query'[q]) => query'[q].inFlight = query[q].inFlight
           \/ /\ kept = job[w].joined \cup {q}
              /\ query[q].generation + 1 = job[w].generation
              /\ query'[q].generation = job[w].generation
              /\ query'[q].inFlight = [generation |-> job[w].generation,
                                       frame |-> job[w].frame],
           SessionType', EndInv'
    PROVE  WatchInv'
<1> DEFINE j == job[w]
<1>1. /\ WorkerInv(w) /\ q \in Queries /\ j.todo \subseteq Queries /\ j.joined \subseteq Queries
      /\ n \in JobType /\ job'[w] = n /\ j.frame # 0 /\ j.generation # 0 /\ j.at = None
  BY JobTypes, JobStep DEF Onward, WorkerInv
<1>2. \/ /\ n.stage = "admitting" /\ n.todo = j.todo \ {q} /\ n.joined = kept
         /\ n.frame = j.frame /\ n.generation = j.generation /\ n.at = None
      \/ /\ j.todo \ {q} = {} /\ n.stage = "analysing" /\ n.todo = kept /\ n.joined = {}
         /\ n.frame = j.frame /\ n.generation = j.generation /\ n.at = None
      \/ /\ j.todo \ {q} = {} /\ kept = {} /\ n.stage = "idle" /\ n.todo = {}
         /\ n.joined = {} /\ n.at = None
  BY <1>1 DEF Onward
<1>3. \A p \in Queries : /\ Claims(w, p) <=> p \in j.todo
                         /\ Claims(w, p)' <=> p \in j.todo /\ p # q
                         /\ Analyses(w, p) <=> p \in j.joined
                         /\ Analyses(w, p)' <=> p \in kept
  BY <1>1, <1>2 DEF Claims, Analyses, Claiming
<1>4. WorkerInv(w)'
  <2>1. \A p \in Queries : Claims(w, p)' /\ Live(p)' =>
           /\ query'[p].processing = n.frame
           /\ query'[p].generation + 1 = n.generation
    <3> SUFFICES ASSUME NEW p \in Queries, Claims(w, p)', Live(p)'
                 PROVE  /\ query'[p].processing = n.frame
                        /\ query'[p].generation + 1 = n.generation
      OBVIOUS
    <3>1. /\ query'[p] = query[p] /\ Live(p) /\ Claims(w, p)
          /\ n.frame = j.frame /\ n.generation = j.generation
      BY <1>1, <1>2, <1>3, OthersKept
    <3> QED BY <1>1, <3>1 DEF WorkerInv
  <2>2. \A p \in n.todo \cup n.joined : query'[p].registered
    BY <1>1, <1>2, OthersKept DEF WorkerInv
  <2>3. /\ n.stage # "idle" => n.frame # 0 /\ n.generation # 0
        /\ n.stage # "admitting" => n.joined = {}
        /\ n.stage \notin {"picked", "completing"} /\ n.at = None
    BY <1>1, <1>2
  <2>4. \A p \in Queries : Analyses(w, p)' => n.generation <= query'[p].generation
    <3> SUFFICES ASSUME NEW p \in Queries, p \in kept
                 PROVE  n.generation <= query'[p].generation
      BY <1>3
    <3>1. n.generation = j.generation /\ n.generation \in Nat
      BY <1>1, <1>2 DEF JobType
    <3>2. CASE p \in j.joined
      <4>1. j.generation <= query[p].generation
        BY <1>1, <1>3, <3>2 DEF WorkerInv
      <4>2. /\ query[p].generation <= query'[p].generation
            /\ query[p].generation \in Nat /\ query'[p].generation \in Nat
        BY <1>1, OthersKept
      <4> QED BY <3>1, <4>1, <4>2
    <3>3. CASE p \notin j.joined
      <4>1. p = q /\ query'[q].generation = j.generation
        BY <3>3
      <4> QED BY <3>1, <4>1
    <3> QED BY <3>2, <3>3
  <2> QED BY <1>1, <2>1, <2>2, <2>3, <2>4 DEF WorkerInv
<1>5. Analyses(w, q)' => Analyses(w, q) \/ query[q].generation < job[w].generation
  BY <1>1, <1>3, OthersKept
<1>6. \A p \in Queries : p # q =>
         /\ Claims(w, p)' <=> Claims(w, p)
         /\ Analyses(w, p)' <=> Analyses(w, p)
  BY <1>3
<1>7. ASSUME Live(q)', InFlight(query'[q])
      PROVE  \/ Analyses(w, q)' /\ Holds(w, q)'
             \/ /\ query'[q].inFlight = query[q].inFlight
                /\ ~(Analyses(w, q) /\ Holds(w, q))
  <2>1. CASE q \in kept
    <3>1. n.frame = j.frame /\ n.generation = j.generation
      BY <1>2, <2>1
    <3> QED BY <1>1, <1>3, <1>7, <2>1, <3>1 DEF Holds
  <2>2. CASE q \notin kept
    BY <1>1, <1>3, <1>7, <2>2
  <2> QED BY <2>1, <2>2
<1>8. n.stage # "idle" => n.frame = job[w].frame /\ n.generation = job[w].generation
  BY <1>2
<1> QED BY <1>1, <1>3, <1>4, <1>5, <1>6, <1>7, <1>8, WorkerStep

LEMMA AdmitFacts ==
    ASSUME WatchInv, NEW w \in Workers, NEW q \in Queries, Admit(w, q)
    PROVE  /\ job[w].stage = "admitting" /\ q \in job[w].todo /\ job[w] \in JobType
           /\ SessionType' /\ EndInv' /\ job[w].frame # 0
           /\ job[w].joined \in SUBSET Queries /\ job[w].joined \cup {q} \in SUBSET Queries
           /\ Live(q) => /\ query[q].processing = job[w].frame
                         /\ query[q].generation + 1 = job[w].generation
<1>1. job[w].stage = "admitting" /\ q \in job[w].todo /\ SessionType' /\ EndInv'
  BY DEF Admit, At, WatchInv, SessionType, EndInv
<1> QED BY <1>1, JobTypes DEF WorkerInv, Claims, Claiming

LEMMA AdmitObsoleteKeeps ==
    ASSUME WatchInv, NEW w \in Workers, NEW q \in Queries, Admit(w, q), AdmitObsolete(w, q)
    PROVE  WatchInv'
<1> DEFINE j == job[w]
           n == Advanced(j, q, "analysing", j.joined)
           stop == Live(q) /\ query[q].stopped
           end == Live(q) /\ (authority # None \/ closed \/ schedulerClosed)
<1>1. job' = [job EXCEPT ![w] = n] /\ {"Cancelled", "SessionClosed"} \subseteq Outcomes \ {"Matched"}
  BY DEF AdmitObsolete, Outcomes
<1>2. Onward(j, n, q, "analysing", j.joined)
  BY AdmitFacts, AdvancedJob DEF Stages
<1>3. /\ Touches(q)
      /\ Live(q)' => /\ Live(q) /\ query'[q].processing = 0
                     /\ query'[q].inFlight = query[q].inFlight
  <2>1. CASE stop
    <3>1. query' = Terminated(q, "Cancelled")
      BY <2>1 DEF AdmitObsolete
    <3> QED BY <1>1, <3>1, TerminatedStep
  <2>2. CASE ~stop /\ end
    <3>1. query' = Terminated(q, "SessionClosed")
      BY <2>2 DEF AdmitObsolete
    <3> QED BY <1>1, <3>1, TerminatedStep
  <2>3. CASE ~stop /\ ~end
    <3>1. query' = Released(q, j.frame)
      BY <2>3 DEF AdmitObsolete
    <3> QED BY <3>1, ReleasedStep, AdmitFacts
  <2> QED BY <2>1, <2>2, <2>3
<1> HIDE DEF n
<1> QED BY <1>1, <1>2, <1>3, AdmitFacts, AdmitDealt

LEMMA AdmitSkipKeeps ==
    ASSUME WatchInv, NEW w \in Workers, NEW q \in Queries, Admit(w, q), AdmitSkip(w, q)
    PROVE  WatchInv'
<1> DEFINE j == job[w]
           n == [Advanced(j, q, "analysing", j.joined) EXCEPT !.settle = q]
           e == Skipped(query[q])
<1>1. /\ Live(q) /\ query[q].processing = j.frame /\ query[q].pending = j.frame
      /\ query[q].confirmed = {} /\ job' = [job EXCEPT ![w] = n]
  BY DEF AdmitSkip, Admissible
<1>2. query' = [query EXCEPT ![q] = e]
  BY <1>1 DEF AdmitSkip, Skipped
<1>3. Onward(j, n, q, "analysing", j.joined)
  BY AdmitFacts, AdvancedJob DEF Stages
<1>4. query[q] \in QueryType /\ Sound(query[q]) /\ Lives(query[q]) /\ j.frame # 0
  BY <1>1, QueryFacts, AdmitFacts
<1>5. /\ e \in QueryType /\ Sound(e) /\ Follows(query[q], e)
      /\ e.processing = 0 /\ ~InFlight(e) /\ e.terminal = query[q].terminal
  BY <1>1, <1>4, SkippedSound
<1>6. e.terminal # "Matched"
  BY <1>1, <1>5 DEF Live, Outcomes
<1> HIDE DEF e, n
<1>7. Touches(q) /\ query'[q] = e
  BY <1>2, <1>5, <1>6, OneQuery
<1> QED BY <1>1, <1>3, <1>5, <1>7, AdmitFacts, AdmitDealt

LEMMA AdmitDeferKeeps ==
    ASSUME WatchInv, NEW w \in Workers, NEW q \in Queries, Admit(w, q), AdmitDefer(w, q)
    PROVE  WatchInv'
<1> DEFINE j == job[w]
           n == Advanced(j, q, "analysing", j.joined)
           e == Claimed(query[q], 0, "held")
<1>1. /\ Live(q) /\ query[q].processing = j.frame /\ job' = [job EXCEPT ![w] = n]
  BY DEF AdmitDefer, Admissible
<1>2. query' = [query EXCEPT ![q] = e]
  BY DEF AdmitDefer, Claimed
<1>3. Onward(j, n, q, "analysing", j.joined)
  BY AdmitFacts, AdvancedJob DEF Stages
<1>4. query[q] \in QueryType /\ Sound(query[q]) /\ Lives(query[q]) /\ 0 \in FramesOrNone
  BY <1>1, QueryFacts, RecordTypes
<1>5. e \in QueryType /\ Sound(e) /\ Follows(query[q], e) /\ e.processing = 0
  <2>1. \A x \in QueryType : Sound(x) =>
           LET y == Claimed(x, 0, "held")
           IN  y \in QueryType /\ Sound(y) /\ Follows(x, y) /\ y.processing = 0
    BY <1>4, ClaimSound
  <2> QED BY <1>4, <2>1
<1>6. e.terminal = query[q].terminal /\ e.inFlight = query[q].inFlight
  BY <1>4 DEF Claimed, QueryType
<1>7. e.terminal # "Matched"
  BY <1>1, <1>6 DEF Live, Outcomes
<1> HIDE DEF e, n
<1>8. Touches(q) /\ query'[q] = e
  BY <1>2, <1>5, <1>7, OneQuery
<1> QED BY <1>1, <1>3, <1>5, <1>6, <1>8, AdmitFacts, AdmitDealt

LEMMA AdmitAnalysisKeeps ==
    ASSUME WatchInv, NEW w \in Workers, NEW q \in Queries, Admit(w, q), AdmitAnalysis(w, q)
    PROVE  WatchInv'
<1> DEFINE j == job[w]
           n == Advanced(j, q, "analysing", j.joined \cup {q})
           e == AdmittedFor(query[q])
<1>1. /\ Live(q) /\ query[q].processing = j.frame /\ query[q].pending = j.frame
      /\ job' = [job EXCEPT ![w] = n]
  BY DEF AdmitAnalysis, Admissible
<1>2. query' = [query EXCEPT ![q] = e]
  <2>1. query[q].pending = job[w].frame
    BY <1>1
  <2> DEFINE x == [query[q] EXCEPT !.generation = @ + 1, !.rate = "none",
                                   !.pending = 0, !.processing = 0,
                                   !.inFlight = [generation |-> query[q].generation + 1,
                                                 frame |-> job[w].frame]]
  <2>2. query' = [query EXCEPT ![q] = x]
    BY DEF AdmitAnalysis
  <2>3. x = e
    BY <2>1 DEF AdmittedFor
  <2> HIDE DEF x, e
  <2> QED BY <2>2, <2>3
<1>3. Onward(j, n, q, "analysing", j.joined \cup {q})
  BY AdmitFacts, AdvancedJob DEF Stages
<1>4. query[q] \in QueryType /\ Sound(query[q]) /\ Lives(query[q]) /\ j.frame # 0
  BY <1>1, QueryFacts, AdmitFacts
<1>5. /\ e \in QueryType /\ Sound(e) /\ Follows(query[q], e) /\ e.processing = 0
      /\ e.generation = query[q].generation + 1 /\ e.terminal = query[q].terminal
      /\ e.inFlight = [generation |-> query[q].generation + 1, frame |-> query[q].pending]
  BY <1>1, <1>4, AdmittedSound
<1>6. e.terminal # "Matched"
  BY <1>1, <1>5 DEF Live, Outcomes
<1> HIDE DEF e, n
<1>7. Touches(q) /\ query'[q] = e
  BY <1>2, <1>5, <1>6, OneQuery
<1>8. /\ query[q].generation + 1 = j.generation /\ query'[q].generation = j.generation
      /\ query'[q].inFlight = [generation |-> j.generation, frame |-> j.frame]
  BY <1>1, <1>5, <1>7, AdmitFacts
<1> QED BY <1>1, <1>3, <1>5, <1>7, <1>8, AdmitFacts, AdmitDealt

LEMMA AdmitKeeps ==
    ASSUME WatchInv, NEW w \in Workers, NEW q \in Queries, Admit(w, q) PROVE WatchInv'
BY AdmitObsoleteKeeps, AdmitSkipKeeps, AdmitDeferKeeps, AdmitAnalysisKeeps DEF Admit

-----------------------------------------------------------------------------
(* Analysis and completion.                                                *)

LEMMA ConcludedSound ==
    ASSUME WatchInv, NEW q \in Queries, Live(q), InFlight(query[q]),
           NEW f, f = query[q].inFlight.frame,
           NEW result \in {"empty", "found", "error"}, NEW stable \in BOOLEAN,
           stable => Cardinality(query[q].confirmed) + 1 >= Required[q]
    PROVE  LET e == Concluded(q, f, result, stable) IN
           /\ e \in QueryType /\ Sound(e) /\ Follows(query[q], e)
           /\ e.terminal = "Matched" => Cardinality(e.confirmed) >= Required[q]
           /\ Lives(e) => /\ e.processing = query[q].processing
                          /\ e.generation = query[q].generation /\ ~InFlight(e)
<1> DEFINE d == query[q]
           a == [d EXCEPT !.inFlight = NoFlight, !.last = f]
           c(k) == Counted(a, k, 1)
           streak == d.confirmed \cup {f}
           e == Concluded(q, f, result, stable)
<1>1. d \in QueryType /\ Sound(d) /\ Lives(d) /\ InFlight(d)
  BY QueryFacts
<1>2. a \in QueryType /\ f \in FramesOrNone
  <2>1. NoFlight \in [generation : Nat, frame : FramesOrNone] /\ f \in FramesOrNone
    BY <1>1, RecordTypes
  <2> QED BY <1>1, <2>1 DEF QueryType
<1>3. /\ a.mapped = d.mapped /\ a.confirmed = d.confirmed /\ a.empties = d.empties
  BY <1>1 DEF QueryType
<1>4. "Completed" \in Dispositions /\ "Failed" \in Dispositions /\ "Failed" \in Outcomes
      /\ "Matched" \in Outcomes /\ TRUE \in BOOLEAN /\ d.mapped \in BOOLEAN
  BY <1>1, RecordTypes DEF Dispositions, Outcomes
<1> HIDE DEF a
<1>5. \A k \in Dispositions :
         /\ c(k) \in QueryType
         /\ c(k).mapped = d.mapped /\ c(k).confirmed = d.confirmed /\ c(k).empties = d.empties
  <2> SUFFICES ASSUME NEW k \in Dispositions
               PROVE  /\ c(k) \in QueryType /\ c(k).mapped = d.mapped
                      /\ c(k).confirmed = d.confirmed /\ c(k).empties = d.empties
    OBVIOUS
  <2>1. c(k) \in QueryType /\ \E work \in [Dispositions -> Nat] : c(k) = [a EXCEPT !.work = work]
    BY <1>2, CountedRecord
  <2>2. PICK work \in [Dispositions -> Nat] : c(k) = [a EXCEPT !.work = work]
    BY <2>1
  <2>3. /\ [a EXCEPT !.work = work].mapped = a.mapped
        /\ [a EXCEPT !.work = work].confirmed = a.confirmed
        /\ [a EXCEPT !.work = work].empties = a.empties
    BY <1>2 DEF QueryType
  <2> HIDE DEF c
  <2> QED BY <1>3, <2>1, <2>2, <2>3
<1>6. /\ f \notin d.confirmed /\ IsFiniteSet(d.confirmed)
      /\ Cardinality(streak) = Cardinality(d.confirmed) + 1
  <2>1. IsFiniteSet(Frames) /\ d.confirmed \subseteq Frames
    <3>1. 1 \in Int /\ MaxFrame \in Int
      OBVIOUS
    <3>2. IsFiniteSet(Frames)
      BY <3>1, FS_Interval
    <3> QED BY <1>1, <3>2, RecordTypes
  <2>2. IsFiniteSet(d.confirmed)
    BY <2>1, FS_Subset
  <2>3. /\ d.last < f /\ d.last \in FramesOrNone
        /\ \A g \in d.confirmed : g <= d.last /\ g \in Nat
    BY <1>1, <2>1, RecordTypes DEF Sound, Ordered, Streak
  <2>4. f \notin d.confirmed
    <3> SUFFICES ASSUME f \in d.confirmed PROVE FALSE
      OBVIOUS
    <3> QED BY <1>2, <2>3
  <2> QED BY <2>2, <2>4, FS_AddElement
<1>7. CASE result = "error"
  <2> DEFINE g == Landed(d, "Failed", d.mapped, d.confirmed, d.empties)
  <2>1. [c("Failed") EXCEPT !.mapped = d.mapped, !.confirmed = d.confirmed,
                            !.empties = d.empties] = c("Failed")
    <3>1. /\ c("Failed") \in QueryType /\ c("Failed").mapped = d.mapped
          /\ c("Failed").confirmed = d.confirmed /\ c("Failed").empties = d.empties
      BY <1>4, <1>5
    <3> HIDE DEF c
    <3> QED BY <3>1 DEF QueryType
  <2>2. g = c("Failed")
    BY <2>1 DEF Landed, a
  <2>3. e = Ended(g, "Failed")
    BY <1>7, <2>2 DEF Concluded, a
  <2>4. g \in QueryType /\ Sound(g) /\ Follows(d, g) /\ Lives(g)
    BY <1>1, <1>4, LandedSound
  <2> HIDE DEF g
  <2>5. /\ Ended(g, "Failed") \in QueryType /\ Sound(Ended(g, "Failed"))
        /\ Follows(g, Ended(g, "Failed")) /\ Ended(g, "Failed").terminal = "Failed"
        /\ ~Lives(Ended(g, "Failed"))
    BY <1>4, <2>4, EndedSound
  <2> HIDE DEF e
  <2>6. e \in QueryType /\ Sound(e) /\ Follows(g, e) /\ e.terminal # "Matched" /\ ~Lives(e)
    BY <2>3, <2>5
  <2>7. Follows(d, e)
    <3>1. d.generation \in Nat /\ g.generation \in Nat /\ e.generation \in Nat
      BY <1>1, <2>4, <2>6, RecordTypes
    <3> QED BY <2>4, <2>6, <3>1 DEF Follows
  <2> QED BY <2>6, <2>7 DEF e
<1>8. CASE result = "empty"
  <2> DEFINE g == Landed(d, "Completed", TRUE, {}, d.empties \cup {f})
  <2>1. e = [c("Completed") EXCEPT !.mapped = TRUE, !.confirmed = {},
                                   !.empties = c("Completed").empties \cup {f}]
    BY <1>8 DEF Concluded, a
  <2>2. g = [c("Completed") EXCEPT !.mapped = TRUE, !.confirmed = {},
                                   !.empties = d.empties \cup {f}]
    BY DEF Landed, a
  <2>3. c("Completed").empties = d.empties
    BY <1>4, <1>5
  <2>4. e = g
    BY <2>1, <2>2, <2>3
  <2>5. /\ g \in QueryType /\ Sound(g) /\ Follows(d, g) /\ Lives(g)
        /\ g.processing = d.processing /\ g.generation = d.generation /\ ~InFlight(g)
    <3>1. \A m \in BOOLEAN, k \in Dispositions : \A x : x = d.empties \cup {f} =>
             LET y == Landed(d, k, m, {}, x) IN
             /\ y \in QueryType /\ Sound(y) /\ Follows(d, y) /\ Lives(y)
             /\ y.processing = d.processing /\ y.generation = d.generation /\ ~InFlight(y)
      BY <1>1, LandedSound
    <3> QED BY <1>4, <3>1
  <2>6. g.terminal # "Matched"
    BY <1>4, <2>5 DEF Lives, Outcomes
  <2> HIDE DEF e, g
  <2> QED BY <2>4, <2>5, <2>6 DEF e
<1>9. CASE result = "found"
  <2> DEFINE g == Landed(d, "Completed", TRUE, streak, d.empties)
             h == [c("Completed") EXCEPT !.mapped = TRUE, !.confirmed = streak]
  <2>1. g = h
    <3>1. c("Completed") \in QueryType /\ c("Completed").empties = d.empties
      BY <1>4, <1>5
    <3>2. g = [c("Completed") EXCEPT !.mapped = TRUE, !.confirmed = streak,
                                     !.empties = d.empties]
      BY DEF Landed, a
    <3> HIDE DEF c, streak, g
    <3> QED BY <3>1, <3>2 DEF QueryType
  <2>2. /\ g \in QueryType /\ Sound(g) /\ Follows(d, g) /\ Lives(g)
        /\ g.processing = d.processing /\ g.generation = d.generation /\ ~InFlight(g)
        /\ g.confirmed = streak
    <3>1. \A m \in BOOLEAN, k \in Dispositions : \A s : s = d.confirmed \cup {f} =>
             LET y == Landed(d, k, m, s, d.empties) IN
             /\ y \in QueryType /\ Sound(y) /\ Follows(d, y) /\ Lives(y)
             /\ y.processing = d.processing /\ y.generation = d.generation /\ ~InFlight(y)
             /\ y.confirmed = s
      BY <1>1, LandedSound
    <3> QED BY <1>4, <3>1
  <2>3. CASE ~stable
    <3>1. e = h
      BY <1>9, <2>3 DEF Concluded, a
    <3>2. g.terminal # "Matched"
      BY <1>4, <2>2 DEF Lives, Outcomes
    <3> HIDE DEF e, g, h
    <3> QED BY <2>1, <2>2, <3>1, <3>2 DEF e
  <2>4. CASE stable
    <3>1. e = Ended(h, "Matched")
      BY <1>9, <2>4 DEF Concluded, a
    <3> HIDE DEF g, h
    <3>2. /\ Ended(g, "Matched") \in QueryType /\ Sound(Ended(g, "Matched"))
          /\ Follows(g, Ended(g, "Matched")) /\ Ended(g, "Matched").confirmed = streak
          /\ ~Lives(Ended(g, "Matched"))
      BY <1>4, <2>2, EndedSound
    <3> HIDE DEF e, streak
    <3>3. e \in QueryType /\ Sound(e) /\ Follows(g, e) /\ e.confirmed = streak /\ ~Lives(e)
      BY <2>1, <3>1, <3>2
    <3>4. Follows(d, e)
      <4>1. d.generation \in Nat /\ g.generation \in Nat /\ e.generation \in Nat
        BY <1>1, <2>2, <3>3, RecordTypes
      <4> QED BY <2>2, <3>3, <4>1 DEF Follows
    <3>5. Cardinality(e.confirmed) >= Required[q]
      BY <1>6, <2>4, <3>3
    <3> QED BY <3>3, <3>4, <3>5 DEF e
  <2> QED BY <2>3, <2>4
<1> QED BY <1>7, <1>8, <1>9

(* The result has reached the query, or found that it is not wanted.       *)
LEMMA ResultDealt ==
    ASSUME WatchInv, NEW w \in Workers, NEW q \in job[w].todo,
           job[w].stage = "completing",
           NEW j \in JobType, j.stage = "completing" /\ j.todo = job[w].todo,
           j.frame = job[w].frame /\ j.generation = job[w].generation,
           j.result = job[w].result /\ j.at = None,
           NEW n, Onward(j, n, q, "idle", {}), job' = [job EXCEPT ![w] = n],
           Touches(q),
           Live(q)' => /\ Live(q) /\ query'[q].processing = query[q].processing
                       /\ query'[q].generation = query[q].generation
                       /\ InFlight(query'[q]) =>
                             query'[q].inFlight = query[q].inFlight /\ ~Holds(w, q),
           SessionType', EndInv'
    PROVE  WatchInv'
<1>1. /\ WorkerInv(w) /\ q \in Queries /\ job[w].todo \subseteq Queries
      /\ job[w].joined = {} /\ n \in JobType /\ job'[w] = n
      /\ job[w].frame # 0 /\ job[w].generation # 0 /\ job[w].result # "none"
      /\ n.joined = {} /\ n.at = None
      /\ \/ /\ n.stage = "completing" /\ n.todo = job[w].todo \ {q}
            /\ n.frame = job[w].frame /\ n.generation = job[w].generation
            /\ n.result = job[w].result
         \/ job[w].todo \ {q} = {} /\ n.stage = "idle" /\ n.todo = {}
  <2>1. /\ WorkerInv(w) /\ q \in Queries /\ job[w].todo \subseteq Queries
        /\ n \in JobType /\ job'[w] = n
    BY JobTypes, JobStep DEF Onward
  <2>2. /\ job[w].joined = {} /\ job[w].frame # 0 /\ job[w].generation # 0
        /\ job[w].result # "none"
    BY <2>1 DEF WorkerInv
  <2>3. /\ n.joined = {} /\ n.at = None
        /\ \/ /\ n.stage = "completing" /\ n.todo = job[w].todo \ {q}
              /\ n.frame = job[w].frame /\ n.generation = job[w].generation
              /\ n.result = job[w].result
           \/ job[w].todo \ {q} = {} /\ n.stage = "idle" /\ n.todo = {}
    BY DEF Onward
  <2> QED BY <2>1, <2>2, <2>3
<1>2. \A p \in Queries : /\ ~Claims(w, p) /\ ~Claims(w, p)'
                         /\ Analyses(w, p) <=> p \in job[w].todo
                         /\ Analyses(w, p)' <=> p \in job[w].todo /\ p # q
  BY <1>1 DEF Claims, Analyses, Claiming
<1>3. WorkerInv(w)'
  <2>1. \A p \in Queries : Analyses(w, p)' => n.generation <= query'[p].generation
    <3> SUFFICES ASSUME NEW p \in Queries, Analyses(w, p)'
                 PROVE  n.generation <= query'[p].generation
      OBVIOUS
    <3>1. query'[p] = query[p] /\ n.generation = job[w].generation /\ Analyses(w, p)
      BY <1>1, <1>2, OthersKept
    <3> QED BY <1>1, <3>1 DEF WorkerInv
  <2>2. \A p \in n.todo \cup n.joined : query'[p].registered
    BY <1>1, OthersKept DEF WorkerInv
  <2> QED BY <1>1, <1>2, <2>1, <2>2 DEF WorkerInv
<1>4. \A p \in Queries : p # q =>
         /\ Claims(w, p)' <=> Claims(w, p)
         /\ Analyses(w, p)' <=> Analyses(w, p)
  BY <1>2
<1>5. n.stage # "idle" => n.frame = job[w].frame /\ n.generation = job[w].generation
  BY <1>1
<1> QED BY <1>1, <1>2, <1>3, <1>4, <1>5, WorkerStep

(* A step of a worker that leaves its queries as they are, or ends q, and  *)
(* holds on to its claims and its part in the analysis.                    *)
LEMMA WorkerHolds ==
    ASSUME WatchInv, NEW w \in Workers, NEW q \in Queries, NEW n \in JobType,
           job' = [job EXCEPT ![w] = n], Touches(q),
           ~Live(q)' \/ query' = query, SessionType', EndInv', WorkerInv(w)',
           n.stage # "idle" => n.frame = job[w].frame /\ n.generation = job[w].generation,
           \A p \in Queries : /\ Claims(w, p)' <=> Claims(w, p)
                              /\ Analyses(w, p)' <=> Analyses(w, p)
    PROVE  WatchInv'
<1>1. Live(q)' => query'[q] = query[q] /\ Live(q)
  BY DEF Live
<1>2. job'[w] = n /\ (Analyses(w, q)' => n.stage # "idle")
  BY JobStep DEF Analyses
<1>3. ASSUME Live(q)' PROVE Analyses(w, q) /\ Holds(w, q) => Holds(w, q)'
  BY <1>1, <1>2, <1>3 DEF Holds
<1> QED BY <1>1, <1>3, WorkerStep

LEMMA CompleteAskKeeps ==
    ASSUME WatchInv, NEW w \in Workers, NEW q \in Queries, CompleteAsk(w, q)
    PROVE  WatchInv'
<1> DEFINE j == job[w]
           refusal == IF query[q].stopped THEN "Cancelled"
                      ELSE IF captureEnd = "lost" THEN "TargetLost"
                      ELSE IF captureEnd = "closed" THEN "SessionClosed" ELSE None
           m == [j EXCEPT !.at = q, !.refusal = refusal]
           n == Advanced(j, q, "idle", {})
<1>1. /\ j.stage = "completing" /\ q \in j.todo /\ j.at = None /\ query' = query
      /\ SessionType' /\ EndInv' /\ j \in JobType /\ WorkerInv(w)
      /\ job' = [job EXCEPT ![w] = IF Live(q) /\ Holds(w, q) THEN m ELSE n]
  BY JobTypes DEF CompleteAsk, At, WatchInv, SessionType, EndInv
<1>2. Touches(q) /\ (Live(q)' <=> Live(q)) /\ query'[q] = query[q]
  BY <1>1, NoQuery DEF Live
<1>3. CASE Live(q) /\ Holds(w, q)
  <2>1. refusal \in {None, "Cancelled", "TargetLost", "SessionClosed"}
    OBVIOUS
  <2> HIDE DEF refusal
  <2>2. /\ m \in JobType /\ m.stage = j.stage /\ m.todo = j.todo /\ m.joined = j.joined
        /\ m.frame = j.frame /\ m.generation = j.generation /\ m.at = q
        /\ m.result = j.result
    BY <1>1, <2>1 DEF JobType
  <2> HIDE DEF m, n
  <2>3. job' = [job EXCEPT ![w] = m] /\ job'[w] = m
    BY <1>1, <1>3, <2>2, JobStep
  <2>4. \A p \in Queries : /\ Claims(w, p)' <=> Claims(w, p)
                           /\ Analyses(w, p)' <=> Analyses(w, p)
    BY <2>2, <2>3 DEF Claims, Analyses
  <2>5. WorkerInv(w)'
    <3>1. \A p \in Queries : Live(p)' <=> Live(p)
      BY <1>1 DEF Live
    <3> QED BY <1>1, <2>2, <2>3, <2>4, <3>1 DEF WorkerInv
  <2> QED BY <1>1, <1>2, <2>2, <2>3, <2>4, <2>5, WorkerHolds
<1>4. CASE ~(Live(q) /\ Holds(w, q))
  <2>1. Onward(j, n, q, "idle", {})
    BY <1>1, AdvancedJob DEF Stages
  <2> HIDE DEF n
  <2>2. job' = [job EXCEPT ![w] = n]
    BY <1>1, <1>4
  <2> QED BY <1>1, <1>2, <1>4, <2>1, <2>2, ResultDealt
<1> QED BY <1>3, <1>4

LEMMA CompleteCommitKeeps ==
    ASSUME WatchInv, NEW w \in Workers, CompleteCommit(w) PROVE WatchInv'
<1>a. job[w].stage = "completing" /\ job[w].at # None
  BY DEF CompleteCommit, At
<1>b. PICK q \in Queries : q = job[w].at
  BY <1>a, JobTypes DEF JobType
<1> DEFINE j == [job[w] EXCEPT !.at = None, !.refusal = None]
           n == [Advanced(j, q, "idle", {}) EXCEPT !.settle = q]
           k == Cardinality(query[q].confirmed) + 1
           ended == IF closed \/ authority # None \/ schedulerClosed
                      THEN "SessionClosed" ELSE job[w].refusal
<1>1. /\ job[w].stage = "completing" /\ q \in job[w].todo /\ q \in Queries
      /\ SessionType' /\ EndInv' /\ job[w] \in JobType /\ WorkerInv(w)
      /\ job' = [job EXCEPT ![w] = n] /\ job[w].result \in {"empty", "found", "error"}
      /\ ended \in {None, "Cancelled", "TargetLost", "SessionClosed"}
      /\ {"Cancelled", "TargetLost", "SessionClosed"} \subseteq Outcomes \ {"Matched"}
  <2>1. job[w].stage = "completing" /\ q # None /\ job' = [job EXCEPT ![w] = n]
    BY <1>a, <1>b DEF CompleteCommit
  <2>2. job[w] \in JobType /\ WorkerInv(w) /\ q \in job[w].todo /\ q \in Queries
    BY <1>b, <2>1, JobTypes DEF WorkerInv
  <2>3. SessionType' /\ EndInv'
    BY DEF CompleteCommit, WatchInv, SessionType, EndInv
  <2>4. job[w].result \in {"empty", "found", "error"}
    BY <2>1, <2>2 DEF WorkerInv, JobType
  <2>5. job[w].refusal \in {None, "Cancelled", "TargetLost", "SessionClosed"}
    BY <2>2 DEF JobType
  <2> HIDE DEF n
  <2> QED BY <2>1, <2>2, <2>3, <2>4, <2>5 DEF Outcomes
<1>2. PICK stable \in {MayBeStable(q, k), MustBeStable(q, k)} :
         query' = IF ended # None THEN Terminated(q, ended)
                  ELSE IF ~Holds(w, q) \/ ~Live(q) THEN query
                  ELSE IF query[q].stopped THEN Terminated(q, "Cancelled")
                  ELSE [query EXCEPT ![q] =
                          Concluded(q, job[w].frame, job[w].result, stable)]
  BY <1>b DEF CompleteCommit
<1>3. stable \in BOOLEAN /\ (stable => k >= Required[q])
  <2>1. MayBeStable(q, k) \in BOOLEAN /\ MustBeStable(q, k) \in BOOLEAN
    BY DEF MayBeStable, MustBeStable
  <2>2. MayBeStable(q, k) \/ MustBeStable(q, k) => k >= Required[q]
    BY DEF MayBeStable, MustBeStable
  <2> HIDE DEF k
  <2> QED BY <2>1, <2>2
<1> HIDE DEF ended, k, n, j
<1>0. /\ ended # None => query' = Terminated(q, ended)
      /\ ended = None /\ (~Holds(w, q) \/ ~Live(q)) => query' = query
      /\ ended = None /\ Holds(w, q) /\ Live(q) /\ query[q].stopped =>
            query' = Terminated(q, "Cancelled")
      /\ ended = None /\ Holds(w, q) /\ Live(q) /\ ~query[q].stopped =>
            query' = [query EXCEPT ![q] =
                         Concluded(q, job[w].frame, job[w].result, stable)]
  BY <1>2
<1>4. /\ j \in JobType /\ j.stage = "completing" /\ j.todo = job[w].todo
      /\ j.frame = job[w].frame /\ j.generation = job[w].generation
      /\ j.result = job[w].result /\ j.at = None
  BY <1>1 DEF JobType, j
<1>5. Onward(j, n, q, "idle", {})
  BY <1>1, <1>4, AdvancedJob DEF Stages, n
<1>6. /\ Touches(q)
      /\ Live(q)' => /\ Live(q) /\ query'[q].processing = query[q].processing
                     /\ query'[q].generation = query[q].generation
                     /\ InFlight(query'[q]) =>
                           query'[q].inFlight = query[q].inFlight /\ ~Holds(w, q)
  <2>1. CASE ended # None
    BY <1>0, <1>1, <2>1, TerminatedStep
  <2>2. CASE ended = None /\ (~Holds(w, q) \/ ~Live(q))
    <3>1. query' = query
      BY <1>0, <2>2
    <3>2. Touches(q) /\ query'[q] = query[q] /\ (Live(q)' <=> Live(q))
      BY <1>1, <3>1, NoQuery DEF Live
    <3>3. InFlight(query'[q]) /\ Live(q) => ~Holds(w, q)
      BY <2>2
    <3> QED BY <3>2, <3>3
  <2>3. CASE ended = None /\ Holds(w, q) /\ Live(q) /\ query[q].stopped
    BY <1>0, <1>1, <2>3, TerminatedStep
  <2>4. CASE ended = None /\ Holds(w, q) /\ Live(q) /\ ~query[q].stopped
    <3> DEFINE e == Concluded(q, job[w].frame, job[w].result, stable)
    <3>1. query' = [query EXCEPT ![q] = e]
      BY <1>0, <2>4
    <3>2. InFlight(query[q]) /\ job[w].frame = query[q].inFlight.frame
      <4>1. job[w].frame # 0
        BY <1>1 DEF WorkerInv
      <4> QED BY <2>4, <4>1 DEF Holds, InFlight, NoFlight
    <3>3. /\ e \in QueryType /\ Sound(e) /\ Follows(query[q], e)
          /\ e.terminal = "Matched" => Cardinality(e.confirmed) >= Required[q]
          /\ Lives(e) => /\ e.processing = query[q].processing
                         /\ e.generation = query[q].generation /\ ~InFlight(e)
      BY <1>1, <1>3, <2>4, <3>2, ConcludedSound DEF k
    <3> HIDE DEF e
    <3>4. Touches(q) /\ query'[q] = e
      BY <1>1, <3>1, <3>3, OneQuery
    <3> QED BY <2>4, <3>3, <3>4 DEF Live, Lives
  <2> QED BY <2>1, <2>2, <2>3, <2>4
<1> QED BY <1>1, <1>4, <1>5, <1>6, ResultDealt

-----------------------------------------------------------------------------
(* A worker takes up work, moves on, or lays it down.                      *)

LEMMA JobDropped ==
    ASSUME WatchInv, NEW w \in Workers, job' = [job EXCEPT ![w] = NoJob], QueriesSound',
           \A p \in Queries : Follows(query[p], query'[p]),
           \A p \in Queries : Live(p)' => Live(p) /\ query'[p] = query[p] /\ ~Claims(w, p),
           \A p \in Queries : Live(p)' /\ ~query'[p].stopped =>
               ~(Analyses(w, p) /\ Holds(w, p)),
           SessionType', EndInv'
    PROVE  WatchInv'
<1>1. /\ job' \in [Workers -> JobType] /\ job'[w] = NoJob
      /\ \A v \in Workers : v # w => job'[v] = job[v]
  BY JobStep, NoJobType
<1>2. \A p \in Queries : ~Claims(w, p)' /\ ~Analyses(w, p)'
  BY <1>1 DEF Claims, Analyses, Claiming, NoJob
<1>3. WorkerInv(w)'
  BY <1>1, <1>2 DEF WorkerInv, NoJob
<1>4. \A p \in Queries : Live(p)' =>
         /\ query'[p].processing = query[p].processing
         /\ query'[p].generation = query[p].generation
         /\ Claims(w, p)' <=> Claims(w, p)
  BY <1>2
<1>5. \A p \in Queries : Live(p)' /\ InFlight(query'[p]) /\ ~query'[p].stopped =>
         /\ query'[p].inFlight = query[p].inFlight
         /\ ~(Analyses(w, p) /\ Holds(w, p))
  OBVIOUS
<1>6. WorkersSound'
  BY <1>1, <1>2, <1>3, <1>4, <1>5, WorkerSteps
<1> QED BY <1>6 DEF WatchInv

(* The same when the queries keep their records.                           *)
LEMMA SameQueries ==
    ASSUME WatchInv, query' = query
    PROVE  /\ QueriesSound' /\ \A p \in Queries : Follows(query[p], query'[p])
           /\ \A p \in Queries : /\ Live(p)' <=> Live(p)
                                 /\ query'[p] = query[p]
BY NoQuery DEF Touches, Live

LEMMA MapKeeps ==
    ASSUME WatchInv, NEW w \in Workers, Map(w) PROVE WatchInv'
<1>1. /\ job[w].stage = "mapping" /\ query' = query /\ SessionType' /\ EndInv'
      /\ job[w] \in JobType /\ WorkerInv(w) /\ job[w].todo \subseteq Queries
  BY JobTypes DEF Map, At, WatchInv, SessionType, EndInv
<1>2. CASE \E q \in job[w].todo : Live(q)
  <2>1. PICK q \in Queries : Live(q)
    BY <1>1, <1>2
  <2>2. PICK stage \in {"admitting", "failing"} :
           job' = [job EXCEPT ![w] = [job[w] EXCEPT !.stage = stage]]
    BY <1>1, <1>2 DEF Map, WatchInv, WorkersSound
  <2> DEFINE n == [job[w] EXCEPT !.stage = stage]
  <2>3. /\ n \in JobType /\ n.stage = stage /\ n.todo = job[w].todo /\ n.joined = job[w].joined
        /\ n.frame = job[w].frame /\ n.generation = job[w].generation /\ n.at = job[w].at
    BY <1>1 DEF JobType
  <2> HIDE DEF n
  <2>4. job' = [job EXCEPT ![w] = n] /\ job'[w] = n
    BY <2>2, <2>3, JobStep DEF n
  <2>5. \A p \in Queries : /\ Claims(w, p)' <=> Claims(w, p)
                           /\ Analyses(w, p)' <=> Analyses(w, p)
    BY <1>1, <2>3, <2>4 DEF Claims, Analyses, Claiming, WorkerInv
  <2>6. WorkerInv(w)'
    BY <1>1, <2>3, <2>4, <2>5, SameQueries DEF WorkerInv
  <2>7. Touches(q)
    BY <1>1, NoQuery
  <2> QED BY <1>1, <2>3, <2>4, <2>5, <2>6, <2>7, WorkerHolds
<1>3. CASE ~ \E q \in job[w].todo : Live(q)
  <2>1. job' = [job EXCEPT ![w] = NoJob]
    BY <1>3 DEF Map
  <2>2. \A p \in Queries : Live(p)' => Live(p) /\ ~Claims(w, p)
    BY <1>1, <1>3, SameQueries DEF Claims
  <2>3. \A p \in Queries : ~Analyses(w, p)
    BY <1>1 DEF Analyses
  <2> QED BY <1>1, <2>1, <2>2, <2>3, SameQueries, JobDropped
<1> QED BY <1>2, <1>3

LEMMA AnalyseKeeps ==
    ASSUME WatchInv, NEW w \in Workers, Analyse(w) PROVE WatchInv'
<1>1. /\ job[w].stage = "analysing" /\ query' = query /\ SessionType' /\ EndInv'
      /\ job[w] \in JobType /\ WorkerInv(w) /\ job[w].todo \subseteq Queries
  BY JobTypes DEF Analyse, At, WatchInv, SessionType, EndInv
<1>2. CASE /\ \E q \in job[w].todo : Live(q)
           /\ \E result \in {"empty", "found", "error"} :
                 job' = [job EXCEPT ![w].stage = "completing", ![w].result = result]
  <2>1. PICK q \in Queries : Live(q)
    BY <1>1, <1>2
  <2>2. PICK result \in {"empty", "found", "error"} :
           job' = [job EXCEPT ![w].stage = "completing", ![w].result = result]
    BY <1>2
  <2> DEFINE n == [job[w] EXCEPT !.stage = "completing", !.result = result]
  <2>3. /\ n \in JobType /\ n.stage = "completing" /\ n.todo = job[w].todo
        /\ n.joined = job[w].joined /\ n.result = result
        /\ n.frame = job[w].frame /\ n.generation = job[w].generation /\ n.at = job[w].at
    BY <1>1 DEF JobType
  <2>4. job' = [job EXCEPT ![w] = n]
    BY <2>2 DEF WatchInv, WorkersSound
  <2> HIDE DEF n
  <2>5. job'[w] = n
    BY <2>3, <2>4, JobStep
  <2>6. \A p \in Queries : /\ Claims(w, p)' <=> Claims(w, p)
                           /\ Analyses(w, p)' <=> Analyses(w, p)
    BY <1>1, <2>3, <2>5 DEF Claims, Analyses, Claiming
  <2>7. WorkerInv(w)'
    BY <1>1, <2>3, <2>5, <2>6, SameQueries DEF WorkerInv
  <2>8. Touches(q)
    BY <1>1, NoQuery
  <2> QED BY <1>1, <2>3, <2>4, <2>6, <2>7, <2>8, WorkerHolds
<1>3. CASE /\ \A q \in job[w].todo : Live(q) => query[q].stopped
           /\ job' = [job EXCEPT ![w] = NoJob]
  <2>1. \A p \in Queries : ~Claims(w, p)
    BY <1>1 DEF Claims, Claiming
  <2>2. \A p \in Queries : Live(p)' /\ ~query'[p].stopped => ~Analyses(w, p)
    BY <1>1, <1>3, SameQueries DEF Analyses
  <2> QED BY <1>1, <1>3, <2>1, <2>2, SameQueries, JobDropped
<1> QED BY <1>2, <1>3 DEF Analyse

LEMMA SettleKeeps ==
    ASSUME WatchInv, NEW w \in Workers, Settle(w) PROVE WatchInv'
<1> DEFINE n == [job[w] EXCEPT !.settle = None]
<1>1. /\ job[w] \in JobType /\ WorkerInv(w) /\ SessionType' /\ EndInv'
      /\ job' = [job EXCEPT ![w] = n] /\ job[w].settle # None
  BY JobTypes DEF Settle, WatchInv, SessionType, EndInv, WorkersSound
<1>2. PICK q \in Queries : q = job[w].settle
  BY <1>1 DEF JobType
<1>3. Touches(q) /\ (~Live(q)' \/ query' = query)
  <2>1. query' = EndedIfIdle(q) \/ query' = query
    BY <1>2 DEF Settle
  <2> QED BY <2>1, EndedIfIdleStep, NoQuery
<1>4. /\ n \in JobType /\ n.stage = job[w].stage /\ n.todo = job[w].todo
      /\ n.joined = job[w].joined /\ n.result = job[w].result
      /\ n.frame = job[w].frame /\ n.generation = job[w].generation /\ n.at = job[w].at
  BY <1>1 DEF JobType
<1> HIDE DEF n
<1>5. job'[w] = n
  BY <1>1, <1>4, JobStep
<1>6. \A p \in Queries : /\ Claims(w, p)' <=> Claims(w, p)
                         /\ Analyses(w, p)' <=> Analyses(w, p)
  BY <1>4, <1>5 DEF Claims, Analyses
<1>7. \A p \in Queries : /\ query[p].registered => query'[p].registered
                         /\ query[p].generation \in Nat
                         /\ query[p].generation <= query'[p].generation
                         /\ query'[p].generation \in Nat
                         /\ Live(p)' => Live(p) /\ query'[p] = query[p]
  BY <1>3, OthersKept DEF Live
<1>8. WorkerInv(w)'
  <2>1. \A p \in Queries : Analyses(w, p)' => n.generation <= query'[p].generation
    <3>1. \A p \in Queries : Analyses(w, p)' => n.generation <= query[p].generation
      BY <1>1, <1>4, <1>6 DEF WorkerInv
    <3>2. n.generation \in Nat
      BY <1>4 DEF JobType
    <3> QED BY <1>7, <3>1, <3>2
  <2>2. \A p \in n.todo \cup n.joined : p \in Queries /\ query'[p].registered
    BY <1>1, <1>4, <1>7, JobTypes DEF WorkerInv
  <2>3. \A p \in Queries : Claims(w, p)' /\ Live(p)' =>
           /\ query'[p].processing = n.frame
           /\ query'[p].generation + 1 = n.generation
    BY <1>1, <1>4, <1>6, <1>7 DEF WorkerInv
  <2>4. /\ n.stage # "idle" => n.frame # 0 /\ n.generation # 0
        /\ n.stage # "admitting" => n.joined = {}
        /\ n.stage = "picked" => n.at # None
        /\ n.at # None => n.stage \in {"picked", "completing"} /\ n.at \in n.todo
        /\ n.stage = "completing" => n.result # "none"
    BY <1>1, <1>4 DEF WorkerInv
  <2> QED BY <1>5, <2>1, <2>2, <2>3, <2>4 DEF WorkerInv
<1> QED BY <1>1, <1>3, <1>4, <1>6, <1>8, WorkerHolds

LEMMA PickKeeps ==
    ASSUME WatchInv, NEW w \in Workers, NEW q \in Queries, Pick(w, q) PROVE WatchInv'
<1> DEFINE n == [NoJob EXCEPT !.stage = "picked", !.at = q, !.todo = {q} \cup Peers(q),
                              !.frame = query[q].pending,
                              !.generation = query[q].generation + 1,
                              !.fence = publications]
<1>1. /\ query' = query /\ SessionType' /\ EndInv' /\ job[w] = NoJob
      /\ job' = [job EXCEPT ![w] = n] /\ Live(q) /\ query[q].pending # 0
  BY DEF Pick, Candidate, WatchInv, SessionType, EndInv
<1>2. /\ query[q].pending \in FramesOrNone /\ query[q].generation \in Nat
      /\ publications \in Nat /\ Peers(q) \subseteq Queries
      /\ \A p \in Peers(q) : query[p].registered
  BY QueryFacts, RecordTypes DEF WatchInv, SessionType, Peers, Live
<1>3. /\ n \in JobType /\ n.stage = "picked" /\ n.todo = {q} \cup Peers(q) /\ n.joined = {}
      /\ n.frame = query[q].pending /\ n.generation = query[q].generation + 1 /\ n.at = q
  <2>1. NoJob \in JobType /\ NoJob.joined = {}
    BY NoJobType DEF NoJob
  <2>2. query[q].generation + 1 \in Nat /\ {q} \cup Peers(q) \subseteq Queries
    BY <1>2
  <2> QED BY <1>2, <2>1, <2>2 DEF JobType
<1> HIDE DEF n
<1>4. /\ job'[w] = n /\ job' \in [Workers -> JobType]
      /\ \A v \in Workers : v # w => job'[v] = job[v]
  BY <1>1, <1>3, JobStep
<1>5. \A p \in Queries : /\ ~Claims(w, p) /\ ~Claims(w, p)'
                         /\ ~Analyses(w, p) /\ ~Analyses(w, p)'
  BY <1>1, <1>3, <1>4 DEF Claims, Analyses, Claiming, NoJob
<1>6. WorkerInv(w)'
  <2>1. n.frame # 0 /\ n.generation # 0 /\ n.at # None
    BY <1>1, <1>2, <1>3
  <2>2. \A p \in n.todo \cup n.joined : query'[p].registered
    BY <1>1, <1>2, <1>3 DEF Live
  <2> QED BY <1>3, <1>4, <1>5, <2>1, <2>2 DEF WorkerInv
<1>7. \A p \in Queries : Live(p)' =>
         /\ query'[p].processing = query[p].processing
         /\ query'[p].generation = query[p].generation
         /\ Claims(w, p)' <=> Claims(w, p)
  BY <1>1, <1>5
<1>8. \A p \in Queries : Live(p)' /\ InFlight(query'[p]) /\ ~query'[p].stopped =>
         /\ query'[p].inFlight = query[p].inFlight
         /\ ~(Analyses(w, p) /\ Holds(w, p))
  BY <1>1, <1>5
<1>9. WorkersSound'
  BY <1>1, <1>4, <1>5, <1>6, <1>7, <1>8, SameQueries, WorkerSteps
<1> QED BY <1>1, <1>9, SameQueries DEF WatchInv

LEMMA ClaimKeeps ==
    ASSUME WatchInv, NEW w \in Workers, Claim(w) PROVE WatchInv'
<1> DEFINE f == job[w].frame
           claims == {p \in job[w].todo : Claimable(w, p)}
           open == /\ ~schedulerClosed /\ ~publishing
                   /\ job[w].fence = publications
                   /\ authority = None
                   /\ job[w].at \in claims
<1>1. /\ job[w].stage = "picked" /\ SessionType' /\ EndInv' /\ job[w] \in JobType /\ WorkerInv(w)
      /\ f \in FramesOrNone /\ f # 0 /\ job[w].generation # 0 /\ claims \subseteq Queries
  BY JobTypes DEF Claim, WatchInv, SessionType, EndInv, WorkerInv
<1>2. \A p \in claims : /\ Live(p) /\ query[p].pending = f /\ query[p].processing = 0
                        /\ ~InFlight(query[p])
                        /\ query[p].generation + 1 = job[w].generation
  BY DEF Claimable, Candidate
<1>3. \A p \in Queries : ~Claims(w, p) /\ ~Analyses(w, p)
  BY <1>1 DEF Claims, Analyses, Claiming
<1>4. CASE open
  <2> DEFINE n == [job[w] EXCEPT !.stage = "mapping", !.at = None, !.todo = claims]
  <2>1. query' = [p \in Queries |->
                    IF p \in claims THEN [query[p] EXCEPT !.processing = f] ELSE query[p]]
    BY <1>4 DEF Claim
  <2>2. job' = [job EXCEPT ![w] = n]
    BY <1>4 DEF Claim, WatchInv, WorkersSound
  <2>3. /\ n \in JobType /\ n.stage = "mapping" /\ n.at = None /\ n.todo = claims
        /\ n.frame = f /\ n.generation = job[w].generation /\ n.joined = job[w].joined
    <3> HIDE DEF claims
    <3> QED BY <1>1 DEF JobType
  <2> HIDE DEF n
  <2>4. /\ job'[w] = n /\ job' \in [Workers -> JobType]
        /\ \A v \in Workers : v # w => job'[v] = job[v]
    BY <2>2, <2>3, JobStep
  <2> HIDE DEF claims
  <2>5. \A p \in Queries : p \notin claims => query'[p] = query[p]
    BY <2>1
  <2>6. ASSUME NEW p \in claims
        PROVE  /\ query'[p] \in QueryType /\ Sound(query'[p]) /\ Follows(query[p], query'[p])
               /\ query'[p].processing = f /\ query'[p].generation = query[p].generation
               /\ query'[p].inFlight = query[p].inFlight
               /\ query'[p].terminal = query[p].terminal
               /\ query'[p].registered = query[p].registered
    <3> DEFINE d == query[p]
               e == [query[p] EXCEPT !.processing = f]
    <3>1. p \in Queries /\ query'[p] = e
      BY <1>1, <2>1
    <3>2. /\ d \in QueryType /\ Sound(d) /\ Lives(d) /\ ~InFlight(d) /\ d.pending = f
      BY <1>2, <3>1, QueryFacts
    <3>3. d.rate \in {"none", "held", "due"}
      BY <3>2 DEF QueryType
    <3>4. e = Claimed(d, f, d.rate)
      BY <3>2 DEF Claimed, QueryType
    <3>5. /\ e.generation = d.generation /\ e.inFlight = d.inFlight
          /\ e.terminal = d.terminal /\ e.registered = d.registered
      BY <3>2 DEF QueryType
    <3> HIDE DEF e
    <3>6. \A g \in FramesOrNone, r \in {"none", "held", "due"} : d.pending = g =>
             LET y == Claimed(d, g, r)
             IN  y \in QueryType /\ Sound(y) /\ Follows(d, y) /\ y.processing = g
      BY <3>2, ClaimSound
    <3>7. e \in QueryType /\ Sound(e) /\ Follows(d, e) /\ e.processing = f
      BY <1>1, <3>2, <3>3, <3>4, <3>6
    <3> QED BY <3>1, <3>5, <3>7
  <2>7. \A p \in Queries : p \notin claims =>
           /\ query'[p] \in QueryType /\ Sound(query'[p]) /\ Follows(query[p], query'[p])
    BY <2>5, QueryFacts, NoFollows
  <2>8. QueriesSound'
    <3>1. query' \in [Queries -> QueryType]
      <4>1. \A p \in Queries : query'[p] \in QueryType
        BY <2>6, <2>7
      <4> QED BY <2>1, <4>1
    <3>2. \A p \in Queries : Sound(query'[p])
      BY <2>6, <2>7
    <3>3. \A p \in Queries : Sound(query[p])'
      BY <3>2 DEF Sound, Fresh, Ordered, Streak, Accounted, Lives, InFlight, Outstanding, Total,
           NoFlight
    <3>4. \A p \in Queries : Stable(p)'
      <4>1. \A p \in claims : query[p].terminal # "Matched"
        BY <1>2 DEF Live, Outcomes
      <4> QED BY <2>5, <2>6, <4>1, QueryFacts DEF Stable
    <3> QED BY <3>1, <3>3, <3>4 DEF QueriesSound
  <2>9. \A p \in Queries : /\ Live(p)' <=> Live(p)
                           /\ query'[p].generation = query[p].generation
                           /\ query'[p].inFlight = query[p].inFlight
                           /\ query'[p].registered = query[p].registered
    BY <2>5, <2>6 DEF Live
  <2>10. \A p \in Queries : (Claims(w, p)' <=> p \in claims) /\ ~Analyses(w, p)'
    BY <1>1, <2>3, <2>4 DEF Claims, Analyses, Claiming
  <2>11. WorkerInv(w)'
    <3>1. \A p \in Queries : Claims(w, p)' /\ Live(p)' =>
             /\ query'[p].processing = n.frame
             /\ query'[p].generation + 1 = n.generation
      BY <1>2, <2>3, <2>6, <2>9, <2>10
    <3>2. n.joined = {}
      BY <1>1, <2>3 DEF WorkerInv
    <3>3. \A p \in n.todo \cup n.joined : query'[p].registered
      BY <1>1, <1>2, <2>3, <2>9, <3>2 DEF Live
    <3> QED BY <1>1, <2>3, <2>4, <2>10, <3>1, <3>2, <3>3 DEF WorkerInv
  <2>12. \A p \in Queries : Live(p)' =>
            \/ /\ query'[p].processing = query[p].processing
               /\ query'[p].generation = query[p].generation
               /\ Claims(w, p)' <=> Claims(w, p)
            \/ /\ query[p].processing = 0 /\ Claims(w, p)'
               /\ query'[p].generation = query[p].generation
    BY <1>2, <1>3, <2>5, <2>9, <2>10
  <2>13. \A p \in Queries : Follows(query[p], query'[p])
    BY <2>6, <2>7
  <2>14. WorkersSound'
    BY <1>3, <2>4, <2>8, <2>9, <2>10, <2>11, <2>12, <2>13, WorkerSteps
  <2> QED BY <1>1, <2>8, <2>14 DEF WatchInv
<1>5. CASE ~open
  <2>1. job' = [job EXCEPT ![w] = NoJob]
    BY <1>5 DEF Claim
  <2>2. PICK q \in Queries : q = job[w].at
    BY <1>1 DEF WorkerInv, JobType
  <2>3. query' = query \/ (authority # None /\ query' = Terminated(q, authority))
    BY <1>5, <2>2 DEF Claim
  <2>4. authority # None => authority \in Outcomes \ {"Matched"}
    BY DEF WatchInv, SessionType, Outcomes
  <2>5. Touches(q) /\ (~Live(q)' \/ query' = query)
    BY <2>3, <2>4, TerminatedStep, NoQuery
  <2>6. /\ QueriesSound' /\ \A p \in Queries : Follows(query[p], query'[p])
    <3>1. \A p \in Queries : p # q => Follows(query[p], query'[p])
      BY <2>5, OthersKept, NoFollows, QueryFacts
    <3> QED BY <2>5, <3>1 DEF Touches
  <2>7. \A p \in Queries : Live(p)' => Live(p) /\ query'[p] = query[p]
    BY <2>5, OthersKept DEF Live
  <2> QED BY <1>1, <1>3, <2>1, <2>6, <2>7, JobDropped
<1> QED BY <1>4, <1>5

-----------------------------------------------------------------------------
(* The invariant.                                                          *)

LEMMA WatchStart == Init => WatchInv
<1> SUFFICES ASSUME Init PROVE WatchInv
  OBVIOUS
<1>1. SessionType /\ EndInv
  <2>1. 0 \in FramesOrNone /\ 0 \in Nat
    OBVIOUS
  <2>2. SessionType
    BY <2>1 DEF Init, SessionType
  <2> QED BY <2>2 DEF Init, EndInv
<1>2. QueriesSound
  <2>1. NewQuery \in QueryType
    BY DEF NewQuery, QueryType, NoFlight, Dispositions
  <2>2. Sound(NewQuery) /\ NewQuery.terminal # "Matched"
    BY DEF NewQuery, Sound, Fresh, Ordered, Streak, Accounted, Total, Lives, Dispositions,
           NoFlight, Outcomes
  <2> QED BY <2>1, <2>2 DEF Init, QueriesSound, Stable
<1>3. WorkersSound
  <2>1. \A w \in Workers : job[w] = NoJob
    BY DEF Init
  <2>2. \A w \in Workers, q \in Queries : ~Claims(w, q) /\ ~Analyses(w, q)
    BY <2>1 DEF Claims, Analyses, Claiming, NoJob
  <2>3. \A w \in Workers : WorkerInv(w)
    BY <2>1, <2>2 DEF WorkerInv, NoJob
  <2>4. FoundInv /\ PairInv
    BY <2>2 DEF Init, FoundInv, PairInv, Live, NewQuery
  <2> QED BY <2>3, <2>4, NoJobType DEF Init, WorkersSound
<1> QED BY <1>1, <1>2, <1>3 DEF WatchInv

LEMMA WatchNext == WatchInv /\ [Next]_vars => WatchInv'
<1> SUFFICES ASSUME WatchInv, [Next]_vars PROVE WatchInv'
  OBVIOUS
<1>1. CASE UNCHANGED vars
  <2>1. query' = query /\ job' = job /\ SessionType' /\ EndInv'
    BY <1>1 DEF vars, WatchInv, SessionType, EndInv
  <2> QED BY <2>1, SessionStep
<1>2. ASSUME NEW q \in Queries,
             \/ StartQuery(q) \/ Interrupt(q) \/ Sweep(q) \/ Cancel(q)
             \/ Expire(q) \/ RateElapses(q) \/ CloseQuery(q)
             \/ Enqueue(q) \/ EndQuery(q)
      PROVE  WatchInv'
  BY <1>2, StartQueryKeeps, InterruptKeeps, SweepKeeps, ExpireKeeps, RateElapsesKeeps,
     CloseQueryKeeps, EnqueueKeeps, EndQueryKeeps
<1>3. CASE \/ Capture \/ \E kind \in {"lost", "closed"} : CaptureEnds(kind)
           \/ PublishBegin \/ PublishEnd \/ SourceEnds \/ CloseScheduler
           \/ \E o \in {"SessionClosed", "SchedulerClosed"} : CloseSession(o)
  BY <1>3, CaptureKeeps
<1>4. ASSUME NEW w \in Workers, Work(w) PROVE WatchInv'
  <2>1. CASE \E q \in Queries : Pick(w, q)
    BY <2>1, PickKeeps
  <2>2. CASE Claim(w) \/ Map(w) \/ Analyse(w) \/ CompleteCommit(w) \/ Settle(w)
    BY <2>2, ClaimKeeps, MapKeeps, AnalyseKeeps, CompleteCommitKeeps, SettleKeeps
  <2>3. ASSUME NEW q \in Queries,
               \/ MapInterrupted(w, q) \/ Release(w, q) \/ FailMapping(w, q)
               \/ Admit(w, q) \/ CompleteAsk(w, q)
        PROVE  WatchInv'
    BY <2>3, MapInterruptedKeeps, ReleaseKeeps, FailMappingKeeps, AdmitKeeps, CompleteAskKeeps
  <2> QED BY <1>4, <2>1, <2>2, <2>3 DEF Work
<1> QED BY <1>1, <1>2, <1>3, <1>4 DEF Next, Acquire

(* The frames a query accepted, the streak behind its match, the claim and *)
(* the analysis in one worker's hands and the recorded end of the session  *)
(* hold together, each needing the others.                                 *)
THEOREM WatchInvariant == Spec => []WatchInv
<1> QED BY WatchStart, WatchNext, PTL DEF Spec

-----------------------------------------------------------------------------
(* What it gives.                                                          *)

(* Every frame a query accepted ended in exactly one way or is still held: *)
(* the counters of enqueue, terminate, expire_if_current, finish_mapping   *)
(* and complete add up.                                                    *)
THEOREM EveryFrameAccounted == Spec => []FramesAccounted
<1>1. WatchInv => FramesAccounted
  <2> SUFFICES ASSUME WatchInv, NEW q \in Queries
               PROVE  query[q].accepted =
                         (IF Live(q) THEN Outstanding(query[q]) ELSE 0)
                             + query[q].work["Completed"] + query[q].work["Failed"]
                             + query[q].work["Superseded"] + query[q].work["SkippedChange"]
                             + query[q].work["QueueExpired"]
    BY DEF FramesAccounted
  <2> DEFINE d == query[q]
             n == IF Live(q) THEN Outstanding(d) ELSE 0
  <2>1. d.accepted = n + Total(d) /\ d.work \in [Dispositions -> Nat] /\ n \in Nat
    BY QueryFacts, RecordTypes DEF Sound, Accounted
  <2>2. /\ d.work["Completed"] \in Nat /\ d.work["Failed"] \in Nat
        /\ d.work["Superseded"] \in Nat /\ d.work["SkippedChange"] \in Nat
        /\ d.work["QueueExpired"] \in Nat
    BY <2>1 DEF Dispositions
  <2> HIDE DEF n, d
  <2>3. d.accepted = n + d.work["Completed"] + d.work["Failed"] + d.work["Superseded"]
                        + d.work["SkippedChange"] + d.work["QueueExpired"]
    <3> DEFINE a == d.work["Completed"]
               b == d.work["Failed"]
               c == d.work["Superseded"]
               e == d.work["SkippedChange"]
               g == d.work["QueueExpired"]
    <3>2. Total(d) = a + b + c + e + g
      BY DEF Total
    <3>3. a \in Nat /\ b \in Nat /\ c \in Nat /\ e \in Nat /\ g \in Nat
      BY <2>2
    <3> HIDE DEF a, b, c, e, g
    <3>4. d.accepted = n + a + b + c + e + g
      BY <2>1, <3>2, <3>3, SumFlat
    <3> QED BY <3>4 DEF a, b, c, e, g
  <2> QED BY <2>3 DEF n, d
<1> QED BY <1>1, WatchInvariant, PTL

(* A match rests on the streak its stability rule asks for: enough frames, *)
(* all of the view of the newest frame, and none without a match between.  *)
THEOREM MatchesAreStable == Spec => []MatchedIsStable
<1>1. WatchInv => MatchedIsStable
  <2> SUFFICES ASSUME WatchInv, NEW q \in Queries, query[q].terminal = "Matched"
               PROVE  /\ Cardinality(query[q].confirmed) >= Required[q]
                      /\ \A f \in query[q].confirmed : View[f] = View[query[q].source]
                      /\ \A e \in query[q].empties :
                            ~ \E f, g \in query[q].confirmed : f < e /\ e < g
    BY DEF MatchedIsStable
  <2>1. /\ Cardinality(query[q].confirmed) >= Required[q]
        /\ Streak(query[q]) /\ query[q].confirmed \subseteq Nat /\ query[q].empties \subseteq Nat
    BY QueryFacts, RecordTypes DEF Sound
  <2>2. \A e \in query[q].empties, f, g \in query[q].confirmed : ~(f < e /\ e < g)
    <3> SUFFICES ASSUME NEW e \in query[q].empties, NEW f \in query[q].confirmed, f < e
                 PROVE  FALSE
      OBVIOUS
    <3>1. e < f /\ e \in Nat /\ f \in Nat
      BY <2>1 DEF Streak
    <3> QED BY <3>1
  <2> QED BY <2>1, <2>2 DEF Streak
<1> QED BY <1>1, WatchInvariant, PTL

(* The claim and the analysis of a live query are in the hands of exactly  *)
(* one worker, and what it holds is in the order of capture.               *)
THEOREM WatchWorkIsSound == Spec => []WorkIsSound
<1>1. WatchInv => WorkIsSound
  <2> SUFFICES ASSUME WatchInv PROVE WorkIsSound
    OBVIOUS
  <2>1. TypeOK
    BY DEF WatchInv, QueriesSound, WorkersSound, TypeOK
  <2>2. HeldByOneWorker
    <3> SUFFICES ASSUME NEW q \in Queries, Live(q)
                 PROVE  /\ query[q].processing # 0 =>
                             Cardinality({w \in Workers :
                                 /\ job[w].stage \in Claiming
                                 /\ job[w].frame = query[q].processing
                                 /\ q \in job[w].todo}) = 1
                        /\ InFlight(query[q]) /\ ~query[q].stopped =>
                             Cardinality({w \in Workers :
                                 /\ Holds(w, q)
                                 /\ \/ job[w].stage = "admitting" /\ q \in job[w].joined
                                    \/ /\ job[w].stage \in {"analysing", "completing"}
                                       /\ q \in job[w].todo}) = 1
      BY DEF HeldByOneWorker, Claiming
    <3>1. ASSUME query[q].processing # 0
          PROVE  Cardinality({w \in Workers :
                     /\ job[w].stage \in Claiming
                     /\ job[w].frame = query[q].processing
                     /\ q \in job[w].todo}) = 1
      <4>1. PICK w \in Workers : Claims(w, q)
        BY <3>1 DEF WatchInv, WorkersSound, FoundInv
      <4>2. job[w].frame = query[q].processing
        BY <4>1, JobTypes DEF WorkerInv
      <4>3. \A v \in Workers : Claims(v, q) => v = w
        BY <4>1 DEF WatchInv, WorkersSound, PairInv
      <4>4. {v \in Workers : /\ job[v].stage \in Claiming
                             /\ job[v].frame = query[q].processing
                             /\ q \in job[v].todo} = {w}
        BY <4>1, <4>2, <4>3 DEF Claims
      <4> QED BY <4>4, FS_Singleton
    <3>2. ASSUME InFlight(query[q]), ~query[q].stopped
          PROVE  Cardinality({w \in Workers :
                     /\ Holds(w, q)
                     /\ \/ job[w].stage = "admitting" /\ q \in job[w].joined
                        \/ /\ job[w].stage \in {"analysing", "completing"}
                           /\ q \in job[w].todo}) = 1
      <4>1. PICK w \in Workers : Analyses(w, q) /\ Holds(w, q)
        BY <3>2 DEF WatchInv, WorkersSound, FoundInv
      <4>2. \A v \in Workers : Analyses(v, q) /\ Holds(v, q) => v = w
        <5> SUFFICES ASSUME NEW v \in Workers, Analyses(v, q), Holds(v, q), v # w
                     PROVE  FALSE
          OBVIOUS
        <5>1. job[v].generation # job[w].generation
          BY <4>1 DEF WatchInv, WorkersSound, PairInv
        <5>2. /\ query[q].inFlight.generation = job[v].generation
              /\ query[q].inFlight.generation = job[w].generation
          BY <4>1 DEF Holds
        <5> QED BY <5>1, <5>2
      <4>3. {v \in Workers : /\ Holds(v, q)
                             /\ \/ job[v].stage = "admitting" /\ q \in job[v].joined
                                \/ /\ job[v].stage \in {"analysing", "completing"}
                                   /\ q \in job[v].todo} = {w}
        BY <4>1, <4>2 DEF Analyses
      <4> QED BY <4>3, FS_Singleton
    <3> QED BY <3>1, <3>2
  <2>3. WorkInOrder
    <3> SUFFICES ASSUME NEW q \in Queries, Live(q) PROVE Ordered(query[q]) /\ Lives(query[q])
      BY DEF WorkInOrder, Ordered
    <3> QED BY QueryFacts DEF Sound
  <2> QED BY <2>1, <2>2, <2>3 DEF WorkIsSound
<1> QED BY <1>1, WatchInvariant, PTL

-----------------------------------------------------------------------------
(* Who decides how a query ends.                                           *)

EndsAsRecorded(q) ==
    Live(q) /\ query'[q].terminal # None =>
        /\ authority # None => query'[q].terminal = authority
        /\ authority = None /\ schedulerClosed =>
              query'[q].terminal = "SchedulerClosed"

LEMMA TerminalKept ==
    ASSUME WatchInv, NEW q \in Queries, NEW e,
           Live(q) => e.terminal = None, query' = [query EXCEPT ![q] = e]
    PROVE  \A p \in Queries : EndsAsRecorded(p)
<1>1. query'[q] = e /\ \A p \in Queries : p # q => query'[p] = query[p]
  BY DEF WatchInv, QueriesSound
<1> QED BY <1>1 DEF EndsAsRecorded, Live

LEMMA QueryKept == ASSUME query' = query PROVE \A p \in Queries : EndsAsRecorded(p)
BY DEF EndsAsRecorded, Live

LEMMA TerminatedEnds ==
    ASSUME WatchInv, NEW q \in Queries, NEW o \in Outcomes, query' = Terminated(q, o)
    PROVE  \A p \in Queries : EndsAsRecorded(p)
<1>1. CASE ~Live(q)
  <2>1. query' = query
    BY <1>1 DEF Terminated
  <2> QED BY <2>1, QueryKept
<1>2. CASE Live(q)
  <2> DEFINE a == Arbitrated(o)
             e == Ended(query[q], a)
  <2>1. a \in Outcomes
    BY DEF Arbitrated, WatchInv, SessionType, Outcomes
  <2>2. /\ authority # None => a = authority
        /\ authority = None /\ schedulerClosed => a = "SchedulerClosed"
    BY DEF Arbitrated
  <2>3. query' = [query EXCEPT ![q] = e]
    BY <1>2 DEF Terminated
  <2> HIDE DEF a
  <2>4. e.terminal = a
    BY <2>1, QueryFacts, EndedRecord
  <2> HIDE DEF e
  <2>5. query'[q] = e /\ \A p \in Queries : p # q => query'[p] = query[p]
    BY <2>3 DEF WatchInv, QueriesSound
  <2> QED BY <2>2, <2>4, <2>5 DEF EndsAsRecorded, Live
<1> QED BY <1>1, <1>2

(* Where nothing is recorded, the caller decides.                          *)
LEMMA NothingRecorded ==
    ASSUME authority = None, ~schedulerClosed
    PROVE  \A p \in Queries : EndsAsRecorded(p)
BY DEF EndsAsRecorded

LEMMA QueriesEnd ==
    ASSUME WatchInv, NEW q \in Queries,
           \/ StartQuery(q) \/ Interrupt(q) \/ Sweep(q) \/ Cancel(q)
           \/ Expire(q) \/ RateElapses(q) \/ CloseQuery(q)
           \/ Enqueue(q) \/ EndQuery(q)
    PROVE  \A p \in Queries : EndsAsRecorded(p)
<1> DEFINE d == query[q]
<1>0. d \in QueryType /\ {"Cancelled", "TargetLost", "SessionClosed"} \subseteq Outcomes
  BY QueryFacts DEF Outcomes
<1>1. CASE StartQuery(q) \/ Interrupt(q) \/ RateElapses(q)
  <2>1. \/ query' = [query EXCEPT ![q] = [d EXCEPT !.registered = TRUE]]
        \/ query' = [query EXCEPT ![q] = [d EXCEPT !.stopped = TRUE]]
        \/ query' = [query EXCEPT ![q] = [d EXCEPT !.rate = "due"]]
    BY <1>1 DEF StartQuery, Interrupt, RateElapses
  <2>2. /\ [d EXCEPT !.registered = TRUE].terminal = d.terminal
        /\ [d EXCEPT !.stopped = TRUE].terminal = d.terminal
        /\ [d EXCEPT !.rate = "due"].terminal = d.terminal
    BY <1>0 DEF QueryType
  <2>3. Live(q) => d.terminal = None
    BY DEF Live
  <2> QED BY <2>1, <2>2, <2>3, TerminalKept
<1>2. CASE Sweep(q) \/ Cancel(q)
  <2>1. query' = Terminated(q, "Cancelled")
    BY <1>2 DEF Sweep, Cancel
  <2> QED BY <1>0, <2>1, TerminatedEnds
<1>3. CASE Expire(q)
  <2>1. query' = Terminated(q, "Cancelled") \/ (authority = None /\ ~schedulerClosed)
    BY <1>3 DEF Expire
  <2> QED BY <1>0, <2>1, TerminatedEnds, NothingRecorded
<1>4. CASE CloseQuery(q)
  <2>1. query' = Terminated(q, authority) /\ authority \in Outcomes
    BY <1>4 DEF CloseQuery, WatchInv, SessionType, EndInv, Outcomes
  <2> QED BY <2>1, TerminatedEnds
<1>5. CASE Enqueue(q)
  <2>1. CASE query[q].stopped
    <3>1. query' = Terminated(q, "Cancelled")
      BY <1>5, <2>1 DEF Enqueue
    <3> QED BY <1>0, <3>1, TerminatedEnds
  <2>2. CASE ~query[q].stopped /\ Live(q) /\ query[q].source < published
    <3>1. query' = [query EXCEPT ![q] = Enqueued(d)]
      BY <1>5, <2>2 DEF Enqueue
    <3>2. published \in FramesOrNone /\ Sound(d) /\ Lives(d)
      BY <2>2, QueryFacts DEF WatchInv, SessionType
    <3>3. Enqueued(d).terminal = None
      BY <1>0, <2>2, <3>2, EnqueuedSound DEF Lives
    <3> QED BY <3>1, <3>3, TerminalKept
  <2>3. CASE ~query[q].stopped /\ ~(Live(q) /\ query[q].source < published)
    <3>1. query' = query
      BY <1>5, <2>3 DEF Enqueue
    <3> QED BY <3>1, QueryKept
  <2> QED BY <2>1, <2>2, <2>3
<1>6. CASE EndQuery(q)
  <2>1. \/ query' = Terminated(q, "TargetLost") \/ query' = Terminated(q, "SessionClosed")
        \/ query' = query
    BY <1>6 DEF EndQuery, EndedIfIdle
  <2> QED BY <1>0, <2>1, TerminatedEnds, QueryKept
<1> QED BY <1>1, <1>2, <1>3, <1>4, <1>5, <1>6

LEMMA ReleasedEnds ==
    ASSUME WatchInv, NEW q \in Queries, NEW f, query' = Released(q, f)
    PROVE  \A p \in Queries : EndsAsRecorded(p)
<1> DEFINE x == IF query[q].processing = f THEN 0 ELSE query[q].processing
           e == [query[q] EXCEPT !.processing = x]
<1>1. query' = [query EXCEPT ![q] = e]
  BY DEF Released
<1>2. e.terminal = query[q].terminal
  BY QueryFacts DEF QueryType
<1> HIDE DEF e
<1> QED BY <1>1, <1>2, TerminalKept DEF Live

LEMMA AdmitEnds ==
    ASSUME WatchInv, NEW w \in Workers, NEW q \in Queries, Admit(w, q)
    PROVE  \A p \in Queries : EndsAsRecorded(p)
<1>1. {"Cancelled", "SessionClosed"} \subseteq Outcomes
  BY DEF Outcomes
<1>2. CASE AdmitObsolete(w, q)
  <2>1. \/ query' = Terminated(q, "Cancelled") \/ query' = Terminated(q, "SessionClosed")
        \/ query' = Released(q, job[w].frame)
    BY <1>2 DEF AdmitObsolete
  <2> QED BY <1>1, <2>1, TerminatedEnds, ReleasedEnds
<1>3. CASE AdmitSkip(w, q) \/ AdmitDefer(w, q) \/ AdmitAnalysis(w, q)
  <2>1. authority = None /\ ~schedulerClosed
    BY <1>3 DEF AdmitSkip, AdmitDefer, AdmitAnalysis, Admissible
  <2> QED BY <2>1, NothingRecorded
<1> QED BY <1>2, <1>3 DEF Admit

LEMMA WorkEnds ==
    ASSUME WatchInv, NEW w \in Workers, Work(w)
    PROVE  \A p \in Queries : EndsAsRecorded(p)
<1>0. {"Cancelled", "SessionClosed", "TargetLost"} \subseteq Outcomes
  BY DEF Outcomes
<1>1. CASE \/ \E q \in Queries : Pick(w, q) \/ CompleteAsk(w, q)
           \/ Map(w) \/ Analyse(w)
  <2>1. query' = query
    BY <1>1 DEF Pick, CompleteAsk, Map, Analyse
  <2> QED BY <2>1, QueryKept
<1>2. CASE Claim(w)
  <2>1. CASE authority = None /\ ~schedulerClosed
    BY <2>1, NothingRecorded
  <2>2. CASE authority # None \/ schedulerClosed
    <3>1. query' = query \/ (query' = Terminated(job[w].at, authority) /\ authority # None)
      BY <1>2, <2>2 DEF Claim
    <3>2. PICK q \in Queries : q = job[w].at
      BY <1>2, JobTypes DEF Claim, WorkerInv, JobType
    <3>3. authority # None => authority \in Outcomes
      BY DEF WatchInv, SessionType, Outcomes
    <3> QED BY <3>1, <3>2, <3>3, TerminatedEnds, QueryKept
  <2> QED BY <2>1, <2>2
<1>3. CASE Settle(w)
  <2>1. PICK q \in Queries : q = job[w].settle
    BY <1>3, JobTypes DEF Settle, JobType
  <2>2. query' = Terminated(q, "SessionClosed") \/ query' = query
    BY <1>3, <2>1 DEF Settle, EndedIfIdle
  <2> QED BY <1>0, <2>2, TerminatedEnds, QueryKept
<1>4. CASE CompleteCommit(w)
  <2>1. CASE authority = None /\ ~schedulerClosed
    BY <2>1, NothingRecorded
  <2>2. CASE authority # None \/ schedulerClosed
    <3>1. PICK q \in Queries : q = job[w].at
      BY <1>4, JobTypes DEF CompleteCommit, JobType
    <3>2. query' = Terminated(q, "SessionClosed")
      BY <1>4, <2>2, <3>1 DEF CompleteCommit, Outcomes
    <3> QED BY <1>0, <3>2, TerminatedEnds
  <2> QED BY <2>1, <2>2
<1>5. ASSUME NEW q \in Queries, MapInterrupted(w, q) \/ Release(w, q)
      PROVE  \A p \in Queries : EndsAsRecorded(p)
  <2>1. query' = Terminated(q, "Cancelled") \/ query' = Released(q, job[w].frame)
    BY <1>5 DEF MapInterrupted, Release
  <2> QED BY <1>0, <2>1, TerminatedEnds, ReleasedEnds
<1>6. ASSUME NEW q \in Queries, FailMapping(w, q)
      PROVE  \A p \in Queries : EndsAsRecorded(p)
  <2>1. query' = Terminated(q, "Cancelled") \/ (authority = None /\ ~schedulerClosed)
    BY <1>6 DEF FailMapping
  <2> QED BY <1>0, <2>1, TerminatedEnds, NothingRecorded
<1> QED BY <1>1, <1>2, <1>3, <1>4, <1>5, <1>6, AdmitEnds DEF Work

(* Whoever ends a query after the end of the session or of the scheduler   *)
(* is recorded - a late match, an expiry, a failed mapping, a cancellation *)
(* on its way - ends it with the recorded outcome.                         *)
THEOREM AuthorityDecides == Spec => AuthorityWins
<1>1. WatchInv /\ [Next]_vars =>
         [\A q \in Queries : Live(q) /\ query'[q].terminal # None =>
             /\ authority # None => query'[q].terminal = authority
             /\ authority = None /\ schedulerClosed =>
                   query'[q].terminal = "SchedulerClosed"]_vars
  <2> SUFFICES ASSUME WatchInv, Next PROVE \A q \in Queries : EndsAsRecorded(q)
    BY DEF EndsAsRecorded
  <2>1. CASE \/ Capture \/ \E kind \in {"lost", "closed"} : CaptureEnds(kind)
             \/ PublishBegin \/ PublishEnd \/ SourceEnds \/ CloseScheduler
             \/ \E o \in {"SessionClosed", "SchedulerClosed"} : CloseSession(o)
    <3>1. query' = query
      BY <2>1 DEF Capture, CaptureEnds, PublishBegin, PublishEnd, SourceEnds, CloseScheduler,
           CloseSession
    <3> QED BY <3>1, QueryKept
  <2> QED BY <2>1, QueriesEnd, WorkEnds DEF Next, Acquire
<1> QED BY <1>1, WatchInvariant, PTL DEF Spec, AuthorityWins

-----------------------------------------------------------------------------
(* What the end of capture forbids.                                        *)

(* No step of a worker that had not asked capture before it ended can make *)
(* q match any more: a worker that asked since was refused.                *)
Refused(w, q) ==
    job[w].stage = "completing" /\ job[w].at = q => job[w].refusal # None

Shut(q) ==
    /\ captureEnd # "open" /\ query[q].terminal # "Matched"
    /\ \A w \in Workers : Refused(w, q)

Unmatched(q) == query[q].terminal # "Matched" => query'[q].terminal # "Matched"

LEMMA RecordUnmatched ==
    ASSUME WatchInv, NEW q \in Queries, NEW e, query' = [query EXCEPT ![q] = e],
           e.terminal # "Matched" \/ e.terminal = query[q].terminal
    PROVE  \A p \in Queries : Unmatched(p)
<1>1. query'[q] = e /\ \A p \in Queries : p # q => query'[p] = query[p]
  BY DEF WatchInv, QueriesSound
<1> QED BY <1>1 DEF Unmatched

LEMMA TerminatedUnmatched ==
    ASSUME WatchInv, NEW q \in Queries, NEW o \in Outcomes, o # "Matched",
           query' = Terminated(q, o)
    PROVE  \A p \in Queries : Unmatched(p)
<1>1. CASE ~Live(q)
  <2>1. query' = query
    BY <1>1 DEF Terminated
  <2> QED BY <2>1 DEF Unmatched
<1>2. CASE Live(q)
  <2> DEFINE a == Arbitrated(o)
             e == Ended(query[q], a)
  <2>1. a \in Outcomes /\ a # "Matched"
    BY DEF Arbitrated, WatchInv, SessionType, Outcomes
  <2>2. query' = [query EXCEPT ![q] = e]
    BY <1>2 DEF Terminated
  <2> HIDE DEF a
  <2>3. e.terminal = a
    BY <2>1, QueryFacts, EndedRecord
  <2> HIDE DEF e
  <2> QED BY <2>1, <2>2, <2>3, RecordUnmatched
<1> QED BY <1>1, <1>2

LEMMA ReleasedUnmatched ==
    ASSUME WatchInv, NEW q \in Queries, NEW f, query' = Released(q, f)
    PROVE  \A p \in Queries : Unmatched(p)
<1> DEFINE x == IF query[q].processing = f THEN 0 ELSE query[q].processing
           e == [query[q] EXCEPT !.processing = x]
<1>1. query' = [query EXCEPT ![q] = e]
  BY DEF Released
<1>2. e.terminal = query[q].terminal
  BY QueryFacts DEF QueryType
<1> HIDE DEF e
<1> QED BY <1>1, <1>2, RecordUnmatched

(* An end that some thread brings to a query is never a match.             *)
LEMMA BroughtEnd ==
    ASSUME WatchInv, NEW q \in Queries, NEW k \in Dispositions,
           NEW o \in {"Overloaded", "Failed"},
           query' = [query EXCEPT ![q] =
                       Ended([Counted(@, k, 1) EXCEPT !.pending = 0, !.processing = 0], o)]
    PROVE  \A p \in Queries : Unmatched(p)
<1> DEFINE c == Counted(query[q], k, 1)
           d == [c EXCEPT !.pending = 0, !.processing = 0]
           e == Ended(d, o)
<1>1. query' = [query EXCEPT ![q] = e]
  BY DEF WatchInv, QueriesSound
<1>2. c \in QueryType
  BY QueryFacts, CountedRecord
<1> HIDE DEF c
<1>3. d \in QueryType
  BY <1>2, RecordTypes DEF QueryType
<1>4. o \in Outcomes /\ o # "Matched"
  BY DEF Outcomes
<1> HIDE DEF d
<1>5. e.terminal = o
  BY <1>3, <1>4, EndedRecord
<1> HIDE DEF e
<1> QED BY <1>1, <1>4, <1>5, RecordUnmatched

LEMMA QueriesUnmatched ==
    ASSUME WatchInv, NEW q \in Queries,
           \/ StartQuery(q) \/ Interrupt(q) \/ Sweep(q) \/ Cancel(q)
           \/ Expire(q) \/ RateElapses(q) \/ CloseQuery(q)
           \/ Enqueue(q) \/ EndQuery(q)
    PROVE  \A p \in Queries : Unmatched(p)
<1> DEFINE d == query[q]
<1>0. /\ d \in QueryType
      /\ {"Cancelled", "TargetLost", "SessionClosed"} \subseteq Outcomes \ {"Matched"}
  BY QueryFacts DEF Outcomes
<1>1. CASE StartQuery(q) \/ Interrupt(q) \/ RateElapses(q)
  <2>1. \/ query' = [query EXCEPT ![q] = [d EXCEPT !.registered = TRUE]]
        \/ query' = [query EXCEPT ![q] = [d EXCEPT !.stopped = TRUE]]
        \/ query' = [query EXCEPT ![q] = [d EXCEPT !.rate = "due"]]
    BY <1>1 DEF StartQuery, Interrupt, RateElapses
  <2>2. /\ [d EXCEPT !.registered = TRUE].terminal = d.terminal
        /\ [d EXCEPT !.stopped = TRUE].terminal = d.terminal
        /\ [d EXCEPT !.rate = "due"].terminal = d.terminal
    BY <1>0 DEF QueryType
  <2> QED BY <2>1, <2>2, RecordUnmatched
<1>2. CASE Sweep(q) \/ Cancel(q)
  <2>1. query' = Terminated(q, "Cancelled")
    BY <1>2 DEF Sweep, Cancel
  <2> QED BY <1>0, <2>1, TerminatedUnmatched
<1>3. CASE Expire(q)
  <2>1. CASE query[q].stopped \/ authority # None \/ schedulerClosed
    <3>1. query' = Terminated(q, "Cancelled")
      BY <1>3, <2>1 DEF Expire
    <3> QED BY <1>0, <3>1, TerminatedUnmatched
  <2>2. CASE ~(query[q].stopped \/ authority # None \/ schedulerClosed)
    <3>1. query' = [query EXCEPT ![q] =
                      Ended([Counted(@, "QueueExpired", 1) EXCEPT
                                !.pending = 0, !.processing = 0], "Overloaded")]
      BY <1>3, <2>2 DEF Expire
    <3>2. "QueueExpired" \in Dispositions
      BY DEF Dispositions
    <3> QED BY <3>1, <3>2, BroughtEnd
  <2> QED BY <2>1, <2>2
<1>4. CASE CloseQuery(q)
  <2>1. query' = Terminated(q, authority) /\ authority \in Outcomes \ {"Matched"}
    BY <1>4 DEF CloseQuery, WatchInv, SessionType, EndInv, Outcomes
  <2> QED BY <2>1, TerminatedUnmatched
<1>5. CASE Enqueue(q)
  <2>1. CASE query[q].stopped
    <3>1. query' = Terminated(q, "Cancelled")
      BY <1>5, <2>1 DEF Enqueue
    <3> QED BY <1>0, <3>1, TerminatedUnmatched
  <2>2. CASE ~query[q].stopped /\ Live(q) /\ query[q].source < published
    <3>1. query' = [query EXCEPT ![q] = Enqueued(d)]
      BY <1>5, <2>2 DEF Enqueue
    <3>2. published \in FramesOrNone /\ Sound(d) /\ Lives(d)
      BY <2>2, QueryFacts DEF WatchInv, SessionType
    <3>3. Enqueued(d).terminal = None
      BY <1>0, <2>2, <3>2, EnqueuedSound DEF Lives
    <3>4. None # "Matched"
      BY DEF Outcomes
    <3> QED BY <3>1, <3>3, <3>4, RecordUnmatched
  <2>3. CASE ~query[q].stopped /\ ~(Live(q) /\ query[q].source < published)
    <3>1. query' = query
      BY <1>5, <2>3 DEF Enqueue
    <3> QED BY <3>1 DEF Unmatched
  <2> QED BY <2>1, <2>2, <2>3
<1>6. CASE EndQuery(q)
  <2>1. \/ query' = Terminated(q, "TargetLost") \/ query' = Terminated(q, "SessionClosed")
        \/ query' = query
    BY <1>6 DEF EndQuery, EndedIfIdle
  <2>2. CASE query' = query
    BY <2>2 DEF Unmatched
  <2> QED BY <1>0, <2>1, <2>2, TerminatedUnmatched
<1> QED BY <1>1, <1>2, <1>3, <1>4, <1>5, <1>6

LEMMA AdmitUnmatched ==
    ASSUME WatchInv, NEW w \in Workers, NEW q \in Queries, Admit(w, q)
    PROVE  \A p \in Queries : Unmatched(p)
<1> DEFINE d == query[q]
<1>0. /\ {"Cancelled", "SessionClosed"} \subseteq Outcomes \ {"Matched"}
      /\ d \in QueryType
  BY QueryFacts DEF Outcomes
<1>1. CASE AdmitObsolete(w, q)
  <2>1. \/ query' = Terminated(q, "Cancelled") \/ query' = Terminated(q, "SessionClosed")
        \/ query' = Released(q, job[w].frame)
    BY <1>1 DEF AdmitObsolete
  <2> QED BY <1>0, <2>1, TerminatedUnmatched, ReleasedUnmatched
<1>2. CASE AdmitSkip(w, q)
  <2> DEFINE c == Counted(d, "SkippedChange", 1)
             e == [c EXCEPT !.pending = 0, !.processing = 0,
                            !.last = job[w].frame, !.rate = "none"]
  <2>1. query' = [query EXCEPT ![q] = e]
    BY <1>2 DEF AdmitSkip
  <2>2. PICK work \in [Dispositions -> Nat] : c = [d EXCEPT !.work = work]
    BY <1>0, CountedRecord DEF Dispositions
  <2>3. c.terminal = d.terminal /\ c \in QueryType
    BY <1>0, <2>2 DEF QueryType
  <2> HIDE DEF c
  <2>4. e.terminal = d.terminal
    BY <2>3 DEF QueryType
  <2> HIDE DEF e
  <2> QED BY <2>1, <2>4, RecordUnmatched
<1>3. CASE AdmitDefer(w, q)
  <2> DEFINE e == [d EXCEPT !.processing = 0, !.rate = "held"]
  <2>1. query' = [query EXCEPT ![q] = e]
    BY <1>3 DEF AdmitDefer, WatchInv, QueriesSound
  <2>2. e.terminal = d.terminal
    BY <1>0 DEF QueryType
  <2> HIDE DEF e
  <2> QED BY <2>1, <2>2, RecordUnmatched
<1>4. CASE AdmitAnalysis(w, q)
  <2> DEFINE g == d.generation + 1
             e == [d EXCEPT !.generation = g, !.rate = "none", !.pending = 0,
                            !.processing = 0,
                            !.inFlight = [generation |-> g, frame |-> job[w].frame]]
  <2>1. query' = [query EXCEPT ![q] = e]
    BY <1>4 DEF AdmitAnalysis
  <2>2. e.terminal = d.terminal
    BY <1>0 DEF QueryType
  <2> HIDE DEF e
  <2> QED BY <2>1, <2>2, RecordUnmatched
<1> QED BY <1>1, <1>2, <1>3, <1>4 DEF Admit

LEMMA CommitUnmatched ==
    ASSUME WatchInv, NEW w \in Workers, NEW q \in Queries, Refused(w, q), CompleteCommit(w)
    PROVE  Unmatched(q)
<1>1. PICK p \in Queries : p = job[w].at
  BY JobTypes DEF CompleteCommit, JobType
<1>2. job[w].stage = "completing" /\ job[w] \in JobType
  BY JobTypes DEF CompleteCommit, At
<1>3. CASE p = q
  <2> DEFINE o == IF closed \/ authority # None \/ schedulerClosed
                    THEN "SessionClosed" ELSE job[w].refusal
  <2>1. job[w].refusal # None /\ job[w].refusal \in {"Cancelled", "TargetLost", "SessionClosed"}
    BY <1>1, <1>2, <1>3 DEF Refused, JobType
  <2>2. o \in Outcomes /\ o # "Matched" /\ o # None
    BY <2>1 DEF Outcomes
  <2>3. query' = Terminated(p, o)
    BY <1>1, <2>2 DEF CompleteCommit
  <2> HIDE DEF o
  <2> QED BY <2>2, <2>3, TerminatedUnmatched
<1>4. CASE p # q
  <2>1. /\ \E e : query' = [query EXCEPT ![p] = e]
        \/ \E o : query' = Terminated(p, o)
        \/ query' = query
    BY <1>1 DEF CompleteCommit
  <2>2. query'[q] = query[q]
    BY <1>4, <2>1 DEF Terminated, WatchInv, QueriesSound
  <2> QED BY <2>2 DEF Unmatched
<1> QED BY <1>3, <1>4

LEMMA WorkUnmatched ==
    ASSUME WatchInv, NEW w \in Workers, Work(w), NEW q \in Queries, Refused(w, q)
    PROVE  Unmatched(q)
<1>0. {"Cancelled", "SessionClosed", "TargetLost"} \subseteq Outcomes \ {"Matched"}
  BY DEF Outcomes
<1>1. CASE \/ \E p \in Queries : Pick(w, p) \/ CompleteAsk(w, p)
           \/ Map(w) \/ Analyse(w)
  <2>1. query' = query
    BY <1>1 DEF Pick, CompleteAsk, Map, Analyse
  <2> QED BY <2>1 DEF Unmatched
<1>2. CASE Claim(w)
  <2>1. PICK p \in Queries : p = job[w].at
    BY <1>2, JobTypes DEF Claim, WorkerInv, JobType
  <2>2. CASE query' = query \/ (query' = Terminated(p, authority) /\ authority # None)
    <3>1. authority # None => authority \in Outcomes \ {"Matched"}
      BY DEF WatchInv, SessionType, Outcomes
    <3>2. CASE query' = query
      BY <3>2 DEF Unmatched
    <3> QED BY <2>2, <3>1, <3>2, TerminatedUnmatched
  <2>3. CASE \E claims \in SUBSET Queries :
                query' = [r \in Queries |->
                             IF r \in claims THEN [query[r] EXCEPT !.processing = job[w].frame]
                             ELSE query[r]]
    <3>1. \/ query'[q] = [query[q] EXCEPT !.processing = job[w].frame]
          \/ query'[q] = query[q]
      BY <2>3
    <3>2. [query[q] EXCEPT !.processing = job[w].frame].terminal = query[q].terminal
      BY QueryFacts DEF QueryType
    <3> QED BY <3>1, <3>2 DEF Unmatched
  <2>4. {r \in job[w].todo : Claimable(w, r)} \subseteq Queries
    BY JobTypes
  <2> QED BY <1>2, <2>1, <2>2, <2>3, <2>4 DEF Claim
<1>3. CASE Settle(w)
  <2>1. PICK p \in Queries : p = job[w].settle
    BY <1>3, JobTypes DEF Settle, JobType
  <2>2. query' = Terminated(p, "SessionClosed") \/ query' = query
    BY <1>3, <2>1 DEF Settle, EndedIfIdle
  <2>3. CASE query' = query
    BY <2>3 DEF Unmatched
  <2> QED BY <1>0, <2>2, <2>3, TerminatedUnmatched
<1>4. ASSUME NEW p \in Queries, MapInterrupted(w, p) \/ Release(w, p)
      PROVE  Unmatched(q)
  <2>1. query' = Terminated(p, "Cancelled") \/ query' = Released(p, job[w].frame)
    BY <1>4 DEF MapInterrupted, Release
  <2> QED BY <1>0, <2>1, TerminatedUnmatched, ReleasedUnmatched
<1>5. ASSUME NEW p \in Queries, FailMapping(w, p)
      PROVE  Unmatched(q)
  <2>1. \/ query' = Terminated(p, "Cancelled")
        \/ query' = [query EXCEPT ![p] =
                       Ended([Counted(@, "Failed", 1) EXCEPT
                                 !.pending = 0, !.processing = 0], "Failed")]
        \/ query' = Released(p, job[w].frame)
    BY <1>5 DEF FailMapping
  <2>2. "Failed" \in Dispositions
    BY DEF Dispositions
  <2>3. CASE query' = [query EXCEPT ![p] =
                         Ended([Counted(@, "Failed", 1) EXCEPT
                                   !.pending = 0, !.processing = 0], "Failed")]
    BY <2>2, <2>3, BroughtEnd
  <2> QED BY <1>0, <2>1, <2>3, TerminatedUnmatched, ReleasedUnmatched
<1> QED BY <1>1, <1>2, <1>3, <1>4, <1>5, AdmitUnmatched, CommitUnmatched DEF Work

LEMMA AdvancedAt ==
    ASSUME NEW j \in JobType, NEW p, NEW stage, NEW joined, j.at = None
    PROVE  /\ Advanced(j, p, stage, joined).at = None
           /\ [Advanced(j, p, stage, joined) EXCEPT !.settle = p].at = None
BY DEF Advanced, JobType, NoJob

(* A worker asks capture after it ended: it is refused.                    *)
LEMMA WorkRefused ==
    ASSUME WatchInv, NEW w \in Workers, Work(w), NEW q \in Queries, captureEnd # "open",
           \A v \in Workers : Refused(v, q)
    PROVE  \A v \in Workers : Refused(v, q)'
<1>0. job \in [Workers -> JobType] /\ job[w] \in JobType /\ WorkerInv(w) /\ q # None
  BY JobTypes DEF WatchInv, WorkersSound
<1>1. SUFFICES \/ job' = [job EXCEPT ![w] = job'[w]] /\ Refused(w, q)'
               \/ job' = job
  BY <1>0 DEF Refused
<1>2. ASSUME NEW n, job' = [job EXCEPT ![w] = n], n.at = None
      PROVE  job' = [job EXCEPT ![w] = job'[w]] /\ Refused(w, q)'
  <2>1. job'[w] = n
    BY <1>0, <1>2
  <2> QED BY <1>0, <1>2, <2>1 DEF Refused
<1>3. NoJob.at = None
  BY DEF NoJob
<1>4. ASSUME NEW p \in Queries, Pick(w, p) PROVE job' = [job EXCEPT ![w] = job'[w]] /\ Refused(w, q)'
  <2>1. job'[w].stage = "picked" /\ job' = [job EXCEPT ![w] = job'[w]]
    BY <1>0, <1>4 DEF Pick, NoJob
  <2> QED BY <2>1 DEF Refused
<1>5. CASE Claim(w)
  <2>1. \/ job' = [job EXCEPT ![w] = NoJob]
        \/ job' = [job EXCEPT ![w] = job'[w]] /\ job'[w].at = None
    BY <1>0, <1>5 DEF Claim, JobType
  <2> QED BY <1>2, <1>3, <2>1
<1>6. CASE Map(w) \/ Analyse(w)
  <2>1. job[w].at = None
    BY <1>0, <1>6 DEF Map, Analyse, At, WorkerInv
  <2>2. \/ job' = [job EXCEPT ![w] = NoJob]
        \/ job' = [job EXCEPT ![w] = job'[w]] /\ job'[w].at = None
    BY <1>0, <1>6, <2>1 DEF Map, Analyse, JobType
  <2> QED BY <1>2, <1>3, <2>2
<1>7. CASE CompleteCommit(w)
  <2> DEFINE j == [job[w] EXCEPT !.at = None, !.refusal = None]
  <2>1. j \in JobType /\ j.at = None
    BY <1>0 DEF JobType
  <2>2. job' = [job EXCEPT ![w] = [Advanced(j, job[w].at, "idle", {}) EXCEPT !.settle = job[w].at]]
    BY <1>0, <1>7 DEF CompleteCommit
  <2> HIDE DEF j
  <2>3. [Advanced(j, job[w].at, "idle", {}) EXCEPT !.settle = job[w].at].at = None
    BY <2>1, AdvancedAt
  <2> QED BY <1>2, <2>2, <2>3
<1>8. CASE Settle(w)
  <2>1. job' = [job EXCEPT ![w] = [job[w] EXCEPT !.settle = None]]
    BY <1>0, <1>8 DEF Settle
  <2>2. job'[w] = [job[w] EXCEPT !.settle = None]
    BY <1>0, <2>1
  <2>3. /\ job'[w].stage = job[w].stage /\ job'[w].at = job[w].at
        /\ job'[w].refusal = job[w].refusal
    BY <1>0, <2>2 DEF JobType
  <2>4. job' = [job EXCEPT ![w] = job'[w]]
    BY <2>1, <2>2
  <2> QED BY <2>3, <2>4 DEF Refused
<1>9. ASSUME NEW p \in Queries, MapInterrupted(w, p) \/ Release(w, p) \/ FailMapping(w, p)
             \/ Admit(w, p)
      PROVE  job' = [job EXCEPT ![w] = job'[w]] /\ Refused(w, q)'
  <2>1. job[w].at = None
    BY <1>0, <1>9 DEF MapInterrupted, Release, FailMapping, Admit, At, WorkerInv
  <2> DEFINE j == [job[w] EXCEPT !.stage = "releasing"]
  <2>2. j \in JobType /\ j.at = None
    BY <1>0, <2>1 DEF JobType
  <2>3. \E i \in {j, job[w]} : \E stage, joined :
           \/ job' = [job EXCEPT ![w] = Advanced(i, p, stage, joined)]
           \/ job' = [job EXCEPT ![w] = [Advanced(i, p, stage, joined) EXCEPT !.settle = p]]
    <3>1. CASE MapInterrupted(w, p)
      BY <1>0, <3>1 DEF MapInterrupted
    <3>2. CASE Release(w, p) \/ FailMapping(w, p)
      BY <1>0, <3>2 DEF Release, FailMapping
    <3>3. CASE Admit(w, p)
      BY <1>0, <3>3 DEF Admit, AdmitObsolete, AdmitSkip, AdmitDefer, AdmitAnalysis
    <3> QED BY <1>9, <3>1, <3>2, <3>3
  <2> HIDE DEF j
  <2>4. PICK i \in {j, job[w]} : \E stage, joined :
           \/ job' = [job EXCEPT ![w] = Advanced(i, p, stage, joined)]
           \/ job' = [job EXCEPT ![w] = [Advanced(i, p, stage, joined) EXCEPT !.settle = p]]
    BY <2>3
  <2>5. i \in JobType /\ i.at = None
    BY <1>0, <2>1, <2>2
  <2>6. \A stage, joined :
           /\ Advanced(i, p, stage, joined).at = None
           /\ [Advanced(i, p, stage, joined) EXCEPT !.settle = p].at = None
    BY <2>5, AdvancedAt
  <2> QED BY <1>2, <2>4, <2>6
<1>10. ASSUME NEW p \in Queries, CompleteAsk(w, p)
       PROVE  job' = [job EXCEPT ![w] = job'[w]] /\ Refused(w, q)'
  <2>1. CASE Live(p) /\ Holds(w, p)
    <3> DEFINE r == IF query[p].stopped THEN "Cancelled"
                    ELSE IF captureEnd = "lost" THEN "TargetLost"
                    ELSE IF captureEnd = "closed" THEN "SessionClosed"
                    ELSE None
               n == [job[w] EXCEPT !.at = p, !.refusal = r]
    <3>1. r # None
      BY DEF WatchInv, SessionType, Outcomes
    <3>2. job' = [job EXCEPT ![w] = n]
      BY <1>0, <1>10, <2>1 DEF CompleteAsk
    <3> HIDE DEF r
    <3>3. n.refusal # None
      BY <1>0, <3>1 DEF JobType
    <3> HIDE DEF n
    <3>4. job'[w] = n
      BY <1>0, <3>2
    <3> QED BY <3>2, <3>3, <3>4 DEF Refused
  <2>2. CASE ~(Live(p) /\ Holds(w, p))
    <3>1. job' = [job EXCEPT ![w] = Advanced(job[w], p, "idle", {})] /\ job[w].at = None
      BY <1>0, <1>10, <2>2 DEF CompleteAsk
    <3>2. Advanced(job[w], p, "idle", {}).at = None
      BY <1>0, <3>1, AdvancedAt
    <3> QED BY <1>2, <3>1, <3>2
  <2> QED BY <2>1, <2>2
<1> QED BY <1>4, <1>5, <1>6, <1>7, <1>8, <1>9, <1>10 DEF Work

(* Once capture has ended, a query matches only if a worker had asked      *)
(* capture for it before: the others are refused when they ask, whether or *)
(* not the acquisition thread has seen the end.                            *)
THEOREM MatchesNeedCapture == Spec => MatchNeedsCapture
<1>1. SUFFICES ASSUME NEW q \in Queries
               PROVE  Spec => []((/\ captureEnd # "open" /\ query[q].terminal # "Matched"
                                  /\ \A w \in Workers : job[w].at # q)
                                 => [](query[q].terminal # "Matched"))
  BY DEF MatchNeedsCapture
<1>2. (/\ captureEnd # "open" /\ query[q].terminal # "Matched"
       /\ \A w \in Workers : job[w].at # q) => Shut(q)
  BY DEF Shut, Refused
<1>3. Shut(q) => query[q].terminal # "Matched"
  BY DEF Shut
<1>4. WatchInv /\ Shut(q) /\ [Next]_vars => Shut(q)'
  <2> SUFFICES ASSUME WatchInv, Shut(q), [Next]_vars PROVE Shut(q)'
    OBVIOUS
  <2>1. CASE UNCHANGED vars
    BY <2>1 DEF vars, Shut, Refused
  <2>2. ASSUME NEW w \in Workers, Work(w) PROVE Shut(q)'
    <3>1. captureEnd' = captureEnd
      BY <2>2 DEF Work, Pick, Claim, Map, Analyse, CompleteCommit, Settle, MapInterrupted, Release,
         FailMapping, Admit, CompleteAsk
    <3> QED BY <2>2, <3>1, WorkUnmatched, WorkRefused DEF Shut, Unmatched
  <2>3. ASSUME NEW p \in Queries,
               \/ StartQuery(p) \/ Interrupt(p) \/ Sweep(p) \/ Cancel(p)
               \/ Expire(p) \/ RateElapses(p) \/ CloseQuery(p)
               \/ Enqueue(p) \/ EndQuery(p)
        PROVE  Shut(q)'
    <3>1. captureEnd' = captureEnd /\ job' = job
      BY <2>3 DEF StartQuery, Interrupt, Sweep, Cancel, Expire, RateElapses, CloseQuery, Enqueue,
         EndQuery
    <3> QED BY <2>3, <3>1, QueriesUnmatched DEF Shut, Refused, Unmatched
  <2>4. CASE \/ Capture \/ \E kind \in {"lost", "closed"} : CaptureEnds(kind)
             \/ PublishBegin \/ PublishEnd \/ SourceEnds \/ CloseScheduler
             \/ \E o \in {"SessionClosed", "SchedulerClosed"} : CloseSession(o)
    <3>1. query' = query /\ job' = job /\ captureEnd' = captureEnd
      BY <2>4 DEF Capture, CaptureEnds, PublishBegin, PublishEnd, SourceEnds, CloseScheduler,
           CloseSession, Shut
    <3> QED BY <3>1 DEF Shut, Refused
  <2> QED BY <2>1, <2>2, <2>3, <2>4 DEF Next, Acquire
<1> QED BY <1>2, <1>3, <1>4, WatchInvariant, PTL DEF Spec

=============================================================================
