-------------------------- MODULE OcrDispatch_proofs --------------------------
(***************************************************************************)
(* Proofs about the dispatch of template and OCR work, for any number of   *)
(* workers, sessions and queries: the mapping barrier and the lease of the *)
(* OCR engine are sound, a text query accounts for its frames and matches  *)
(* on an unbroken streak, its turns rotate, and of several ends that race  *)
(* the documented one is recorded.                                         *)
(***************************************************************************)
EXTENDS OcrDispatch, FiniteSetTheorems, TLAPS

Lives(d) == d.terminal = None

(* The frames of a query come one after the other: those counted or found  *)
(* without the text, the one under analysis, the pending one, which is the *)
(* newest.                                                                 *)
Ordered(d) ==
    Lives(d) =>
        /\ d.pending \in {0, d.source}
        /\ Executing(d) =>
              /\ 0 < d.execution.frame /\ d.execution.frame <= d.source
              /\ View[d.execution.frame] = View[d.source]
              /\ d.pending # 0 => d.execution.frame < d.pending
        /\ \A f \in d.confirmed \cup d.empties :
              /\ f <= d.source
              /\ Executing(d) => f < d.execution.frame
              /\ d.pending # 0 => f < d.pending

(* The streak is of the source's view and nothing interrupts it.           *)
StreakInv(d) ==
    /\ d.confirmed \cup d.empties \subseteq 1..MaxFrame
    /\ \A f \in d.confirmed :
           View[f] = View[d.source] /\ \A e \in d.empties : e < f

Total(d) == d.work["Completed"] + d.work["Failed"]
                + d.work["Superseded"] + d.work["SkippedChange"]

Outstanding(d) ==
    (IF d.pending # 0 THEN 1 ELSE 0) + (IF Executing(d) THEN 1 ELSE 0)

Accounted(d) ==
    /\ d.taken = Outstanding(d) + Total(d)
    /\ d.work["QueueExpired"] = IF d.terminal = "Overloaded" THEN 1 ELSE 0
    /\ ~Lives(d) => ~Executing(d)

Sound(d) == Ordered(d) /\ StreakInv(d) /\ Accounted(d)

(* A step that claims nothing: the physical slot stays, and the analysis   *)
(* under way is untouched or given up.                                     *)
Yields(d, e) ==
    /\ e.physical = d.physical
    /\ \/ e.execution = NoExecution
       \/ /\ e.execution = d.execution /\ e.terminal = d.terminal
          /\ e.confirmed = d.confirmed

(* And it does not make a match.                                           *)
Unmatched(d, e) ==
    e.terminal = "Matched" => d.terminal = "Matched" /\ e.confirmed = d.confirmed

Follows(d, e) == e \in TextType /\ Sound(e) /\ Yields(d, e) /\ Unmatched(d, e)

(* What a text query has counted, and what it matched on.                  *)
TextsInv ==
    \A q \in Texts :
        /\ Sound(text[q])
        /\ text[q].terminal = "Matched" => Cardinality(text[q].confirmed) >= Required[q]

(* What the worker with the lease has in its hands: the analysis it was    *)
(* given, as long as the query has one.                                    *)
Hands(w) ==
    Leasing(w) =>
        /\ job[w].at \in Texts /\ job[w].generation > 0 /\ job[w].frame > 0
        /\ Executing(text[job[w].at]) =>
              Current(w) /\ job[w].stage \notin {"settling", "leaving", "left"}
        /\ job[w].stage \in {"completing", "committing"} =>
              job[w].result \in {"empty", "found", "error"}
        /\ job[w].stage = "committing" /\ Current(w) =>
              job[w].confirmed = text[job[w].at].confirmed

LeaseInv ==
    /\ IsFiniteSet(MappingWorkers)
    /\ MappingExclusion /\ LeaseMatches /\ BarrierExact
    /\ \A w \in Workers : Hands(w) /\ (Converting(w) => dispatch.mapping)

(* The queries a close has yet to visit belong to a session whose end is   *)
(* recorded.                                                               *)
ClosingInv == \A q \in closing : authority[Home[q]] # None

DispatchInv == TypeOK /\ TextsInv /\ LeaseInv /\ ClosingInv

(* The types of what the workers share, and of the rest.                   *)
WorkType ==
    /\ text \in [Texts -> TextType]
    /\ dispatch \in DispatchType /\ barrier \in BOOLEAN
    /\ textCursor \in [Sessions -> Nat]
    /\ job \in [Workers -> JobType]

SourceType ==
    /\ captureEnd \in [Sessions -> {"open", "lost", "closed"}]
    /\ published \in [Sessions -> FramesOrNone]
    /\ busy \subseteq Sessions /\ offering \subseteq AllQueries /\ publications \in Nat
    /\ template \in [Templates -> {"quiet", "pending", "ended"}]
    /\ authority \in [Sessions -> {None, "TargetLost", "SessionClosed", "SchedulerClosed"}]
    /\ sourceEnded \subseteq Sessions /\ schedulerClosed \in BOOLEAN
    /\ closing \subseteq AllQueries /\ activated \subseteq Sessions

(* What a step does to the text queries.                                   *)
TextsYield ==
    /\ text' \in [Texts -> TextType]
    /\ TextsInv'
    /\ \A q \in Texts : Yields(text[q], text'[q])

(* It moves one of them.                                                   *)
Moves(q, t) == \E e \in TextType : Follows(text[q], e) /\ t = [text EXCEPT ![q] = e]

USE DEF sourceVars, authorityVars, dispatchVars, FramesOrNone

-----------------------------------------------------------------------------
(* What happens to the record of one query.                                *)

(* What stands for nothing is nothing else; frames are numbers.            *)
LEMMA NoneIsNone == /\ None \notin Workers /\ None \notin Texts /\ None \notin Templates
                    /\ None \notin Outcomes /\ Texts \cap Templates = {}
BY DispatchAssumption

LEMMA FramesAreNumbers ==
    /\ MaxFrame \in Nat /\ FramesOrNone \subseteq Nat /\ 0 \in FramesOrNone
    /\ \A f \in FramesOrNone : f # 0 => f \in 1..MaxFrame /\ 0 < f
BY DispatchAssumption

(* Sums regrouped, for the account of the frames.                          *)
LEMMA SumMoves ==
    ASSUME NEW x \in Nat, NEW y \in Nat, NEW z \in Nat, NEW n \in Nat, NEW o \in Nat,
           x + n = y + o
    PROVE  (y + z) + o = x + (z + n)
OBVIOUS

LEMMA RecordTypes ==
    ASSUME NEW d \in TextType
    PROVE  /\ d.terminal \in Outcomes \cup {None} /\ d.stopped \in Yielding
           /\ d.released \in BOOLEAN /\ d.deferred \in BOOLEAN
           /\ d.cooling \in BOOLEAN /\ d.physical \in BOOLEAN /\ d.previous \in BOOLEAN
           /\ d.source \in FramesOrNone /\ d.accepted \in FramesOrNone
           /\ d.pending \in FramesOrNone
           /\ d.execution \in [generation : Nat, frame : FramesOrNone]
           /\ d.generation \in Nat /\ d.taken \in Nat /\ d.work \in [Dispositions -> Nat]
           /\ d.confirmed \subseteq Nat /\ d.empties \subseteq Nat
           /\ NoExecution \in [generation : Nat, frame : FramesOrNone]
           /\ Outstanding(d) \in Nat
BY FramesAreNumbers DEF TextType, NoExecution, Outstanding

(* The account once a disposition is counted.                              *)
Account(d, k, n) == [d.work EXCEPT ![k] = @ + n]

(* Counting changes nothing else.                                          *)
Alike(c, d) ==
    /\ c.terminal = d.terminal /\ c.source = d.source /\ c.pending = d.pending
    /\ c.execution = d.execution /\ c.physical = d.physical /\ c.taken = d.taken
    /\ c.confirmed = d.confirmed /\ c.empties = d.empties
    /\ c.deferred = d.deferred /\ c.cooling = d.cooling

LEMMA CountedType ==
    ASSUME NEW d \in TextType, NEW k \in Dispositions, NEW n \in Nat
    PROVE  Counted(d, k, n) \in TextType
<1>1. Account(d, k, n) \in [Dispositions -> Nat]
  BY RecordTypes DEF Account
<1>2. Counted(d, k, n) = [d EXCEPT !.work = Account(d, k, n)]
  BY DEF Counted, Account
<1> QED BY <1>1, <1>2 DEF TextType

LEMMA CountedWork ==
    ASSUME NEW d \in TextType, NEW k \in Dispositions, NEW n \in Nat
    PROVE  Counted(d, k, n).work = Account(d, k, n)
BY DEF Counted, Account, TextType

LEMMA CountedAlike ==
    ASSUME NEW d \in TextType, NEW k \in Dispositions, NEW n \in Nat
    PROVE  Alike(Counted(d, k, n), d)
BY DEF Counted, Alike, TextType

LEMMA TotalType ==
    ASSUME NEW d \in TextType
    PROVE  Total(d) \in Nat /\ d.work["QueueExpired"] \in Nat
BY RecordTypes DEF Total, Dispositions

(* How the account of a query moves.                                       *)
LEMMA CountedTotal ==
    ASSUME NEW d \in TextType, NEW k \in Dispositions, k # "QueueExpired", NEW n \in Nat
    PROVE  /\ Total(Counted(d, k, n)) = Total(d) + n
           /\ Counted(d, k, n).work["QueueExpired"] = d.work["QueueExpired"]
<1>1. /\ Counted(d, k, n).work = Account(d, k, n)
      /\ \A j \in Dispositions :
            Account(d, k, n)[j] = IF j = k THEN d.work[j] + n ELSE d.work[j]
  <2>1. Counted(d, k, n).work = Account(d, k, n)
    BY CountedWork
  <2>2. d.work \in [Dispositions -> Nat]
    BY RecordTypes
  <2> QED BY <2>1, <2>2 DEF Account
<1> DEFINE c == d.work["Completed"]
           f == d.work["Failed"]
           s == d.work["Superseded"]
           p == d.work["SkippedChange"]
<1>2. c \in Nat /\ f \in Nat /\ s \in Nat /\ p \in Nat
  BY RecordTypes DEF Dispositions
<1>3. Total(Counted(d, k, n)) =
           (IF k = "Completed" THEN c + n ELSE c) + (IF k = "Failed" THEN f + n ELSE f)
              + (IF k = "Superseded" THEN s + n ELSE s)
              + (IF k = "SkippedChange" THEN p + n ELSE p)
  BY <1>1 DEF Total, Dispositions
<1>4. Total(d) = c + f + s + p
  BY DEF Total
<1>5. Counted(d, k, n).work["QueueExpired"] = d.work["QueueExpired"]
  BY <1>1 DEF Dispositions
<1> HIDE DEF c, f, s, p
<1>6. Total(Counted(d, k, n)) = Total(d) + n
  BY <1>2, <1>3, <1>4 DEF Dispositions
<1> QED BY <1>5, <1>6

LEMMA CountedExpired ==
    ASSUME NEW d \in TextType
    PROVE  /\ Total(Counted(d, "QueueExpired", 1)) = Total(d)
           /\ Counted(d, "QueueExpired", 1).work["QueueExpired"]
                  = d.work["QueueExpired"] + 1
<1> DEFINE e == Counted(d, "QueueExpired", 1)
<1>1. "QueueExpired" \in Dispositions
  BY DEF Dispositions
<1>2. /\ e.work = Account(d, "QueueExpired", 1)
      /\ \A j \in Dispositions : Account(d, "QueueExpired", 1)[j] =
                                     IF j = "QueueExpired" THEN d.work[j] + 1 ELSE d.work[j]
  <2>1. e.work = Account(d, "QueueExpired", 1)
    BY <1>1, CountedWork
  <2>2. d.work \in [Dispositions -> Nat]
    BY RecordTypes
  <2> QED BY <2>1, <2>2 DEF Account
<1> HIDE DEF e
<1>3. e.work["QueueExpired"] = d.work["QueueExpired"] + 1
  BY <1>1, <1>2
<1>4. Total(e) = Total(d)
  BY <1>2 DEF Total, Dispositions
<1> QED BY <1>3, <1>4 DEF e

(* Fields that the invariant does not look at.                             *)
LEMMA PlainSound ==
    ASSUME NEW d \in TextType, Sound(d), NEW e \in TextType,
           e.terminal = d.terminal, e.source = d.source, e.pending = d.pending,
           e.execution = d.execution, e.confirmed = d.confirmed, e.empties = d.empties,
           e.taken = d.taken, e.work = d.work
    PROVE  Sound(e)
<1>1. Executing(e) <=> Executing(d)
  BY DEF Executing
<1>2. Ordered(e)
  BY <1>1 DEF Sound, Ordered, Lives
<1>3. StreakInv(e)
  BY DEF Sound, StreakInv
<1>4. Outstanding(e) = Outstanding(d) /\ Total(e) = Total(d)
  BY <1>1 DEF Outstanding, Total
<1>5. Accounted(e)
  BY <1>1, <1>4 DEF Sound, Accounted, Lives
<1> QED BY <1>2, <1>3, <1>5 DEF Sound

(* A query ends: what it holds is superseded.                              *)
LEMMA EndedSound ==
    ASSUME NEW d \in TextType, StreakInv(d), d.taken = Outstanding(d) + Total(d),
           NEW o \in Outcomes,
           d.work["QueueExpired"] = IF o = "Overloaded" THEN 1 ELSE 0
    PROVE  /\ Ended(d, o) \in TextType /\ Sound(Ended(d, o))
           /\ Ended(d, o).terminal = o /\ Ended(d, o).execution = NoExecution
           /\ Ended(d, o).physical = d.physical /\ Ended(d, o).confirmed = d.confirmed
<1> DEFINE n == Outstanding(d)
           c == Counted(d, "Superseded", n)
           g == [c EXCEPT !.pending = 0, !.execution = NoExecution,
                          !.previous = FALSE, !.deferred = FALSE]
           e == [g EXCEPT !.terminal = o]
<1>1. "Superseded" \in Dispositions /\ n \in Nat /\ "Superseded" # "QueueExpired"
  BY RecordTypes DEF Dispositions
<1>2. /\ c \in TextType /\ Total(c) = Total(d) + n /\ Total(d) \in Nat
      /\ c.work["QueueExpired"] = d.work["QueueExpired"]
  <2>1. c \in TextType
    BY <1>1, CountedType
  <2> QED BY <1>1, <2>1, CountedTotal, TotalType
<1>3. Alike(c, d)
  BY <1>1, CountedAlike
<1>4. Ended(d, o) = e
  BY DEF Ended, Cleared, Outstanding
<1> HIDE DEF n, c
<1>5. g \in TextType
  BY <1>2, RecordTypes, FramesAreNumbers DEF TextType
<1>6. /\ g.source = d.source /\ g.confirmed = d.confirmed /\ g.empties = d.empties
      /\ g.taken = d.taken /\ g.physical = d.physical /\ g.work = c.work
      /\ g.pending = 0 /\ g.execution = NoExecution
  BY <1>2, <1>3 DEF TextType, Alike
<1> HIDE DEF g
<1>7. e \in TextType
  BY <1>5 DEF TextType
<1>8. /\ e.source = d.source /\ e.confirmed = d.confirmed /\ e.empties = d.empties
      /\ e.taken = d.taken /\ e.physical = d.physical /\ e.work = c.work
      /\ e.pending = 0 /\ e.execution = NoExecution /\ e.terminal = o
  BY <1>5, <1>6 DEF TextType
<1> HIDE DEF e
<1>9. ~Executing(e) /\ ~Lives(e)
  BY <1>8, NoneIsNone DEF Executing, Lives
<1>10. Total(e) = Total(d) + n
  BY <1>2, <1>8 DEF Total
<1>11. Accounted(e)
  <2>1. Outstanding(e) = 0
    BY <1>8, <1>9 DEF Outstanding
  <2>2. d.taken = n + Total(d)
    BY DEF n
  <2>3. d.taken = 0 + Total(e)
    BY <1>1, <1>2, <1>10, <2>2
  <2> QED BY <1>2, <1>8, <1>9, <2>1, <2>3 DEF Accounted
<1>12. StreakInv(e)
  BY <1>8 DEF StreakInv
<1>13. Ordered(e)
  BY <1>9 DEF Ordered
<1> QED BY <1>4, <1>7, <1>8, <1>11, <1>12, <1>13 DEF Sound

(* So it ends for any reason but a match or an overload.                   *)
LEMMA EndedFollows ==
    ASSUME NEW d \in TextType, Sound(d), Lives(d), NEW o \in Outcomes,
           o \notin {"Matched", "Overloaded"}
    PROVE  Follows(d, Ended(d, o)) /\ Ended(d, o).terminal = o
<1>1. d.work["QueueExpired"] = 0
  BY NoneIsNone DEF Sound, Accounted, Lives, Outcomes
<1>2. StreakInv(d) /\ d.taken = Outstanding(d) + Total(d)
  BY DEF Sound, Accounted
<1> QED BY <1>1, <1>2, EndedSound DEF Follows, Yields, Unmatched

(* The pending frame waited too long.                                      *)
LEMMA ExpiredFollows ==
    ASSUME NEW d \in TextType, Sound(d), Lives(d)
    PROVE  Follows(d, Ended(Counted(d, "QueueExpired", 1), "Overloaded"))
<1> DEFINE c == Counted(d, "QueueExpired", 1)
<1>1. "QueueExpired" \in Dispositions /\ "Overloaded" \in Outcomes
  BY DEF Dispositions, Outcomes
<1>2. /\ c \in TextType /\ Total(c) = Total(d)
      /\ c.work["QueueExpired"] = d.work["QueueExpired"] + 1
  <2>1. c \in TextType
    BY <1>1, CountedType
  <2> QED BY <2>1, CountedExpired
<1>3. Alike(c, d)
  BY <1>1, CountedAlike
<1> HIDE DEF c
<1>4. /\ c.source = d.source /\ c.confirmed = d.confirmed /\ c.empties = d.empties
      /\ c.taken = d.taken /\ c.physical = d.physical
      /\ c.pending = d.pending /\ c.execution = d.execution
  BY <1>3 DEF Alike
<1>5. StreakInv(c) /\ c.taken = Outstanding(c) + Total(c)
  BY <1>2, <1>4 DEF Sound, StreakInv, Accounted, Outstanding, Executing
<1>6. c.work["QueueExpired"] = 1
  BY <1>2, NoneIsNone DEF Sound, Accounted, Lives, Outcomes
<1>7. /\ Ended(c, "Overloaded") \in TextType /\ Sound(Ended(c, "Overloaded"))
      /\ Ended(c, "Overloaded").terminal = "Overloaded"
      /\ Ended(c, "Overloaded").execution = NoExecution
      /\ Ended(c, "Overloaded").physical = c.physical
  BY <1>1, <1>2, <1>5, <1>6, EndedSound
<1> QED BY <1>4, <1>7 DEF Follows, Yields, Unmatched, c

(* A frame of another view drops the analysis and the streak.              *)
LEMMA SourcedSound ==
    ASSUME NEW d \in TextType, Sound(d), Lives(d),
           NEW f \in FramesOrNone, d.source < f
    PROVE  LET s == Sourced(d, f)
           IN  /\ s \in TextType /\ StreakInv(s)
               /\ s.taken = Outstanding(s) + Total(s)
               /\ s.work["QueueExpired"] = d.work["QueueExpired"]
               /\ s.terminal = d.terminal /\ s.physical = d.physical
               /\ s.source = f /\ s.pending = d.pending
               /\ s.empties = d.empties /\ s.taken = d.taken
               /\ s.deferred = d.deferred /\ s.cooling = d.cooling
               /\ \/ s.execution = NoExecution
                  \/ /\ s.execution = d.execution /\ s.confirmed = d.confirmed
                     /\ View[d.source] = View[f]
               /\ s.confirmed \subseteq d.confirmed
<1> DEFINE s == Sourced(d, f)
<1>1. d.taken = Outstanding(d) + Total(d)
  BY DEF Sound, Accounted
<1>2. CASE d.source = 0 \/ View[d.source] = View[f]
  <2>1. s = [d EXCEPT !.source = f]
    BY <1>2 DEF Sourced
  <2> HIDE DEF s
  <2>2. s \in TextType
    BY <2>1 DEF TextType
  <2>3. /\ s.work = d.work /\ s.terminal = d.terminal /\ s.physical = d.physical
        /\ s.source = f /\ s.pending = d.pending /\ s.empties = d.empties
        /\ s.taken = d.taken /\ s.deferred = d.deferred /\ s.cooling = d.cooling
        /\ s.execution = d.execution /\ s.confirmed = d.confirmed
    BY <2>1 DEF TextType
  <2>4. Outstanding(s) = Outstanding(d) /\ Total(s) = Total(d)
    BY <2>3 DEF Outstanding, Executing, Total
  <2>5. d.source = 0 => d.confirmed = {} /\ d.empties = {} /\ ~Executing(d)
    <3>1. d.confirmed \cup d.empties \subseteq 1..MaxFrame
      BY DEF Sound, StreakInv
    <3>2. \A g \in d.confirmed \cup d.empties : g <= d.source
      BY DEF Sound, Ordered
    <3>3. Executing(d) => 0 < d.execution.frame /\ d.execution.frame <= d.source
      BY DEF Sound, Ordered
    <3>4. d.execution.frame \in Nat
      BY RecordTypes, FramesAreNumbers
    <3> QED BY <3>1, <3>2, <3>3, <3>4, FramesAreNumbers
  <2>6. StreakInv(s)
    BY <1>2, <2>3, <2>5 DEF Sound, StreakInv
  <2>7. Executing(d) => View[d.source] = View[f]
    BY <1>2, <2>5
  <2>8. d.execution = NoExecution \/ Executing(d)
    BY DEF Executing
  <2> QED BY <1>1, <2>2, <2>3, <2>4, <2>6, <2>7, <2>8 DEF s
<1>3. CASE ~(d.source = 0 \/ View[d.source] = View[f])
  <2> DEFINE n == IF Executing(d) THEN 1 ELSE 0
             c == Counted(d, "Superseded", n)
  <2>1. s = [c EXCEPT !.source = f, !.accepted = 0, !.previous = FALSE,
                      !.confirmed = {}, !.execution = NoExecution]
    BY <1>3 DEF Sourced
  <2> HIDE DEF s
  <2>2. "Superseded" \in Dispositions /\ n \in Nat /\ "Superseded" # "QueueExpired"
    BY DEF Dispositions
  <2>n. n \in Nat /\ (Executing(d) => n = 1) /\ (~Executing(d) => n = 0)
    OBVIOUS
  <2> HIDE DEF n
  <2>3. c \in TextType /\ Alike(c, d)
    BY <2>2, CountedType, CountedAlike
  <2>4. /\ Total(c) = Total(d) + n /\ Total(d) \in Nat
        /\ c.work["QueueExpired"] = d.work["QueueExpired"]
    BY <2>2, CountedTotal, TotalType
  <2> HIDE DEF c
  <2>5. s \in TextType
    <3>1. NoExecution \in [generation : Nat, frame : FramesOrNone] /\ 0 \in FramesOrNone
      BY RecordTypes, FramesAreNumbers
    <3>2. c \in TextType
      BY <2>3
    <3> QED BY <2>1, <3>1, <3>2 DEF TextType
  <2>6. /\ s.work = c.work /\ s.terminal = d.terminal /\ s.physical = d.physical
        /\ s.source = f /\ s.pending = d.pending /\ s.empties = d.empties
        /\ s.taken = d.taken /\ s.deferred = d.deferred /\ s.cooling = d.cooling
        /\ s.execution = NoExecution /\ s.confirmed = {}
    BY <2>1, <2>3 DEF TextType, Alike
  <2>7. Outstanding(s) = IF d.pending # 0 THEN 1 ELSE 0
    BY <2>6 DEF Outstanding, Executing
  <2>8. s.taken = Outstanding(s) + Total(s)
    <3>1. Total(s) = Total(d) + n
      BY <2>4, <2>6 DEF Total
    <3>2. Outstanding(d) = Outstanding(s) + n
      BY <2>7, <2>n DEF Outstanding
    <3>3. Outstanding(s) \in Nat
      BY <2>7
    <3> QED BY <1>1, <2>2, <2>4, <2>6, <3>1, <3>2, <3>3
  <2>9. StreakInv(s)
    BY <2>6 DEF Sound, StreakInv
  <2> QED BY <2>4, <2>5, <2>6, <2>8, <2>9 DEF s
<1> QED BY <1>2, <1>3

(* A newer frame takes the place of the pending one.                       *)
LEMMA EnqueuedFollows ==
    ASSUME NEW d \in TextType, Sound(d), Lives(d),
           NEW f \in FramesOrNone, d.source < f
    PROVE  Follows(d, Enqueued(d, f)) /\ Lives(Enqueued(d, f))
<1> DEFINE s == Sourced(d, f)
           n == IF d.pending # 0 THEN 1 ELSE 0
           c == Counted(s, "Superseded", n)
           e == Enqueued(d, f)
<1>1. /\ s \in TextType /\ StreakInv(s)
      /\ s.taken = Outstanding(s) + Total(s)
      /\ s.work["QueueExpired"] = d.work["QueueExpired"]
      /\ s.terminal = d.terminal /\ s.physical = d.physical
      /\ s.source = f /\ s.pending = d.pending
      /\ s.empties = d.empties /\ s.taken = d.taken
      /\ s.deferred = d.deferred /\ s.cooling = d.cooling
      /\ s.confirmed \subseteq d.confirmed
  BY SourcedSound
<1>2. \/ s.execution = NoExecution
      \/ /\ s.execution = d.execution /\ s.confirmed = d.confirmed
         /\ View[d.source] = View[f]
  BY SourcedSound
<1> HIDE DEF s
<1>3. "Superseded" \in Dispositions /\ n \in Nat /\ "Superseded" # "QueueExpired"
  BY DEF Dispositions
<1>n. n \in Nat /\ (d.pending # 0 => n = 1) /\ (d.pending = 0 => n = 0)
  OBVIOUS
<1> HIDE DEF n
<1>4. c \in TextType /\ Alike(c, s)
  BY <1>1, <1>3, CountedType, CountedAlike
<1>5. /\ Total(c) = Total(s) + n /\ Total(s) \in Nat
      /\ c.work["QueueExpired"] = s.work["QueueExpired"]
  BY <1>1, <1>3, CountedTotal, TotalType
<1> DEFINE t == s.taken + 1
           b == IF d.pending # 0 THEN s.deferred ELSE d.cooling
<1>6. c.taken = s.taken /\ c.deferred = s.deferred
  BY <1>4 DEF Alike
<1>7. e = [c EXCEPT !.pending = f, !.taken = t, !.deferred = b]
  <2>1. d.cooling = s.cooling
    BY SourcedSound DEF s
  <2> QED BY <1>6, <2>1 DEF Enqueued, s, n
<1>8. t \in Nat /\ b \in BOOLEAN
  BY <1>1, RecordTypes
<1> HIDE DEF c, t, b, e
<1>9. e \in TextType
  <2>1. c \in TextType
    BY <1>4
  <2> QED BY <1>7, <1>8, <2>1 DEF TextType
<1>10. /\ e.work = c.work /\ e.terminal = s.terminal /\ e.physical = s.physical
       /\ e.source = s.source /\ e.pending = f /\ e.empties = s.empties
       /\ e.taken = t /\ e.execution = s.execution /\ e.confirmed = s.confirmed
  BY <1>1, <1>4, <1>7 DEF TextType, Alike
<1>11. f # 0
  BY RecordTypes, FramesAreNumbers
<1>12. StreakInv(e)
  BY <1>1, <1>10 DEF StreakInv
<1>13. Accounted(e)
  <2>1. Total(e) = Total(s) + n
    BY <1>5, <1>10 DEF Total
  <2>2. Outstanding(e) + n = Outstanding(s) + 1
    BY <1>1, <1>10, <1>11, <1>n DEF Outstanding, Executing
  <2>3. Outstanding(e) \in Nat /\ Outstanding(s) \in Nat
    BY <1>1, <1>9, RecordTypes
  <2>4. (Outstanding(s) + Total(s)) + 1 = Outstanding(e) + (Total(s) + n)
    <3> DEFINE x == Outstanding(e)
               y == Outstanding(s)
               z == Total(s)
    <3>1. x \in Nat /\ y \in Nat /\ z \in Nat /\ n \in Nat /\ x + n = y + 1
      BY <1>n, <1>5, <2>2, <2>3
    <3> HIDE DEF x, y, z
    <3>2. (y + z) + 1 = x + (z + n)
      BY <3>1, SumMoves
    <3> QED BY <3>2 DEF x, y, z
  <2>5. e.taken = Outstanding(e) + Total(e)
    BY <1>1, <1>10, <2>1, <2>4 DEF t
  <2>6. e.work["QueueExpired"] = IF e.terminal = "Overloaded" THEN 1 ELSE 0
    BY <1>1, <1>5, <1>10 DEF Sound, Accounted
  <2> QED BY <1>1, <1>10, <2>5, <2>6 DEF Accounted, Lives
<1>14. Ordered(e)
  <2>1. Executing(e) => /\ Executing(d) /\ e.execution = d.execution
                        /\ e.confirmed = d.confirmed /\ View[d.source] = View[f]
    BY <1>2, <1>10 DEF Executing
  <2>2. /\ d.source \in Nat /\ f \in Nat /\ d.execution.frame \in Nat
        /\ d.confirmed \subseteq Nat /\ d.empties \subseteq Nat
    BY RecordTypes, FramesAreNumbers
  <2>3. Executing(e) =>
           /\ 0 < e.execution.frame /\ e.execution.frame < f
           /\ View[e.execution.frame] = View[f]
    BY <2>1, <2>2 DEF Sound, Ordered
  <2>4. \A g \in e.confirmed \cup e.empties : g \in d.confirmed \cup d.empties
    BY <1>1, <1>10
  <2>5. \A g \in e.confirmed \cup e.empties :
           g < f /\ (Executing(e) => g < e.execution.frame)
    BY <2>1, <2>2, <2>4 DEF Sound, Ordered
  <2>6. \A g \in e.confirmed \cup e.empties : g \in Nat
    BY <2>2, <2>4
  <2>7. e.execution.frame \in Nat
    BY <1>9, RecordTypes, FramesAreNumbers
  <2> QED BY <1>1, <1>10, <2>2, <2>3, <2>5, <2>6, <2>7 DEF Ordered
<1>15. Lives(e) /\ Yields(d, e) /\ Unmatched(d, e)
  BY <1>1, <1>2, <1>10, NoneIsNone DEF Lives, Yields, Unmatched, Outcomes
<1> QED BY <1>9, <1>12, <1>13, <1>14, <1>15 DEF Sound, Follows, e

(* The region of the query does not resolve on the frame.                  *)
LEMMA UnresolvedFollows ==
    ASSUME NEW d \in TextType, Sound(d), Lives(d),
           NEW f \in FramesOrNone, d.source < f
    PROVE  Follows(d, Unresolved(d, f)) /\ Unresolved(d, f).terminal = "Failed"
<1> DEFINE s == Sourced(d, f)
<1>1. /\ s \in TextType /\ StreakInv(s)
      /\ s.taken = Outstanding(s) + Total(s)
      /\ s.work["QueueExpired"] = d.work["QueueExpired"]
      /\ s.physical = d.physical
  BY SourcedSound
<1>2. Unresolved(d, f) = Ended(s, "Failed")
  BY DEF Unresolved
<1> HIDE DEF s
<1>3. "Failed" \in Outcomes /\ "Failed" # "Overloaded"
  BY DEF Outcomes
<1>4. s.work["QueueExpired"] = 0
  BY <1>1, NoneIsNone DEF Sound, Accounted, Lives, Outcomes
<1>5. /\ Ended(s, "Failed") \in TextType /\ Sound(Ended(s, "Failed"))
      /\ Ended(s, "Failed").terminal = "Failed"
      /\ Ended(s, "Failed").execution = NoExecution
      /\ Ended(s, "Failed").physical = s.physical
  BY <1>1, <1>3, <1>4, EndedSound
<1> QED BY <1>1, <1>2, <1>5 DEF Follows, Yields, Unmatched

(* The analysis under way is counted and over.                             *)
Dropped(d, k) == [Counted(d, k, 1) EXCEPT !.execution = NoExecution]

LEMMA DroppedSound ==
    ASSUME NEW d \in TextType, Sound(d), Lives(d), Executing(d),
           NEW k \in Dispositions, k # "QueueExpired"
    PROVE  /\ Dropped(d, k) \in TextType /\ Sound(Dropped(d, k))
           /\ Follows(d, Dropped(d, k)) /\ Lives(Dropped(d, k))
           /\ Dropped(d, k).execution = NoExecution
           /\ Dropped(d, k).confirmed = d.confirmed /\ Dropped(d, k).empties = d.empties
           /\ Dropped(d, k).source = d.source /\ Dropped(d, k).pending = d.pending
           /\ Dropped(d, k).physical = d.physical
<1> DEFINE c == Counted(d, k, 1)
           e == Dropped(d, k)
<1>1. c \in TextType /\ Alike(c, d)
  BY CountedType, CountedAlike
<1>2. /\ Total(c) = Total(d) + 1 /\ Total(d) \in Nat
      /\ c.work["QueueExpired"] = d.work["QueueExpired"]
  BY CountedTotal, TotalType
<1>3. e = [c EXCEPT !.execution = NoExecution]
  BY DEF Dropped
<1> HIDE DEF c, e
<1>4. e \in TextType
  BY <1>1, <1>3, RecordTypes DEF TextType
<1>5. /\ e.terminal = d.terminal /\ e.source = d.source /\ e.pending = d.pending
      /\ e.execution = NoExecution /\ e.physical = d.physical /\ e.taken = d.taken
      /\ e.confirmed = d.confirmed /\ e.empties = d.empties /\ e.work = c.work
  BY <1>1, <1>3 DEF TextType, Alike
<1>6. ~Executing(e)
  BY <1>5 DEF Executing
<1>7. Accounted(e)
  <2>1. Outstanding(d) = Outstanding(e) + 1
    BY <1>5, <1>6 DEF Outstanding
  <2>2. Total(e) = Total(d) + 1
    BY <1>2, <1>5 DEF Total
  <2>3. Outstanding(e) \in Nat
    BY <1>4, RecordTypes
  <2>4. e.taken = Outstanding(e) + Total(e)
    <3>1. d.taken = Outstanding(d) + Total(d)
      BY DEF Sound, Accounted
    <3> QED BY <1>2, <1>5, <2>1, <2>2, <2>3, <3>1
  <2> QED BY <1>2, <1>5, <1>6, <2>4 DEF Sound, Accounted
<1>8. StreakInv(e)
  BY <1>5 DEF Sound, StreakInv
<1>9. Ordered(e)
  BY <1>5, <1>6 DEF Sound, Ordered, Lives
<1> QED BY <1>4, <1>5, <1>7, <1>8, <1>9, CountedType, NoneIsNone
        DEF Sound, Follows, Yields, Unmatched, Lives, Outcomes, e

(* A worker takes the pending frame for analysis.                          *)
LEMMA ClaimedSound ==
    ASSUME NEW d \in TextType, Sound(d), Lives(d), ~Executing(d), d.pending # 0
    PROVE  LET e == Claimed(d)
           IN  /\ e \in TextType /\ Sound(e) /\ Unmatched(d, e) /\ e.physical
               /\ Lives(e) /\ Executing(e)
               /\ e.execution = [generation |-> d.generation + 1, frame |-> d.pending]
<1> DEFINE g == d.generation + 1
           i == [generation |-> g, frame |-> d.pending]
           e == Claimed(d)
<1>1. /\ g \in Nat /\ i \in [generation : Nat, frame : FramesOrNone]
      /\ i # NoExecution /\ i.frame = d.pending
  BY RecordTypes DEF NoExecution
<1>2. e = [d EXCEPT !.generation = g, !.pending = 0, !.deferred = FALSE,
                    !.execution = i, !.physical = TRUE]
  BY DEF Claimed
<1> HIDE DEF g, i, e
<1>3. e \in TextType
  BY <1>1, <1>2, FramesAreNumbers DEF TextType
<1>4. /\ e.terminal = d.terminal /\ e.source = d.source /\ e.pending = 0
      /\ e.execution = i /\ e.physical = TRUE /\ e.taken = d.taken
      /\ e.confirmed = d.confirmed /\ e.empties = d.empties /\ e.work = d.work
  BY <1>2 DEF TextType
<1>5. Executing(e)
  BY <1>1, <1>4 DEF Executing
<1>6. Outstanding(e) = 1 /\ Outstanding(d) = 1
  BY <1>4, <1>5 DEF Outstanding
<1>7. Accounted(e)
  BY <1>4, <1>6 DEF Sound, Accounted, Total, Lives
<1>8. StreakInv(e)
  BY <1>4 DEF Sound, StreakInv
<1>9. Ordered(e)
  <2>1. d.pending = d.source /\ 0 < d.pending /\ d.pending \in Nat
    BY RecordTypes, FramesAreNumbers DEF Sound, Ordered
  <2> QED BY <1>1, <1>4, <2>1 DEF Sound, Ordered, Lives
<1> QED BY <1>3, <1>4, <1>5, <1>7, <1>8, <1>9
        DEF Sound, Unmatched, Lives, e, i, g

(* A result enters the query: the frame is counted, and extends the streak *)
(* or breaks it.                                                           *)
Landed(d, p, s, x) ==
    [Counted(d, "Completed", 1) EXCEPT
        !.execution = NoExecution, !.accepted = d.execution.frame, !.previous = p,
        !.confirmed = s, !.empties = x]

LEMMA LandedSound ==
    ASSUME NEW d \in TextType, Sound(d), Lives(d), Executing(d), NEW p \in BOOLEAN,
           NEW s, NEW x,
           \/ s = d.confirmed \cup {d.execution.frame} /\ x = d.empties
           \/ s = {} /\ x = d.empties \cup {d.execution.frame}
    PROVE  LET e == Landed(d, p, s, x)
           IN  /\ e \in TextType /\ Sound(e) /\ Lives(e)
               /\ e.execution = NoExecution /\ e.confirmed = s
               /\ e.physical = d.physical
<1> DEFINE c == Dropped(d, "Completed")
           a == d.execution.frame
           e == Landed(d, p, s, x)
<1>1. "Completed" \in Dispositions /\ "Completed" # "QueueExpired"
  BY DEF Dispositions
<1>2. /\ c \in TextType /\ Sound(c) /\ Lives(c)
      /\ c.execution = NoExecution
      /\ c.confirmed = d.confirmed /\ c.empties = d.empties
      /\ c.source = d.source /\ c.pending = d.pending /\ c.physical = d.physical
  BY <1>1, DroppedSound
<1>3. Counted(d, "Completed", 1) \in TextType
  BY <1>1, CountedType
<1>4. e = [c EXCEPT !.accepted = a, !.previous = p, !.confirmed = s, !.empties = x]
  BY <1>3 DEF Landed, Dropped, TextType
<1>5. /\ a \in FramesOrNone /\ a \in Nat /\ a \in 1..MaxFrame
      /\ a <= d.source /\ View[a] = View[d.source]
      /\ d.pending # 0 => a < d.pending
      /\ \A f \in d.confirmed \cup d.empties : f < a
  BY RecordTypes, FramesAreNumbers DEF Sound, Ordered
<1>6. s \subseteq d.confirmed \cup {a} /\ x \subseteq d.empties \cup {a}
  OBVIOUS
<1>7. d.confirmed \cup d.empties \subseteq 1..MaxFrame /\ d.confirmed \subseteq Nat /\ d.empties \subseteq Nat
  BY RecordTypes DEF Sound, StreakInv
<1>8. s \subseteq Nat /\ x \subseteq Nat /\ s \cup x \subseteq 1..MaxFrame
  BY <1>5, <1>6, <1>7
<1> HIDE DEF c, e
<1>9. e \in TextType
  <2> HIDE DEF a
  <2> QED BY <1>2, <1>4, <1>5, <1>8 DEF TextType
<1>10. /\ e.terminal = c.terminal /\ e.source = c.source /\ e.pending = c.pending
       /\ e.execution = NoExecution /\ e.physical = c.physical /\ e.taken = c.taken
       /\ e.confirmed = s /\ e.empties = x /\ e.work = c.work
  BY <1>2, <1>4 DEF TextType
<1>11. Executing(e) <=> Executing(c)
  BY <1>2, <1>10 DEF Executing
<1>12. Accounted(e)
  <2>1. Outstanding(e) = Outstanding(c) /\ Total(e) = Total(c)
    BY <1>10, <1>11 DEF Outstanding, Total
  <2> QED BY <1>2, <1>10, <1>11, <2>1 DEF Sound, Accounted, Lives
<1>13. ~Executing(e)
  BY <1>10 DEF Executing
<1>14. Ordered(e)
  <2>1. \A f \in s \cup x : f \in d.confirmed \cup d.empties \/ f = a
    BY <1>6
  <2>2. \A f \in s \cup x : f <= d.source /\ (d.pending # 0 => f < d.pending)
    BY <1>5, <2>1 DEF Sound, Ordered
  <2>3. d.pending \in {0, d.source}
    BY DEF Sound, Ordered
  <2> QED BY <1>2, <1>10, <1>13, <2>2, <2>3 DEF Ordered
<1>15. StreakInv(e)
  <2>1. \A f \in s : View[f] = View[d.source]
    BY <1>5, <1>6 DEF Sound, StreakInv
  <2>2. \A f \in s, y \in x : y < f
    BY <1>5 DEF Sound, StreakInv
  <2> QED BY <1>2, <1>8, <1>10, <2>1, <2>2 DEF StreakInv
<1> QED BY <1>2, <1>9, <1>10, <1>12, <1>14, <1>15 DEF Sound, Lives, e

(* What a result makes of the query; a match has the streak it needs.      *)
LEMMA ConcludedSound ==
    ASSUME NEW q \in Texts, text[q] \in TextType, Sound(text[q]), Lives(text[q]),
           Executing(text[q]), NEW result \in {"empty", "found", "error"}
    PROVE  LET d == text[q]
               e == Concluded(q, d.execution.frame, result, d.confirmed)
           IN  /\ e \in TextType /\ Sound(e) /\ Yields(d, e)
               /\ e.execution = NoExecution
               /\ e.terminal \in {None, "Failed", "Matched"}
               /\ e.terminal = "Matched" => Cardinality(e.confirmed) >= Required[q]
<1>1. PICK d \in TextType : d = text[q]
  OBVIOUS
<1> DEFINE a == d.execution.frame
           p == q \in Skipping
           l == [Counted(d, "Completed", 1) EXCEPT
                   !.execution = NoExecution, !.accepted = a, !.previous = p]
           s == d.confirmed \cup {a}
           e == Concluded(q, a, result, d.confirmed)
<1>2. Sound(d) /\ Lives(d) /\ Executing(d) /\ p \in BOOLEAN
  BY <1>1
<1>3. Counted(d, "Completed", 1) \in TextType
  BY CountedType DEF Dispositions
<1>7. Counted(d, "Completed", 1).empties = d.empties
  <2>1. "Completed" \in Dispositions
    BY DEF Dispositions
  <2> QED BY <2>1, CountedAlike DEF Alike
<1>4. CASE result = "error"
  <2> DEFINE g == Dropped(d, "Failed")
  <2>1. /\ g \in TextType /\ Sound(g) /\ Lives(g) /\ g.physical = d.physical
    BY <1>2, DroppedSound DEF Dispositions
  <2>2. e = Ended(g, "Failed")
    BY <1>1, <1>4 DEF Concluded, Dropped
  <2> HIDE DEF g, e
  <2>3. "Failed" \in Outcomes /\ "Failed" # "Matched" /\ "Failed" # "Overloaded"
    BY DEF Outcomes
  <2>4. /\ e \in TextType /\ Sound(e) /\ e.terminal = "Failed"
        /\ e.execution = NoExecution /\ e.physical = g.physical
    <3>1. StreakInv(g) /\ g.taken = Outstanding(g) + Total(g)
          /\ g.work["QueueExpired"] = 0
      BY <2>1, NoneIsNone DEF Sound, Accounted, Lives, Outcomes
    <3> QED BY <2>1, <2>2, <2>3, <3>1, EndedSound
  <2> QED BY <1>1, <2>1, <2>4 DEF Yields, e
<1>5. CASE result = "empty"
  <2> DEFINE x == d.empties \cup {a}
             g == Landed(d, p, {}, x)
  <2>1. e = g
    <3>1. l.empties = d.empties
      BY <1>3, <1>7 DEF TextType
    <3>2. e = [l EXCEPT !.confirmed = {}, !.empties = @ \cup {a}]
      BY <1>1, <1>5 DEF Concluded
    <3>3. [l EXCEPT !.confirmed = {}, !.empties = x] = g
      BY <1>3 DEF Landed, TextType
    <3> HIDE DEF l
    <3> QED BY <3>1, <3>2, <3>3
  <2>2. /\ g \in TextType /\ Sound(g) /\ Lives(g) /\ g.execution = NoExecution
        /\ g.physical = d.physical
    <3>1. x = d.empties \cup {d.execution.frame}
      OBVIOUS
    <3> HIDE DEF x, p
    <3> QED BY <1>2, <3>1, LandedSound
  <2> HIDE DEF g
  <2> QED BY <1>1, <2>1, <2>2, NoneIsNone DEF Yields, Lives, Outcomes
<1>6. CASE result = "found"
  <2> DEFINE g == Landed(d, p, s, d.empties)
  <2>1. [l EXCEPT !.confirmed = s] = g
    <3> DEFINE c == Counted(d, "Completed", 1)
    <3>1. c \in TextType /\ c.empties = d.empties
      BY <1>3, <1>7
    <3>2. g = [c EXCEPT !.execution = NoExecution, !.accepted = a, !.previous = p,
                        !.confirmed = s, !.empties = c.empties]
      BY <3>1 DEF Landed
    <3> HIDE DEF c, g
    <3>3. g = [c EXCEPT !.execution = NoExecution, !.accepted = a, !.previous = p,
                        !.confirmed = s]
      <4> HIDE DEF a, s, p
      <4> QED BY <3>1, <3>2 DEF TextType
    <3> QED BY <3>1, <3>3 DEF TextType, c
  <2>2. /\ g \in TextType /\ Sound(g) /\ Lives(g) /\ g.execution = NoExecution
        /\ g.physical = d.physical /\ g.confirmed = s
    <3>1. s = d.confirmed \cup {d.execution.frame}
      OBVIOUS
    <3> HIDE DEF s, p
    <3> QED BY <1>2, <3>1, LandedSound
  <2>3. Cardinality(s) \in Nat /\ Required[q] \in Nat
    <3>1. s \subseteq 0..MaxFrame
      <4>1. d.confirmed \subseteq 1..MaxFrame /\ a \in 0..MaxFrame
        BY <1>2, RecordTypes DEF Sound, StreakInv
      <4> QED BY <4>1
    <3>2. IsFiniteSet(0..MaxFrame)
      BY FramesAreNumbers, FS_Interval
    <3>3. Cardinality(s) \in Nat
      BY <3>1, <3>2, FS_Subset, FS_CardinalityType
    <3> QED BY <3>3, DispatchAssumption
  <2>4. CASE Cardinality(s) < Required[q]
    <3>1. e = [l EXCEPT !.confirmed = s]
      BY <1>1, <1>6, <2>3, <2>4 DEF Concluded
    <3> HIDE DEF g, l, s
    <3> QED BY <1>1, <2>1, <2>2, <3>1, NoneIsNone DEF Yields, Lives, Outcomes
  <2>5. CASE Cardinality(s) >= Required[q]
    <3>1. e = Ended(g, "Matched")
      <4>1. ~(Cardinality(s) < Required[q])
        BY <2>3, <2>5
      <4>2. e = Ended([l EXCEPT !.confirmed = s], "Matched")
        BY <1>1, <1>6, <2>5, <4>1 DEF Concluded
      <4> QED BY <2>1, <4>2
    <3> HIDE DEF g, l, s, e
    <3>2. "Matched" \in Outcomes /\ "Matched" # "Overloaded"
      BY DEF Outcomes
    <3>3. StreakInv(g) /\ g.taken = Outstanding(g) + Total(g)
          /\ g.work["QueueExpired"] = 0
      BY <2>2, NoneIsNone DEF Sound, Accounted, Lives, Outcomes
    <3>4. /\ e \in TextType /\ Sound(e) /\ e.terminal = "Matched"
          /\ e.execution = NoExecution /\ e.physical = g.physical
          /\ e.confirmed = g.confirmed
      BY <2>2, <3>1, <3>2, <3>3, EndedSound
    <3> QED BY <1>1, <2>2, <2>5, <3>4 DEF Yields, e
  <2> QED BY <2>3, <2>4, <2>5
<1> QED BY <1>4, <1>5, <1>6

-----------------------------------------------------------------------------
(* The queries together.                                                   *)

LEMMA TypeParts == TypeOK <=> SourceType /\ WorkType
BY DEF TypeOK, SourceType, WorkType

LEMMA NothingFollows == \A d \in TextType : Sound(d) => Follows(d, d)
BY DEF Follows, Yields, Unmatched

LEMMA MovesYield ==
    ASSUME TypeOK, TextsInv, NEW q \in Texts, Moves(q, text')
    PROVE  TextsYield
<1>1. PICK e \in TextType : Follows(text[q], e) /\ text' = [text EXCEPT ![q] = e]
  BY DEF Moves
<1>2. text \in [Texts -> TextType]
  BY DEF TypeOK
<1>3. text' \in [Texts -> TextType] /\ text'[q] = e
  BY <1>1, <1>2
<1>4. \A p \in Texts : p # q => text'[p] = text[p]
  BY <1>1, <1>2
<1>5. \A p \in Texts : Yields(text[p], text'[p])
  BY <1>1, <1>3, <1>4 DEF Follows, Yields
<1>6. \A p \in Texts : Sound(text'[p])
  BY <1>1, <1>3, <1>4 DEF Follows, TextsInv
<1>7. ASSUME NEW p \in Texts, text'[p].terminal = "Matched"
      PROVE  Cardinality(text'[p].confirmed) >= Required[p]
  <2>1. text[p].terminal = "Matched" /\ text'[p].confirmed = text[p].confirmed
    BY <1>1, <1>3, <1>4, <1>7 DEF Follows, Unmatched
  <2> QED BY <2>1 DEF TextsInv
<1> QED BY <1>3, <1>5, <1>6, <1>7 DEF TextsYield, TextsInv

LEMMA SameYield ==
    ASSUME TypeOK, TextsInv, UNCHANGED text
    PROVE  TextsYield
BY DEF TypeOK, TextsInv, TextsYield, Yields

LEMMA SameMoves ==
    ASSUME TypeOK, TextsInv, NEW q \in Texts
    PROVE  Moves(q, text)
<1>1. text[q] \in TextType /\ text = [text EXCEPT ![q] = text[q]]
  BY DEF TypeOK
<1>2. Follows(text[q], text[q])
  BY <1>1, NothingFollows DEF TextsInv
<1> QED BY <1>1, <1>2 DEF Moves

(* The ends a query may be told of.                                        *)
LEMMA AuthorityType ==
    ASSUME TypeOK, NEW q \in Texts
    PROVE  Authority(q) \in {None, "TargetLost", "SessionClosed", "SchedulerClosed",
                             "Cancelled", "DeadlineExceeded"}
<1>1. Home[q] \in Sessions
  BY DispatchAssumption
<1>2. authority[Home[q]] \in {None, "TargetLost", "SessionClosed", "SchedulerClosed"}
  BY <1>1 DEF TypeOK
<1>3. text[q].stopped \in {None, "Cancelled", "DeadlineExceeded"}
  BY RecordTypes DEF TypeOK, Yielding
<1> QED BY <1>2, <1>3 DEF Authority

LEMMA EndedMoves ==
    ASSUME TypeOK, TextsInv, NEW q \in Texts, Live(q),
           NEW o \in {"TargetLost", "SessionClosed", "SchedulerClosed",
                      "Cancelled", "DeadlineExceeded", "Failed"}
    PROVE  /\ Follows(text[q], Ended(text[q], o))
           /\ Moves(q, [text EXCEPT ![q] = Ended(text[q], o)])
<1>1. text[q] \in TextType /\ Sound(text[q]) /\ Lives(text[q])
  BY DEF TypeOK, TextsInv, Live, Lives
<1>2. o \in Outcomes /\ o \notin {"Matched", "Overloaded"}
  BY DEF Outcomes
<1>3. Follows(text[q], Ended(text[q], o))
  BY <1>1, <1>2, EndedFollows
<1> QED BY <1>3 DEF Moves, Follows

LEMMA TerminatedMoves ==
    ASSUME TypeOK, TextsInv, NEW q \in Texts,
           NEW o \in {"TargetLost", "SessionClosed", "SchedulerClosed",
                      "Cancelled", "DeadlineExceeded", "Failed"}
    PROVE  Moves(q, Terminated(q, o))
<1>1. CASE ~Live(q)
  BY <1>1, SameMoves DEF Terminated
<1>2. CASE Live(q)
  <2> DEFINE k == Decided(q, o)
  <2>1. k \in {"TargetLost", "SessionClosed", "SchedulerClosed",
               "Cancelled", "DeadlineExceeded", "Failed"}
    BY AuthorityType DEF Decided
  <2>2. Terminated(q, o) = [text EXCEPT ![q] = Ended(text[q], k)]
    BY <1>2 DEF Terminated
  <2> HIDE DEF k
  <2> QED BY <1>2, <2>1, <2>2, EndedMoves
<1> QED BY <1>1, <1>2

LEMMA SweptMoves ==
    ASSUME TypeOK, TextsInv, NEW q \in Texts
    PROVE  Moves(q, Swept(q))
<1>1. CASE Swept(q) = text
  BY <1>1, SameMoves
<1>2. CASE Live(q) /\ Authority(q) # None
  <2>1. Authority(q) \in {"TargetLost", "SessionClosed", "SchedulerClosed",
                         "Cancelled", "DeadlineExceeded", "Failed"}
    BY <1>2, AuthorityType
  <2>2. Swept(q) = [text EXCEPT ![q] = Ended(text[q], Authority(q))]
    BY <1>2 DEF Swept
  <2> QED BY <1>2, <2>1, <2>2, EndedMoves
<1>3. CASE Live(q) /\ Swept(q) = [text EXCEPT ![q] = Ended(@, "SessionClosed")]
  BY <1>3, EndedMoves
<1> QED BY <1>1, <1>2, <1>3 DEF Swept

-----------------------------------------------------------------------------
(* The lease under a step of one worker, or of none.                       *)

(* A worker that keeps what it had and a query that yields.                *)
LEMMA HandsKept ==
    ASSUME TypeOK, LeaseInv, TextsYield, NEW w \in Workers, job'[w] = job[w]
    PROVE  Hands(w)'
<1> SUFFICES ASSUME Leasing(w) PROVE Hands(w)'
  BY DEF Hands, Leasing
<1> DEFINE q == job[w].at
<1>1. /\ q \in Texts /\ job[w].generation > 0 /\ job[w].frame > 0
      /\ Executing(text[q]) =>
              Current(w) /\ job[w].stage \notin {"settling", "leaving", "left"}
      /\ job[w].stage \in {"completing", "committing"} =>
              job[w].result \in {"empty", "found", "error"}
      /\ job[w].stage = "committing" /\ Current(w) =>
              job[w].confirmed = text[q].confirmed
  BY DEF LeaseInv, Hands
<1>2. Yields(text[q], text'[q])
  BY <1>1 DEF TextsYield
<1>3. Executing(text'[q]) =>
         /\ text'[q].execution = text[q].execution
         /\ text'[q].terminal = text[q].terminal
         /\ text'[q].confirmed = text[q].confirmed /\ Executing(text[q])
  BY <1>2 DEF Yields, Executing
<1>4. Executing(text'[q]) => Current(w)' /\ Current(w)
  BY <1>1, <1>3 DEF Current
<1>5. Current(w)' => Executing(text'[q])
  <2>1. job[w].generation \in Nat
    BY DEF TypeOK, JobType
  <2> QED BY <1>1, <2>1 DEF Current, Executing, NoExecution
<1> QED BY <1>1, <1>3, <1>4, <1>5 DEF Hands

LEMMA LeaseKept ==
    ASSUME TypeOK, LeaseInv, TextsYield, UNCHANGED <<job, dispatch, barrier>>
    PROVE  LeaseInv'
<1>1. \A w \in Workers : Hands(w)'
  BY HandsKept
<1>2. MappingWorkers' = MappingWorkers
  BY DEF MappingWorkers
<1>3. /\ \A w \in Workers : Leasing(w)' <=> Leasing(w)
      /\ \A w \in Workers : Converting(w)' <=> Converting(w)
  BY DEF Leasing, Converting
<1>4. MappingExclusion' /\ BarrierExact'
  BY <1>2, <1>3 DEF LeaseInv, MappingExclusion, BarrierExact
<1>5. LeaseMatches'
  <2>1. \A q \in Texts : text'[q].physical = text[q].physical
    BY DEF TextsYield, Yields
  <2>2. \A q \in Texts : Executing(text'[q]) => Executing(text[q])
    BY DEF TextsYield, Yields, Executing
  <2> QED BY <1>3, <2>1, <2>2 DEF LeaseInv, LeaseMatches
<1> QED BY <1>1, <1>2, <1>3, <1>4, <1>5 DEF LeaseInv

(* The mapping counter follows the workers that map.                       *)
LEMMA MappersKept ==
    ASSUME TypeOK, NEW w \in Workers, \A v \in Workers : v # w => job'[v] = job[v],
           job'[w].stage = "mapping" <=> job[w].stage = "mapping"
    PROVE  MappingWorkers' = MappingWorkers
BY DEF MappingWorkers

LEMMA OthersKept ==
    ASSUME TypeOK, NEW w \in Workers, NEW j \in JobType, job' = [job EXCEPT ![w] = j]
    PROVE  /\ job' \in [Workers -> JobType] /\ job'[w] = j
           /\ \A v \in Workers : v # w => job'[v] = job[v]
           /\ \A v \in Workers : v # w =>
                 /\ Leasing(v)' <=> Leasing(v)
                 /\ Converting(v)' <=> Converting(v)
<1>1. job \in [Workers -> JobType]
  BY DEF TypeOK
<1>2. /\ job' \in [Workers -> JobType] /\ job'[w] = j
      /\ \A v \in Workers : v # w => job'[v] = job[v]
  BY <1>1
<1> QED BY <1>2 DEF Leasing, Converting

(* A worker that neither takes nor returns a lease or a mapping.           *)
LEMMA WorkerStep ==
    ASSUME TypeOK, LeaseInv, TextsYield, NEW w \in Workers,
           NEW j \in JobType, job' = [job EXCEPT ![w] = j],
           j.stage # "mapping" /\ job[w].stage # "mapping",
           j.stage \in LeaseStages <=> Leasing(w),
           Leasing(w) => j.at = job[w].at /\ job[w].stage # "left" /\ j.stage # "left",
           Hands(w)',
           dispatch'.mappings = dispatch.mappings, dispatch'.worker = dispatch.worker,
           barrier' <=> dispatch'.turn \/ dispatch'.mapping,
           dispatch'.turn => dispatch'.worker = None,
           dispatch'.mapping => dispatch.mapping,
           dispatch.mapping /\ ~dispatch'.mapping =>
               Leasing(w) /\ j.stage \notin {"claimed", "preparing"},
           dispatch'.mapping /\ Leasing(w) =>
               j.stage \in {"claimed", "preparing", "leaving"},
           j.stage \in {"claimed", "preparing"} => Converting(w)
    PROVE  LeaseInv'
<1>1. /\ job' \in [Workers -> JobType] /\ job'[w] = j
      /\ \A v \in Workers : v # w => job'[v] = job[v]
      /\ \A v \in Workers : v # w => /\ Leasing(v)' <=> Leasing(v)
                                     /\ Converting(v)' <=> Converting(v)
  BY OthersKept
<1>2. /\ Leasing(w)' <=> Leasing(w)
      /\ Converting(w)' => Converting(w)
      /\ Converting(w)' <=> j.stage \in {"claimed", "preparing"}
  BY <1>1 DEF Leasing, Converting
<1>3. MappingWorkers' = MappingWorkers
  BY <1>1, MappersKept
<1>4. \A v \in Workers : Hands(v)'
  BY <1>1, HandsKept
<1>5. MappingExclusion'
  <2>1. (\E v \in Workers : Converting(v)') => \E v \in Workers : Converting(v)
    BY <1>1, <1>2
  <2> QED BY <1>3, <2>1 DEF LeaseInv, MappingExclusion
<1>6. LeaseMatches'
  <2>1. \A v \in Workers : Leasing(v)' <=> dispatch'.worker = v
    BY <1>1, <1>2 DEF LeaseInv, LeaseMatches
  <2>2. ASSUME NEW q \in Texts
        PROVE  /\ text'[q].physical <=>
                     \E v \in Workers : Leasing(v)' /\ job'[v].stage # "left" /\ job'[v].at = q
               /\ Executing(text'[q]) => text'[q].physical
    <3>1. text'[q].physical = text[q].physical /\ (Executing(text'[q]) => Executing(text[q]))
      BY DEF TextsYield, Yields, Executing
    <3>2. \A v \in Workers :
             Leasing(v)' /\ job'[v].stage # "left" /\ job'[v].at = q <=>
             Leasing(v) /\ job[v].stage # "left" /\ job[v].at = q
      BY <1>1, <1>2
    <3> QED BY <3>1, <3>2 DEF LeaseInv, LeaseMatches
  <2> QED BY <2>1, <2>2 DEF LeaseMatches
<1>7. \A v, u \in Workers : Leasing(v) /\ Leasing(u) => v = u
  BY DEF LeaseInv, LeaseMatches
<1>8. \A v \in Workers : Converting(v) => Leasing(v)
  BY DEF Converting, Leasing, LeaseStages
<1>9. \A v \in Workers : Converting(v)' => dispatch'.mapping
  BY <1>1, <1>2, <1>7, <1>8 DEF LeaseInv
<1>10. BarrierExact'
  <2>1. ASSUME dispatch'.mapping
        PROVE  \E v \in Workers : Converting(v)' \/ job'[v].stage \in {"leaving", "left"}
    <3>1. PICK v \in Workers : Converting(v) \/ job[v].stage \in {"leaving", "left"}
      BY <2>1 DEF LeaseInv, BarrierExact
    <3>2. Leasing(v)
      BY <3>1 DEF Converting, Leasing, LeaseStages
    <3>3. CASE v = w
      BY <1>1, <1>2, <2>1, <3>2, <3>3
    <3>4. CASE v # w
      BY <1>1, <3>1, <3>4
    <3> QED BY <3>3, <3>4
  <2> QED BY <2>1 DEF BarrierExact
<1> QED BY <1>3, <1>4, <1>5, <1>6, <1>9, <1>10 DEF LeaseInv

(* A step of a worker that has no OCR work, before and after.              *)
LEMMA FreeStep ==
    ASSUME TypeOK, LeaseInv, TextsYield, NEW w \in Workers,
           NEW j \in JobType, job' = [job EXCEPT ![w] = j],
           j.stage \in {"idle", "scan", "template"},
           job[w].stage \in {"idle", "scan", "template", "analysing", "gone"},
           dispatch'.mappings = dispatch.mappings, dispatch'.worker = dispatch.worker,
           barrier' <=> dispatch'.turn \/ dispatch'.mapping,
           dispatch'.turn => dispatch'.worker = None,
           dispatch'.mapping = dispatch.mapping
    PROVE  LeaseInv'
<1>1. ~Leasing(w) /\ j.stage \notin LeaseStages
  BY DEF Leasing, LeaseStages
<1>2. job'[w] = j
  BY OthersKept
<1>3. Hands(w)'
  BY <1>1, <1>2 DEF Hands, Leasing
<1>4. j.stage \notin {"mapping", "claimed", "preparing"} /\ job[w].stage # "mapping"
  OBVIOUS
<1>5. dispatch'.mapping => dispatch.mapping
  OBVIOUS
<1> QED BY <1>1, <1>3, <1>4, <1>5, WorkerStep

(* Nothing but the job of the worker changes.                              *)
LEMMA BarrierNow ==
    ASSUME LeaseInv, UNCHANGED <<dispatch, barrier>>
    PROVE  /\ dispatch'.mappings = dispatch.mappings /\ dispatch'.worker = dispatch.worker
           /\ barrier' <=> dispatch'.turn \/ dispatch'.mapping
           /\ dispatch'.turn => dispatch'.worker = None
           /\ dispatch'.mapping = dispatch.mapping
BY DEF LeaseInv, BarrierExact

(* The worker with the lease goes on; while it still converts it goes to   *)
(* the next step of the conversion or gives the lease back.                *)
LEMMA LeaseStep ==
    ASSUME TypeOK, LeaseInv, TextsYield, NEW w \in Workers,
           NEW j \in JobType, job' = [job EXCEPT ![w] = j],
           UNCHANGED <<dispatch, barrier>>,
           Leasing(w), j.stage \in LeaseStages, j.at = job[w].at,
           job[w].stage \notin {"leaving", "left"}, j.stage # "left",
           Converting(w) => j.stage \in {"claimed", "preparing", "leaving"},
           ~Converting(w) => j.stage \notin {"claimed", "preparing"},
           Hands(w)'
    PROVE  LeaseInv'
<1>1. j.stage # "mapping" /\ job[w].stage # "mapping"
  BY DEF LeaseStages, Leasing
<1>2. dispatch.mapping => Converting(w)
  <2>1. ASSUME dispatch.mapping PROVE Converting(w)
    <3>1. PICK v \in Workers : Converting(v) \/ job[v].stage \in {"leaving", "left"}
      BY <2>1 DEF LeaseInv, BarrierExact
    <3>2. Leasing(v)
      BY <3>1 DEF Converting, Leasing, LeaseStages
    <3>3. v = w
      BY <3>2 DEF LeaseInv, LeaseMatches
    <3> QED BY <3>1, <3>3
  <2> QED BY <2>1
<1>3. j.stage \in {"claimed", "preparing"} => Converting(w)
  OBVIOUS
<1>4. dispatch.mapping => j.stage \in {"claimed", "preparing", "leaving"}
  BY <1>2
<1>5. /\ dispatch'.mappings = dispatch.mappings /\ dispatch'.worker = dispatch.worker
      /\ barrier' <=> dispatch'.turn \/ dispatch'.mapping
      /\ dispatch'.turn => dispatch'.worker = None
      /\ dispatch'.mapping = dispatch.mapping
  BY BarrierNow
<1> QED BY <1>1, <1>3, <1>4, <1>5, WorkerStep

-----------------------------------------------------------------------------
(* The steps that happen to the queries from outside the workers.          *)

LEMMA OutsideStep ==
    ASSUME DispatchInv, TextsYield, SourceType', ClosingInv', UNCHANGED <<dispatchVars, job>>
    PROVE  DispatchInv'
<1>1. LeaseInv'
  BY LeaseKept DEF DispatchInv
<1>2. WorkType'
  BY DEF DispatchInv, TypeOK, WorkType, TextsYield
<1>3. TypeOK'
  BY <1>2 DEF TypeOK, WorkType, SourceType
<1> QED BY <1>1, <1>3 DEF DispatchInv, TextsYield

LEMMA HomeType == \A q \in AllQueries : Home[q] \in Sessions
BY DispatchAssumption DEF AllQueries

LEMMA DeactivatedType ==
    ASSUME activated \subseteq Sessions, NEW s, NEW texts, NEW templates
    PROVE  Deactivated(s, texts, templates) \subseteq Sessions
BY DEF Deactivated

LEMMA RegisteredType == \A s \in Sessions : Registered(s) \subseteq {q \in AllQueries : Home[q] = s}
BY DEF Registered, QueriesOf

(* Nothing the workers or the text queries have is touched.                *)
LEMMA SourceKeeps ==
    ASSUME DispatchInv,
           \/ CloseScheduler
           \/ \E s \in Sessions :
                 \/ PublishBegin(s) \/ PublishEnd(s) \/ SourceEnds(s)
                 \/ \E kind \in {"lost", "closed"} : CaptureEnds(s, kind)
                 \/ \E outcome \in {"SessionClosed", "SchedulerClosed"} :
                       CloseSession(s, outcome)
           \/ \E t \in Templates :
                 EndTemplate(t) \/ CloseTemplate(t) \/ EnqueueTemplate(t)
    PROVE  DispatchInv'
<1> USE NoneIsNone DEF SourceType, ClosingInv
<1>1. SourceType /\ ClosingInv
  BY DEF DispatchInv, TypeOK
<1>2. ASSUME UNCHANGED <<text, dispatchVars, job>>, SourceType', ClosingInv'
      PROVE  DispatchInv'
  BY <1>2, SameYield, OutsideStep DEF DispatchInv
<1>3. CASE CloseScheduler
  <2>1. SourceType' /\ ClosingInv'
    BY <1>1, <1>3 DEF CloseScheduler
  <2> QED BY <1>2, <1>3, <2>1 DEF CloseScheduler
<1>4. ASSUME NEW s \in Sessions, PublishBegin(s) PROVE DispatchInv'
  <2>1. published' \in [Sessions -> FramesOrNone]
    BY <1>1, <1>4, DispatchAssumption DEF PublishBegin
  <2>2. busy' \subseteq Sessions /\ offering' \subseteq AllQueries
    BY <1>1, <1>4 DEF PublishBegin, QueriesOf
  <2>3. SourceType' /\ ClosingInv'
    BY <1>1, <1>4, <2>1, <2>2 DEF PublishBegin
  <2> QED BY <1>2, <1>4, <2>3 DEF PublishBegin
<1>5. ASSUME NEW s \in Sessions, PublishEnd(s) PROVE DispatchInv'
  <2>1. SourceType' /\ ClosingInv'
    BY <1>1, <1>5 DEF PublishEnd
  <2> QED BY <1>2, <1>5, <2>1 DEF PublishEnd
<1>6. ASSUME NEW s \in Sessions, SourceEnds(s) PROVE DispatchInv'
  <2>1. CASE captureEnd[s] = "lost" /\ authority[s] = None
    <3>1. /\ authority' = [authority EXCEPT ![s] = "TargetLost"]
          /\ closing' = closing \cup Registered(s)
      BY <1>6, <2>1 DEF SourceEnds
    <3>2. /\ authority' \in [Sessions -> {None, "TargetLost", "SessionClosed", "SchedulerClosed"}]
          /\ authority'[s] # None /\ \A r \in Sessions : authority[r] # None => authority'[r] # None
      BY <1>1, <3>1 DEF Outcomes
    <3>3. closing' \subseteq AllQueries /\ ClosingInv'
      BY <1>1, <3>1, <3>2, HomeType, RegisteredType
    <3>4. SourceType'
      BY <1>1, <1>6, <3>2, <3>3 DEF SourceEnds
    <3> QED BY <1>2, <1>6, <3>3, <3>4 DEF SourceEnds
  <2>2. CASE ~(captureEnd[s] = "lost" /\ authority[s] = None)
    <3>1. SourceType' /\ ClosingInv'
      BY <1>1, <1>6, <2>2 DEF SourceEnds
    <3> QED BY <1>2, <1>6, <3>1 DEF SourceEnds
  <2> QED BY <2>1, <2>2
<1>7. ASSUME NEW s \in Sessions, NEW kind \in {"lost", "closed"}, CaptureEnds(s, kind)
      PROVE  DispatchInv'
  <2>1. SourceType' /\ ClosingInv'
    BY <1>1, <1>7 DEF CaptureEnds
  <2> QED BY <1>2, <1>7, <2>1 DEF CaptureEnds
<1>8. ASSUME NEW s \in Sessions, NEW o \in {"SessionClosed", "SchedulerClosed"},
             CloseSession(s, o)
      PROVE  DispatchInv'
  <2>1. /\ authority' = [authority EXCEPT ![s] = o]
        /\ closing' = closing \cup Registered(s)
    BY <1>8 DEF CloseSession
  <2>2. /\ authority' \in [Sessions -> {None, "TargetLost", "SessionClosed", "SchedulerClosed"}]
        /\ authority'[s] # None /\ \A r \in Sessions : authority[r] # None => authority'[r] # None
    BY <1>1, <2>1 DEF Outcomes
  <2>3. closing' \subseteq AllQueries /\ ClosingInv'
    BY <1>1, <2>1, <2>2, HomeType, RegisteredType
  <2>4. SourceType'
    BY <1>1, <1>8, <2>2, <2>3 DEF CloseSession
  <2> QED BY <1>2, <1>8, <2>3, <2>4 DEF CloseSession
<1>9. ASSUME NEW t \in Templates, EndTemplate(t) PROVE DispatchInv'
  <2>1. activated' \subseteq Sessions
    BY <1>1, <1>9, DeactivatedType DEF EndTemplate
  <2>2. SourceType' /\ ClosingInv'
    BY <1>1, <1>9, <2>1 DEF EndTemplate
  <2> QED BY <1>2, <1>9, <2>2 DEF EndTemplate
<1>10. ASSUME NEW t \in Templates, CloseTemplate(t) PROVE DispatchInv'
  <2>1. activated' \subseteq Sessions
    BY <1>1, <1>10, DeactivatedType DEF CloseTemplate
  <2>2. SourceType' /\ ClosingInv'
    BY <1>1, <1>10, <2>1 DEF CloseTemplate
  <2> QED BY <1>2, <1>10, <2>2 DEF CloseTemplate
<1>11. ASSUME NEW t \in Templates, EnqueueTemplate(t) PROVE DispatchInv'
  <2>1. SourceType' /\ ClosingInv'
    BY <1>1, <1>11 DEF EnqueueTemplate
  <2> QED BY <1>2, <1>11, <2>1 DEF EnqueueTemplate
<1> QED BY <1>3, <1>4, <1>5, <1>6, <1>7, <1>8, <1>9, <1>10, <1>11

(* A flag of a query's record changes.                                     *)
LEMMA PlainMoves ==
    ASSUME TypeOK, TextsInv, NEW q \in Texts, NEW e \in TextType,
           e.terminal = text[q].terminal, e.source = text[q].source,
           e.pending = text[q].pending, e.execution = text[q].execution,
           e.confirmed = text[q].confirmed, e.empties = text[q].empties,
           e.taken = text[q].taken, e.work = text[q].work,
           e.physical = text[q].physical
    PROVE  Moves(q, [text EXCEPT ![q] = e])
<1>1. text[q] \in TextType /\ Sound(text[q])
  BY DEF TypeOK, TextsInv
<1>2. Sound(e)
  BY <1>1, PlainSound
<1> QED BY <1>2 DEF Moves, Follows, Yields, Unmatched

(* Steps on one text query.                                                *)
LEMMA TextKeeps ==
    ASSUME DispatchInv, NEW q \in Texts,
           \/ \E outcome \in {"Cancelled", "DeadlineExceeded"} : Interrupt(q, outcome)
           \/ Cancel(q) \/ Sweep(q) \/ Expire(q) \/ RateElapses(q)
           \/ AfterTerminal(q) \/ CloseText(q) \/ EnqueueText(q)
    PROVE  DispatchInv'
<1> DEFINE d == text[q]
<1>1. /\ TypeOK /\ TextsInv /\ SourceType /\ ClosingInv
      /\ d \in TextType /\ Sound(d) /\ text \in [Texts -> TextType]
  BY DEF DispatchInv, TypeOK, TextsInv, SourceType
<1>2. ASSUME Moves(q, text'), SourceType', ClosingInv', UNCHANGED <<dispatchVars, job>>
      PROVE  DispatchInv'
  BY <1>1, <1>2, MovesYield, OutsideStep
<1>3. ASSUME NEW o \in {"Cancelled", "DeadlineExceeded"}, Interrupt(q, o)
      PROVE  DispatchInv'
  <2> DEFINE e == [d EXCEPT !.stopped = o]
  <2>1. text' = [text EXCEPT ![q] = e]
    BY <1>3 DEF Interrupt
  <2>2. e \in TextType
    BY <1>1 DEF TextType, Yielding
  <2>3. Moves(q, text')
    BY <1>1, <2>1, <2>2, PlainMoves DEF TextType
  <2>4. SourceType' /\ ClosingInv'
    BY <1>1, <1>3 DEF Interrupt, SourceType, ClosingInv
  <2> QED BY <1>2, <1>3, <2>3, <2>4 DEF Interrupt
<1>4. CASE Cancel(q)
  <2>1. Moves(q, text')
    BY <1>1, <1>4, TerminatedMoves DEF Cancel
  <2>2. SourceType' /\ ClosingInv'
    BY <1>1, <1>4 DEF Cancel, SourceType, ClosingInv
  <2> QED BY <1>2, <1>4, <2>1, <2>2 DEF Cancel
<1>5. CASE Sweep(q)
  <2>1. Moves(q, text')
    BY <1>1, <1>5, SweptMoves DEF Sweep
  <2>2. SourceType' /\ ClosingInv'
    BY <1>1, <1>5 DEF Sweep, SourceType, ClosingInv
  <2> QED BY <1>2, <1>5, <2>1, <2>2 DEF Sweep
<1>6. CASE Expire(q)
  <2> DEFINE e == Ended(Counted(d, "QueueExpired", 1), "Overloaded")
  <2>1. Follows(d, e)
    BY <1>1, <1>6, ExpiredFollows DEF Expire, Live, Lives
  <2>2. text' = [text EXCEPT ![q] = e]
    BY <1>6 DEF Expire
  <2> HIDE DEF e
  <2>3. Moves(q, text')
    BY <2>1, <2>2 DEF Moves, Follows
  <2>4. SourceType' /\ ClosingInv'
    BY <1>1, <1>6 DEF Expire, SourceType, ClosingInv
  <2> QED BY <1>2, <1>6, <2>3, <2>4 DEF Expire
<1>7. CASE RateElapses(q)
  <2> DEFINE e == [d EXCEPT !.cooling = FALSE]
  <2>1. text' = [text EXCEPT ![q] = e]
    BY <1>7 DEF RateElapses
  <2>2. e \in TextType
    BY <1>1 DEF TextType
  <2>3. Moves(q, text')
    BY <1>1, <2>1, <2>2, PlainMoves DEF TextType
  <2>4. SourceType' /\ ClosingInv'
    BY <1>1, <1>7 DEF RateElapses, SourceType, ClosingInv
  <2> QED BY <1>2, <1>7, <2>3, <2>4 DEF RateElapses
<1>8. CASE AfterTerminal(q)
  <2> DEFINE e == [d EXCEPT !.released = TRUE]
  <2>1. text' = [text EXCEPT ![q] = e]
    BY <1>8 DEF AfterTerminal
  <2>2. e \in TextType
    BY <1>1 DEF TextType
  <2>3. Moves(q, text')
    BY <1>1, <2>1, <2>2, PlainMoves DEF TextType
  <2>4. activated' \subseteq Sessions
    BY <1>1, <1>8, DeactivatedType DEF AfterTerminal, SourceType
  <2>5. SourceType' /\ ClosingInv'
    BY <1>1, <1>8, <2>4 DEF AfterTerminal, SourceType, ClosingInv
  <2> QED BY <1>2, <1>8, <2>3, <2>5 DEF AfterTerminal
<1>9. CASE CloseText(q)
  <2>1. authority[Home[q]] \in {"TargetLost", "SessionClosed", "SchedulerClosed"}
    BY <1>1, <1>9, HomeType DEF CloseText, ClosingInv, SourceType, AllQueries
  <2>2. Moves(q, text')
    BY <1>1, <1>9, <2>1, TerminatedMoves DEF CloseText
  <2>3. SourceType' /\ ClosingInv'
    BY <1>1, <1>9 DEF CloseText, SourceType, ClosingInv
  <2> QED BY <1>2, <1>9, <2>2, <2>3 DEF CloseText
<1>10. CASE EnqueueText(q)
  <2> DEFINE f == published[Home[q]]
  <2>1. f \in FramesOrNone
    BY <1>1, HomeType DEF SourceType, AllQueries
  <2>2. ASSUME text' = text
        PROVE  Moves(q, text')
    BY <1>1, <2>2, SameMoves
  <2>3. ASSUME Live(q) /\ Authority(q) # None /\ text' = Terminated(q, Authority(q))
        PROVE  Moves(q, text')
    BY <1>1, <2>3, AuthorityType, TerminatedMoves
  <2>4. ASSUME Live(q) /\ d.source < f /\ text' = [text EXCEPT ![q] = Enqueued(d, f)]
        PROVE  Moves(q, text')
    <3>1. Follows(d, Enqueued(d, f))
      BY <1>1, <2>1, <2>4, EnqueuedFollows DEF Live, Lives
    <3> QED BY <2>4, <3>1 DEF Moves, Follows
  <2>5. ASSUME Live(q) /\ d.source < f /\ text' = [text EXCEPT ![q] = Unresolved(d, f)]
        PROVE  Moves(q, text')
    <3>1. Follows(d, Unresolved(d, f))
      BY <1>1, <2>1, <2>5, UnresolvedFollows DEF Live, Lives
    <3> QED BY <2>5, <3>1 DEF Moves, Follows
  <2>6. Moves(q, text')
    <3>1. ~(d.source >= f) <=> d.source < f
      BY <1>1, <2>1, RecordTypes, FramesAreNumbers
    <3> HIDE DEF f
    <3> QED BY <1>10, <2>2, <2>3, <2>4, <2>5, <3>1 DEF EnqueueText, f
  <2>7. SourceType' /\ ClosingInv'
    BY <1>1, <1>10 DEF EnqueueText, SourceType, ClosingInv
  <2> QED BY <1>2, <1>10, <2>6, <2>7 DEF EnqueueText
<1> QED BY <1>3, <1>4, <1>5, <1>6, <1>7, <1>8, <1>9, <1>10

-----------------------------------------------------------------------------
(* The steps of a worker without OCR work.                                 *)

LEMMA WorkerKeeps ==
    ASSUME DispatchInv, TextsYield, LeaseInv', NEW w \in Workers, NEW j \in JobType,
           job' = [job EXCEPT ![w] = j], UNCHANGED <<sourceVars, authorityVars>>,
           template' \in [Templates -> {"quiet", "pending", "ended"}],
           activated' \subseteq Sessions,
           dispatch' \in DispatchType, barrier' \in BOOLEAN,
           textCursor' \in [Sessions -> Nat]
    PROVE  DispatchInv'
<1>1. job' \in [Workers -> JobType]
  BY OthersKept DEF DispatchInv
<1>2. SourceType /\ ClosingInv
  BY TypeParts DEF DispatchInv
<1>3. SourceType' /\ ClosingInv'
  BY <1>2 DEF SourceType, ClosingInv
<1>4. WorkType'
  BY <1>1 DEF WorkType, TextsYield
<1>5. TypeOK'
  BY <1>3, <1>4 DEF TypeOK, WorkType, SourceType
<1> QED BY <1>3, <1>5 DEF DispatchInv, TextsYield

LEMMA NoJobType == NoJob \in JobType
<1>1. [s \in Sessions |-> 0] \in [Sessions -> Nat] /\ 0 \in FramesOrNone
  BY FramesAreNumbers
<1> QED BY <1>1 DEF NoJob, JobType, Yielding

LEMMA FreeJobs ==
    ASSUME TypeOK
    PROVE  /\ NoJob.stage = "idle"
           /\ [NoJob EXCEPT !.stage = "template", !.fence = publications] \in JobType
           /\ [NoJob EXCEPT !.stage = "template", !.fence = publications].stage = "template"
<1> DEFINE j == [NoJob EXCEPT !.stage = "template", !.fence = publications]
<1>1. publications \in Nat
  BY DEF TypeOK
<1>2. j \in JobType /\ j.stage = "template"
  BY <1>1, NoJobType DEF JobType
<1> QED BY <1>2 DEF NoJob

(* Without a lease nothing converts.                                       *)
LEMMA NoLease ==
    ASSUME LeaseInv, dispatch.worker = None
    PROVE  ~dispatch.mapping /\ \A w \in Workers : ~Leasing(w)
<1>1. \A w \in Workers : ~Leasing(w)
  BY NoneIsNone DEF LeaseInv, LeaseMatches
<1>2. \A w \in Workers : ~Converting(w) /\ job[w].stage \notin {"leaving", "left"}
  BY <1>1 DEF Converting, Leasing, LeaseStages
<1> QED BY <1>1, <1>2 DEF LeaseInv, BarrierExact

(* The worker decides, and goes on to the template queries or rests.       *)
LEMMA FreeKeeps ==
    ASSUME DispatchInv, NEW w \in Workers,
           Idle(w) \/ ToTemplates(w), job[w].stage \in {"scan", "template", "analysing", "gone"},
           UNCHANGED <<sourceVars, authorityVars, text, template, textCursor>>,
           activated' \subseteq Sessions,
           dispatch' \in DispatchType, barrier' \in BOOLEAN,
           dispatch'.mappings = dispatch.mappings, dispatch'.worker = dispatch.worker,
           barrier' <=> dispatch'.turn \/ dispatch'.mapping,
           dispatch'.turn => dispatch'.worker = None,
           dispatch'.mapping = dispatch.mapping
    PROVE  DispatchInv'
<1>1. PICK j \in JobType : job' = [job EXCEPT ![w] = j] /\ j.stage \in {"idle", "template"}
  BY NoJobType, FreeJobs DEF Idle, ToTemplates, DispatchInv
<1>2. TextsYield
  BY SameYield DEF DispatchInv
<1>3. LeaseInv'
  BY <1>1, <1>2, FreeStep DEF DispatchInv
<1>4. /\ template' \in [Templates -> {"quiet", "pending", "ended"}]
      /\ textCursor' \in [Sessions -> Nat]
  BY DEF DispatchInv, TypeOK
<1> QED BY <1>1, <1>2, <1>3, <1>4, WorkerKeeps

LEMMA NextDispatchKeeps ==
    ASSUME DispatchInv, NEW w \in Workers, NextDispatch(w)
    PROVE  DispatchInv'
<1> DEFINE todo == {q \in Texts : Home[q] \in activated /\ Live(q)}
           some == \E t \in Templates : Home[t] \in activated /\ Candidate(t)
           j == IF dispatch.worker # None
                  THEN [NoJob EXCEPT !.stage = "template", !.fence = publications]
                  ELSE [NoJob EXCEPT !.stage = "scan", !.fence = publications,
                            !.cursor = dispatch.cursor, !.cursors = textCursor,
                            !.todo = todo, !.templates = some]
<1>1. /\ job' = [job EXCEPT ![w] = j] /\ job[w].stage = "idle"
      /\ UNCHANGED <<sourceVars, text, template, authorityVars, activated, dispatchVars>>
  BY FreeJobs DEF NextDispatch, DispatchInv
<1>2. /\ TypeOK /\ LeaseInv /\ TextsYield
      /\ publications \in Nat /\ dispatch.cursor \in Nat /\ textCursor \in [Sessions -> Nat]
  BY <1>1, SameYield DEF DispatchInv, TypeOK, DispatchType
<1>3. j \in JobType /\ j.stage \in {"scan", "template"}
  <2> DEFINE k == [NoJob EXCEPT !.stage = "scan", !.fence = publications,
                      !.cursor = dispatch.cursor, !.cursors = textCursor,
                      !.todo = todo, !.templates = some]
  <2>1. todo \subseteq Texts /\ some \in BOOLEAN
    OBVIOUS
  <2> HIDE DEF todo, some
  <2>2. k \in JobType
    BY <1>2, <2>1, NoJobType DEF JobType
  <2>3. k.stage = "scan"
    BY NoJobType DEF JobType
  <2> HIDE DEF k
  <2>4. j = IF dispatch.worker # None
              THEN [NoJob EXCEPT !.stage = "template", !.fence = publications] ELSE k
    BY DEF k
  <2> HIDE DEF j
  <2> QED BY <1>2, <2>2, <2>3, <2>4, FreeJobs
<1> HIDE DEF j
<1>4. /\ dispatch'.mappings = dispatch.mappings /\ dispatch'.worker = dispatch.worker
      /\ barrier' <=> dispatch'.turn \/ dispatch'.mapping
      /\ dispatch'.turn => dispatch'.worker = None
      /\ dispatch'.mapping = dispatch.mapping
  BY <1>1, <1>2, BarrierNow
<1>5. LeaseInv'
  BY <1>1, <1>2, <1>3, <1>4, FreeStep
<1>6. SourceType /\ WorkType
  BY <1>2, TypeParts
<1> QED BY <1>1, <1>2, <1>3, <1>5, <1>6, WorkerKeeps DEF SourceType, WorkType

LEMMA ScanKeeps ==
    ASSUME DispatchInv, NEW w \in Workers, NEW q \in Texts, Scan(w, q)
    PROVE  DispatchInv'
<1> DEFINE k == job[w]
           todo == k.todo \ {q}
           seen == IF Ready(text'[q]) THEN k.seen \cup {<<q, text[q].pending>>} ELSE k.seen
           j == [k EXCEPT !.todo = todo, !.seen = seen]
<1>1. /\ k \in JobType /\ text[q] \in TextType /\ TypeOK /\ LeaseInv /\ TextsInv
      /\ job \in [Workers -> JobType]
  BY DEF DispatchInv, TypeOK
<1>2. /\ job' = [job EXCEPT ![w] = j] /\ k.stage = "scan" /\ text' = Swept(q)
      /\ UNCHANGED <<sourceVars, template, authorityVars, activated, dispatchVars>>
  BY <1>1 DEF Scan
<1>3. TextsYield
  BY <1>1, <1>2, SweptMoves, MovesYield
<1>4. todo \subseteq Texts /\ seen \subseteq Texts \X FramesOrNone
  BY <1>1, RecordTypes DEF JobType
<1>5. j \in JobType /\ j.stage = "scan"
  <2> HIDE DEF todo, seen
  <2>1. j \in JobType
    BY <1>1, <1>4 DEF JobType
  <2> QED BY <1>1, <1>2, <2>1 DEF JobType
<1> HIDE DEF j
<1>6. /\ dispatch'.mappings = dispatch.mappings /\ dispatch'.worker = dispatch.worker
      /\ barrier' <=> dispatch'.turn \/ dispatch'.mapping
      /\ dispatch'.turn => dispatch'.worker = None
      /\ dispatch'.mapping = dispatch.mapping
  BY <1>1, <1>2, BarrierNow
<1>7. LeaseInv'
  BY <1>1, <1>2, <1>3, <1>5, <1>6, FreeStep
<1>8. SourceType /\ WorkType
  BY <1>1, TypeParts
<1> QED BY <1>2, <1>3, <1>5, <1>7, <1>8, WorkerKeeps DEF SourceType, WorkType

(* The decisions that give no lease.                                       *)
LEMMA DecideKeeps ==
    ASSUME DispatchInv, NEW w \in Workers,
           \/ DecideStale(w) \/ DecideLeased(w) \/ DecideNoText(w)
           \/ DecideTemplates(w) \/ DecideDrain(w) \/ DecideNone(w),
           UNCHANGED <<sourceVars, template, authorityVars, activated>>
    PROVE  DispatchInv'
<1>1. /\ TypeOK /\ LeaseInv /\ dispatch \in DispatchType /\ barrier \in BOOLEAN
      /\ activated' \subseteq Sessions
  BY DEF DispatchInv, TypeOK
<1>2. /\ barrier <=> dispatch.turn \/ dispatch.mapping
      /\ dispatch.turn => dispatch.worker = None
  BY <1>1 DEF LeaseInv, BarrierExact
<1>3. job[w].stage = "scan" /\ (Idle(w) \/ ToTemplates(w)) /\ UNCHANGED <<text, textCursor>>
  BY DEF DecideStale, DecideLeased, DecideNoText, DecideTemplates, DecideDrain,
         DecideNone, TextTurn, Scanned
<1>4. ASSUME UNCHANGED barrier, NEW r \in BOOLEAN, dispatch' = [dispatch EXCEPT !.ready = r]
      PROVE  DispatchInv'
  <2>1. /\ dispatch' \in DispatchType
        /\ dispatch'.mappings = dispatch.mappings /\ dispatch'.worker = dispatch.worker
        /\ dispatch'.turn = dispatch.turn /\ dispatch'.mapping = dispatch.mapping
    BY <1>1, <1>4 DEF DispatchType
  <2> QED BY <1>1, <1>2, <1>3, <1>4, <2>1, FreeKeeps
<1>5. ASSUME dispatch.worker = None, NEW r \in BOOLEAN, NEW t \in BOOLEAN,
             dispatch' = [dispatch EXCEPT !.ready = r, !.turn = t], barrier' = t
      PROVE  DispatchInv'
  <2>1. /\ dispatch' \in DispatchType
        /\ dispatch'.mappings = dispatch.mappings /\ dispatch'.worker = dispatch.worker
        /\ dispatch'.turn = t /\ dispatch'.mapping = dispatch.mapping
    BY <1>1, <1>5 DEF DispatchType
  <2>2. ~dispatch.mapping
    BY <1>1, <1>5, NoLease
  <2> QED BY <1>1, <1>3, <1>5, <2>1, <2>2, FreeKeeps
<1>6. CASE DecideStale(w)
  BY <1>1, <1>2, <1>3, <1>6, FreeKeeps DEF DecideStale
<1>7. CASE DecideLeased(w)
  <2>1. (job[w].seen # {}) \in BOOLEAN
    OBVIOUS
  <2> QED BY <1>4, <1>7, <2>1 DEF DecideLeased
<1>8. CASE DecideNoText(w)
  BY <1>5, <1>8 DEF DecideNoText
<1>9. CASE DecideTemplates(w)
  BY <1>4, <1>9 DEF DecideTemplates
<1>10. CASE DecideDrain(w)
  BY <1>5, <1>10 DEF DecideDrain, TextTurn
<1>11. CASE DecideNone(w)
  BY <1>5, <1>11 DEF DecideNone, TextTurn
<1> QED BY <1>6, <1>7, <1>8, <1>9, <1>10, <1>11

(* A worker that is done rests.                                            *)
LEMMA RestKeeps ==
    ASSUME DispatchInv, NEW w \in Workers,
           TakeNothing(w) \/ TemplateDone(w) \/ LeaveSession(w)
    PROVE  DispatchInv'
<1>1. /\ TypeOK /\ LeaseInv /\ dispatch \in DispatchType /\ barrier \in BOOLEAN
      /\ activated \subseteq Sessions
  BY DEF DispatchInv, TypeOK
<1>2. /\ barrier <=> dispatch.turn \/ dispatch.mapping
      /\ dispatch.turn => dispatch.worker = None
  BY <1>1 DEF LeaseInv, BarrierExact
<1>3. activated' \subseteq Sessions
  BY <1>1, DeactivatedType DEF TakeNothing, TemplateDone, LeaveSession
<1>4. /\ Idle(w) /\ job[w].stage \in {"template", "analysing", "gone"}
      /\ UNCHANGED <<sourceVars, authorityVars, text, template, dispatchVars>>
  BY DEF TakeNothing, TemplateDone, LeaveSession
<1> QED BY <1>1, <1>2, <1>3, <1>4, FreeKeeps

-----------------------------------------------------------------------------
(* The steps of the worker with the lease.                                 *)

(* What ends has no analysis under way.                                    *)
LEMMA SweptEnds ==
    ASSUME TypeOK, TextsInv, NEW q \in Texts
    PROVE  Swept(q) = text \/ ~Executing(Swept(q)[q])
<1> SUFFICES ASSUME Swept(q) # text PROVE ~Executing(Swept(q)[q])
  OBVIOUS
<1>1. text \in [Texts -> TextType] /\ Live(q)
  BY DEF TypeOK, Swept
<1>2. PICK o \in {"TargetLost", "SessionClosed", "SchedulerClosed",
                 "Cancelled", "DeadlineExceeded", "Failed"} :
           Swept(q) = [text EXCEPT ![q] = Ended(text[q], o)]
  <2>1. Authority(q) # None => Swept(q) = [text EXCEPT ![q] = Ended(text[q], Authority(q))]
    BY <1>1 DEF Swept
  <2>2. Authority(q) = None => Swept(q) = [text EXCEPT ![q] = Ended(text[q], "SessionClosed")]
    BY <1>1 DEF Swept
  <2> QED BY <2>1, <2>2, AuthorityType
<1>3. Swept(q)[q] = Ended(text[q], o)
  BY <1>1, <1>2
<1>4. Sound(Ended(text[q], o)) /\ Ended(text[q], o).terminal # None
  <2>1. o \in Outcomes /\ o \notin {"Matched", "Overloaded"}
    BY DEF Outcomes
  <2>2. text[q] \in TextType /\ Sound(text[q]) /\ Lives(text[q])
    BY <1>1 DEF TextsInv, Live, Lives
  <2> QED BY <2>1, <2>2, EndedFollows, NoneIsNone DEF Follows
<1> QED BY <1>3, <1>4 DEF Sound, Accounted, Lives

LEMMA TerminatedEnds ==
    ASSUME TypeOK, TextsInv, NEW q \in Texts,
           NEW o \in {"TargetLost", "SessionClosed", "SchedulerClosed",
                      "Cancelled", "DeadlineExceeded", "Failed"}
    PROVE  ~Executing(Terminated(q, o)[q])
<1>1. CASE ~Live(q)
  BY <1>1 DEF Terminated, TextsInv, Sound, Accounted, Live, Lives
<1>2. CASE Live(q)
  <2> DEFINE k == Decided(q, o)
  <2>1. k \in {"TargetLost", "SessionClosed", "SchedulerClosed",
               "Cancelled", "DeadlineExceeded", "Failed"}
    BY AuthorityType DEF Decided
  <2>2. Terminated(q, o) = [text EXCEPT ![q] = Ended(text[q], k)]
    BY <1>2 DEF Terminated
  <2> HIDE DEF k
  <2>3. k \in Outcomes /\ k \notin {"Matched", "Overloaded"}
    BY <2>1 DEF Outcomes
  <2>4. text[q] \in TextType /\ Sound(text[q]) /\ Lives(text[q])
    BY <1>2 DEF TypeOK, TextsInv, Live, Lives
  <2>5. Sound(Ended(text[q], k)) /\ Ended(text[q], k).terminal # None
    BY <2>3, <2>4, EndedFollows, NoneIsNone DEF Follows
  <2>6. Terminated(q, o)[q] = Ended(text[q], k)
    BY <2>2 DEF TypeOK
  <2> QED BY <2>5, <2>6 DEF Sound, Accounted, Lives
<1> QED BY <1>1, <1>2

(* What the worker with the lease knows.                                   *)
LEMMA LeaseKnows ==
    ASSUME DispatchInv, NEW w \in Workers, Leasing(w)
    PROVE  /\ TypeOK /\ TextsInv /\ LeaseInv
           /\ job[w] \in JobType /\ job[w].at \in Texts
           /\ text \in [Texts -> TextType]
           /\ Sound(text[job[w].at])
           /\ job[w].generation > 0 /\ job[w].frame > 0
           /\ Current(w) <=> Executing(text[job[w].at])
           /\ Current(w) => /\ text[job[w].at].execution.frame = job[w].frame
                            /\ Live(job[w].at)
<1>1. TypeOK /\ TextsInv /\ LeaseInv
  BY DEF DispatchInv
<1>2. /\ job[w] \in JobType /\ text \in [Texts -> TextType]
      /\ job[w].generation \in Nat
  BY <1>1 DEF TypeOK, JobType
<1>3. /\ job[w].at \in Texts /\ job[w].generation > 0 /\ job[w].frame > 0
      /\ Executing(text[job[w].at]) => Current(w)
  BY <1>1 DEF LeaseInv, Hands
<1>4. Current(w) => Executing(text[job[w].at])
  BY <1>2, <1>3 DEF Current, Executing, NoExecution
<1> QED BY <1>1, <1>2, <1>3, <1>4 DEF Current, Live, TextsInv

LEMMA GoesTo ==
    ASSUME DispatchInv, NEW w \in Workers, NEW s \in LeaseStages,
           job' = [job EXCEPT ![w].stage = s]
    PROVE  LET j == [job[w] EXCEPT !.stage = s]
           IN  /\ j \in JobType /\ job' = [job EXCEPT ![w] = j]
               /\ j.stage = s /\ j.at = job[w].at
               /\ j.generation = job[w].generation /\ j.frame = job[w].frame
               /\ j.result = job[w].result
<1>1. job \in [Workers -> JobType]
  BY DEF DispatchInv, TypeOK
<1>2. job[w] \in JobType
  BY <1>1
<1>3. [job[w] EXCEPT !.stage = s] \in JobType
  BY <1>2 DEF JobType
<1> QED BY <1>1, <1>2, <1>3 DEF JobType

(* It keeps the analysis it was given, until that one ends.                *)
LEMMA HandsOn ==
    ASSUME DispatchInv, TextsYield, NEW w \in Workers, Leasing(w),
           NEW j \in JobType, job' = [job EXCEPT ![w] = j],
           j.at = job[w].at, j.generation = job[w].generation, j.frame = job[w].frame,
           j.stage \in {"settling", "leaving", "left"} => ~Executing(text'[j.at]),
           j.stage \in {"completing", "committing"} => j.result \in {"empty", "found", "error"},
           j.stage = "committing" => j.confirmed = text'[j.at].confirmed
    PROVE  Hands(w)'
<1> DEFINE q == job[w].at
<1>1. /\ TypeOK /\ q \in Texts
      /\ job[w].generation > 0 /\ job[w].frame > 0
      /\ Current(w) <=> Executing(text[q])
  BY LeaseKnows
<1>2. job'[w] = j
  BY <1>1, OthersKept
<1>3. Executing(text'[q]) => /\ Executing(text[q])
                            /\ text'[q].execution = text[q].execution
                            /\ text'[q].terminal = text[q].terminal
  BY <1>1 DEF TextsYield, Yields, Executing
<1>4. Executing(text'[q]) => Current(w)'
  BY <1>1, <1>2, <1>3 DEF Current
<1> QED BY <1>1, <1>2, <1>4 DEF Hands

(* It goes on, or to the return of the lease when nothing is under way.    *)
LEMMA GoesOn ==
    ASSUME DispatchInv, TextsYield, NEW w \in Workers, Leasing(w),
           job[w].stage \notin {"leaving", "left"},
           UNCHANGED <<sourceVars, template, authorityVars, activated, dispatchVars>>,
           NEW j \in JobType, job' = [job EXCEPT ![w] = j],
           j.at = job[w].at, j.generation = job[w].generation, j.frame = job[w].frame,
           j.stage \in LeaseStages, j.stage # "left",
           Converting(w) => j.stage \in {"claimed", "preparing", "leaving"},
           ~Converting(w) => j.stage \notin {"claimed", "preparing"},
           j.stage \in {"settling", "leaving"} => ~Executing(text'[j.at]),
           j.stage \in {"completing", "committing"} => j.result \in {"empty", "found", "error"},
           j.stage = "committing" => j.confirmed = text'[j.at].confirmed
    PROVE  DispatchInv'
<1>1. TypeOK /\ LeaseInv /\ Hands(w)'
  BY HandsOn DEF DispatchInv
<1>2. LeaseInv'
  BY <1>1, LeaseStep
<1>3. SourceType /\ WorkType
  BY <1>1, TypeParts
<1> QED BY <1>2, <1>3, WorkerKeeps DEF SourceType, WorkType

LEMMA ProcessTextKeeps ==
    ASSUME DispatchInv, NEW w \in Workers, ProcessText(w)
    PROVE  DispatchInv'
<1> DEFINE q == job[w].at
           s == IF Swept(q) = text /\ Current(w) THEN "preparing" ELSE "leaving"
<1>1. /\ job[w].stage = "claimed" /\ text' = Swept(q)
      /\ job' = [job EXCEPT ![w].stage = s]
      /\ UNCHANGED <<sourceVars, template, authorityVars, activated, dispatchVars>>
  BY DEF ProcessText, GoTo
<1>2. Leasing(w) /\ Converting(w)
  BY <1>1 DEF Leasing, LeaseStages, Converting
<1>3. /\ TypeOK /\ TextsInv /\ q \in Texts
      /\ Current(w) <=> Executing(text[q])
  BY <1>2, LeaseKnows
<1>4. TextsYield
  BY <1>1, <1>3, SweptMoves, MovesYield
<1>5. s = "leaving" => ~Executing(text'[q])
  BY <1>1, <1>3, SweptEnds
<1>6. s \in {"preparing", "leaving"} /\ s \in LeaseStages
  BY DEF LeaseStages
<1> HIDE DEF s
<1> DEFINE j == [job[w] EXCEPT !.stage = s]
<1>7. /\ j \in JobType /\ job' = [job EXCEPT ![w] = j] /\ j.stage = s /\ j.at = q
      /\ j.generation = job[w].generation /\ j.frame = job[w].frame
  BY <1>1, <1>6, GoesTo
<1> HIDE DEF j
<1> QED BY <1>1, <1>2, <1>4, <1>5, <1>6, <1>7, GoesOn

LEMMA CompareKeeps ==
    ASSUME DispatchInv, NEW w \in Workers, Compare(w)
    PROVE  DispatchInv'
<1> DEFINE q == job[w].at
<1>1. /\ job[w].stage = "prepared" /\ UNCHANGED text
      /\ UNCHANGED <<sourceVars, template, authorityVars, activated, dispatchVars>>
  BY DEF Compare
<1>2. Leasing(w) /\ ~Converting(w)
  BY <1>1 DEF Leasing, LeaseStages, Converting
<1>3. /\ TypeOK /\ TextsInv /\ q \in Texts /\ job[w] \in JobType
      /\ Current(w) <=> Executing(text[q])
  BY <1>2, LeaseKnows
<1>4. TextsYield
  BY <1>1, <1>3, SameYield
<1>5. CASE Current(w)
  <2>1. PICK u \in BOOLEAN :
           job' = [job EXCEPT ![w] = [job[w] EXCEPT !.stage = "admitting", !.unchanged = u]]
    BY <1>5 DEF Compare, TypeOK, DispatchInv
  <2> DEFINE j == [job[w] EXCEPT !.stage = "admitting", !.unchanged = u]
  <2>2. j \in JobType
    BY <1>3 DEF JobType, LeaseStages
  <2>3. /\ j.stage = "admitting" /\ j.at = q
        /\ j.generation = job[w].generation /\ j.frame = job[w].frame
    BY <1>3 DEF JobType
  <2> HIDE DEF j
  <2>4. j.stage \in LeaseStages
    BY <2>3 DEF LeaseStages
  <2> QED BY <1>1, <1>2, <1>4, <2>1, <2>2, <2>3, <2>4, GoesOn DEF j
<1>6. CASE ~Current(w)
  <2> DEFINE j == [job[w] EXCEPT !.stage = "leaving"]
  <2>1. job' = [job EXCEPT ![w].stage = "leaving"] /\ "leaving" \in LeaseStages
    BY <1>6 DEF Compare, GoTo, LeaseStages
  <2>2. /\ j \in JobType /\ job' = [job EXCEPT ![w] = j] /\ j.stage = "leaving" /\ j.at = q
        /\ j.generation = job[w].generation /\ j.frame = job[w].frame
    BY <2>1, GoesTo
  <2>3. ~Executing(text'[q])
    BY <1>1, <1>3, <1>6
  <2> HIDE DEF j
  <2> QED BY <1>1, <1>2, <1>4, <2>1, <2>2, <2>3, GoesOn
<1> QED BY <1>5, <1>6

LEMMA AdmitTextKeeps ==
    ASSUME DispatchInv, NEW w \in Workers, AdmitText(w)
    PROVE  DispatchInv'
<1> DEFINE q == job[w].at
           d == text[q]
<1>1. /\ job[w].stage = "admitting"
      /\ UNCHANGED <<sourceVars, template, authorityVars, activated, dispatchVars>>
  BY DEF AdmitText
<1>2. Leasing(w) /\ ~Converting(w)
  BY <1>1 DEF Leasing, LeaseStages, Converting
<1>3. /\ TypeOK /\ TextsInv /\ q \in Texts /\ text \in [Texts -> TextType]
      /\ d \in TextType /\ Sound(d)
      /\ Current(w) <=> Executing(d)
      /\ Current(w) => Lives(d)
  BY <1>2, LeaseKnows DEF Live, Lives
<1>4. ASSUME NEW s \in {"leaving", "settling", "executing"},
             job' = [job EXCEPT ![w].stage = s], Moves(q, text'),
             s \in {"leaving", "settling"} => ~Executing(text'[q])
      PROVE  DispatchInv'
  <2> DEFINE j == [job[w] EXCEPT !.stage = s]
  <2>1. s \in LeaseStages
    BY DEF LeaseStages
  <2>2. /\ j \in JobType /\ job' = [job EXCEPT ![w] = j] /\ j.stage = s /\ j.at = q
        /\ j.generation = job[w].generation /\ j.frame = job[w].frame
    BY <1>4, <2>1, GoesTo
  <2> HIDE DEF j
  <2>3. TextsYield
    BY <1>3, <1>4, MovesYield
  <2> QED BY <1>1, <1>2, <1>4, <2>1, <2>2, <2>3, GoesOn
<1>5. CASE AdmitObsolete(w)
  <2>1. job' = [job EXCEPT ![w].stage = "leaving"]
    BY <1>5 DEF AdmitObsolete, GoTo
  <2>2. CASE Authority(q) # None
    <3>1. text' = Terminated(q, Authority(q))
      BY <1>5, <2>2 DEF AdmitObsolete
    <3>2. Moves(q, text') /\ ~Executing(text'[q])
      BY <1>3, <2>2, <3>1, AuthorityType, TerminatedMoves, TerminatedEnds
    <3> QED BY <1>4, <2>1, <3>2
  <2>3. CASE Authority(q) = None
    <3>1. text' = text /\ ~Current(w)
      BY <1>5, <2>3 DEF AdmitObsolete
    <3> QED BY <1>3, <1>4, <2>1, <3>1, SameMoves
  <2> QED BY <2>2, <2>3
<1>6. CASE AdmitSkip(w)
  <2>1. /\ job' = [job EXCEPT ![w].stage = "settling"]
        /\ text' = [text EXCEPT ![q] = Dropped(d, "SkippedChange")] /\ Executing(d)
    BY <1>3, <1>6 DEF AdmitSkip, Admissible, GoTo, Dropped
  <2>2. /\ Follows(d, Dropped(d, "SkippedChange")) /\ Dropped(d, "SkippedChange") \in TextType
        /\ ~Executing(Dropped(d, "SkippedChange"))
    BY <1>3, <1>6, DroppedSound DEF AdmitSkip, Admissible, Dispositions, Executing
  <2>3. Moves(q, text')
    BY <2>1, <2>2 DEF Moves
  <2>4. ~Executing(text'[q])
    BY <1>3, <2>1, <2>2
  <2> QED BY <1>4, <2>1, <2>3, <2>4
<1>7. CASE AdmitAnalysis(w)
  <2> DEFINE b == d.pending # 0
             e == [d EXCEPT !.cooling = TRUE, !.deferred = b]
  <2>1. /\ job' = [job EXCEPT ![w].stage = "executing"]
        /\ text' = [text EXCEPT ![q] = e]
    BY <1>3, <1>7 DEF AdmitAnalysis, GoTo
  <2>2. b \in BOOLEAN
    OBVIOUS
  <2> HIDE DEF b
  <2>3. e \in TextType
    BY <1>3, <2>2 DEF TextType
  <2>4. /\ e.terminal = d.terminal /\ e.source = d.source /\ e.pending = d.pending
        /\ e.execution = d.execution /\ e.confirmed = d.confirmed
        /\ e.empties = d.empties /\ e.taken = d.taken /\ e.work = d.work
        /\ e.physical = d.physical
    BY <1>3 DEF TextType
  <2> HIDE DEF e
  <2>5. Moves(q, text')
    BY <1>3, <2>1, <2>3, <2>4, PlainMoves
  <2> QED BY <1>4, <2>1, <2>5
<1> QED BY <1>5, <1>6, <1>7 DEF AdmitText

LEMMA ExecuteKeeps ==
    ASSUME DispatchInv, NEW w \in Workers, Execute(w)
    PROVE  DispatchInv'
<1>1. /\ job[w].stage = "executing" /\ UNCHANGED text
      /\ UNCHANGED <<sourceVars, template, authorityVars, activated, dispatchVars>>
  BY DEF Execute
<1>2. Leasing(w) /\ ~Converting(w)
  BY <1>1 DEF Leasing, LeaseStages, Converting
<1>3. TypeOK /\ TextsInv /\ job[w] \in JobType /\ job \in [Workers -> JobType]
  BY <1>2, LeaseKnows DEF TypeOK
<1>4. TextsYield
  BY <1>1, <1>3, SameYield
<1>5. PICK r \in {"empty", "found", "error"} :
         job' = [job EXCEPT ![w] = [job[w] EXCEPT !.stage = "completing", !.result = r]]
  BY <1>3, DispatchAssumption DEF Execute
<1> DEFINE j == [job[w] EXCEPT !.stage = "completing", !.result = r]
<1>6. "completing" \in LeaseStages
  BY DEF LeaseStages
<1>7. j \in JobType
  BY <1>3, <1>6 DEF JobType
<1>8. /\ j.stage = "completing" /\ j.result = r /\ j.at = job[w].at
      /\ j.generation = job[w].generation /\ j.frame = job[w].frame
  BY <1>3 DEF JobType
<1> HIDE DEF j
<1> QED BY <1>1, <1>2, <1>4, <1>5, <1>6, <1>7, <1>8, GoesOn DEF j

LEMMA CompleteAskKeeps ==
    ASSUME DispatchInv, NEW w \in Workers, CompleteAsk(w)
    PROVE  DispatchInv'
<1> DEFINE q == job[w].at
<1>1. /\ job[w].stage = "completing" /\ UNCHANGED text
      /\ UNCHANGED <<sourceVars, template, authorityVars, activated, dispatchVars>>
  BY DEF CompleteAsk
<1>2. Leasing(w) /\ ~Converting(w)
  BY <1>1 DEF Leasing, LeaseStages, Converting
<1>3. /\ TypeOK /\ TextsInv /\ q \in Texts /\ job[w] \in JobType
      /\ job \in [Workers -> JobType] /\ text[q] \in TextType
      /\ Current(w) <=> Executing(text[q])
      /\ job[w].result \in {"empty", "found", "error"}
  BY <1>1, <1>2, LeaseKnows DEF TypeOK, LeaseInv, Hands
<1>4. TextsYield
  BY <1>1, <1>3, SameYield
<1>5. CASE Current(w)
  <2>1. text[q].stopped \in Yielding
    BY <1>3, RecordTypes
  <2>2. PICK r \in Yielding \cup {"TargetLost", "SessionClosed"} :
           job' = [job EXCEPT ![w] = [job[w] EXCEPT !.stage = "committing",
                                        !.confirmed = text[q].confirmed, !.refusal = r]]
    <3> DEFINE r == IF text[q].stopped # None THEN text[q].stopped
                    ELSE IF captureEnd[Home[q]] = "lost" THEN "TargetLost"
                    ELSE IF captureEnd[Home[q]] = "closed" THEN "SessionClosed"
                    ELSE None
    <3>1. r \in Yielding \cup {"TargetLost", "SessionClosed"}
      BY <2>1 DEF Yielding
    <3>2. job' = [job EXCEPT ![w].stage = "committing", ![w].confirmed = text[q].confirmed,
                             ![w].refusal = r]
      BY <1>5 DEF CompleteAsk
    <3> HIDE DEF r
    <3> QED BY <1>3, <3>1, <3>2
  <2> DEFINE j == [job[w] EXCEPT !.stage = "committing",
                                 !.confirmed = text[q].confirmed, !.refusal = r]
  <2>3. "committing" \in LeaseStages
    BY DEF LeaseStages
  <2>4. text[q].confirmed \subseteq Nat
    BY <1>3, RecordTypes
  <2>5. j \in JobType
    BY <1>3, <2>3, <2>4 DEF JobType
  <2>6. /\ j.stage = "committing" /\ j.at = q /\ j.result = job[w].result
        /\ j.generation = job[w].generation /\ j.frame = job[w].frame
        /\ j.confirmed = text'[q].confirmed
    BY <1>1, <1>3 DEF JobType
  <2> HIDE DEF j
  <2> QED BY <1>1, <1>2, <1>3, <1>4, <2>2, <2>3, <2>5, <2>6, GoesOn DEF j
<1>6. CASE ~Current(w)
  <2> DEFINE j == [job[w] EXCEPT !.stage = "leaving"]
  <2>1. job' = [job EXCEPT ![w].stage = "leaving"] /\ "leaving" \in LeaseStages
    BY <1>6 DEF CompleteAsk, GoTo, LeaseStages
  <2>2. /\ j \in JobType /\ job' = [job EXCEPT ![w] = j] /\ j.stage = "leaving" /\ j.at = q
        /\ j.generation = job[w].generation /\ j.frame = job[w].frame
    BY <2>1, GoesTo
  <2>3. ~Executing(text'[q])
    BY <1>1, <1>3, <1>6
  <2> HIDE DEF j
  <2> QED BY <1>1, <1>2, <1>4, <2>1, <2>2, <2>3, GoesOn
<1> QED BY <1>5, <1>6

(* The end that prevails over a result.                                    *)
LEMMA PrevailingType ==
    ASSUME TypeOK, NEW q \in Texts, NEW r \in Yielding \cup {"TargetLost", "SessionClosed"}
    PROVE  Prevailing(q, r) \in {None, "TargetLost", "SessionClosed", "SchedulerClosed",
                                 "Cancelled", "DeadlineExceeded"}
<1>1. text[q].stopped \in Yielding
  BY RecordTypes DEF TypeOK
<1>2. Authority(q) \in {None, "TargetLost", "SessionClosed", "SchedulerClosed",
                        "Cancelled", "DeadlineExceeded"}
  BY AuthorityType
<1> QED BY <1>1, <1>2 DEF Prevailing, Yielding

(* A query that takes its result yields, and matches only on its streak.   *)
LEMMA ResultYields ==
    ASSUME TypeOK, TextsInv, NEW q \in Texts, NEW e \in TextType,
           text' = [text EXCEPT ![q] = e], Sound(e), Yields(text[q], e),
           e.terminal = "Matched" => Cardinality(e.confirmed) >= Required[q]
    PROVE  TextsYield /\ text'[q] = e
<1>1. text \in [Texts -> TextType]
  BY DEF TypeOK
<1>2. text' \in [Texts -> TextType] /\ text'[q] = e
  BY <1>1
<1>3. \A p \in Texts : p # q => text'[p] = text[p]
  BY <1>1
<1>4. \A p \in Texts : Yields(text[p], text'[p])
  BY <1>2, <1>3 DEF Yields
<1>5. TextsInv'
  BY <1>2, <1>3 DEF TextsInv
<1> QED BY <1>2, <1>4, <1>5 DEF TextsYield

LEMMA CompleteCommitKeeps ==
    ASSUME DispatchInv, NEW w \in Workers, CompleteCommit(w)
    PROVE  DispatchInv'
<1> DEFINE q == job[w].at
           d == text[q]
           ended == Prevailing(q, job[w].refusal)
           c == Concluded(q, job[w].frame, job[w].result, job[w].confirmed)
           s == IF ~Current(w) \/ text'[q].terminal # None THEN "leaving" ELSE "settling"
<1>1. /\ job[w].stage = "committing" /\ job' = [job EXCEPT ![w].stage = s]
      /\ UNCHANGED <<sourceVars, template, authorityVars, activated, dispatchVars>>
  BY DEF CompleteCommit, GoTo
<1>2. Leasing(w) /\ ~Converting(w)
  BY <1>1 DEF Leasing, LeaseStages, Converting
<1>3. /\ TypeOK /\ TextsInv /\ q \in Texts /\ job[w] \in JobType
      /\ text \in [Texts -> TextType] /\ d \in TextType /\ Sound(d)
      /\ Current(w) <=> Executing(d)
      /\ Current(w) => Lives(d) /\ Live(q) /\ d.execution.frame = job[w].frame
  BY <1>2, LeaseKnows DEF Live, Lives
<1>4. /\ job[w].result \in {"empty", "found", "error"}
      /\ Current(w) => job[w].confirmed = d.confirmed
  BY <1>1, <1>2, LeaseKnows DEF LeaseInv, Hands
<1>5. TextsYield /\ ~Executing(text'[q])
  <2>1. CASE ~Current(w)
    <3>1. text' = text
      BY <2>1 DEF CompleteCommit
    <3> QED BY <1>3, <2>1, <3>1, SameYield
  <2>2. CASE Current(w) /\ ended # None
    <3>1. job[w].refusal \in Yielding \cup {"TargetLost", "SessionClosed"}
      BY <1>3 DEF JobType
    <3>2. ended \in {"TargetLost", "SessionClosed", "SchedulerClosed",
                     "Cancelled", "DeadlineExceeded"}
      BY <1>3, <2>2, <3>1, PrevailingType
    <3>3. text' = [text EXCEPT ![q] = Ended(d, ended)]
      BY <2>2 DEF CompleteCommit
    <3> HIDE DEF ended
    <3>4. Moves(q, text') /\ Follows(d, Ended(d, ended))
      BY <1>3, <2>2, <3>2, <3>3, EndedMoves
    <3>5. Ended(d, ended).terminal = ended
      BY <1>3, <2>2, <3>2, EndedFollows DEF Outcomes
    <3>6. text'[q] = Ended(d, ended)
      BY <1>3, <3>3
    <3>7. ~Executing(text'[q])
      BY <2>2, <3>4, <3>5, <3>6 DEF Follows, Sound, Accounted, Lives
    <3> QED BY <1>3, <3>4, <3>7, MovesYield
  <2>3. CASE Current(w) /\ ended = None
    <3>1. text' = [text EXCEPT ![q] = c]
      BY <2>3 DEF CompleteCommit
    <3>2. c = Concluded(q, d.execution.frame, job[w].result, d.confirmed)
      BY <1>3, <1>4, <2>3
    <3> HIDE DEF c
    <3>3. /\ c \in TextType /\ Sound(c) /\ Yields(d, c) /\ c.execution = NoExecution
          /\ c.terminal = "Matched" => Cardinality(c.confirmed) >= Required[q]
      BY <1>3, <1>4, <2>3, <3>2, ConcludedSound
    <3>4. TextsYield /\ text'[q] = c
      BY <1>3, <3>1, <3>3, ResultYields
    <3> QED BY <3>3, <3>4 DEF Executing
  <2> QED BY <2>1, <2>2, <2>3
<1>6. s \in {"leaving", "settling"} /\ s \in LeaseStages
  BY DEF LeaseStages
<1> HIDE DEF s, ended, c
<1> DEFINE j == [job[w] EXCEPT !.stage = s]
<1>7. /\ j \in JobType /\ job' = [job EXCEPT ![w] = j] /\ j.stage = s /\ j.at = q
      /\ j.generation = job[w].generation /\ j.frame = job[w].frame
  BY <1>1, <1>6, GoesTo
<1> HIDE DEF j
<1> QED BY <1>1, <1>2, <1>5, <1>6, <1>7, GoesOn

LEMMA SettleKeeps ==
    ASSUME DispatchInv, NEW w \in Workers, Settle(w)
    PROVE  DispatchInv'
<1> DEFINE q == job[w].at
           j == [job[w] EXCEPT !.stage = "leaving"]
<1>1. /\ job[w].stage = "settling" /\ text' = Swept(q)
      /\ job' = [job EXCEPT ![w].stage = "leaving"]
      /\ UNCHANGED <<sourceVars, template, authorityVars, activated, dispatchVars>>
  BY DEF Settle, GoTo
<1>2. Leasing(w) /\ ~Converting(w) /\ "leaving" \in LeaseStages
  BY <1>1 DEF Leasing, LeaseStages, Converting
<1>3. /\ TypeOK /\ TextsInv /\ q \in Texts /\ ~Executing(text[q])
  BY <1>1, <1>2, LeaseKnows DEF LeaseInv, Hands
<1>4. TextsYield
  BY <1>1, <1>3, SweptMoves, MovesYield
<1>5. ~Executing(text'[q])
  BY <1>1, <1>3, SweptEnds
<1>6. /\ j \in JobType /\ job' = [job EXCEPT ![w] = j] /\ j.stage = "leaving" /\ j.at = q
      /\ j.generation = job[w].generation /\ j.frame = job[w].frame
  BY <1>1, <1>2, GoesTo
<1> HIDE DEF j
<1> QED BY <1>1, <1>2, <1>4, <1>5, <1>6, GoesOn

(* The conversion is over, and with it the barrier.                        *)
LEMMA PrepareKeeps ==
    ASSUME DispatchInv, NEW w \in Workers, Prepare(w)
    PROVE  DispatchInv'
<1>1. /\ job[w].stage = "preparing" /\ UNCHANGED text
      /\ dispatch' = [dispatch EXCEPT !.mapping = FALSE] /\ barrier' = FALSE
      /\ UNCHANGED <<sourceVars, template, authorityVars, activated, textCursor>>
  BY DEF Prepare
<1>2. Leasing(w) /\ Converting(w)
  BY <1>1 DEF Leasing, LeaseStages, Converting
<1>3. /\ TypeOK /\ TextsInv /\ LeaseInv /\ job[w] \in JobType
      /\ job \in [Workers -> JobType] /\ dispatch \in DispatchType
  BY <1>2, LeaseKnows DEF TypeOK
<1>4. TextsYield
  BY <1>1, <1>3, SameYield
<1>5. PICK s \in {"completing", "prepared"}, r \in {"prepared", "error"} :
         /\ job' = [job EXCEPT ![w] = [job[w] EXCEPT !.stage = s, !.result = r]]
         /\ s = "completing" => r = "error"
  <2>1. PICK r \in {"prepared"} \cup (Results \cap {"error"}) :
           job' = [job EXCEPT
              ![w].stage = IF r = "error" THEN "completing" ELSE "prepared",
              ![w].result = r]
    BY DEF Prepare
  <2> DEFINE s == IF r = "error" THEN "completing" ELSE "prepared"
  <2>2. s \in {"completing", "prepared"} /\ (s = "completing" => r = "error")
    OBVIOUS
  <2>3. job' = [job EXCEPT ![w] = [job[w] EXCEPT !.stage = s, !.result = r]]
    BY <1>3, <2>1
  <2> HIDE DEF s
  <2> QED BY <2>2, <2>3
<1> DEFINE j == [job[w] EXCEPT !.stage = s, !.result = r]
<1>6. s \in LeaseStages
  BY DEF LeaseStages
<1>7. j \in JobType
  BY <1>3, <1>6 DEF JobType
<1>8. /\ j.stage = s /\ j.result = r /\ j.at = job[w].at
      /\ j.generation = job[w].generation /\ j.frame = job[w].frame
  BY <1>3 DEF JobType
<1>9. job' = [job EXCEPT ![w] = j]
  BY <1>5
<1> HIDE DEF j
<1>10. Hands(w)'
  BY <1>2, <1>4, <1>5, <1>7, <1>8, <1>9, HandsOn
<1>11. /\ dispatch' \in DispatchType /\ barrier' \in BOOLEAN
       /\ dispatch'.mappings = dispatch.mappings /\ dispatch'.worker = dispatch.worker
       /\ dispatch'.turn = dispatch.turn /\ ~dispatch'.mapping
  BY <1>1, <1>3 DEF DispatchType
<1>12. ~dispatch.turn
  BY <1>2, <1>3, NoneIsNone DEF LeaseInv, LeaseMatches, BarrierExact
<1>13. LeaseInv'
  BY <1>1, <1>2, <1>3, <1>4, <1>6, <1>7, <1>8, <1>9, <1>10, <1>11, <1>12, WorkerStep
<1>14. SourceType /\ WorkType
  BY <1>3, TypeParts
<1> QED BY <1>1, <1>4, <1>7, <1>9, <1>11, <1>13, <1>14, WorkerKeeps DEF SourceType, WorkType

-----------------------------------------------------------------------------
(* The steps that take and return a mapping or the lease.                  *)

(* A worker that maps, or has mapped, has no part in the lease.            *)
LEMMA MapperStep ==
    ASSUME TypeOK, LeaseInv, UNCHANGED <<text, barrier>>, NEW w \in Workers,
           NEW j \in JobType, job' = [job EXCEPT ![w] = j],
           ~Leasing(w), j.stage \notin LeaseStages,
           dispatch'.worker = dispatch.worker, dispatch'.mapping = dispatch.mapping,
           dispatch'.turn = dispatch.turn,
           IsFiniteSet(MappingWorkers'), dispatch'.mappings = Cardinality(MappingWorkers'),
           (\E v \in Workers : Converting(v)) => MappingWorkers' = {}
    PROVE  LeaseInv'
<1>1. /\ job'[w] = j
      /\ \A v \in Workers : v # w => job'[v] = job[v]
      /\ \A v \in Workers : v # w => /\ Leasing(v)' <=> Leasing(v)
                                     /\ Converting(v)' <=> Converting(v)
  BY OthersKept
<1>2. ~Leasing(w)' /\ ~Converting(w)' /\ ~Converting(w)
  BY <1>1 DEF Leasing, Converting, LeaseStages
<1>3. ASSUME NEW v \in Workers
      PROVE  Hands(v)' /\ (Converting(v)' => dispatch'.mapping)
  <2>1. CASE v = w
    BY <1>2, <2>1 DEF Hands
  <2>2. CASE v # w
    BY <1>1, <2>2 DEF LeaseInv, Hands, Leasing, Current
  <2> QED BY <2>1, <2>2
<1>4. MappingExclusion'
  BY <1>1, <1>2 DEF MappingExclusion
<1>5. LeaseMatches'
  <2>1. \A v \in Workers : Leasing(v)' <=> Leasing(v)
    BY <1>1, <1>2
  <2>2. \A v \in Workers : Leasing(v) => job'[v] = job[v]
    BY <1>1
  <2> QED BY <2>1, <2>2 DEF LeaseInv, LeaseMatches
<1>6. BarrierExact'
  <2>1. ASSUME NEW v \in Workers, Converting(v) \/ job[v].stage \in {"leaving", "left"}
        PROVE  Converting(v)' \/ job'[v].stage \in {"leaving", "left"}
    <3>1. v # w
      BY <2>1 DEF Converting, Leasing, LeaseStages
    <3> QED BY <1>1, <2>1, <3>1
  <2> QED BY <2>1 DEF LeaseInv, BarrierExact
<1> QED BY <1>3, <1>4, <1>5, <1>6 DEF LeaseInv

LEMMA TakeTemplateKeeps ==
    ASSUME DispatchInv, NEW w \in Workers, TakeTemplate(w)
    PROVE  DispatchInv'
<1>1. /\ TypeOK /\ TextsInv /\ LeaseInv /\ SourceType /\ WorkType
      /\ job[w] \in JobType /\ job \in [Workers -> JobType]
  BY TypeParts DEF DispatchInv, TypeOK
<1>2. /\ job[w].stage = "template" /\ ~dispatch.mapping
      /\ dispatch' = [dispatch EXCEPT !.mappings = @ + 1, !.next = TRUE]
      /\ UNCHANGED <<sourceVars, text, authorityVars, activated, barrier, textCursor>>
  BY DEF TakeTemplate, TemplatesAdmitted
<1>3. PICK t \in Templates :
         /\ template' = [template EXCEPT ![t] = "quiet"]
         /\ job' = [job EXCEPT ![w] = [job[w] EXCEPT !.stage = "mapping", !.at = t]]
  BY <1>1 DEF TakeTemplate
<1> DEFINE j == [job[w] EXCEPT !.stage = "mapping", !.at = t]
<1>4. j \in JobType
  BY <1>1 DEF JobType, AllQueries
<1>5. j.stage = "mapping" /\ j.stage \notin LeaseStages
  BY <1>1 DEF JobType, LeaseStages
<1>6. job' = [job EXCEPT ![w] = j]
  BY <1>3
<1> HIDE DEF j
<1>7. /\ ~Leasing(w) /\ w \notin MappingWorkers
      /\ \A v \in Workers : ~Converting(v)
  BY <1>1, <1>2 DEF Leasing, LeaseStages, MappingWorkers, LeaseInv
<1>8. MappingWorkers' = MappingWorkers \cup {w}
  BY <1>1, <1>4, <1>5, <1>6, OthersKept DEF MappingWorkers
<1>9. /\ IsFiniteSet(MappingWorkers) /\ dispatch.mappings = Cardinality(MappingWorkers)
  BY <1>1 DEF LeaseInv, MappingExclusion
<1>10. /\ IsFiniteSet(MappingWorkers')
       /\ Cardinality(MappingWorkers') = Cardinality(MappingWorkers) + 1
  BY <1>7, <1>8, <1>9, FS_AddElement
<1>11. /\ dispatch' \in DispatchType /\ dispatch'.mappings = dispatch.mappings + 1
       /\ dispatch'.worker = dispatch.worker /\ dispatch'.mapping = dispatch.mapping
       /\ dispatch'.turn = dispatch.turn
  <2> DEFINE n == dispatch.mappings + 1
  <2>1. dispatch \in DispatchType /\ n \in Nat
    BY <1>1 DEF WorkType, DispatchType
  <2>2. dispatch' = [dispatch EXCEPT !.mappings = n, !.next = TRUE]
    BY <1>2
  <2> HIDE DEF n
  <2>3. dispatch' \in DispatchType
    BY <2>1, <2>2 DEF DispatchType
  <2>4. /\ dispatch'.mappings = n
        /\ dispatch'.worker = dispatch.worker /\ dispatch'.mapping = dispatch.mapping
        /\ dispatch'.turn = dispatch.turn
    BY <2>1, <2>2 DEF DispatchType
  <2> QED BY <2>3, <2>4 DEF n
<1>12. LeaseInv'
  BY <1>1, <1>2, <1>4, <1>5, <1>6, <1>7, <1>9, <1>10, <1>11, MapperStep
<1>13. template' \in [Templates -> {"quiet", "pending", "ended"}]
  BY <1>1, <1>3 DEF SourceType
<1>14. TextsYield
  BY <1>1, <1>2, SameYield
<1> QED BY <1>1, <1>2, <1>4, <1>6, <1>11, <1>12, <1>13, <1>14, WorkerKeeps DEF SourceType, WorkType

LEMMA MapReturnsKeeps ==
    ASSUME DispatchInv, NEW w \in Workers, MapReturns(w)
    PROVE  DispatchInv'
<1>1. /\ TypeOK /\ TextsInv /\ LeaseInv /\ SourceType /\ WorkType
      /\ job[w] \in JobType /\ job \in [Workers -> JobType]
  BY TypeParts DEF DispatchInv, TypeOK
<1>2. /\ job[w].stage = "mapping"
      /\ dispatch' = [dispatch EXCEPT !.mappings = @ - 1]
      /\ UNCHANGED <<sourceVars, text, template, authorityVars, activated, barrier, textCursor>>
  BY DEF MapReturns
<1> DEFINE j == [job[w] EXCEPT !.stage = "analysing"]
<1>3. job' = [job EXCEPT ![w] = j]
  BY <1>1 DEF MapReturns
<1>4. j \in JobType
  BY <1>1 DEF JobType
<1>5. j.stage = "analysing" /\ j.stage \notin LeaseStages
  BY <1>1 DEF JobType, LeaseStages
<1> HIDE DEF j
<1>7. ~Leasing(w) /\ w \in MappingWorkers
  BY <1>2 DEF Leasing, LeaseStages, MappingWorkers
<1>8. MappingWorkers' = MappingWorkers \ {w}
  BY <1>1, <1>3, <1>4, <1>5, OthersKept DEF MappingWorkers
<1>9. /\ IsFiniteSet(MappingWorkers) /\ dispatch.mappings = Cardinality(MappingWorkers)
      /\ \A v \in Workers : ~Converting(v)
  BY <1>1, <1>7 DEF LeaseInv, MappingExclusion
<1>10. /\ IsFiniteSet(MappingWorkers')
       /\ Cardinality(MappingWorkers') = Cardinality(MappingWorkers) - 1
       /\ Cardinality(MappingWorkers') \in Nat
  BY <1>7, <1>8, <1>9, FS_RemoveElement, FS_CardinalityType
<1>11. /\ dispatch' \in DispatchType /\ dispatch'.mappings = dispatch.mappings - 1
       /\ dispatch'.worker = dispatch.worker /\ dispatch'.mapping = dispatch.mapping
       /\ dispatch'.turn = dispatch.turn
  BY <1>1, <1>2, <1>9, <1>10 DEF WorkType, DispatchType
<1>12. LeaseInv'
  BY <1>1, <1>2, <1>3, <1>4, <1>5, <1>7, <1>8, <1>9, <1>10, <1>11, MapperStep
<1>14. TextsYield
  BY <1>1, <1>2, SameYield
<1> QED BY <1>1, <1>2, <1>3, <1>4, <1>11, <1>12, <1>14, WorkerKeeps DEF SourceType, WorkType

(* The worker gives back the physical slot of its query.                   *)
LEMMA LeaveQueryKeeps ==
    ASSUME DispatchInv, NEW w \in Workers, LeaveQuery(w)
    PROVE  DispatchInv'
<1> DEFINE q == job[w].at
           d == text[q]
           e == [d EXCEPT !.physical = FALSE]
           j == [job[w] EXCEPT !.stage = "left"]
<1>1. /\ job[w].stage = "leaving" /\ text' = [text EXCEPT ![q] = e]
      /\ job' = [job EXCEPT ![w].stage = "left"]
      /\ UNCHANGED <<sourceVars, template, authorityVars, activated, dispatchVars>>
  BY DEF LeaveQuery, GoTo
<1>2. Leasing(w) /\ ~Converting(w) /\ "left" \in LeaseStages
  BY <1>1 DEF Leasing, LeaseStages, Converting
<1>3. /\ TypeOK /\ TextsInv /\ LeaseInv /\ SourceType /\ WorkType /\ ClosingInv
      /\ q \in Texts /\ text \in [Texts -> TextType] /\ d \in TextType /\ Sound(d)
      /\ job[w].generation > 0 /\ job[w].frame > 0
      /\ ~Executing(d)
  BY <1>1, <1>2, LeaseKnows, TypeParts DEF LeaseInv, Hands, DispatchInv
<1>4. /\ j \in JobType /\ job' = [job EXCEPT ![w] = j] /\ j.stage = "left" /\ j.at = q
      /\ j.generation = job[w].generation /\ j.frame = job[w].frame
  BY <1>1, <1>2, GoesTo
<1>5. e \in TextType
  BY <1>3 DEF TextType
<1>6. /\ e.terminal = d.terminal /\ e.source = d.source /\ e.pending = d.pending
      /\ e.execution = d.execution /\ e.confirmed = d.confirmed
      /\ e.empties = d.empties /\ e.taken = d.taken /\ e.work = d.work
      /\ e.physical = FALSE
  BY <1>3 DEF TextType
<1> HIDE DEF e, j
<1>7. Sound(e)
  BY <1>3, <1>5, <1>6, PlainSound
<1>8. /\ text' \in [Texts -> TextType] /\ text'[q] = e
      /\ \A p \in Texts : p # q => text'[p] = text[p]
  BY <1>1, <1>3, <1>5
<1>9. TextsInv'
  BY <1>3, <1>6, <1>7, <1>8 DEF TextsInv
<1>10. /\ job' \in [Workers -> JobType] /\ job'[w] = j
       /\ \A v \in Workers : v # w => job'[v] = job[v]
       /\ \A v \in Workers : v # w => /\ Leasing(v)' <=> Leasing(v)
                                      /\ Converting(v)' <=> Converting(v)
  BY <1>3, <1>4, OthersKept
<1>11. Leasing(w)' /\ ~Converting(w)'
  BY <1>2, <1>4, <1>10 DEF Leasing, Converting
<1>12. /\ \A v \in Workers : Leasing(v) <=> dispatch.worker = v
       /\ \A v \in Workers : Leasing(v) => v = w
  BY <1>2, <1>3 DEF LeaseInv, LeaseMatches
<1>13. MappingWorkers' = MappingWorkers
  BY <1>1, <1>3, <1>4, <1>10, MappersKept
<1>14. MappingExclusion'
  BY <1>1, <1>3, <1>10, <1>11, <1>13 DEF LeaseInv, MappingExclusion
<1>15. LeaseMatches'
  <2>1. \A v \in Workers : Leasing(v)' <=> dispatch'.worker = v
    BY <1>1, <1>2, <1>10, <1>11, <1>12
  <2>2. \A v \in Workers : ~(Leasing(v)' /\ job'[v].stage # "left")
    BY <1>4, <1>10, <1>12
  <2>3. ASSUME NEW p \in Texts
        PROVE  ~text'[p].physical /\ ~Executing(text'[p])
    <3>1. CASE p = q
      BY <1>3, <1>6, <1>8, <3>1 DEF Executing
    <3>2. CASE p # q
      <4>1. ~text[p].physical
        BY <1>3, <1>12, <3>2 DEF LeaseInv, LeaseMatches
      <4> QED BY <1>3, <1>8, <3>2, <4>1 DEF LeaseInv, LeaseMatches
    <3> QED BY <3>1, <3>2
  <2> QED BY <2>1, <2>2, <2>3 DEF LeaseMatches
<1>16. BarrierExact'
  <2>1. \E v \in Workers : Converting(v)' \/ job'[v].stage \in {"leaving", "left"}
    BY <1>4, <1>10
  <2> QED BY <1>1, <1>3, <2>1 DEF LeaseInv, BarrierExact
<1>17. ASSUME NEW v \in Workers
       PROVE  Hands(v)' /\ (Converting(v)' => dispatch'.mapping)
  <2>1. CASE v # w
    <3>1. ~Leasing(v)'
      BY <1>10, <1>12, <2>1
    <3> QED BY <3>1 DEF Hands, Converting, Leasing, LeaseStages
  <2>2. CASE v = w
    <3>1. ~Executing(text'[q])
      BY <1>3, <1>6, <1>8 DEF Executing
    <3> QED BY <1>3, <1>4, <1>10, <1>11, <2>2, <3>1 DEF Hands
  <2> QED BY <2>1, <2>2
<1>18. LeaseInv'
  BY <1>3, <1>13, <1>14, <1>15, <1>16, <1>17 DEF LeaseInv
<1>19. SourceType' /\ ClosingInv' /\ WorkType'
  BY <1>1, <1>3, <1>8, <1>10 DEF SourceType, ClosingInv, WorkType
<1>20. TypeOK'
  BY <1>19 DEF TypeOK, SourceType, WorkType
<1> QED BY <1>9, <1>18, <1>19, <1>20 DEF DispatchInv

(* And the scheduler's lease.                                              *)
LEMMA LeaveSchedulerKeeps ==
    ASSUME DispatchInv, NEW w \in Workers, LeaveScheduler(w)
    PROVE  DispatchInv'
<1> DEFINE j == [job[w] EXCEPT !.stage = "gone"]
<1>1. /\ job[w].stage = "left"
      /\ dispatch' = [dispatch EXCEPT !.mapping = FALSE, !.worker = None]
      /\ barrier' = dispatch.turn
      /\ UNCHANGED <<sourceVars, text, template, authorityVars, activated, textCursor>>
  BY DEF LeaveScheduler
<1>2. Leasing(w) /\ ~Converting(w)
  BY <1>1 DEF Leasing, LeaseStages, Converting
<1>3. /\ TypeOK /\ TextsInv /\ LeaseInv /\ SourceType /\ WorkType
      /\ job[w] \in JobType /\ job \in [Workers -> JobType]
  BY <1>2, LeaseKnows, TypeParts DEF TypeOK
<1>4. job' = [job EXCEPT ![w] = j]
  BY <1>3 DEF LeaveScheduler, GoTo
<1>5. j \in JobType
  BY <1>3 DEF JobType
<1>6. j.stage = "gone" /\ j.stage \notin LeaseStages
  BY <1>3 DEF JobType, LeaseStages
<1> HIDE DEF j
<1>7. /\ dispatch' \in DispatchType /\ barrier' \in BOOLEAN
      /\ dispatch'.mappings = dispatch.mappings /\ dispatch'.worker = None
      /\ dispatch'.turn = dispatch.turn /\ ~dispatch'.mapping
  BY <1>1, <1>3 DEF WorkType, DispatchType
<1>8. /\ job'[w] = j
      /\ \A v \in Workers : v # w => job'[v] = job[v]
      /\ \A v \in Workers : v # w => Leasing(v)' <=> Leasing(v)
  BY <1>3, <1>4, <1>5, OthersKept
<1>9. \A v \in Workers : Leasing(v) => v = w
  BY <1>2, <1>3 DEF LeaseInv, LeaseMatches
<1>10. \A v \in Workers : ~Leasing(v)' /\ ~Converting(v)' /\ Hands(v)'
  <2>1. \A v \in Workers : ~Leasing(v)'
    BY <1>6, <1>8, <1>9 DEF Leasing
  <2> QED BY <2>1 DEF Converting, Leasing, LeaseStages, Hands
<1>11. MappingWorkers' = MappingWorkers
  BY <1>1, <1>3, <1>6, <1>8, MappersKept
<1>12. MappingExclusion'
  BY <1>3, <1>7, <1>10, <1>11 DEF LeaseInv, MappingExclusion
<1>13. LeaseMatches'
  <2>1. \A q \in Texts : ~text[q].physical /\ ~Executing(text[q])
    BY <1>1, <1>3, <1>9 DEF LeaseInv, LeaseMatches
  <2> QED BY <1>1, <1>7, <1>10, <2>1, NoneIsNone DEF LeaseMatches
<1>14. BarrierExact'
  BY <1>1, <1>7 DEF BarrierExact
<1>15. LeaseInv'
  BY <1>3, <1>10, <1>11, <1>12, <1>13, <1>14 DEF LeaseInv
<1>16. TextsYield
  BY <1>1, <1>3, SameYield
<1> QED BY <1>1, <1>3, <1>4, <1>5, <1>7, <1>15, <1>16, WorkerKeeps DEF SourceType, WorkType

(* A turn is taken: the lease and the barrier go to the worker, and the    *)
(* pending frame of the query under analysis.                              *)
LEMMA DecideTextKeeps ==
    ASSUME DispatchInv, NEW w \in Workers, DecideText(w),
           UNCHANGED <<sourceVars, template, authorityVars, activated>>
    PROVE  DispatchInv'
<1>1. /\ TypeOK /\ TextsInv /\ LeaseInv /\ SourceType /\ WorkType /\ ClosingInv
      /\ job[w] \in JobType /\ job \in [Workers -> JobType]
      /\ text \in [Texts -> TextType] /\ textCursor \in [Sessions -> Nat]
      /\ dispatch \in DispatchType
  BY TypeParts DEF DispatchInv, TypeOK
<1>2. /\ job[w].stage = "scan" /\ dispatch.worker = None /\ dispatch.mappings = 0
  BY DEF DecideText, TextTurn, Scanned
<1>3. PICK x \in job[w].seen :
         /\ Claimable(x)
         /\ text' = [text EXCEPT ![x[1]] = Claimed(@)]
         /\ job' = [job EXCEPT ![w] =
                [NoJob EXCEPT !.stage = "claimed", !.at = x[1], !.frame = x[2],
                              !.generation = text[x[1]].generation + 1]]
         /\ textCursor' = [textCursor EXCEPT ![Home[x[1]]] = x[1]]
         /\ dispatch' = [dispatch EXCEPT !.ready = TRUE, !.worker = w, !.turn = FALSE,
                           !.mapping = TRUE, !.next = FALSE, !.cursor = Home[x[1]]]
         /\ barrier' = TRUE
  BY DEF DecideText
<1>4. PICK q \in Texts, f \in FramesOrNone : x[1] = q /\ x[2] = f
  <2>1. x \in Texts \X FramesOrNone
    BY <1>1, <1>3 DEF JobType
  <2> QED BY <2>1
<1> DEFINE d == text[q]
           e == Claimed(d)
           g == d.generation + 1
           j == [NoJob EXCEPT !.stage = "claimed", !.at = q, !.frame = f, !.generation = g]
<1>5. /\ d \in TextType /\ Sound(d) /\ Lives(d) /\ ~Executing(d)
      /\ d.pending # 0 /\ d.pending = f
  BY <1>1, <1>3, <1>4 DEF TextsInv, Claimable, Ready, Lives
<1>6. text' = [text EXCEPT ![q] = e]
  BY <1>3, <1>4
<1>7. job' = [job EXCEPT ![w] = j]
  BY <1>3, <1>4
<1>8. g \in Nat /\ g > 0 /\ Home[q] \in Sessions /\ f > 0
  BY <1>5, RecordTypes, FramesAreNumbers, HomeType DEF AllQueries
<1>9. /\ e \in TextType /\ Sound(e) /\ Unmatched(d, e) /\ e.physical
      /\ Lives(e) /\ Executing(e) /\ e.execution = [generation |-> g, frame |-> f]
  BY <1>5, ClaimedSound
<1> HIDE DEF g, e
<1>10. j \in JobType
  BY <1>8, NoJobType DEF JobType, LeaseStages, AllQueries
<1>11. /\ j.stage = "claimed" /\ j.at = q /\ j.frame = f /\ j.generation = g
  BY NoJobType DEF JobType
<1> HIDE DEF j
<1>12. /\ text' \in [Texts -> TextType] /\ text'[q] = e
       /\ \A p \in Texts : p # q => text'[p] = text[p]
  BY <1>1, <1>6, <1>9
<1>13. TextsInv'
  BY <1>1, <1>9, <1>12 DEF TextsInv, Unmatched
<1>14. /\ job' \in [Workers -> JobType] /\ job'[w] = j
       /\ \A v \in Workers : v # w => job'[v] = job[v]
       /\ \A v \in Workers : v # w => Leasing(v)' <=> Leasing(v)
  BY <1>1, <1>7, <1>10, OthersKept
<1>15. \A v \in Workers : ~Leasing(v)
  BY <1>1, <1>2, NoLease
<1>16. Leasing(w)' /\ Converting(w)' /\ \A v \in Workers : v # w => ~Leasing(v)'
  BY <1>11, <1>14, <1>15 DEF Leasing, Converting, LeaseStages
<1>17. /\ dispatch'.mappings = 0 /\ ~dispatch'.turn /\ dispatch'.mapping
       /\ dispatch'.worker = w /\ barrier'
  BY <1>1, <1>2, <1>3 DEF DispatchType
<1>18. dispatch' \in DispatchType
  <2> DEFINE c == Home[q]
  <2>1. c \in Nat
    BY <1>8, DispatchAssumption
  <2>2. dispatch' = [dispatch EXCEPT !.ready = TRUE, !.worker = w, !.turn = FALSE,
                           !.mapping = TRUE, !.next = FALSE, !.cursor = c]
    BY <1>3, <1>4
  <2> HIDE DEF c
  <2> QED BY <1>1, <2>1, <2>2 DEF DispatchType
<1>19. MappingWorkers' = {} /\ MappingWorkers = {}
  <2>1. MappingWorkers = {}
    BY <1>1, <1>2, FS_EmptySet DEF LeaseInv, MappingExclusion
  <2> QED BY <1>11, <1>14, <2>1 DEF MappingWorkers
<1>20. MappingExclusion' /\ IsFiniteSet(MappingWorkers')
  BY <1>17, <1>19, FS_EmptySet DEF MappingExclusion
<1>21. LeaseMatches'
  <2>1. \A v \in Workers : Leasing(v)' <=> dispatch'.worker = v
    BY <1>16, <1>17
  <2>2. ASSUME NEW p \in Texts
        PROVE  /\ text'[p].physical <=>
                     \E v \in Workers : Leasing(v)' /\ job'[v].stage # "left" /\ job'[v].at = p
               /\ Executing(text'[p]) => text'[p].physical
    <3>1. CASE p = q
      BY <1>9, <1>11, <1>12, <1>14, <1>16, <3>1
    <3>2. CASE p # q
      <4>1. ~text[p].physical /\ ~Executing(text[p])
        BY <1>1, <1>15 DEF LeaseInv, LeaseMatches
      <4> QED BY <1>11, <1>12, <1>14, <1>16, <3>2, <4>1
    <3> QED BY <3>1, <3>2
  <2> QED BY <2>1, <2>2 DEF LeaseMatches
<1>22. BarrierExact'
  BY <1>16, <1>17 DEF BarrierExact
<1>23. ASSUME NEW v \in Workers
       PROVE  Hands(v)' /\ (Converting(v)' => dispatch'.mapping)
  <2>1. CASE v # w
    BY <1>16, <1>17, <2>1 DEF Hands
  <2>2. CASE v = w
    <3>1. Current(w)'
      BY <1>9, <1>11, <1>12, <1>14 DEF Current, Lives
    <3> QED BY <1>8, <1>11, <1>14, <1>17, <2>2, <3>1 DEF Hands
  <2> QED BY <2>1, <2>2
<1>24. LeaseInv'
  BY <1>20, <1>21, <1>22, <1>23 DEF LeaseInv
<1>25. textCursor' \in [Sessions -> Nat]
  <2>1. q \in Nat
    BY DispatchAssumption
  <2> QED BY <1>1, <1>3, <1>4, <1>8, <2>1
<1>26. SourceType' /\ ClosingInv' /\ WorkType'
  BY <1>1, <1>12, <1>14, <1>17, <1>18, <1>25 DEF SourceType, ClosingInv, WorkType
<1>27. TypeOK'
  BY <1>26 DEF TypeOK, SourceType, WorkType
<1> QED BY <1>13, <1>24, <1>26, <1>27 DEF DispatchInv

-----------------------------------------------------------------------------
(* The theorems.                                                           *)

LEMMA InitHolds ==
    ASSUME Init
    PROVE  DispatchInv
<1>1. /\ 0 \in FramesOrNone /\ NoExecution \in [generation : Nat, frame : FramesOrNone]
      /\ [k \in Dispositions |-> 0] \in [Dispositions -> Nat] /\ None \in Yielding
  BY FramesAreNumbers DEF NoExecution, Yielding
<1>2. NewText \in TextType
  BY <1>1 DEF NewText, TextType
<1>3. Sound(NewText) /\ NewText.terminal = None
  <2>1. /\ NewText.terminal = None /\ NewText.source = 0 /\ NewText.pending = 0
        /\ NewText.execution = NoExecution /\ NewText.confirmed = {}
        /\ NewText.empties = {} /\ NewText.taken = 0
        /\ \A k \in Dispositions : NewText.work[k] = 0
    BY DEF NewText
  <2>2. Outstanding(NewText) = 0 /\ Total(NewText) = 0 /\ ~Executing(NewText)
    BY <2>1 DEF Outstanding, Executing, Total, Dispositions
  <2>3. Accounted(NewText)
    BY <2>1, <2>2, NoneIsNone DEF Accounted, Dispositions, Outcomes
  <2>4. Ordered(NewText) /\ StreakInv(NewText)
    BY <2>1, <2>2 DEF Ordered, StreakInv
  <2> QED BY <2>1, <2>3, <2>4 DEF Sound
<1>4. \A q \in AllQueries : Home[q] \in Sessions
  BY HomeType
<1>5. SourceType
  BY <1>1, <1>4 DEF Init, SourceType
<1>6. WorkType
  <2>1. NewDispatch \in DispatchType
    BY DEF NewDispatch, DispatchType
  <2> QED BY <1>2, <2>1, NoJobType DEF Init, WorkType
<1>7. TextsInv
  BY <1>3, NoneIsNone DEF Init, TextsInv, Outcomes
<1>8. \A w \in Workers : ~Leasing(w) /\ ~Converting(w) /\ job[w].stage = "idle"
  BY DEF Init, NoJob, Leasing, Converting, LeaseStages
<1>9. MappingWorkers = {}
  BY <1>8 DEF MappingWorkers
<1>10. /\ dispatch.mappings = 0 /\ ~dispatch.turn /\ ~dispatch.mapping
       /\ dispatch.worker = None /\ ~barrier
  BY DEF Init, NewDispatch
<1>11. \A q \in Texts : ~text[q].physical /\ ~Executing(text[q])
  BY DEF Init, NewText, Executing
<1>12. LeaseInv
  BY <1>8, <1>9, <1>10, <1>11, FS_EmptySet, NoneIsNone
     DEF LeaseInv, MappingExclusion, LeaseMatches, BarrierExact, Hands
<1> QED BY <1>5, <1>6, <1>7, <1>12, TypeParts DEF DispatchInv, ClosingInv, Init

LEMMA WorkKeeps ==
    ASSUME DispatchInv, NEW w \in Workers, Work(w)
    PROVE  DispatchInv'
<1>1. CASE NextDispatch(w)
  BY <1>1, NextDispatchKeeps
<1>2. CASE Decide(w)
  BY <1>2, DecideKeeps, DecideTextKeeps DEF Decide
<1>3. CASE \E q \in Texts : Scan(w, q)
  BY <1>3, ScanKeeps
<1>4. CASE TakeTemplate(w)
  BY <1>4, TakeTemplateKeeps
<1>5. CASE TakeNothing(w) \/ TemplateDone(w) \/ LeaveSession(w)
  BY <1>5, RestKeeps
<1>6. CASE MapReturns(w)
  BY <1>6, MapReturnsKeeps
<1>7. CASE ProcessText(w)
  BY <1>7, ProcessTextKeeps
<1>8. CASE Prepare(w)
  BY <1>8, PrepareKeeps
<1>9. CASE Compare(w)
  BY <1>9, CompareKeeps
<1>10. CASE AdmitText(w)
  BY <1>10, AdmitTextKeeps
<1>11. CASE Execute(w)
  BY <1>11, ExecuteKeeps
<1>12. CASE CompleteAsk(w)
  BY <1>12, CompleteAskKeeps
<1>13. CASE CompleteCommit(w)
  BY <1>13, CompleteCommitKeeps
<1>14. CASE Settle(w)
  BY <1>14, SettleKeeps
<1>15. CASE LeaveQuery(w)
  BY <1>15, LeaveQueryKeeps
<1>16. CASE LeaveScheduler(w)
  BY <1>16, LeaveSchedulerKeeps
<1> QED BY <1>1, <1>2, <1>3, <1>4, <1>5, <1>6, <1>7, <1>8, <1>9, <1>10, <1>11, <1>12,
           <1>13, <1>14, <1>15, <1>16 DEF Work

LEMMA NextKeeps ==
    ASSUME DispatchInv, [Next]_vars
    PROVE  DispatchInv'
<1>1. CASE UNCHANGED vars
  <2>1. TextsYield /\ UNCHANGED <<dispatchVars, job>>
    BY <1>1, SameYield DEF DispatchInv, vars
  <2>2. SourceType' /\ ClosingInv'
    BY <1>1, TypeParts DEF DispatchInv, vars, SourceType, ClosingInv
  <2> QED BY <2>1, <2>2, OutsideStep
<1>2. CASE \E w \in Workers : Work(w)
  BY <1>2, WorkKeeps
<1>3. CASE \E s \in Sessions :
              \/ PublishBegin(s) \/ Publish(s) \/ SourceEnds(s)
              \/ \E kind \in {"lost", "closed"} : CaptureEnds(s, kind)
              \/ \E outcome \in {"SessionClosed", "SchedulerClosed"} :
                    CloseSession(s, outcome)
  BY <1>3, SourceKeeps, TextKeeps DEF Publish
<1>4. CASE \E q \in Texts :
              \/ \E outcome \in {"Cancelled", "DeadlineExceeded"} : Interrupt(q, outcome)
              \/ Cancel(q) \/ Sweep(q) \/ Expire(q) \/ RateElapses(q)
              \/ AfterTerminal(q) \/ CloseText(q)
  BY <1>4, TextKeeps
<1>5. CASE \E t \in Templates : EndTemplate(t) \/ CloseTemplate(t)
  BY <1>5, SourceKeeps
<1>6. CASE CloseScheduler
  BY <1>6, SourceKeeps
<1> QED BY <1>1, <1>2, <1>3, <1>4, <1>5, <1>6 DEF Next

(* The inductive invariant: the types, the account, order and streak of    *)
(* every text query, the lease with what its holder has in its hands, and  *)
(* that a closing session has its end recorded.                            *)
THEOREM DispatchInvariant == Spec => []DispatchInv
<1>1. Init => DispatchInv
  BY InitHolds
<1>2. DispatchInv /\ [Next]_vars => DispatchInv'
  BY NextKeeps
<1> QED BY <1>1, <1>2, PTL DEF Spec

(* No template mapping is under way while an OCR query converts its frame, *)
(* the mapping counter is exact, one worker at most has the lease, and no  *)
(* return of it leaves the barrier up (ocr_watch.rs, OcrExecutionLease and *)
(* TemplateMappingStage).                                                  *)
THEOREM DispatchLeaseIsSound == Spec => []LeaseIsSound
<1>1. DispatchInv => LeaseIsSound
  BY DEF DispatchInv, LeaseInv, LeaseIsSound
<1> QED BY <1>1, DispatchInvariant, PTL

(* Every frame a text query took is counted once, and a match rests on     *)
(* enough frames of one view with no negative one between them             *)
(* (ocr_watch.rs, clear_work and complete).                                *)
THEOREM DispatchTextEndsSound == Spec => []TextEndsSound
<1>1. DispatchInv => TextEndsSound
  <2> SUFFICES ASSUME DispatchInv PROVE TextEndsSound
    OBVIOUS
  <2>1. ASSUME NEW q \in Texts
        PROVE  /\ Sound(text[q]) /\ text[q] \in TextType
               /\ text[q].terminal = "Matched" => Cardinality(text[q].confirmed) >= Required[q]
    BY DEF DispatchInv, TypeOK, TextsInv
  <2>2. TextFramesAccounted
    <3> SUFFICES ASSUME NEW q \in Texts
                 PROVE  LET d == text[q] IN
                        /\ d.taken = (IF d.pending # 0 THEN 1 ELSE 0) + (IF Executing(d) THEN 1 ELSE 0)
                               + d.work["Completed"] + d.work["Failed"]
                               + d.work["Superseded"] + d.work["SkippedChange"]
                        /\ d.work["QueueExpired"] = IF d.terminal = "Overloaded" THEN 1 ELSE 0
      BY DEF TextFramesAccounted
    <3> DEFINE a == IF text[q].pending # 0 THEN 1 ELSE 0
               b == IF Executing(text[q]) THEN 1 ELSE 0
               c == text[q].work["Completed"]
               f == text[q].work["Failed"]
               s == text[q].work["Superseded"]
               p == text[q].work["SkippedChange"]
    <3>1. Accounted(text[q])
      BY <2>1 DEF Sound
    <3>2. text[q].taken = (a + b) + (c + f + s + p)
      BY <3>1 DEF Accounted, Outstanding, Total
    <3>3. c \in Nat /\ f \in Nat /\ s \in Nat /\ p \in Nat /\ a \in Nat /\ b \in Nat
      BY <2>1, RecordTypes DEF Dispositions
    <3> HIDE DEF a, b, c, f, s, p
    <3>4. text[q].taken = a + b + c + f + s + p
      BY <3>2, <3>3
    <3> QED BY <3>1, <3>4 DEF Accounted, a, b, c, f, s, p
  <2>3. MatchedIsStable
    <3> SUFFICES ASSUME NEW q \in Texts, text[q].terminal = "Matched"
                 PROVE  /\ Cardinality(text[q].confirmed) >= Required[q]
                        /\ \A f \in text[q].confirmed : View[f] = View[text[q].source]
                        /\ \A e \in text[q].empties :
                              ~ \E f, g \in text[q].confirmed : f < e /\ e < g
      BY DEF MatchedIsStable
    <3>1. StreakInv(text[q]) /\ Cardinality(text[q].confirmed) >= Required[q]
      BY <2>1 DEF Sound
    <3>2. ASSUME NEW e \in text[q].empties, NEW f \in text[q].confirmed, f < e
          PROVE  FALSE
      <4>1. e \in Nat /\ f \in Nat
        BY <2>1, RecordTypes
      <4> QED BY <3>1, <3>2, <4>1 DEF StreakInv
    <3> QED BY <3>1, <3>2 DEF StreakInv
  <2> QED BY <2>2, <2>3 DEF TextEndsSound
<1> QED BY <1>1, DispatchInvariant, PTL

-----------------------------------------------------------------------------
(* Which of several ends is recorded.                                      *)

(* An outcome that nothing recorded or asked for before outranks.          *)
Outranks(q, outcome) ==
    LET recorded == authority[Home[q]] IN
    /\ recorded # None => outcome = recorded
    /\ recorded = None /\ schedulerClosed => outcome = "SchedulerClosed"
    /\ recorded = None /\ ~schedulerClosed /\ text[q].stopped # None =>
          outcome \notin {"Overloaded", "Failed", "Matched"}
    /\ recorded = None /\ ~schedulerClosed /\ text[q].stopped = "Cancelled" =>
          outcome # "DeadlineExceeded"

Orderly ==
    \A q \in Texts : text'[q].terminal = text[q].terminal \/ Outranks(q, text'[q].terminal)

LEMMA FreeOutranks ==
    ASSUME NEW q \in Texts, Authority(q) = None, NEW o
    PROVE  Outranks(q, o)
BY NoneIsNone DEF Authority, Outranks, Outcomes

LEMMA AuthorityOutranks ==
    ASSUME TypeOK, NEW q \in Texts
    PROVE  Outranks(q, Authority(q))
<1>1. text[q].stopped \in {None, "Cancelled", "DeadlineExceeded"}
  BY RecordTypes DEF TypeOK, Yielding
<1> QED BY <1>1 DEF Authority, Outranks

LEMMA DecidedOutranks ==
    ASSUME TypeOK, NEW q \in Texts, NEW o
    PROVE  Outranks(q, Decided(q, o))
<1>1. authority[Home[q]] \in {None, "TargetLost", "SessionClosed", "SchedulerClosed"}
  BY HomeType DEF TypeOK, AllQueries
<1>2. CASE Authority(q) \in {None, "DeadlineExceeded"} /\ o = "Cancelled"
  <2>1. Decided(q, o) = "Cancelled"
    BY <1>2 DEF Decided
  <2>2. authority[Home[q]] = None /\ ~schedulerClosed
    BY <1>1, <1>2, NoneIsNone DEF Authority, Outcomes
  <2> QED BY <2>1, <2>2 DEF Outranks
<1>3. CASE ~(Authority(q) \in {None, "DeadlineExceeded"} /\ o = "Cancelled")
  BY <1>3, AuthorityOutranks, FreeOutranks DEF Decided
<1> QED BY <1>2, <1>3

LEMMA EndedTerminal ==
    ASSUME NEW d \in TextType, NEW o
    PROVE  Ended(d, o).terminal = o
<1> DEFINE n == (IF d.pending # 0 THEN 1 ELSE 0) + (IF Executing(d) THEN 1 ELSE 0)
           c == Counted(d, "Superseded", n)
<1>1. n \in Nat /\ "Superseded" \in Dispositions
  BY DEF Dispositions
<1>2. Ended(d, o) = [[c EXCEPT !.pending = 0, !.execution = NoExecution,
                               !.previous = FALSE, !.deferred = FALSE] EXCEPT !.terminal = o]
  BY DEF Ended, Cleared
<1> HIDE DEF n
<1>3. c \in TextType
  BY <1>1, CountedType
<1> HIDE DEF c
<1> QED BY <1>2, <1>3 DEF TextType

LEMMA OneOrderly ==
    ASSUME TypeOK, NEW q \in Texts, NEW e, text' = [text EXCEPT ![q] = e],
           e.terminal = text[q].terminal \/ Outranks(q, e.terminal)
    PROVE  Orderly
<1>1. text'[q] = e /\ \A p \in Texts : p # q => text'[p] = text[p]
  BY DEF TypeOK
<1> QED BY <1>1 DEF Orderly

LEMMA SameOrderly ==
    ASSUME UNCHANGED text
    PROVE  Orderly
BY DEF Orderly

LEMMA TerminatedOrderly ==
    ASSUME TypeOK, NEW q \in Texts, NEW o, text' = Terminated(q, o)
    PROVE  Orderly
<1>1. CASE ~Live(q)
  BY <1>1, SameOrderly DEF Terminated
<1>2. CASE Live(q)
  <2> DEFINE k == Decided(q, o)
  <2>1. text' = [text EXCEPT ![q] = Ended(text[q], k)]
    BY <1>2 DEF Terminated
  <2>2. Outranks(q, k)
    BY DecidedOutranks
  <2> HIDE DEF k
  <2>3. Ended(text[q], k).terminal = k
    BY EndedTerminal DEF TypeOK
  <2> QED BY <2>1, <2>2, <2>3, OneOrderly
<1> QED BY <1>1, <1>2

LEMMA SweptOrderly ==
    ASSUME TypeOK, NEW q \in Texts, text' = Swept(q)
    PROVE  Orderly
<1>1. text[q] \in TextType
  BY DEF TypeOK
<1>2. CASE text' = text
  BY <1>2, SameOrderly
<1>3. CASE Authority(q) # None /\ text' = [text EXCEPT ![q] = Ended(text[q], Authority(q))]
  BY <1>1, <1>3, AuthorityOutranks, EndedTerminal, OneOrderly
<1>4. CASE Authority(q) = None /\ text' = [text EXCEPT ![q] = Ended(text[q], "SessionClosed")]
  BY <1>1, <1>4, FreeOutranks, EndedTerminal, OneOrderly
<1> QED BY <1>2, <1>3, <1>4 DEF Swept

(* The end that prevails over a result outranks, and none prevails only    *)
(* over a query that nothing stands against.                               *)
LEMMA PrevailingOutranks ==
    ASSUME TypeOK, NEW q \in Texts, NEW r \in Yielding \cup {"TargetLost", "SessionClosed"}
    PROVE  /\ Prevailing(q, r) # None => Outranks(q, Prevailing(q, r))
           /\ Prevailing(q, r) = None => Authority(q) = None
           /\ r \notin Yielding /\ authority[Home[q]] = None /\ ~schedulerClosed =>
                 Prevailing(q, r) = r
<1>1. text[q].stopped \in {None, "Cancelled", "DeadlineExceeded"}
  BY RecordTypes DEF TypeOK, Yielding
<1>2. authority[Home[q]] \in {None, "TargetLost", "SessionClosed", "SchedulerClosed"}
  BY HomeType DEF TypeOK, AllQueries
<1>3. None \notin {"TargetLost", "SessionClosed", "SchedulerClosed", "Cancelled",
                   "DeadlineExceeded", "Overloaded", "Failed", "Matched"}
  BY NoneIsNone DEF Outcomes
<1>4. CASE authority[Home[q]] # None
  BY <1>2, <1>4 DEF Prevailing, Authority, Outranks, Yielding
<1>5. CASE authority[Home[q]] = None /\ schedulerClosed
  BY <1>3, <1>5 DEF Prevailing, Authority, Outranks, Yielding
<1>6. CASE authority[Home[q]] = None /\ ~schedulerClosed
  <2>1. Authority(q) = text[q].stopped
    BY <1>6 DEF Authority
  <2>2. CASE r \in {"TargetLost", "SessionClosed"}
    <3>1. Prevailing(q, r) = r
      BY <1>1, <1>3, <2>1, <2>2 DEF Prevailing, Yielding
    <3> QED BY <1>3, <1>6, <2>2, <3>1 DEF Outranks
  <2>3. CASE r \in Yielding
    <3>1. text[q].stopped # None => Prevailing(q, r) = text[q].stopped
      BY <1>1, <1>3, <2>1, <2>3 DEF Prevailing, Yielding
    <3>2. text[q].stopped # None => Outranks(q, text[q].stopped)
      BY <1>1, <1>3, <1>6 DEF Outranks
    <3>3. text[q].stopped = None => \A o : Outranks(q, o)
      BY <1>3, <1>6 DEF Outranks
    <3> QED BY <2>1, <2>3, <3>1, <3>2, <3>3
  <2> QED BY <2>2, <2>3
<1> QED BY <1>4, <1>5, <1>6

LEMMA TextOrderly ==
    ASSUME DispatchInv, NEW q \in Texts,
           \/ \E outcome \in {"Cancelled", "DeadlineExceeded"} : Interrupt(q, outcome)
           \/ Cancel(q) \/ Sweep(q) \/ Expire(q) \/ RateElapses(q)
           \/ AfterTerminal(q) \/ CloseText(q) \/ EnqueueText(q)
    PROVE  Orderly
<1> DEFINE d == text[q]
<1>1. TypeOK /\ d \in TextType /\ Sound(d)
  BY DEF DispatchInv, TypeOK, TextsInv
<1>2. ASSUME NEW o \in {"Cancelled", "DeadlineExceeded"}, Interrupt(q, o)
      PROVE  Orderly
  <2>1. text' = [text EXCEPT ![q] = [d EXCEPT !.stopped = o]]
    BY <1>2 DEF Interrupt
  <2>2. [d EXCEPT !.stopped = o].terminal = d.terminal
    BY <1>1 DEF TextType
  <2> QED BY <1>1, <2>1, <2>2, OneOrderly
<1>3. CASE Cancel(q)
  BY <1>1, <1>3, TerminatedOrderly DEF Cancel
<1>4. CASE Sweep(q)
  BY <1>1, <1>4, SweptOrderly DEF Sweep
<1>5. CASE Expire(q)
  <2> DEFINE c == Counted(d, "QueueExpired", 1)
  <2>1. text' = [text EXCEPT ![q] = Ended(c, "Overloaded")] /\ Authority(q) = None
    BY <1>5 DEF Expire
  <2>2. c \in TextType
    BY <1>1, CountedType DEF Dispositions
  <2> HIDE DEF c
  <2> QED BY <1>1, <2>1, <2>2, EndedTerminal, FreeOutranks, OneOrderly
<1>6. CASE RateElapses(q)
  <2>1. text' = [text EXCEPT ![q] = [d EXCEPT !.cooling = FALSE]]
    BY <1>6 DEF RateElapses
  <2>2. [d EXCEPT !.cooling = FALSE].terminal = d.terminal
    BY <1>1 DEF TextType
  <2> QED BY <1>1, <2>1, <2>2, OneOrderly
<1>7. CASE AfterTerminal(q)
  <2>1. text' = [text EXCEPT ![q] = [d EXCEPT !.released = TRUE]]
    BY <1>7 DEF AfterTerminal
  <2>2. [d EXCEPT !.released = TRUE].terminal = d.terminal
    BY <1>1 DEF TextType
  <2> QED BY <1>1, <2>1, <2>2, OneOrderly
<1>8. CASE CloseText(q)
  BY <1>1, <1>8, TerminatedOrderly DEF CloseText
<1>9. CASE EnqueueText(q)
  <2> DEFINE f == published[Home[q]]
  <2>1. f \in FramesOrNone /\ d.source \in Nat /\ f \in Nat
    BY <1>1, HomeType, RecordTypes, FramesAreNumbers DEF TypeOK, AllQueries
  <2>2. ASSUME text' = text
        PROVE  Orderly
    BY <2>2, SameOrderly
  <2>3. ASSUME text' = Terminated(q, Authority(q))
        PROVE  Orderly
    BY <1>1, <2>3, TerminatedOrderly
  <2>4. ASSUME Live(q), d.source < f, text' = [text EXCEPT ![q] = Enqueued(d, f)]
        PROVE  Orderly
    <3>1. Enqueued(d, f).terminal = d.terminal
      BY <1>1, <2>1, <2>4, EnqueuedFollows DEF Live, Lives
    <3> QED BY <1>1, <2>4, <3>1, OneOrderly
  <2>5. ASSUME Live(q), d.source < f, Authority(q) = None,
               text' = [text EXCEPT ![q] = Unresolved(d, f)]
        PROVE  Orderly
    BY <1>1, <2>5, FreeOutranks, OneOrderly
  <2>6. ~(d.source >= f) <=> d.source < f
    BY <2>1
  <2> HIDE DEF f
  <2> QED BY <1>9, <2>2, <2>3, <2>4, <2>5, <2>6 DEF EnqueueText, f
<1> QED BY <1>2, <1>3, <1>4, <1>5, <1>6, <1>7, <1>8, <1>9

(* The worker records the end that prevails, and what capture refused      *)
(* stands.                                                                 *)
LEMMA CommitOrderly ==
    ASSUME DispatchInv, NEW w \in Workers, CompleteCommit(w)
    PROVE  /\ Orderly
           /\ /\ Current(w) /\ job[w].refusal \notin Yielding
              /\ authority[Home[job[w].at]] = None /\ ~schedulerClosed
              => text'[job[w].at].terminal = job[w].refusal
<1> DEFINE q == job[w].at
           r == job[w].refusal
           c == Concluded(q, job[w].frame, job[w].result, job[w].confirmed)
<1>1. Leasing(w) /\ job[w].stage = "committing"
  BY DEF CompleteCommit, Leasing, LeaseStages
<1>2. /\ TypeOK /\ q \in Texts /\ text \in [Texts -> TextType] /\ text[q] \in TextType
      /\ r \in Yielding \cup {"TargetLost", "SessionClosed"}
  BY <1>1, LeaseKnows DEF JobType
<1>3. text' = IF ~Current(w) THEN text
              ELSE IF Prevailing(q, r) # None THEN [text EXCEPT ![q] = Ended(@, Prevailing(q, r))]
              ELSE [text EXCEPT ![q] = c]
  BY DEF CompleteCommit
<1> HIDE DEF c
<1>4. /\ Prevailing(q, r) # None => Outranks(q, Prevailing(q, r))
      /\ Prevailing(q, r) = None => Authority(q) = None
      /\ r \notin Yielding /\ authority[Home[q]] = None /\ ~schedulerClosed =>
            Prevailing(q, r) = r
  BY <1>2, PrevailingOutranks
<1>5. CASE ~Current(w)
  BY <1>3, <1>5, SameOrderly
<1>6. CASE Current(w) /\ Prevailing(q, r) # None
  <2>1. text' = [text EXCEPT ![q] = Ended(text[q], Prevailing(q, r))]
    BY <1>3, <1>6
  <2>2. Ended(text[q], Prevailing(q, r)).terminal = Prevailing(q, r)
    BY <1>2, EndedTerminal
  <2>3. text'[q].terminal = Prevailing(q, r)
    BY <1>2, <2>1, <2>2
  <2>4. Orderly
    BY <1>2, <1>4, <1>6, <2>1, <2>2, OneOrderly
  <2> QED BY <1>4, <2>3, <2>4
<1>7. CASE Current(w) /\ Prevailing(q, r) = None
  <2>1. text' = [text EXCEPT ![q] = c] /\ Authority(q) = None
    BY <1>3, <1>4, <1>7
  <2>2. Orderly
    BY <1>2, <2>1, FreeOutranks, OneOrderly
  <2>3. ~(r \notin Yielding /\ authority[Home[q]] = None /\ ~schedulerClosed)
    BY <1>4, <1>7 DEF Yielding
  <2> QED BY <2>2, <2>3
<1> QED BY <1>5, <1>6, <1>7

LEMMA WorkOrderly ==
    ASSUME DispatchInv, NEW w \in Workers, Work(w)
    PROVE  Orderly
<1>1. /\ TypeOK /\ job[w] \in JobType /\ text \in [Texts -> TextType]
  BY DEF DispatchInv, TypeOK
<1>2. CASE \/ NextDispatch(w) \/ TakeTemplate(w) \/ TakeNothing(w) \/ MapReturns(w)
           \/ TemplateDone(w) \/ Prepare(w) \/ Compare(w) \/ Execute(w)
           \/ CompleteAsk(w) \/ LeaveScheduler(w) \/ LeaveSession(w)
  <2>1. UNCHANGED text
    BY <1>2 DEF NextDispatch, TakeTemplate, TakeNothing, MapReturns, TemplateDone,
                Prepare, Compare, Execute, CompleteAsk, LeaveScheduler, LeaveSession
  <2> QED BY <2>1, SameOrderly
<1>3. CASE Decide(w)
  <2>1. CASE DecideText(w)
    <3>1. PICK x \in job[w].seen : text' = [text EXCEPT ![x[1]] = Claimed(@)]
      BY <2>1 DEF DecideText
    <3>2. x[1] \in Texts
      BY <1>1, <3>1 DEF JobType
    <3>3. Claimed(text[x[1]]).terminal = text[x[1]].terminal
      BY <1>1, <3>2 DEF Claimed, TextType
    <3> QED BY <1>1, <3>1, <3>2, <3>3, OneOrderly
  <2>2. CASE ~DecideText(w)
    <3>1. UNCHANGED text
      BY <1>3, <2>2 DEF Decide, DecideStale, DecideLeased, DecideNoText,
                        DecideTemplates, DecideDrain, DecideNone
    <3> QED BY <3>1, SameOrderly
  <2> QED BY <2>1, <2>2
<1>4. CASE \E q \in Texts : Scan(w, q)
  BY <1>1, <1>4, SweptOrderly DEF Scan
<1>5. CASE CompleteCommit(w)
  BY <1>5, CommitOrderly
<1>6. CASE ProcessText(w) \/ AdmitText(w) \/ Settle(w) \/ LeaveQuery(w)
  <2> DEFINE q == job[w].at
             d == text[q]
  <2>1. Leasing(w)
    BY <1>6 DEF ProcessText, AdmitText, Settle, LeaveQuery, Leasing, LeaseStages
  <2>2. q \in Texts /\ d \in TextType
    BY <2>1, LeaseKnows
  <2>3. CASE ProcessText(w) \/ Settle(w)
    BY <1>1, <2>2, <2>3, SweptOrderly DEF ProcessText, Settle
  <2>4. CASE LeaveQuery(w)
    <3>1. text' = [text EXCEPT ![q] = [d EXCEPT !.physical = FALSE]]
      BY <2>4 DEF LeaveQuery
    <3>2. [d EXCEPT !.physical = FALSE].terminal = d.terminal
      BY <2>2 DEF TextType
    <3> QED BY <1>1, <2>2, <3>1, <3>2, OneOrderly
  <2>5. CASE AdmitText(w)
    <3>1. CASE AdmitObsolete(w)
      BY <1>1, <2>2, <3>1, TerminatedOrderly, SameOrderly DEF AdmitObsolete
    <3>2. CASE AdmitSkip(w)
      <4> DEFINE e == Dropped(d, "SkippedChange")
                 c == Counted(d, "SkippedChange", 1)
      <4>1. text' = [text EXCEPT ![q] = e]
        BY <3>2 DEF AdmitSkip, Dropped
      <4>2. "SkippedChange" \in Dispositions
        BY DEF Dispositions
      <4>3. c \in TextType /\ c.terminal = d.terminal
        BY <2>2, <4>2, CountedType, CountedAlike DEF Alike
      <4>4. e = [c EXCEPT !.execution = NoExecution]
        BY DEF Dropped
      <4> HIDE DEF c, e
      <4>5. e.terminal = d.terminal
        BY <4>3, <4>4 DEF TextType
      <4> QED BY <1>1, <2>2, <4>1, <4>5, OneOrderly
    <3>3. CASE AdmitAnalysis(w)
      <4> DEFINE b == d.pending # 0
                 e == [d EXCEPT !.cooling = TRUE, !.deferred = b]
      <4>1. text' = [text EXCEPT ![q] = e]
        BY <1>1, <2>2, <3>3 DEF AdmitAnalysis
      <4>2. e.terminal = d.terminal
        BY <2>2 DEF TextType
      <4> HIDE DEF e
      <4> QED BY <1>1, <2>2, <4>1, <4>2, OneOrderly
    <3> QED BY <2>5, <3>1, <3>2, <3>3 DEF AdmitText
  <2> QED BY <1>6, <2>3, <2>4, <2>5
<1> QED BY <1>2, <1>3, <1>4, <1>5, <1>6 DEF Work

LEMMA NextOrderly ==
    ASSUME DispatchInv, [Next]_vars
    PROVE  Orderly
<1>1. CASE UNCHANGED vars
  BY <1>1, SameOrderly DEF vars
<1>2. CASE \E w \in Workers : Work(w)
  BY <1>2, WorkOrderly
<1>3. CASE \E s \in Sessions :
              \/ PublishBegin(s) \/ Publish(s) \/ SourceEnds(s)
              \/ \E kind \in {"lost", "closed"} : CaptureEnds(s, kind)
              \/ \E outcome \in {"SessionClosed", "SchedulerClosed"} :
                    CloseSession(s, outcome)
  BY <1>3, SameOrderly, TextOrderly
     DEF Publish, PublishBegin, PublishEnd, EnqueueTemplate, SourceEnds, CaptureEnds, CloseSession
<1>4. CASE \E q \in Texts :
              \/ \E outcome \in {"Cancelled", "DeadlineExceeded"} : Interrupt(q, outcome)
              \/ Cancel(q) \/ Sweep(q) \/ Expire(q) \/ RateElapses(q)
              \/ AfterTerminal(q) \/ CloseText(q)
  BY <1>4, TextOrderly
<1>5. CASE CloseScheduler \/ \E t \in Templates : EndTemplate(t) \/ CloseTemplate(t)
  BY <1>5, SameOrderly DEF CloseScheduler, EndTemplate, CloseTemplate
<1> QED BY <1>1, <1>2, <1>3, <1>4, <1>5 DEF Next

(* A worker changes no job but its own.                                    *)
LEMMA WorksAlone ==
    ASSUME DispatchInv, NEW v \in Workers, Work(v)
    PROVE  \A u \in Workers : u # v => job'[u] = job[u]
<1>1. job \in [Workers -> JobType]
  BY DEF DispatchInv, TypeOK
<1>2. CASE NextDispatch(v) \/ TakeTemplate(v) \/ MapReturns(v) \/ TakeNothing(v) \/ TemplateDone(v)
  <2>1. CASE NextDispatch(v)
    <3>1. PICK j : job' = [job EXCEPT ![v] = j]
      BY <2>1 DEF NextDispatch
    <3> QED BY <1>1, <3>1
  <2>2. CASE TakeTemplate(v) \/ MapReturns(v)
    BY <1>1, <2>2 DEF TakeTemplate, MapReturns
  <2>3. CASE TakeNothing(v) \/ TemplateDone(v)
    BY <1>1, <2>3 DEF TakeNothing, TemplateDone, Idle
  <2> QED BY <1>2, <2>1, <2>2, <2>3
<1>3. CASE Decide(v) \/ \E q \in Texts : Scan(v, q)
  BY <1>1, <1>3 DEF Scan, Decide, DecideStale, DecideLeased, DecideNoText, DecideTemplates,
          DecideDrain, DecideText, DecideNone, Idle, ToTemplates
<1>4. CASE ProcessText(v) \/ Prepare(v) \/ Compare(v) \/ AdmitText(v) \/ Execute(v)
  BY <1>1, <1>4 DEF ProcessText, Prepare, Compare, AdmitText, Execute, GoTo,
                    AdmitObsolete, AdmitSkip, AdmitAnalysis
<1>5. CASE CompleteAsk(v) \/ CompleteCommit(v) \/ Settle(v) \/ LeaveQuery(v)
           \/ LeaveScheduler(v) \/ LeaveSession(v)
  BY <1>1, <1>5 DEF CompleteAsk, CompleteCommit, Settle, LeaveQuery, LeaveScheduler,
                    LeaveSession, GoTo, Idle
<1> QED BY <1>2, <1>3, <1>4, <1>5 DEF Work

(* Whose step it is when a job changes.                                    *)
LEMMA JobMoves ==
    ASSUME DispatchInv, [Next]_vars, NEW w \in Workers, job'[w] # job[w]
    PROVE  Work(w)
<1>1. UNCHANGED job \/ \E v \in Workers : Work(v)
  BY DEF Next, vars, Publish, PublishBegin, PublishEnd, EnqueueTemplate, EnqueueText,
         SourceEnds, CaptureEnds, CloseSession, CloseScheduler, EndTemplate, CloseTemplate,
         Interrupt, Cancel, Sweep, Expire, RateElapses, AfterTerminal, CloseText
<1>2. PICK v \in Workers : Work(v)
  BY <1>1
<1> QED BY <1>2, WorksAlone

(* A worker leaves its commit only by committing, and takes a lease only   *)
(* by deciding.                                                            *)
LEMMA CommitsAlone ==
    ASSUME DispatchInv, [Next]_vars, NEW w \in Workers,
           job[w].stage = "committing", job'[w].stage # "committing"
    PROVE  CompleteCommit(w)
<1>1. Work(w) /\ job[w] # NoJob /\ job[w].stage = "committing"
  BY JobMoves DEF NoJob
<1> QED BY <1>1 DEF Work, NextDispatch, Decide, DecideStale, DecideLeased, DecideNoText,
         DecideTemplates, DecideDrain, DecideText, DecideNone, TextTurn, Scanned, Scan,
         TakeTemplate, TakeNothing, MapReturns, TemplateDone, ProcessText, Prepare,
         Compare, AdmitText, Execute, CompleteAsk, Settle, LeaveQuery, LeaveScheduler,
         LeaveSession

LEMMA ClaimsAlone ==
    ASSUME DispatchInv, [Next]_vars, NEW w \in Workers,
           job[w].stage = "scan", job'[w].stage = "claimed"
    PROVE  DecideText(w)
<1>1. Work(w) /\ job[w] # NoJob /\ job[w].stage = "scan" /\ job \in [Workers -> JobType]
  BY JobMoves DEF NoJob, DispatchInv, TypeOK
<1>2. Decide(w) \/ \E q \in Texts : Scan(w, q)
  BY <1>1 DEF Work, NextDispatch, TakeTemplate, TakeNothing, MapReturns, TemplateDone,
         ProcessText, Prepare, Compare, AdmitText, Execute, CompleteAsk, CompleteCommit,
         Settle, LeaveQuery, LeaveScheduler, LeaveSession
<1>3. ~ \E q \in Texts : Scan(w, q)
  <2>1. ASSUME NEW q \in Texts, Scan(w, q) PROVE FALSE
    <3>1. PICK a, b : job' = [job EXCEPT ![w].todo = a, ![w].seen = b]
      BY <1>1, <2>1 DEF Scan
    <3>2. job'[w].stage = job[w].stage
      BY <1>1, <3>1 DEF JobType
    <3> QED BY <1>1, <3>2
  <2> QED BY <2>1
<1>4. Decide(w)
  BY <1>2, <1>3
<1>5. ~(Idle(w) \/ ToTemplates(w))
  <2>1. ASSUME Idle(w) PROVE FALSE
    BY <1>1, <2>1 DEF Idle, NoJob
  <2>2. ASSUME ToTemplates(w) PROVE FALSE
    <3>1. job'[w].stage = "template"
      BY <1>1, <2>2, FreeJobs DEF ToTemplates, DispatchInv
    <3> QED BY <3>1
  <2> QED BY <2>1, <2>2
<1> QED BY <1>4, <1>5 DEF Decide, DecideStale, DecideLeased, DecideNoText,
                          DecideTemplates, DecideDrain, DecideNone

(* The end a query records is the one the documentation ranks first among  *)
(* those that stood when it was recorded, and what capture refused an      *)
(* answer stands (ocr_watch.rs, terminal_outcome and complete).            *)
THEOREM DispatchEndsInOrder == Spec => EndsInOrder
<1> DEFINE Ranked == \A q \in Texts : Live(q) /\ text'[q].terminal # None =>
                        Outranks(q, text'[q].terminal)
           Stands == \A w \in Workers :
                        /\ job[w].stage = "committing" /\ job'[w].stage # "committing"
                        /\ Current(w) /\ job[w].refusal \notin Yielding
                        /\ authority[Home[job[w].at]] = None /\ ~schedulerClosed
                        => text'[job[w].at].terminal = job[w].refusal
<1>1. DispatchInv /\ [Next]_vars => [Ranked]_vars
  BY NextOrderly DEF Orderly, Live
<1>2. DispatchInv /\ [Next]_vars => [Stands]_vars
  BY CommitsAlone, CommitOrderly
<1>3. TerminalPrecedence <=> [][Ranked]_vars
  BY DEF TerminalPrecedence, Outranks
<1>4. RefusalStands <=> [][Stands]_vars
  BY DEF RefusalStands
<1> HIDE DEF Ranked, Stands
<1>5. Spec => [][Ranked]_vars
  BY <1>1, DispatchInvariant, PTL DEF Spec
<1>6. Spec => [][Stands]_vars
  BY <1>2, DispatchInvariant, PTL DEF Spec
<1> QED BY <1>3, <1>4, <1>5, <1>6 DEF EndsInOrder

(* A query that takes the lease precedes every other it could have gone    *)
(* to, in the order of the cursors as they are and not as they were when   *)
(* the worker scanned (ocr_watch.rs, next_dispatch).                       *)
THEOREM DispatchTurnsRotate == Spec => TurnsRotate
<1> DEFINE Rotates ==
        \A w \in Workers : job[w].stage = "scan" /\ job'[w].stage = "claimed" =>
          \A x \in job[w].seen :
             Claimable(x) /\ x[1] # job'[w].at =>
                PrecedesBy(dispatch.cursor, textCursor, job'[w].at, x[1])
<1>1. DispatchInv /\ [Next]_vars => [Rotates]_vars
  <2> SUFFICES ASSUME DispatchInv, [Next]_vars, NEW w \in Workers,
                      job[w].stage = "scan", job'[w].stage = "claimed",
                      NEW y \in job[w].seen, Claimable(y), y[1] # job'[w].at
               PROVE  PrecedesBy(dispatch.cursor, textCursor, job'[w].at, y[1])
    OBVIOUS
  <2>1. DecideText(w) /\ job \in [Workers -> JobType]
    BY ClaimsAlone DEF DispatchInv, TypeOK
  <2>2. PICK x \in job[w].seen :
           /\ \A z \in job[w].seen \ {x} : Claimable(z) => Precedes(job[w], x[1], z[1])
           /\ job' = [job EXCEPT ![w] =
                [NoJob EXCEPT !.stage = "claimed", !.at = x[1], !.frame = x[2],
                              !.generation = text[x[1]].generation + 1]]
    BY <2>1 DEF DecideText
  <2>3. job'[w].at = x[1]
    BY <2>1, <2>2 DEF NoJob
  <2>4. Precedes(job[w], x[1], y[1])
    BY <2>2, <2>3
  <2>5. /\ dispatch.cursor = job[w].cursor
        /\ textCursor[Home[x[1]]] = job[w].cursors[Home[x[1]]]
    BY <2>1, <2>2 DEF DecideText, TextTurn, Stale
  <2> QED BY <2>3, <2>4, <2>5 DEF Precedes, PrecedesBy
<1>2. TurnsRotate <=> [][Rotates]_vars
  BY DEF TurnsRotate
<1> HIDE DEF Rotates
<1> QED BY <1>1, <1>2, DispatchInvariant, PTL DEF Spec

=============================================================================
