----------------------- MODULE MacosDiagnostics_proofs -----------------------
(***************************************************************************)
(* Proofs about the two parts of MCMacosDiagnostics: the diagnostic        *)
(* stream, for any number of producers and emitting threads, any capacity  *)
(* and any width of the counts, and the macOS capture session, for any     *)
(* number of threads that close it.                                        *)
(***************************************************************************)
EXTENDS MCMacosDiagnostics, FiniteSetTheorems, SequenceTheorems,
        WellFoundedInduction, TLAPS

Producing == {s \in Sinks : sink[s] \in {"live", "released"}}

(* The count of producers is exact, and once nobody is left nobody comes   *)
(* back: only a live sink is cloned.  What the seal does, it does then.    *)
ProducersInv ==
    /\ producers = Cardinality(Producing)
    /\ \A s \in Sinks :
           sink[s] \in {"last", "normal", "debug", "sealing"} => producers = 0
    /\ \A l \in AllLevels : fence[l] => producers = 0
    /\ \A l \in AllLevels : late[l] > 0 => producers = 0

(* Drain, seal and emit exclude each other.                                *)
LockInv ==
    /\ reader # "idle" => lock = Reader
    /\ \A s \in Sinks : sink[s] \in {"normal", "debug", "sealing"} => lock = s
    /\ \A t \in Emitters : emitter[t] = "locked" => lock = t

(* Both fences are up before the flag is.                                  *)
FenceInv ==
    /\ \A s \in Sinks :
           /\ sink[s] \in {"debug", "sealing"} => fence["normal"]
           /\ sink[s] = "sealing" => fence["debug"]
    /\ sealed => \A l \in AllLevels : fence[l]

(* A drain takes from a word only what it has not taken yet.               *)
TakenInv ==
    /\ reader \in {"idle", "normal"} => taken["normal"] = 0
    /\ reader # "commit" => taken["debug"] = 0

(* Behind the fences a word that was taken stays empty, so that a drain    *)
(* that finds the seal leaves nothing behind.                              *)
FinalInv ==
    /\ sealed =>
          /\ reader \in {"debug", "commit"} => pending["normal"] = 0
          /\ reader = "commit" => pending["debug"] = 0
    /\ final =>
          /\ sealed /\ records = <<>>
          /\ \A l \in AllLevels :
                losses[l] = 0 /\ pending[l] = 0 /\ taken[l] = 0

ProtocolInv == LockInv /\ FenceInv /\ TakenInv /\ FinalInv

(* Where the emissions of a level are that their producers are done with.  *)
Told(l) ==
    reported[l] + Count(records, l) + losses[l] + taken[l] + pending[l]
        + late[l] + uncounted[l]

EmittedInv ==
    \A l \in AllLevels : emitted[l] = Told(l) + Cardinality(InHand(l))

DiagInv == TypeOK /\ ProducersInv /\ ProtocolInv /\ EmittedInv

-----------------------------------------------------------------------------
(* Counting the records of a level.                                        *)

One(l, m) == IF l = m THEN 1 ELSE 0

(* One more on one side of a long sum is one more of the sum.              *)
LEMMA SumGrows ==
    ASSUME NEW a \in Nat, NEW b \in Nat, NEW c \in Nat, NEW d \in Nat, NEW e \in Nat,
           NEW x \in Nat, NEW y \in Nat, NEW p \in Nat, NEW q \in Nat, NEW o \in Nat,
           p + q = x + y + o
    PROVE  a + p + q + b + c + d + e = (a + x + y + b + c + d + e) + o
OBVIOUS

LEMMA SumGrowsLast ==
    ASSUME NEW a \in Nat, NEW b \in Nat, NEW c \in Nat, NEW d \in Nat,
           NEW x \in Nat, NEW y \in Nat, NEW z \in Nat,
           NEW p \in Nat, NEW q \in Nat, NEW r \in Nat, NEW o \in Nat,
           p + q + r = x + y + z + o
    PROVE  a + b + c + d + p + q + r = (a + b + c + d + x + y + z) + o
OBVIOUS

(* Adding one to the count of a level.                                     *)
LEMMA Added ==
    ASSUME NEW count \in Counts, NEW m \in AllLevels
    PROVE  /\ AddOne(count, m) \in Counts
           /\ \A l \in AllLevels : AddOne(count, m)[l] = count[l] + One(l, m)
BY DEF AddOne, Counts, One

(* The places of the records of a level.                                   *)
Places(rs, l) == {i \in DOMAIN rs : rs[i].level = l}

(* They are finitely many.                                                 *)
LEMMA CountType ==
    ASSUME NEW rs \in Seq(Records), NEW l
    PROVE  /\ IsFiniteSet(Places(rs, l)) /\ Count(rs, l) \in Nat
           /\ Count(rs, l) = Cardinality(Places(rs, l))
<1>1. DOMAIN rs = 1..Len(rs) /\ Len(rs) \in Int /\ 1 \in Int
  OBVIOUS
<1>2. IsFiniteSet(1..Len(rs))
  BY <1>1, FS_Interval
<1>3. IsFiniteSet(Places(rs, l))
  BY <1>1, <1>2, FS_Subset DEF Places
<1> QED BY <1>3, FS_CardinalityType DEF Count, Places

(* A record that is appended counts once, for its level.                   *)
LEMMA CountAppend ==
    ASSUME NEW rs \in Seq(Records), NEW r \in Records, NEW l
    PROVE  Count(Append(rs, r), l) = Count(rs, l) + One(l, r.level)
<1> DEFINE all == Append(rs, r)
           n == Len(rs) + 1
<1>1. /\ all \in Seq(Records) /\ DOMAIN all = 1..n /\ DOMAIN rs = 1..Len(rs)
      /\ Len(rs) \in Nat /\ all[n] = r /\ \A i \in 1..Len(rs) : all[i] = rs[i]
  OBVIOUS
<1>2. n \notin Places(rs, l)
  BY <1>1 DEF Places
<1>3. CASE r.level = l
  <2>1. Places(all, l) = Places(rs, l) \cup {n}
    BY <1>1, <1>3 DEF Places
  <2>2. Cardinality(Places(all, l)) = Cardinality(Places(rs, l)) + 1
    BY <1>2, <2>1, CountType, FS_AddElement
  <2> QED BY <1>1, <1>3, <2>2, CountType DEF One
<1>4. CASE r.level # l
  <2>1. Places(all, l) = Places(rs, l)
    BY <1>1, <1>4 DEF Places
  <2>2. Count(all, l) = Count(rs, l) /\ Count(rs, l) \in Nat
    BY <2>1, <1>1, CountType DEF Count, Places
  <2>3. One(l, r.level) = 0
    BY <1>4 DEF One
  <2> QED BY <2>2, <2>3
<1> QED BY <1>3, <1>4

(* So does one that is removed.                                            *)
LEMMA CountRemove ==
    ASSUME NEW rs \in Seq(Records), NEW i \in 1..Len(rs), NEW l
    PROVE  /\ RemoveAt(rs, i) \in Seq(Records)
           /\ Len(RemoveAt(rs, i)) = Len(rs) - 1
           /\ Count(rs, l) = Count(RemoveAt(rs, i), l) + One(l, rs[i].level)
<1> DEFINE rest == RemoveAt(rs, i)
           back(j) == IF j < i THEN j ELSE j + 1
<1>1. /\ Len(rs) \in Nat /\ i \in Nat /\ 1 <= i /\ i <= Len(rs)
      /\ DOMAIN rs = 1..Len(rs)
  OBVIOUS
<1>2. /\ SubSeq(rs, 1, i - 1) \in Seq(Records)
      /\ Len(SubSeq(rs, 1, i - 1)) = i - 1
      /\ \A j \in 1..(i - 1) : SubSeq(rs, 1, i - 1)[j] = rs[j]
  BY <1>1
<1>3. /\ SubSeq(rs, i + 1, Len(rs)) \in Seq(Records)
      /\ Len(SubSeq(rs, i + 1, Len(rs))) = Len(rs) - i
      /\ \A j \in 1..(Len(rs) - i) : SubSeq(rs, i + 1, Len(rs))[j] = rs[i + j]
  <2>1. i + 1 \in Int /\ Len(rs) \in Int
        /\ \A k \in (i + 1)..Len(rs) : rs[k] \in Records
    BY <1>1
  <2>2. /\ SubSeq(rs, i + 1, Len(rs)) \in Seq(Records)
        /\ Len(SubSeq(rs, i + 1, Len(rs))) =
               IF i + 1 <= Len(rs) THEN Len(rs) - (i + 1) + 1 ELSE 0
        /\ \A j \in 1..(Len(rs) - (i + 1) + 1) :
               SubSeq(rs, i + 1, Len(rs))[j] = rs[(i + 1) + j - 1]
    BY <2>1, SubSeqProperties
  <2>3. /\ Len(rs) - (i + 1) + 1 = Len(rs) - i
        /\ \A j \in 1..(Len(rs) - i) : (i + 1) + j - 1 = i + j
    BY <1>1
  <2>4. Len(SubSeq(rs, i + 1, Len(rs))) = Len(rs) - i
    <3>1. \A a, b \in Nat : b <= a =>
             (IF b + 1 <= a THEN a - (b + 1) + 1 ELSE 0) = a - b
      OBVIOUS
    <3> QED BY <1>1, <2>2, <3>1
  <2>5. ASSUME NEW j \in 1..(Len(rs) - i)
        PROVE  SubSeq(rs, i + 1, Len(rs))[j] = rs[i + j]
    BY <2>2, <2>3
  <2> QED BY <2>2, <2>4, <2>5
<1>4. /\ rest \in Seq(Records) /\ Len(rest) = Len(rs) - 1
      /\ DOMAIN rest = 1..(Len(rs) - 1)
      /\ \A j \in 1..(Len(rs) - 1) : rest[j] = rs[back(j)]
  <2> DEFINE a == SubSeq(rs, 1, i - 1)
             b == SubSeq(rs, i + 1, Len(rs))
  <2>1. rest = a \o b
    BY DEF RemoveAt
  <2>2. /\ a \in Seq(Records) /\ b \in Seq(Records)
        /\ Len(a) = i - 1 /\ Len(b) = Len(rs) - i
        /\ \A j \in 1..(i - 1) : a[j] = rs[j]
        /\ \A j \in 1..(Len(rs) - i) : b[j] = rs[i + j]
    BY <1>2, <1>3
  <2> HIDE DEF a, b, rest
  <2>3. /\ rest \in Seq(Records) /\ Len(rest) = Len(rs) - 1
        /\ DOMAIN rest = 1..(Len(rs) - 1)
    <3>1. rest \in Seq(Records) /\ Len(rest) = Len(a) + Len(b)
      BY <2>1, <2>2, ConcatProperties
    <3>2. Len(rest) = Len(rs) - 1
      BY <1>1, <2>2, <3>1
    <3> QED BY <3>1, <3>2
  <2>4. ASSUME NEW j \in 1..(Len(rs) - 1) PROVE rest[j] = rs[back(j)]
    <3>1. CASE j < i
      <4>1. rest[j] = a[j] /\ j \in 1..(i - 1)
        BY <1>1, <2>1, <2>2, <2>4, <3>1
      <4> QED BY <2>2, <3>1, <4>1
    <3>2. CASE ~(j < i)
      <4>1. rest[j] = b[j - (i - 1)] /\ j - (i - 1) \in 1..(Len(rs) - i)
        BY <1>1, <2>1, <2>2, <2>4, <3>2
      <4>2. i + (j - (i - 1)) = j + 1
        BY <1>1, <2>4
      <4> QED BY <2>2, <3>2, <4>1, <4>2
    <3> QED BY <3>1, <3>2
  <2> QED BY <2>3, <2>4
<1> HIDE DEF rest
<1> DEFINE S == Places(rest, l)
           T == Places(rs, l) \ {i}
           f == [j \in S |-> back(j)]
<1>5. ExistsBijection(S, T)
  <2>1. \A j \in S : /\ j \in Nat /\ 1 <= j /\ j <= Len(rs) - 1
                     /\ rest[j] = rs[back(j)] /\ rest[j].level = l
    BY <1>1, <1>4 DEF Places
  <2>2. \A j \in S : back(j) \in T
    BY <1>1, <2>1 DEF Places
  <2>3. f \in [S -> T]
    BY <2>2
  <2>4. \A j, k \in S : f[j] = f[k] => j = k
    BY <1>1, <2>1
  <2>5. ASSUME NEW k \in T PROVE \E j \in S : f[j] = k
    <3>1. k \in 1..Len(rs) /\ k # i /\ rs[k].level = l
      BY <1>1 DEF Places
    <3>2. CASE k < i
      <4>1. k \in 1..(Len(rs) - 1) /\ back(k) = k
        BY <1>1, <3>1, <3>2
      <4>2. k \in S
        BY <4>1, <1>4, <3>1 DEF Places
      <4> QED BY <4>1, <4>2
    <3>3. CASE k > i
      <4>1. k - 1 \in 1..(Len(rs) - 1) /\ back(k - 1) = k
        BY <1>1, <3>1, <3>3
      <4>2. k - 1 \in S
        BY <4>1, <1>4, <3>1 DEF Places
      <4> QED BY <4>1, <4>2
    <3> QED BY <1>1, <3>1, <3>2, <3>3
  <2>6. f \in Bijection(S, T)
    BY <2>3, <2>4, <2>5 DEF Bijection, Injection, Surjection, IsInjective
  <2> QED BY <2>6 DEF ExistsBijection
<1>6. IsFiniteSet(S) /\ Cardinality(T) = Cardinality(S)
  BY <1>4, <1>5, CountType, FS_Bijection
<1> HIDE DEF S, T
<1>7. IsFiniteSet(Places(rs, l)) /\ Cardinality(Places(rs, l)) =
          Cardinality(T) + One(l, rs[i].level)
  <2>1. IsFiniteSet(Places(rs, l)) /\ Cardinality(Places(rs, l)) \in Nat
    BY CountType, FS_CardinalityType
  <2>2. i \in Places(rs, l) <=> l = rs[i].level
    BY <1>1 DEF Places
  <2>3. Cardinality(T) = IF i \in Places(rs, l) THEN Cardinality(Places(rs, l)) - 1
                         ELSE Cardinality(Places(rs, l))
    BY <2>1, FS_RemoveElement DEF T
  <2>4. One(l, rs[i].level) = IF i \in Places(rs, l) THEN 1 ELSE 0
    BY <2>2 DEF One
  <2> QED BY <2>1, <2>3, <2>4
<1>8. Count(rs, l) = Cardinality(Places(rs, l)) /\ Count(rest, l) = Cardinality(S)
  BY <1>4, CountType DEF S
<1> QED BY <1>4, <1>6, <1>7, <1>8 DEF rest

(* The record that makes room is one of the retained ones, if any is.      *)
LEMMA EvictedPlace ==
    ASSUME TypeOK, NEW m \in AllLevels, Len(records) >= Capacity, Evicted(m) # 0
    PROVE  Evicted(m) \in 1..Len(records)
<1> DEFINE debug == {i \in DOMAIN records : records[i].level = "debug"}
<1>1. /\ DOMAIN records = 1..Len(records) /\ Len(records) \in Nat
      /\ 1 <= Len(records) /\ debug \subseteq Nat
  BY DiagnosticAssumption DEF TypeOK
<1>2. CASE debug # {}
  <2>1. PICK i \in debug : \A j \in debug : ~(<<j, i>> \in OpToRel(<, Nat))
    BY <1>1, <1>2, NatLessThanWellFounded, WFMin
  <2>2. \A j \in debug : i <= j
    <3>1. SUFFICES ASSUME NEW j \in debug PROVE ~(j < i)
      BY <1>1
    <3>2. <<j, i>> \in Nat \X Nat /\ <<j, i>>[1] = j /\ <<j, i>>[2] = i
      BY <1>1
    <3>3. ~(<<j, i>>[1] < <<j, i>>[2])
      BY <2>1, <3>2 DEF OpToRel
    <3> QED BY <3>2, <3>3
  <2>3. (CHOOSE k \in debug : \A j \in debug : k <= j) \in debug
    BY <2>2
  <2> QED BY <1>1, <1>2, <2>3 DEF Evicted
<1>3. CASE debug = {}
  BY <1>1, <1>3 DEF Evicted
<1> QED BY <1>2, <1>3

(* A record is retained or counted as lost, and nothing else changes for   *)
(* the reader.                                                             *)
LEMMA PushedBack ==
    ASSUME NEW rs \in Seq(Records), NEW lost \in Counts, next \in Nat,
           NEW m \in AllLevels, PushBack(rs, lost, m)
    PROVE  /\ records' \in Seq(Records) /\ Len(records') <= Len(rs) + 1
           /\ losses' \in Counts /\ next' \in Nat
           /\ \A l \in AllLevels :
                  Count(records', l) + losses'[l] =
                      Count(rs, l) + lost[l] + One(l, m)
<1>1. CASE next = 0
  <2>1. records' = rs /\ losses' = AddOne(lost, m) /\ next' = next
    BY <1>1 DEF PushBack
  <2>2. ASSUME NEW l \in AllLevels
        PROVE  Count(rs, l) + AddOne(lost, m)[l] = Count(rs, l) + lost[l] + One(l, m)
    <3>1. AddOne(lost, m)[l] = lost[l] + One(l, m) /\ lost[l] \in Nat /\ One(l, m) \in Nat
      BY DEF AddOne, Counts, One
    <3>2. Count(rs, l) \in Nat
      BY CountType
    <3> QED BY <3>1, <3>2
  <2>3. AddOne(lost, m) \in Counts /\ Len(rs) \in Nat
    BY DEF AddOne, Counts
  <2> QED BY <2>1, <2>2, <2>3
<1>2. CASE next # 0
  <2> DEFINE r == [level |-> m, seq |-> next]
  <2>1. r \in Records
    BY <1>2 DEF Records
  <2>2. records' = Append(rs, r) /\ losses' = lost /\ next' \in Nat
    BY <1>2 DEF PushBack
  <2>3. ASSUME NEW l \in AllLevels
        PROVE  Count(Append(rs, r), l) + lost[l] = Count(rs, l) + lost[l] + One(l, m)
    <3>1. Count(Append(rs, r), l) = Count(rs, l) + One(l, m)
      BY <2>1, CountAppend
    <3>2. Count(rs, l) \in Nat /\ lost[l] \in Nat /\ One(l, m) \in Nat
      BY CountType DEF Counts, One
    <3> QED BY <3>1, <3>2
  <2>4. Append(rs, r) \in Seq(Records) /\ Len(Append(rs, r)) = Len(rs) + 1
        /\ Len(rs) \in Nat
    BY <2>1
  <2> QED BY <2>2, <2>3, <2>4
<1> QED BY <1>1, <1>2

(* A record emitted on an open stream counts once for its level, whatever  *)
(* makes room for it.                                                      *)
LEMMA Retained ==
    ASSUME TypeOK, NEW m \in AllLevels, Retain(m)
    PROVE  /\ records' \in Seq(Records) /\ Len(records') <= Capacity
           /\ losses' \in Counts /\ next' \in Nat
           /\ \A l \in AllLevels :
                  Count(records', l) + losses'[l] =
                      Count(records, l) + losses[l] + One(l, m)
<1>1. /\ records \in Seq(Records) /\ Len(records) \in Nat /\ Len(records) <= Capacity
      /\ losses \in Counts /\ next \in Nat /\ Capacity \in Nat
  BY DiagnosticAssumption DEF TypeOK
<1>2. CASE Len(records) < Capacity
  <2>1. PushBack(records, losses, m)
    BY <1>2 DEF Retain
  <2>2. /\ records' \in Seq(Records) /\ Len(records') <= Len(records) + 1
        /\ losses' \in Counts /\ next' \in Nat
        /\ \A l \in AllLevels :
                  Count(records', l) + losses'[l] =
                      Count(records, l) + losses[l] + One(l, m)
    BY <1>1, <2>1, PushedBack
  <2>3. Len(records') <= Capacity
    BY <1>1, <1>2, <2>2
  <2> QED BY <2>2, <2>3
<1>3. CASE Len(records) >= Capacity /\ Evicted(m) = 0
  <2>1. records' = records /\ next' = next /\ losses' = AddOne(losses, m)
    BY <1>1, <1>3 DEF Retain
  <2>2. ASSUME NEW l \in AllLevels
        PROVE  Count(records, l) + AddOne(losses, m)[l] =
                  Count(records, l) + losses[l] + One(l, m)
    <3>1. /\ AddOne(losses, m)[l] = losses[l] + One(l, m)
          /\ losses[l] \in Nat /\ One(l, m) \in Nat
      BY <1>1 DEF AddOne, Counts, One
    <3>2. Count(records, l) \in Nat
      BY <1>1, CountType
    <3> QED BY <3>1, <3>2
  <2>3. AddOne(losses, m) \in Counts
    BY <1>1 DEF AddOne, Counts
  <2> QED BY <1>1, <2>1, <2>2, <2>3
<1>4. CASE Len(records) >= Capacity /\ Evicted(m) # 0
  <2> DEFINE i == Evicted(m)
             e == records[i].level
             rs == RemoveAt(records, i)
             lost == AddOne(losses, e)
  <2>1. i \in 1..Len(records)
    BY <1>4, EvictedPlace
  <2>2. PushBack(rs, lost, m)
    BY <1>1, <1>4 DEF Retain
  <2>3. e \in AllLevels
    <3>1. records[i] \in Records
      BY <1>1, <2>1
    <3> QED BY <3>1 DEF Records
  <2> HIDE DEF i, e
  <2>4. /\ rs \in Seq(Records) /\ Len(rs) = Len(records) - 1
        /\ \A l \in AllLevels : Count(records, l) = Count(rs, l) + One(l, e)
    BY <1>1, <2>1, CountRemove DEF e
  <2>5. /\ lost \in Counts
        /\ \A l \in AllLevels : lost[l] = losses[l] + One(l, e)
    BY <1>1, <2>3 DEF AddOne, Counts, One
  <2> HIDE DEF rs, lost
  <2>6. /\ records' \in Seq(Records) /\ Len(records') <= Len(rs) + 1
        /\ losses' \in Counts /\ next' \in Nat
        /\ \A l \in AllLevels :
                  Count(records', l) + losses'[l] = Count(rs, l) + lost[l] + One(l, m)
    BY <1>1, <2>2, <2>4, <2>5, PushedBack
  <2>7. ASSUME NEW l \in AllLevels
        PROVE  Count(rs, l) + lost[l] = Count(records, l) + losses[l]
    <3>1. Count(rs, l) \in Nat /\ losses[l] \in Nat /\ One(l, e) \in Nat
      BY <1>1, <2>4, CountType DEF Counts, One
    <3> QED BY <2>4, <2>5, <3>1
  <2>8. Len(records') <= Capacity
    BY <1>1, <2>4, <2>6
  <2> QED BY <2>6, <2>7, <2>8
<1> QED BY <1>1, <1>2, <1>3, <1>4

(* An emitter that begins has one more emission of its level in hand.      *)
LEMMA HandTaken ==
    ASSUME TypeOK, NEW t \in Emitters, NEW to, to # "idle", NEW m \in AllLevels,
           Step(t, "idle", to), level' = [level EXCEPT ![t] = m]
    PROVE  \A l \in AllLevels :
              /\ Cardinality(InHand(l)') \in Nat
              /\ Cardinality(InHand(l)') = Cardinality(InHand(l)) + One(l, m)
<1> SUFFICES ASSUME NEW l \in AllLevels
             PROVE  /\ Cardinality(InHand(l)') \in Nat
                    /\ Cardinality(InHand(l)') = Cardinality(InHand(l)) + One(l, m)
  OBVIOUS
<1>1. IsFiniteSet(InHand(l)) /\ Cardinality(InHand(l)) \in Nat
  BY DiagnosticAssumption, FS_Subset, FS_CardinalityType DEF InHand
<1>2. t \notin InHand(l)
  BY DEF InHand, Step
<1>3. InHand(l)' = IF l = m THEN InHand(l) \cup {t} ELSE InHand(l)
  BY DEF InHand, Step, TypeOK
<1>4. IsFiniteSet(InHand(l)')
  BY <1>1, <1>3, FS_AddElement
<1>5. Cardinality(InHand(l)') \in Nat
  BY <1>4, FS_CardinalityType
<1>6. CASE l = m
  BY <1>1, <1>2, <1>3, <1>5, <1>6, FS_AddElement DEF One
<1>7. CASE l # m
  BY <1>1, <1>3, <1>5, <1>7 DEF One
<1> QED BY <1>6, <1>7

(* One that returns has one less.                                          *)
LEMMA HandGiven ==
    ASSUME TypeOK, NEW t \in Emitters, NEW from, from # "idle",
           Step(t, from, "idle")
    PROVE  \A l \in AllLevels : level' = [level EXCEPT ![t] = "normal"] =>
              /\ Cardinality(InHand(l)') \in Nat
              /\ Cardinality(InHand(l)) = Cardinality(InHand(l)') + One(l, level[t])
<1> SUFFICES ASSUME NEW l \in AllLevels, level' = [level EXCEPT ![t] = "normal"]
             PROVE  /\ Cardinality(InHand(l)') \in Nat
                    /\ Cardinality(InHand(l)) = Cardinality(InHand(l)') + One(l, level[t])
  OBVIOUS
<1>1. IsFiniteSet(InHand(l)) /\ Cardinality(InHand(l)) \in Nat
  BY DiagnosticAssumption, FS_Subset, FS_CardinalityType DEF InHand
<1>2. t \in InHand(l) <=> l = level[t]
  BY DEF InHand, Step
<1>3. InHand(l)' = InHand(l) \ {t}
  BY DEF InHand, Step, TypeOK
<1>4. Cardinality(InHand(l)') = IF t \in InHand(l) THEN Cardinality(InHand(l)) - 1
                                ELSE Cardinality(InHand(l))
  BY <1>1, <1>3, FS_RemoveElement
<1>5. One(l, level[t]) = IF t \in InHand(l) THEN 1 ELSE 0
  BY <1>2 DEF One
<1>6. Cardinality(InHand(l)') \in Nat
  BY <1>1, <1>3, FS_RemoveElement, FS_CardinalityType
<1> QED BY <1>1, <1>4, <1>5, <1>6

-----------------------------------------------------------------------------
(* Each step preserves each part of the invariant.                         *)

(* Every step keeps the types of the variables.                            *)
LEMMA TypeStep ==
    ASSUME DiagInv, [Next]_vars
    PROVE  TypeOK'
<1> USE DEF DiagInv
<1>1. ASSUME NEW t \in Emitters, TryLock(t) PROVE TypeOK'
  BY <1>1 DEF TryLock, Step, TypeOK, Counts, AddOne, state, words, history,
     vars, AllLevels
<1>2. ASSUME NEW t \in Emitters, Emit(t) PROVE TypeOK'
  <2>1. UNCHANGED <<sealed, words, producers, sink, reader, taken, emitted,
                    reported, uncounted, final>>
        /\ lock' = None
        /\ emitter' = [emitter EXCEPT ![t] = "idle"]
        /\ level' = [level EXCEPT ![t] = "normal"]
    BY <1>2 DEF Emit, Step
  <2>2. /\ records' \in Seq(Records) /\ Len(records') <= Capacity
        /\ losses' \in Counts /\ next' \in Nat /\ late' \in Counts
    <3>1. CASE sealed
      <4>1. UNCHANGED <<records, losses, next>> /\ late' = AddOne(late, level[t])
        BY <1>2, <3>1 DEF Emit
      <4>2. AddOne(late, level[t]) \in Counts
        BY DEF TypeOK, Counts, AddOne
      <4> QED BY <4>1, <4>2 DEF TypeOK
    <3>2. CASE ~sealed
      <4>1. Retain(level[t]) /\ late' = late /\ level[t] \in AllLevels
        BY <1>2, <3>2 DEF Emit, TypeOK
      <4> QED BY <4>1, Retained DEF TypeOK
    <3> QED BY <3>1, <3>2
  <2>3. /\ emitter' \in [Emitters -> {"idle", "offering", "locked", "counting"}]
        /\ level' \in [Emitters -> AllLevels]
    BY <2>1 DEF TypeOK, AllLevels
  <2> QED BY <2>1, <2>2, <2>3 DEF TypeOK, words
<1>3. ASSUME NEW t \in Emitters, CountLoss(t) PROVE TypeOK'
  <2>1. level[t] \in AllLevels
    BY DEF TypeOK
  <2>2. /\ pending' \in Counts /\ late' \in Counts /\ uncounted' \in Counts
    <3>1. pending \in Counts /\ late \in Counts /\ uncounted \in Counts
      BY DEF TypeOK
    <3> QED BY <1>3, <2>1, <3>1, Added DEF CountLoss
  <2>3. /\ emitter' \in [Emitters -> {"idle", "offering", "locked", "counting"}]
        /\ level' \in [Emitters -> AllLevels]
    BY <1>3 DEF CountLoss, Step, TypeOK, AllLevels
  <2> QED BY <1>3, <2>2, <2>3 DEF CountLoss, TypeOK, state
<1>4. ASSUME NEW t \in Emitters, Discard(t) PROVE TypeOK'
  <2>1. emitted' \in Counts
    <3>1. emitted \in Counts /\ "normal" \in AllLevels
      BY DEF TypeOK, AllLevels
    <3> QED BY <1>4, <3>1, Added DEF Discard, Emits
  <2>2. /\ emitter' \in [Emitters -> {"idle", "offering", "locked", "counting"}]
        /\ level' \in [Emitters -> AllLevels]
    BY <1>4 DEF Discard, Emits, Step, TypeOK, AllLevels
  <2> QED BY <1>4, <2>1, <2>2 DEF Discard, Emits, TypeOK, state, words
<1>5. ASSUME NEW t \in Emitters, NEW l \in AllLevels, Offer(t, l) PROVE TypeOK'
  <2>1. emitted' \in Counts
    <3>1. emitted \in Counts /\ l \in AllLevels
      BY DEF TypeOK, AllLevels
    <3> QED BY <1>5, <3>1, Added DEF Offer, Emits
  <2>2. /\ emitter' \in [Emitters -> {"idle", "offering", "locked", "counting"}]
        /\ level' \in [Emitters -> AllLevels]
    BY <1>5 DEF Offer, Emits, Step, TypeOK, AllLevels
  <2> QED BY <1>5, <2>1, <2>2 DEF Offer, Emits, TypeOK, state, words
<1>6. ASSUME NEW s \in Sinks, Clone(s) PROVE TypeOK'
  BY <1>6 DEF Clone, SinkStep, TypeOK, Counts, AddOne, state, words, history,
     vars, AllLevels
<1>7. ASSUME NEW s \in Sinks, Release(s) PROVE TypeOK'
  BY <1>7 DEF Release, SinkStep, TypeOK, Counts, AddOne, state, words,
     history, vars, AllLevels
<1>8. ASSUME NEW s \in Sinks, Subtract(s) PROVE TypeOK'
  <2>1. producers \in Nat \ {0}
    <3>1. s \in Producing /\ IsFiniteSet(Producing)
      BY <1>8, DiagnosticAssumption, FS_Subset DEF Subtract, SinkStep, Producing
    <3>2. Cardinality(Producing) # 0
      BY <3>1, FS_EmptySet
    <3> QED BY <3>2 DEF ProducersInv, TypeOK
  <2>2. producers - 1 \in Nat
    BY <2>1
  <2> QED BY <1>8, <2>2 DEF Subtract, SinkStep, TypeOK, state, words, history, vars
<1>9. ASSUME NEW s \in Sinks, SealLock(s) PROVE TypeOK'
  BY <1>9 DEF SealLock, SinkStep, TypeOK, Counts, AddOne, state, words,
     history, vars, AllLevels
<1>10. ASSUME NEW s \in Sinks, SealNormal(s) PROVE TypeOK'
  BY <1>10 DEF SealNormal, SinkStep, TypeOK, Counts, AddOne, state, words,
     history, vars, AllLevels
<1>11. ASSUME NEW s \in Sinks, SealDebug(s) PROVE TypeOK'
  BY <1>11 DEF SealDebug, SinkStep, TypeOK, Counts, AddOne, state, words,
     history, vars, AllLevels
<1>12. ASSUME NEW s \in Sinks, SealFlag(s) PROVE TypeOK'
  BY <1>12 DEF SealFlag, SinkStep, TypeOK, Counts, AddOne, state, words,
     history, vars, AllLevels
<1>13. ASSUME DrainLock PROVE TypeOK'
  BY <1>13 DEF DrainLock, ReaderStep, TypeOK, Counts, AddOne, state, words,
     history, vars, AllLevels
<1>14. ASSUME DrainNormal PROVE TypeOK'
  BY <1>14 DEF DrainNormal, ReaderStep, Take, TypeOK, Counts, AddOne, state,
     words, history, vars, AllLevels
<1>15. ASSUME DrainDebug PROVE TypeOK'
  BY <1>15 DEF DrainDebug, ReaderStep, Take, TypeOK, Counts, AddOne, state,
     words, history, vars, AllLevels
<1>16. ASSUME DrainCommit PROVE TypeOK'
  <2>1. \A l \in AllLevels : Count(records, l) \in Nat
    BY CountType DEF TypeOK
  <2>2. reported' \in Counts
    <3>1. \A l \in AllLevels : reported[l] \in Nat /\ losses[l] \in Nat /\ taken[l] \in Nat
      BY DEF TypeOK, Counts
    <3>2. \A l \in AllLevels : reported[l] + Count(records, l) + Lost(l) \in Nat
      BY <2>1, <3>1 DEF Lost
    <3>3. reported' = [l \in AllLevels |-> reported[l] + Count(records, l) + Lost(l)]
      BY <1>16 DEF DrainCommit
    <3> QED BY <3>2, <3>3 DEF Counts
  <2>3. losses' \in Counts /\ taken' \in Counts
    BY <1>16 DEF DrainCommit, Zero, Counts
  <2>4. records' \in Seq(Records) /\ Len(records') <= Capacity
    BY <1>16, DiagnosticAssumption DEF DrainCommit
  <2> QED BY <1>16, <2>2, <2>3, <2>4 DEF DrainCommit, ReaderStep, TypeOK
<1>17. CASE UNCHANGED vars
  BY <1>17 DEF TypeOK, Counts, AddOne, state, words, history, vars, AllLevels
<1> QED
  BY <1>1, <1>2, <1>3, <1>4, <1>5, <1>6, <1>7, <1>8, <1>9, <1>10, <1>11,
     <1>12, <1>13, <1>14, <1>15, <1>16, <1>17 DEF Next, Produce, Seal, Drain

(* Every step keeps the count of producers and what waits for the last.   *)
LEMMA ProducersStep ==
    ASSUME DiagInv, [Next]_vars
    PROVE  ProducersInv'
<1> USE DEF DiagInv
<1>1. ASSUME NEW t \in Emitters, TryLock(t) PROVE ProducersInv'
  <2>1. UNCHANGED <<sink, producers, fence, late>>
    BY <1>1 DEF TryLock, Step, state, words, history
  <2>2. Producing' = Producing
    BY <2>1 DEF Producing
  <2> QED BY <2>1, <2>2 DEF ProducersInv
<1>2. ASSUME NEW t \in Emitters, Emit(t) PROVE ProducersInv'
  <2>1. UNCHANGED <<sink, producers, fence>>
    BY <1>2 DEF Emit, words
  <2>2. Producing' = Producing
    BY <2>1 DEF Producing
  <2>3. \A l \in AllLevels : late'[l] > 0 => producers = 0
    <3>1. CASE sealed
      BY <1>2, <3>1, <2>1 DEF Emit, ProducersInv, ProtocolInv, FenceInv, AllLevels
    <3>2. CASE ~sealed
      BY <1>2, <3>2 DEF Emit, ProducersInv
    <3> QED BY <3>1, <3>2
  <2> QED BY <2>1, <2>2, <2>3 DEF ProducersInv
<1>3. ASSUME NEW t \in Emitters, CountLoss(t) PROVE ProducersInv'
  <2>1. UNCHANGED <<sink, producers, fence>>
    BY <1>3 DEF CountLoss
  <2>2. Producing' = Producing
    BY <2>1 DEF Producing
  <2>3. \A l \in AllLevels : late'[l] > 0 => producers = 0
    <3>1. CASE fence[level[t]]
      BY <1>3, <3>1 DEF CountLoss, ProducersInv, TypeOK
    <3>2. CASE ~fence[level[t]]
      BY <1>3, <3>2 DEF CountLoss, ProducersInv
    <3> QED BY <3>1, <3>2
  <2> QED BY <2>1, <2>2, <2>3 DEF ProducersInv
<1>4. ASSUME NEW t \in Emitters, Discard(t) PROVE ProducersInv'
  <2>1. UNCHANGED <<sink, producers, fence, late>>
    BY <1>4 DEF Discard, Step, Emits, state, words, history
  <2>2. Producing' = Producing
    BY <2>1 DEF Producing
  <2> QED BY <2>1, <2>2 DEF ProducersInv
<1>5. ASSUME NEW t \in Emitters, NEW l \in AllLevels, Offer(t, l) PROVE ProducersInv'
  <2>1. UNCHANGED <<sink, producers, fence, late>>
    BY <1>5 DEF Offer, Step, Emits, state, words, history
  <2>2. Producing' = Producing
    BY <2>1 DEF Producing
  <2> QED BY <2>1, <2>2 DEF ProducersInv
<1>6. ASSUME NEW s \in Sinks, Clone(s) PROVE ProducersInv'
  <2>1. IsFiniteSet(Producing) /\ producers = Cardinality(Producing)
    BY DiagnosticAssumption, FS_Subset DEF Producing, ProducersInv
  <2>2. producers # 0
    <3>1. PICK other \in Sinks : sink[other] = "live"
      BY <1>6 DEF Clone
    <3>2. other \in Producing
      BY <3>1 DEF Producing
    <3> QED BY <2>1, <3>2, FS_EmptySet
  <2>3. /\ sink' = [sink EXCEPT ![s] = "live"] /\ sink[s] = "none"
        /\ producers' = producers + 1 /\ UNCHANGED <<fence, late>>
    BY <1>6 DEF Clone, SinkStep, words, history
  <2>4. Producing' = Producing \cup {s} /\ s \notin Producing
    BY <2>3 DEF Producing, TypeOK
  <2>5. producers' = Cardinality(Producing')
    BY <2>1, <2>3, <2>4, FS_AddElement
  <2>6. \A x \in Sinks : sink'[x] \notin {"last", "normal", "debug", "sealing"}
    BY <2>2, <2>3 DEF ProducersInv, TypeOK
  <2> QED BY <2>2, <2>3, <2>5, <2>6 DEF ProducersInv
<1>7. ASSUME NEW s \in Sinks, Release(s) PROVE ProducersInv'
  <2>1. /\ sink' = [sink EXCEPT ![s] = "released"] /\ sink[s] = "live"
        /\ UNCHANGED <<producers, fence, late>>
    BY <1>7 DEF Release, SinkStep, words, history
  <2>2. Producing' = Producing
    BY <2>1 DEF Producing, TypeOK
  <2> QED BY <2>1, <2>2 DEF ProducersInv, TypeOK
<1>8. ASSUME NEW s \in Sinks, Subtract(s) PROVE ProducersInv'
  <2>1. IsFiniteSet(Producing) /\ producers = Cardinality(Producing)
    BY DiagnosticAssumption, FS_Subset DEF Producing, ProducersInv
  <2>2. /\ sink[s] = "released"
        /\ sink' = [sink EXCEPT ![s] = IF producers = 1 THEN "last" ELSE "gone"]
        /\ producers' = producers - 1 /\ UNCHANGED <<fence, late>>
    BY <1>8 DEF Subtract, SinkStep, words, history
  <2>3. Producing' = Producing \ {s} /\ s \in Producing
    BY <2>2 DEF Producing, TypeOK
  <2>4. producers' = Cardinality(Producing')
    BY <2>1, <2>2, <2>3, FS_RemoveElement
  <2>5. producers # 0
    BY <2>1, <2>3, FS_EmptySet
  <2>6. ASSUME NEW x \in Sinks, sink'[x] \in {"last", "normal", "debug", "sealing"}
        PROVE  producers' = 0
    <3>1. CASE x = s
      BY <2>2, <2>6, <3>1 DEF TypeOK
    <3>2. CASE x # s
      BY <2>2, <2>5, <2>6, <3>2 DEF ProducersInv, TypeOK
    <3> QED BY <3>1, <3>2
  <2> QED BY <2>2, <2>4, <2>5, <2>6 DEF ProducersInv
<1>9. ASSUME NEW s \in Sinks, SealLock(s) PROVE ProducersInv'
  <2>1. /\ sink' = [sink EXCEPT ![s] = "normal"] /\ sink[s] = "last"
        /\ UNCHANGED <<producers, late>>
        /\ \A l \in AllLevels : fence'[l] => fence[l] \/ producers = 0
    BY <1>9 DEF SealLock, SinkStep, words, history, ProducersInv, TypeOK, AllLevels
  <2>2. Producing' = Producing
    BY <2>1 DEF Producing, TypeOK
  <2> QED BY <2>1, <2>2 DEF ProducersInv, TypeOK
<1>10. ASSUME NEW s \in Sinks, SealNormal(s) PROVE ProducersInv'
  <2>1. /\ sink' = [sink EXCEPT ![s] = "debug"] /\ sink[s] = "normal"
        /\ UNCHANGED <<producers, late>>
        /\ \A l \in AllLevels : fence'[l] => fence[l] \/ producers = 0
    BY <1>10 DEF SealNormal, SinkStep, words, history, ProducersInv, TypeOK, AllLevels
  <2>2. Producing' = Producing
    BY <2>1 DEF Producing, TypeOK
  <2> QED BY <2>1, <2>2 DEF ProducersInv, TypeOK
<1>11. ASSUME NEW s \in Sinks, SealDebug(s) PROVE ProducersInv'
  <2>1. /\ sink' = [sink EXCEPT ![s] = "sealing"] /\ sink[s] = "debug"
        /\ UNCHANGED <<producers, late>>
        /\ \A l \in AllLevels : fence'[l] => fence[l] \/ producers = 0
    BY <1>11 DEF SealDebug, SinkStep, words, history, ProducersInv, TypeOK, AllLevels
  <2>2. Producing' = Producing
    BY <2>1 DEF Producing, TypeOK
  <2> QED BY <2>1, <2>2 DEF ProducersInv, TypeOK
<1>12. ASSUME NEW s \in Sinks, SealFlag(s) PROVE ProducersInv'
  <2>1. /\ sink' = [sink EXCEPT ![s] = "gone"] /\ sink[s] = "sealing"
        /\ UNCHANGED <<producers, late>>
        /\ \A l \in AllLevels : fence'[l] => fence[l] \/ producers = 0
    BY <1>12 DEF SealFlag, SinkStep, words, history, ProducersInv, TypeOK, AllLevels
  <2>2. Producing' = Producing
    BY <2>1 DEF Producing, TypeOK
  <2> QED BY <2>1, <2>2 DEF ProducersInv, TypeOK
<1>13. ASSUME DrainLock PROVE ProducersInv'
  <2>1. UNCHANGED <<sink, producers, fence, late>>
    BY <1>13 DEF DrainLock, ReaderStep, state, words, history
  <2>2. Producing' = Producing
    BY <2>1 DEF Producing
  <2> QED BY <2>1, <2>2 DEF ProducersInv
<1>14. ASSUME DrainNormal PROVE ProducersInv'
  <2>1. UNCHANGED <<sink, producers, fence, late>>
    BY <1>14 DEF DrainNormal, ReaderStep, Take, state, words, history
  <2>2. Producing' = Producing
    BY <2>1 DEF Producing
  <2> QED BY <2>1, <2>2 DEF ProducersInv
<1>15. ASSUME DrainDebug PROVE ProducersInv'
  <2>1. UNCHANGED <<sink, producers, fence, late>>
    BY <1>15 DEF DrainDebug, ReaderStep, Take, state, words, history
  <2>2. Producing' = Producing
    BY <2>1 DEF Producing
  <2> QED BY <2>1, <2>2 DEF ProducersInv
<1>16. ASSUME DrainCommit PROVE ProducersInv'
  <2>1. UNCHANGED <<sink, producers, fence, late>>
    BY <1>16 DEF DrainCommit, ReaderStep, state, words, history
  <2>2. Producing' = Producing
    BY <2>1 DEF Producing
  <2> QED BY <2>1, <2>2 DEF ProducersInv
<1>17. CASE UNCHANGED vars
  <2>1. Producing' = Producing
    BY <1>17 DEF Producing, vars
  <2> QED BY <1>17, <2>1 DEF ProducersInv, vars, words, history
<1> QED
  BY <1>1, <1>2, <1>3, <1>4, <1>5, <1>6, <1>7, <1>8, <1>9, <1>10, <1>11,
     <1>12, <1>13, <1>14, <1>15, <1>16, <1>17 DEF Next, Produce, Seal, Drain

(* Every step keeps the mutex exclusive.                                   *)
LEMMA LockStep ==
    ASSUME DiagInv, [Next]_vars
    PROVE  LockInv'
<1> USE DEF DiagInv, ProtocolInv
<1>1. ASSUME NEW t \in Emitters, TryLock(t) PROVE LockInv'
  BY <1>1, DiagnosticAssumption DEF TryLock, Step, LockInv, TypeOK, state,
     words, history, vars
<1>2. ASSUME NEW t \in Emitters, Emit(t) PROVE LockInv'
  BY <1>2, DiagnosticAssumption DEF Emit, Step, LockInv, TypeOK, state, words,
     history, vars
<1>3. ASSUME NEW t \in Emitters, CountLoss(t) PROVE LockInv'
  BY <1>3, DiagnosticAssumption DEF CountLoss, Step, LockInv, TypeOK, state,
     words, history, vars
<1>4. ASSUME NEW t \in Emitters, Discard(t) PROVE LockInv'
  BY <1>4, DiagnosticAssumption DEF Discard, Step, Emits, LockInv, TypeOK,
     state, words, history, vars
<1>5. ASSUME NEW t \in Emitters, NEW l \in AllLevels, Offer(t, l) PROVE LockInv'
  BY <1>5, DiagnosticAssumption DEF Offer, Step, Emits, LockInv, TypeOK,
     state, words, history, vars
<1>6. ASSUME NEW s \in Sinks, Clone(s) PROVE LockInv'
  BY <1>6, DiagnosticAssumption DEF Clone, SinkStep, LockInv, TypeOK, state,
     words, history, vars
<1>7. ASSUME NEW s \in Sinks, Release(s) PROVE LockInv'
  BY <1>7, DiagnosticAssumption DEF Release, SinkStep, LockInv, TypeOK, state,
     words, history, vars
<1>8. ASSUME NEW s \in Sinks, Subtract(s) PROVE LockInv'
  BY <1>8, DiagnosticAssumption DEF Subtract, SinkStep, LockInv, TypeOK,
     state, words, history, vars
<1>9. ASSUME NEW s \in Sinks, SealLock(s) PROVE LockInv'
  BY <1>9, DiagnosticAssumption DEF SealLock, SinkStep, LockInv, TypeOK,
     state, words, history, vars
<1>10. ASSUME NEW s \in Sinks, SealNormal(s) PROVE LockInv'
  BY <1>10, DiagnosticAssumption DEF SealNormal, SinkStep, LockInv, TypeOK,
     state, words, history, vars
<1>11. ASSUME NEW s \in Sinks, SealDebug(s) PROVE LockInv'
  BY <1>11, DiagnosticAssumption DEF SealDebug, SinkStep, LockInv, TypeOK,
     state, words, history, vars
<1>12. ASSUME NEW s \in Sinks, SealFlag(s) PROVE LockInv'
  BY <1>12, DiagnosticAssumption DEF SealFlag, SinkStep, LockInv, TypeOK,
     state, words, history, vars
<1>13. ASSUME DrainLock PROVE LockInv'
  BY <1>13, DiagnosticAssumption DEF DrainLock, ReaderStep, LockInv, TypeOK,
     state, words, history, vars
<1>14. ASSUME DrainNormal PROVE LockInv'
  BY <1>14, DiagnosticAssumption DEF DrainNormal, ReaderStep, Take, LockInv,
     TypeOK, state, words, history, vars
<1>15. ASSUME DrainDebug PROVE LockInv'
  BY <1>15, DiagnosticAssumption DEF DrainDebug, ReaderStep, Take, LockInv,
     TypeOK, state, words, history, vars
<1>16. ASSUME DrainCommit PROVE LockInv'
  BY <1>16, DiagnosticAssumption DEF DrainCommit, ReaderStep, LockInv, TypeOK,
     state, words, history, vars
<1>17. CASE UNCHANGED vars
  BY <1>17, DiagnosticAssumption DEF LockInv, TypeOK, state, words, history,
     vars
<1> QED
  BY <1>1, <1>2, <1>3, <1>4, <1>5, <1>6, <1>7, <1>8, <1>9, <1>10, <1>11,
     <1>12, <1>13, <1>14, <1>15, <1>16, <1>17 DEF Next, Produce, Seal, Drain

(* Every step keeps the fences before the flag.                            *)
LEMMA FenceStep ==
    ASSUME DiagInv, [Next]_vars
    PROVE  FenceInv'
<1> USE DEF DiagInv, ProtocolInv
<1>1. ASSUME NEW t \in Emitters, TryLock(t) PROVE FenceInv'
  BY <1>1 DEF TryLock, Step, FenceInv, TypeOK, AllLevels, state, words,
     history, vars
<1>2. ASSUME NEW t \in Emitters, Emit(t) PROVE FenceInv'
  BY <1>2 DEF Emit, Step, FenceInv, TypeOK, AllLevels, state, words, history,
     vars
<1>3. ASSUME NEW t \in Emitters, CountLoss(t) PROVE FenceInv'
  BY <1>3 DEF CountLoss, Step, FenceInv, TypeOK, AllLevels, state, words,
     history, vars
<1>4. ASSUME NEW t \in Emitters, Discard(t) PROVE FenceInv'
  BY <1>4 DEF Discard, Step, Emits, FenceInv, TypeOK, AllLevels, state, words,
     history, vars
<1>5. ASSUME NEW t \in Emitters, NEW l \in AllLevels, Offer(t, l) PROVE FenceInv'
  BY <1>5 DEF Offer, Step, Emits, FenceInv, TypeOK, AllLevels, state, words,
     history, vars
<1>6. ASSUME NEW s \in Sinks, Clone(s) PROVE FenceInv'
  BY <1>6 DEF Clone, SinkStep, FenceInv, TypeOK, AllLevels, state, words,
     history, vars
<1>7. ASSUME NEW s \in Sinks, Release(s) PROVE FenceInv'
  BY <1>7 DEF Release, SinkStep, FenceInv, TypeOK, AllLevels, state, words,
     history, vars
<1>8. ASSUME NEW s \in Sinks, Subtract(s) PROVE FenceInv'
  BY <1>8 DEF Subtract, SinkStep, FenceInv, TypeOK, AllLevels, state, words,
     history, vars
<1>9. ASSUME NEW s \in Sinks, SealLock(s) PROVE FenceInv'
  BY <1>9 DEF SealLock, SinkStep, FenceInv, TypeOK, AllLevels, state, words,
     history, vars
<1>10. ASSUME NEW s \in Sinks, SealNormal(s) PROVE FenceInv'
  BY <1>10 DEF SealNormal, SinkStep, FenceInv, TypeOK, AllLevels, state,
     words, history, vars
<1>11. ASSUME NEW s \in Sinks, SealDebug(s) PROVE FenceInv'
  BY <1>11 DEF SealDebug, SinkStep, FenceInv, TypeOK, AllLevels, state, words,
     history, vars
<1>12. ASSUME NEW s \in Sinks, SealFlag(s) PROVE FenceInv'
  BY <1>12 DEF SealFlag, SinkStep, FenceInv, TypeOK, AllLevels, state, words,
     history, vars
<1>13. ASSUME DrainLock PROVE FenceInv'
  BY <1>13 DEF DrainLock, ReaderStep, FenceInv, TypeOK, AllLevels, state,
     words, history, vars
<1>14. ASSUME DrainNormal PROVE FenceInv'
  BY <1>14 DEF DrainNormal, ReaderStep, Take, FenceInv, TypeOK, AllLevels,
     state, words, history, vars
<1>15. ASSUME DrainDebug PROVE FenceInv'
  BY <1>15 DEF DrainDebug, ReaderStep, Take, FenceInv, TypeOK, AllLevels,
     state, words, history, vars
<1>16. ASSUME DrainCommit PROVE FenceInv'
  BY <1>16 DEF DrainCommit, ReaderStep, FenceInv, TypeOK, AllLevels, state,
     words, history, vars
<1>17. CASE UNCHANGED vars
  BY <1>17 DEF FenceInv, TypeOK, AllLevels, state, words, history, vars
<1> QED
  BY <1>1, <1>2, <1>3, <1>4, <1>5, <1>6, <1>7, <1>8, <1>9, <1>10, <1>11,
     <1>12, <1>13, <1>14, <1>15, <1>16, <1>17 DEF Next, Produce, Seal, Drain

(* Every step keeps what a drain under way may overwrite at zero.          *)
LEMMA TakenStep ==
    ASSUME DiagInv, [Next]_vars
    PROVE  TakenInv'
<1> USE DEF DiagInv, ProtocolInv
<1>1. ASSUME NEW t \in Emitters, TryLock(t) PROVE TakenInv'
  BY <1>1 DEF TryLock, Step, TakenInv, TypeOK, AllLevels, Zero, state, words,
     history, vars
<1>2. ASSUME NEW t \in Emitters, Emit(t) PROVE TakenInv'
  BY <1>2 DEF Emit, Step, TakenInv, TypeOK, AllLevels, Zero, state, words,
     history, vars
<1>3. ASSUME NEW t \in Emitters, CountLoss(t) PROVE TakenInv'
  BY <1>3 DEF CountLoss, Step, TakenInv, TypeOK, AllLevels, Zero, state,
     words, history, vars
<1>4. ASSUME NEW t \in Emitters, Discard(t) PROVE TakenInv'
  BY <1>4 DEF Discard, Step, Emits, TakenInv, TypeOK, AllLevels, Zero, state,
     words, history, vars
<1>5. ASSUME NEW t \in Emitters, NEW l \in AllLevels, Offer(t, l) PROVE TakenInv'
  BY <1>5 DEF Offer, Step, Emits, TakenInv, TypeOK, AllLevels, Zero, state,
     words, history, vars
<1>6. ASSUME NEW s \in Sinks, Clone(s) PROVE TakenInv'
  BY <1>6 DEF Clone, SinkStep, TakenInv, TypeOK, AllLevels, Zero, state,
     words, history, vars
<1>7. ASSUME NEW s \in Sinks, Release(s) PROVE TakenInv'
  BY <1>7 DEF Release, SinkStep, TakenInv, TypeOK, AllLevels, Zero, state,
     words, history, vars
<1>8. ASSUME NEW s \in Sinks, Subtract(s) PROVE TakenInv'
  BY <1>8 DEF Subtract, SinkStep, TakenInv, TypeOK, AllLevels, Zero, state,
     words, history, vars
<1>9. ASSUME NEW s \in Sinks, SealLock(s) PROVE TakenInv'
  BY <1>9 DEF SealLock, SinkStep, TakenInv, TypeOK, AllLevels, Zero, state,
     words, history, vars
<1>10. ASSUME NEW s \in Sinks, SealNormal(s) PROVE TakenInv'
  BY <1>10 DEF SealNormal, SinkStep, TakenInv, TypeOK, AllLevels, Zero, state,
     words, history, vars
<1>11. ASSUME NEW s \in Sinks, SealDebug(s) PROVE TakenInv'
  BY <1>11 DEF SealDebug, SinkStep, TakenInv, TypeOK, AllLevels, Zero, state,
     words, history, vars
<1>12. ASSUME NEW s \in Sinks, SealFlag(s) PROVE TakenInv'
  BY <1>12 DEF SealFlag, SinkStep, TakenInv, TypeOK, AllLevels, Zero, state,
     words, history, vars
<1>13. ASSUME DrainLock PROVE TakenInv'
  BY <1>13 DEF DrainLock, ReaderStep, TakenInv, TypeOK, AllLevels, Zero,
     state, words, history, vars
<1>14. ASSUME DrainNormal PROVE TakenInv'
  BY <1>14 DEF DrainNormal, ReaderStep, Take, TakenInv, TypeOK, AllLevels,
     Zero, state, words, history, vars
<1>15. ASSUME DrainDebug PROVE TakenInv'
  BY <1>15 DEF DrainDebug, ReaderStep, Take, TakenInv, TypeOK, AllLevels,
     Zero, state, words, history, vars
<1>16. ASSUME DrainCommit PROVE TakenInv'
  BY <1>16 DEF DrainCommit, ReaderStep, TakenInv, TypeOK, AllLevels, Zero,
     state, words, history, vars
<1>17. CASE UNCHANGED vars
  BY <1>17 DEF TakenInv, TypeOK, AllLevels, Zero, state, words, history, vars
<1> QED
  BY <1>1, <1>2, <1>3, <1>4, <1>5, <1>6, <1>7, <1>8, <1>9, <1>10, <1>11,
     <1>12, <1>13, <1>14, <1>15, <1>16, <1>17 DEF Next, Produce, Seal, Drain

(* Every step keeps a sealed and drained stream empty.                     *)
LEMMA FinalStep ==
    ASSUME DiagInv, [Next]_vars
    PROVE  FinalInv'
<1> USE DEF DiagInv, ProtocolInv
<1>1. ASSUME NEW t \in Emitters, TryLock(t) PROVE FinalInv'
  BY <1>1 DEF TryLock, Step, FinalInv, TypeOK, Counts, AllLevels, state,
     words, history, vars
<1>2. ASSUME NEW t \in Emitters, Emit(t) PROVE FinalInv'
  <2>1. sealed => UNCHANGED <<records, losses>>
    BY <1>2 DEF Emit
  <2>2. UNCHANGED <<sealed, reader, pending, taken, final>>
    BY <1>2 DEF Emit, words
  <2> QED BY <2>1, <2>2 DEF FinalInv
<1>3. ASSUME NEW t \in Emitters, CountLoss(t) PROVE FinalInv'
  <2>1. /\ sealed => pending' = pending
        /\ UNCHANGED <<records, losses, sealed, reader, taken, final>>
    BY <1>3 DEF CountLoss, FenceInv, TypeOK, state
  <2> QED BY <2>1 DEF FinalInv
<1>4. ASSUME NEW t \in Emitters, Discard(t) PROVE FinalInv'
  BY <1>4 DEF Discard, Step, Emits, FinalInv, TypeOK, Counts, AllLevels,
     state, words, history, vars
<1>5. ASSUME NEW t \in Emitters, NEW l \in AllLevels, Offer(t, l) PROVE FinalInv'
  BY <1>5 DEF Offer, Step, Emits, FinalInv, TypeOK, Counts, AllLevels, state,
     words, history, vars
<1>6. ASSUME NEW s \in Sinks, Clone(s) PROVE FinalInv'
  BY <1>6 DEF Clone, SinkStep, FinalInv, TypeOK, Counts, AllLevels, state,
     words, history, vars
<1>7. ASSUME NEW s \in Sinks, Release(s) PROVE FinalInv'
  BY <1>7 DEF Release, SinkStep, FinalInv, TypeOK, Counts, AllLevels, state,
     words, history, vars
<1>8. ASSUME NEW s \in Sinks, Subtract(s) PROVE FinalInv'
  BY <1>8 DEF Subtract, SinkStep, FinalInv, TypeOK, Counts, AllLevels, state,
     words, history, vars
<1>9. ASSUME NEW s \in Sinks, SealLock(s) PROVE FinalInv'
  BY <1>9 DEF SealLock, SinkStep, FinalInv, TypeOK, Counts, AllLevels, state,
     words, history, vars
<1>10. ASSUME NEW s \in Sinks, SealNormal(s) PROVE FinalInv'
  BY <1>10 DEF SealNormal, SinkStep, FinalInv, TypeOK, Counts, AllLevels,
     state, words, history, vars
<1>11. ASSUME NEW s \in Sinks, SealDebug(s) PROVE FinalInv'
  BY <1>11 DEF SealDebug, SinkStep, FinalInv, TypeOK, Counts, AllLevels,
     state, words, history, vars
<1>12. ASSUME NEW s \in Sinks, SealFlag(s) PROVE FinalInv'
  <2>1. lock = s /\ s # Reader /\ lock' = None
    BY <1>12, DiagnosticAssumption DEF SealFlag, SinkStep, LockInv
  <2>2. reader = "idle"
    BY <2>1 DEF LockInv
  <2> QED BY <1>12, <2>2 DEF SealFlag, SinkStep, FinalInv, TypeOK, words, history
<1>13. ASSUME DrainLock PROVE FinalInv'
  BY <1>13 DEF DrainLock, ReaderStep, FinalInv, TypeOK, Counts, AllLevels,
     state, words, history, vars
<1>14. ASSUME DrainNormal PROVE FinalInv'
  BY <1>14 DEF DrainNormal, ReaderStep, Take, FinalInv, TypeOK, Counts,
     AllLevels, state, words, history, vars
<1>15. ASSUME DrainDebug PROVE FinalInv'
  BY <1>15 DEF DrainDebug, ReaderStep, Take, FinalInv, TypeOK, Counts,
     AllLevels, state, words, history, vars
<1>16. ASSUME DrainCommit PROVE FinalInv'
  <2>1. /\ records' = <<>> /\ reader' = "idle" /\ reader = "commit"
        /\ \A l \in AllLevels : losses'[l] = 0 /\ taken'[l] = 0
        /\ pending' = pending /\ sealed' = sealed /\ final' = sealed
    BY <1>16 DEF DrainCommit, ReaderStep, Zero
  <2>2. sealed => \A l \in AllLevels : pending[l] = 0
    BY <2>1 DEF FinalInv, AllLevels
  <2> QED BY <2>1, <2>2 DEF FinalInv
<1>17. CASE UNCHANGED vars
  BY <1>17 DEF FinalInv, TypeOK, Counts, AllLevels, state, words, history,
     vars
<1> QED
  BY <1>1, <1>2, <1>3, <1>4, <1>5, <1>6, <1>7, <1>8, <1>9, <1>10, <1>11,
     <1>12, <1>13, <1>14, <1>15, <1>16, <1>17 DEF Next, Produce, Seal, Drain

(* The counts are numbers.                                                 *)
LEMMA TellNat ==
    ASSUME TypeOK
    PROVE  \A l \in AllLevels :
              /\ Told(l) \in Nat /\ Cardinality(InHand(l)) \in Nat
              /\ emitted[l] \in Nat
              /\ \A m \in AllLevels : One(l, m) \in Nat
<1> SUFFICES ASSUME NEW l \in AllLevels
             PROVE  /\ Told(l) \in Nat /\ Cardinality(InHand(l)) \in Nat
                    /\ emitted[l] \in Nat
                    /\ \A m \in AllLevels : One(l, m) \in Nat
  OBVIOUS
<1>1. Cardinality(InHand(l)) \in Nat
  BY DiagnosticAssumption, FS_Subset, FS_CardinalityType DEF InHand
<1>2. Count(records, l) \in Nat
  BY CountType DEF TypeOK
<1>3. /\ reported[l] \in Nat /\ losses[l] \in Nat /\ taken[l] \in Nat
      /\ pending[l] \in Nat /\ late[l] \in Nat /\ uncounted[l] \in Nat
      /\ emitted[l] \in Nat
  BY DEF TypeOK, Counts
<1>4. Told(l) \in Nat
  BY <1>2, <1>3 DEF Told
<1> QED BY <1>1, <1>3, <1>4 DEF One

(* Every step keeps the account of the emissions.                          *)
LEMMA EmittedStep ==
    ASSUME DiagInv, [Next]_vars
    PROVE  EmittedInv'
<1> USE DEF DiagInv
<1>1. ASSUME NEW t \in Emitters, TryLock(t) PROVE EmittedInv'
  <2>1. UNCHANGED <<emitted, reported, records, losses, taken, pending, late, uncounted>>
    BY <1>1 DEF TryLock, Step, state, words, history, vars
  <2>2. \A l \in AllLevels : InHand(l)' = InHand(l)
    BY <1>1 DEF InHand, TryLock, Step, TypeOK
  <2> QED BY <2>1, <2>2 DEF EmittedInv, Told
<1>2. ASSUME NEW t \in Emitters, Emit(t) PROVE EmittedInv'
  <2> DEFINE m == level[t]
  <2>1. /\ UNCHANGED <<emitted, reported, taken, pending, uncounted>>
        /\ level' = [level EXCEPT ![t] = "normal"] /\ Step(t, "locked", "idle")
    BY <1>2 DEF Emit, words
  <2>2. m \in AllLevels
    BY DEF TypeOK
  <2>3. \A k \in AllLevels :
            /\ Cardinality(InHand(k)') \in Nat
            /\ Cardinality(InHand(k)) = Cardinality(InHand(k)') + One(k, m)
    BY <2>1, HandGiven
  <2>4. ASSUME NEW k \in AllLevels PROVE Told(k)' = Told(k) + One(k, m)
    <3>1. /\ reported[k] \in Nat /\ losses[k] \in Nat /\ taken[k] \in Nat
          /\ pending[k] \in Nat /\ late[k] \in Nat /\ uncounted[k] \in Nat
          /\ Count(records, k) \in Nat /\ One(k, m) \in Nat
      BY CountType DEF TypeOK, Counts, One
    <3>2. CASE sealed
      <4>1. UNCHANGED <<records, losses>> /\ late' = AddOne(late, m)
        BY <1>2, <3>2 DEF Emit
      <4>2. late'[k] = late[k] + One(k, m)
        BY <2>2, <4>1, Added DEF TypeOK
      <4>3. Told(k)' = reported[k] + Count(records, k) + losses[k] + taken[k]
                         + pending[k] + late'[k] + uncounted[k]
        BY <2>1, <4>1 DEF Told
      <4> HIDE DEF m
      <4> QED BY <3>1, <4>2, <4>3 DEF Told
    <3>3. CASE ~sealed
      <4>1. Retain(m) /\ late' = late
        BY <1>2, <3>3 DEF Emit
      <4>2. /\ records' \in Seq(Records) /\ losses' \in Counts
            /\ Count(records', k) + losses'[k] = Count(records, k) + losses[k] + One(k, m)
        BY <2>2, <4>1, Retained
      <4>3. Count(records', k) \in Nat /\ losses'[k] \in Nat
        BY <4>2, CountType DEF Counts
      <4>4. Told(k)' = reported[k] + Count(records', k) + losses'[k] + taken[k]
                         + pending[k] + late[k] + uncounted[k]
        BY <2>1, <4>1 DEF Told
      <4> HIDE DEF m
      <4>5. Told(k) = reported[k] + Count(records, k) + losses[k] + taken[k]
                        + pending[k] + late[k] + uncounted[k]
        BY DEF Told
      <4>6. reported[k] + Count(records', k) + losses'[k] + taken[k] + pending[k]
                + late[k] + uncounted[k] =
            (reported[k] + Count(records, k) + losses[k] + taken[k] + pending[k]
                + late[k] + uncounted[k]) + One(k, m)
        <5> DEFINE a == reported[k]
                   x == Count(records, k)
                   y == losses[k]
                   p == Count(records', k)
                   q == losses'[k]
                   o == One(k, m)
                   c1 == taken[k]
                   c2 == pending[k]
                   c3 == late[k]
                   c4 == uncounted[k]
        <5>1. /\ a \in Nat /\ x \in Nat /\ y \in Nat /\ p \in Nat /\ q \in Nat
              /\ o \in Nat /\ c1 \in Nat /\ c2 \in Nat /\ c3 \in Nat /\ c4 \in Nat
              /\ p + q = x + y + o
          BY <3>1, <4>2, <4>3
        <5> HIDE DEF a, x, y, p, q, o, c1, c2, c3, c4
        <5>2. a + p + q + c1 + c2 + c3 + c4 = (a + x + y + c1 + c2 + c3 + c4) + o
          BY <5>1, SumGrows
        <5> QED BY <5>2 DEF a, x, y, p, q, o, c1, c2, c3, c4
      <4> QED BY <4>4, <4>5, <4>6
    <3> QED BY <3>2, <3>3
  <2> HIDE DEF m
  <2> QED
    <3> SUFFICES ASSUME NEW k \in AllLevels
                 PROVE  emitted'[k] = Told(k)' + Cardinality(InHand(k)')
      BY DEF EmittedInv
    <3>1. emitted'[k] = emitted[k] /\ emitted[k] = Told(k) + Cardinality(InHand(k))
      BY <2>1 DEF EmittedInv
    <3>2. /\ Told(k) \in Nat /\ One(k, m) \in Nat
          /\ Cardinality(InHand(k)') \in Nat
      BY <2>2, <2>3, TellNat
    <3>3. /\ Cardinality(InHand(k)) = Cardinality(InHand(k)') + One(k, m)
          /\ Told(k)' = Told(k) + One(k, m)
      BY <2>3, <2>4
    <3> QED BY <3>1, <3>2, <3>3
<1>3. ASSUME NEW t \in Emitters, CountLoss(t) PROVE EmittedInv'
  <2> DEFINE m == level[t]
  <2>1. /\ UNCHANGED <<emitted, reported, taken, records, losses>>
        /\ level' = [level EXCEPT ![t] = "normal"] /\ Step(t, "counting", "idle")
    BY <1>3 DEF CountLoss, state
  <2>2. m \in AllLevels
    BY DEF TypeOK
  <2>3. \A k \in AllLevels :
            /\ Cardinality(InHand(k)') \in Nat
            /\ Cardinality(InHand(k)) = Cardinality(InHand(k)') + One(k, m)
    BY <2>1, HandGiven
  <2>4. ASSUME NEW k \in AllLevels PROVE Told(k)' = Told(k) + One(k, m)
    <3>1. /\ reported[k] \in Nat /\ losses[k] \in Nat /\ taken[k] \in Nat
          /\ pending[k] \in Nat /\ late[k] \in Nat /\ uncounted[k] \in Nat
          /\ Count(records, k) \in Nat /\ One(k, m) \in Nat
      BY CountType DEF TypeOK, Counts, One
    <3>2. pending'[k] + late'[k] + uncounted'[k]
              = pending[k] + late[k] + uncounted[k] + One(k, m)
      <4>1. /\ AddOne(pending, m)[k] = pending[k] + One(k, m)
            /\ AddOne(late, m)[k] = late[k] + One(k, m)
            /\ AddOne(uncounted, m)[k] = uncounted[k] + One(k, m)
        BY <2>2, Added DEF TypeOK
      <4>2. \/ pending' = AddOne(pending, m) /\ UNCHANGED <<late, uncounted>>
            \/ late' = AddOne(late, m) /\ UNCHANGED <<pending, uncounted>>
            \/ uncounted' = AddOne(uncounted, m) /\ UNCHANGED <<pending, late>>
        BY <1>3 DEF CountLoss
      <4> HIDE DEF m
      <4> QED BY <3>1, <4>1, <4>2
    <3>3. pending'[k] \in Nat /\ late'[k] \in Nat /\ uncounted'[k] \in Nat
      BY TypeStep, <1>3 DEF Next, Produce, TypeOK, Counts
    <3>4. Told(k)' = reported[k] + Count(records, k) + losses[k] + taken[k]
                       + pending'[k] + late'[k] + uncounted'[k]
      BY <2>1 DEF Told
    <3> HIDE DEF m
    <3>5. Told(k) = reported[k] + Count(records, k) + losses[k] + taken[k]
                      + pending[k] + late[k] + uncounted[k]
      BY DEF Told
    <3>6. reported[k] + Count(records, k) + losses[k] + taken[k] + pending'[k]
              + late'[k] + uncounted'[k] =
          (reported[k] + Count(records, k) + losses[k] + taken[k] + pending[k]
              + late[k] + uncounted[k]) + One(k, m)
      <4> DEFINE c1 == reported[k]
                 c2 == Count(records, k)
                 c3 == losses[k]
                 c4 == taken[k]
                 x == pending[k]
                 y == late[k]
                 z == uncounted[k]
                 p == pending'[k]
                 q == late'[k]
                 r == uncounted'[k]
                 o == One(k, m)
      <4>1. /\ c1 \in Nat /\ c2 \in Nat /\ c3 \in Nat /\ c4 \in Nat
            /\ x \in Nat /\ y \in Nat /\ z \in Nat /\ o \in Nat
            /\ p \in Nat /\ q \in Nat /\ r \in Nat
            /\ p + q + r = x + y + z + o
        BY <3>1, <3>2, <3>3
      <4> HIDE DEF c1, c2, c3, c4, x, y, z, p, q, r, o
      <4>2. c1 + c2 + c3 + c4 + p + q + r = (c1 + c2 + c3 + c4 + x + y + z) + o
        BY <4>1, SumGrowsLast
      <4> QED BY <4>2 DEF c1, c2, c3, c4, x, y, z, p, q, r, o
    <3> QED BY <3>4, <3>5, <3>6
  <2> HIDE DEF m
  <2> QED
    <3> SUFFICES ASSUME NEW k \in AllLevels
                 PROVE  emitted'[k] = Told(k)' + Cardinality(InHand(k)')
      BY DEF EmittedInv
    <3>1. emitted'[k] = emitted[k] /\ emitted[k] = Told(k) + Cardinality(InHand(k))
      BY <2>1 DEF EmittedInv
    <3>2. /\ Told(k) \in Nat /\ One(k, m) \in Nat
          /\ Cardinality(InHand(k)') \in Nat
      BY <2>2, <2>3, TellNat
    <3>3. /\ Cardinality(InHand(k)) = Cardinality(InHand(k)') + One(k, m)
          /\ Told(k)' = Told(k) + One(k, m)
      BY <2>3, <2>4
    <3> QED BY <3>1, <3>2, <3>3
<1>4. ASSUME NEW t \in Emitters, Discard(t) PROVE EmittedInv'
  <2>1. /\ UNCHANGED <<reported, records, losses, taken, pending, late, uncounted>>
        /\ emitted' = AddOne(emitted, "normal")
        /\ level' = [level EXCEPT ![t] = "normal"] /\ Step(t, "idle", "counting")
    BY <1>4 DEF Discard, Emits, state, words
  <2>2. "normal" \in AllLevels
    BY DEF AllLevels
  <2>3. \A k \in AllLevels :
            Cardinality(InHand(k)') = Cardinality(InHand(k)) + One(k, "normal")
    BY <2>1, <2>2, HandTaken
  <2>4. \A k \in AllLevels : emitted'[k] = emitted[k] + One(k, "normal")
    BY <2>1, <2>2, Added DEF TypeOK
  <2>5. \A k \in AllLevels : Told(k)' = Told(k)
    BY <2>1 DEF Told
  <2> QED
    <3> SUFFICES ASSUME NEW k \in AllLevels
                 PROVE  emitted'[k] = Told(k)' + Cardinality(InHand(k)')
      BY DEF EmittedInv
    <3>1. emitted[k] = Told(k) + Cardinality(InHand(k))
      BY DEF EmittedInv
    <3>2. /\ Told(k) \in Nat /\ One(k, "normal") \in Nat
          /\ Cardinality(InHand(k)) \in Nat
      BY <2>2, TellNat
    <3>3. /\ Cardinality(InHand(k)') = Cardinality(InHand(k)) + One(k, "normal")
          /\ emitted'[k] = emitted[k] + One(k, "normal") /\ Told(k)' = Told(k)
      BY <2>3, <2>4, <2>5
    <3> QED BY <3>1, <3>2, <3>3
<1>5. ASSUME NEW t \in Emitters, NEW l \in AllLevels, Offer(t, l) PROVE EmittedInv'
  <2>1. /\ UNCHANGED <<reported, records, losses, taken, pending, late, uncounted>>
        /\ emitted' = AddOne(emitted, l)
        /\ level' = [level EXCEPT ![t] = l] /\ Step(t, "idle", "offering")
    BY <1>5 DEF Offer, Emits, state, words
  <2>2. l \in AllLevels
    BY DEF AllLevels
  <2>3. \A k \in AllLevels :
            Cardinality(InHand(k)') = Cardinality(InHand(k)) + One(k, l)
    BY <2>1, <2>2, HandTaken
  <2>4. \A k \in AllLevels : emitted'[k] = emitted[k] + One(k, l)
    BY <2>1, <2>2, Added DEF TypeOK
  <2>5. \A k \in AllLevels : Told(k)' = Told(k)
    BY <2>1 DEF Told
  <2> QED
    <3> SUFFICES ASSUME NEW k \in AllLevels
                 PROVE  emitted'[k] = Told(k)' + Cardinality(InHand(k)')
      BY DEF EmittedInv
    <3>1. emitted[k] = Told(k) + Cardinality(InHand(k))
      BY DEF EmittedInv
    <3>2. /\ Told(k) \in Nat /\ One(k, l) \in Nat
          /\ Cardinality(InHand(k)) \in Nat
      BY <2>2, TellNat
    <3>3. /\ Cardinality(InHand(k)') = Cardinality(InHand(k)) + One(k, l)
          /\ emitted'[k] = emitted[k] + One(k, l) /\ Told(k)' = Told(k)
      BY <2>3, <2>4, <2>5
    <3> QED BY <3>1, <3>2, <3>3
<1>6. ASSUME NEW s \in Sinks, Clone(s) PROVE EmittedInv'
  <2>1. UNCHANGED <<emitted, reported, records, losses, taken, pending, late, uncounted,
                    emitter, level>>
    BY <1>6 DEF Clone, SinkStep, state, words, history, vars
  <2>2. \A l \in AllLevels : InHand(l)' = InHand(l)
    BY <2>1 DEF InHand
  <2> QED BY <2>1, <2>2 DEF EmittedInv, Told
<1>7. ASSUME NEW s \in Sinks, Release(s) PROVE EmittedInv'
  <2>1. UNCHANGED <<emitted, reported, records, losses, taken, pending, late, uncounted,
                    emitter, level>>
    BY <1>7 DEF Release, SinkStep, state, words, history, vars
  <2>2. \A l \in AllLevels : InHand(l)' = InHand(l)
    BY <2>1 DEF InHand
  <2> QED BY <2>1, <2>2 DEF EmittedInv, Told
<1>8. ASSUME NEW s \in Sinks, Subtract(s) PROVE EmittedInv'
  <2>1. UNCHANGED <<emitted, reported, records, losses, taken, pending, late, uncounted,
                    emitter, level>>
    BY <1>8 DEF Subtract, SinkStep, state, words, history, vars
  <2>2. \A l \in AllLevels : InHand(l)' = InHand(l)
    BY <2>1 DEF InHand
  <2> QED BY <2>1, <2>2 DEF EmittedInv, Told
<1>9. ASSUME NEW s \in Sinks, SealLock(s) PROVE EmittedInv'
  <2>1. UNCHANGED <<emitted, reported, records, losses, taken, pending, late, uncounted,
                    emitter, level>>
    BY <1>9 DEF SealLock, SinkStep, state, words, history, vars
  <2>2. \A l \in AllLevels : InHand(l)' = InHand(l)
    BY <2>1 DEF InHand
  <2> QED BY <2>1, <2>2 DEF EmittedInv, Told
<1>10. ASSUME NEW s \in Sinks, SealNormal(s) PROVE EmittedInv'
  <2>1. UNCHANGED <<emitted, reported, records, losses, taken, pending, late, uncounted,
                    emitter, level>>
    BY <1>10 DEF SealNormal, SinkStep, state, words, history, vars
  <2>2. \A l \in AllLevels : InHand(l)' = InHand(l)
    BY <2>1 DEF InHand
  <2> QED BY <2>1, <2>2 DEF EmittedInv, Told
<1>11. ASSUME NEW s \in Sinks, SealDebug(s) PROVE EmittedInv'
  <2>1. UNCHANGED <<emitted, reported, records, losses, taken, pending, late, uncounted,
                    emitter, level>>
    BY <1>11 DEF SealDebug, SinkStep, state, words, history, vars
  <2>2. \A l \in AllLevels : InHand(l)' = InHand(l)
    BY <2>1 DEF InHand
  <2> QED BY <2>1, <2>2 DEF EmittedInv, Told
<1>12. ASSUME NEW s \in Sinks, SealFlag(s) PROVE EmittedInv'
  <2>1. UNCHANGED <<emitted, reported, records, losses, taken, pending, late, uncounted,
                    emitter, level>>
    BY <1>12 DEF SealFlag, SinkStep, state, words, history, vars
  <2>2. \A l \in AllLevels : InHand(l)' = InHand(l)
    BY <2>1 DEF InHand
  <2> QED BY <2>1, <2>2 DEF EmittedInv, Told
<1>13. ASSUME DrainLock PROVE EmittedInv'
  <2>1. UNCHANGED <<emitted, reported, records, losses, taken, pending, late, uncounted,
                    emitter, level>>
    BY <1>13 DEF DrainLock, ReaderStep, state, words, history, vars
  <2>2. \A l \in AllLevels : InHand(l)' = InHand(l)
    BY <2>1 DEF InHand
  <2> QED BY <2>1, <2>2 DEF EmittedInv, Told
<1>14. ASSUME DrainNormal PROVE EmittedInv'
  <2>1. /\ UNCHANGED <<emitted, reported, records, losses, late, uncounted>>
        /\ UNCHANGED <<emitter, level>>
    BY <1>14 DEF DrainNormal, ReaderStep, Take, state
  <2>2. \A k \in AllLevels : InHand(k)' = InHand(k)
    BY <2>1 DEF InHand
  <2>3. \A k \in AllLevels : taken'[k] + pending'[k] = taken[k] + pending[k]
    BY <1>14 DEF DrainNormal, ReaderStep, Take, TypeOK, Counts, ProtocolInv, TakenInv, AllLevels
  <2>4. ASSUME NEW k \in AllLevels PROVE Told(k)' = Told(k)
    <3>1. /\ reported[k] \in Nat /\ losses[k] \in Nat /\ taken[k] \in Nat
          /\ pending[k] \in Nat /\ late[k] \in Nat /\ uncounted[k] \in Nat
          /\ Count(records, k) \in Nat
      BY CountType DEF TypeOK, Counts
    <3>2. taken'[k] \in Nat /\ pending'[k] \in Nat
      BY <1>14 DEF DrainNormal, ReaderStep, Take, TypeOK, Counts, AllLevels
    <3>3. Told(k)' = reported[k] + Count(records, k) + losses[k] + taken'[k]
                       + pending'[k] + late[k] + uncounted[k]
      BY <2>1 DEF Told
    <3> QED BY <2>3, <3>1, <3>2, <3>3 DEF Told
  <2> QED BY <2>1, <2>2, <2>4 DEF EmittedInv
<1>15. ASSUME DrainDebug PROVE EmittedInv'
  <2>1. /\ UNCHANGED <<emitted, reported, records, losses, late, uncounted>>
        /\ UNCHANGED <<emitter, level>>
    BY <1>15 DEF DrainDebug, ReaderStep, Take, state
  <2>2. \A k \in AllLevels : InHand(k)' = InHand(k)
    BY <2>1 DEF InHand
  <2>3. \A k \in AllLevels : taken'[k] + pending'[k] = taken[k] + pending[k]
    BY <1>15 DEF DrainDebug, ReaderStep, Take, TypeOK, Counts, ProtocolInv, TakenInv, AllLevels
  <2>4. ASSUME NEW k \in AllLevels PROVE Told(k)' = Told(k)
    <3>1. /\ reported[k] \in Nat /\ losses[k] \in Nat /\ taken[k] \in Nat
          /\ pending[k] \in Nat /\ late[k] \in Nat /\ uncounted[k] \in Nat
          /\ Count(records, k) \in Nat
      BY CountType DEF TypeOK, Counts
    <3>2. taken'[k] \in Nat /\ pending'[k] \in Nat
      BY <1>15 DEF DrainDebug, ReaderStep, Take, TypeOK, Counts, AllLevels
    <3>3. Told(k)' = reported[k] + Count(records, k) + losses[k] + taken'[k]
                       + pending'[k] + late[k] + uncounted[k]
      BY <2>1 DEF Told
    <3> QED BY <2>3, <3>1, <3>2, <3>3 DEF Told
  <2> QED BY <2>1, <2>2, <2>4 DEF EmittedInv
<1>16. ASSUME DrainCommit PROVE EmittedInv'
  <2>1. UNCHANGED <<emitted, pending, late, uncounted, emitter, level>>
    BY <1>16 DEF DrainCommit, ReaderStep
  <2>2. \A k \in AllLevels : InHand(k)' = InHand(k)
    BY <2>1 DEF InHand
  <2>3. ASSUME NEW k \in AllLevels PROVE Told(k)' = Told(k)
    <3>1. /\ reported[k] \in Nat /\ losses[k] \in Nat /\ taken[k] \in Nat
          /\ pending[k] \in Nat /\ late[k] \in Nat /\ uncounted[k] \in Nat
          /\ Count(records, k) \in Nat
      BY CountType DEF TypeOK, Counts
    <3>2. /\ reported'[k] = reported[k] + Count(records, k) + (losses[k] + taken[k])
          /\ losses'[k] = 0 /\ taken'[k] = 0 /\ records' = <<>>
      BY <1>16 DEF DrainCommit, Lost, Zero
    <3>3. Count(<<>>, k) = 0
      BY FS_EmptySet DEF Count
    <3>4. Told(k)' = reported'[k] + 0 + 0 + 0 + pending[k] + late[k] + uncounted[k]
      BY <2>1, <3>2, <3>3 DEF Told
    <3> QED BY <3>1, <3>2, <3>4 DEF Told
  <2> QED BY <2>1, <2>2, <2>3 DEF EmittedInv
<1>17. CASE UNCHANGED vars
  <2>1. UNCHANGED <<emitted, reported, records, losses, taken, pending, late, uncounted,
                    emitter, level>>
    BY <1>17 DEF state, words, history, vars
  <2>2. \A l \in AllLevels : InHand(l)' = InHand(l)
    BY <2>1 DEF InHand
  <2> QED BY <2>1, <2>2 DEF EmittedInv, Told
<1> QED
  BY <1>1, <1>2, <1>3, <1>4, <1>5, <1>6, <1>7, <1>8, <1>9, <1>10, <1>11,
     <1>12, <1>13, <1>14, <1>15, <1>16, <1>17 DEF Next, Produce, Seal, Drain

(* The inductive invariant of the diagnostic stream.                       *)
THEOREM DiagnosticInvariant == Spec => []DiagInv
<1>1. Init => DiagInv
  <2> SUFFICES ASSUME Init PROVE DiagInv
    OBVIOUS
  <2>1. TypeOK
    <3>1. Zero \in Counts /\ records \in Seq(Records) /\ Len(records) <= Capacity
      BY DiagnosticAssumption DEF Init, Zero, Counts
    <3>2. /\ losses = Zero /\ pending = Zero /\ taken = Zero /\ emitted = Zero
          /\ reported = Zero /\ late = Zero /\ uncounted = Zero
      BY DEF Init
    <3>3. /\ sink \in [Sinks -> {"none", "live", "released", "last", "normal",
                                 "debug", "sealing", "gone"}]
          /\ fence \in [AllLevels -> BOOLEAN] /\ level \in [Emitters -> AllLevels]
          /\ emitter \in [Emitters -> {"idle", "offering", "locked", "counting"}]
      BY DEF Init, AllLevels
    <3> QED BY <3>1, <3>2, <3>3 DEF Init, TypeOK
  <2>2. ProducersInv
    <3>1. Producing = {Engine}
      BY DiagnosticAssumption DEF Init, Producing
    <3>2. Cardinality(Producing) = 1
      BY <3>1, FS_Singleton
    <3> QED BY <3>2 DEF Init, ProducersInv, Zero
  <2>3. ProtocolInv
    BY DEF Init, ProtocolInv, LockInv, FenceInv, TakenInv, FinalInv, Zero, AllLevels
  <2>4. EmittedInv
    <3> SUFFICES ASSUME NEW l \in AllLevels
                 PROVE  emitted[l] = Told(l) + Cardinality(InHand(l))
      BY DEF EmittedInv
    <3>1. InHand(l) = {} /\ Count(<<>>, l) = Cardinality({})
      BY DEF Init, InHand, Count
    <3>2. Cardinality(InHand(l)) = 0 /\ Count(<<>>, l) = 0
      BY <3>1, FS_EmptySet
    <3>3. /\ emitted[l] = 0 /\ reported[l] = 0 /\ records = <<>> /\ losses[l] = 0
          /\ taken[l] = 0 /\ pending[l] = 0 /\ late[l] = 0 /\ uncounted[l] = 0
      BY DEF Init, Zero
    <3> QED BY <3>2, <3>3 DEF Told
  <2> QED BY <2>1, <2>2, <2>3, <2>4 DEF DiagInv
<1>2. DiagInv /\ [Next]_vars => DiagInv'
  BY TypeStep, ProducersStep, LockStep, FenceStep, TakenStep, FinalStep,
     EmittedStep DEF DiagInv, ProtocolInv
<1> QED BY <1>1, <1>2, PTL DEF Spec

(* Every emission is told once, as a record or as a loss of its level, or  *)
(* is on its way, or came when no producer was left.                       *)
THEOREM DiagnosticLossesExact == Spec => []LossesExact
<1>1. DiagInv => LossesExact
  BY DEF DiagInv, ProducersInv, EmittedInv, Told, LossesExact
<1> QED BY <1>1, DiagnosticInvariant, PTL

(* After a drain that found the seal nothing more is reported, and every   *)
(* drain answers that the stream has ended.                                *)
THEOREM DiagnosticEndIsFinal == Spec => EndIsFinal
<1>1. ASSUME DiagInv, [Next]_vars, final
      PROVE  /\ UNCHANGED reported /\ final'
             /\ reader = "commit" => Answer = "EndOfStream"
  <2>1. /\ sealed /\ records = <<>>
        /\ \A l \in AllLevels : losses[l] = 0 /\ pending[l] = 0 /\ taken[l] = 0
    BY <1>1 DEF DiagInv, ProtocolInv, FinalInv
  <2>2. Answer = "EndOfStream"
    BY <2>1 DEF Answer, NothingToTell, Lost
  <2>3. CASE DrainCommit
    <3>1. \A l \in AllLevels : Count(records, l) = 0
      <4>1. \A l : Count(<<>>, l) = 0
        BY FS_EmptySet DEF Count
      <4> QED BY <2>1, <4>1
    <3>2. \A l \in AllLevels : reported[l] + Count(records, l) + Lost(l) = reported[l]
      BY <1>1, <2>1, <3>1 DEF Lost, DiagInv, TypeOK, Counts
    <3>3. /\ reported' = [l \in AllLevels |-> reported[l] + Count(records, l) + Lost(l)]
          /\ final' = sealed
      BY <2>3 DEF DrainCommit
    <3>4. reported' = [l \in AllLevels |-> reported[l]]
      BY <3>2, <3>3
    <3>5. reported' = reported
      BY <1>1, <3>4 DEF DiagInv, TypeOK, Counts
    <3> QED BY <2>1, <2>2, <3>3, <3>5
  <2>4. CASE ~DrainCommit
    <3>1. UNCHANGED <<reported, final>>
      BY <1>1, <2>4 DEF Next, Produce, Seal, Drain, TryLock, Emit, CountLoss,
         Discard, Offer, Emits, Clone, Release, Subtract, SealLock, SealNormal,
         SealDebug, SealFlag, SinkStep, DrainLock, DrainNormal, DrainDebug, Take,
         vars, history
    <3> QED BY <1>1, <2>2, <3>1
  <2> QED BY <2>3, <2>4
<1>2. DiagInv /\ [Next]_vars =>
        [final => /\ UNCHANGED reported /\ final'
                  /\ reader = "commit" => Answer = "EndOfStream"]_vars
  BY <1>1
<1> QED BY <1>2, DiagnosticInvariant, PTL DEF Spec, EndIsFinal

-----------------------------------------------------------------------------
(* The macOS session of the same run, for any number of threads that close *)
(* it.  Its inductive invariant: what each variable holds ...              *)
MacFrame == [extent : {1, 2}, asks : BOOLEAN, late : BOOLEAN]
MacStages == {"idle", "dispatched", "staging", "staged", "asking", "storing", "waking",
              "publishing", "leaving", "terminating", "failing", "disabling", "clearing",
              "ending", "waiting", "woken", "updating", "collapsing", "looking",
              "opening",
              "starting", "gating", "draining", "fencing", "closing", "committing",
              "settling"}

(* The threads that close are none of the session's own.                   *)
MacosAssumption ==
    /\ Closers \cap {"frame", "stop", "worker", "owner"} = {}
    /\ None \notin MacFrame

MacType ==
    /\ macLive \in {"none", "opening", "open", "dropping", "quarantined",
                    "gone", "leaked"}
    /\ macAt \in [Macos!Threads -> MacStages]
    /\ macSlot \in MacFrame \cup {None} /\ macHeld \in MacFrame \cup {None}
    /\ macDelivery \in MacFrame \cup {None} /\ macContent \in {1, 2}
    /\ macShutdown \in BOOLEAN /\ macAccepting \in BOOLEAN
    /\ macFenced \in BOOLEAN /\ macMissed \in BOOLEAN

(* ... what its owner does follows from its state, and nobody closes a     *)
(* session that is not open ...                                            *)
SessionInv ==
    /\ macLive = "opening" <=> macAt["owner"] \in {"opening", "starting"}
    /\ macLive = "dropping" =>
          macAt["owner"] \in {"disabling", "clearing", "draining", "fencing", "closing"}
    /\ macLive = "quarantined" => macAt["owner"] \in {"draining", "fencing", "closing"}
    /\ macLive \in {"none", "open", "gone", "leaked"} => macAt["owner"] = "idle"
    /\ macRegistered = IF macLive \in {"none", "gone"} THEN 0 ELSE 1
    /\ \A d \in Closers : macLive # "open" => macAt[d] = "idle"
    /\ macLive \in {"none", "opening"} => macPhase = "start"

(* ... who is past the drain of the worker has seen it end, and it does    *)
(* not come back ...                                                       *)
Behind == {"fencing", "closing", "committing", "settling"}

WorkerInv ==
    /\ macPhase # "start" => macAt["worker"] = "idle"
    /\ \A t \in Closers \cup {"owner"} : macAt[t] \in Behind => macAt["worker"] = "idle"

(* ... behind the fence no callback is inside; who is past it has emptied  *)
(* the slot, and nobody fills it any more, but for a drop that missed it ... *)
SealedInv ==
    /\ macFenced => \A t \in {"frame", "stop"} : macAt[t] \in {"idle", "dispatched"}
    /\ \A d \in Closers :
          macAt[d] \in {"closing", "committing",
          "settling"} => macFenced /\ macSlot = None
    /\ macAt["owner"] = "closing" /\ ~macMissed => macFenced /\ macSlot = None
    /\ macLive = "gone" => macFenced /\ macSlot = None

(* ... how far the native close has come ...                               *)
PhaseInv ==
    /\ macPhase = "complete" => macFenced
    /\ macPhase # "start" => macStart # "pending"
    /\ macStop = "pending" => macPhase \in {"stop", "submitting", "stopping"}
    /\ \A d \in Closers : macAt[d] \in {"committing", "settling"} => macPhase = "complete"
    /\ macLive = "gone" => macPhase = "complete"

(* ... and a frame left in the slot by an exception is there only once     *)
(* admission has ended, so that the delivery which stages or commits finds *)
(* the slot empty or its own frame.                                        *)
SlotInv ==
    /\ macAt["frame"] # "idle" => macDelivery # None /\ ~macDelivery.late
    /\ macAt["frame"] \in {"staging", "asking", "storing", "waking", "publishing",
                           "disabling", "clearing", "ending"} => macSlot = None
    /\ macAt["frame"] \in {"staged", "terminating"} => macSlot = None \/ ~macSlot.late
    /\ macAccepting /\ macAt["frame"] \notin {"staged", "terminating"} => macSlot = None
    /\ macAt["frame"] \in {"asking", "storing", "waking", "publishing"} =>
          macHeld # None /\ ~macHeld.late

MacInv == MacType /\ SessionInv /\ WorkerInv /\ SealedInv /\ PhaseInv /\ SlotInv

(* A session is opened, or its open is given up.                           *)
LEMMA OpeningSteps ==
    ASSUME MacosAssumption, MacInv,
           Macos!Open \/ Macos!Start \/ Macos!Opened \/ Macos!GiveUp
    PROVE  MacInv'
<1> USE DEF MacosAssumption, MacInv, MacType, SessionInv, WorkerInv, SealedInv,
    PhaseInv, SlotInv,
        MacStages, Behind, Macos!Goto, Macos!Threads, Macos!rust, Macos!fence,
        Macos!capture, Macos!resize, Macos!frames
<1>1. CASE Macos!Open
  BY <1>1 DEF Macos!Open
<1>2. CASE Macos!Start
  <2>1. /\ macAt["owner"] = "opening" /\ macStart' = "pending" /\ macShutdown' \in BOOLEAN
        /\ UNCHANGED <<Macos!rust, Macos!fence, macPhase, macStop, macContent,
                       Macos!frames>>
    BY <1>2 DEF Macos!Start
  <2>2. CASE macAt' = [macAt EXCEPT !["owner"] = "starting", !["worker"] = "waiting"]
    BY <2>1, <2>2
  <2>3. CASE macAt' = [macAt EXCEPT !["owner"] = "starting"]
    BY <2>1, <2>3
  <2> QED BY <1>2, <2>2, <2>3 DEF Macos!Start
<1>3. CASE Macos!Opened
  <2>1. /\ macAt["owner"] = "starting"
        /\ UNCHANGED <<macRegistered, macSlot, macMissed, Macos!fence, Macos!capture,
                       Macos!resize, Macos!frames>>
    BY <1>3 DEF Macos!Opened
  <2>2. CASE macLive' = "open" /\ macAt' = [macAt EXCEPT !["owner"] = "idle"]
    BY <2>1, <2>2
  <2>3. CASE macLive' = "dropping" /\ macAt' = [macAt EXCEPT !["owner"] = "disabling"]
    BY <2>1, <2>3
  <2> QED BY <1>3, <2>2, <2>3 DEF Macos!Opened
<1>4. CASE Macos!GiveUp
  BY <1>4 DEF Macos!GiveUp, Macos!Event
<1> QED BY <1>1, <1>2, <1>3, <1>4

(* What the framework does.                                                *)
LEMMA FrameworkSteps ==
    ASSUME MacosAssumption, MacInv,
           \/ Macos!StartCompletes \/ Macos!StopClears \/ Macos!StopCompletes
           \/ Macos!Resize \/ Macos!Arrive \/ Macos!DidStop
    PROVE  MacInv'
<1> USE DEF MacosAssumption, MacInv, MacType, SessionInv, WorkerInv, SealedInv,
    PhaseInv, SlotInv,
        MacStages, Behind, Macos!Goto, Macos!Threads, Macos!rust, Macos!fence,
        Macos!capture, Macos!resize, Macos!frames
<1>1. CASE Macos!StartCompletes
  BY <1>1 DEF Macos!StartCompletes
<1>2. CASE Macos!StopCompletes
  BY <1>2 DEF Macos!StopCompletes
<1>3. CASE Macos!Resize
  BY <1>3 DEF Macos!Resize
<1>4. CASE Macos!Arrive
  <2>1. /\ macAt["frame"] = "idle" /\ macAt' = [macAt EXCEPT !["frame"] = "dispatched"]
        /\ UNCHANGED <<Macos!rust, Macos!fence, Macos!capture, Macos!resize, macHeld>>
        /\ macDelivery' = [extent |-> macContent, asks |-> macContent # macSurface,
              late |-> FALSE]
    BY <1>4 DEF Macos!Arrive
  <2>2. macDelivery' \in MacFrame /\ ~macDelivery'.late
    BY <2>1 DEF MacFrame
  <2>3. macDelivery' # None
    BY <2>2
  <2> QED BY <2>1, <2>2, <2>3
<1>5. CASE Macos!DidStop
  BY <1>5 DEF Macos!DidStop
<1>6. CASE Macos!StopClears
  BY <1>6 DEF Macos!StopClears
<1> QED BY <1>1, <1>2, <1>3, <1>4, <1>5, <1>6

(* A delivery: it is admitted with an empty slot, for what was left there  *)
(* shut admission for good.                                                *)
LEMMA DeliverySteps ==
    ASSUME MacosAssumption, MacInv, Macos!Delivery \/ Macos!AdmitFinal
    PROVE  MacInv'
<1> USE DEF MacosAssumption, MacInv, MacType, SessionInv, WorkerInv, SealedInv,
    PhaseInv, SlotInv,
        MacStages, Behind, Macos!Goto, Macos!Threads, Macos!rust, Macos!fence,
        Macos!capture, Macos!resize, Macos!frames
<1>1. CASE Macos!Admit
  BY <1>1 DEF Macos!Admit
<1>2. CASE Macos!Turn
  <2>1. PICK place \in {"leaving",
      "terminating"} : macAt' = [macAt EXCEPT !["frame"] = place]
    BY <1>2 DEF Macos!Turn
  <2>2. /\ macAt["frame"] = "staging"
        /\ UNCHANGED <<Macos!rust, Macos!fence, Macos!capture, Macos!resize, Macos!frames>>
    BY <1>2 DEF Macos!Turn
  <2> QED BY <2>1, <2>2
<1>3. CASE Macos!Stage
  BY <1>3 DEF Macos!Stage
<1>4. CASE Macos!Raise
  BY <1>4 DEF Macos!Raise, Macos!Event
<1>5. CASE Macos!Commit
  BY <1>5 DEF Macos!Commit
<1>6. CASE Macos!Ask
  BY <1>6 DEF Macos!Ask
<1>7. CASE Macos!Store
  BY <1>7 DEF Macos!Store
<1>8. CASE Macos!Wake
  <2>1. /\ macAt["frame"] = "waking" /\ macAt' = [macAt EXCEPT !["frame"] = "publishing"]
        /\ UNCHANGED <<Macos!rust, Macos!fence, Macos!capture, macContent, Macos!frames>>
    BY <1>8 DEF Macos!Wake
  <2>2. macShutdown' \in BOOLEAN
    BY <1>8 DEF Macos!Wake
  <2> QED BY <2>1, <2>2
<1>9. CASE Macos!Publish
  <2>1. PICK place \in {"leaving", "failing"} : macAt' = [macAt EXCEPT !["frame"] = place]
    BY <1>9 DEF Macos!Publish
  <2>2. /\ macAt["frame"] = "publishing" /\ macHeld' = None
        /\ UNCHANGED <<macLive, macRegistered, macSlot, macMissed, Macos!fence,
                       Macos!capture, Macos!resize, macDelivery>>
    BY <1>9 DEF Macos!Publish
  <2> QED BY <2>1, <2>2
<1>10. CASE Macos!AdmitFinal
  BY <1>10 DEF Macos!AdmitFinal
<1> QED BY <1>1, <1>2, <1>3, <1>4, <1>5, <1>6, <1>7, <1>8, <1>9, <1>10 DEF Macos!Delivery

(* The worker moves nobody else, and is not idle when it does.             *)
LEMMA WorkerSteps ==
    ASSUME MacosAssumption, MacInv, Macos!Worker PROVE MacInv'
<1> USE DEF MacosAssumption, MacInv, MacType, SessionInv, WorkerInv, SealedInv,
    PhaseInv, SlotInv,
        MacStages, Behind, Macos!Goto, Macos!Threads, Macos!rust, Macos!fence,
        Macos!capture, Macos!resize, Macos!frames
<1>1. macAt["worker"] # "idle" /\ UNCHANGED <<Macos!rust, Macos!fence, Macos!capture,
                                              macShutdown, macContent, Macos!frames>>
  BY DEF Macos!Worker, Macos!Wait, Macos!Swap, Macos!Update, Macos!Collapse, Macos!Look
<1>2. PICK place \in MacStages : macAt' = [macAt EXCEPT !["worker"] = place]
  BY DEF Macos!Worker, Macos!Wait, Macos!Swap, Macos!Update, Macos!Collapse, Macos!Look
<1> QED BY <1>1, <1>2

(* The ways out of a callback and of the worker: Terminalize has shut      *)
(* admission behind the frame that Leave marks late.                       *)
LEMMA EndingSteps ==
    ASSUME MacosAssumption, MacInv,
           NEW t \in {"frame", "stop", "worker"}, Macos!Ending(t)
    PROVE  MacInv'
<1> USE DEF MacosAssumption, MacInv, MacType, SessionInv, WorkerInv, SealedInv,
    PhaseInv, SlotInv,
        MacStages, Behind, Macos!Goto, Macos!Threads, Macos!rust, Macos!fence,
        Macos!capture, Macos!resize, Macos!frames
<1>1. CASE Macos!Terminalize(t)
  <2>1. PICK place \in {"leaving", "failing"} : macAt' = [macAt EXCEPT ![t] = place]
    BY <1>1 DEF Macos!Terminalize
  <2>2. /\ macAt[t] = "terminating" /\ ~macAccepting' /\ macAccepting' \in BOOLEAN
        /\ UNCHANGED <<Macos!rust, macFenced, Macos!capture, Macos!resize, Macos!frames>>
    BY <1>1 DEF Macos!Terminalize
  <2>3. CASE place = "leaving"
    BY <2>1, <2>2, <2>3
  <2>4. CASE place = "failing"
    BY <2>1, <2>2, <2>4
  <2> QED BY <2>3, <2>4
<1>2. CASE Macos!Fail(t)
  BY <1>2 DEF Macos!Fail
<1>3. CASE Macos!Disable(t)
  <2>1. PICK place \in {"clearing", "ending"} : macAt' = [macAt EXCEPT ![t] = place]
    BY <1>3 DEF Macos!Disable, Macos!AfterShutdown
  <2>2. /\ macAt[t] = "disabling" /\ ~macAccepting' /\ macAccepting' \in BOOLEAN
        /\ macShutdown' \in BOOLEAN
        /\ UNCHANGED <<Macos!rust, macFenced, Macos!capture, macContent, Macos!frames>>
    BY <1>3 DEF Macos!Disable
  <2>3. CASE place = "clearing"
    BY <2>1, <2>2, <2>3
  <2>4. CASE place = "ending"
    BY <2>1, <2>2, <2>4
  <2> QED BY <2>3, <2>4
<1>4. CASE Macos!Clear(t)
  BY <1>4 DEF Macos!Clear, Macos!AfterShutdown
<1>5. CASE Macos!Terminate(t)
  BY <1>5 DEF Macos!Terminate
<1>6. CASE Macos!Leave(t)
  <2>1. /\ macAt[t] = "leaving" /\ macAt' = [macAt EXCEPT ![t] = "idle"]
        /\ UNCHANGED <<macLive, macRegistered, macMissed, Macos!fence, Macos!capture,
                       Macos!resize, macHeld>>
    BY <1>6 DEF Macos!Leave
  <2>2. CASE t = "frame" /\ macSlot # None
    <3>1. macDelivery' = None /\ macSlot' = [macSlot EXCEPT !.late = TRUE]
      BY <1>6, <2>2 DEF Macos!Leave
    <3>2. macSlot' \in MacFrame
      BY <2>2, <3>1 DEF MacFrame
    <3> QED BY <2>1, <2>2, <3>1, <3>2
  <2>3. CASE t = "frame" /\ macSlot = None
    <3>1. macDelivery' = None /\ macSlot' = None
      BY <1>6, <2>3 DEF Macos!Leave
    <3> QED BY <2>1, <2>3, <3>1
  <2>4. CASE t # "frame"
    <3>1. UNCHANGED <<macDelivery, macSlot>>
      BY <1>6, <2>4 DEF Macos!Leave
    <3> QED BY <2>1, <2>4, <3>1
  <2> QED BY <2>2, <2>3, <2>4
<1> QED BY <1>1, <1>2, <1>3, <1>4, <1>5, <1>6 DEF Macos!Ending

(* A step of the native close, whichever thread takes it.                  *)
LEMMA PhaseSteps ==
    ASSUME MacosAssumption, MacInv, NEW t \in Closers \cup {"owner"}, Macos!Advance(t)
    PROVE  MacInv'
<1>1. /\ macAt[t] = "closing" /\ Macos!Phase
      /\ UNCHANGED <<Macos!rust, macAccepting, macStart, Macos!resize, Macos!frames,
                     macAt>>
  BY DEF Macos!Advance
<1>2. macAt["worker"] = "idle" /\ macLive \notin {"none", "opening"}
  BY <1>1, MacosAssumption DEF MacInv, SessionInv, WorkerInv, Behind
<1>3. MacType' /\ SessionInv' /\ WorkerInv' /\ SlotInv'
  <2>1. macFenced' \in BOOLEAN
    BY <1>1 DEF MacInv, MacType, Macos!Phase, Macos!PhaseStart, Macos!PhaseOutput,
       Macos!PhaseStop, Macos!PhaseSubmit, Macos!PhaseRenew, Macos!PhaseStopped,
       Macos!PhaseFence
  <2>2. MacType'
    BY <1>1, <2>1 DEF MacInv, MacType, Macos!rust, Macos!resize, Macos!frames
  <2>3. SessionInv'
    BY <1>1, <1>2 DEF MacInv, SessionInv, Macos!rust
  <2>4. WorkerInv'
    BY <1>1, <1>2 DEF MacInv, WorkerInv
  <2>5. SlotInv'
    BY <1>1 DEF MacInv, SlotInv, Macos!rust, Macos!frames
  <2> QED BY <2>2, <2>3, <2>4, <2>5
<1>4. SealedInv' /\ PhaseInv'
  <2> USE <1>1 DEF MacInv, SealedInv, PhaseInv, Macos!rust
  <2>1. CASE Macos!PhaseStart
    BY <2>1 DEF Macos!PhaseStart
  <2>2. CASE Macos!PhaseOutput
    BY <2>2 DEF Macos!PhaseOutput
  <2>3. CASE Macos!PhaseSubmit
    BY <2>3 DEF Macos!PhaseSubmit
  <2>4. CASE Macos!PhaseStopped
    BY <2>4 DEF Macos!PhaseStopped
  <2>5. CASE Macos!PhaseFence
    BY <2>5 DEF Macos!PhaseFence, Macos!Inside
  <2>6. CASE Macos!PhaseStop
    BY <2>6 DEF Macos!PhaseStop
  <2>7. CASE Macos!PhaseRenew
    BY <2>7 DEF Macos!PhaseRenew
  <2> QED BY <2>1, <2>2, <2>3, <2>4, <2>5, <2>6, <2>7 DEF Macos!Phase
<1> QED BY <1>3, <1>4 DEF MacInv

(* The close calls.                                                        *)
LEMMA CloserSteps ==
    ASSUME MacosAssumption, MacInv, NEW d \in Closers,
           Macos!Call(d) \/ Macos!Interrupt(d) \/ Macos!CloseStep(d)
    PROVE  MacInv'
<1> USE DEF MacosAssumption, MacInv, MacType, SessionInv, WorkerInv, SealedInv,
    PhaseInv, SlotInv,
        MacStages, Behind, Macos!Goto, Macos!Threads, Macos!rust, Macos!fence,
        Macos!capture, Macos!resize, Macos!frames
<1>1. CASE Macos!Call(d)
  BY <1>1 DEF Macos!Call, Macos!Event
<1>2. CASE Macos!Interrupt(d)
  BY <1>2 DEF Macos!Interrupt, Macos!Event
<1>3. CASE Macos!Disable(d)
  <2>1. PICK place \in {"clearing", "gating"} : macAt' = [macAt EXCEPT ![d] = place]
    BY <1>3 DEF Macos!Disable, Macos!AfterShutdown
  <2>2. /\ macAt[d] = "disabling" /\ ~macAccepting' /\ macAccepting' \in BOOLEAN
        /\ macShutdown' \in BOOLEAN
        /\ UNCHANGED <<Macos!rust, macFenced, Macos!capture, macContent, Macos!frames>>
    BY <1>3 DEF Macos!Disable
  <2>3. CASE place = "clearing"
    BY <2>1, <2>2, <2>3
  <2>4. CASE place = "gating"
    BY <2>1, <2>2, <2>4
  <2> QED BY <2>3, <2>4
<1>4. CASE Macos!Clear(d)
  BY <1>4 DEF Macos!Clear, Macos!AfterShutdown
<1>5. CASE Macos!Abandon(d)
  BY <1>5 DEF Macos!Abandon, Macos!Return
<1>6. CASE Macos!Enter(d)
  BY <1>6 DEF Macos!Enter
<1>7. CASE Macos!Drained(d)
  BY <1>7 DEF Macos!Drained
<1>8. CASE Macos!Fence(d)
  BY <1>8 DEF Macos!Fence, Macos!Inside
<1>9. CASE Macos!Complete(d)
  BY <1>9 DEF Macos!Complete
<1>10. CASE Macos!Report(d)
  <2>1. PICK place \in {"idle", "settling"} : macAt' = [macAt EXCEPT ![d] = place]
    BY <1>10 DEF Macos!Report, Macos!Return
  <2>2. /\ macAt[d] = "committing"
        /\ UNCHANGED <<macLive, macRegistered, macSlot, macMissed, Macos!fence,
                       Macos!capture, Macos!resize, Macos!frames>>
    BY <1>10 DEF Macos!Report
  <2> QED BY <2>1, <2>2
<1>11. CASE Macos!Settle(d)
  BY <1>11 DEF Macos!Settle, Macos!Return
<1> QED BY PhaseSteps, <1>1, <1>2, <1>3, <1>4, <1>5, <1>6, <1>7, <1>8, <1>9, <1>10, <1>11
        DEF Macos!CloseStep

(* The drop.  What missed its fence is not reclaimed: Reclaim hands it to a*)
(* quarantine, which goes through the fence again.                         *)
LEMMA DropSteps ==
    ASSUME MacosAssumption, MacInv,
           \/ Macos!Drop \/ Macos!Disable("owner") \/ Macos!Clear("owner")
           \/ Macos!DropDrained \/ Macos!Fence("owner") \/ Macos!DropTimesOut
           \/ Macos!Reclaim
    PROVE  MacInv'
<1> USE DEF MacosAssumption, MacInv, MacType, SessionInv, WorkerInv, SealedInv,
    PhaseInv, SlotInv,
        MacStages, Behind, Macos!Goto, Macos!Threads, Macos!rust, Macos!fence,
        Macos!capture, Macos!resize, Macos!frames
<1>1. CASE Macos!Drop
  BY <1>1 DEF Macos!Drop, Macos!Calling, Macos!Event
<1>2. CASE Macos!Disable("owner")
  <2>1. PICK place \in {"clearing",
      "draining"} : macAt' = [macAt EXCEPT !["owner"] = place]
    BY <1>2 DEF Macos!Disable, Macos!AfterShutdown
  <2>2. /\ macAt["owner"] = "disabling" /\ ~macAccepting' /\ macAccepting' \in BOOLEAN
        /\ macShutdown' \in BOOLEAN
        /\ UNCHANGED <<Macos!rust, macFenced, Macos!capture, macContent, Macos!frames>>
    BY <1>2 DEF Macos!Disable
  <2>3. CASE place = "clearing"
    BY <2>1, <2>2, <2>3
  <2>4. CASE place = "draining"
    BY <2>1, <2>2, <2>4
  <2> QED BY <2>3, <2>4
<1>3. CASE Macos!Clear("owner")
  BY <1>3 DEF Macos!Clear, Macos!AfterShutdown
<1>4. CASE Macos!DropDrained
  BY <1>4 DEF Macos!DropDrained
<1>5. CASE Macos!Fence("owner")
  BY <1>5 DEF Macos!Fence, Macos!Inside
<1>6. CASE Macos!DropTimesOut
  <2>1. /\ macLive = "dropping"
        /\ UNCHANGED <<macRegistered, macSlot, Macos!fence, Macos!capture,
                       Macos!resize, Macos!frames>>
    BY <1>6 DEF Macos!DropTimesOut
  <2>2. CASE Macos!Quarantine
    <3>1. ~macMissed' /\ macMissed' \in BOOLEAN
      BY <2>2 DEF Macos!Quarantine
    <3>2. CASE macLive' = "quarantined" /\ macAt' = [macAt EXCEPT !["owner"] = "draining"]
      BY <2>1, <3>1, <3>2
    <3>3. CASE macLive' = "leaked" /\ macAt' = [macAt EXCEPT !["owner"] = "idle"]
      BY <2>1, <3>1, <3>3
    <3> QED BY <2>2, <3>2, <3>3 DEF Macos!Quarantine
  <2>3. CASE ~Macos!Quarantine
    <3>1. /\ macAt["owner"] = "fencing" /\ macMissed' = TRUE /\ UNCHANGED macLive
          /\ macAt' = [macAt EXCEPT !["owner"] = "closing"]
      BY <1>6, <2>3 DEF Macos!DropTimesOut
    <3> QED BY <2>1, <3>1
  <2> QED BY <2>2, <2>3
<1>7. CASE Macos!Reclaim
  <2>1. /\ macAt["owner"] = "closing" /\ macPhase = "complete"
        /\ UNCHANGED <<macSlot, Macos!fence, macPhase, macStart, macStop, Macos!resize,
                       Macos!frames>>
    BY <1>7 DEF Macos!Reclaim
  <2>2. CASE macMissed
    <3>1. Macos!Quarantine /\ UNCHANGED macRegistered
      BY <1>7, <2>2 DEF Macos!Reclaim
    <3>2. CASE macLive' = "quarantined" /\ macAt' = [macAt EXCEPT !["owner"] = "draining"]
      BY <2>1, <3>1, <3>2 DEF Macos!Quarantine
    <3>3. CASE macLive' = "leaked" /\ macAt' = [macAt EXCEPT !["owner"] = "idle"]
      BY <2>1, <3>1, <3>3 DEF Macos!Quarantine
    <3> QED BY <3>1, <3>2, <3>3 DEF Macos!Quarantine
  <2>3. CASE ~macMissed
    <3>1. /\ macLive' = "gone" /\ macRegistered' = macRegistered - 1
          /\ UNCHANGED macMissed /\ macAt' = [macAt EXCEPT !["owner"] = "idle"]
      BY <1>7, <2>3 DEF Macos!Reclaim
    <3> QED BY <2>1, <2>3, <3>1
  <2> QED BY <2>2, <2>3
<1> QED BY <1>1, <1>2, <1>3, <1>4, <1>5, <1>6, <1>7

LEMMA MacInitially == ASSUME MacosAssumption, Macos!Init PROVE MacInv
BY DEF MacosAssumption, Macos!Init, MacInv, MacType, SessionInv, WorkerInv, SealedInv,
       PhaseInv, SlotInv, MacStages, Behind, Macos!Threads

LEMMA MacSteps == ASSUME MacosAssumption, MacInv, [Macos!Next]_macVars PROVE MacInv'
<1>1. CASE Macos!Next
  BY <1>1, OpeningSteps, FrameworkSteps, DeliverySteps, WorkerSteps, EndingSteps,
     PhaseSteps, CloserSteps, DropSteps DEF Macos!Next, Macos!Owner, Macos!Completion
<1>2. CASE UNCHANGED macVars
  BY <1>2 DEF macVars, MacInv, MacType, SessionInv, WorkerInv, SealedInv, PhaseInv,
     SlotInv
<1> QED BY <1>1, <1>2

(* A step of the run is one of the macOS session or leaves it alone.       *)
LEMMA PartSteps == ASSUME [PartNext]_<<part, vars, macVars>>
                   PROVE  [Macos!Next]_macVars
BY DEF PartNext

(* The invariant of the session holds in every execution of the run.       *)
THEOREM MacosInvariant == ASSUME MacosAssumption PROVE PartSpec => []MacInv
<1>1. MacInv /\ [PartNext]_<<part, vars, macVars>> => MacInv'
  BY PartSteps, MacSteps
<1> QED BY <1>1, MacInitially, PTL DEF PartSpec, PartInit

(* However close calls, a drop, the callbacks and the worker interleave,   *)
(* the native objects go and the registration is given back only when no   *)
(* callback is inside or can enter, the worker has ended and nothing is    *)
(* submitted (close_registered, quarantine_session, mp_shim_session_close). *)
THEOREM MacosReclaimsSafely == ASSUME MacosAssumption PROVE PartSpec => []ReclaimedSafely
<1>1. ASSUME MacInv PROVE ReclaimedSafely
  BY <1>1 DEF MacInv, MacType, SessionInv, WorkerInv, SealedInv, PhaseInv,
     ReclaimedSafely,
     Macos!ReclaimedSafely, Macos!Inside
<1> QED BY <1>1, MacosInvariant, PTL

LEMMA OnlyMacPublishes ==
    ASSUME [Macos!Next]_macVars, macPublished' # macPublished PROVE Macos!Publish
BY DEF Macos!Next, Macos!Owner, Macos!Completion, Macos!Delivery, Macos!Worker,
       Macos!Ending, Macos!CloseStep, macVars, Macos!rust, Macos!Open, Macos!Start,
       Macos!Opened, Macos!GiveUp, Macos!Drop, Macos!DropTimesOut, Macos!Quarantine,
       Macos!StartCompletes, Macos!StopClears, Macos!StopCompletes, Macos!Resize, Macos!Arrive,
       Macos!DidStop, Macos!Admit, Macos!Turn, Macos!Stage, Macos!Raise, Macos!Commit,
       Macos!Ask, Macos!Store, Macos!Wake, Macos!AdmitFinal, Macos!Wait, Macos!Swap,
       Macos!Update, Macos!Collapse, Macos!Look, Macos!Terminalize, Macos!Fail,
       Macos!Disable, Macos!Clear, Macos!Terminate, Macos!Leave, Macos!Call,
       Macos!Interrupt, Macos!Abandon, Macos!Enter, Macos!Drained, Macos!Fence,
       Macos!Advance, Macos!Complete, Macos!Report, Macos!Settle, Macos!Return,
       Macos!DropDrained, Macos!Reclaim

(* A frame that an exception left in the slot is never published as that   *)
(* of a later delivery (stage_frame, commit_staged_frame,                  *)
(* mp_shim_session_terminalize).                                           *)
THEOREM MacosPublishesOwn == ASSUME MacosAssumption PROVE PartSpec => PublishesOwn
<1>1. ASSUME MacInv, [PartNext]_<<part, vars, macVars>>
      PROVE  [macPublished' # macPublished => ~macPublished'.late]_Macos!vars
  <2>1. ASSUME macPublished' # macPublished PROVE ~macPublished'.late
    <3>1. Macos!Publish
      BY <1>1, <2>1, PartSteps, OnlyMacPublishes
    <3>2. ~macHeld.late
      BY <1>1, <3>1 DEF Macos!Publish, MacInv, SlotInv
    <3>3. macPublished' = [extent |-> macHeld.extent, late |-> macHeld.late]
      BY <2>1, <3>1 DEF Macos!Publish
    <3> QED BY <3>2, <3>3
  <2> QED BY <2>1
<1> QED BY <1>1, MacosInvariant, PTL DEF PartSpec, PublishesOwn, Macos!PublishesOwn

=============================================================================
