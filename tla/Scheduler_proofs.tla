-------------------------- MODULE Scheduler_proofs --------------------------
(***************************************************************************)
(* Proofs about the life of template queries, for any sessions, queries    *)
(* and limits: the counters are what is held, a started query has its      *)
(* thread, and closes that have all returned left nothing of a session.    *)
(* It also shows, for the run that checks both, the turns of the OCR lease. *)
(***************************************************************************)
EXTENDS MCScheduler, FiniteSetTheorems, TLAPS

(* What a query holds at each point of its start and of its end.           *)
Early == {"new", "admitted", "watched", "starting"}
Started == {"registered", "spawning", "live"}

Holding(q) ==
    /\ pc[q] \in Early => held[q] = "nothing"
    /\ pc[q] \in {"reserved", "unreserve"} => held[q] = "engine"
    /\ pc[q] \notin {"reserved", "unreserve"} => held[q] # "engine"
    /\ pc[q] = "slotted" => held[q] = "slot"
    /\ pc[q] \in Started /\ ~ended[q] => held[q] = "slot" /\ q \in queries[Of[q]]
    /\ ended[q] => pc[q] \in Started \cup {"refused"}
    /\ pc[q] = "refused" /\ ~ended[q] => held[q] = "nothing"

HoldInv ==
    /\ \A q \in Queries : Holding(q)
    /\ \A s \in Sessions : \A q \in queries[s] :
          Of[q] = s /\ pc[q] \in Started \cup {"refused"}

(* A session with queries is one of the active ones.                       *)
ActiveInv == \A s \in Sessions : active[s] > 0 => activated[s]

(* Where the acquisition thread is, and why it leaves.                     *)
Serving(s) ==
    /\ running[s] <=> thread[s] # "none"
    /\ exiting[s] => thread[s] = "leaving"
    /\ thread[s] \in {"ending", "finished"} => sourceEnded[s]
    /\ thread[s] = "leaving" => exiting[s] \/ closed[s] \/ sourceEnded[s]

(* A started query is served, by a thread that has not decided to leave.   *)
Acquired(s) ==
    \A q \in Queries :
        Of[q] = s /\ pc[q] = "live" /\ ~ended[q] /\ ~closed[s] /\ ~sourceEnded[s] =>
            running[s] /\ ~exiting[s]

(* How far the closes of a session have come: once the one that ends the   *)
(* queries has done so, no query of the session lives.                     *)
Inside == {"cancel", "terminate", "deactivate", "join", "joining"}

Cut(s) ==
    /\ \A c \in Closers : call[s][c] \in Inside => closed[s]
    /\ closed[s] /\ (\A c \in Closers : call[s][c] \notin {"cancel", "terminate"}) =>
          \A q \in Queries : Of[q] = s /\ pc[q] \in Started => ended[q]

(* A close that found no watcher came before any query got further than    *)
(* the second test of the gate, which none will pass.                      *)
Unseen == {"new", "admitted", "refused"}

Missed(s) ==
    /\ \A q \in Queries : Of[q] = s /\ pc[q] # "refused" => call[s][q] = "idle"
    /\ \A c \in Closers : call[s][c] = "gated" => gate[s]
    /\ ~watcher[s] => \A q \in Queries : Of[q] = s => pc[q] \in Unseen
    /\ ~closed[s] /\ (\E c \in Closers : call[s][c] = "done") =>
          /\ gate[s]
          /\ \A q \in Queries : Of[q] = s => pc[q] \in Unseen \cup {"watched"}

(* Who spawns the thread, under the state lock ...                         *)
Spawned(s) ==
    \A q \in Queries : Of[q] = s /\ pc[q] = "spawning" =>
        /\ ~running[s]
        /\ closed[s] => \E c \in Closers : call[s][c] = "cancel"
        /\ \A p \in Queries : Of[p] = s /\ pc[p] = "spawning" => p = q

(* ... and who joins it.                                                   *)
Owned(s) ==
    /\ thread[s] # "none" =>
          /\ handle[s] \/ \E c \in Closers : call[s][c] = "joining"
          /\ \E q \in Queries : Of[q] = s /\ pc[q] = "live"
    /\ handle[s] /\ closed[s] => \E c \in Closers : call[s][c] \in Inside

SessionInv(s) ==
    /\ Serving(s) /\ Acquired(s) /\ Cut(s)
    /\ Missed(s) /\ Spawned(s) /\ Owned(s)

ThreadInv == \A s \in Sessions : SessionInv(s)

LifecycleInv ==
    /\ TypeOK /\ CountsExact /\ ActiveInv
    /\ HoldInv /\ ThreadInv

(* What the parts about threads and closes look at, beside the queries.    *)
threadVars == <<running, exiting, thread, handle, closed, sourceEnded, call, gate,
                watcher>>

USE LifecycleAssumption
USE DEF gateVars, schedulerVars, countVars, flagVars, acquisitionVars, queryVars,
        Goto, At, Move, SchedulerClosed, Shut, threadVars, Started, Unseen, Inside

-----------------------------------------------------------------------------
LEMMA LifecycleInit == Init => LifecycleInv
<1> SUFFICES ASSUME Init PROVE LifecycleInv
  OBVIOUS
<1>1. TypeOK
  BY DEF Init, TypeOK, SchedulerType, SessionType, Calls, AcquisitionType, Places,
         QueryType, Points, Holdings
<1>2. /\ EngineHolders = {} /\ \A s \in Sessions : SlotHolders(s) = {}
      /\ {s \in Sessions : activated[s]} = {}
  BY DEF Init, EngineHolders, SlotHolders
<1>3. CountsExact
  <2>1. /\ queryCount = 0 /\ activeSessions = 0
        /\ \A s \in Sessions : active[s] = 0
    BY DEF Init
  <2> QED BY <1>2, <2>1, FS_EmptySet DEF CountsExact
<1>4. ActiveInv /\ HoldInv
  BY DEF Init, ActiveInv, HoldInv, Holding, Early
<1>5. ThreadInv
  <2> SUFFICES ASSUME NEW s \in Sessions PROVE SessionInv(s)
    BY DEF ThreadInv
  <2>1. Serving(s) /\ Acquired(s)
    BY DEF Init, Serving, Acquired
  <2>2. Queries \subseteq Closers /\ \A c \in Closers : call[s][c] = "idle"
    BY DEF Init, Closers
  <2>3. Cut(s) /\ Missed(s)
    BY <2>2 DEF Init, Cut, Missed
  <2>4. Spawned(s) /\ Owned(s)
    BY DEF Init, Spawned, Owned
  <2> QED BY <2>1, <2>3, <2>4 DEF SessionInv
<1> QED BY <1>1, <1>3, <1>4, <1>5 DEF LifecycleInv

-----------------------------------------------------------------------------
(* The sets that the counters count.                                       *)

LEMMA HoldersAreFinite ==
    /\ IsFiniteSet(EngineHolders)
    /\ \A s \in Sessions : IsFiniteSet(SlotHolders(s))
    /\ IsFiniteSet({s \in Sessions : activated[s]})
<1>1. /\ EngineHolders \in SUBSET Queries
      /\ \A s \in Sessions : SlotHolders(s) \in SUBSET Queries
      /\ {s \in Sessions : activated[s]} \in SUBSET Sessions
  BY DEF EngineHolders, SlotHolders
<1> QED BY <1>1, FS_Subset

(* What one query comes to hold changes the sets by that query at most.    *)
LEMMA HoldersChange ==
    ASSUME TypeOK, NEW q \in Queries,
           NEW v \in Holdings,
           held' = [held EXCEPT ![q] = v]
    PROVE  /\ EngineHolders' = IF v \in {"engine", "slot"} THEN EngineHolders \cup {q}
                               ELSE EngineHolders \ {q}
           /\ SlotHolders(Of[q])' =
                 IF v \in {"slot", "slot only"} THEN SlotHolders(Of[q]) \cup {q}
                 ELSE SlotHolders(Of[q]) \ {q}
           /\ \A s \in Sessions : s # Of[q] => SlotHolders(s)' = SlotHolders(s)
<1>0. held \in [Queries -> Holdings] /\ v \in Holdings
  BY DEF TypeOK, QueryType, Holdings
<1>1. held'[q] = v /\ \A p \in Queries : p # q => held'[p] = held[p]
  BY <1>0
<1>2. EngineHolders' = IF v \in {"engine", "slot"} THEN EngineHolders \cup {q}
                       ELSE EngineHolders \ {q}
  BY <1>1 DEF EngineHolders
<1>3. SlotHolders(Of[q])' =
         IF v \in {"slot", "slot only"} THEN SlotHolders(Of[q]) \cup {q}
         ELSE SlotHolders(Of[q]) \ {q}
  BY <1>1 DEF SlotHolders
<1>4. \A s \in Sessions : s # Of[q] => SlotHolders(s)' = SlotHolders(s)
  BY <1>1 DEF SlotHolders
<1> QED BY <1>2, <1>3, <1>4

(* One session that is activated or deactivated.                           *)
LEMMA ActivatedChange ==
    ASSUME TypeOK, NEW s \in Sessions, NEW b \in BOOLEAN,
           activated' = [activated EXCEPT ![s] = b],
           activeSessions = Cardinality({t \in Sessions : activated[t]})
    PROVE  Cardinality({t \in Sessions : activated'[t]}) =
              IF b = activated[s] THEN activeSessions
              ELSE IF b THEN activeSessions + 1 ELSE activeSessions - 1
<1> DEFINE A == {t \in Sessions : activated[t]}
<1>0. activated \in [Sessions -> BOOLEAN]
  BY DEF TypeOK, SessionType
<1>1. {t \in Sessions : activated'[t]} = IF b THEN A \cup {s} ELSE A \ {s}
  BY <1>0
<1>2. activated[s] \in BOOLEAN /\ (s \in A <=> activated[s]) /\ IsFiniteSet(A)
  BY <1>0, HoldersAreFinite
<1>3. /\ Cardinality(A \cup {s}) = IF s \in A THEN Cardinality(A) ELSE Cardinality(A) + 1
      /\ Cardinality(A \ {s}) = IF s \in A THEN Cardinality(A) - 1 ELSE Cardinality(A)
  BY <1>2, FS_AddElement, FS_RemoveElement
<1> QED BY <1>1, <1>2, <1>3

(* Whoever holds something is counted.                                     *)
LEMMA HolderIsCounted ==
    ASSUME LifecycleInv, NEW q \in Queries
    PROVE  /\ held[q] \in {"engine", "slot"} => queryCount > 0
           /\ held[q] \in {"slot", "slot only"} => active[Of[q]] > 0
<1>1. /\ IsFiniteSet(EngineHolders) /\ IsFiniteSet(SlotHolders(Of[q]))
      /\ Cardinality(EngineHolders) \in Nat /\ Cardinality(SlotHolders(Of[q])) \in Nat
  BY HoldersAreFinite, FS_CardinalityType
<1>2. held[q] \in {"engine", "slot"} => Cardinality(EngineHolders) # 0
  BY <1>1, FS_EmptySet DEF EngineHolders
<1>3. held[q] \in {"slot", "slot only"} => Cardinality(SlotHolders(Of[q])) # 0
  BY <1>1, FS_EmptySet DEF SlotHolders
<1>4. /\ queryCount = Cardinality(EngineHolders)
      /\ active[Of[q]] = Cardinality(SlotHolders(Of[q]))
  BY DEF LifecycleInv, CountsExact
<1>5. queryCount \in Nat /\ active[Of[q]] \in Nat
  BY DEF LifecycleInv, TypeOK, SchedulerType, SessionType
<1>6. /\ held[q] \in {"engine", "slot"} => queryCount # 0
      /\ held[q] \in {"slot", "slot only"} => active[Of[q]] # 0
  BY <1>2, <1>3, <1>4
<1>7. \A n \in Nat : n # 0 => n > 0
  OBVIOUS
<1> QED BY <1>5, <1>6, <1>7

(* What the counters must say once a query holds something else.           *)
LEMMA CountsChange ==
    ASSUME LifecycleInv, NEW q \in Queries, NEW v \in Holdings,
           held' = [held EXCEPT ![q] = v]
    PROVE  /\ Cardinality(EngineHolders') =
                 IF held[q] \in {"engine", "slot"}
                   THEN IF v \in {"engine", "slot"} THEN queryCount ELSE queryCount - 1
                   ELSE IF v \in {"engine", "slot"} THEN queryCount + 1 ELSE queryCount
           /\ Cardinality(SlotHolders(Of[q])') =
                 IF held[q] \in {"slot", "slot only"}
                   THEN IF v \in {"slot", "slot only"} THEN active[Of[q]]
                        ELSE active[Of[q]] - 1
                   ELSE IF v \in {"slot", "slot only"} THEN active[Of[q]] + 1
                        ELSE active[Of[q]]
           /\ \A s \in Sessions : s # Of[q] => SlotHolders(s)' = SlotHolders(s)
<1> DEFINE E == EngineHolders
           S == SlotHolders(Of[q])
<1>1. /\ TypeOK /\ queryCount = Cardinality(E) /\ active[Of[q]] = Cardinality(S)
      /\ IsFiniteSet(E) /\ IsFiniteSet(S)
  BY HoldersAreFinite DEF LifecycleInv, CountsExact
<1>2. /\ q \in E <=> held[q] \in {"engine", "slot"}
      /\ q \in S <=> held[q] \in {"slot", "slot only"}
  BY DEF EngineHolders, SlotHolders
<1>3. /\ Cardinality(E \cup {q}) = IF q \in E THEN Cardinality(E) ELSE Cardinality(E) + 1
      /\ Cardinality(E \ {q}) = IF q \in E THEN Cardinality(E) - 1 ELSE Cardinality(E)
      /\ Cardinality(S \cup {q}) = IF q \in S THEN Cardinality(S) ELSE Cardinality(S) + 1
      /\ Cardinality(S \ {q}) = IF q \in S THEN Cardinality(S) - 1 ELSE Cardinality(S)
  BY <1>1, FS_AddElement, FS_RemoveElement
<1>4. /\ E' = IF v \in {"engine", "slot"} THEN E \cup {q} ELSE E \ {q}
      /\ S' = IF v \in {"slot", "slot only"} THEN S \cup {q} ELSE S \ {q}
      /\ \A s \in Sessions : s # Of[q] => SlotHolders(s)' = SlotHolders(s)
  BY <1>1, HoldersChange
<1>5. Cardinality(E') =
         IF held[q] \in {"engine", "slot"}
           THEN IF v \in {"engine", "slot"} THEN queryCount ELSE queryCount - 1
           ELSE IF v \in {"engine", "slot"} THEN queryCount + 1 ELSE queryCount
  BY <1>1, <1>2, <1>3, <1>4
<1>6. Cardinality(S') =
         IF held[q] \in {"slot", "slot only"}
           THEN IF v \in {"slot", "slot only"} THEN active[Of[q]] ELSE active[Of[q]] - 1
           ELSE IF v \in {"slot", "slot only"} THEN active[Of[q]] + 1 ELSE active[Of[q]]
  BY <1>1, <1>2, <1>3, <1>4
<1> QED BY <1>4, <1>5, <1>6

-----------------------------------------------------------------------------
(* Parts of the invariant that a step leaves alone.                        *)

LEMMA CountsKept ==
    ASSUME LifecycleInv,
           UNCHANGED <<held, queryCount, active, activeSessions, activated>>
    PROVE  CountsExact' /\ ActiveInv'
BY DEF LifecycleInv, CountsExact, ActiveInv, EngineHolders, SlotHolders

LEMMA HoldKept ==
    ASSUME LifecycleInv, UNCHANGED <<pc, ended, held, queries>>
    PROVE  HoldInv'
BY DEF LifecycleInv, HoldInv, Holding

(* A session that a step does not touch, except that queries may end.      *)
Same(s) ==
    /\ running'[s] = running[s] /\ exiting'[s] = exiting[s] /\ thread'[s] = thread[s]
    /\ handle'[s] = handle[s] /\ closed'[s] = closed[s]
    /\ sourceEnded'[s] = sourceEnded[s] /\ call'[s] = call[s]
    /\ gate'[s] = gate[s] /\ watcher'[s] = watcher[s]
    /\ \A q \in Queries : Of[q] = s => pc'[q] = pc[q] /\ (ended[q] => ended'[q])

LEMMA SameSession ==
    ASSUME LifecycleInv, NEW s \in Sessions, Same(s) PROVE SessionInv(s)'
<1>1. Serving(s) /\ Acquired(s) /\ Cut(s) /\ Missed(s) /\ Spawned(s) /\ Owned(s)
  BY DEF LifecycleInv, ThreadInv, SessionInv
<1>2. Serving(s)' /\ Acquired(s)'
  BY <1>1 DEF Serving, Acquired, Same
<1>3. Cut(s)'
  BY <1>1 DEF Cut, Same
<1>4. Missed(s)'
  BY <1>1 DEF Missed, Same
<1>5. Spawned(s)'
  BY <1>1 DEF Spawned, Same
<1>6. Owned(s)'
  BY <1>1 DEF Owned, Same
<1> QED BY <1>2, <1>3, <1>4, <1>5, <1>6 DEF SessionInv

LEMMA ThreadKept ==
    ASSUME LifecycleInv, UNCHANGED <<threadVars, pc>>,
           \A q \in Queries : ended[q] => ended'[q]
    PROVE  ThreadInv'
<1>1. \A s \in Sessions : Same(s)
  BY DEF Same
<1> QED BY <1>1, SameSession DEF ThreadInv

(* A step touches one session.                                             *)
LEMMA ThreadChange ==
    ASSUME LifecycleInv, NEW s \in Sessions, SessionInv(s)',
           \A t \in Sessions : t # s => Same(t)
    PROVE  ThreadInv'
BY SameSession DEF ThreadInv

(* What changes of one query only.                                         *)
LEMMA OthersHold ==
    ASSUME LifecycleInv, NEW q \in Queries, Holding(q)',
           \A p \in Queries : p # q =>
               pc'[p] = pc[p] /\ ended'[p] = ended[p] /\ held'[p] = held[p],
           queries[Of[q]] \subseteq queries'[Of[q]],
           \A s \in Sessions : s # Of[q] => queries'[s] = queries[s],
           queries'[Of[q]] \subseteq queries[Of[q]] \cup {q},
           q \in queries'[Of[q]] => pc'[q] \in Started \cup {"refused"}
    PROVE  HoldInv'
<1>0. /\ HoldInv /\ Of \in [Queries -> Sessions]
      /\ queries \in [Sessions -> SUBSET Queries]
  BY DEF LifecycleInv, TypeOK, SessionType
<1>1. \A p \in Queries : Holding(p)'
  <2> SUFFICES ASSUME NEW p \in Queries, p # q PROVE Holding(p)'
    OBVIOUS
  <2>1. Holding(p) /\ queries[Of[p]] \subseteq queries'[Of[p]]
    BY <1>0 DEF HoldInv
  <2> QED BY <2>1 DEF Holding
<1>2. ASSUME NEW s \in Sessions, NEW p \in queries'[s]
      PROVE  Of[p] = s /\ pc'[p] \in Started \cup {"refused"}
  <2>1. CASE p = q
    <3>1. s = Of[q]
      BY <1>0, <1>2, <2>1 DEF HoldInv
    <3> QED BY <1>2, <2>1, <3>1
  <2>2. CASE p # q
    <3>1. p \in queries[s]
      BY <1>0, <1>2, <2>2
    <3> QED BY <1>0, <2>2, <3>1 DEF HoldInv
  <2> QED BY <2>1, <2>2
<1> QED BY <1>1, <1>2 DEF HoldInv

(* A step of the start before the query is registered, or its refusal.     *)
LEMMA StartingMoves ==
    ASSUME LifecycleInv, NEW q \in Queries,
           \A p \in Queries : p # q => pc'[p] = pc[p] /\ ended'[p] = ended[p],
           pc[q] \notin {"spawning", "live", "refused"}, pc'[q] \notin Started,
           pc[q] \in Unseen \cup {"watched"} => pc'[q] \in Unseen,
           UNCHANGED threadVars
    PROVE  ThreadInv'
<1> DEFINE s == Of[q]
<1>0. s \in Sessions /\ \A t \in Sessions : t # s => Same(t)
  BY DEF Same
<1>1. Serving(s) /\ Acquired(s) /\ Cut(s) /\ Missed(s) /\ Spawned(s) /\ Owned(s)
  BY <1>0 DEF LifecycleInv, ThreadInv, SessionInv
<1>2. \A p \in Queries : pc'[p] \in Started => pc'[p] = pc[p] /\ ended'[p] = ended[p]
  OBVIOUS
<1>3. Serving(s)' /\ Acquired(s)'
  BY <1>1, <1>2 DEF Serving, Acquired
<1>4. Cut(s)'
  BY <1>1, <1>2 DEF Cut
<1>5. Missed(s)'
  BY <1>1 DEF Missed
<1>6. Spawned(s)'
  BY <1>1, <1>2 DEF Spawned
<1>7. Owned(s)'
  BY <1>1, <1>2 DEF Owned
<1>8. SessionInv(s)'
  BY <1>3, <1>4, <1>5, <1>6, <1>7 DEF SessionInv
<1> QED BY <1>0, <1>8, ThreadChange

(* A session that is deactivated gives back what its activation took.      *)
LEMMA DeactivatedCounts ==
    ASSUME LifecycleInv, NEW s \in Sessions, Deactivated(s)
    PROVE  /\ activated' \in [Sessions -> BOOLEAN]
           /\ activeSessions' \in Nat /\ activeSessions' <= MaxActive
           /\ activeSessions' = Cardinality({t \in Sessions : activated'[t]})
           /\ registry' \subseteq Sessions
           /\ \A t \in Sessions : t # s => activated'[t] = activated[t]
<1>0. /\ TypeOK /\ SchedulerType /\ activated \in [Sessions -> BOOLEAN]
      /\ activeSessions = Cardinality({t \in Sessions : activated[t]})
      /\ activeSessions <= MaxActive
  BY DEF LifecycleInv, TypeOK, SessionType, CountsExact
<1>1. activated' = [activated EXCEPT ![s] = FALSE] /\ activated[s] \in BOOLEAN
  BY <1>0 DEF Deactivated
<1>2. activeSessions' = activeSessions - (IF activated[s] THEN 1 ELSE 0)
  BY DEF Deactivated
<1>3. Cardinality({t \in Sessions : activated'[t]}) =
         IF activated[s] THEN activeSessions - 1 ELSE activeSessions
  BY <1>0, <1>1, ActivatedChange
<1>4. activeSessions' = Cardinality({t \in Sessions : activated'[t]})
  BY <1>0, <1>2, <1>3 DEF SchedulerType
<1>5. activated' \in [Sessions -> BOOLEAN]
  BY <1>0, <1>1
<1>6. activeSessions' \in Nat
  <2>1. {t \in Sessions : activated'[t]} \in SUBSET Sessions
    OBVIOUS
  <2> QED BY <1>4, <2>1, FS_Subset, FS_CardinalityType
<1>7. activeSessions' <= MaxActive
  BY <1>0, <1>2 DEF SchedulerType
<1>8. registry' \subseteq Sessions
  BY <1>0 DEF SchedulerType, Deactivated
<1> QED BY <1>0, <1>1, <1>4, <1>5, <1>6, <1>7, <1>8

(* The same when the thread or the closer deactivates an idle session.     *)
LEMMA QuitCounts ==
    ASSUME LifecycleInv, NEW s \in Sessions,
           active[s] = 0 => \/ Deactivated(s)
                            \/ UNCHANGED <<activated, activeSessions, registry>>,
           active[s] # 0 => UNCHANGED <<activated, activeSessions, registry>>,
           UNCHANGED <<held, queryCount, active>>
    PROVE  /\ activated' \in [Sessions -> BOOLEAN] /\ activeSessions' \in Nat
           /\ registry' \subseteq Sessions
           /\ CountsExact' /\ ActiveInv'
<1>1. /\ activated' \in [Sessions -> BOOLEAN]
      /\ activeSessions' \in Nat /\ activeSessions' <= MaxActive
      /\ activeSessions' = Cardinality({t \in Sessions : activated'[t]})
      /\ registry' \subseteq Sessions
      /\ \A t \in Sessions : active[t] > 0 => activated'[t] = activated[t]
  <2>1. CASE active[s] = 0 /\ Deactivated(s)
    <3>1. \A t \in Sessions : active[t] > 0 => t # s
      BY <2>1
    <3> QED BY <2>1, <3>1, DeactivatedCounts
  <2>2. CASE UNCHANGED <<activated, activeSessions, registry>>
    BY <2>2 DEF LifecycleInv, TypeOK, SchedulerType, SessionType, CountsExact
  <2> QED BY <2>1, <2>2
<1>2. EngineHolders' = EngineHolders /\ \A t \in Sessions : SlotHolders(t)' = SlotHolders(t)
  BY DEF EngineHolders, SlotHolders
<1>3. CountsExact'
  BY <1>1, <1>2 DEF LifecycleInv, CountsExact
<1>4. ActiveInv'
  BY <1>1 DEF LifecycleInv, ActiveInv
<1> QED BY <1>1, <1>3, <1>4

(* A live query keeps a slot of its session, so the session is not idle.   *)
LEMMA LiveIsCounted ==
    ASSUME LifecycleInv, NEW q \in Queries, pc[q] \in Started, ~ended[q]
    PROVE  active[Of[q]] > 0 /\ q \in queries[Of[q]]
<1>1. held[q] = "slot" /\ q \in queries[Of[q]]
  BY DEF LifecycleInv, HoldInv, Holding
<1> QED BY <1>1, HolderIsCounted

(* Ends of queries that had started.                                       *)
LEMMA EndsHold ==
    ASSUME LifecycleInv, UNCHANGED <<pc, held, queries>>,
           \A q \in Queries : ended[q] => ended'[q],
           \A q \in Queries : ended'[q] =>
               ended[q] \/ pc[q] \in Started \cup {"refused"}
    PROVE  HoldInv'
BY DEF LifecycleInv, HoldInv, Holding

(* A step of the acquisition thread that does not end it.                  *)
LEMMA ThreadMoves ==
    ASSUME LifecycleInv, NEW s \in Sessions, thread[s] # "none",
           Serving(s)', thread'[s] # "none",
           \A t \in Sessions : t # s => /\ thread'[t] = thread[t]
                                        /\ exiting'[t] = exiting[t]
                                        /\ sourceEnded'[t] = sourceEnded[t],
           exiting'[s] => exiting[s] \/ Leaving(s),
           sourceEnded[s] => sourceEnded'[s],
           \A q \in Queries : ended[q] => ended'[q],
           UNCHANGED <<running, closed, call, handle, gate, watcher, pc>>
    PROVE  ThreadInv'
<1>0. /\ Serving(s) /\ Acquired(s) /\ Cut(s) /\ Missed(s) /\ Spawned(s) /\ Owned(s)
      /\ active \in [Sessions -> Nat]
  BY DEF LifecycleInv, ThreadInv, SessionInv, TypeOK, SessionType
<1>1. Acquired(s)'
  <2> SUFFICES ASSUME NEW q \in Queries, Of[q] = s, pc'[q] = "live", ~ended'[q],
                      ~closed'[s], ~sourceEnded'[s]
               PROVE  running'[s] /\ ~exiting'[s]
    BY DEF Acquired
  <2>1. ~ended[q] /\ pc[q] = "live" /\ ~closed[s] /\ ~sourceEnded[s]
    OBVIOUS
  <2>2. active[s] > 0
    BY <2>1, LiveIsCounted
  <2>3. running[s] /\ ~exiting[s]
    BY <1>0, <2>1 DEF Acquired
  <2>4. ~Leaving(s)
    BY <1>0, <2>1, <2>2 DEF Leaving
  <2> QED BY <2>3, <2>4
<1>2. Cut(s)'
  BY <1>0 DEF Cut
<1>3. Missed(s)' /\ Spawned(s)' /\ Owned(s)'
  BY <1>0 DEF Missed, Spawned, Owned
<1>4. SessionInv(s)'
  BY <1>1, <1>2, <1>3 DEF SessionInv
<1>5. \A t \in Sessions : t # s => Same(t)
  BY DEF Same
<1> QED BY <1>4, <1>5, ThreadChange

(* One close call goes on.                                                 *)
LEMMA CallChange ==
    ASSUME LifecycleInv, NEW s \in Sessions, NEW c \in Closers, NEW label \in Calls,
           Call(s, c, label)
    PROVE  /\ call' \in [Sessions -> [Closers -> Calls]] /\ call'[s][c] = label
           /\ \A d \in Closers : d # c => call'[s][d] = call[s][d]
           /\ \A t \in Sessions : t # s => call'[t] = call[t]
<1>1. call \in [Sessions -> [Closers -> Calls]]
  BY DEF LifecycleInv, TypeOK, SessionType
<1> QED BY <1>1 DEF Call

(* A call outside WatchSession::close moves there: only Missed looks at it. *)
LEMMA CallOutside ==
    ASSUME LifecycleInv, NEW s \in Sessions, NEW c \in Closers,
           NEW label \in {"gated", "called", "done"},
           call[s][c] \notin Inside, Call(s, c, label), Missed(s)',
           \A q \in Queries : pc[q] \in Started \/ pc'[q] \in Started => pc'[q] = pc[q],
           \A t \in Sessions : t # s => gate'[t] = gate[t],
           \A q \in Queries : Of[q] # s => pc'[q] = pc[q],
           UNCHANGED <<running, exiting, thread, handle, closed, sourceEnded, watcher,
                       ended>>
    PROVE  ThreadInv' /\ call' \in [Sessions -> [Closers -> Calls]]
<1>0. /\ Serving(s) /\ Acquired(s) /\ Cut(s) /\ Spawned(s) /\ Owned(s)
      /\ label \in Calls /\ label \notin Inside /\ label \notin {"cancel", "terminate"}
  BY DEF LifecycleInv, ThreadInv, SessionInv, Calls
<1>1. /\ call'[s][c] = label /\ call' \in [Sessions -> [Closers -> Calls]]
      /\ \A d \in Closers : d # c => call'[s][d] = call[s][d]
      /\ \A t \in Sessions : t # s => call'[t] = call[t]
  BY <1>0, CallChange
<1>2. /\ \A d \in Closers : call[s][d] \in Inside => call'[s][d] = call[s][d]
      /\ \A d \in Closers : call'[s][d] \in Inside => call'[s][d] = call[s][d]
  BY <1>0, <1>1
<1>3. Serving(s)' /\ Acquired(s)'
  BY <1>0 DEF Serving, Acquired
<1>4. Cut(s)'
  BY <1>0, <1>2 DEF Cut
<1>5. Spawned(s)' /\ Owned(s)'
  BY <1>0, <1>2 DEF Spawned, Owned
<1>6. SessionInv(s)'
  BY <1>3, <1>4, <1>5 DEF SessionInv
<1>7. \A t \in Sessions : t # s => Same(t)
  BY <1>1 DEF Same
<1> QED BY <1>1, <1>6, <1>7, ThreadChange

-----------------------------------------------------------------------------
(* Session::start_template_watch.                                          *)

LEMMA AdmitKeeps ==
    ASSUME LifecycleInv, NEW q \in Queries, Admit(q) PROVE LifecycleInv'
<1>0. SchedulerType /\ SessionType /\ AcquisitionType /\ QueryType
  BY DEF LifecycleInv, TypeOK
<1>1. TypeOK'
  <2>1. SchedulerType' /\ AcquisitionType'
    BY <1>0 DEF SchedulerType, AcquisitionType, Admit
  <2>2. SessionType'
    BY <1>0 DEF SessionType, Admit
  <2>3. QueryType'
    BY <1>0 DEF QueryType, Points, Holdings, Admit
  <2> QED BY <2>1, <2>2, <2>3 DEF TypeOK
<1>2. /\ pc[q] = "new" /\ pc'[q] \in {"refused", "admitted"}
      /\ \A p \in Queries : p # q => pc'[p] = pc[p]
      /\ UNCHANGED <<held, ended, queries, threadVars, queryCount, active, activeSessions,
                     activated>>
  BY <1>0 DEF QueryType, Admit
<1>3. Holding(q)' /\ q \notin queries[Of[q]]
  BY <1>2 DEF LifecycleInv, HoldInv, Holding, Early
<1> QED BY <1>1, <1>2, <1>3, CountsKept, OthersHold, StartingMoves DEF LifecycleInv

LEMMA InitWatcherKeeps ==
    ASSUME LifecycleInv, NEW q \in Queries, InitWatcher(q) PROVE LifecycleInv'
<1>0. SchedulerType /\ SessionType /\ AcquisitionType /\ QueryType
  BY DEF LifecycleInv, TypeOK
<1> DEFINE s == Of[q]
<1>1. TypeOK'
  <2>1. SchedulerType' /\ AcquisitionType'
    BY <1>0 DEF SchedulerType, AcquisitionType, InitWatcher
  <2>2. SessionType'
    BY <1>0 DEF SessionType, InitWatcher
  <2>3. QueryType'
    BY <1>0 DEF QueryType, Points, Holdings, InitWatcher
  <2> QED BY <2>1, <2>2, <2>3 DEF TypeOK
<1>2. /\ pc[q] = "admitted" /\ pc'[q] = "watched" /\ watcher'[s]
      /\ \A p \in Queries : p # q => pc'[p] = pc[p]
      /\ \A t \in Sessions : t # s => watcher'[t] = watcher[t]
      /\ UNCHANGED <<held, ended, queries, running, exiting, thread, closed,
                     sourceEnded, call, handle, gate, queryCount, active,
                     activeSessions, activated>>
  BY <1>0 DEF QueryType, SessionType, InitWatcher
<1>3. Holding(q)' /\ q \notin queries[s]
  BY <1>2 DEF LifecycleInv, HoldInv, Holding, Early
<1>4. SessionInv(s)'
  <2>1. Serving(s) /\ Acquired(s) /\ Cut(s) /\ Missed(s) /\ Spawned(s) /\ Owned(s)
    BY DEF LifecycleInv, ThreadInv, SessionInv
  <2>2. \A p \in Queries : pc'[p] \in Started => pc'[p] = pc[p]
    BY <1>2
  <2>3. Serving(s)' /\ Acquired(s)' /\ Cut(s)'
    BY <1>2, <2>1, <2>2 DEF Serving, Acquired, Cut
  <2>4. Missed(s)'
    BY <1>2, <2>1 DEF Missed
  <2>5. Spawned(s)' /\ Owned(s)'
    BY <1>2, <2>1, <2>2 DEF Spawned, Owned
  <2> QED BY <2>3, <2>4, <2>5 DEF SessionInv
<1>5. \A t \in Sessions : t # s => Same(t)
  BY <1>2 DEF Same
<1>6. ThreadInv'
  BY <1>4, <1>5, ThreadChange
<1> QED BY <1>1, <1>2, <1>3, <1>6, CountsKept, OthersHold DEF LifecycleInv

LEMMA ReadmitKeeps ==
    ASSUME LifecycleInv, NEW q \in Queries, Readmit(q) PROVE LifecycleInv'
<1>0. SchedulerType /\ SessionType /\ AcquisitionType /\ QueryType
  BY DEF LifecycleInv, TypeOK
<1> DEFINE s == Of[q]
<1>1. /\ pc[q] = "watched"
      /\ \/ pc'[q] = "starting" /\ ~gate[s] /\ UNCHANGED call
         \/ pc'[q] = "refused" /\ Call(s, q, "called")
      /\ \A p \in Queries : p # q => pc'[p] = pc[p]
      /\ UNCHANGED <<held, ended, queries, running, exiting, thread, handle, closed,
                     sourceEnded, gate, watcher, queryCount, active, activeSessions,
                     activated>>
  BY <1>0 DEF QueryType, Readmit, AcceptsWork
<1>2. /\ q \in Closers /\ "called" \in Calls /\ s \in Sessions
      /\ Serving(s) /\ Acquired(s) /\ Cut(s) /\ Missed(s) /\ Spawned(s) /\ Owned(s)
  BY DEF Closers, Calls, LifecycleInv, ThreadInv, SessionInv
<1>3. Holding(q)' /\ q \notin queries[s]
  BY <1>1 DEF LifecycleInv, HoldInv, Holding, Early
<1>4. ThreadInv' /\ call' \in [Sessions -> [Closers -> Calls]]
  <2>1. CASE pc'[q] = "starting"
    <3>1. \A p \in Queries : pc'[p] \in Started => pc'[p] = pc[p]
      BY <1>1, <2>1
    <3>2. UNCHANGED call /\ ~gate[s]
      BY <1>1, <2>1
    <3>3. Serving(s)' /\ Acquired(s)' /\ Cut(s)'
      BY <1>1, <1>2, <3>1, <3>2 DEF Serving, Acquired, Cut
    <3>4. Missed(s)'
      BY <1>1, <1>2, <2>1, <3>2 DEF Missed
    <3>5. Spawned(s)' /\ Owned(s)'
      BY <1>1, <1>2, <3>1, <3>2 DEF Spawned, Owned
    <3>6. SessionInv(s)' /\ \A t \in Sessions : t # s => Same(t)
      BY <1>1, <3>2, <3>3, <3>4, <3>5 DEF SessionInv, Same
    <3> QED BY <1>0, <1>2, <3>2, <3>6, ThreadChange DEF SessionType
  <2>2. CASE pc'[q] = "refused"
    <3>1. Call(s, q, "called") /\ call[s][q] = "idle"
      BY <1>1, <1>2, <2>2 DEF Missed
    <3>2. \A c \in Closers : call'[s][c] = IF c = q THEN "called" ELSE call[s][c]
      BY <1>2, <3>1, CallChange
    <3>3. Missed(s)'
      BY <1>1, <1>2, <2>2, <3>2 DEF Missed, Closers
    <3>4. \A p \in Queries : pc[p] \in Started \/ pc'[p] \in Started => pc'[p] = pc[p]
      BY <1>1, <2>2
    <3> HIDE DEF s
    <3>5. \A p \in Queries : Of[p] # s => pc'[p] = pc[p]
      BY <1>1 DEF s
    <3> QED BY <1>1, <1>2, <3>1, <3>3, <3>4, <3>5, CallOutside
  <2> QED BY <1>1, <2>1, <2>2
<1>5. TypeOK'
  <2>1. SchedulerType' /\ AcquisitionType'
    BY <1>0 DEF SchedulerType, AcquisitionType, Readmit
  <2>2. SessionType'
    BY <1>0, <1>4 DEF SessionType, Readmit
  <2>3. QueryType'
    BY <1>0 DEF QueryType, Points, Holdings, Readmit
  <2> QED BY <2>1, <2>2, <2>3 DEF TypeOK
<1> QED BY <1>1, <1>3, <1>4, <1>5, CountsKept, OthersHold DEF LifecycleInv

-----------------------------------------------------------------------------
(* WatchSession::start_query.                                              *)

LEMMA ReserveEngineKeeps ==
    ASSUME LifecycleInv, NEW q \in Queries, ReserveEngine(q) PROVE LifecycleInv'
<1>0. SchedulerType /\ SessionType /\ AcquisitionType /\ QueryType
  BY DEF LifecycleInv, TypeOK
<1>1. TypeOK'
  <2>1. SchedulerType' /\ AcquisitionType'
    BY <1>0 DEF SchedulerType, AcquisitionType, ReserveEngine
  <2>2. SessionType'
    BY <1>0 DEF SessionType, ReserveEngine
  <2>3. QueryType'
    BY <1>0 DEF QueryType, Points, Holdings, ReserveEngine
  <2> QED BY <2>1, <2>2, <2>3 DEF TypeOK
<1>2. /\ pc[q] = "starting" /\ pc'[q] \in {"refused", "reserved"}
      /\ pc'[q] = "refused" => held' = held /\ queryCount' = queryCount
      /\ pc'[q] = "reserved" => /\ held' = [held EXCEPT ![q] = "engine"]
                                /\ queryCount' = queryCount + 1
                                /\ ~(queryCount >= MaxEngine)
      /\ \A p \in Queries : p # q => pc'[p] = pc[p] /\ held'[p] = held[p]
      /\ UNCHANGED <<ended, queries, threadVars, active, activeSessions, activated>>
  BY <1>0 DEF QueryType, ReserveEngine
<1>3. held[q] = "nothing" /\ ~ended[q] /\ q \notin queries[Of[q]]
  BY <1>2 DEF LifecycleInv, HoldInv, Holding, Early
<1>4. Holding(q)'
  BY <1>0, <1>2, <1>3 DEF QueryType, Holding, Early
<1>5. CountsExact' /\ ActiveInv'
  <2>1. CASE pc'[q] = "refused"
    BY <1>2, <2>1, CountsKept
  <2>2. CASE pc'[q] = "reserved"
    <3>1. "engine" \in Holdings
      BY DEF Holdings
    <3>2. /\ Cardinality(EngineHolders') = queryCount + 1
          /\ Cardinality(SlotHolders(Of[q])') = active[Of[q]]
          /\ \A s \in Sessions : s # Of[q] => SlotHolders(s)' = SlotHolders(s)
      BY <1>2, <1>3, <2>2, <3>1, CountsChange
    <3>3. queryCount \in Nat /\ queryCount' <= MaxEngine
      BY <1>0, <1>2, <2>2 DEF SchedulerType
    <3> QED BY <1>2, <2>2, <3>1, <3>2, <3>3 DEF LifecycleInv, CountsExact, ActiveInv
  <2> QED BY <1>2, <2>1, <2>2
<1> QED BY <1>1, <1>2, <1>3, <1>4, <1>5, OthersHold, StartingMoves DEF LifecycleInv

LEMMA ReserveSlotKeeps ==
    ASSUME LifecycleInv, NEW q \in Queries, ReserveSlot(q) PROVE LifecycleInv'
<1>0. SchedulerType /\ SessionType /\ AcquisitionType /\ QueryType
  BY DEF LifecycleInv, TypeOK
<1> DEFINE s == Of[q]
           took == ~(Shut(s) \/ active[s] >= MaxSession
                     \/ (Activates(s) /\ activeSessions >= MaxActive))
<1>1. /\ pc[q] = "reserved" /\ pc'[q] = IF took THEN "slotted" ELSE "unreserve"
      /\ ~took => UNCHANGED <<held, active, activeSessions, activated, registry>>
      /\ took => /\ held' = [held EXCEPT ![q] = "slot"]
                 /\ active' = [active EXCEPT ![s] = @ + 1]
                 /\ activated' = [activated EXCEPT ![s] = TRUE]
                 /\ activeSessions' = activeSessions + (IF Activates(s) THEN 1 ELSE 0)
                 /\ registry' = IF Activates(s) THEN registry \cup {s} ELSE registry
      /\ \A p \in Queries : p # q => pc'[p] = pc[p]
      /\ UNCHANGED <<ended, queries, queryCount, threadVars>>
  <2>1. /\ pc[q] = "reserved" /\ \A p \in Queries : p # q => pc'[p] = pc[p]
        /\ UNCHANGED <<ended, queries, queryCount, threadVars>>
    BY <1>0 DEF QueryType, ReserveSlot
  <2>2. CASE took
    BY <1>0, <2>1, <2>2 DEF QueryType, ReserveSlot
  <2>3. CASE ~took
    BY <1>0, <2>1, <2>3 DEF QueryType, ReserveSlot
  <2> QED BY <2>2, <2>3
<1>2. /\ held[q] = "engine" /\ ~ended[q] /\ q \notin queries[s]
      /\ "slot" \in Holdings /\ s \in Sessions
  BY <1>1 DEF LifecycleInv, HoldInv, Holding, Holdings
<1>3. \A p \in Queries : p # q => held'[p] = held[p]
  BY <1>0, <1>1 DEF QueryType
<1>4. Holding(q)'
  BY <1>0, <1>1, <1>2 DEF QueryType, Holding, Early
<1>5. CountsExact' /\ ActiveInv'
  <2>1. CASE ~took
    BY <1>1, <2>1, CountsKept
  <2>2. CASE took
    <3>1. /\ Cardinality(EngineHolders') = queryCount
          /\ Cardinality(SlotHolders(s)') = active[s] + 1
          /\ \A t \in Sessions : t # s => SlotHolders(t)' = SlotHolders(t)
      BY <1>1, <1>2, <2>2, CountsChange
    <3>2. /\ active \in [Sessions -> Nat] /\ activated \in [Sessions -> BOOLEAN]
          /\ activeSessions \in Nat
      BY <1>0 DEF SessionType, SchedulerType
    <3>3. active'[s] = active[s] + 1 /\ active'[s] <= MaxSession
      <4>1. ~(active[s] >= MaxSession) /\ active[s] \in Nat
        BY <1>2, <2>2, <3>2
      <4>2. active'[s] = active[s] + 1
        BY <1>1, <1>2, <2>2, <3>2
      <4> HIDE DEF took
      <4> QED BY <4>1, <4>2
    <3>4. /\ \A t \in Sessions : t # s => active'[t] = active[t]
          /\ \A t \in Sessions : activated[t] => activated'[t]
          /\ activated'[s]
      BY <1>1, <1>2, <2>2, <3>2
    <3>5. Activates(s) <=> ~activated[s]
      <4>1. active[s] > 0 => activated[s]
        BY <1>2 DEF LifecycleInv, ActiveInv
      <4>2. \A n \in Nat : n = 0 \/ n > 0
        OBVIOUS
      <4> QED BY <1>2, <3>2, <4>1, <4>2 DEF Activates
    <3>6. /\ activeSessions' = Cardinality({t \in Sessions : activated'[t]})
          /\ activeSessions' <= MaxActive
      <4>1. TypeOK /\ activeSessions = Cardinality({t \in Sessions : activated[t]})
            /\ activeSessions <= MaxActive
        BY DEF LifecycleInv, CountsExact
      <4>2. Cardinality({t \in Sessions : activated'[t]}) =
               IF activated[s] THEN activeSessions ELSE activeSessions + 1
        BY <1>1, <1>2, <2>2, <3>2, <4>1, ActivatedChange
      <4>3. activated[s] \in BOOLEAN
            /\ ~activated[s] => ~(activeSessions >= MaxActive)
        BY <1>2, <2>2, <3>2, <3>5
      <4> QED BY <1>1, <2>2, <3>2, <3>5, <4>1, <4>2, <4>3
    <3>7. CountsExact'
      <4>1. \A t \in Sessions : active'[t] = Cardinality(SlotHolders(t)')
                                /\ active'[t] <= MaxSession
        BY <3>1, <3>3, <3>4 DEF LifecycleInv, CountsExact
      <4> QED BY <1>1, <3>1, <3>6, <4>1 DEF LifecycleInv, CountsExact
    <3>8. ActiveInv'
      BY <3>4 DEF LifecycleInv, ActiveInv
    <3> QED BY <3>7, <3>8
  <2> QED BY <2>1, <2>2
<1>6. TypeOK'
  <2>1. SchedulerType'
    BY <1>0, <1>2 DEF SchedulerType, ReserveSlot
  <2>2. AcquisitionType' /\ QueryType'
    BY <1>0 DEF AcquisitionType, QueryType, Points, Holdings, ReserveSlot
  <2>3. active' \in [Sessions -> Nat] /\ activated' \in [Sessions -> BOOLEAN]
    <3>1. active \in [Sessions -> Nat] /\ activated \in [Sessions -> BOOLEAN]
      BY <1>0 DEF SessionType
    <3> HIDE DEF took
    <3>2. CASE took
      <4>1. /\ active' = [active EXCEPT ![s] = @ + 1]
            /\ activated' = [activated EXCEPT ![s] = TRUE]
        BY <1>1, <3>2
      <4> HIDE DEF s
      <4>2. activated' \in [Sessions -> BOOLEAN]
        BY <3>1, <4>1
      <4>3. active[s] + 1 \in Nat
        BY <1>2, <3>1
      <4> QED BY <3>1, <4>1, <4>2, <4>3
    <3>3. CASE ~took
      BY <1>1, <3>1, <3>3
    <3> QED BY <3>2, <3>3
  <2>4. SessionType'
    BY <1>0, <2>3 DEF SessionType, ReserveSlot
  <2> QED BY <2>1, <2>2, <2>4 DEF TypeOK
<1> QED BY <1>1, <1>2, <1>3, <1>4, <1>5, <1>6, OthersHold, StartingMoves
        DEF LifecycleInv

LEMMA UnreserveKeeps ==
    ASSUME LifecycleInv, NEW q \in Queries, Unreserve(q) PROVE LifecycleInv'
<1>0. SchedulerType /\ SessionType /\ AcquisitionType /\ QueryType
  BY DEF LifecycleInv, TypeOK
<1>1. /\ pc[q] = "unreserve" /\ pc'[q] = "refused"
      /\ held' = [held EXCEPT ![q] = "nothing"] /\ queryCount' = queryCount - 1
      /\ \A p \in Queries : p # q => pc'[p] = pc[p] /\ held'[p] = held[p]
      /\ UNCHANGED <<ended, queries, active, activeSessions, activated, threadVars>>
  BY <1>0 DEF QueryType, Unreserve
<1>2. held[q] = "engine" /\ ~ended[q] /\ q \notin queries[Of[q]] /\ "nothing" \in Holdings
  BY <1>1 DEF LifecycleInv, HoldInv, Holding, Holdings
<1>3. Holding(q)'
  BY <1>0, <1>1, <1>2 DEF QueryType, Holding, Early
<1>4. queryCount \in Nat /\ queryCount' \in Nat /\ queryCount <= MaxEngine
  <2>1. queryCount > 0
    BY <1>2, HolderIsCounted
  <2>2. queryCount \in Nat /\ queryCount <= MaxEngine
    BY <1>0 DEF SchedulerType, LifecycleInv, CountsExact
  <2> QED BY <1>1, <2>1, <2>2
<1>5. /\ Cardinality(EngineHolders') = queryCount - 1
      /\ Cardinality(SlotHolders(Of[q])') = active[Of[q]]
      /\ \A s \in Sessions : s # Of[q] => SlotHolders(s)' = SlotHolders(s)
  BY <1>1, <1>2, CountsChange
<1>6. CountsExact' /\ ActiveInv'
  <2>1. queryCount' <= MaxEngine
    BY <1>1, <1>4
  <2> QED BY <1>1, <1>5, <2>1 DEF LifecycleInv, CountsExact, ActiveInv
<1>7. TypeOK'
  <2>1. SchedulerType'
    BY <1>0, <1>4 DEF SchedulerType, Unreserve
  <2>2. AcquisitionType' /\ QueryType'
    BY <1>0 DEF AcquisitionType, QueryType, Points, Holdings, Unreserve
  <2>3. SessionType'
    BY <1>0 DEF SessionType, Unreserve
  <2> QED BY <2>1, <2>2, <2>3 DEF TypeOK
<1> QED BY <1>1, <1>2, <1>3, <1>6, <1>7, OthersHold, StartingMoves DEF LifecycleInv

LEMMA RegisterKeeps ==
    ASSUME LifecycleInv, NEW q \in Queries, Register(q) PROVE LifecycleInv'
<1>0. SchedulerType /\ SessionType /\ AcquisitionType /\ QueryType
  BY DEF LifecycleInv, TypeOK
<1>1. TypeOK'
  <2>1. SchedulerType' /\ AcquisitionType'
    BY <1>0 DEF SchedulerType, AcquisitionType, Register
  <2>2. SessionType'
    <3>1. queries' \in [Sessions -> SUBSET Queries]
      BY <1>0 DEF SessionType, Register
    <3> QED BY <1>0, <3>1 DEF SessionType, Register
  <2>3. QueryType'
    BY <1>0 DEF QueryType, Register, Points, Holdings
  <2> QED BY <2>1, <2>2, <2>3 DEF TypeOK
<1>2. /\ pc[q] = "slotted" /\ pc'[q] \in {"registered", "refused"}
      /\ pc'[q] = "registered" =>
            ~closed[Of[q]] /\ UNCHANGED ended
            /\ queries' = [queries EXCEPT ![Of[q]] = @ \cup {q}]
      /\ pc'[q] = "refused" => UNCHANGED queries /\ ended'[q]
      /\ \A p \in Queries : p # q => pc'[p] = pc[p] /\ ended'[p] = ended[p]
      /\ UNCHANGED <<held, threadVars,
                     queryCount, active, activeSessions, activated>>
  BY <1>0 DEF QueryType, Register
<1>3. held[q] = "slot" /\ ~ended[q] /\ q \notin queries[Of[q]] /\ Of[q] \in Sessions
  BY <1>2 DEF LifecycleInv, HoldInv, Holding
<1>4. /\ queries[Of[q]] \subseteq queries'[Of[q]]
      /\ queries'[Of[q]] \subseteq queries[Of[q]] \cup {q}
      /\ pc'[q] = "registered" => q \in queries'[Of[q]]
      /\ \A s \in Sessions : s # Of[q] => queries'[s] = queries[s]
  BY <1>0, <1>2, <1>3 DEF SessionType
<1>5. Holding(q)'
  BY <1>2, <1>3, <1>4 DEF Holding, Early
<1>6. ThreadInv'
  <2>1. CASE pc'[q] = "refused"
    BY <1>2, <2>1, StartingMoves
  <2>2. CASE pc'[q] = "registered"
    <3> DEFINE s == Of[q]
    <3>1. Serving(s) /\ Acquired(s) /\ Cut(s) /\ Missed(s) /\ Spawned(s) /\ Owned(s)
      BY <1>3 DEF LifecycleInv, ThreadInv, SessionInv
    <3>2. \A p \in Queries : pc[p] # pc'[p] => pc[p] = "slotted" /\ pc'[p] = "registered"
      BY <1>2, <2>2
    <3>3. ~closed'[s] /\ UNCHANGED ended
      BY <1>2, <2>2
    <3>4. Serving(s)' /\ Acquired(s)'
      BY <1>2, <3>1, <3>2, <3>3 DEF Serving, Acquired
    <3>5. Cut(s)'
      BY <1>2, <3>1, <3>3 DEF Cut
    <3>6. Missed(s)'
      BY <1>2, <3>1, <3>2 DEF Missed
    <3>7. Spawned(s)' /\ Owned(s)'
      BY <1>2, <3>1, <3>2 DEF Spawned, Owned
    <3>8. SessionInv(s)' /\ \A t \in Sessions : t # s => Same(t)
      BY <1>2, <3>3, <3>4, <3>5, <3>6, <3>7 DEF SessionInv, Same
    <3> QED BY <1>3, <3>8, ThreadChange
  <2> QED BY <1>2, <2>1, <2>2
<1>7. CountsExact' /\ ActiveInv'
  BY <1>2, CountsKept
<1> QED BY <1>1, <1>2, <1>4, <1>5, <1>6, <1>7, OthersHold DEF LifecycleInv

LEMMA EnsureAcquisitionKeeps ==
    ASSUME LifecycleInv, NEW q \in Queries, EnsureAcquisition(q) PROVE LifecycleInv'
<1>0. SchedulerType /\ SessionType /\ AcquisitionType /\ QueryType
  BY DEF LifecycleInv, TypeOK
<1> DEFINE s == Of[q]
<1>1. TypeOK'
  <2>1. SchedulerType' /\ SessionType'
    BY <1>0 DEF SchedulerType, SessionType, EnsureAcquisition
  <2>2. AcquisitionType'
    BY <1>0 DEF AcquisitionType, EnsureAcquisition, CancelStored, Places
  <2>3. QueryType'
    BY <1>0 DEF QueryType, EnsureAcquisition, Points, Holdings
  <2> QED BY <2>1, <2>2, <2>3 DEF TypeOK
<1>2. /\ pc[q] = "registered" /\ Unlocked(s)
      /\ \/ pc'[q] = "refused" /\ ended'[q]
         \/ /\ pc'[q] = "live" /\ running[s] /\ ~exiting[s]
            /\ ~closed[s] /\ UNCHANGED ended
         \/ pc'[q] = "spawning" /\ ~running[s] /\ ~closed[s] /\ UNCHANGED ended
      /\ \A p \in Queries : p # q => pc'[p] = pc[p] /\ ended'[p] = ended[p]
      /\ UNCHANGED <<held, queries, threadVars, queryCount, active, activeSessions,
                     activated>>
  BY <1>0 DEF QueryType, EnsureAcquisition
<1>3. Holding(q)' /\ s \in Sessions
  BY <1>2 DEF LifecycleInv, HoldInv, Holding, Early
<1>4. HoldInv'
  BY <1>2, <1>3, OthersHold DEF LifecycleInv, HoldInv
<1>5. ThreadInv'
  <2>1. Serving(s) /\ Acquired(s) /\ Cut(s) /\ Missed(s) /\ Spawned(s) /\ Owned(s)
    BY <1>3 DEF LifecycleInv, ThreadInv, SessionInv
  <2>2. CASE pc'[q] = "refused"
    BY <1>2, <2>2, StartingMoves
  <2>3. CASE pc'[q] # "refused"
    <3>1. ~closed[s] /\ UNCHANGED ended /\ pc'[q] \in {"live", "spawning"}
      BY <1>2, <2>3
    <3>2. Serving(s)' /\ Acquired(s)'
      BY <1>2, <2>1, <3>1 DEF Serving, Acquired
    <3>3. Cut(s)'
      BY <1>2, <2>1, <3>1 DEF Cut
    <3>4. Missed(s)'
      BY <1>2, <2>1, <3>1 DEF Missed
    <3>5. Spawned(s)'
      <4>1. \A p \in Queries : Of[p] = s /\ pc'[p] = "spawning" => p = q
        BY <1>2 DEF Unlocked
      <4> QED BY <1>2, <2>1, <3>1, <4>1 DEF Spawned
    <3>6. Owned(s)'
      BY <1>2, <2>1, <3>1 DEF Owned
    <3>7. SessionInv(s)' /\ \A t \in Sessions : t # s => Same(t)
      BY <1>2, <3>1, <3>2, <3>3, <3>4, <3>5, <3>6 DEF SessionInv, Same
    <3> QED BY <1>3, <3>7, ThreadChange
  <2> QED BY <2>2, <2>3
<1> QED BY <1>1, <1>2, <1>4, <1>5, CountsKept DEF LifecycleInv

LEMMA SpawnKeeps ==
    ASSUME LifecycleInv, NEW q \in Queries, Spawn(q) PROVE LifecycleInv'
<1>0. SchedulerType /\ SessionType /\ AcquisitionType /\ QueryType
  BY DEF LifecycleInv, TypeOK
<1> DEFINE s == Of[q]
<1>1. TypeOK'
  <2>1. SchedulerType' /\ SessionType'
    BY <1>0 DEF SchedulerType, SessionType, Spawn
  <2>2. AcquisitionType'
    BY <1>0 DEF AcquisitionType, Spawn, Places
  <2>3. QueryType'
    BY <1>0 DEF QueryType, Spawn, Points, Holdings
  <2> QED BY <2>1, <2>2, <2>3 DEF TypeOK
<1>2. s \in Sessions
  OBVIOUS
<1>3. /\ pc[q] = "spawning" /\ pc'[q] = "live"
      /\ running'[s] /\ thread'[s] = "top" /\ handle'[s]
      /\ \A p \in Queries : p # q => pc'[p] = pc[p]
      /\ \A t \in Sessions : t # s => /\ thread'[t] = thread[t]
                                      /\ running'[t] = running[t]
                                      /\ handle'[t] = handle[t]
      /\ UNCHANGED <<ended, held, queries, exiting, closed, sourceEnded, call, gate,
                     watcher, queryCount, active, activeSessions, activated>>
  BY <1>0, <1>2 DEF QueryType, AcquisitionType, Spawn
<1>4. HoldInv'
  <2>1. Holding(q)'
    BY <1>3 DEF LifecycleInv, HoldInv, Holding, Early
  <2> QED BY <1>3, <2>1, OthersHold DEF LifecycleInv, HoldInv
<1>5. Serving(s) /\ Acquired(s) /\ Cut(s) /\ Missed(s) /\ Spawned(s) /\ Owned(s)
  BY <1>2 DEF LifecycleInv, ThreadInv, SessionInv
<1>6. /\ ~running[s] /\ thread[s] = "none" /\ ~exiting[s]
      /\ closed[s] => \E c \in Closers : call[s][c] = "cancel"
      /\ \A p \in Queries : Of[p] = s /\ pc[p] = "spawning" => p = q
  BY <1>3, <1>5 DEF Serving, Spawned
<1>7. SessionInv(s)'
  <2>1. Serving(s)' /\ Acquired(s)'
    BY <1>3, <1>6 DEF Serving, Acquired
  <2>2. Cut(s)'
    BY <1>3, <1>5 DEF Cut
  <2>3. Missed(s)'
    BY <1>3, <1>5 DEF Missed
  <2>4. Spawned(s)'
    BY <1>3, <1>6 DEF Spawned
  <2>5. Owned(s)'
    BY <1>3, <1>6 DEF Owned
  <2> QED BY <2>1, <2>2, <2>3, <2>4, <2>5 DEF SessionInv
<1>8. \A t \in Sessions : t # s => Same(t)
  BY <1>3 DEF Same
<1>9. ThreadInv'
  BY <1>2, <1>7, <1>8, ThreadChange
<1> QED BY <1>1, <1>3, <1>4, <1>9, CountsKept DEF LifecycleInv

-----------------------------------------------------------------------------
(* The end of a query and the release of what it holds.                    *)

LEMMA EndQueryKeeps ==
    ASSUME LifecycleInv, NEW q \in Queries, EndQuery(q) PROVE LifecycleInv'
<1>0. SchedulerType /\ SessionType /\ AcquisitionType /\ QueryType
  BY DEF LifecycleInv, TypeOK
<1>1. TypeOK'
  <2>1. SchedulerType' /\ SessionType' /\ AcquisitionType'
    BY <1>0 DEF SchedulerType, SessionType, AcquisitionType, EndQuery
  <2>2. QueryType'
    BY <1>0 DEF QueryType, EndQuery
  <2> QED BY <2>1, <2>2 DEF TypeOK
<1>2. /\ pc[q] \in Started /\ ended'[q]
      /\ \A p \in Queries : p # q => ended'[p] = ended[p]
      /\ UNCHANGED <<pc, held, queries, threadVars, queryCount, active, activeSessions,
                     activated>>
  BY <1>0 DEF QueryType, EndQuery
<1>3. HoldInv'
  BY <1>2, EndsHold
<1>4. ThreadInv'
  BY <1>2, ThreadKept
<1> QED BY <1>1, <1>2, <1>3, <1>4, CountsKept DEF LifecycleInv

LEMMA ReleaseEngineKeeps ==
    ASSUME LifecycleInv, NEW q \in Queries, ReleaseEngine(q) PROVE LifecycleInv'
<1>0. SchedulerType /\ SessionType /\ AcquisitionType /\ QueryType
  BY DEF LifecycleInv, TypeOK
<1>1. /\ ended[q] /\ held[q] = "slot"
      /\ held' = [held EXCEPT ![q] = "slot only"] /\ queryCount' = queryCount - 1
      /\ \A p \in Queries : p # q => held'[p] = held[p]
      /\ held'[q] = "slot only"
      /\ UNCHANGED <<pc, ended, queries, active, activeSessions, activated, threadVars>>
  BY <1>0 DEF QueryType, ReleaseEngine
<1>2. "slot only" \in Holdings /\ Holding(q)'
  BY <1>1 DEF LifecycleInv, HoldInv, Holding, Holdings, Early
<1>3. HoldInv'
  <2>1. pc[q] \in Started \cup {"refused"}
    BY <1>1 DEF LifecycleInv, HoldInv, Holding
  <2> QED BY <1>1, <1>2, <2>1, OthersHold
<1>4. queryCount' \in Nat /\ queryCount' <= MaxEngine
  <2>1. queryCount > 0
    BY <1>1, HolderIsCounted
  <2>2. queryCount \in Nat /\ queryCount <= MaxEngine
    BY <1>0 DEF SchedulerType, LifecycleInv, CountsExact
  <2>3. queryCount' = queryCount - 1
    BY <1>1
  <2> QED BY <2>1, <2>2, <2>3
<1>5. CountsExact' /\ ActiveInv'
  <2>1. /\ Cardinality(EngineHolders') = queryCount - 1
        /\ Cardinality(SlotHolders(Of[q])') = active[Of[q]]
        /\ \A s \in Sessions : s # Of[q] => SlotHolders(s)' = SlotHolders(s)
    BY <1>1, <1>2, CountsChange
  <2> QED BY <1>1, <1>4, <2>1 DEF LifecycleInv, CountsExact, ActiveInv
<1>6. TypeOK'
  <2>1. SchedulerType'
    BY <1>0, <1>4 DEF SchedulerType, ReleaseEngine
  <2>2. AcquisitionType' /\ SessionType'
    BY <1>0 DEF AcquisitionType, SessionType, ReleaseEngine
  <2>3. QueryType'
    BY <1>0, <1>1, <1>2 DEF QueryType, ReleaseEngine
  <2> QED BY <2>1, <2>2, <2>3 DEF TypeOK
<1> QED BY <1>1, <1>3, <1>5, <1>6, ThreadKept DEF LifecycleInv

LEMMA ReleaseSlotKeeps ==
    ASSUME LifecycleInv, NEW q \in Queries, ReleaseSlot(q) PROVE LifecycleInv'
<1>0. SchedulerType /\ SessionType /\ AcquisitionType /\ QueryType
  BY DEF LifecycleInv, TypeOK
<1> DEFINE s == Of[q]
           last == active[s] = 1 /\ ~running[s]
<1>1. /\ ended[q] /\ held[q] = "slot only"
      /\ held' = [held EXCEPT ![q] = "nothing"]
      /\ active' = [active EXCEPT ![s] = @ - 1]
      /\ queries' = [queries EXCEPT ![s] = @ \ {q}]
      /\ last => Deactivated(s)
      /\ ~last => UNCHANGED <<activated, activeSessions, registry>>
      /\ UNCHANGED <<pc, ended, queryCount, threadVars>>
  BY <1>0 DEF ReleaseSlot
<1>2. /\ s \in Sessions /\ "nothing" \in Holdings
      /\ held'[q] = "nothing" /\ \A p \in Queries : p # q => held'[p] = held[p]
      /\ queries'[s] = queries[s] \ {q}
      /\ \A t \in Sessions : t # s => queries'[t] = queries[t] /\ active'[t] = active[t]
      /\ active'[s] = active[s] - 1
  BY <1>0, <1>1 DEF QueryType, SessionType, Holdings
<1>3. Holding(q)'
  BY <1>1, <1>2 DEF LifecycleInv, HoldInv, Holding, Early
<1>4. HoldInv'
  <2>1. ASSUME NEW p \in Queries PROVE Holding(p)'
    <3>1. CASE p = q
      BY <1>3, <3>1
    <3>2. CASE p # q
      <4>1. Holding(p) /\ (p \in queries[Of[p]] => p \in queries'[Of[p]])
        BY <1>2, <3>2 DEF LifecycleInv, HoldInv
      <4> QED BY <1>1, <1>2, <3>2, <4>1 DEF Holding
    <3> QED BY <3>1, <3>2
  <2>2. ASSUME NEW t \in Sessions, NEW p \in queries'[t]
        PROVE  Of[p] = t /\ pc'[p] \in Started \cup {"refused"}
    <3>1. p \in queries[t]
      BY <1>2, <2>2
    <3> QED BY <1>1, <3>1 DEF LifecycleInv, HoldInv
  <2> QED BY <2>1, <2>2 DEF HoldInv
<1>5. active[s] \in Nat /\ active[s] > 0 /\ active'[s] \in Nat /\ active[s] <= MaxSession
  <2>1. active[s] > 0
    BY <1>1, HolderIsCounted
  <2>2. active[s] \in Nat /\ active[s] <= MaxSession
    BY <1>0, <1>2 DEF SessionType, LifecycleInv, CountsExact
  <2> QED BY <1>2, <2>1, <2>2
<1>6. /\ activated' \in [Sessions -> BOOLEAN]
      /\ activeSessions' \in Nat /\ activeSessions' <= MaxActive
      /\ activeSessions' = Cardinality({t \in Sessions : activated'[t]})
      /\ registry' \subseteq Sessions
      /\ \A t \in Sessions : t # s => activated'[t] = activated[t]
  <2>1. CASE last
    BY <1>1, <1>2, <2>1, DeactivatedCounts
  <2>2. CASE ~last
    <3>1. UNCHANGED <<activated, activeSessions, registry>>
      BY <1>1, <2>2
    <3> QED BY <1>0, <3>1 DEF SchedulerType, SessionType, LifecycleInv, CountsExact
  <2> QED BY <2>1, <2>2
<1>7. CountsExact'
  <2>1. /\ Cardinality(EngineHolders') = queryCount
        /\ Cardinality(SlotHolders(s)') = active[s] - 1
        /\ \A t \in Sessions : t # s => SlotHolders(t)' = SlotHolders(t)
    <3>1. /\ held[q] = "slot only" /\ "nothing" \in Holdings
          /\ held' = [held EXCEPT ![q] = "nothing"]
      BY <1>1, <1>2
    <3> QED BY <3>1, CountsChange
  <2>2. active'[s] <= MaxSession
    BY <1>2, <1>5
  <2>3. \A t \in Sessions : active'[t] = Cardinality(SlotHolders(t)')
                            /\ active'[t] <= MaxSession
    BY <1>2, <2>1, <2>2 DEF LifecycleInv, CountsExact
  <2> QED BY <1>1, <1>6, <2>1, <2>3 DEF LifecycleInv, CountsExact
<1>8. ActiveInv'
  <2> SUFFICES ASSUME NEW t \in Sessions, active'[t] > 0 PROVE activated'[t]
    BY DEF ActiveInv
  <2>1. CASE t # s
    BY <1>2, <1>6, <2>1 DEF LifecycleInv, ActiveInv
  <2>2. CASE t = s
    <3>1. active[s] > 1
      BY <1>2, <1>5, <2>2
    <3>2. ~last
      BY <3>1
    <3>3. activated[s]
      BY <1>2, <1>5 DEF LifecycleInv, ActiveInv
    <3> QED BY <1>1, <2>2, <3>2, <3>3
  <2> QED BY <2>1, <2>2
<1>9. TypeOK'
  <2>1. SchedulerType'
    BY <1>0, <1>6 DEF SchedulerType, ReleaseSlot
  <2>2. AcquisitionType'
    BY <1>0 DEF AcquisitionType, ReleaseSlot, CancelStored
  <2>3. QueryType'
    BY <1>0, <1>2 DEF QueryType, ReleaseSlot
  <2>4. active' \in [Sessions -> Nat] /\ queries' \in [Sessions -> SUBSET Queries]
    BY <1>0, <1>1, <1>2, <1>5 DEF SessionType
  <2>5. SessionType'
    BY <1>0, <1>6, <2>4 DEF SessionType, ReleaseSlot
  <2> QED BY <2>1, <2>2, <2>3, <2>5 DEF TypeOK
<1> QED BY <1>1, <1>4, <1>7, <1>8, <1>9, ThreadKept DEF LifecycleInv

-----------------------------------------------------------------------------
(* acquisition_loop.                                                       *)

LEMMA LoopTopKeeps ==
    ASSUME LifecycleInv, NEW s \in Sessions, LoopTop(s) PROVE LifecycleInv'
<1>0. SchedulerType /\ SessionType /\ AcquisitionType /\ QueryType
  BY DEF LifecycleInv, TypeOK
<1>1. TypeOK'
  <2>1. SchedulerType' /\ SessionType' /\ QueryType'
    BY <1>0 DEF SchedulerType, SessionType, QueryType, LoopTop
  <2>2. AcquisitionType'
    BY <1>0 DEF AcquisitionType, LoopTop, Places
  <2> QED BY <2>1, <2>2 DEF TypeOK
<1>2. /\ thread[s] = "top"
      /\ \/ thread'[s] = "leaving" /\ exiting'[s] /\ Leaving(s)
         \/ thread'[s] \in {"renew", "ask"} /\ exiting'[s] = exiting[s]
      /\ sourceEnded' = sourceEnded
      /\ \A t \in Sessions : t # s => /\ thread'[t] = thread[t]
                                      /\ exiting'[t] = exiting[t]
                                      /\ sourceEnded'[t] = sourceEnded[t]
      /\ UNCHANGED <<pc, ended, held, queries, running, closed, call, handle, gate,
                     watcher, queryCount, active, activeSessions, activated>>
  BY <1>0 DEF AcquisitionType, SessionType, LoopTop
<1>3. Serving(s)'
  BY <1>2 DEF LifecycleInv, ThreadInv, SessionInv, Serving
<1> QED BY <1>1, <1>2, <1>3, CountsKept, HoldKept, ThreadMoves DEF LifecycleInv

LEMMA RenewTokenKeeps ==
    ASSUME LifecycleInv, NEW s \in Sessions, RenewToken(s) PROVE LifecycleInv'
<1>0. SchedulerType /\ SessionType /\ AcquisitionType /\ QueryType
  BY DEF LifecycleInv, TypeOK
<1>1. TypeOK'
  <2>1. SchedulerType' /\ SessionType' /\ QueryType'
    BY <1>0 DEF SchedulerType, SessionType, QueryType, RenewToken
  <2>2. AcquisitionType'
    BY <1>0 DEF AcquisitionType, RenewToken, Places
  <2> QED BY <2>1, <2>2 DEF TypeOK
<1>2. /\ thread[s] = "renew"
      /\ thread'[s] = "store"
      /\ UNCHANGED <<sourceEnded, exiting>>
      /\ \A t \in Sessions : t # s => /\ thread'[t] = thread[t]
                                      /\ exiting'[t] = exiting[t]
                                      /\ sourceEnded'[t] = sourceEnded[t]
      /\ UNCHANGED <<pc, ended, held, queries, running, closed, call, handle, gate,
                     watcher, queryCount, active, activeSessions, activated>>
  BY <1>0 DEF AcquisitionType, SessionType, RenewToken
<1>3. Serving(s)'
  BY <1>2 DEF LifecycleInv, ThreadInv, SessionInv, Serving
<1> QED BY <1>1, <1>2, <1>3, CountsKept, HoldKept, ThreadMoves DEF LifecycleInv

LEMMA StoreTokenKeeps ==
    ASSUME LifecycleInv, NEW s \in Sessions, StoreToken(s) PROVE LifecycleInv'
<1>0. SchedulerType /\ SessionType /\ AcquisitionType /\ QueryType
  BY DEF LifecycleInv, TypeOK
<1>1. TypeOK'
  <2>1. SchedulerType' /\ SessionType' /\ QueryType'
    BY <1>0 DEF SchedulerType, SessionType, QueryType, StoreToken
  <2>2. AcquisitionType'
    BY <1>0 DEF AcquisitionType, StoreToken, Places
  <2> QED BY <2>1, <2>2 DEF TypeOK
<1>2. /\ thread[s] = "store"
      /\ \/ thread'[s] = "leaving" /\ exiting'[s] /\ Leaving(s)
         \/ thread'[s] = "ask" /\ exiting'[s] = exiting[s]
      /\ sourceEnded' = sourceEnded
      /\ \A t \in Sessions : t # s => /\ thread'[t] = thread[t]
                                      /\ exiting'[t] = exiting[t]
                                      /\ sourceEnded'[t] = sourceEnded[t]
      /\ UNCHANGED <<pc, ended, held, queries, running, closed, call, handle, gate,
                     watcher, queryCount, active, activeSessions, activated>>
  BY <1>0 DEF AcquisitionType, SessionType, StoreToken
<1>3. Serving(s)'
  BY <1>2 DEF LifecycleInv, ThreadInv, SessionInv, Serving
<1> QED BY <1>1, <1>2, <1>3, CountsKept, HoldKept, ThreadMoves DEF LifecycleInv

LEMMA AskKeeps ==
    ASSUME LifecycleInv, NEW s \in Sessions, Ask(s) PROVE LifecycleInv'
<1>0. SchedulerType /\ SessionType /\ AcquisitionType /\ QueryType
  BY DEF LifecycleInv, TypeOK
<1>1. TypeOK'
  <2>1. SchedulerType' /\ SessionType' /\ QueryType'
    BY <1>0 DEF SchedulerType, SessionType, QueryType, Ask
  <2>2. AcquisitionType'
    BY <1>0 DEF AcquisitionType, Ask, Places
  <2> QED BY <2>1, <2>2 DEF TypeOK
<1>2. /\ thread[s] = "ask"
      /\ thread'[s] \in {"latest", "newer"}
      /\ UNCHANGED <<sourceEnded, exiting>>
      /\ \A t \in Sessions : t # s => /\ thread'[t] = thread[t]
                                      /\ exiting'[t] = exiting[t]
                                      /\ sourceEnded'[t] = sourceEnded[t]
      /\ UNCHANGED <<pc, ended, held, queries, running, closed, call, handle, gate,
                     watcher, queryCount, active, activeSessions, activated>>
  BY <1>0 DEF AcquisitionType, SessionType, Ask
<1>3. Serving(s)'
  BY <1>2 DEF LifecycleInv, ThreadInv, SessionInv, Serving
<1> QED BY <1>1, <1>2, <1>3, CountsKept, HoldKept, ThreadMoves DEF LifecycleInv

LEMMA PublishLatestKeeps ==
    ASSUME LifecycleInv, NEW s \in Sessions, PublishLatest(s) PROVE LifecycleInv'
<1>0. SchedulerType /\ SessionType /\ AcquisitionType /\ QueryType
  BY DEF LifecycleInv, TypeOK
<1>1. TypeOK'
  <2>1. SchedulerType' /\ SessionType'
    BY <1>0 DEF SchedulerType, SessionType, PublishLatest, Publish
  <2>2. AcquisitionType'
    BY <1>0 DEF AcquisitionType, PublishLatest, Publish, Places
  <2>3. QueryType'
    BY <1>0 DEF QueryType, PublishLatest, Publish
  <2> QED BY <2>1, <2>2, <2>3 DEF TypeOK
<1>2. /\ thread[s] \in {"latest", "newer"}
      /\ thread'[s] = "top"
      /\ UNCHANGED <<sourceEnded, exiting>>
      /\ \A t \in Sessions : t # s => /\ thread'[t] = thread[t]
                                      /\ exiting'[t] = exiting[t]
                                      /\ sourceEnded'[t] = sourceEnded[t]
      /\ UNCHANGED <<pc, ended, held, queries, running, closed, call, handle, gate,
                     watcher, queryCount, active, activeSessions, activated>>
  BY <1>0 DEF AcquisitionType, SessionType, PublishLatest, Publish
<1>3. Serving(s)'
  BY <1>2 DEF LifecycleInv, ThreadInv, SessionInv, Serving
<1> QED BY <1>1, <1>2, <1>3, CountsKept, HoldKept, ThreadMoves DEF LifecycleInv

LEMMA PublishNewerKeeps ==
    ASSUME LifecycleInv, NEW s \in Sessions, PublishNewer(s) PROVE LifecycleInv'
<1>0. SchedulerType /\ SessionType /\ AcquisitionType /\ QueryType
  BY DEF LifecycleInv, TypeOK
<1>1. TypeOK'
  <2>1. SchedulerType' /\ SessionType'
    BY <1>0 DEF SchedulerType, SessionType, PublishNewer, Publish
  <2>2. AcquisitionType'
    BY <1>0 DEF AcquisitionType, PublishNewer, Publish, Places
  <2>3. QueryType'
    BY <1>0 DEF QueryType, PublishNewer, Publish
  <2> QED BY <2>1, <2>2, <2>3 DEF TypeOK
<1>2. /\ thread[s] \in {"latest", "newer"}
      /\ thread'[s] = "top"
      /\ UNCHANGED <<sourceEnded, exiting>>
      /\ \A t \in Sessions : t # s => /\ thread'[t] = thread[t]
                                      /\ exiting'[t] = exiting[t]
                                      /\ sourceEnded'[t] = sourceEnded[t]
      /\ UNCHANGED <<pc, ended, held, queries, running, closed, call, handle, gate,
                     watcher, queryCount, active, activeSessions, activated>>
  BY <1>0 DEF AcquisitionType, SessionType, PublishNewer, Publish
<1>3. Serving(s)'
  BY <1>2 DEF LifecycleInv, ThreadInv, SessionInv, Serving
<1> QED BY <1>1, <1>2, <1>3, CountsKept, HoldKept, ThreadMoves DEF LifecycleInv

LEMMA WaitCancelledKeeps ==
    ASSUME LifecycleInv, NEW s \in Sessions, WaitCancelled(s) PROVE LifecycleInv'
<1>0. SchedulerType /\ SessionType /\ AcquisitionType /\ QueryType
  BY DEF LifecycleInv, TypeOK
<1>1. TypeOK'
  <2>1. SchedulerType' /\ SessionType' /\ QueryType'
    BY <1>0 DEF SchedulerType, SessionType, QueryType, WaitCancelled
  <2>2. AcquisitionType'
    BY <1>0 DEF AcquisitionType, WaitCancelled, Places
  <2> QED BY <2>1, <2>2 DEF TypeOK
<1>2. /\ thread[s] \in {"latest", "newer"}
      /\ thread'[s] = IF closed[s] THEN "leaving" ELSE "top"
      /\ UNCHANGED <<sourceEnded, exiting>>
      /\ \A t \in Sessions : t # s => /\ thread'[t] = thread[t]
                                      /\ exiting'[t] = exiting[t]
                                      /\ sourceEnded'[t] = sourceEnded[t]
      /\ UNCHANGED <<pc, ended, held, queries, running, closed, call, handle, gate,
                     watcher, queryCount, active, activeSessions, activated>>
  BY <1>0 DEF AcquisitionType, SessionType, WaitCancelled
<1>3. Serving(s)'
  BY <1>2 DEF LifecycleInv, ThreadInv, SessionInv, Serving
<1> QED BY <1>1, <1>2, <1>3, CountsKept, HoldKept, ThreadMoves DEF LifecycleInv

LEMMA SourceEndsKeeps ==
    ASSUME LifecycleInv, NEW s \in Sessions, SourceEnds(s) PROVE LifecycleInv'
<1>0. SchedulerType /\ SessionType /\ AcquisitionType /\ QueryType
  BY DEF LifecycleInv, TypeOK
<1>1. TypeOK'
  <2>1. SchedulerType' /\ QueryType'
    BY <1>0 DEF SchedulerType, QueryType, SourceEnds
  <2>2. SessionType'
    BY <1>0 DEF SessionType, SourceEnds
  <2>3. AcquisitionType'
    BY <1>0 DEF AcquisitionType, SourceEnds, Places
  <2> QED BY <2>1, <2>2, <2>3 DEF TypeOK
<1>2. /\ thread[s] \in {"latest", "newer"}
      /\ \/ thread'[s] = "leaving" /\ closed[s] /\ sourceEnded'[s] = sourceEnded[s]
         \/ thread'[s] = "ending" /\ sourceEnded'[s]
      /\ UNCHANGED exiting
      /\ \A t \in Sessions : t # s => /\ thread'[t] = thread[t]
                                      /\ exiting'[t] = exiting[t]
                                      /\ sourceEnded'[t] = sourceEnded[t]
      /\ UNCHANGED <<pc, ended, held, queries, running, closed, call, handle, gate,
                     watcher, queryCount, active, activeSessions, activated>>
  BY <1>0 DEF AcquisitionType, SessionType, SourceEnds
<1>3. Serving(s)'
  BY <1>2 DEF LifecycleInv, ThreadInv, SessionInv, Serving
<1> QED BY <1>1, <1>2, <1>3, CountsKept, HoldKept, ThreadMoves DEF LifecycleInv

LEMMA EndRegisteredKeeps ==
    ASSUME LifecycleInv, NEW s \in Sessions, EndRegistered(s) PROVE LifecycleInv'
<1>0. SchedulerType /\ SessionType /\ AcquisitionType /\ QueryType
  BY DEF LifecycleInv, TypeOK
<1>1. TypeOK'
  <2>1. SchedulerType' /\ SessionType'
    BY <1>0 DEF SchedulerType, SessionType, EndRegistered
  <2>2. AcquisitionType'
    BY <1>0 DEF AcquisitionType, EndRegistered, Places
  <2>3. QueryType'
    BY <1>0 DEF QueryType, EndRegistered
  <2> QED BY <2>1, <2>2, <2>3 DEF TypeOK
<1>2. /\ thread[s] = "ending"
      /\ thread'[s] = "finished"
      /\ UNCHANGED <<sourceEnded, exiting>>
      /\ \A q \in Queries : /\ ended[q] => ended'[q]
                            /\ ended'[q] => ended[q] \/ q \in queries[s]
      /\ \A t \in Sessions : t # s => /\ thread'[t] = thread[t]
                                      /\ exiting'[t] = exiting[t]
                                      /\ sourceEnded'[t] = sourceEnded[t]
      /\ UNCHANGED <<pc, held, queries, running, closed, call, handle, gate,
                     watcher, queryCount, active, activeSessions, activated>>
  BY <1>0 DEF AcquisitionType, SessionType, EndRegistered, QueryType
<1>3. Serving(s)'
  BY <1>2 DEF LifecycleInv, ThreadInv, SessionInv, Serving
<1>4. \A q \in Queries : ended'[q] => ended[q] \/ pc[q] \in Started \cup {"refused"}
  BY <1>2 DEF LifecycleInv, HoldInv
<1>5. HoldInv'
  BY <1>2, <1>4, EndsHold
<1>6. ThreadInv'
  <2>1. thread[s] # "none" /\ thread'[s] # "none" /\ (exiting'[s] => exiting[s])
        /\ (sourceEnded[s] => sourceEnded'[s])
    BY <1>2
  <2> QED BY <1>2, <1>3, <2>1, ThreadMoves
<1> QED BY <1>1, <1>2, <1>5, <1>6, CountsKept DEF LifecycleInv

LEMMA AfterSourceKeeps ==
    ASSUME LifecycleInv, NEW s \in Sessions, AfterSource(s) PROVE LifecycleInv'
<1>0. SchedulerType /\ SessionType /\ AcquisitionType /\ QueryType
  BY DEF LifecycleInv, TypeOK
<1> DEFINE quits == active[s] = 0 /\ ~running[s]
<1>1. /\ thread[s] = "finished" /\ thread' = [thread EXCEPT ![s] = "leaving"]
      /\ quits => Deactivated(s)
      /\ ~quits => UNCHANGED <<activated, activeSessions, registry>>
      /\ UNCHANGED <<pc, ended, held, queries, queryCount, active, running, exiting,
                     closed, sourceEnded, call, handle, gate, watcher>>
  BY DEF AfterSource, DeactivateIfFinished
<1>2. ~quits
  BY <1>1 DEF LifecycleInv, ThreadInv, SessionInv, Serving
<1>3. TypeOK'
  <2>1. SchedulerType' /\ SessionType' /\ QueryType'
    BY <1>0, <1>1, <1>2 DEF SchedulerType, SessionType, QueryType, AfterSource
  <2>2. AcquisitionType'
    BY <1>0 DEF AcquisitionType, AfterSource, DeactivateIfFinished, CancelStored, Places
  <2> QED BY <2>1, <2>2 DEF TypeOK
<1>4. thread'[s] = "leaving" /\ \A t \in Sessions : t # s => thread'[t] = thread[t]
  BY <1>0, <1>1 DEF AcquisitionType
<1>5. Serving(s)'
  BY <1>1, <1>4 DEF LifecycleInv, ThreadInv, SessionInv, Serving
<1> QED BY <1>1, <1>2, <1>3, <1>4, <1>5, CountsKept, HoldKept, ThreadMoves
        DEF LifecycleInv

LEMMA LeaveKeeps ==
    ASSUME LifecycleInv, NEW s \in Sessions, Leave(s) PROVE LifecycleInv'
<1>0. SchedulerType /\ SessionType /\ AcquisitionType /\ QueryType
  BY DEF LifecycleInv, TypeOK
<1>1. /\ thread[s] = "leaving" /\ thread' = [thread EXCEPT ![s] = "none"]
      /\ running' = [running EXCEPT ![s] = FALSE]
      /\ exiting' = [exiting EXCEPT ![s] = FALSE]
      /\ active[s] = 0 => Deactivated(s)
      /\ active[s] # 0 => UNCHANGED <<activated, activeSessions, registry>>
      /\ UNCHANGED <<pc, ended, held, queries, queryCount, active, closed, sourceEnded, call,
                     handle, gate, watcher>>
  BY DEF Leave
<1>2. /\ activated' \in [Sessions -> BOOLEAN] /\ activeSessions' \in Nat
      /\ registry' \subseteq Sessions
      /\ CountsExact' /\ ActiveInv'
  BY <1>1, QuitCounts
<1>3. TypeOK'
  <2>1. SchedulerType'
    BY <1>0, <1>2 DEF SchedulerType, Leave
  <2>2. SessionType'
    BY <1>0, <1>2 DEF SessionType, Leave
  <2>3. AcquisitionType' /\ QueryType'
    BY <1>0 DEF AcquisitionType, QueryType, Leave, Places
  <2> QED BY <2>1, <2>2, <2>3 DEF TypeOK
<1>4. /\ thread'[s] = "none" /\ ~running'[s] /\ ~exiting'[s]
      /\ \A t \in Sessions : t # s => /\ thread'[t] = thread[t]
                                      /\ running'[t] = running[t]
                                      /\ exiting'[t] = exiting[t]
  BY <1>0, <1>1 DEF AcquisitionType
<1>5. Serving(s) /\ Acquired(s) /\ Cut(s) /\ Missed(s) /\ Spawned(s) /\ Owned(s)
  BY DEF LifecycleInv, ThreadInv, SessionInv
<1>6. SessionInv(s)'
  <2>1. Serving(s)' /\ Acquired(s)'
    BY <1>1, <1>4, <1>5 DEF Serving, Acquired
  <2>2. Cut(s)' /\ Missed(s)'
    BY <1>1, <1>5 DEF Cut, Missed
  <2>3. Spawned(s)' /\ Owned(s)'
    BY <1>1, <1>4, <1>5 DEF Spawned, Owned
  <2> QED BY <2>1, <2>2, <2>3 DEF SessionInv
<1>7. \A t \in Sessions : t # s => Same(t)
  BY <1>1, <1>4 DEF Same
<1>8. ThreadInv'
  BY <1>6, <1>7, ThreadChange
<1> QED BY <1>1, <1>2, <1>3, <1>8, HoldKept DEF LifecycleInv

LEMMA CaptureEndsKeeps ==
    ASSUME LifecycleInv, NEW s \in Sessions, NEW kind \in {"lost", "closed"},
           CaptureEnds(s, kind)
    PROVE  LifecycleInv'
<1>0. SchedulerType /\ SessionType /\ AcquisitionType /\ QueryType
  BY DEF LifecycleInv, TypeOK
<1>1. TypeOK'
  <2>1. SchedulerType' /\ AcquisitionType' /\ QueryType'
    BY <1>0 DEF SchedulerType, AcquisitionType, QueryType, CaptureEnds
  <2>2. SessionType'
    BY <1>0 DEF SessionType, CaptureEnds
  <2> QED BY <2>1, <2>2 DEF TypeOK
<1>2. UNCHANGED <<pc, ended, held, queries, queryCount, active, activeSessions, activated,
                  threadVars>>
  BY DEF CaptureEnds
<1> QED BY <1>1, <1>2, CountsKept, HoldKept, ThreadKept DEF LifecycleInv

-----------------------------------------------------------------------------
(* Close.                                                                  *)

LEMMA FacadeGateKeeps ==
    ASSUME LifecycleInv, NEW s \in Sessions, NEW k \in Callers, FacadeGate(s, k)
    PROVE  LifecycleInv'
<1>0. SchedulerType /\ SessionType /\ AcquisitionType /\ QueryType
  BY DEF LifecycleInv, TypeOK
<1>1. /\ call[s][k] = "idle" /\ Call(s, k, "gated") /\ gate'[s]
      /\ \A t \in Sessions : t # s => gate'[t] = gate[t]
      /\ UNCHANGED <<pc, ended, held, queries, queryCount, active, activeSessions,
                     activated, running, exiting, thread, handle, closed, sourceEnded,
                     watcher>>
  BY <1>0 DEF SessionType, FacadeGate
<1>2. k \in Closers /\ k \notin Queries /\ "gated" \in Calls /\ Missed(s)
  BY DEF Closers, Calls, LifecycleInv, ThreadInv, SessionInv
<1>3. \A c \in Closers : call'[s][c] = IF c = k THEN "gated" ELSE call[s][c]
  BY <1>1, <1>2, CallChange
<1>4. Missed(s)'
  BY <1>1, <1>2, <1>3 DEF Missed, Closers
<1>5. ThreadInv' /\ call' \in [Sessions -> [Closers -> Calls]]
  BY <1>1, <1>2, <1>4, CallOutside
<1>6. TypeOK'
  <2>1. SchedulerType' /\ AcquisitionType' /\ QueryType'
    BY <1>0 DEF SchedulerType, AcquisitionType, QueryType, FacadeGate
  <2>2. SessionType'
    BY <1>0, <1>5 DEF SessionType, FacadeGate
  <2> QED BY <2>1, <2>2 DEF TypeOK
<1> QED BY <1>1, <1>5, <1>6, CountsKept, HoldKept DEF LifecycleInv

LEMMA FacadeReadKeeps ==
    ASSUME LifecycleInv, NEW s \in Sessions, NEW k \in Callers, FacadeRead(s, k)
    PROVE  LifecycleInv'
<1>0. SchedulerType /\ SessionType /\ AcquisitionType /\ QueryType
  BY DEF LifecycleInv, TypeOK
<1> DEFINE label == IF watcher[s] THEN "called" ELSE "done"
<1>1. /\ call[s][k] = "gated" /\ Call(s, k, label)
      /\ UNCHANGED <<pc, ended, held, queries, queryCount, active, activeSessions,
                     activated, running, exiting, thread, handle, closed, sourceEnded,
                     gate, watcher>>
  BY DEF FacadeRead
<1>2. /\ k \in Closers /\ k \notin Queries /\ label \in Calls
      /\ label \in {"gated", "called", "done"} /\ Missed(s)
  BY DEF Closers, Calls, LifecycleInv, ThreadInv, SessionInv
<1>3. \A c \in Closers : call'[s][c] = IF c = k THEN label ELSE call[s][c]
  BY <1>1, <1>2, CallChange
<1>4. Missed(s)'
  <2>1. gate[s] /\ (label = "done" => ~watcher[s]) /\ label # "gated"
    BY <1>1, <1>2 DEF Missed
  <2> HIDE DEF label
  <2> QED BY <1>1, <1>2, <1>3, <2>1 DEF Missed, Closers
<1> HIDE DEF label
<1>5. ThreadInv' /\ call' \in [Sessions -> [Closers -> Calls]]
  BY <1>1, <1>2, <1>4, CallOutside
<1>6. TypeOK'
  <2>1. SchedulerType' /\ AcquisitionType' /\ QueryType'
    BY <1>0 DEF SchedulerType, AcquisitionType, QueryType, FacadeRead
  <2>2. SessionType'
    BY <1>0, <1>5 DEF SessionType, FacadeRead
  <2> QED BY <2>1, <2>2 DEF TypeOK
<1> QED BY <1>1, <1>5, <1>6, CountsKept, HoldKept DEF LifecycleInv

LEMMA SchedulerClosesKeeps ==
    ASSUME LifecycleInv, NEW s \in Sessions, SchedulerCloses(s) PROVE LifecycleInv'
<1>0. SchedulerType /\ SessionType /\ AcquisitionType /\ QueryType
  BY DEF LifecycleInv, TypeOK
<1>1. /\ call[s][Engine] \in {"idle", "done"} /\ Call(s, Engine, "called")
      /\ UNCHANGED <<pc, ended, held, queries, queryCount, active, activeSessions,
                     activated, running, exiting, thread, handle, closed, sourceEnded,
                     gate, watcher>>
  BY DEF SchedulerCloses, Calling
<1>2. Engine \in Closers /\ Engine \notin Queries /\ "called" \in Calls /\ Missed(s)
  BY DEF Closers, Calls, LifecycleInv, ThreadInv, SessionInv
<1>3. \A c \in Closers : call'[s][c] = IF c = Engine THEN "called" ELSE call[s][c]
  BY <1>1, <1>2, CallChange
<1>4. Missed(s)'
  BY <1>1, <1>2, <1>3 DEF Missed, Closers
<1>5. ThreadInv' /\ call' \in [Sessions -> [Closers -> Calls]]
  BY <1>1, <1>2, <1>4, CallOutside
<1>6. TypeOK'
  <2>1. SchedulerType' /\ AcquisitionType' /\ QueryType'
    BY <1>0 DEF SchedulerType, AcquisitionType, QueryType, SchedulerCloses
  <2>2. SessionType'
    BY <1>0, <1>5 DEF SessionType, SchedulerCloses
  <2> QED BY <2>1, <2>2 DEF TypeOK
<1> QED BY <1>1, <1>5, <1>6, CountsKept, HoldKept DEF LifecycleInv

LEMMA SealSchedulerKeeps ==
    ASSUME LifecycleInv, SealScheduler PROVE LifecycleInv'
<1>0. SchedulerType /\ SessionType /\ AcquisitionType /\ QueryType
  BY DEF LifecycleInv, TypeOK
<1>1. TypeOK'
  <2>1. SessionType' /\ AcquisitionType' /\ QueryType'
    BY <1>0 DEF SessionType, AcquisitionType, QueryType, SealScheduler
  <2>2. SchedulerType'
    BY <1>0 DEF SchedulerType, SealScheduler
  <2> QED BY <2>1, <2>2 DEF TypeOK
<1>2. UNCHANGED <<pc, ended, held, queries, queryCount, active, activeSessions, activated,
                  threadVars>>
  BY DEF SealScheduler
<1> QED BY <1>1, <1>2, CountsKept, HoldKept, ThreadKept DEF LifecycleInv

LEMMA TakeSessionsKeeps ==
    ASSUME LifecycleInv, TakeSessions PROVE LifecycleInv'
<1>0. SchedulerType /\ SessionType /\ AcquisitionType /\ QueryType
  BY DEF LifecycleInv, TypeOK
<1>1. TypeOK'
  <2>1. SessionType' /\ AcquisitionType' /\ QueryType'
    BY <1>0 DEF SessionType, AcquisitionType, QueryType, TakeSessions
  <2>2. SchedulerType'
    BY <1>0 DEF SchedulerType, TakeSessions
  <2> QED BY <2>1, <2>2 DEF TypeOK
<1>2. UNCHANGED <<pc, ended, held, queries, queryCount, active, activeSessions, activated,
                  threadVars>>
  BY DEF TakeSessions
<1> QED BY <1>1, <1>2, CountsKept, HoldKept, ThreadKept DEF LifecycleInv

(* A close call inside WatchSession::close, of a closed session.           *)
LEMMA CallInside ==
    ASSUME LifecycleInv, NEW s \in Sessions, NEW c \in Closers,
           NEW label \in Inside \cup {"done"},
           call[s][c] \in Inside \cup {"called"}, Call(s, c, label),
           closed'[s], closed[s] \/ label \in {"cancel", "terminate"},
           Cut(s)', Spawned(s)', Owned(s)',
           \A q \in Queries : ended[q] => ended'[q],
           \A t \in Sessions : t # s => closed'[t] = closed[t] /\ handle'[t] = handle[t],
           UNCHANGED <<running, exiting, thread, sourceEnded, gate, watcher, pc>>
    PROVE  ThreadInv' /\ call' \in [Sessions -> [Closers -> Calls]]
<1>0. /\ Serving(s) /\ Missed(s) /\ Queries \subseteq Closers
      /\ label \in Calls /\ label # "gated"
  BY DEF LifecycleInv, ThreadInv, SessionInv, Calls, Closers
<1>1. /\ call'[s][c] = label /\ call' \in [Sessions -> [Closers -> Calls]]
      /\ \A d \in Closers : d # c => call'[s][d] = call[s][d]
      /\ \A t \in Sessions : t # s => call'[t] = call[t]
  BY <1>0, CallChange
<1>2. Serving(s)' /\ Acquired(s)'
  BY <1>0 DEF Serving, Acquired
<1>3. Missed(s)'
  BY <1>0, <1>1 DEF Missed
<1>4. SessionInv(s)'
  BY <1>2, <1>3 DEF SessionInv
<1>5. \A t \in Sessions : t # s => Same(t)
  BY <1>1 DEF Same
<1> QED BY <1>1, <1>4, <1>5, ThreadChange

LEMMA CloseCalledKeeps ==
    ASSUME LifecycleInv, NEW s \in Sessions, NEW c \in Closers, CloseCalled(s, c)
    PROVE  LifecycleInv'
<1>0. SchedulerType /\ SessionType /\ AcquisitionType /\ QueryType
  BY DEF LifecycleInv, TypeOK
<1> DEFINE label == IF closed[s] THEN "join" ELSE "cancel"
<1>1. /\ call[s][c] = "called" /\ Call(s, c, label) /\ closed'[s]
      /\ \A t \in Sessions : t # s => closed'[t] = closed[t]
      /\ UNCHANGED <<pc, ended, held, queries, queryCount, active, activeSessions,
                     activated, running, exiting, thread, handle, sourceEnded, gate,
                     watcher>>
  BY <1>0 DEF SessionType, CloseCalled
<1>2. label \in Calls /\ label \in Inside /\ Cut(s) /\ Spawned(s) /\ Owned(s)
  BY DEF Calls, LifecycleInv, ThreadInv, SessionInv
<1>3. \A d \in Closers : call'[s][d] = IF d = c THEN label ELSE call[s][d]
  BY <1>1, <1>2, CallChange
<1>4. closed[s] \/ label = "cancel"
  OBVIOUS
<1>5. closed[s] => label = "join"
  OBVIOUS
<1> HIDE DEF label
<1>6. Cut(s)'
  BY <1>1, <1>2, <1>3, <1>4, <1>5 DEF Cut
<1>7. Spawned(s)'
  BY <1>1, <1>2, <1>3, <1>4 DEF Spawned
<1>8. Owned(s)'
  BY <1>1, <1>2, <1>3 DEF Owned
<1>9. ThreadInv' /\ call' \in [Sessions -> [Closers -> Calls]]
  BY <1>1, <1>2, <1>4, <1>6, <1>7, <1>8, CallInside
<1>10. TypeOK'
  <2>1. SchedulerType' /\ AcquisitionType' /\ QueryType'
    BY <1>0 DEF SchedulerType, AcquisitionType, QueryType, CloseCalled
  <2>2. SessionType'
    BY <1>0, <1>9 DEF SessionType, CloseCalled
  <2> QED BY <2>1, <2>2 DEF TypeOK
<1> QED BY <1>1, <1>9, <1>10, CountsKept, HoldKept DEF LifecycleInv

LEMMA CloseCancelKeeps ==
    ASSUME LifecycleInv, NEW s \in Sessions, NEW c \in Closers, CloseCancel(s, c)
    PROVE  LifecycleInv'
<1>0. SchedulerType /\ SessionType /\ AcquisitionType /\ QueryType
  BY DEF LifecycleInv, TypeOK
<1>1. /\ call[s][c] = "cancel" /\ Call(s, c, "terminate") /\ Unlocked(s)
      /\ UNCHANGED <<pc, ended, held, queries, queryCount, active, activeSessions,
                     activated, running, exiting, thread, handle, closed, sourceEnded,
                     gate, watcher>>
  BY DEF CloseCancel, Closes
<1>2. "terminate" \in Calls /\ Cut(s) /\ Spawned(s) /\ Owned(s)
  BY DEF Calls, LifecycleInv, ThreadInv, SessionInv
<1>3. \A d \in Closers : call'[s][d] = IF d = c THEN "terminate" ELSE call[s][d]
  BY <1>1, <1>2, CallChange
<1>4. closed[s] /\ Cut(s)'
  BY <1>1, <1>2, <1>3 DEF Cut
<1>5. Spawned(s)' /\ Owned(s)'
  BY <1>1, <1>2, <1>3 DEF Spawned, Owned, Unlocked
<1>6. ThreadInv' /\ call' \in [Sessions -> [Closers -> Calls]]
  BY <1>1, <1>4, <1>5, CallInside
<1>7. TypeOK'
  <2>1. SchedulerType' /\ QueryType'
    BY <1>0 DEF SchedulerType, QueryType, CloseCancel
  <2>2. SessionType'
    BY <1>0, <1>6 DEF SessionType, CloseCancel
  <2>3. AcquisitionType'
    BY <1>0 DEF AcquisitionType, CloseCancel, CancelStored
  <2> QED BY <2>1, <2>2, <2>3 DEF TypeOK
<1> QED BY <1>1, <1>6, <1>7, CountsKept, HoldKept DEF LifecycleInv

LEMMA CloseTerminateKeeps ==
    ASSUME LifecycleInv, NEW s \in Sessions, NEW c \in Closers, CloseTerminate(s, c)
    PROVE  LifecycleInv'
<1>0. SchedulerType /\ SessionType /\ AcquisitionType /\ QueryType
  BY DEF LifecycleInv, TypeOK
<1>1. /\ call[s][c] = "terminate" /\ Call(s, c, "deactivate") /\ Unlocked(s)
      /\ \A q \in Queries : /\ ended'[q] => ended[q] \/ q \in queries[s]
                            /\ ended[q] \/ q \in queries[s] => ended'[q]
      /\ UNCHANGED <<pc, held, queries, queryCount, active, activeSessions,
                     activated, running, exiting, thread, handle, closed, sourceEnded,
                     gate, watcher>>
  BY <1>0 DEF QueryType, CloseTerminate, Closes
<1>2. "deactivate" \in Calls /\ Cut(s) /\ Spawned(s) /\ Owned(s)
  BY DEF Calls, LifecycleInv, ThreadInv, SessionInv
<1>3. \A d \in Closers : call'[s][d] = IF d = c THEN "deactivate" ELSE call[s][d]
  BY <1>1, <1>2, CallChange
<1>4. HoldInv'
  <2>1. \A q \in Queries : ended'[q] => ended[q] \/ pc[q] \in Started \cup {"refused"}
    BY <1>1 DEF LifecycleInv, HoldInv
  <2> QED BY <1>1, <2>1, EndsHold
<1>5. closed[s] /\ Cut(s)'
  <2>1. \A q \in Queries : Of[q] = s /\ pc[q] \in Started => ended'[q]
    BY <1>1, LiveIsCounted
  <2> QED BY <1>1, <1>2, <1>3, <2>1 DEF Cut
<1>6. Spawned(s)' /\ Owned(s)'
  BY <1>1, <1>2, <1>3 DEF Spawned, Owned, Unlocked
<1>7. ThreadInv' /\ call' \in [Sessions -> [Closers -> Calls]]
  BY <1>1, <1>5, <1>6, CallInside
<1>8. TypeOK'
  <2>1. SchedulerType' /\ AcquisitionType'
    BY <1>0 DEF SchedulerType, AcquisitionType, CloseTerminate
  <2>2. SessionType'
    BY <1>0, <1>7 DEF SessionType, CloseTerminate
  <2>3. QueryType'
    BY <1>0 DEF QueryType, CloseTerminate
  <2> QED BY <2>1, <2>2, <2>3 DEF TypeOK
<1> QED BY <1>1, <1>4, <1>7, <1>8, CountsKept DEF LifecycleInv

LEMMA CloseDeactivateKeeps ==
    ASSUME LifecycleInv, NEW s \in Sessions, NEW c \in Closers, CloseDeactivate(s, c)
    PROVE  LifecycleInv'
<1>0. SchedulerType /\ SessionType /\ AcquisitionType /\ QueryType
  BY DEF LifecycleInv, TypeOK
<1>1. /\ call[s][c] = "deactivate" /\ Call(s, c, "join") /\ Unlocked(s)
      /\ active[s] = 0 => \/ Deactivated(s)
                          \/ UNCHANGED <<activated, activeSessions, registry>>
      /\ active[s] # 0 => UNCHANGED <<activated, activeSessions, registry>>
      /\ UNCHANGED <<pc, ended, held, queries, queryCount, active, running, exiting,
                     thread, handle, closed, sourceEnded, gate, watcher>>
  BY DEF CloseDeactivate, Closes, DeactivateIfFinished
<1>2. /\ activated' \in [Sessions -> BOOLEAN] /\ activeSessions' \in Nat
      /\ registry' \subseteq Sessions
      /\ CountsExact' /\ ActiveInv'
  BY <1>1, QuitCounts
<1>3. "join" \in Calls /\ Cut(s) /\ Spawned(s) /\ Owned(s)
  BY DEF Calls, LifecycleInv, ThreadInv, SessionInv
<1>4. \A d \in Closers : call'[s][d] = IF d = c THEN "join" ELSE call[s][d]
  BY <1>1, <1>3, CallChange
<1>5. closed[s] /\ Cut(s)'
  BY <1>1, <1>3, <1>4 DEF Cut
<1>6. Spawned(s)' /\ Owned(s)'
  BY <1>1, <1>3, <1>4 DEF Spawned, Owned, Unlocked
<1>7. ThreadInv' /\ call' \in [Sessions -> [Closers -> Calls]]
  BY <1>1, <1>5, <1>6, CallInside
<1>8. TypeOK'
  <2>1. SchedulerType' /\ QueryType'
    BY <1>0, <1>2 DEF SchedulerType, QueryType, CloseDeactivate
  <2>2. SessionType'
    BY <1>0, <1>2, <1>7 DEF SessionType, CloseDeactivate
  <2>3. AcquisitionType'
    BY <1>0 DEF AcquisitionType, CloseDeactivate, DeactivateIfFinished, CancelStored
  <2> QED BY <2>1, <2>2, <2>3 DEF TypeOK
<1> QED BY <1>1, <1>2, <1>7, <1>8, HoldKept DEF LifecycleInv

LEMMA TakeHandleKeeps ==
    ASSUME LifecycleInv, NEW s \in Sessions, NEW c \in Closers, TakeHandle(s, c)
    PROVE  LifecycleInv'
<1>0. SchedulerType /\ SessionType /\ AcquisitionType /\ QueryType
  BY DEF LifecycleInv, TypeOK
<1> DEFINE label == IF ~handle[s] THEN "done"
                    ELSE IF thread[s] = "none" THEN "join" ELSE "joining"
<1>1. /\ call[s][c] = "join" /\ Call(s, c, label) /\ ~handle'[s]
      /\ \A t \in Sessions : t # s => handle'[t] = handle[t]
      /\ UNCHANGED <<pc, ended, held, queries, queryCount, active, activeSessions,
                     activated, running, exiting, thread, closed, sourceEnded, gate,
                     watcher>>
  BY <1>0 DEF AcquisitionType, TakeHandle
<1>2. /\ label \in Calls /\ label \in {"done", "join", "joining"}
      /\ handle[s] /\ thread[s] # "none" => label = "joining"
      /\ Cut(s) /\ Spawned(s) /\ Owned(s)
  BY DEF Calls, LifecycleInv, ThreadInv, SessionInv
<1> HIDE DEF label
<1>3. \A d \in Closers : call'[s][d] = IF d = c THEN label ELSE call[s][d]
  BY <1>1, <1>2, CallChange
<1>4. closed[s] /\ Cut(s)'
  BY <1>1, <1>2, <1>3 DEF Cut
<1>5. Spawned(s)'
  BY <1>1, <1>2, <1>3 DEF Spawned
<1>6. Owned(s)'
  BY <1>1, <1>2, <1>3 DEF Owned
<1>7. ThreadInv' /\ call' \in [Sessions -> [Closers -> Calls]]
  BY <1>1, <1>2, <1>4, <1>5, <1>6, CallInside
<1>8. TypeOK'
  <2>1. SchedulerType' /\ QueryType'
    BY <1>0 DEF SchedulerType, QueryType, TakeHandle
  <2>2. SessionType'
    BY <1>0, <1>7 DEF SessionType, TakeHandle
  <2>3. AcquisitionType'
    BY <1>0 DEF AcquisitionType, TakeHandle
  <2> QED BY <2>1, <2>2, <2>3 DEF TypeOK
<1> QED BY <1>1, <1>7, <1>8, CountsKept, HoldKept DEF LifecycleInv

LEMMA JoinThreadKeeps ==
    ASSUME LifecycleInv, NEW s \in Sessions, NEW c \in Closers, JoinThread(s, c)
    PROVE  LifecycleInv'
<1>0. SchedulerType /\ SessionType /\ AcquisitionType /\ QueryType
  BY DEF LifecycleInv, TypeOK
<1>1. /\ call[s][c] = "joining" /\ Call(s, c, "join") /\ thread[s] = "none"
      /\ UNCHANGED <<pc, ended, held, queries, queryCount, active, activeSessions,
                     activated, running, exiting, thread, handle, closed, sourceEnded,
                     gate, watcher>>
  BY DEF JoinThread, Closes
<1>2. "join" \in Calls /\ Cut(s) /\ Spawned(s) /\ Owned(s)
  BY DEF Calls, LifecycleInv, ThreadInv, SessionInv
<1>3. \A d \in Closers : call'[s][d] = IF d = c THEN "join" ELSE call[s][d]
  BY <1>1, <1>2, CallChange
<1>4. closed[s] /\ Cut(s)'
  BY <1>1, <1>2, <1>3 DEF Cut
<1>5. Spawned(s)' /\ Owned(s)'
  BY <1>1, <1>2, <1>3 DEF Spawned, Owned
<1>6. ThreadInv' /\ call' \in [Sessions -> [Closers -> Calls]]
  BY <1>1, <1>4, <1>5, CallInside
<1>7. TypeOK'
  <2>1. SchedulerType' /\ AcquisitionType' /\ QueryType'
    BY <1>0 DEF SchedulerType, AcquisitionType, QueryType, JoinThread
  <2>2. SessionType'
    BY <1>0, <1>6 DEF SessionType, JoinThread
  <2> QED BY <2>1, <2>2 DEF TypeOK
<1> QED BY <1>1, <1>6, <1>7, CountsKept, HoldKept DEF LifecycleInv

-----------------------------------------------------------------------------
(* Every step keeps the invariant.                                         *)
LEMMA LifecycleNext == LifecycleInv /\ [Next]_vars => LifecycleInv'
<1> SUFFICES ASSUME LifecycleInv, [Next]_vars PROVE LifecycleInv'
  OBVIOUS
<1>1. CASE UNCHANGED vars
  <2>1. TypeOK'
    BY <1>1 DEF vars, LifecycleInv, TypeOK, SchedulerType, SessionType,
                AcquisitionType, QueryType
  <2>2. UNCHANGED <<pc, ended, held, queries, queryCount, active, activeSessions,
                    activated, threadVars>>
    BY <1>1 DEF vars
  <2> QED BY <2>1, <2>2, CountsKept, HoldKept, ThreadKept DEF LifecycleInv
<1>2. ASSUME NEW q \in Queries, Admit(q) \/ EndQuery(q) \/ Start(q) \/ Release(q)
      PROVE  LifecycleInv'
  <2>1. CASE Admit(q) \/ EndQuery(q)
    BY <2>1, AdmitKeeps, EndQueryKeeps
  <2>2. CASE Start(q)
    BY <2>2, InitWatcherKeeps, ReadmitKeeps, ReserveEngineKeeps, ReserveSlotKeeps,
       UnreserveKeeps, RegisterKeeps, EnsureAcquisitionKeeps, SpawnKeeps DEF Start
  <2>3. CASE Release(q)
    BY <2>3, ReleaseEngineKeeps, ReleaseSlotKeeps DEF Release
  <2> QED BY <1>2, <2>1, <2>2, <2>3
<1>3. ASSUME NEW s \in Sessions, Acquire(s) \/ PublishNewer(s) \/ SchedulerCloses(s)
      PROVE  LifecycleInv'
  <2>1. CASE Acquire(s)
    BY <2>1, LoopTopKeeps, RenewTokenKeeps, StoreTokenKeeps, AskKeeps,
       PublishLatestKeeps, WaitCancelledKeeps, SourceEndsKeeps, EndRegisteredKeeps,
       AfterSourceKeeps, LeaveKeeps DEF Acquire
  <2> QED BY <1>3, <2>1, PublishNewerKeeps, SchedulerClosesKeeps
<1>4. ASSUME NEW s \in Sessions, NEW kind \in {"lost", "closed"}, CaptureEnds(s, kind)
      PROVE  LifecycleInv'
  BY <1>4, CaptureEndsKeeps
<1>5. ASSUME NEW s \in Sessions, NEW k \in Callers, FacadeGate(s, k) \/ FacadeRead(s, k)
      PROVE  LifecycleInv'
  BY <1>5, FacadeGateKeeps, FacadeReadKeeps
<1>6. ASSUME NEW s \in Sessions, NEW c \in Closers, CloseStep(s, c)
      PROVE  LifecycleInv'
  BY <1>6, CloseCalledKeeps, CloseCancelKeeps, CloseTerminateKeeps,
     CloseDeactivateKeeps, TakeHandleKeeps, JoinThreadKeeps DEF CloseStep
<1>7. CASE SealScheduler \/ TakeSessions
  BY <1>7, SealSchedulerKeeps, TakeSessionsKeeps
<1> QED BY <1>1, <1>2, <1>3, <1>4, <1>5, <1>6, <1>7 DEF Next

(* The invariant holds of every behaviour: what every counter, thread and  *)
(* close of watch.rs can be relied on to be.                               *)
THEOREM LifecycleInvariant == Spec => []LifecycleInv
BY LifecycleInit, LifecycleNext, PTL DEF Spec

(* queryCount, active and activeSessions are what queries hold and what is *)
(* activated, within their limits, however the ends of queries and closes  *)
(* interleave with start_query.                                            *)
THEOREM CountsAreExact == Spec => []CountsExact
BY LifecycleInvariant, PTL DEF LifecycleInv

(* A started query has an acquisition thread that has not decided to       *)
(* leave; and when a close of the session has returned and no other one is *)
(* under way, no query of it lives and the acquisition thread is gone,     *)
(* whichever caller took its handle.                                       *)
THEOREM ThreadServes == Spec => []ThreadServesSession
<1>1. ASSUME LifecycleInv PROVE LiveIsAcquired
  <2> SUFFICES ASSUME NEW q \in Queries, pc[q] = "live", ~ended[q],
                      ~closed[Of[q]], ~sourceEnded[Of[q]]
               PROVE  running[Of[q]] /\ ~exiting[Of[q]] /\ thread[Of[q]] # "none"
    BY DEF LiveIsAcquired
  <2>1. Serving(Of[q]) /\ Acquired(Of[q])
    BY <1>1 DEF LifecycleInv, ThreadInv, SessionInv
  <2> QED BY <2>1 DEF Serving, Acquired
<1>2. ASSUME LifecycleInv PROVE CloseIsComplete
  <2> SUFFICES ASSUME NEW s \in Sessions, NEW c \in Closers, call[s][c] = "done",
                      \A d \in Closers : ~Calling(s, d)
               PROVE  /\ thread[s] = "none"
                      /\ \A q \in Queries : Of[q] = s /\ pc[q] \in Started => ended[q]
    BY DEF CloseIsComplete
  <2>1. Serving(s) /\ Cut(s) /\ Missed(s) /\ Owned(s)
    BY <1>2 DEF LifecycleInv, ThreadInv, SessionInv
  <2>2. \A d \in Closers : call[s][d] \notin Inside
    BY DEF Calling
  <2>3. CASE closed[s]
    BY <2>1, <2>2, <2>3 DEF Cut, Owned
  <2>4. CASE ~closed[s]
    BY <2>1, <2>2, <2>4 DEF Missed, Owned
  <2> QED BY <2>3, <2>4
<1>3. LifecycleInv => ThreadServesSession
  BY <1>1, <1>2 DEF LifecycleInv, ThreadServesSession
<1> QED BY <1>3, LifecycleInvariant, PTL

-----------------------------------------------------------------------------
(* The turns of the OCR lease in the same run.  What                       *)
(* OcrDispatch_proofs proves holds of this instance ...                    *)
TurnsProofs == INSTANCE OcrDispatch_proofs WITH
        Sessions <- {1}, Templates <- {}, Home <- [q \in Texts |-> 1],
        View <- [f \in 1..MaxFrame |-> 1], Required <- [q \in Texts |-> 1],
        Skipping <- {}, Results <- {"empty"}, Disturbances <- {},
        sourceEnded <- sessionEnded, activated <- sessionActivated

(* What the run leaves open of the assumptions of OcrDispatch.             *)
TurnsConstants ==
    /\ Texts \subseteq Nat \ {0} /\ MaxFrame \in Nat
    /\ None \notin Workers \cup Texts \cup Turns!Outcomes

LEMMA TurnsConstantsSuffice ==
    ASSUME TurnsConstants PROVE TurnsProofs!DispatchAssumption
BY DEF TurnsConstants, TurnsProofs!DispatchAssumption, Turns!Outcomes, TurnsProofs!Outcomes

(* ... for it is the same as the instance that the run makes, definition   *)
(* by definition ...                                                       *)
LEMMA SameTurnsInit == Turns!Init => TurnsProofs!Init
BY DEF Turns!AllQueries, Turns!Dispositions, Turns!Init, Turns!NewDispatch,
       Turns!NewText, Turns!NoExecution, Turns!NoJob, TurnsProofs!AllQueries,
       TurnsProofs!Dispositions, TurnsProofs!Init, TurnsProofs!NewDispatch,
       TurnsProofs!NewText, TurnsProofs!NoExecution, TurnsProofs!NoJob

LEMMA SameTurnsNext == Turns!Next => TurnsProofs!Next
BY Zenon
       DEF Turns!Admissible, Turns!AdmitAnalysis, Turns!AdmitObsolete,
           Turns!AdmitSkip, Turns!AdmitText, Turns!AfterTerminal, Turns!AllQueries,
           Turns!Authority, Turns!Before, Turns!Cancel, Turns!Candidate,
           Turns!CaptureEnds, Turns!Claimable, Turns!Claimed, Turns!Cleared,
           Turns!CloseScheduler, Turns!CloseSession, Turns!CloseTemplate,
           Turns!CloseText, Turns!Compare, Turns!CompleteAsk, Turns!CompleteCommit,
           Turns!Concluded, Turns!Counted, Turns!Current, Turns!Deactivated,
           Turns!Decide, Turns!DecideDrain, Turns!DecideLeased, Turns!DecideNoText,
           Turns!DecideNone, Turns!DecideStale, Turns!DecideTemplates,
           Turns!DecideText, Turns!Decided, Turns!EndTemplate, Turns!Ended,
           Turns!EnqueueTemplate, Turns!EnqueueText, Turns!Enqueued, Turns!Execute,
           Turns!Executing, Turns!Expire, Turns!GoTo, Turns!Idle, Turns!Interrupt,
           Turns!LeaveQuery, Turns!LeaveScheduler, Turns!LeaveSession, Turns!Live,
           Turns!MapReturns, Turns!Next, Turns!NextDispatch, Turns!NoExecution,
           Turns!NoJob, Turns!Precedes, Turns!PrecedesBy, Turns!Prepare,
           Turns!Prevailing, Turns!ProcessText, Turns!Publish, Turns!PublishBegin,
           Turns!PublishEnd, Turns!Publishing, Turns!QueriesOf, Turns!RateElapses,
           Turns!Ready, Turns!Registered, Turns!Scan, Turns!Scanned, Turns!Settle,
           Turns!SourceEnds, Turns!Sourced, Turns!Stale, Turns!Sweep, Turns!Swept,
           Turns!TakeNothing, Turns!TakeTemplate, Turns!TemplateDone,
           Turns!TemplatesAdmitted, Turns!Terminated, Turns!TextTurn,
           Turns!ToTemplates, Turns!Unresolved, Turns!Work, Turns!Yielding,
           Turns!authorityVars, Turns!dispatchVars, Turns!sourceVars,
           TurnsProofs!Admissible, TurnsProofs!AdmitAnalysis,
           TurnsProofs!AdmitObsolete, TurnsProofs!AdmitSkip, TurnsProofs!AdmitText,
           TurnsProofs!AfterTerminal, TurnsProofs!AllQueries, TurnsProofs!Authority,
           TurnsProofs!Before, TurnsProofs!Cancel, TurnsProofs!Candidate,
           TurnsProofs!CaptureEnds, TurnsProofs!Claimable, TurnsProofs!Claimed,
           TurnsProofs!Cleared, TurnsProofs!CloseScheduler, TurnsProofs!CloseSession,
           TurnsProofs!CloseTemplate, TurnsProofs!CloseText, TurnsProofs!Compare,
           TurnsProofs!CompleteAsk, TurnsProofs!CompleteCommit, TurnsProofs!Concluded,
           TurnsProofs!Counted, TurnsProofs!Current, TurnsProofs!Deactivated,
           TurnsProofs!Decide, TurnsProofs!DecideDrain, TurnsProofs!DecideLeased,
           TurnsProofs!DecideNoText, TurnsProofs!DecideNone, TurnsProofs!DecideStale,
           TurnsProofs!DecideTemplates, TurnsProofs!DecideText, TurnsProofs!Decided,
           TurnsProofs!EndTemplate, TurnsProofs!Ended, TurnsProofs!EnqueueTemplate,
           TurnsProofs!EnqueueText, TurnsProofs!Enqueued, TurnsProofs!Execute,
           TurnsProofs!Executing, TurnsProofs!Expire, TurnsProofs!GoTo,
           TurnsProofs!Idle, TurnsProofs!Interrupt, TurnsProofs!LeaveQuery,
           TurnsProofs!LeaveScheduler, TurnsProofs!LeaveSession, TurnsProofs!Live,
           TurnsProofs!MapReturns, TurnsProofs!Next, TurnsProofs!NextDispatch,
           TurnsProofs!NoExecution, TurnsProofs!NoJob, TurnsProofs!Precedes,
           TurnsProofs!PrecedesBy, TurnsProofs!Prepare, TurnsProofs!Prevailing,
           TurnsProofs!ProcessText, TurnsProofs!Publish, TurnsProofs!PublishBegin,
           TurnsProofs!PublishEnd, TurnsProofs!Publishing, TurnsProofs!QueriesOf,
           TurnsProofs!RateElapses, TurnsProofs!Ready, TurnsProofs!Registered,
           TurnsProofs!Scan, TurnsProofs!Scanned, TurnsProofs!Settle,
           TurnsProofs!SourceEnds, TurnsProofs!Sourced, TurnsProofs!Stale,
           TurnsProofs!Sweep, TurnsProofs!Swept, TurnsProofs!TakeNothing,
           TurnsProofs!TakeTemplate, TurnsProofs!TemplateDone,
           TurnsProofs!TemplatesAdmitted, TurnsProofs!Terminated,
           TurnsProofs!TextTurn, TurnsProofs!ToTemplates, TurnsProofs!Unresolved,
           TurnsProofs!Work, TurnsProofs!Yielding, TurnsProofs!authorityVars,
           TurnsProofs!dispatchVars, TurnsProofs!sourceVars, Turns!Cardinality,
           TurnsProofs!Cardinality

LEMMA SameTurnsRotate == TurnsProofs!TurnsRotate => TurnsRotate
BY PTL
       DEF Turns!Before, Turns!Claimable, Turns!Executing, Turns!NoExecution,
           Turns!PrecedesBy, Turns!Ready, Turns!TurnsRotate, Turns!authorityVars,
           Turns!dispatchVars, Turns!sourceVars, Turns!vars, TurnsProofs!Before,
           TurnsProofs!Claimable, TurnsProofs!Executing, TurnsProofs!NoExecution,
           TurnsProofs!PrecedesBy, TurnsProofs!Ready, TurnsProofs!TurnsRotate,
           TurnsProofs!authorityVars, TurnsProofs!dispatchVars,
           TurnsProofs!sourceVars, TurnsProofs!vars, TurnsRotate

(* ... and a step of the run is one of the lease or leaves it alone.       *)
LEMMA ShareIsTurns == ShareSpec => TurnsProofs!Spec
<1>1. [ShareNext]_<<share, vars, turnVars>> => [TurnsProofs!Next]_TurnsProofs!vars
  BY SameTurnsNext
     DEF ShareNext, turnVars, TurnsProofs!vars, TurnsProofs!authorityVars,
         TurnsProofs!dispatchVars, TurnsProofs!sourceVars
<1> QED BY <1>1, SameTurnsInit, PTL DEF ShareSpec, ShareInit, TurnsProofs!Spec

(* In every execution of the run a query that takes the lease precedes     *)
(* every other it could have gone to (ocr_watch.rs, next_dispatch).        *)
THEOREM ShareTurnsRotate == ASSUME TurnsConstants PROVE ShareSpec => TurnsRotate
<1>1. TurnsProofs!Spec => TurnsProofs!TurnsRotate
  BY TurnsConstantsSuffice, TurnsProofs!DispatchTurnsRotate
<1> QED BY <1>1, ShareIsTurns, SameTurnsRotate, PTL

=============================================================================
