------------------------ MODULE InputController_proofs ------------------------
(***************************************************************************)
(* Proofs about the gate of an input controller and about the runs behind  *)
(* it, for every number of callers and closers, every sequence and every   *)
(* cleanup budget.                                                         *)
(***************************************************************************)
EXTENDS InputController, FiniteSetTheorems, FunctionTheorems, SequenceTheorems,
        WellFoundedInduction, TLAPS

Waiting == {c \in Callers : stage[c] \in {"waiting"}}
Registered == {c \in Callers : stage[c] \in Entering}

(* A closer that has begun finds the gate no longer open, so that nothing  *)
(* is admitted behind its back.                                            *)
ClosingInv ==
    \A d \in Closers :
        stage[d] \in Closing \ {"entered"} => lifecycle # "Open"

GateInv == GateType /\ GateExact /\ ClosedIsQuiet /\ ClosingInv

-----------------------------------------------------------------------------
(* How the count of a finite set changes with one element.                 *)
LEMMA CountChange ==
    ASSUME NEW before, IsFiniteSet(before), NEW after, NEW c,
           after \ {c} = before \ {c}
    PROVE  /\ Cardinality(before) \in Nat /\ Cardinality(after) \in Nat
           /\ (c \in before <=> c \in after) => after = before
           /\ c \notin before /\ c \in after =>
                 Cardinality(after) = Cardinality(before) + 1
           /\ c \in before /\ c \notin after =>
                 Cardinality(after) = Cardinality(before) - 1
<1>1. after \subseteq before \cup {c} /\ IsFiniteSet(before \cup {c})
  BY FS_AddElement
<1>2. Cardinality(before) \in Nat /\ Cardinality(after) \in Nat
  BY <1>1, FS_Subset, FS_CardinalityType
<1>3. (c \in before <=> c \in after) => after = before
  OBVIOUS
<1>4. ASSUME c \notin before, c \in after
      PROVE  Cardinality(after) = Cardinality(before) + 1
  <2>1. after = before \cup {c}
    BY <1>4
  <2> QED BY <1>4, <2>1, FS_AddElement
<1>5. ASSUME c \in before, c \notin after
      PROVE  Cardinality(after) = Cardinality(before) - 1
  <2>1. after = before \ {c}
    BY <1>5
  <2> QED BY <1>5, <2>1, FS_RemoveElement
<1> QED BY <1>2, <1>3, <1>4, <1>5

(* The counters are the cardinalities of the two sets.                     *)
LEMMA Counters ==
    ASSUME GateExact
    PROVE  waiters = Cardinality(Waiting) /\ pending = Cardinality(Registered)
<1>1. Waiting = {c \in Callers : stage[c] = "waiting"}
  BY DEF Waiting
<1> QED BY <1>1 DEF GateExact, Registered

LEMMA CountersAgain ==
    ASSUME waiters' = Cardinality(Waiting'), pending' = Cardinality(Registered')
    PROVE  /\ waiters' = Cardinality({c \in Callers : stage'[c] = "waiting"})
           /\ pending' = Cardinality({c \in Callers : stage'[c] \in Entering})
<1>1. Waiting' = {c \in Callers : stage'[c] = "waiting"}
  BY DEF Waiting
<1> QED BY <1>1 DEF Registered

(* A caller that runs its sequence, whatever it does, does not touch the   *)
(* gate.                                                                   *)
LEMMA RunningKeepsGate ==
    ASSUME GateInv, NEW c \in Callers, stage[c] \in Running,
           UNCHANGED <<platform, gateVars, interrupted>>,
           stage' = stage \/ \E next \in Running : GoTo(c, next)
    PROVE  GateInv'
<1> USE DEF GateInv
<1>1. /\ stage' \in [Threads -> Entering \cup Running \cup Closing \cup {"out", "done"}]
      /\ \A t \in Threads \ {c} : stage'[t] = stage[t]
      /\ stage'[c] \in Running
  BY InputAssumption DEF GateType, GoTo, Threads
<1>2. GateType'
  BY <1>1 DEF GateType, gateVars, Running, Closing, Entering, Threads
<1>3. Waiting' = Waiting /\ Registered' = Registered
  BY <1>1 DEF Waiting, Registered, Running, Entering, Threads
<1>4. /\ waiters' = Cardinality({k \in Callers : stage'[k] = "waiting"})
      /\ pending' = Cardinality({k \in Callers : stage'[k] \in Entering})
  BY <1>3, Counters, CountersAgain DEF gateVars
<1>5. \A k \in Callers : stage'[k] \in Running <=> owner' = k
  BY <1>1 DEF GateExact, gateVars, Threads
<1>6. entering' = {t \in Threads : stage'[t] \in Entering \cup Closing}
  BY <1>1 DEF GateExact, gateVars, Running, Entering, Closing
<1>7. GateExact'
  BY <1>4, <1>5, <1>6 DEF GateExact, gateVars
<1>8. ClosedIsQuiet'
  BY <1>1, InputAssumption DEF ClosedIsQuiet, gateVars, Threads
<1>9. ClosingInv'
  BY <1>1, InputAssumption DEF ClosingInv, gateVars, Threads
<1> QED BY <1>2, <1>7, <1>8, <1>9

(* A caller that moves: the counters follow if each changes by what the    *)
(* move adds to its set or takes from it.                                  *)
LEMMA CallerMoves ==
    ASSUME GateType, GateExact, NEW c \in Callers,
           NEW next \in Entering \cup Running \cup {"out", "done"}, GoTo(c, next)
    PROVE  /\ stage' \in [Threads -> Entering \cup Running \cup Closing \cup {"out", "done"}]
           /\ \A t \in Threads \ {c} : stage'[t] = stage[t]
           /\ stage'[c] = next
           /\ (stage[c] \in {"waiting"} <=> next \in {"waiting"})
                 => waiters = Cardinality(Waiting')
           /\ stage[c] \notin {"waiting"} /\ next \in {"waiting"}
                 => waiters + 1 = Cardinality(Waiting')
           /\ stage[c] \in {"waiting"} /\ next \notin {"waiting"}
                 => waiters - 1 = Cardinality(Waiting') /\ waiters - 1 \in Nat
           /\ (stage[c] \in Entering <=> next \in Entering)
                 => pending = Cardinality(Registered')
           /\ stage[c] \notin Entering /\ next \in Entering
                 => pending + 1 = Cardinality(Registered')
           /\ stage[c] \in Entering /\ next \notin Entering
                 => pending - 1 = Cardinality(Registered') /\ pending - 1 \in Nat
<1>1. /\ stage' \in [Threads -> Entering \cup Running \cup Closing \cup {"out", "done"}]
      /\ \A t \in Threads \ {c} : stage'[t] = stage[t]
      /\ stage'[c] = next
  BY DEF GateType, GoTo, Threads
<1>2. /\ Waiting' \ {c} = Waiting \ {c}
      /\ c \in Waiting <=> stage[c] \in {"waiting"}
      /\ c \in Waiting' <=> next \in {"waiting"}
      /\ Registered' \ {c} = Registered \ {c}
      /\ c \in Registered <=> stage[c] \in Entering
      /\ c \in Registered' <=> next \in Entering
  BY <1>1 DEF Threads, Waiting, Registered
<1>3. IsFiniteSet(Waiting) /\ IsFiniteSet(Registered)
  BY InputAssumption, FS_Subset DEF Waiting, Registered
<1>4. waiters = Cardinality(Waiting) /\ pending = Cardinality(Registered)
  BY Counters
<1>5. /\ Cardinality(Waiting) \in Nat /\ Cardinality(Waiting') \in Nat
      /\ (c \in Waiting <=> c \in Waiting') => Waiting' = Waiting
      /\ c \notin Waiting /\ c \in Waiting'
            => Cardinality(Waiting') = Cardinality(Waiting) + 1
      /\ c \in Waiting /\ c \notin Waiting'
            => Cardinality(Waiting') = Cardinality(Waiting) - 1
  BY <1>2, <1>3, CountChange
<1>6. /\ Cardinality(Registered) \in Nat /\ Cardinality(Registered') \in Nat
      /\ (c \in Registered <=> c \in Registered') => Registered' = Registered
      /\ c \notin Registered /\ c \in Registered'
            => Cardinality(Registered') = Cardinality(Registered) + 1
      /\ c \in Registered /\ c \notin Registered'
            => Cardinality(Registered') = Cardinality(Registered) - 1
  BY <1>2, <1>3, CountChange
<1> QED BY <1>1, <1>2, <1>4, <1>5, <1>6

(* The parts of the invariant that remain once the counters are known.     *)
LEMMA CallerStep ==
    ASSUME GateInv, NEW c \in Callers,
           NEW next \in Entering \cup Running \cup {"out", "done"}, GoTo(c, next),
           UNCHANGED <<platform, lifecycle, interrupted>>,
           waiters' = Cardinality(Waiting'), waiters' \in Nat,
           pending' = Cardinality(Registered'), pending' \in Nat,
           entering' = IF next \in Entering THEN entering \cup {c} ELSE entering \ {c},
           \/ /\ stage[c] \notin Running /\ next \notin Running
              /\ UNCHANGED <<busy, owner>>
           \/ /\ ~busy /\ next \in Running /\ busy' = TRUE /\ owner' = c
           \/ /\ stage[c] \in Running /\ next \notin Running
              /\ busy' = FALSE /\ owner' = None,
           next \in {"out", "done"} \/ lifecycle = "Open" \/ stage[c] \in Entering,
           next \in Running => lifecycle = "Open"
    PROVE  GateInv'
<1> USE DEF GateInv
<1>1. /\ stage' \in [Threads -> Entering \cup Running \cup Closing \cup {"out", "done"}]
      /\ \A t \in Threads \ {c} : stage'[t] = stage[t]
      /\ stage'[c] = next
  BY CallerMoves
<1>2. c \in Threads /\ c # None /\ c \notin Closers
  BY InputAssumption DEF Threads
<1>3. GateType'
  <2>1. entering' \subseteq Threads
    BY <1>2 DEF GateType
  <2>2. busy' \in BOOLEAN /\ owner' \in Callers \cup {None}
    BY DEF GateType
  <2>3. /\ \A k \in Callers : stage'[k] \notin Closing
        /\ \A d \in Closers : stage'[d] \notin Entering \cup Running
    BY <1>1, <1>2 DEF GateType, Threads, Closing, Entering, Running
  <2> QED BY <1>1, <2>1, <2>2, <2>3 DEF GateType
<1>4. /\ waiters' = Cardinality({k \in Callers : stage'[k] = "waiting"})
      /\ pending' = Cardinality({k \in Callers : stage'[k] \in Entering})
  BY CountersAgain
<1>5. \A k \in Callers : stage'[k] \in Running <=> owner' = k
  <2> TAKE k \in Callers
  <2>1. k \in Threads /\ k # None
    BY InputAssumption DEF Threads
  <2>2. CASE k = c
    BY <1>1, <1>2, <2>2 DEF GateExact
  <2>3. CASE k # c
    BY <1>1, <1>2, <2>1, <2>3 DEF GateExact
  <2> QED BY <2>2, <2>3
<1>6. busy' <=> owner' # None
  BY <1>2 DEF GateExact
<1>7. entering' = {t \in Threads : stage'[t] \in Entering \cup Closing}
  <2>1. next \notin Closing
    BY DEF Entering, Running, Closing
  <2> QED BY <1>1, <1>2, <2>1 DEF GateExact
<1>8. GateExact'
  BY <1>4, <1>5, <1>6, <1>7 DEF GateExact
<1>9. \A d \in Closers : stage'[d] = stage[d]
  BY <1>1, <1>2 DEF Threads
<1>10. ClosingInv'
  BY <1>9 DEF ClosingInv
<1>11. ClosedIsQuiet'
  <2> SUFFICES ASSUME lifecycle' = "Closed"
                        \/ (\E d \in Closers : stage'[d] \in {"committing", "closing"})
               PROVE  \A k \in Callers : stage'[k] \notin Entering \cup Running
    BY DEF ClosedIsQuiet
  <2>1. lifecycle # "Open"
    BY <1>9 DEF ClosingInv, Closing
  <2>2. \A k \in Callers : stage[k] \notin Entering \cup Running
    BY <1>9 DEF ClosedIsQuiet
  <2>3. next \in {"out", "done"}
    BY <2>1, <2>2
  <2> QED BY <1>1, <2>2, <2>3 DEF Threads, Entering, Running
<1> QED BY <1>3, <1>8, <1>10, <1>11

(* What a closer needs to keep when it moves.                              *)
LEMMA CloserStep ==
    ASSUME GateInv, NEW d \in Closers, NEW next \in Closing \cup {"done"},
           GoTo(d, next), UNCHANGED <<platform, busy, owner, waiters>>,
           interrupted' \subseteq Threads,
           pending' = pending,
           entering' = IF next \in Closing THEN entering \cup {d} ELSE entering \ {d},
           lifecycle' \in {"Open", "Closing", "Closed"},
           lifecycle' = "Open" => lifecycle = "Open",
           next \in Closing \ {"entered"} => lifecycle' # "Open",
           lifecycle' = "Closed" \/ next \in {"committing", "closing"}
             => \A k \in Callers : stage[k] \notin Entering \cup Running
    PROVE  GateInv'
<1> USE DEF GateInv
<1>1. /\ stage' \in [Threads -> Entering \cup Running \cup Closing \cup {"out", "done"}]
      /\ \A t \in Threads \ {d} : stage'[t] = stage[t]
      /\ stage'[d] = next
  BY DEF GateType, GoTo, Threads
<1>2. d \in Threads /\ d \notin Callers
  BY InputAssumption DEF Threads
<1>3. \A k \in Callers : stage'[k] = stage[k]
  BY <1>1, <1>2 DEF Threads
<1>4. GateType'
  <2>1. entering' \subseteq Threads
    BY <1>2 DEF GateType
  <2>2. \A e \in Closers : stage'[e] \notin Entering \cup Running
    BY <1>1 DEF GateType, Threads, Closing, Entering, Running
  <2> QED BY <1>1, <1>3, <2>1, <2>2 DEF GateType
<1>5. Waiting' = Waiting /\ Registered' = Registered
  BY <1>3 DEF Waiting, Registered
<1>6. /\ waiters' = Cardinality({k \in Callers : stage'[k] = "waiting"})
      /\ pending' = Cardinality({k \in Callers : stage'[k] \in Entering})
  BY <1>5, Counters, CountersAgain
<1>7. entering' = {t \in Threads : stage'[t] \in Entering \cup Closing}
  <2>1. next \notin Entering
    BY DEF Entering, Closing
  <2> QED BY <1>1, <1>2, <2>1 DEF GateExact
<1>8. GateExact'
  BY <1>3, <1>6, <1>7 DEF GateExact
<1>9. ClosingInv'
  BY <1>1 DEF ClosingInv, Threads
<1>10. ClosedIsQuiet'
  <2> SUFFICES ASSUME lifecycle' = "Closed"
                        \/ (\E e \in Closers : stage'[e] \in {"committing", "closing"})
               PROVE  \A k \in Callers : stage[k] \notin Entering \cup Running
    BY <1>3 DEF ClosedIsQuiet
  <2>1. CASE lifecycle' = "Closed" \/ next \in {"committing", "closing"}
    BY <2>1
  <2>2. CASE ~(lifecycle' = "Closed" \/ next \in {"committing", "closing"})
    <3>1. \E e \in Closers : stage[e] \in {"committing", "closing"}
      BY <1>1, <2>2 DEF Threads
    <3> QED BY <3>1 DEF ClosedIsQuiet
  <2> QED BY <2>1, <2>2
<1> QED BY <1>4, <1>8, <1>9, <1>10

(* What drain reads under the lock rules out every caller.                 *)
LEMMA QuietIsQuiet ==
    ASSUME GateInv, Quiet
    PROVE  \A k \in Callers : stage[k] \notin Entering \cup Running
<1> USE DEF GateInv
<1>1. IsFiniteSet(Registered) /\ Cardinality(Registered) = 0
  BY InputAssumption, FS_Subset, Counters DEF Registered, Quiet
<1>2. Registered = {}
  BY <1>1, FS_EmptySet
<1>3. owner = None /\ None \notin Callers
  BY InputAssumption DEF GateExact, Quiet, Threads
<1> QED BY <1>2, <1>3 DEF Registered, GateExact

-----------------------------------------------------------------------------
(* The invariant holds at the start.                                       *)
LEMMA GateInit == Init => GateInv
<1> SUFFICES ASSUME Init PROVE GateInv
  OBVIOUS
<1>1. GateType
  BY InputAssumption DEF Init, GateType, Threads, Entering, Running, Closing
<1>2. Waiting = {} /\ Registered = {} /\ Cardinality({}) = 0
  BY FS_EmptySet DEF Init, Waiting, Registered, Threads, Entering
<1>3. /\ waiters = Cardinality({c \in Callers : stage[c] = "waiting"})
      /\ pending = Cardinality({c \in Callers : stage[c] \in Entering})
  <2>1. Waiting = {c \in Callers : stage[c] = "waiting"}
    BY DEF Waiting
  <2> QED BY <1>2, <2>1 DEF Init, Registered
<1>4. entering = {t \in Threads : stage[t] \in Entering \cup Closing}
  BY DEF Init, Entering, Closing
<1>5. \A c \in Callers : stage[c] \in Running <=> owner = c
  BY InputAssumption DEF Init, Running, Threads
<1>6. GateExact
  BY <1>3, <1>4, <1>5 DEF GateExact, Init
<1>7. ClosedIsQuiet /\ ClosingInv
  BY DEF Init, ClosedIsQuiet, ClosingInv, Threads, Closing
<1> QED BY <1>1, <1>6, <1>7 DEF GateInv

(* Every step of a caller keeps it.                                        *)
LEMMA CallKeeps ==
    ASSUME GateInv, NEW c \in Callers, Call(c)
    PROVE  GateInv'
<1> USE DEF GateInv
<1>1. /\ c \in Threads /\ c \notin Closers /\ stage[c] \notin Closing
      /\ waiters \in Nat /\ pending \in Nat
      /\ stage[c] \in Entering \cup Running => lifecycle # "Closed"
      /\ stage[c] \in Running <=> owner = c
      /\ stage[c] \in Entering \cup Closing <=> c \in entering
      /\ busy <=> owner # None
  BY InputAssumption DEF Threads, GateType, GateExact, ClosedIsQuiet
<1>2. ASSUME stage[c] \in Entering \ {"waiting"}, Unregister(c), GoTo(c, "done"),
             UNCHANGED <<platform, lifecycle, busy, owner, waiters, interrupted>>
      PROVE  GateInv'
  <2>1. "done" \notin Entering \cup Running \cup {"waiting"} /\ stage[c] \notin Running
    BY <1>2 DEF Entering, Running
  <2>2. waiters = Cardinality(Waiting')
    BY <1>2, <2>1, CallerMoves
  <2>3. pending' = Cardinality(Registered') /\ pending' \in Nat
    BY <1>2, <2>1, CallerMoves DEF Unregister
  <2> QED BY <1>1, <1>2, <2>1, <2>2, <2>3, CallerStep DEF Unregister
<1>3. CASE Register(c)
  <2>1. CASE lifecycle # "Open"
    <3>1. /\ stage[c] = "out" /\ GoTo(c, "done")
          /\ UNCHANGED <<platform, gateVars, interrupted>>
      BY <1>3, <2>1 DEF Register, gateVars
    <3>2. "out" \notin Entering \cup Running /\ "done" \notin Entering \cup Running
      BY DEF Entering, Running
    <3>3. waiters = Cardinality(Waiting') /\ pending = Cardinality(Registered')
      BY <3>1, <3>2, CallerMoves
    <3>4. entering' = entering \ {c}
      BY <1>1, <3>1, <3>2 DEF gateVars
    <3> QED BY <1>1, <3>1, <3>2, <3>3, <3>4, CallerStep DEF gateVars
  <2>2. CASE lifecycle = "Open"
    <3>1. /\ stage[c] = "out" /\ GoTo(c, "admitting")
          /\ entering' = entering \cup {c} /\ pending' = pending + 1
          /\ UNCHANGED <<platform, lifecycle, busy, owner, waiters, interrupted>>
      BY <1>3, <2>2 DEF Register
    <3>2. /\ "out" \notin Entering \cup Running
          /\ "admitting" \in Entering /\ "admitting" \notin Running
      BY DEF Entering, Running
    <3>3. waiters = Cardinality(Waiting') /\ pending' = Cardinality(Registered')
      BY <3>1, <3>2, CallerMoves
    <3>4. pending' \in Nat
      BY <1>1, <3>1
    <3> QED BY <1>1, <2>2, <3>1, <3>2, <3>3, <3>4, CallerStep
  <2> QED BY <2>1, <2>2
<1>4. CASE Consult(c)
  <2>1. CASE c \in interrupted
    BY <1>2, <1>4, <2>1 DEF Consult, Refused, Entering
  <2>2. CASE c \notin interrupted
    <3>1. /\ stage[c] \in {"admitting", "checkpoint"} /\ GoTo(c, "gate")
          /\ UNCHANGED <<platform, gateVars, interrupted>>
      BY <1>4, <2>2 DEF Consult
    <3>2. /\ stage[c] \in Entering /\ stage[c] \notin Running
          /\ "gate" \in Entering /\ "gate" \notin Running
      BY <3>1 DEF Entering, Running
    <3>3. waiters = Cardinality(Waiting') /\ pending = Cardinality(Registered')
      BY <3>1, <3>2, CallerMoves
    <3>4. entering' = entering \cup {c}
      BY <1>1, <3>1, <3>2 DEF gateVars
    <3> QED BY <1>1, <3>1, <3>2, <3>3, <3>4, CallerStep DEF gateVars
  <2> QED BY <2>1, <2>2
<1>5. CASE Gate(c)
  <2>1. stage[c] = "gate" /\ stage[c] \in Entering /\ stage[c] \notin Running
    BY <1>5 DEF Gate, Entering, Running
  <2>2. CASE lifecycle # "Open" /\ Refused(c, "ControllerClosed")
    BY <1>2, <1>5, <2>1, <2>2 DEF Gate, Refused
  <2>3. CASE /\ lifecycle = "Open" /\ ~busy
             /\ busy' = TRUE /\ owner' = c
             /\ Unregister(c) /\ GoTo(c, "claimed")
             /\ UNCHANGED <<lifecycle, waiters, run>>
    <3>1. "claimed" \in Running /\ "claimed" \notin Entering
      BY DEF Entering, Running
    <3>2. waiters = Cardinality(Waiting')
      BY <2>1, <2>3, <3>1, CallerMoves
    <3>3. pending' = Cardinality(Registered') /\ pending' \in Nat
      BY <2>1, <2>3, <3>1, CallerMoves DEF Unregister
    <3> QED BY <1>1, <1>5, <2>1, <2>3, <3>1, <3>2, <3>3, CallerStep DEF Unregister, Gate
  <2>4. CASE /\ lifecycle = "Open" /\ busy
             /\ waiters' = waiters + 1 /\ GoTo(c, "waiting")
             /\ UNCHANGED <<lifecycle, busy, owner, pending, entering, run>>
    <3>1. "waiting" \in Entering /\ "waiting" \notin Running
      BY DEF Entering, Running
    <3>2. waiters' = Cardinality(Waiting') /\ pending = Cardinality(Registered')
      BY <2>1, <2>4, <3>1, CallerMoves
    <3>3. entering' = entering \cup {c}
      BY <1>1, <2>1, <2>4
    <3>4. waiters' \in Nat /\ UNCHANGED <<platform, interrupted>>
      BY <1>1, <1>5, <2>4 DEF Gate
    <3> QED BY <1>1, <2>1, <2>4, <3>1, <3>2, <3>3, <3>4, CallerStep
  <2> QED BY <1>5, <2>2, <2>3, <2>4 DEF Gate
<1>6. CASE Wake(c)
  <2>1. /\ stage[c] \in Entering /\ stage[c] \notin Running
        /\ "checkpoint" \in Entering /\ "checkpoint" \notin Running
    BY <1>6 DEF Wake, Entering, Running
  <2>2. /\ waiters' = Cardinality(Waiting') /\ waiters' \in Nat
        /\ pending = Cardinality(Registered')
    BY <1>6, <2>1, CallerMoves DEF Wake
  <2>3. entering' = entering \cup {c}
    BY <1>1, <1>6, <2>1 DEF Wake
  <2> QED BY <1>1, <1>6, <2>1, <2>2, <2>3, CallerStep DEF Wake
<1>7. CASE Leave(c)
  <2>1. /\ stage[c] \in Running /\ stage[c] \notin Entering
        /\ "done" \notin Entering \cup Running
    BY <1>7 DEF Leave, Entering, Running
  <2>2. waiters = Cardinality(Waiting') /\ pending = Cardinality(Registered')
    BY <1>7, <2>1, CallerMoves DEF Leave, Entering
  <2>3. entering' = entering \ {c}
    BY <1>1, <1>7, <2>1 DEF Leave
  <2> QED BY <1>1, <1>7, <2>1, <2>2, <2>3, CallerStep DEF Leave
<1>8. CASE Arbitrate(c)
  BY <1>8, RunningKeepsGate DEF Arbitrate, Running
<1>9. CASE SelectRoute(c)
  BY <1>9, RunningKeepsGate DEF SelectRoute, Running
<1>10. CASE Submit(c)
  BY <1>10, RunningKeepsGate DEF Submit, Running
<1>11. CASE Complete(c)
  BY <1>11, RunningKeepsGate DEF Complete, Running
<1>12. CASE StopBefore(c)
  <2>1. \E next \in {"leaving", "cleaning"} : GoTo(c, next)
    BY <1>12 DEF StopBefore, Stopped
  <2> QED BY <1>12, <2>1, RunningKeepsGate DEF StopBefore, Running
<1>13. CASE StopDuring(c)
  <2>1. \E next \in {"leaving", "cleaning"} : GoTo(c, next)
    BY <1>13 DEF StopDuring, Stopped
  <2> QED BY <1>13, <2>1, RunningKeepsGate DEF StopDuring, Running
<1>14. CASE Release(c)
  BY <1>14, RunningKeepsGate DEF Release, Running
<1>15. CASE FinishCleanup(c)
  BY <1>15, RunningKeepsGate DEF FinishCleanup, Cleaned, Running
<1>16. CASE ReleaseRefused(c)
  BY <1>16, RunningKeepsGate DEF ReleaseRefused, Running
<1>17. CASE ReleaseExpired(c)
  BY <1>17, RunningKeepsGate DEF ReleaseExpired, Cleaned, Running
<1> QED
  BY <1>3, <1>4, <1>5, <1>6, <1>7, <1>8, <1>9, <1>10, <1>11, <1>12, <1>13,
     <1>14, <1>15, <1>16, <1>17 DEF Call

(* Every step of a closer keeps it.                                        *)
LEMMA CloseKeeps ==
    ASSUME GateInv, NEW d \in Closers, Close(d)
    PROVE  GateInv'
<1> USE DEF GateInv
<1>1. /\ d \notin Callers /\ d \in Threads
      /\ stage[d] \in Closing <=> d \in entering
      /\ stage[d] \in Closing \ {"entered"} => lifecycle # "Open"
      /\ lifecycle \in {"Open", "Closing", "Closed"} /\ interrupted \subseteq Threads
      /\ lifecycle = "Closed" =>
            \A k \in Callers : stage[k] \notin Entering \cup Running
      /\ stage[d] \in {"committing", "closing"} =>
            \A k \in Callers : stage[k] \notin Entering \cup Running
  BY InputAssumption DEF Threads, GateType, GateExact, ClosingInv, ClosedIsQuiet
<1>2. CASE Enter(d)
  BY <1>1, <1>2, CloserStep DEF Enter, Closing
<1>3. CASE BeginClose(d)
  <2>1. entering' = entering \cup {d} /\ stage[d] \in Closing
    BY <1>1, <1>3 DEF BeginClose, Closing
  <2> QED BY <1>1, <1>3, <2>1, CloserStep DEF BeginClose, Closing
<1>4. CASE ConsultClose(d)
  <2>1. stage[d] \in Closing \ {"entered"}
    BY <1>4 DEF ConsultClose, Closing
  <2>2. CASE d \in interrupted \/ stage[d] = "returning"
    BY <1>1, <1>4, <2>1, <2>2, CloserStep DEF ConsultClose, Unregister, Closing
  <2>3. CASE ~(d \in interrupted \/ stage[d] = "returning")
    <3>1. entering' = entering \cup {d}
      BY <1>1, <1>4, <2>1, <2>3 DEF ConsultClose
    <3> QED BY <1>1, <1>4, <2>1, <2>3, <3>1, CloserStep DEF ConsultClose, Closing
  <2> QED BY <2>2, <2>3
<1>5. CASE Look(d)
  <2>1. /\ stage[d] \in Closing \ {"entered"} /\ entering' = entering \cup {d}
        /\ UNCHANGED <<platform, lifecycle, busy, owner, waiters, pending, interrupted>>
    BY <1>1, <1>5 DEF Look, Closing, gateVars
  <2>2. CASE lifecycle = "Closed"
    BY <1>1, <1>5, <2>1, <2>2, CloserStep DEF Look, Closing
  <2>3. CASE lifecycle # "Closed" /\ Quiet
    BY <1>1, <1>5, <2>1, <2>3, CloserStep, QuietIsQuiet DEF Look, Closing
  <2>4. CASE lifecycle # "Closed" /\ ~Quiet
    BY <1>1, <1>5, <2>1, <2>4, CloserStep DEF Look, Closing
  <2> QED BY <2>2, <2>3, <2>4
<1>6. CASE CommitClose(d)
  <2>1. stage[d] = "committing" /\ stage[d] \in Closing \ {"entered"}
    BY <1>6 DEF CommitClose, Closing
  <2>2. CASE d \in interrupted
    BY <1>1, <1>6, <2>1, <2>2, CloserStep DEF CommitClose, Unregister, Closing
  <2>3. CASE d \notin interrupted
    <3>1. entering' = entering \cup {d}
      BY <1>1, <1>6, <2>1, <2>3 DEF CommitClose
    <3> QED BY <1>1, <1>6, <2>1, <2>3, <3>1, CloserStep DEF CommitClose, Closing
  <2> QED BY <2>2, <2>3
<1>7. CASE FinishClose(d)
  <2>1. /\ stage[d] = "closing" /\ stage[d] \in Closing \ {"entered"}
        /\ entering' = entering \cup {d}
    BY <1>1, <1>7 DEF FinishClose, Closing
  <2> QED BY <1>1, <1>7, <2>1, CloserStep DEF FinishClose, Closing
<1> QED BY <1>2, <1>3, <1>4, <1>5, <1>6, <1>7 DEF Close

-----------------------------------------------------------------------------
(* The invariant is inductive.                                             *)
THEOREM GateInvariant == Spec => []GateInv
<1>1. ASSUME GateInv, [Next]_vars PROVE GateInv'
  <2>1. ASSUME NEW t \in Threads, Interrupt(t) PROVE GateInv'
    BY <1>1, <2>1 DEF Interrupt, GateInv, GateType, GateExact, ClosedIsQuiet,
       ClosingInv, gateVars
  <2>2. CASE UNCHANGED vars
    BY <1>1, <2>2 DEF vars, GateInv, GateType, GateExact, ClosedIsQuiet,
       ClosingInv, gateVars
  <2> QED BY <1>1, <2>1, <2>2, CallKeeps, CloseKeeps DEF Next
<1> QED BY <1>1, GateInit, PTL DEF Spec

(* One sequence runs at a time; the counters a drain waits on are exact;   *)
(* a thread in the caller's code is marked.                                *)
THEOREM InputGateExact == Spec => []GateExact
BY GateInvariant, PTL DEF GateInv

(* A controller closes only when nothing runs, waits or consults, and      *)
(* stays so.                                                               *)
THEOREM InputClosedIsQuiet == Spec => []ClosedIsQuiet
BY GateInvariant, PTL DEF GateInv
-----------------------------------------------------------------------------
(* Least elements, from which induction over the events of a sequence.     *)
LEMMA LeastExists ==
    ASSUME NEW S, S \subseteq Nat, S # {}
    PROVE  \E m \in S : \A n \in S : m <= n
<1>1. PICK m \in S : \A n \in S : ~(<<n, m>> \in OpToRel(<, Nat))
  BY NatLessThanWellFounded, WFMin
<1>2. ASSUME NEW n \in S PROVE m <= n
  <2>1. <<n, m>> \in Nat \X Nat /\ <<n, m>>[1] = n /\ <<n, m>>[2] = m
    OBVIOUS
  <2>2. ~(<<n, m>>[1] < <<n, m>>[2])
    BY <1>1, <2>1 DEF OpToRel
  <2> QED BY <2>1, <2>2
<1> QED BY <1>2

(* The recursion of HeldPrefixes defines what it says, for a sequence of   *)
(* any length.                                                             *)
LEMMA HeldUnfolds ==
    ASSUME NEW s, Len(s) \in Nat
    PROVE  /\ HeldAfter(s, 0) = <<>>
           /\ \A n \in 0..(Len(s) - 1) :
                 HeldAfter(s, n + 1) = Pressed(HeldAfter(s, n), s[n + 1])
<1> DEFINE Step(g, i) == IF i = 0 THEN <<>> ELSE Pressed(g[i - 1], s[i])
           Defined(n) == \E g : g = [i \in 0..n |-> Step(g, i)]
           Undefined == {n \in 0..Len(s) : ~Defined(n)}
<1>1. Defined(0)
  <2> DEFINE g == [i \in 0..0 |-> <<>>]
  <2>1. \A i \in 0..0 : Step(g, i) = <<>>
    OBVIOUS
  <2>2. g = [i \in 0..0 |-> Step(g, i)]
    BY <2>1
  <2> QED BY <2>2
<1>2. ASSUME NEW m \in 1..Len(s), Defined(m - 1) PROVE Defined(m)
  <2>1. PICK g : g = [i \in 0..(m - 1) |-> Step(g, i)]
    BY <1>2
  <2> DEFINE h == [i \in 0..m |-> IF i = m THEN Pressed(g[m - 1], s[m]) ELSE g[i]]
  <2>2. ASSUME NEW i \in 0..m PROVE h[i] = Step(h, i)
    <3>1. CASE i = m
      <4>1. h[m - 1] = g[m - 1] /\ h[m] = Pressed(g[m - 1], s[m])
        OBVIOUS
      <4> QED BY <3>1, <4>1
    <3>2. CASE i # m /\ i = 0
      <4>1. h[0] = g[0] /\ 0 \in 0..(m - 1)
        BY <3>2
      <4>2. g[0] = Step(g, 0)
        BY <2>1, <4>1
      <4> QED BY <3>2, <4>1, <4>2
    <3>3. CASE i # m /\ i # 0
      <4>1. i \in 0..(m - 1) /\ i - 1 \in 0..m /\ i - 1 # m /\ i \in 0..m
        BY <3>3
      <4>2. h[i - 1] = g[i - 1] /\ h[i] = g[i]
        BY <3>3, <4>1
      <4>3. g[i] = Step(g, i)
        BY <2>1, <4>1
      <4> QED BY <3>3, <4>2, <4>3
    <3> QED BY <3>1, <3>2, <3>3
  <2>3. h = [i \in 0..m |-> h[i]]
    OBVIOUS
  <2> HIDE DEF h
  <2>4. h = [i \in 0..m |-> Step(h, i)]
    BY <2>2, <2>3
  <2> QED BY <2>4
<1>3. Undefined = {}
  <2>1. SUFFICES ASSUME Undefined # {} PROVE FALSE
    OBVIOUS
  <2> HIDE DEF Defined
  <2>2. Undefined \subseteq Nat
    OBVIOUS
  <2>3. PICK m \in Undefined : \A n \in Undefined : m <= n
    BY <2>1, <2>2, LeastExists
  <2>4. m \in 1..Len(s) /\ m - 1 \in 0..Len(s) /\ m - 1 \notin Undefined
    BY <1>1, <2>3
  <2> QED BY <1>2, <2>3, <2>4
<1>4. Defined(Len(s))
  BY <1>3
<1>5. HeldPrefixes(s) = [i \in 0..Len(s) |-> Step(HeldPrefixes(s), i)]
  BY <1>4 DEF HeldPrefixes
<1> DEFINE h == HeldPrefixes(s)
<1> HIDE DEF h
<1>6. \A i \in 0..Len(s) : h[i] = Step(h, i)
  BY <1>5 DEF h
<1>7. h[0] = <<>>
  BY <1>6
<1>8. ASSUME NEW n \in 0..(Len(s) - 1) PROVE h[n + 1] = Pressed(h[n], s[n + 1])
  <2>1. n + 1 \in 0..Len(s) /\ n + 1 # 0 /\ n + 1 - 1 = n
    OBVIOUS
  <2> QED BY <1>6, <2>1
<1> QED BY <1>7, <1>8 DEF HeldAfter, h

(* The keys of two sequences, of a key put before others, and of what is   *)
(* left when one is taken out.                                             *)
LEMMA KeysTogether ==
    ASSUME NEW K, NEW a \in Seq(K), NEW b \in Seq(K)
    PROVE  /\ a \o b \in Seq(K) /\ Len(a \o b) = Len(a) + Len(b)
           /\ ToSet(a \o b) = ToSet(a) \cup ToSet(b)
<1> DEFINE g == a \o b
<1>1. /\ Len(a) \in Nat /\ Len(b) \in Nat /\ DOMAIN a = 1..Len(a) /\ DOMAIN b = 1..Len(b)
      /\ g \in Seq(K) /\ Len(g) = Len(a) + Len(b) /\ DOMAIN g = 1..(Len(a) + Len(b))
      /\ \A i \in 1..(Len(a) + Len(b)) : g[i] = IF i <= Len(a) THEN a[i] ELSE b[i - Len(a)]
  BY ConcatProperties
<1> HIDE DEF g
<1>2. ToSet(g) \subseteq ToSet(a) \cup ToSet(b)
  <2> SUFFICES ASSUME NEW i \in DOMAIN g PROVE g[i] \in ToSet(a) \cup ToSet(b)
    BY DEF ToSet
  <2>1. CASE i <= Len(a)
    BY <1>1, <2>1 DEF ToSet
  <2>2. CASE ~(i <= Len(a))
    <3>1. i - Len(a) \in DOMAIN b /\ g[i] = b[i - Len(a)]
      BY <1>1, <2>2
    <3> QED BY <3>1 DEF ToSet
  <2> QED BY <2>1, <2>2
<1>3. ToSet(a) \subseteq ToSet(g)
  <2> SUFFICES ASSUME NEW i \in DOMAIN a PROVE a[i] \in ToSet(g)
    BY DEF ToSet
  <2>1. i \in DOMAIN g /\ g[i] = a[i]
    BY <1>1
  <2> QED BY <2>1 DEF ToSet
<1>4. ToSet(b) \subseteq ToSet(g)
  <2> SUFFICES ASSUME NEW i \in DOMAIN b PROVE b[i] \in ToSet(g)
    BY DEF ToSet
  <2>1. i + Len(a) \in DOMAIN g /\ ~(i + Len(a) <= Len(a)) /\ i + Len(a) - Len(a) = i
    BY <1>1
  <2>2. g[i + Len(a)] = b[i]
    BY <1>1, <2>1
  <2> QED BY <2>1, <2>2 DEF ToSet
<1> QED BY <1>1, <1>2, <1>3, <1>4 DEF g

LEMMA KeyBefore ==
    ASSUME NEW K, NEW h \in Seq(K), NEW k \in K
    PROVE  /\ <<k>> \o h \in Seq(K) /\ Len(<<k>> \o h) = Len(h) + 1
           /\ ToSet(<<k>> \o h) = {k} \cup ToSet(h)
<1>1. PICK one \in Seq(K) : one = <<k>>
  <2>1. <<k>> \in Seq(K)
    OBVIOUS
  <2> QED BY <2>1, Zenon
<1>2. Len(one) = 1 /\ ToSet(one) = {k} /\ Len(h) \in Nat
  BY <1>1 DEF ToSet
<1>3. /\ one \o h \in Seq(K) /\ Len(one \o h) = Len(one) + Len(h)
      /\ ToSet(one \o h) = ToSet(one) \cup ToSet(h)
  BY KeysTogether
<1>4. Len(one \o h) = Len(h) + 1
  BY <1>2, <1>3
<1> QED BY <1>1, <1>2, <1>3, <1>4

LEMMA KeyTaken ==
    ASSUME NEW K, NEW h \in Seq(K), NEW i \in 1..Len(h)
    PROVE  RemoveAt(h, i) \in Seq(K) /\ ToSet(h) \ {h[i]} \subseteq ToSet(RemoveAt(h, i))
<1> DEFINE a == SubSeq(h, 1, i - 1)
           b == SubSeq(h, i + 1, Len(h))
<1>1. /\ Len(h) \in Nat /\ DOMAIN h = 1..Len(h) /\ i \in Nat /\ i >= 1 /\ i <= Len(h)
      /\ i - 1 \in Int /\ i + 1 \in Int /\ \A j \in 1..Len(h) : h[j] \in K
  OBVIOUS
<1>2. /\ a \in Seq(K) /\ DOMAIN a = 1..Len(a)
      /\ Len(a) = IF 1 <= i - 1 THEN i - 1 - 1 + 1 ELSE 0
      /\ \A j \in 1..(i - 1 - 1 + 1) : a[j] = h[1 + j - 1]
  <2>1. \A j \in 1..(i - 1) : h[j] \in K
    BY <1>1
  <2>2. /\ a \in Seq(K) /\ Len(a) = IF 1 <= i - 1 THEN i - 1 - 1 + 1 ELSE 0
        /\ \A j \in 1..(i - 1 - 1 + 1) : a[j] = h[1 + j - 1]
    BY <1>1, <2>1, SubSeqProperties
  <2> QED BY <2>2
<1>3. /\ b \in Seq(K) /\ DOMAIN b = 1..Len(b)
      /\ Len(b) = IF i + 1 <= Len(h) THEN Len(h) - (i + 1) + 1 ELSE 0
      /\ \A j \in 1..(Len(h) - (i + 1) + 1) : b[j] = h[(i + 1) + j - 1]
  <2>1. \A j \in (i + 1)..Len(h) : h[j] \in K
    BY <1>1
  <2>2. /\ b \in Seq(K) /\ Len(b) = IF i + 1 <= Len(h) THEN Len(h) - (i + 1) + 1 ELSE 0
        /\ \A j \in 1..(Len(h) - (i + 1) + 1) : b[j] = h[(i + 1) + j - 1]
    BY <1>1, <2>1, SubSeqProperties
  <2> QED BY <2>2
<1> HIDE DEF a, b
<1>4. ASSUME NEW j \in 1..Len(h), j # i PROVE h[j] \in ToSet(a) \cup ToSet(b)
  <2>1. CASE j < i
    <3>1. j \in DOMAIN a /\ j \in 1..(i - 1 - 1 + 1) /\ 1 + j - 1 = j
      BY <1>1, <1>2, <2>1
    <3>2. a[j] = h[j]
      BY <1>2, <3>1
    <3> QED BY <3>1, <3>2 DEF ToSet
  <2>2. CASE j > i
    <3>1. j \in Nat /\ i + 1 <= j /\ j <= Len(h)
      BY <1>1, <2>2
    <3>2. Len(b) = Len(h) - (i + 1) + 1
      <4>1. i + 1 <= Len(h)
        BY <1>1, <3>1
      <4> QED BY <1>3, <4>1, Zenon
    <3>3. j - i \in 1..(Len(h) - (i + 1) + 1) /\ (i + 1) + (j - i) - 1 = j
      BY <1>1, <3>1
    <3>4. b[j - i] = h[j] /\ j - i \in DOMAIN b
      BY <1>3, <3>2, <3>3
    <3> QED BY <3>4 DEF ToSet
  <2> QED BY <1>1, <1>4, <2>1, <2>2
<1>5. ToSet(h) \ {h[i]} \subseteq ToSet(a) \cup ToSet(b)
  BY <1>1, <1>4 DEF ToSet
<1>6. RemoveAt(h, i) = a \o b
  BY DEF RemoveAt, a, b
<1> QED BY <1>2, <1>3, <1>5, <1>6, KeysTogether

Acts == {"press", "release", "text", "move"}

(* What is held is a sequence of keys and covers what is down, event by    *)
(* event.                                                                  *)
LEMMA PressedCovers ==
    ASSUME NEW K, NEW h \in Seq(K), NEW e, e.act \in Acts, e.key \in K,
           NEW keys, keys \subseteq ToSet(h)
    PROVE  Pressed(h, e) \in Seq(K) /\ After(keys, e) \subseteq ToSet(Pressed(h, e))
<1>1. CASE e.act = "press"
  <2>1. Pressed(h, e) = <<e.key>> \o h /\ After(keys, e) = keys \cup {e.key}
    BY <1>1 DEF Pressed, After
  <2> QED BY <2>1, KeyBefore
<1>2. CASE e.act = "release" /\ e.key \in ToSet(h)
  <2> DEFINE I == {i \in 1..Len(h) : h[i] = e.key}
  <2>1. I \subseteq Nat /\ I # {}
    BY <1>2 DEF ToSet
  <2>2. PICK m \in I : \A n \in I : m <= n
    BY <2>1, LeastExists
  <2>3. Min(I) \in I
    BY <2>2 DEF Min
  <2>4. SelectInSeq(h, LAMBDA k : k = e.key) = Min(I)
    BY <2>1 DEF SelectInSeq
  <2>5. Pressed(h, e) = RemoveAt(h, Min(I)) /\ After(keys, e) = keys \ {e.key}
    BY <1>2, <2>4 DEF Pressed, After
  <2> QED BY <2>3, <2>5, KeyTaken
<1>3. CASE e.act = "release" /\ e.key \notin ToSet(h)
  BY <1>3 DEF Pressed, After
<1>4. CASE e.act \in {"text", "move"}
  BY <1>4 DEF Pressed, After
<1> QED BY <1>1, <1>2, <1>3, <1>4 DEF Acts

-----------------------------------------------------------------------------
(* The run of a sequence and its receipt.                                  *)

KeysOf(c) == {Text} \cup {Sequence[c][i].key : i \in DOMAIN Sequence[c]}
AllKeys == UNION {KeysOf(c) : c \in Callers}
Outcomes == {None, "ControllerClosed", "Interrupted", "Unexecuted", "Partial", "Complete"}
Cleanups == {"NotNeeded", "Complete", "Incomplete", "Exhausted"}

RunType(c) ==
    [route : 1..(Routes + 1), submitted : 0..Len(Sequence[c]), effect : BOOLEAN,
     owing : Seq(KeysOf(c)), owed : Nat, released : Nat, refused : BOOLEAN,
     outcome : Outcomes, cleanup : Cleanups]
AnyRun ==
    [route : Nat, submitted : Nat, effect : BOOLEAN, owing : Seq(AllKeys), owed : Nat,
     released : Nat, refused : BOOLEAN, outcome : Outcomes, cleanup : Cleanups]

Before == Entering \cup {"out", "claimed", "routing"}

(* What can be said of a caller's run at each stage: nothing has happened  *)
(* before it submits; then what is down is covered by what the events      *)
(* submitted leave held, and, once it was stopped, by what is owing, of    *)
(* which the receipt has not lost count.                                   *)
RunSound(c, st, r, keys) ==
    /\ r \in RunType(c) /\ keys \subseteq KeysOf(c)
    /\ st \in Before \cup {"submitting"} =>
          r.outcome = None /\ r.owed = 0 /\ r.released = 0 /\ r.cleanup = "NotNeeded"
    /\ st \in Before => r.submitted = 0 /\ ~r.effect /\ keys = {}
    /\ st = "submitting" =>
          LET held == HeldAfter(Sequence[c], r.submitted) IN
          held \in Seq(KeysOf(c)) /\ keys \subseteq ToSet(held) /\ (r.submitted = 0 => ~r.effect)
    /\ st = "cleaning" => r.outcome = "Partial"
    /\ r.outcome = "Complete" => keys \subseteq ToSet(HeldAfter(Sequence[c], r.submitted))
    /\ r.outcome = "Partial" => r.owed = Len(r.owing) + r.released /\ keys \subseteq ToSet(r.owing)
    /\ st \in {"leaving", "done"} /\ r.outcome = "Partial" =>
          (r.cleanup \in {"NotNeeded", "Complete"} <=> r.released = r.owed)
    /\ r.outcome \in {"ControllerClosed", "Interrupted", "Unexecuted"} => keys = {} /\ ~r.effect

RunsInv ==
    /\ run \in [Callers -> AnyRun] /\ down \in [Callers -> SUBSET AllKeys]
    /\ \A c \in Callers : RunSound(c, stage[c], run[c], down[c])

LEMMA RunsStart == Init => RunsInv
<1> SUFFICES ASSUME Init PROVE RunsInv
  OBVIOUS
<1>1. ASSUME NEW c \in Callers
      PROVE  NewRun \in RunType(c) /\ NewRun \in AnyRun
  <2>1. Len(Sequence[c]) \in Nat /\ Routes \in Nat
    BY <1>1, InputAssumption
  <2> QED BY <2>1 DEF NewRun, RunType, AnyRun, Outcomes, Cleanups
<1>2. ASSUME NEW c \in Callers PROVE RunSound(c, stage[c], run[c], down[c])
  <2>1. stage[c] = "out" /\ run[c] = NewRun /\ down[c] = {}
    BY DEF Init, Threads
  <2>2. /\ NewRun.outcome = None /\ NewRun.owed = 0 /\ NewRun.released = 0
        /\ NewRun.cleanup = "NotNeeded" /\ NewRun.submitted = 0 /\ ~NewRun.effect
    BY DEF NewRun
  <2>3. None \notin {"Complete", "Partial", "ControllerClosed", "Interrupted", "Unexecuted"}
    BY InputAssumption
  <2> QED BY <1>1, <2>1, <2>2, <2>3 DEF RunSound
<1> QED BY <1>1, <1>2 DEF RunsInv, Init

LEMMA RunFacts ==
    ASSUME RunsInv, GateType, NEW c \in Callers
    PROVE  /\ RunSound(c, stage[c], run[c], down[c]) /\ Len(Sequence[c]) \in Nat
           /\ run[c] \in RunType(c) /\ down[c] \subseteq KeysOf(c)
           /\ run = [run EXCEPT ![c] = run[c]] /\ down = [down EXCEPT ![c] = down[c]]
           /\ stage = [stage EXCEPT ![c] = stage[c]]
<1>1. RunSound(c, stage[c], run[c], down[c])
  BY DEF RunsInv
<1>2. Len(Sequence[c]) \in Nat
  BY InputAssumption
<1> QED BY <1>1, <1>2 DEF RunsInv, RunSound, GateType

(* A step of one caller.                                                   *)
LEMMA RunStep ==
    ASSUME RunsInv, GateType, NEW c \in Callers, NEW n, NEW r, NEW keys,
           stage' = [stage EXCEPT ![c] = n], run' = [run EXCEPT ![c] = r],
           down' = [down EXCEPT ![c] = keys], RunSound(c, n, r, keys)
    PROVE  RunsInv'
<1>1. r \in RunType(c) /\ keys \subseteq KeysOf(c) /\ KeysOf(c) \subseteq AllKeys
  BY DEF RunSound, AllKeys
<1>2. r \in AnyRun
  <2>1. Len(Sequence[c]) \in Nat /\ Routes \in Nat
    BY InputAssumption
  <2>2. r.owing \in Seq(AllKeys)
    BY <1>1 DEF RunType
  <2> QED BY <1>1, <2>1, <2>2 DEF RunType, AnyRun
<1>3. c \in Threads /\ \A k \in Callers : k \in Threads
  BY DEF Threads
<1>4. /\ run' \in [Callers -> AnyRun] /\ down' \in [Callers -> SUBSET AllKeys]
      /\ run'[c] = r /\ down'[c] = keys /\ stage'[c] = n
      /\ \A k \in Callers : k # c => /\ run'[k] = run[k] /\ down'[k] = down[k]
                                     /\ stage'[k] = stage[k]
  BY <1>1, <1>2, <1>3 DEF RunsInv, GateType
<1>5. ASSUME NEW k \in Callers PROVE RunSound(k, stage'[k], run'[k], down'[k])
  <2>1. CASE k = c
    BY <1>4, <2>1
  <2>2. CASE k # c
    BY <1>4, <2>2 DEF RunsInv
  <2> QED BY <2>1, <2>2
<1> QED BY <1>4, <1>5 DEF RunsInv

(* What another thread does.                                               *)
LEMMA RunsKept ==
    ASSUME RunsInv, UNCHANGED <<run, down>>, \A c \in Callers : stage'[c] = stage[c]
    PROVE  RunsInv'
BY DEF RunsInv

(* Nothing was submitted yet: the call goes on, or is refused.             *)
LEMMA BeforeStep ==
    ASSUME RunsInv, GateType, NEW c \in Callers, stage[c] \in Before, down' = down,
           NEW n, stage' = [stage EXCEPT ![c] = n],
           \/ n \in Before \cup {"submitting"} /\ run' = run
           \/ /\ n \in {"leaving", "done"}
              /\ \E error \in {"ControllerClosed", "Interrupted", "Unexecuted"} :
                    run' = [run EXCEPT ![c].outcome = error]
    PROVE  RunsInv'
<1>1. /\ run[c] \in RunType(c) /\ down[c] = {} /\ down = [down EXCEPT ![c] = down[c]]
      /\ run[c].outcome = None /\ run[c].owed = 0 /\ run[c].released = 0
      /\ run[c].cleanup = "NotNeeded" /\ run[c].submitted = 0 /\ ~run[c].effect
      /\ Len(Sequence[c]) \in Nat
  BY RunFacts DEF RunSound
<1>2. CASE n \in Before \cup {"submitting"} /\ run' = run
  <2>1. HeldAfter(Sequence[c], 0) = <<>> /\ <<>> \in Seq(KeysOf(c))
    BY <1>1, HeldUnfolds
  <2>2. None \notin {"ControllerClosed", "Interrupted", "Unexecuted", "Partial", "Complete"}
    BY InputAssumption
  <2>3. n \notin {"cleaning", "leaving", "done"}
    BY <1>2 DEF Before, Entering
  <2>4. RunSound(c, n, run[c], {})
    BY <1>1, <2>1, <2>2, <2>3 DEF RunSound
  <2>5. run' = [run EXCEPT ![c] = run[c]] /\ down' = [down EXCEPT ![c] = {}]
    BY <1>1, <1>2, RunFacts
  <2> QED BY <2>4, <2>5, RunStep
<1>3. ASSUME n \in {"leaving", "done"},
             NEW error \in {"ControllerClosed", "Interrupted", "Unexecuted"},
             run' = [run EXCEPT ![c].outcome = error]
      PROVE  RunsInv'
  <2> DEFINE r == [run[c] EXCEPT !.outcome = error]
  <2>1. run' = [run EXCEPT ![c] = r] /\ down' = [down EXCEPT ![c] = {}]
    BY <1>1, <1>3 DEF RunsInv
  <2>2. r \in RunType(c) /\ r.outcome = error /\ ~r.effect
    BY <1>1, <1>3 DEF RunType, Outcomes
  <2> HIDE DEF r
  <2>3. n \notin Before \cup {"submitting", "cleaning"} /\ error \notin {"Complete", "Partial"}
    BY <1>3 DEF Before, Entering
  <2>4. RunSound(c, n, r, {})
    BY <2>2, <2>3 DEF RunSound
  <2> QED BY <2>1, <2>4, RunStep
<1> QED BY <1>2, <1>3

LEMMA EntryKeeps ==
    ASSUME RunsInv, GateType, NEW c \in Callers,
           Register(c) \/ Consult(c) \/ Gate(c) \/ Wake(c) \/ Arbitrate(c)
    PROVE  RunsInv'
<1> USE DEF Before, Entering
<1>1. CASE Register(c)
  BY <1>1, BeforeStep DEF Register, GoTo
<1>2. CASE Consult(c)
  BY <1>2, BeforeStep DEF Consult, Refused, GoTo
<1>3. CASE Gate(c)
  BY <1>3, BeforeStep DEF Gate, Refused, GoTo
<1>4. CASE Wake(c)
  BY <1>4, BeforeStep DEF Wake, GoTo
<1>5. CASE Arbitrate(c)
  BY <1>5, BeforeStep DEF Arbitrate, GoTo
<1> QED BY <1>1, <1>2, <1>3, <1>4, <1>5

LEMMA RouteKeeps ==
    ASSUME RunsInv, GateType, NEW c \in Callers, SelectRoute(c)
    PROVE  RunsInv'
<1>1. stage[c] = "routing" /\ down' = down /\ stage[c] \in Before
  BY DEF SelectRoute, Before
<1>2. CASE GoTo(c, "submitting") /\ run' = run
  BY <1>1, <1>2, BeforeStep DEF GoTo
<1>3. CASE GoTo(c, "leaving") /\ run' = [run EXCEPT ![c].outcome = "Unexecuted"]
  BY <1>1, <1>3, BeforeStep DEF GoTo
<1>4. CASE /\ run[c].route < Routes /\ stage' = stage
           /\ run' = [run EXCEPT ![c].route = @ + 1]
  <2> DEFINE r == [run[c] EXCEPT !.route = @ + 1]
  <2>1. /\ run' = [run EXCEPT ![c] = r] /\ down' = [down EXCEPT ![c] = down[c]]
        /\ stage' = [stage EXCEPT ![c] = "routing"]
    BY <1>1, <1>4, RunFacts DEF RunsInv
  <2>2. run[c].route + 1 \in 1..(Routes + 1)
    BY <1>4, RunFacts, InputAssumption DEF RunType
  <2>3. /\ r \in RunType(c) /\ r.outcome = run[c].outcome /\ r.owed = run[c].owed
        /\ r.released = run[c].released /\ r.cleanup = run[c].cleanup
        /\ r.submitted = run[c].submitted /\ r.effect = run[c].effect
        /\ r.owing = run[c].owing
    BY <2>2, RunFacts DEF RunType
  <2> HIDE DEF r
  <2>4. RunSound(c, "routing", run[c], down[c])
    BY <1>1, RunFacts
  <2>5. RunSound(c, "routing", r, down[c])
    BY <2>3, <2>4 DEF RunSound
  <2> QED BY <2>1, <2>5, RunStep
<1> QED BY <1>2, <1>3, <1>4 DEF SelectRoute

(* An event was submitted: what is held is what it was, changed by it.     *)
LEMMA SubmitKeeps ==
    ASSUME RunsInv, GateType, NEW c \in Callers, Submit(c)
    PROVE  RunsInv'
<1> DEFINE s == Sequence[c]
           n == run[c].submitted
           e == s[n + 1]
           K == KeysOf(c)
           held == HeldAfter(s, n)
           r == [run[c] EXCEPT !.submitted = @ + 1, !.effect = TRUE]
           keys == After(down[c], e)
<1>1. /\ stage[c] = "submitting" /\ n < Len(s)
      /\ run[c] \in RunType(c) /\ down[c] \subseteq K /\ Len(s) \in Nat
      /\ held \in Seq(K) /\ down[c] \subseteq ToSet(held)
      /\ run[c].outcome = None /\ run[c].owed = 0 /\ run[c].released = 0
      /\ run[c].cleanup = "NotNeeded"
  BY RunFacts DEF Submit, RunSound
<1>2. n \in Nat /\ n \in 0..(Len(s) - 1) /\ n + 1 \in 0..Len(s) /\ n + 1 \in DOMAIN s
  BY <1>1, InputAssumption DEF RunType
<1>3. e.act \in Acts /\ e.key \in K
  BY <1>2, InputAssumption DEF Acts, KeysOf
<1>4. /\ run' = [run EXCEPT ![c] = r] /\ down' = [down EXCEPT ![c] = keys]
      /\ stage' = [stage EXCEPT ![c] = "submitting"]
  BY <1>1, RunFacts DEF Submit, RunsInv
<1>5. HeldAfter(s, n + 1) = Pressed(held, e)
  BY <1>1, <1>2, HeldUnfolds
<1>6. HeldAfter(s, n + 1) \in Seq(K) /\ keys \subseteq ToSet(HeldAfter(s, n + 1))
  <2> HIDE DEF e, K, held
  <2> QED BY <1>1, <1>3, <1>5, PressedCovers
<1>7. keys \subseteq K
  BY <1>1, <1>3 DEF After
<1>8. /\ r \in RunType(c) /\ r.submitted = n + 1 /\ r.outcome = None /\ r.owed = 0
      /\ r.released = 0 /\ r.cleanup = "NotNeeded"
  BY <1>1, <1>2 DEF RunType
<1> HIDE DEF r, keys
<1>9. RunSound(c, "submitting", r, keys)
  <2>1. /\ "submitting" \notin Before \cup {"cleaning", "leaving", "done"}
        /\ n + 1 # 0
    BY <1>2 DEF Before, Entering
  <2>2. None \notin {"ControllerClosed", "Interrupted", "Unexecuted", "Partial", "Complete"}
    BY InputAssumption
  <2> QED BY <1>6, <1>7, <1>8, <2>1, <2>2 DEF RunSound
<1> QED BY <1>4, <1>9, RunStep

LEMMA CompleteKeeps ==
    ASSUME RunsInv, GateType, NEW c \in Callers, Complete(c)
    PROVE  RunsInv'
<1> DEFINE r == [run[c] EXCEPT !.outcome = "Complete"]
<1>1. /\ stage[c] = "submitting" /\ run[c] \in RunType(c) /\ down[c] \subseteq KeysOf(c)
      /\ down[c] \subseteq ToSet(HeldAfter(Sequence[c], run[c].submitted))
  BY RunFacts DEF Complete, RunSound
<1>2. /\ run' = [run EXCEPT ![c] = r] /\ down' = [down EXCEPT ![c] = down[c]]
      /\ stage' = [stage EXCEPT ![c] = "leaving"]
  BY RunFacts DEF Complete, RunsInv, GoTo
<1>3. r \in RunType(c) /\ r.outcome = "Complete" /\ r.submitted = run[c].submitted
  BY <1>1 DEF RunType, Outcomes
<1> HIDE DEF r
<1>4. RunSound(c, "leaving", r, down[c])
  BY <1>1, <1>3 DEF RunSound, Before, Entering
<1> QED BY <1>2, <1>4, RunStep

LEMMA LeaveKeeps ==
    ASSUME RunsInv, GateType, NEW c \in Callers, Leave(c)
    PROVE  RunsInv'
<1>1. /\ RunSound(c, "leaving", run[c], down[c]) /\ stage' = [stage EXCEPT ![c] = "done"]
      /\ run' = [run EXCEPT ![c] = run[c]] /\ down' = [down EXCEPT ![c] = down[c]]
  BY RunFacts DEF Leave, GoTo
<1>2. RunSound(c, "done", run[c], down[c])
  BY <1>1 DEF RunSound, Before, Entering
<1> QED BY <1>1, <1>2, RunStep

(* What a stopped sequence owes.                                           *)
OwingOf(c, mayPress, halfText) ==
    (IF halfText THEN <<Text>> ELSE <<>>)
      \o PossiblyHeldAfter(Sequence[c], run[c].submitted, mayPress)

LEMMA OwingCovers ==
    ASSUME RunsInv, GateType, NEW c \in Callers, stage[c] = "submitting",
           run[c].submitted < Len(Sequence[c]),
           NEW mayPress \in BOOLEAN, NEW halfText \in BOOLEAN
    PROVE  LET e == Sequence[c][run[c].submitted + 1]
               owing == OwingOf(c, mayPress, halfText) IN
           /\ e.act \in Acts /\ e.key \in KeysOf(c)
           /\ owing \in Seq(KeysOf(c)) /\ down[c] \subseteq ToSet(owing)
           /\ mayPress /\ e.act = "press" => e.key \in ToSet(owing)
           /\ halfText => Text \in ToSet(owing)
<1> DEFINE s == Sequence[c]
           n == run[c].submitted
           e == s[n + 1]
           K == KeysOf(c)
           held == HeldAfter(s, n)
           possible == PossiblyHeldAfter(s, n, mayPress)
           half == IF halfText THEN <<Text>> ELSE <<>>
<1>1. /\ run[c] \in RunType(c) /\ Len(s) \in Nat
      /\ held \in Seq(K) /\ down[c] \subseteq ToSet(held)
  BY RunFacts DEF RunSound
<1>2. n \in Nat /\ n + 1 \in DOMAIN s
  BY <1>1, InputAssumption DEF RunType
<1>3. e.act \in Acts /\ e.key \in K
  BY <1>2, InputAssumption DEF Acts, KeysOf
<1>4. \/ possible = held /\ ~(mayPress /\ e.act = "press" /\ e.key \notin ToSet(held))
      \/ possible = <<e.key>> \o held
  BY DEF PossiblyHeldAfter
<1>5. half \in Seq(K) /\ (halfText => Text \in ToSet(half))
  <2>1. <<>> \in Seq(K) /\ <<Text>> \in Seq(K)
    BY DEF KeysOf
  <2>2. Text \in ToSet(<<Text>>)
    BY DEF ToSet
  <2>3. CASE halfText
    BY <2>1, <2>2, <2>3, Zenon
  <2>4. CASE ~halfText
    BY <2>1, <2>4, Zenon
  <2> QED BY <2>3, <2>4
<1> HIDE DEF e, K, held, possible, half
<1>6. <<e.key>> \o held \in Seq(K) /\ ToSet(<<e.key>> \o held) = {e.key} \cup ToSet(held)
  BY <1>1, <1>3, KeyBefore
<1>7. /\ possible \in Seq(K) /\ ToSet(held) \subseteq ToSet(possible)
      /\ mayPress /\ e.act = "press" => e.key \in ToSet(possible)
  BY <1>1, <1>4, <1>6
<1>8. half \o possible \in Seq(K) /\ ToSet(half \o possible) = ToSet(half) \cup ToSet(possible)
  BY <1>5, <1>7, KeysTogether
<1>9. OwingOf(c, mayPress, halfText) = half \o possible
  BY DEF OwingOf, half, possible
<1>10. /\ half \o possible \in Seq(K) /\ down[c] \subseteq ToSet(half \o possible)
       /\ mayPress /\ e.act = "press" => e.key \in ToSet(half \o possible)
       /\ halfText => Text \in ToSet(half \o possible)
  BY <1>1, <1>5, <1>7, <1>8
<1> QED BY <1>3, <1>9, <1>10 DEF e, K

LEMMA StoppedStep ==
    ASSUME RunsInv, GateType, NEW c \in Callers, stage[c] = "submitting",
           run[c].submitted < Len(Sequence[c]),
           NEW mayEffect \in BOOLEAN, NEW mayPress \in BOOLEAN, NEW halfText \in BOOLEAN,
           Stopped(c, mayEffect, mayPress, halfText),
           NEW keys \in SUBSET KeysOf(c), down' = [down EXCEPT ![c] = keys],
           keys \subseteq ToSet(OwingOf(c, mayPress, halfText)),
           ~mayEffect => keys = down[c]
    PROVE  RunsInv'
<1> DEFINE owing == OwingOf(c, mayPress, halfText)
<1>1. /\ run[c] \in RunType(c) /\ run[c].released = 0 /\ run[c].cleanup = "NotNeeded"
      /\ down[c] \subseteq ToSet(HeldAfter(Sequence[c], run[c].submitted))
      /\ run[c].submitted = 0 => ~run[c].effect
      /\ Len(Sequence[c]) \in Nat /\ owing \in Seq(KeysOf(c)) /\ Len(owing) \in Nat
  BY RunFacts, OwingCovers DEF RunSound
<1> USE DEF Before, Entering
<1>2. CASE run[c].submitted = 0 /\ ~mayEffect
  <2> DEFINE r == [run[c] EXCEPT !.outcome = "Unexecuted"]
  <2>1. run' = [run EXCEPT ![c] = r] /\ stage' = [stage EXCEPT ![c] = "leaving"]
    BY <1>2 DEF Stopped, RunsInv, GoTo
  <2>2. r \in RunType(c) /\ r.outcome = "Unexecuted" /\ ~r.effect
    BY <1>1, <1>2 DEF RunType, Outcomes
  <2>3. keys = {}
    <3>1. HeldAfter(Sequence[c], 0) = <<>>
      BY <1>1, HeldUnfolds
    <3> QED BY <1>1, <1>2, <3>1 DEF ToSet
  <2> HIDE DEF r
  <2>4. RunSound(c, "leaving", r, keys)
    BY <2>2, <2>3 DEF RunSound
  <2> QED BY <2>1, <2>4, RunStep
<1>3. CASE ~(run[c].submitted = 0 /\ ~mayEffect)
  <2> HIDE DEF owing
  <2> DEFINE r == [run[c] EXCEPT !.outcome = "Partial", !.effect = @ \/ mayEffect,
                                 !.owing = owing, !.owed = Len(owing)]
             next == IF owing = <<>> THEN "leaving" ELSE "cleaning"
  <2>1. run' = [run EXCEPT ![c] = r] /\ stage' = [stage EXCEPT ![c] = next]
    BY <1>3 DEF Stopped, RunsInv, GoTo, owing, OwingOf
  <2>2. (run[c].effect \/ mayEffect) \in BOOLEAN
    OBVIOUS
  <2>3. /\ r \in RunType(c) /\ r.outcome = "Partial" /\ r.owing = owing
        /\ r.owed = Len(owing) /\ r.released = 0 /\ r.cleanup = "NotNeeded"
    BY <1>1, <2>2 DEF RunType, Outcomes
  <2> HIDE DEF r
  <2>4. keys \subseteq ToSet(r.owing) /\ r.owed = Len(r.owing) + r.released
    BY <1>1, <2>3 DEF owing
  <2>5. next = "leaving" => r.owed = 0
    BY <2>3
  <2>6. RunSound(c, next, r, keys)
    BY <2>3, <2>4, <2>5 DEF RunSound
  <2> HIDE DEF next
  <2> QED BY <2>1, <2>6, RunStep
<1> QED BY <1>2, <1>3

LEMMA StopKeeps ==
    ASSUME RunsInv, GateType, NEW c \in Callers, StopBefore(c) \/ StopDuring(c)
    PROVE  RunsInv'
<1>1. CASE StopBefore(c)
  <2>1. /\ stage[c] = "submitting" /\ run[c].submitted < Len(Sequence[c])
        /\ Stopped(c, FALSE, FALSE, FALSE) /\ down' = [down EXCEPT ![c] = down[c]]
    BY <1>1, RunFacts DEF StopBefore
  <2>2. down[c] \in SUBSET KeysOf(c) /\ down[c] \subseteq ToSet(OwingOf(c, FALSE, FALSE))
    BY <2>1, RunFacts, OwingCovers
  <2> QED BY <2>1, <2>2, StoppedStep
<1>2. CASE StopDuring(c)
  <2> DEFINE e == Sequence[c][run[c].submitted + 1]
  <2>1. PICK mayPress, halfText, happened \in BOOLEAN :
           /\ happened /\ e.act = "press" => mayPress
           /\ Stopped(c, TRUE, mayPress, halfText)
           /\ down' = [down EXCEPT ![c] =
                 (IF happened THEN After(down[c], e) ELSE down[c])
                   \cup (IF halfText THEN {Text} ELSE {})]
    BY <1>2 DEF StopDuring
  <2>2. stage[c] = "submitting" /\ run[c].submitted < Len(Sequence[c])
    BY <1>2 DEF StopDuring
  <2>3. /\ e.act \in Acts /\ e.key \in KeysOf(c) /\ down[c] \subseteq KeysOf(c)
        /\ down[c] \subseteq ToSet(OwingOf(c, mayPress, halfText))
        /\ mayPress /\ e.act = "press" => e.key \in ToSet(OwingOf(c, mayPress, halfText))
        /\ halfText => Text \in ToSet(OwingOf(c, mayPress, halfText))
    BY <2>2, RunFacts, OwingCovers
  <2> DEFINE seen == IF happened THEN After(down[c], e) ELSE down[c]
             keys == seen \cup (IF halfText THEN {Text} ELSE {})
  <2> HIDE DEF e
  <2>4. seen \subseteq KeysOf(c) /\ seen \subseteq ToSet(OwingOf(c, mayPress, halfText))
    BY <2>1, <2>3 DEF After, Acts
  <2>5. keys \in SUBSET KeysOf(c) /\ keys \subseteq ToSet(OwingOf(c, mayPress, halfText))
    BY <2>3, <2>4 DEF KeysOf
  <2> QED BY <2>1, <2>2, <2>5, StoppedStep
<1> QED BY <1>1, <1>2

-----------------------------------------------------------------------------
(* Cleanup: what is released is no longer owing, one by one.               *)
LEMMA CleaningFacts ==
    ASSUME RunsInv, GateType, NEW c \in Callers, stage[c] = "cleaning"
    PROVE  /\ run[c] \in RunType(c) /\ run[c].outcome = "Partial"
           /\ run[c].owing \in Seq(KeysOf(c)) /\ Len(run[c].owing) \in Nat
           /\ run[c].released \in Nat /\ run[c].owed \in Nat
           /\ run[c].owed = Len(run[c].owing) + run[c].released
           /\ down[c] \subseteq ToSet(run[c].owing) /\ down[c] \subseteq KeysOf(c)
BY RunFacts DEF RunSound, RunType

LEMMA ReleaseKeeps ==
    ASSUME RunsInv, GateType, NEW c \in Callers, Release(c)
    PROVE  RunsInv'
<1> DEFINE owing == run[c].owing
           r == [run[c] EXCEPT !.owing = Tail(@), !.released = @ + 1]
           keys == down[c] \ {Head(owing)}
<1>1. /\ stage[c] = "cleaning" /\ owing # <<>>
      /\ run' = [run EXCEPT ![c] = r] /\ down' = [down EXCEPT ![c] = keys]
      /\ stage' = [stage EXCEPT ![c] = "cleaning"]
  BY RunFacts DEF Release, RunsInv
<1>2. /\ Tail(owing) \in Seq(KeysOf(c)) /\ Len(owing) = Len(Tail(owing)) + 1
      /\ owing = <<Head(owing)>> \o Tail(owing) /\ Head(owing) \in KeysOf(c)
      /\ Len(Tail(owing)) \in Nat
  BY <1>1, CleaningFacts
<1>3. ToSet(owing) = {Head(owing)} \cup ToSet(Tail(owing))
  BY <1>2, KeyBefore
<1>4. /\ r \in RunType(c) /\ r.owing = Tail(owing) /\ r.released = run[c].released + 1
      /\ r.owed = run[c].owed /\ r.outcome = "Partial"
  <2>1. run[c].released + 1 \in Nat
    BY <1>1, CleaningFacts
  <2> QED BY <1>1, <1>2, <2>1, CleaningFacts DEF RunType
<1>5. r.owed = Len(r.owing) + r.released
  <2>1. run[c].owed = Len(owing) + run[c].released /\ run[c].released \in Nat
    BY <1>1, CleaningFacts
  <2> DEFINE rest == Tail(owing)
  <2>2. Len(owing) = Len(rest) + 1 /\ Len(rest) \in Nat
    BY <1>2
  <2>3. r.owing = rest /\ r.owed = run[c].owed /\ r.released = run[c].released + 1
    BY <1>4
  <2> HIDE DEF r, owing, rest
  <2> QED BY <2>1, <2>2, <2>3
<1>6. keys \subseteq ToSet(r.owing) /\ keys \subseteq KeysOf(c)
  BY <1>1, <1>3, <1>4, CleaningFacts
<1> HIDE DEF r, keys
<1>7. RunSound(c, "cleaning", r, keys)
  BY <1>4, <1>5, <1>6 DEF RunSound, Before, Entering
<1> QED BY <1>1, <1>7, RunStep

(* Cleanup ends with a verdict.                                            *)
LEMMA VerdictStep ==
    ASSUME RunsInv, GateType, NEW c \in Callers, stage[c] = "cleaning",
           GoTo(c, "leaving"), down' = down,
           NEW verdict \in Cleanups, NEW refused \in BOOLEAN,
           run' = [run EXCEPT ![c] =
                     [run[c] EXCEPT !.cleanup = verdict, !.refused = refused]],
           verdict \in {"NotNeeded", "Complete"} <=> run[c].released = run[c].owed
    PROVE  RunsInv'
<1> DEFINE r == [run[c] EXCEPT !.cleanup = verdict, !.refused = refused]
<1>1. /\ r \in RunType(c) /\ r.cleanup = verdict /\ r.outcome = "Partial"
      /\ r.owing = run[c].owing /\ r.owed = run[c].owed /\ r.released = run[c].released
  BY CleaningFacts DEF RunType
<1>2. /\ down' = [down EXCEPT ![c] = down[c]] /\ stage' = [stage EXCEPT ![c] = "leaving"]
      /\ run' = [run EXCEPT ![c] = r]
  BY RunFacts DEF GoTo
<1> HIDE DEF r
<1>3. RunSound(c, "leaving", r, down[c])
  BY <1>1, CleaningFacts DEF RunSound, Before, Entering
<1> QED BY <1>2, <1>3, RunStep

LEMMA CleanupKeeps ==
    ASSUME RunsInv, GateType, NEW c \in Callers,
           FinishCleanup(c) \/ ReleaseRefused(c) \/ ReleaseExpired(c)
    PROVE  RunsInv'
<1>1. /\ stage[c] = "cleaning" /\ GoTo(c, "leaving") /\ down' = down
      /\ run[c].released \in Nat /\ run[c].owed \in Nat /\ run[c].released <= run[c].owed
      /\ run[c].owing # <<>> => run[c].released # run[c].owed
      /\ run[c].refused \in BOOLEAN
  <2>1. stage[c] = "cleaning" /\ GoTo(c, "leaving") /\ down' = down
    BY DEF FinishCleanup, ReleaseRefused, ReleaseExpired, Cleaned
  <2>2. run[c].owing # <<>> => Len(run[c].owing) # 0
    BY <2>1, CleaningFacts
  <2>3. run[c].refused \in BOOLEAN
    BY RunFacts DEF RunType
  <2> QED BY <2>1, <2>2, <2>3, CleaningFacts
<1>2. ASSUME NEW exhausted \in BOOLEAN, Cleaned(c, exhausted) PROVE RunsInv'
  <2> DEFINE verdict == IF run[c].released >= run[c].owed THEN "Complete"
                        ELSE IF exhausted THEN "Exhausted" ELSE "Incomplete"
  <2>1. run' = [run EXCEPT ![c] = [run[c] EXCEPT !.cleanup = verdict,
                                                 !.refused = run[c].refused]]
    <3>1. run' = [run EXCEPT ![c] = [run[c] EXCEPT !.cleanup = verdict]]
      BY <1>2 DEF Cleaned, RunsInv
    <3>2. [run[c] EXCEPT !.cleanup = verdict] =
             [run[c] EXCEPT !.cleanup = verdict, !.refused = run[c].refused]
      BY RunFacts DEF RunType
    <3> QED BY <3>1, <3>2
  <2>2. /\ verdict \in Cleanups
        /\ verdict \in {"NotNeeded", "Complete"} <=> run[c].released = run[c].owed
    BY <1>1 DEF Cleanups
  <2> HIDE DEF verdict
  <2> QED BY <1>1, <2>1, <2>2, VerdictStep
<1>3. CASE FinishCleanup(c)
  BY <1>2, <1>3 DEF FinishCleanup
<1>4. CASE ReleaseExpired(c)
  BY <1>2, <1>4 DEF ReleaseExpired
<1>5. CASE ReleaseRefused(c)
  <2>1. run' = [run EXCEPT ![c] = [run[c] EXCEPT !.cleanup = "Incomplete", !.refused = TRUE]]
    BY <1>5 DEF ReleaseRefused, RunsInv
  <2>2. run[c].released # run[c].owed
    BY <1>1, <1>5 DEF ReleaseRefused
  <2> QED BY <1>1, <2>1, <2>2, VerdictStep DEF Cleanups
<1> QED BY <1>3, <1>4, <1>5

-----------------------------------------------------------------------------
LEMMA RunsNext == RunsInv /\ GateType /\ [Next]_vars => RunsInv'
<1> SUFFICES ASSUME RunsInv, GateType, [Next]_vars PROVE RunsInv'
  OBVIOUS
<1>1. ASSUME NEW c \in Callers, Call(c) PROVE RunsInv'
  BY <1>1, EntryKeeps, RouteKeeps, SubmitKeeps, CompleteKeeps, LeaveKeeps, StopKeeps,
     ReleaseKeeps, CleanupKeeps DEF Call
<1>2. ASSUME NEW d \in Closers, Close(d) PROVE RunsInv'
  <2>1. UNCHANGED <<run, down>> /\ \E next : GoTo(d, next)
    BY <1>2 DEF Close, Enter, BeginClose, ConsultClose, Look, CommitClose, FinishClose
  <2>2. \A c \in Callers : c # d /\ c \in Threads
    BY InputAssumption DEF Threads
  <2>3. \A c \in Callers : stage'[c] = stage[c]
    BY <2>1, <2>2 DEF GoTo, GateType
  <2> QED BY <2>1, <2>3, RunsKept
<1>3. ASSUME NEW t \in Threads, Interrupt(t) PROVE RunsInv'
  BY <1>3, RunsKept DEF Interrupt
<1>4. CASE UNCHANGED vars
  BY <1>4, RunsKept DEF vars
<1> QED BY <1>1, <1>2, <1>3, <1>4 DEF Next

(* At every stage of its run a sequence has no more keys down than its     *)
(* receipt, when it is written, will account for (held_after,              *)
(* stopped_receipt, run_cleanup).                                          *)
THEOREM RunsInvariant == Spec => []RunsInv
<1>1. GateInv => GateType
  BY DEF GateInv
<1>2. Init => RunsInv
  BY RunsStart
<1> QED BY <1>1, <1>2, RunsNext, GateInvariant, PTL DEF Spec

(* As many keys as a sequence lists, at most.                              *)
LEMMA KeyCount ==
    ASSUME NEW K, NEW h \in Seq(K), NEW keys, keys \subseteq ToSet(h)
    PROVE  Cardinality(keys) \in Nat /\ Cardinality(keys) <= Len(h)
<1>1. h \in [1..Len(h) -> ToSet(h)] /\ Len(h) \in Nat
  BY DEF ToSet
<1>2. h \in Surjection(1..Len(h), ToSet(h))
  BY <1>1, Fun_IsSurj DEF ToSet
<1>3. ExistsSurjection(1..Len(h), ToSet(h))
  BY <1>2 DEF ExistsSurjection
<1>4. IsFiniteSet(ToSet(h)) /\ Cardinality(ToSet(h)) <= Len(h)
  BY <1>1, <1>3, FS_NatSurjection, FS_SurjCardinalityBound
<1>5. IsFiniteSet(keys) /\ Cardinality(keys) <= Cardinality(ToSet(h))
  BY <1>4, FS_Subset
<1>6. Cardinality(keys) \in Nat /\ Cardinality(ToSet(h)) \in Nat
  BY <1>4, <1>5, FS_CardinalityType
<1> QED BY <1>1, <1>4, <1>5, <1>6

(* What a receipt says of a sequence covers what the host was left with:   *)
(* unexecuted means no effect, and no more keys are down than were owed    *)
(* and not released; and the state keeps its types (PressedState,          *)
(* held_after, stopped_receipt, run_cleanup).                              *)
THEOREM InputRunIsSound == Spec => []RunIsSound
<1>1. ASSUME RunsInv, GateType PROVE TypeOK
  <2>1. \A c \in Callers : run[c] \in RunType(c) /\ down[c] \subseteq KeysOf(c)
    BY <1>1, RunFacts
  <2> QED BY <1>1, <2>1 DEF TypeOK, RunType, KeysOf, Outcomes, Cleanups
<1>2. ASSUME RunsInv, GateType, NEW c \in Callers, run[c].outcome # None,
             stage[c] \in {"leaving", "done"}
      PROVE  LET r == run[c] IN
             CASE r.outcome = "Complete" ->
                     down[c] \subseteq ToSet(HeldAfter(Sequence[c], r.submitted))
               [] r.outcome = "Partial" ->
                     /\ Cardinality(down[c]) + r.released <= r.owed
                     /\ r.cleanup \in {"NotNeeded", "Complete"} <=> r.released = r.owed
               [] OTHER -> down[c] = {} /\ ~r.effect
  <2> DEFINE r == run[c]
  <2>1. RunSound(c, stage[c], r, down[c]) /\ r \in RunType(c)
    BY <1>2, RunFacts
  <2>2. r.outcome \in Outcomes /\ r.owing \in Seq(KeysOf(c)) /\ r.released \in Nat
    BY <2>1 DEF RunType
  <2>3. CASE r.outcome = "Complete"
    BY <2>1, <2>3 DEF RunSound
  <2>4. CASE r.outcome = "Partial"
    <3>1. /\ r.owed = Len(r.owing) + r.released /\ down[c] \subseteq ToSet(r.owing)
          /\ r.cleanup \in {"NotNeeded", "Complete"} <=> r.released = r.owed
      BY <1>2, <2>1, <2>4 DEF RunSound
    <3>2. /\ Cardinality(down[c]) \in Nat /\ Cardinality(down[c]) <= Len(r.owing)
          /\ Len(r.owing) \in Nat
      BY <2>2, <3>1, KeyCount
    <3>3. Cardinality(down[c]) + r.released <= r.owed
      BY <2>2, <3>1, <3>2
    <3> QED BY <2>4, <3>1, <3>3
  <2>5. CASE r.outcome \notin {"Complete", "Partial"}
    BY <1>2, <2>1, <2>2, <2>5 DEF RunSound, Outcomes
  <2> QED BY <2>3, <2>4, <2>5
<1>3. RunsInv /\ GateType => RunIsSound
  BY <1>1, <1>2 DEF RunIsSound, ReceiptTruthful
<1>4. GateInv => GateType
  BY DEF GateInv
<1> QED BY <1>3, <1>4, RunsInvariant, GateInvariant, PTL

=============================================================================
