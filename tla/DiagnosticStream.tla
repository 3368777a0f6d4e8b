--------------------------- MODULE DiagnosticStream ---------------------------
(***************************************************************************)
(* The bounded diagnostic stream of one engine                             *)
(* (crates/automation/runtime/src/diagnostic.rs): producers that never     *)
(* wait, one reader that drains, and the seal set by whoever drops the     *)
(* last producer.                                                          *)
(*                                                                         *)
(* A producer tries the lock once.  If it is taken, the record is counted  *)
(* as lost in an atomic word of its level, without the lock; the high bit  *)
(* of that word is the fence the seal raises, so that no loss is counted   *)
(* that no drain would report.  The drain and the seal hold the lock and   *)
(* touch the two words one after the other, while producers count.         *)
(*                                                                         *)
(* A record is its level and its sequence number.  Payloads, timestamps,   *)
(* the identities of operations, templates and models (plain atomic        *)
(* counters) and a poisoned lock (recovered) are left out.  What becomes   *)
(* of each emission is counted per level in history variables.             *)
(***************************************************************************)
EXTENDS Naturals, FiniteSets, Sequences, SequencesExt

CONSTANTS
    Emitters,       \* threads that emit
    Sinks,          \* DiagnosticSink values, the engine's own and its clones
    Engine,         \* the sink the engine creates
    Of,             \* Of[t]: the sink t emits through, or Detached
    Detached,       \* a retained frame's DiagnosticEmitter, no producer
    Levels,         \* the levels the stream admits
    Capacity,       \* DiagnosticOptions::capacity
    MaxPending,     \* PENDING_LOSS_MASK
    MaxSequence,    \* the last record sequence of a u64
    MaxEmissions,   \* bounds the emissions of a run
    Reader, None

AllLevels == {"normal", "debug"}

ASSUME DiagnosticAssumption ==
    /\ Engine \in Sinks /\ IsFiniteSet(Sinks) /\ IsFiniteSet(Emitters)
    /\ Of \in [Emitters -> Sinks \cup {Detached}] /\ Detached \notin Sinks
    /\ Levels \subseteq AllLevels
    /\ Capacity \in Nat \ {0}
    /\ MaxPending \in Nat /\ MaxSequence \in Nat /\ MaxEmissions \in Nat
    /\ Emitters \cap Sinks = {}
    /\ Reader \notin Emitters \cup Sinks /\ None \notin Emitters \cup Sinks \cup {Reader}

VARIABLES
    lock,           \* who holds the mutex of StreamState
    records, losses, next, sealed,      \* StreamState
    pending, fence, \* pending_normal and pending_debug, and their high bits
    producers,      \* the count of producers
    sink,           \* how far each sink is
    emitter, level, \* what each emitter does, and the level of its record
    reader, taken,  \* the drain under way, and the pending losses it took
    emitted, reported, late, uncounted, final   \* history

state == <<lock, records, losses, next, sealed>>
words == <<pending, fence>>
history == <<emitted, reported, late, uncounted, final>>
vars == <<state, words, producers, sink, emitter, level, reader, taken, history>>

Zero == [l \in AllLevels |-> 0]
AddOne(count, l) == [count EXCEPT ![l] = @ + 1]
Count(rs, l) == Cardinality({i \in DOMAIN rs : rs[i].level = l})

Init ==
    /\ lock = None
    /\ records = <<>> /\ losses = Zero /\ next = 1 /\ sealed = FALSE
    /\ pending = Zero /\ fence = [l \in AllLevels |-> FALSE]
    /\ producers = 1
    /\ sink = [s \in Sinks |-> IF s = Engine THEN "live" ELSE "none"]
    /\ emitter = [t \in Emitters |-> "idle"]
    /\ level = [t \in Emitters |-> "normal"]
    /\ reader = "idle" /\ taken = Zero
    /\ emitted = Zero /\ reported = Zero /\ late = Zero /\ uncounted = Zero
    /\ final = FALSE

Step(t, from, to) ==
    /\ emitter[t] = from
    /\ emitter' = [emitter EXCEPT ![t] = to]

-----------------------------------------------------------------------------
(* Producers.                                                              *)

(* normal_at, debug_at and observe look at the flag of their sink, a       *)
(* detached emitter at the number of producers, before the emission.       *)
MayEmit(t) ==
    IF Of[t] = Detached THEN producers # 0 ELSE sink[Of[t]] = "live"

Emits(t, l) ==
    /\ emitted["normal"] + emitted["debug"] < MaxEmissions
    /\ emitted' = AddOne(emitted, l)
    /\ level' = [level EXCEPT ![t] = l]
    /\ UNCHANGED <<state, words, producers, sink, reader, taken, reported, late,
                   uncounted, final>>

Offer(t, l) ==
    /\ Step(t, "idle", "offering")
    /\ l \in Levels /\ MayEmit(t)
    /\ Emits(t, l)

(* normal_loss: the record cannot be built, and counts as lost.  It does   *)
(* not look at the flag of the sink.                                       *)
Discard(t) ==
    /\ Step(t, "idle", "counting")
    /\ Of[t] # Detached /\ sink[Of[t]] # "none"
    /\ Emits(t, "normal")

(* emit: try_lock either takes the lock or gives up.                       *)
TryLock(t) ==
    /\ \/ lock = None /\ Step(t, "offering", "locked") /\ lock' = t
       \/ lock # None /\ Step(t, "offering", "counting") /\ UNCHANGED lock
    /\ UNCHANGED <<records, losses, next, sealed, words, producers, sink, level,
                   reader, taken, history>>

(* The place of the record that makes room, none if the new one goes.      *)
Evicted(l) ==
    LET debug == {i \in DOMAIN records : records[i].level = "debug"}
    IN  IF debug # {} THEN CHOOSE i \in debug : \A j \in debug : i <= j
        ELSE IF l = "normal" THEN 1 ELSE 0

(* The rest of emit after a record was evicted: the sequence may be spent. *)
PushBack(rs, lost, l) ==
    IF next = 0
      THEN records' = rs /\ losses' = AddOne(lost, l) /\ UNCHANGED next
      ELSE /\ records' = Append(rs, [level |-> l, seq |-> next])
           /\ losses' = lost
           /\ next' = IF next = MaxSequence THEN 0 ELSE next + 1

(* Mutant of Retain: the evicted record is counted at the level of the     *)
(* new one.                                                                *)
RetainBlamed(l) ==
    IF Len(records) < Capacity THEN PushBack(records, losses, l)
    ELSE IF Evicted(l) = 0
      THEN losses' = AddOne(losses, l) /\ UNCHANGED <<records, next>>
      ELSE PushBack(RemoveAt(records, Evicted(l)), AddOne(losses, l), l)

Retain(l) ==
    IF Len(records) < Capacity THEN PushBack(records, losses, l)
    ELSE IF Evicted(l) = 0
      THEN losses' = AddOne(losses, l) /\ UNCHANGED <<records, next>>
      ELSE PushBack(RemoveAt(records, Evicted(l)),
                    AddOne(losses, records[Evicted(l)].level), l)

(* emit under the lock.                                                    *)
Emit(t) ==
    /\ Step(t, "locked", "idle")
    /\ lock' = None
    /\ IF sealed
         THEN late' = AddOne(late, level[t]) /\ UNCHANGED <<records, losses, next>>
         ELSE Retain(level[t]) /\ UNCHANGED late
    /\ level' = [level EXCEPT ![t] = "normal"]
    /\ UNCHANGED <<sealed, words, producers, sink, reader, taken, emitted, reported,
                   uncounted, final>>

(* Mutant of CountLoss: the fence is not part of the word.                 *)
CountLossUnfenced(t) ==
    LET l == level[t] IN
    /\ Step(t, "counting", "idle")
    /\ IF pending[l] < MaxPending
         THEN pending' = AddOne(pending, l) /\ UNCHANGED uncounted
         ELSE uncounted' = AddOne(uncounted, l) /\ UNCHANGED pending
    /\ level' = [level EXCEPT ![t] = "normal"]
    /\ UNCHANGED <<state, fence, producers, sink, reader, taken, emitted, reported,
                   late, final>>

(* count_loss: one fetch_update, refused at the largest count or behind    *)
(* the fence.                                                              *)
CountLoss(t) ==
    LET l == level[t] IN
    /\ Step(t, "counting", "idle")
    /\ IF fence[l]
         THEN late' = AddOne(late, l) /\ UNCHANGED <<pending, uncounted>>
         ELSE /\ IF pending[l] < MaxPending
                   THEN pending' = AddOne(pending, l) /\ UNCHANGED uncounted
                   ELSE uncounted' = AddOne(uncounted, l) /\ UNCHANGED pending
              /\ UNCHANGED late
    /\ level' = [level EXCEPT ![t] = "normal"]
    /\ UNCHANGED <<state, fence, producers, sink, reader, taken, emitted, reported,
                   final>>

-----------------------------------------------------------------------------
(* Sinks.                                                                  *)

SinkStep(s, from, to) ==
    /\ sink[s] = from
    /\ sink' = [sink EXCEPT ![s] = to]
    /\ UNCHANGED <<emitter, level, reader, taken, history>>

(* DiagnosticSink::clone, from a sink that is in use.                      *)
Clone(s) ==
    /\ \E other \in Sinks : sink[other] = "live"
    /\ SinkStep(s, "none", "live")
    /\ producers' = producers + 1
    /\ UNCHANGED <<state, words>>

(* release_producer, by a drop or by the closed scheduler: the swap, and   *)
(* the subtraction whose last seals.                                       *)
Release(s) == SinkStep(s, "live", "released") /\ UNCHANGED <<state, words, producers>>

(* Mutant of Subtract: nobody is the last.                                 *)
SubtractOnly(s) ==
    /\ SinkStep(s, "released", "gone")
    /\ producers' = producers - 1
    /\ UNCHANGED <<state, words>>

Subtract(s) ==
    /\ SinkStep(s, "released", IF producers = 1 THEN "last" ELSE "gone")
    /\ producers' = producers - 1
    /\ UNCHANGED <<state, words>>

(* seal: the lock, the fence of each level, and the flag.                  *)
SealLock(s) ==
    /\ SinkStep(s, "last", "normal")
    /\ lock = None /\ lock' = s
    /\ UNCHANGED <<records, losses, next, sealed, words, producers>>

SealNormal(s) ==
    /\ SinkStep(s, "normal", "debug")
    /\ fence' = [fence EXCEPT !["normal"] = TRUE]
    /\ UNCHANGED <<state, pending, producers>>

SealDebug(s) ==
    /\ SinkStep(s, "debug", "sealing")
    /\ fence' = [fence EXCEPT !["debug"] = TRUE]
    /\ UNCHANGED <<state, pending, producers>>

SealFlag(s) ==
    /\ SinkStep(s, "sealing", "gone")
    /\ sealed' = TRUE /\ lock' = None
    /\ UNCHANGED <<records, losses, next, words, producers>>

-----------------------------------------------------------------------------
(* The reader.                                                             *)

ReaderStep(from, to) ==
    /\ reader = from /\ reader' = to
    /\ UNCHANGED <<next, sealed, fence, producers, sink, emitter, level,
                   emitted, late, uncounted>>

DrainLock ==
    /\ ReaderStep("idle", "normal")
    /\ lock = None /\ lock' = Reader
    /\ UNCHANGED <<records, losses, pending, taken, reported, final>>

(* fetch_and keeps the fence and takes the count.                          *)
Take(l) ==
    /\ taken' = [taken EXCEPT ![l] = pending[l]]
    /\ pending' = [pending EXCEPT ![l] = 0]
    /\ UNCHANGED <<lock, records, losses, reported, final>>

DrainNormal == ReaderStep("normal", "debug") /\ Take("normal")
DrainDebug == ReaderStep("debug", "commit") /\ Take("debug")

Lost(l) == losses[l] + taken[l]
NothingToTell == records = <<>> /\ \A l \in AllLevels : Lost(l) = 0

(* DiagnosticDrain.                                                        *)
Answer ==
    IF ~NothingToTell THEN "Batch" ELSE IF sealed THEN "EndOfStream" ELSE "OpenEmpty"

DrainCommit ==
    /\ ReaderStep("commit", "idle")
    /\ lock' = None
    /\ records' = <<>> /\ losses' = Zero /\ taken' = Zero
    /\ reported' = [l \in AllLevels |-> reported[l] + Count(records, l) + Lost(l)]
    /\ final' = sealed
    /\ UNCHANGED pending

-----------------------------------------------------------------------------
Produce(t) == TryLock(t) \/ Emit(t) \/ CountLoss(t)
Seal(s) == SealLock(s) \/ SealNormal(s) \/ SealDebug(s) \/ SealFlag(s)
Drain == DrainNormal \/ DrainDebug \/ DrainCommit

Next ==
    \/ \E t \in Emitters :
          Produce(t) \/ Discard(t) \/ \E l \in AllLevels : Offer(t, l)
    \/ \E s \in Sinks : Clone(s) \/ Release(s) \/ Subtract(s) \/ Seal(s)
    \/ DrainLock \/ Drain

Spec == Init /\ [][Next]_vars

(* Threads inside emit, release_producer, seal and drain go on.  The lock  *)
(* is held for bounded work and the waiting seal gets it in the end, even  *)
(* if the reader drains over and over.                                     *)
FairSpec ==
    /\ Spec
    /\ \A t \in Emitters : WF_vars(Produce(t))
    /\ \A s \in Sinks : WF_vars(Subtract(s)) /\ WF_vars(Seal(s)) /\ SF_vars(SealLock(s))
    /\ WF_vars(Drain)

-----------------------------------------------------------------------------
Records == [level : AllLevels, seq : Nat \ {0}]
Counts == [AllLevels -> Nat]

TypeOK ==
    /\ lock \in Emitters \cup Sinks \cup {Reader, None}
    /\ records \in Seq(Records) /\ Len(records) <= Capacity
    /\ losses \in Counts /\ next \in Nat /\ sealed \in BOOLEAN
    /\ pending \in Counts /\ fence \in [AllLevels -> BOOLEAN]
    /\ producers \in Nat
    /\ sink \in [Sinks -> {"none", "live", "released", "last", "normal", "debug",
                           "sealing", "gone"}]
    /\ emitter \in [Emitters -> {"idle", "offering", "locked", "counting"}]
    /\ level \in [Emitters -> AllLevels]
    /\ reader \in {"idle", "normal", "debug", "commit"} /\ taken \in Counts
    /\ emitted \in Counts /\ reported \in Counts
    /\ late \in Counts /\ uncounted \in Counts /\ final \in BOOLEAN

InHand(l) == {t \in Emitters : emitter[t] # "idle" /\ level[t] = l}

(* Every emission of a level was reported to the reader once, as a record  *)
(* or as a loss, or is retained, counted as lost, in the hands of its      *)
(* producer, or came too late or to a full count; and it comes too late    *)
(* only when no producer is left (emit, count_loss, drain and the "exact   *)
(* losses since the preceding committed batch" of DiagnosticBatch).        *)
LossesExact ==
    /\ TypeOK
    /\ \A l \in AllLevels :
        /\ emitted[l] = reported[l] + Count(records, l) + losses[l] + taken[l]
                        + pending[l] + late[l] + uncounted[l] + Cardinality(InHand(l))
        /\ late[l] > 0 => producers = 0

(* After a drain that found the seal, whether it answered with a last      *)
(* batch or with the end, every drain answers EndOfStream and nothing more *)
(* is reported, although producers may still be on their way: seal raises  *)
(* the fences under the lock, before the flag.                             *)
EndIsFinal ==
    [][final => /\ UNCHANGED reported /\ final'
                /\ reader = "commit" => Answer = "EndOfStream"]_vars

(* When the last producer has been released, the stream is sealed in the   *)
(* end, so that a reader that drains is told so; nobody has to come back   *)
(* for it (release_producer).                                              *)
LastProducerSeals ==
    (\A s \in Sinks : sink[s] # "live") ~> sealed

=============================================================================
