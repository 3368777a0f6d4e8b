------------------------ MODULE CaptureStream_proofs ------------------------
(***************************************************************************)
(* Proofs about the capture stream, for every number of consumers and      *)
(* closers and every width of the counters.                                *)
(***************************************************************************)
EXTENDS CaptureStream, FiniteSetTheorems, TLAPS

(* `waiters` is the number of threads inside the timed wait.               *)
CountInv == waiters = Cardinality(Waiting)

(* A publication subtracts no more than is pending, and it holds the mutex *)
(* on an open stream.                                                      *)
PublishingInv ==
    ~MutexFree =>
        /\ publishing.consumed <= pendingDrops
        /\ ~Ended

(* No waiter appears once close began, so a drain finds none at the end.   *)
CloseInv ==
    /\ terminal # NoFault => lifecycle # "Open"
    /\ \A d \in Closers : closerPc[d] \notin {Idle, "begin"} => lifecycle
        # "Open"
    /\ \A d \in Closers : closerPc[d] \in {"commit", "finish"} => waiters = 0
    /\ lifecycle = "Closed" => waiters = 0 /\ latest = NoFrame

(* The cursor and the revision continue the last frame, which is `latest`  *)
(* until the stream has closed.                                            *)
LogInv ==
    /\ LogOrdered
    /\ lifecycle # "Closed" =>
          /\ log = <<>> => latest = NoFrame
          /\ log # <<>> => /\ latest = log[Len(log)]
                           /\ cursor = [epoch |-> latest.epoch,
                                        next |-> latest.sequence + 1]
                           /\ geometry = latest.geometry
    /\ ~MutexFree =>
          /\ \A i \in 1..Len(log) : Follows(log[i], publishing.frame)
          /\ publishing.cursor = [epoch |-> publishing.frame.epoch,
                                  next |-> publishing.frame.sequence + 1]

StreamInv == TypeOK /\ CountInv /\ PublishingInv /\ CloseInv /\ LogInv /\ OneCause

-----------------------------------------------------------------------------
(* Facts about the operators the stream is built from.                     *)

(* Follows is transitive on frames: it is enough to compare a new frame    *)
(* with the last one.                                                      *)
LEMMA FollowsTransitive ==
    ASSUME NEW a \in Frames, NEW b \in Frames, NEW c \in Frames,
           Follows(a, b), Follows(b, c)
    PROVE  Follows(a, c)
BY IdentityAssumption DEF Follows, Before, Frames, Epochs, Sequences,
    Geometries

(* What prepare produces is a frame of the stream, with the cursor one     *)
(* past it, and consumes no more drops than are pending.                   *)
LEMMA PreparedType ==
    ASSUME TypeOK, NEW p \in Publications, Accepts(p)
    PROVE  /\ Prepared(p) \in PreparedPublications
           /\ Prepared(p).consumed <= pendingDrops
           /\ Prepared(p).cursor = [epoch |-> Prepared(p).frame.epoch,
                                    next |-> Prepared(p).frame.sequence + 1]
<1>1. ConsumedDrops(p) \in Nat /\ ConsumedDrops(p) <= pendingDrops
  BY StreamAssumption DEF TypeOK, ConsumedDrops
<1>2. NextGeometry(p) \in Geometries
  BY IdentityAssumption DEF TypeOK, Geometries, NextGeometry, Accepts
<1>3. /\ PreparedCursor(p) \in [epoch : Epochs, next : Sequences]
      /\ AfterStamp(PreparedCursor(p)) = [epoch |-> PreparedCursor(p).epoch,
                                          next |-> PreparedCursor(p).next + 1]
  <2>1. CASE BeginsEpoch(p)
    BY <2>1, IdentityAssumption DEF TypeOK, Accepts, PreparedCursor,
        BeginEpoch,
       CanBeginEpoch, AfterStamp, Cursors, Epochs, Sequences
  <2>2. CASE ~BeginsEpoch(p)
    <3>1. PreparedCursor(p) = [epoch |-> cursor.epoch,
                               next |-> cursor.next + ConsumedDrops(p)]
      BY <2>2 DEF PreparedCursor, Skip, TypeOK, Cursors
    <3> QED
      BY <2>2, <3>1, <1>1, IdentityAssumption DEF TypeOK, Accepts, CanStamp,
         AfterStamp, Cursors, Epochs, Sequences
  <2> QED BY <2>1, <2>2
<1>4. AfterStamp(PreparedCursor(p)) \in Cursors
  BY <1>3, IdentityAssumption DEF Cursors, Epochs, Sequences
<1>5. Prepared(p).frame \in Frames
  BY <1>2, <1>3 DEF Prepared, Frames, Publications, Epochs, Sequences
<1> QED
  BY <1>1, <1>3, <1>4, <1>5 DEF Prepared, PreparedPublications

(* Returning from a consumer call keeps the types.                         *)
LEMMA ReturnType ==
    ASSUME TypeOK, NEW c \in Consumers, NEW o \in Outcomes, Return(c, o)
    PROVE  /\ pc' \in [Consumers -> ConsumerStates]
           /\ want' \in [Consumers -> Requests]
           /\ picked' \in [Consumers -> Frames \cup {NoFrame}]
           /\ stopped' \in [Consumers -> BOOLEAN]
           /\ out' \in [Consumers -> Outcomes]
BY DEF TypeOK, Return, ConsumerStates, Requests

(* What prepare produces follows the stream's latest frame, whatever       *)
(* continuity the adapter declared.                                        *)
LEMMA PreparedFollows ==
    ASSUME TypeOK, NEW p \in Publications, Accepts(p), latest # NoFrame,
           cursor = [epoch |-> latest.epoch, next |-> latest.sequence + 1],
           geometry = latest.geometry
    PROVE  Follows(latest, Prepared(p).frame)
<1>1. /\ ConsumedDrops(p) \in Nat
      /\ latest \in Frames
  BY StreamAssumption DEF TypeOK, ConsumedDrops
<1> DEFINE f == Prepared(p).frame
<1>2. /\ f.shape = p.shape
      /\ f.placement = p.placement
      /\ f.geometry = NextGeometry(p)
      /\ f.epoch = PreparedCursor(p).epoch
      /\ f.sequence = PreparedCursor(p).next
  BY DEF Prepared
<1>3. CASE BeginsEpoch(p)
  <2>1. f.epoch = latest.epoch + 1 /\ f.geometry = latest.geometry + 1
    BY <1>2, <1>3 DEF PreparedCursor, BeginEpoch, NextGeometry, BeginsEpoch
  <2> QED
    BY <2>1, <1>1, IdentityAssumption DEF Follows, Before, Frames,
        Epochs, Geometries
<1>4. CASE ~BeginsEpoch(p)
  <2>1. f.epoch = latest.epoch /\ f.sequence = latest.sequence + 1 + ConsumedDrops(p)
    BY <1>2, <1>4 DEF PreparedCursor, Skip
  <2>2. latest.shape = p.shape
    BY <1>4 DEF BeginsEpoch, Resolve
  <2>3. \/ f.geometry = latest.geometry + 1
        \/ f.geometry = latest.geometry /\ latest.placement = p.placement
    BY <1>2, <2>2 DEF NextGeometry, Resolve, Publications, Continuities
  <2> QED
    BY <1>1, <1>2, <2>1, <2>2, <2>3, IdentityAssumption
    DEF Follows, Before, Frames, Epochs, Sequences, Geometries
<1> QED BY <1>3, <1>4

-----------------------------------------------------------------------------
(* Each step preserves each part of the invariant. *)

(* Every step keeps the types of the variables. *)
LEMMA TypeStep ==
    ASSUME StreamInv, [Next]_vars
    PROVE  TypeOK'
<1> USE DEF StreamInv
<1>1. ASSUME NEW p \in Publications, PublishPrepare(p) PROVE TypeOK'
  BY <1>1, PreparedType
  DEF TypeOK, PublishPrepare, vars, innerVars, atomics, consumerVars,
      closerVars, history
<1>2. ASSUME PublishCommit PROVE TypeOK'
  BY <1>2, StreamAssumption, IdentityAssumption
  DEF TypeOK, PublishCommit, vars, innerVars, atomics, consumerVars,
      closerVars, history, PublishingInv, MutexFree, PreparedPublications,
      Frames
<1>3. ASSUME RecordAdmit PROVE TypeOK'
  BY <1>3
  DEF TypeOK, RecordAdmit, vars, innerVars, atomics, consumerVars,
      closerVars, history, Idle
<1>4. ASSUME RecordObserve PROVE TypeOK'
  BY <1>4
  DEF TypeOK, RecordObserve, vars, innerVars, atomics, consumerVars,
      closerVars, history, Idle
<1>5. ASSUME RecordAdd PROVE TypeOK'
  BY <1>5, StreamAssumption
  DEF TypeOK, RecordAdd, vars, innerVars, atomics, consumerVars,
      closerVars, history, Idle
<1>6. ASSUME NEW c \in Consumers, NEW request \in Requests, Call(c, request) PROVE TypeOK'
  BY <1>6
  DEF TypeOK, Call, vars, innerVars, atomics, consumerVars, closerVars,
      history, EndOutcome, Outcomes, ConsumerStates, Idle, Requests
<1>7. ASSUME NEW c \in Consumers, Interrupt(c) PROVE TypeOK'
  BY <1>7
  DEF TypeOK, Interrupt, vars, innerVars, atomics, consumerVars,
      closerVars, history
<1>8. ASSUME NEW c \in Consumers, CheckEnded(c) PROVE TypeOK'
  BY <1>8
  DEF TypeOK, CheckEnded, vars, innerVars, atomics, consumerVars,
      closerVars, history, Return, EndOutcome, Outcomes, ConsumerStates,
      Idle, Requests
<1>9. ASSUME NEW c \in Consumers, CheckForeign(c) PROVE TypeOK'
  BY <1>9
  DEF TypeOK, CheckForeign, vars, innerVars, atomics, consumerVars,
      closerVars, history, Return, EndOutcome, Outcomes, ConsumerStates,
      Idle, Requests
<1>10. ASSUME NEW c \in Consumers, CheckPick(c) PROVE TypeOK'
  BY <1>10
  DEF TypeOK, CheckPick, vars, innerVars, atomics, consumerVars,
      closerVars, history, EndOutcome, Outcomes, ConsumerStates, Idle,
      Requests
<1>11. ASSUME NEW c \in Consumers, CheckWait(c) PROVE TypeOK'
  BY <1>11
  DEF TypeOK, CheckWait, vars, innerVars, atomics, consumerVars,
      closerVars, history, EndOutcome, Outcomes, ConsumerStates, Idle,
      Requests
<1>12. ASSUME NEW c \in Consumers, Wake(c) PROVE TypeOK'
  <2>1. waiters # 0
    BY <1>12, FS_Subset, FS_EmptySet, StreamAssumption
    DEF Wake, CountInv, Waiting
  <2>2. waiters - 1 \in Nat
    BY <2>1 DEF TypeOK
  <2> QED
    BY <1>12, <2>2 DEF TypeOK, Wake, vars, innerVars, atomics,
        consumerVars, closerVars, history, ConsumerStates
<1>13. ASSUME NEW c \in Consumers, Consult(c) PROVE TypeOK'
  <2>1. UNCHANGED <<innerVars, atomics, publishing, recorder, ending, held, closerVars, history>>
    BY <1>13 DEF Consult
  <2>2. /\ pc' \in [Consumers -> ConsumerStates] /\ want' \in [Consumers -> Requests]
        /\ picked' \in [Consumers -> Frames \cup {NoFrame}]
        /\ stopped' \in [Consumers -> BOOLEAN] /\ out' \in [Consumers -> Outcomes]
    <3>1. CASE stopped[c]
      BY <1>13, <3>1, ReturnType DEF Consult, Outcomes
    <3>2. CASE ~stopped[c]
      BY <1>13, <3>2 DEF Consult, TypeOK, ConsumerStates
    <3> QED BY <3>1, <3>2
  <2> QED BY <2>1, <2>2 DEF TypeOK, innerVars, atomics, closerVars, history
<1>14. ASSUME NEW c \in Consumers, CommitFrame(c) PROVE TypeOK'
  <2>1. EndOutcome \in Outcomes
    BY StreamAssumption DEF TypeOK, EndOutcome, Outcomes
  <2>2. PICK o \in Outcomes : Return(c, o)
    BY <1>14, <2>1 DEF CommitFrame, Outcomes
  <2>3. held' \in [Consumers -> Frames \cup {NoFrame}]
    BY <1>14 DEF CommitFrame, TypeOK
  <2>4. UNCHANGED <<innerVars, atomics, publishing, recorder, ending, closerVars, history>>
    BY <1>14 DEF CommitFrame
  <2>5. /\ pc' \in [Consumers -> ConsumerStates] /\ want' \in [Consumers -> Requests]
        /\ picked' \in [Consumers -> Frames \cup {NoFrame}]
        /\ stopped' \in [Consumers -> BOOLEAN] /\ out' \in [Consumers -> Outcomes]
    BY <2>2, ReturnType
  <2> QED BY <2>3, <2>4, <2>5 DEF TypeOK, innerVars, atomics, closerVars, history
<1>15. ASSUME NEW fault \in Faults, TerminateStore(fault) PROVE TypeOK'
  BY <1>15
  DEF TypeOK, TerminateStore, vars, innerVars, atomics, consumerVars,
      closerVars, history
<1>16. ASSUME TerminateCommit PROVE TypeOK'
  BY <1>16
  DEF TypeOK, TerminateCommit, vars, innerVars, atomics, consumerVars,
      closerVars, history
<1>17. ASSUME NEW d \in Closers, DrainStore(d) PROVE TypeOK'
  BY <1>17
  DEF TypeOK, DrainStore, vars, innerVars, atomics, consumerVars,
      closerVars, history, CloserStates, Idle
<1>18. ASSUME NEW d \in Closers, InterruptDrain(d) PROVE TypeOK'
  BY <1>18
  DEF TypeOK, InterruptDrain, vars, innerVars, atomics, consumerVars,
      closerVars, history
<1>19. ASSUME NEW d \in Closers, DrainBegin(d) PROVE TypeOK'
  BY <1>19
  DEF TypeOK, DrainBegin, vars, innerVars, atomics, consumerVars,
      closerVars, history, CloserStates, Idle
<1>20. ASSUME NEW d \in Closers, DrainCheck(d) PROVE TypeOK'
  BY <1>20
  DEF TypeOK, DrainCheck, vars, innerVars, atomics, consumerVars,
      closerVars, history, CloserStates, Idle
<1>21. ASSUME NEW d \in Closers, DrainConsult(d) PROVE TypeOK'
  <2>1. UNCHANGED <<innerVars, atomics, publishing, recorder, ending, consumerVars, history>>
    BY <1>21 DEF DrainConsult
  <2>2. closerPc' \in [Closers -> CloserStates] /\ closerStopped' \in [Closers -> BOOLEAN]
    <3>1. CASE closerStopped[d] \/ closerPc[d] = "commitClosed"
      BY <1>21, <3>1 DEF DrainConsult, DrainReturn, TypeOK, CloserStates
    <3>2. CASE ~(closerStopped[d] \/ closerPc[d] = "commitClosed")
      BY <1>21, <3>2 DEF DrainConsult, TypeOK, CloserStates
    <3> QED BY <3>1, <3>2
  <2> QED BY <2>1, <2>2 DEF TypeOK, innerVars, atomics, consumerVars, history
<1>22. ASSUME NEW d \in Closers, DrainFinish(d) PROVE TypeOK'
  BY <1>22
  DEF TypeOK, DrainFinish, vars, innerVars, atomics, consumerVars,
      closerVars, history, DrainReturn, CloserStates, Idle
<1>23. CASE UNCHANGED vars
  BY <1>23
  DEF TypeOK, vars, innerVars, atomics, consumerVars, closerVars, history
<1> QED
  BY <1>1, <1>2, <1>3, <1>4, <1>5, <1>6, <1>7, <1>8, <1>9, <1>10, <1>11,
      <1>12, <1>13, <1>14, <1>15, <1>16, <1>17, <1>18, <1>19, <1>20, <1>21,
      <1>22, <1>23 DEF Next, Consume, Drain

(* Every step keeps the count of the waiting threads. *)
LEMMA CountStep ==
    ASSUME StreamInv, [Next]_vars
    PROVE  CountInv'
<1> USE DEF StreamInv
<1>1. ASSUME NEW p \in Publications, PublishPrepare(p) PROVE CountInv'
  <2>1. Waiting' = Waiting /\ waiters' = waiters
    BY <1>1 DEF PublishPrepare, vars, innerVars, atomics, consumerVars,
        closerVars, history, Waiting
  <2> QED BY <2>1 DEF CountInv
<1>2. ASSUME PublishCommit PROVE CountInv'
  <2>1. Waiting' = Waiting /\ waiters' = waiters
    BY <1>2 DEF PublishCommit, vars, innerVars, atomics, consumerVars,
        closerVars, history, Waiting
  <2> QED BY <2>1 DEF CountInv
<1>3. ASSUME RecordAdmit PROVE CountInv'
  <2>1. Waiting' = Waiting /\ waiters' = waiters
    BY <1>3 DEF RecordAdmit, vars, innerVars, atomics, consumerVars,
        closerVars, history, Waiting
  <2> QED BY <2>1 DEF CountInv
<1>4. ASSUME RecordObserve PROVE CountInv'
  <2>1. Waiting' = Waiting /\ waiters' = waiters
    BY <1>4 DEF RecordObserve, vars, innerVars, atomics, consumerVars,
        closerVars, history, Waiting
  <2> QED BY <2>1 DEF CountInv
<1>5. ASSUME RecordAdd PROVE CountInv'
  <2>1. Waiting' = Waiting /\ waiters' = waiters
    BY <1>5 DEF RecordAdd, vars, innerVars, atomics, consumerVars,
        closerVars, history, Waiting
  <2> QED BY <2>1 DEF CountInv
<1>6. ASSUME NEW c \in Consumers, NEW request \in Requests, Call(c, request) PROVE CountInv'
  <2>1. Waiting' = Waiting /\ waiters' = waiters
    BY <1>6 DEF Call, vars, innerVars, atomics, consumerVars, closerVars,
        history, Waiting, TypeOK, Idle
  <2> QED BY <2>1 DEF CountInv
<1>7. ASSUME NEW c \in Consumers, Interrupt(c) PROVE CountInv'
  <2>1. Waiting' = Waiting /\ waiters' = waiters
    BY <1>7 DEF Interrupt, vars, innerVars, atomics, consumerVars,
        closerVars, history, Waiting
  <2> QED BY <2>1 DEF CountInv
<1>8. ASSUME NEW c \in Consumers, CheckEnded(c) PROVE CountInv'
  <2>1. Waiting' = Waiting /\ waiters' = waiters
    BY <1>8 DEF CheckEnded, vars, innerVars, atomics, consumerVars,
        closerVars, history, Return, Waiting, TypeOK, Idle
  <2> QED BY <2>1 DEF CountInv
<1>9. ASSUME NEW c \in Consumers, CheckForeign(c) PROVE CountInv'
  <2>1. Waiting' = Waiting /\ waiters' = waiters
    BY <1>9 DEF CheckForeign, vars, innerVars, atomics, consumerVars,
        closerVars, history, Return, Waiting, TypeOK, Idle
  <2> QED BY <2>1 DEF CountInv
<1>10. ASSUME NEW c \in Consumers, CheckPick(c) PROVE CountInv'
  <2>1. Waiting' = Waiting /\ waiters' = waiters
    BY <1>10 DEF CheckPick, vars, innerVars, atomics, consumerVars,
        closerVars, history, Waiting, TypeOK, Idle
  <2> QED BY <2>1 DEF CountInv
<1>11. ASSUME NEW c \in Consumers, CheckWait(c) PROVE CountInv'
  <2>1. Waiting' = Waiting \cup {c} /\ c \notin Waiting
    BY <1>11 DEF CheckWait, Waiting, TypeOK
  <2>2. IsFiniteSet(Waiting) /\ waiters' = waiters + 1
    BY <1>11, FS_Subset, StreamAssumption DEF CheckWait, Waiting
  <2> QED BY <2>1, <2>2, FS_AddElement DEF CountInv
<1>12. ASSUME NEW c \in Consumers, Wake(c) PROVE CountInv'
  <2>1. Waiting' = Waiting \ {c} /\ c \in Waiting
    BY <1>12 DEF Wake, Waiting, TypeOK
  <2>2. IsFiniteSet(Waiting) /\ waiters' = waiters - 1
    BY <1>12, FS_Subset, StreamAssumption DEF Wake, Waiting
  <2> QED BY <2>1, <2>2, FS_RemoveElement DEF CountInv
<1>13. ASSUME NEW c \in Consumers, Consult(c) PROVE CountInv'
  <2>1. Waiting' = Waiting /\ waiters' = waiters
    BY <1>13 DEF Consult, vars, innerVars, atomics, consumerVars,
        closerVars, history, Return, Waiting, TypeOK, Idle
  <2> QED BY <2>1 DEF CountInv
<1>14. ASSUME NEW c \in Consumers, CommitFrame(c) PROVE CountInv'
  <2>1. Waiting' = Waiting /\ waiters' = waiters
    BY <1>14 DEF CommitFrame, vars, innerVars, atomics, consumerVars,
        closerVars, history, Return, Waiting, TypeOK, Idle
  <2> QED BY <2>1 DEF CountInv
<1>15. ASSUME NEW fault \in Faults, TerminateStore(fault) PROVE CountInv'
  <2>1. Waiting' = Waiting /\ waiters' = waiters
    BY <1>15 DEF TerminateStore, vars, innerVars, atomics, consumerVars,
        closerVars, history, Waiting
  <2> QED BY <2>1 DEF CountInv
<1>16. ASSUME TerminateCommit PROVE CountInv'
  <2>1. Waiting' = Waiting /\ waiters' = waiters
    BY <1>16 DEF TerminateCommit, vars, innerVars, atomics, consumerVars,
        closerVars, history, Waiting
  <2> QED BY <2>1 DEF CountInv
<1>17. ASSUME NEW d \in Closers, DrainStore(d) PROVE CountInv'
  <2>1. Waiting' = Waiting /\ waiters' = waiters
    BY <1>17 DEF DrainStore, vars, innerVars, atomics, consumerVars,
        closerVars, history, Waiting
  <2> QED BY <2>1 DEF CountInv
<1>18. ASSUME NEW d \in Closers, InterruptDrain(d) PROVE CountInv'
  <2>1. Waiting' = Waiting /\ waiters' = waiters
    BY <1>18 DEF InterruptDrain, vars, innerVars, atomics, consumerVars,
        closerVars, history, Waiting
  <2> QED BY <2>1 DEF CountInv
<1>19. ASSUME NEW d \in Closers, DrainBegin(d) PROVE CountInv'
  <2>1. Waiting' = Waiting /\ waiters' = waiters
    BY <1>19 DEF DrainBegin, vars, innerVars, atomics, consumerVars,
        closerVars, history, Waiting
  <2> QED BY <2>1 DEF CountInv
<1>20. ASSUME NEW d \in Closers, DrainCheck(d) PROVE CountInv'
  <2>1. Waiting' = Waiting /\ waiters' = waiters
    BY <1>20 DEF DrainCheck, vars, innerVars, atomics, consumerVars,
        closerVars, history, Waiting
  <2> QED BY <2>1 DEF CountInv
<1>21. ASSUME NEW d \in Closers, DrainConsult(d) PROVE CountInv'
  <2>1. Waiting' = Waiting /\ waiters' = waiters
    BY <1>21 DEF DrainConsult, vars, innerVars, atomics, consumerVars,
        closerVars, history, DrainReturn, Waiting
  <2> QED BY <2>1 DEF CountInv
<1>22. ASSUME NEW d \in Closers, DrainFinish(d) PROVE CountInv'
  <2>1. Waiting' = Waiting /\ waiters' = waiters
    BY <1>22 DEF DrainFinish, vars, innerVars, atomics, consumerVars,
        closerVars, history, DrainReturn, Waiting
  <2> QED BY <2>1 DEF CountInv
<1>23. CASE UNCHANGED vars
  BY <1>23
  DEF CountInv, Waiting, TypeOK, vars, innerVars, atomics, consumerVars,
      closerVars, history
<1> QED
  BY <1>1, <1>2, <1>3, <1>4, <1>5, <1>6, <1>7, <1>8, <1>9, <1>10, <1>11,
      <1>12, <1>13, <1>14, <1>15, <1>16, <1>17, <1>18, <1>19, <1>20, <1>21,
      <1>22, <1>23 DEF Next, Consume, Drain

(* A publication in progress keeps the stream open and its debt covered. *)
LEMMA PublishingStep ==
    ASSUME StreamInv, [Next]_vars
    PROVE  PublishingInv'
<1> USE DEF StreamInv
<1>1. ASSUME NEW p \in Publications, PublishPrepare(p) PROVE PublishingInv'
  BY <1>1, PreparedType, StreamAssumption
  DEF PublishingInv, TypeOK, MutexFree, Ended, PublishPrepare, vars,
      innerVars, atomics, consumerVars, closerVars, history, Accepts
<1>2. ASSUME PublishCommit PROVE PublishingInv'
  BY <1>2
  DEF PublishingInv, TypeOK, MutexFree, Ended, PublishCommit, vars,
      innerVars, atomics, consumerVars, closerVars, history
<1>3. ASSUME RecordAdmit PROVE PublishingInv'
  BY <1>3
  DEF PublishingInv, TypeOK, MutexFree, Ended, RecordAdmit, vars,
      innerVars, atomics, consumerVars, closerVars, history
<1>4. ASSUME RecordObserve PROVE PublishingInv'
  BY <1>4
  DEF PublishingInv, TypeOK, MutexFree, Ended, RecordObserve, vars,
      innerVars, atomics, consumerVars, closerVars, history
<1>5. ASSUME RecordAdd PROVE PublishingInv'
  BY <1>5, StreamAssumption
  DEF PublishingInv, TypeOK, MutexFree, Ended, RecordAdd, vars, innerVars,
      atomics, consumerVars, closerVars, history, PreparedPublications
<1>6. ASSUME NEW c \in Consumers, NEW request \in Requests, Call(c, request) PROVE PublishingInv'
  BY <1>6
  DEF PublishingInv, TypeOK, MutexFree, Ended, Call, vars, innerVars,
      atomics, consumerVars, closerVars, history
<1>7. ASSUME NEW c \in Consumers, Interrupt(c) PROVE PublishingInv'
  BY <1>7
  DEF PublishingInv, TypeOK, MutexFree, Ended, Interrupt, vars, innerVars,
      atomics, consumerVars, closerVars, history
<1>8. ASSUME NEW c \in Consumers, CheckEnded(c) PROVE PublishingInv'
  BY <1>8
  DEF PublishingInv, TypeOK, MutexFree, Ended, CheckEnded, vars, innerVars,
      atomics, consumerVars, closerVars, history, Return
<1>9. ASSUME NEW c \in Consumers, CheckForeign(c) PROVE PublishingInv'
  BY <1>9
  DEF PublishingInv, TypeOK, MutexFree, Ended, CheckForeign, vars,
      innerVars, atomics, consumerVars, closerVars, history, Return
<1>10. ASSUME NEW c \in Consumers, CheckPick(c) PROVE PublishingInv'
  BY <1>10
  DEF PublishingInv, TypeOK, MutexFree, Ended, CheckPick, vars, innerVars,
      atomics, consumerVars, closerVars, history
<1>11. ASSUME NEW c \in Consumers, CheckWait(c) PROVE PublishingInv'
  BY <1>11
  DEF PublishingInv, TypeOK, MutexFree, Ended, CheckWait, vars, innerVars,
      atomics, consumerVars, closerVars, history
<1>12. ASSUME NEW c \in Consumers, Wake(c) PROVE PublishingInv'
  BY <1>12
  DEF PublishingInv, TypeOK, MutexFree, Ended, Wake, vars, innerVars,
      atomics, consumerVars, closerVars, history
<1>13. ASSUME NEW c \in Consumers, Consult(c) PROVE PublishingInv'
  BY <1>13
  DEF PublishingInv, TypeOK, MutexFree, Ended, Consult, vars, innerVars,
      atomics, consumerVars, closerVars, history, Return
<1>14. ASSUME NEW c \in Consumers, CommitFrame(c) PROVE PublishingInv'
  BY <1>14
  DEF PublishingInv, TypeOK, MutexFree, Ended, CommitFrame, vars,
      innerVars, atomics, consumerVars, closerVars, history, Return
<1>15. ASSUME NEW fault \in Faults, TerminateStore(fault) PROVE PublishingInv'
  BY <1>15
  DEF PublishingInv, TypeOK, MutexFree, Ended, TerminateStore, vars,
      innerVars, atomics, consumerVars, closerVars, history
<1>16. ASSUME TerminateCommit PROVE PublishingInv'
  BY <1>16
  DEF PublishingInv, TypeOK, MutexFree, Ended, TerminateCommit, vars,
      innerVars, atomics, consumerVars, closerVars, history
<1>17. ASSUME NEW d \in Closers, DrainStore(d) PROVE PublishingInv'
  BY <1>17
  DEF PublishingInv, TypeOK, MutexFree, Ended, DrainStore, vars, innerVars,
      atomics, consumerVars, closerVars, history
<1>18. ASSUME NEW d \in Closers, InterruptDrain(d) PROVE PublishingInv'
  BY <1>18
  DEF PublishingInv, TypeOK, MutexFree, Ended, InterruptDrain, vars,
      innerVars, atomics, consumerVars, closerVars, history
<1>19. ASSUME NEW d \in Closers, DrainBegin(d) PROVE PublishingInv'
  BY <1>19
  DEF PublishingInv, TypeOK, MutexFree, Ended, DrainBegin, vars, innerVars,
      atomics, consumerVars, closerVars, history
<1>20. ASSUME NEW d \in Closers, DrainCheck(d) PROVE PublishingInv'
  BY <1>20
  DEF PublishingInv, TypeOK, MutexFree, Ended, DrainCheck, vars, innerVars,
      atomics, consumerVars, closerVars, history
<1>21. ASSUME NEW d \in Closers, DrainConsult(d) PROVE PublishingInv'
  BY <1>21
  DEF PublishingInv, TypeOK, MutexFree, Ended, DrainConsult, vars,
      innerVars, atomics, consumerVars, closerVars, history, DrainReturn
<1>22. ASSUME NEW d \in Closers, DrainFinish(d) PROVE PublishingInv'
  BY <1>22
  DEF PublishingInv, TypeOK, MutexFree, Ended, DrainFinish, vars,
      innerVars, atomics, consumerVars, closerVars, history, DrainReturn
<1>23. CASE UNCHANGED vars
  BY <1>23
  DEF PublishingInv, TypeOK, MutexFree, Ended, vars, innerVars, atomics,
      consumerVars, closerVars, history
<1> QED
  BY <1>1, <1>2, <1>3, <1>4, <1>5, <1>6, <1>7, <1>8, <1>9, <1>10, <1>11,
      <1>12, <1>13, <1>14, <1>15, <1>16, <1>17, <1>18, <1>19, <1>20, <1>21,
      <1>22, <1>23 DEF Next, Consume, Drain

(* No waiter appears and none is left behind once close began. *)
LEMMA CloseStep ==
    ASSUME StreamInv, [Next]_vars
    PROVE  CloseInv'
<1> USE DEF StreamInv
<1>1. ASSUME NEW p \in Publications, PublishPrepare(p) PROVE CloseInv'
  BY <1>1
  DEF CloseInv, TypeOK, MutexFree, Ended, PublishPrepare, vars, innerVars,
      atomics, consumerVars, closerVars, history
<1>2. ASSUME PublishCommit PROVE CloseInv'
  BY <1>2
  DEF CloseInv, TypeOK, MutexFree, Ended, PublishCommit, vars, innerVars,
      atomics, consumerVars, closerVars, history, PublishingInv
<1>3. ASSUME RecordAdmit PROVE CloseInv'
  BY <1>3
  DEF CloseInv, TypeOK, MutexFree, Ended, RecordAdmit, vars, innerVars,
      atomics, consumerVars, closerVars, history
<1>4. ASSUME RecordObserve PROVE CloseInv'
  BY <1>4
  DEF CloseInv, TypeOK, MutexFree, Ended, RecordObserve, vars, innerVars,
      atomics, consumerVars, closerVars, history
<1>5. ASSUME RecordAdd PROVE CloseInv'
  BY <1>5
  DEF CloseInv, TypeOK, MutexFree, Ended, RecordAdd, vars, innerVars,
      atomics, consumerVars, closerVars, history
<1>6. ASSUME NEW c \in Consumers, NEW request \in Requests, Call(c, request) PROVE CloseInv'
  BY <1>6
  DEF CloseInv, TypeOK, MutexFree, Ended, Call, vars, innerVars, atomics,
      consumerVars, closerVars, history
<1>7. ASSUME NEW c \in Consumers, Interrupt(c) PROVE CloseInv'
  BY <1>7
  DEF CloseInv, TypeOK, MutexFree, Ended, Interrupt, vars, innerVars,
      atomics, consumerVars, closerVars, history
<1>8. ASSUME NEW c \in Consumers, CheckEnded(c) PROVE CloseInv'
  BY <1>8
  DEF CloseInv, TypeOK, MutexFree, Ended, CheckEnded, vars, innerVars,
      atomics, consumerVars, closerVars, history, Return
<1>9. ASSUME NEW c \in Consumers, CheckForeign(c) PROVE CloseInv'
  BY <1>9
  DEF CloseInv, TypeOK, MutexFree, Ended, CheckForeign, vars, innerVars,
      atomics, consumerVars, closerVars, history, Return
<1>10. ASSUME NEW c \in Consumers, CheckPick(c) PROVE CloseInv'
  BY <1>10
  DEF CloseInv, TypeOK, MutexFree, Ended, CheckPick, vars, innerVars,
      atomics, consumerVars, closerVars, history
<1>11. ASSUME NEW c \in Consumers, CheckWait(c) PROVE CloseInv'
  BY <1>11
  DEF CloseInv, TypeOK, MutexFree, Ended, CheckWait, vars, innerVars,
      atomics, consumerVars, closerVars, history, Idle
<1>12. ASSUME NEW c \in Consumers, Wake(c) PROVE CloseInv'
  <2>1. waiters # 0
    BY <1>12, FS_Subset, FS_EmptySet, StreamAssumption
    DEF Wake, CountInv, Waiting
  <2> QED
    BY <1>12, <2>1 DEF CloseInv, TypeOK, MutexFree, Ended, Wake, vars,
        innerVars, atomics, consumerVars, closerVars, history
<1>13. ASSUME NEW c \in Consumers, Consult(c) PROVE CloseInv'
  BY <1>13
  DEF CloseInv, TypeOK, MutexFree, Ended, Consult, vars, innerVars,
      atomics, consumerVars, closerVars, history, Return
<1>14. ASSUME NEW c \in Consumers, CommitFrame(c) PROVE CloseInv'
  BY <1>14
  DEF CloseInv, TypeOK, MutexFree, Ended, CommitFrame, vars, innerVars,
      atomics, consumerVars, closerVars, history, Return
<1>15. ASSUME NEW fault \in Faults, TerminateStore(fault) PROVE CloseInv'
  BY <1>15
  DEF CloseInv, TypeOK, MutexFree, Ended, TerminateStore, vars, innerVars,
      atomics, consumerVars, closerVars, history
<1>16. ASSUME TerminateCommit PROVE CloseInv'
  BY <1>16
  DEF CloseInv, TypeOK, MutexFree, Ended, TerminateCommit, vars, innerVars,
      atomics, consumerVars, closerVars, history
<1>17. ASSUME NEW d \in Closers, DrainStore(d) PROVE CloseInv'
  BY <1>17
  DEF CloseInv, TypeOK, MutexFree, Ended, DrainStore, vars, innerVars,
      atomics, consumerVars, closerVars, history, Idle
<1>18. ASSUME NEW d \in Closers, InterruptDrain(d) PROVE CloseInv'
  BY <1>18
  DEF CloseInv, TypeOK, MutexFree, Ended, InterruptDrain, vars, innerVars,
      atomics, consumerVars, closerVars, history
<1>19. ASSUME NEW d \in Closers, DrainBegin(d) PROVE CloseInv'
  BY <1>19
  DEF CloseInv, TypeOK, MutexFree, Ended, DrainBegin, vars, innerVars,
      atomics, consumerVars, closerVars, history, Idle
<1>20. ASSUME NEW d \in Closers, DrainCheck(d) PROVE CloseInv'
  BY <1>20
  DEF CloseInv, TypeOK, MutexFree, Ended, DrainCheck, vars, innerVars,
      atomics, consumerVars, closerVars, history, Idle
<1>21. ASSUME NEW d \in Closers, DrainConsult(d) PROVE CloseInv'
  BY <1>21
  DEF CloseInv, TypeOK, MutexFree, Ended, DrainConsult, vars, innerVars,
      atomics, consumerVars, closerVars, history, DrainReturn, Idle
<1>22. ASSUME NEW d \in Closers, DrainFinish(d) PROVE CloseInv'
  BY <1>22
  DEF CloseInv, TypeOK, MutexFree, Ended, DrainFinish, vars, innerVars,
      atomics, consumerVars, closerVars, history, DrainReturn, Idle
<1>23. CASE UNCHANGED vars
  BY <1>23
  DEF CloseInv, TypeOK, MutexFree, Ended, vars, innerVars, atomics,
      consumerVars, closerVars, history
<1> QED
  BY <1>1, <1>2, <1>3, <1>4, <1>5, <1>6, <1>7, <1>8, <1>9, <1>10, <1>11,
      <1>12, <1>13, <1>14, <1>15, <1>16, <1>17, <1>18, <1>19, <1>20, <1>21,
      <1>22, <1>23 DEF Next, Consume, Drain

(* Every step keeps the log ordered and the cursor at its end. *)
LEMMA LogStep ==
    ASSUME StreamInv, [Next]_vars
    PROVE  LogInv'
<1> USE DEF StreamInv
<1>1. ASSUME NEW p \in Publications, PublishPrepare(p) PROVE LogInv'
  <2>1. UNCHANGED <<log, cursor, geometry, latest, lifecycle>>
    BY <1>1 DEF PublishPrepare, innerVars, history
  <2>2. publishing' = Prepared(p) /\ Accepts(p)
    BY <1>1 DEF PublishPrepare
  <2>3. Prepared(p).frame \in Frames
    BY <2>2, PreparedType DEF PreparedPublications
  <2>4. ASSUME NEW i \in 1..Len(log) PROVE Follows(log[i], Prepared(p).frame)
    <3>1. log # <<>> /\ lifecycle # "Closed" /\ log \in Seq(Frames)
      BY <2>2, <2>4 DEF Accepts, Ended, TypeOK
    <3>2. latest = log[Len(log)] /\ latest \in Frames /\ log[i] \in Frames
      BY <3>1 DEF LogInv
    <3>3. Follows(latest, Prepared(p).frame)
      BY <2>2, <3>1, <3>2, PreparedFollows, StreamAssumption DEF LogInv
    <3>4. CASE i = Len(log)
      BY <3>2, <3>3, <3>4
    <3>5. CASE i < Len(log)
      <4>1. Follows(log[i], latest)
        BY <3>1, <3>2, <3>5 DEF LogInv, LogOrdered
      <4> QED BY <4>1, <3>2, <3>3, <2>3, FollowsTransitive
    <3> QED BY <3>1, <3>4, <3>5
  <2>5. Prepared(p).cursor = [epoch |-> Prepared(p).frame.epoch,
                              next |-> Prepared(p).frame.sequence + 1]
    BY <2>2, PreparedType
  <2> QED BY <2>1, <2>2, <2>4, <2>5 DEF LogInv, LogOrdered
<1>2. ASSUME PublishCommit PROVE LogInv'
  <2>1. /\ log \in Seq(Frames) /\ publishing.frame \in Frames
        /\ log' = Append(log, publishing.frame)
        /\ latest' = publishing.frame /\ cursor' = publishing.cursor
        /\ geometry' = publishing.frame.geometry /\ publishing' = NoPublication
        /\ \A i \in 1..Len(log) : Follows(log[i], publishing.frame)
    BY <1>2 DEF PublishCommit, TypeOK, LogInv, MutexFree, PreparedPublications
  <2>2. /\ Len(log') = Len(log) + 1 /\ Len(log) \in Nat
        /\ log'[Len(log')] = publishing.frame
        /\ \A i \in 1..Len(log) : log'[i] = log[i]
        /\ log' # <<>>
    BY <2>1
  <2>3. LogOrdered'
    <3>1. SUFFICES ASSUME NEW i \in 1..Len(log'), NEW j \in 1..Len(log'), i < j
                   PROVE  Follows(log'[i], log'[j])
      BY DEF LogOrdered
    <3>2. CASE j = Len(log')
      BY <2>1, <2>2, <3>1, <3>2
    <3>3. CASE j # Len(log')
      <4>1. i \in 1..Len(log) /\ j \in 1..Len(log)
        BY <2>2, <3>1, <3>3
      <4> QED BY <2>2, <3>1, <4>1 DEF LogInv, LogOrdered
    <3> QED BY <3>2, <3>3
  <2>4. publishing.cursor = [epoch |-> publishing.frame.epoch,
                             next |-> publishing.frame.sequence + 1]
    BY <1>2 DEF PublishCommit, LogInv
  <2> QED BY <2>1, <2>2, <2>3, <2>4 DEF LogInv, MutexFree
<1>3. ASSUME RecordAdmit PROVE LogInv'
  <2>1. LogOrdered'
    BY <1>3 DEF LogInv, LogOrdered, RecordAdmit, vars, innerVars,
        atomics, consumerVars, closerVars, history
  <2> QED
    BY <1>3, <2>1 DEF LogInv, MutexFree, RecordAdmit, vars, innerVars,
        atomics, consumerVars, closerVars, history
<1>4. ASSUME RecordObserve PROVE LogInv'
  <2>1. LogOrdered'
    BY <1>4 DEF LogInv, LogOrdered, RecordObserve, vars, innerVars,
        atomics, consumerVars, closerVars, history
  <2> QED
    BY <1>4, <2>1 DEF LogInv, MutexFree, RecordObserve, vars, innerVars,
        atomics, consumerVars, closerVars, history
<1>5. ASSUME RecordAdd PROVE LogInv'
  <2>1. LogOrdered'
    BY <1>5 DEF LogInv, LogOrdered, RecordAdd, vars, innerVars, atomics,
        consumerVars, closerVars, history
  <2> QED
    BY <1>5, <2>1 DEF LogInv, MutexFree, RecordAdd, vars, innerVars,
        atomics, consumerVars, closerVars, history
<1>6. ASSUME NEW c \in Consumers, NEW request \in Requests, Call(c, request) PROVE LogInv'
  <2>1. LogOrdered'
    BY <1>6 DEF LogInv, LogOrdered, Call, vars, innerVars, atomics,
        consumerVars, closerVars, history
  <2> QED
    BY <1>6, <2>1 DEF LogInv, MutexFree, Call, vars, innerVars, atomics,
        consumerVars, closerVars, history
<1>7. ASSUME NEW c \in Consumers, Interrupt(c) PROVE LogInv'
  <2>1. LogOrdered'
    BY <1>7 DEF LogInv, LogOrdered, Interrupt, vars, innerVars, atomics,
        consumerVars, closerVars, history
  <2> QED
    BY <1>7, <2>1 DEF LogInv, MutexFree, Interrupt, vars, innerVars,
        atomics, consumerVars, closerVars, history
<1>8. ASSUME NEW c \in Consumers, CheckEnded(c) PROVE LogInv'
  <2>1. LogOrdered'
    BY <1>8 DEF LogInv, LogOrdered, CheckEnded, vars, innerVars, atomics,
        consumerVars, closerVars, history, Return
  <2> QED
    BY <1>8, <2>1 DEF LogInv, MutexFree, CheckEnded, vars, innerVars,
        atomics, consumerVars, closerVars, history, Return
<1>9. ASSUME NEW c \in Consumers, CheckForeign(c) PROVE LogInv'
  <2>1. LogOrdered'
    BY <1>9 DEF LogInv, LogOrdered, CheckForeign, vars, innerVars,
        atomics, consumerVars, closerVars, history, Return
  <2> QED
    BY <1>9, <2>1 DEF LogInv, MutexFree, CheckForeign, vars, innerVars,
        atomics, consumerVars, closerVars, history, Return
<1>10. ASSUME NEW c \in Consumers, CheckPick(c) PROVE LogInv'
  <2>1. LogOrdered'
    BY <1>10 DEF LogInv, LogOrdered, CheckPick, vars, innerVars, atomics,
        consumerVars, closerVars, history
  <2> QED
    BY <1>10, <2>1 DEF LogInv, MutexFree, CheckPick, vars, innerVars,
        atomics, consumerVars, closerVars, history
<1>11. ASSUME NEW c \in Consumers, CheckWait(c) PROVE LogInv'
  <2>1. LogOrdered'
    BY <1>11 DEF LogInv, LogOrdered, CheckWait, vars, innerVars, atomics,
        consumerVars, closerVars, history
  <2> QED
    BY <1>11, <2>1 DEF LogInv, MutexFree, CheckWait, vars, innerVars,
        atomics, consumerVars, closerVars, history
<1>12. ASSUME NEW c \in Consumers, Wake(c) PROVE LogInv'
  <2>1. LogOrdered'
    BY <1>12 DEF LogInv, LogOrdered, Wake, vars, innerVars, atomics,
        consumerVars, closerVars, history
  <2> QED
    BY <1>12, <2>1 DEF LogInv, MutexFree, Wake, vars, innerVars, atomics,
        consumerVars, closerVars, history
<1>13. ASSUME NEW c \in Consumers, Consult(c) PROVE LogInv'
  <2>1. LogOrdered'
    BY <1>13 DEF LogInv, LogOrdered, Consult, vars, innerVars, atomics,
        consumerVars, closerVars, history, Return
  <2> QED
    BY <1>13, <2>1 DEF LogInv, MutexFree, Consult, vars, innerVars,
        atomics, consumerVars, closerVars, history, Return
<1>14. ASSUME NEW c \in Consumers, CommitFrame(c) PROVE LogInv'
  <2>1. LogOrdered'
    BY <1>14 DEF LogInv, LogOrdered, CommitFrame, vars, innerVars,
        atomics, consumerVars, closerVars, history, Return
  <2> QED
    BY <1>14, <2>1 DEF LogInv, MutexFree, CommitFrame, vars, innerVars,
        atomics, consumerVars, closerVars, history, Return
<1>15. ASSUME NEW fault \in Faults, TerminateStore(fault) PROVE LogInv'
  <2>1. LogOrdered'
    BY <1>15 DEF LogInv, LogOrdered, TerminateStore, vars, innerVars,
        atomics, consumerVars, closerVars, history
  <2> QED
    BY <1>15, <2>1 DEF LogInv, MutexFree, TerminateStore, vars,
        innerVars, atomics, consumerVars, closerVars, history
<1>16. ASSUME TerminateCommit PROVE LogInv'
  <2>1. LogOrdered'
    BY <1>16 DEF LogInv, LogOrdered, TerminateCommit, vars, innerVars,
        atomics, consumerVars, closerVars, history
  <2> QED
    BY <1>16, <2>1 DEF LogInv, MutexFree, TerminateCommit, vars,
        innerVars, atomics, consumerVars, closerVars, history
<1>17. ASSUME NEW d \in Closers, DrainStore(d) PROVE LogInv'
  <2>1. LogOrdered'
    BY <1>17 DEF LogInv, LogOrdered, DrainStore, vars, innerVars,
        atomics, consumerVars, closerVars, history
  <2> QED
    BY <1>17, <2>1 DEF LogInv, MutexFree, DrainStore, vars, innerVars,
        atomics, consumerVars, closerVars, history
<1>18. ASSUME NEW d \in Closers, InterruptDrain(d) PROVE LogInv'
  <2>1. LogOrdered'
    BY <1>18 DEF LogInv, LogOrdered, InterruptDrain, vars, innerVars,
        atomics, consumerVars, closerVars, history
  <2> QED
    BY <1>18, <2>1 DEF LogInv, MutexFree, InterruptDrain, vars,
        innerVars, atomics, consumerVars, closerVars, history
<1>19. ASSUME NEW d \in Closers, DrainBegin(d) PROVE LogInv'
  <2>1. LogOrdered'
    BY <1>19 DEF LogInv, LogOrdered, DrainBegin, vars, innerVars,
        atomics, consumerVars, closerVars, history
  <2> QED
    BY <1>19, <2>1 DEF LogInv, MutexFree, DrainBegin, vars, innerVars,
        atomics, consumerVars, closerVars, history
<1>20. ASSUME NEW d \in Closers, DrainCheck(d) PROVE LogInv'
  <2>1. LogOrdered'
    BY <1>20 DEF LogInv, LogOrdered, DrainCheck, vars, innerVars,
        atomics, consumerVars, closerVars, history
  <2> QED
    BY <1>20, <2>1 DEF LogInv, MutexFree, DrainCheck, vars, innerVars,
        atomics, consumerVars, closerVars, history
<1>21. ASSUME NEW d \in Closers, DrainConsult(d) PROVE LogInv'
  <2>1. LogOrdered'
    BY <1>21 DEF LogInv, LogOrdered, DrainConsult, vars, innerVars,
        atomics, consumerVars, closerVars, history, DrainReturn
  <2> QED
    BY <1>21, <2>1 DEF LogInv, MutexFree, DrainConsult, vars, innerVars,
        atomics, consumerVars, closerVars, history, DrainReturn
<1>22. ASSUME NEW d \in Closers, DrainFinish(d) PROVE LogInv'
  <2>1. LogOrdered'
    BY <1>22 DEF LogInv, LogOrdered, DrainFinish, vars, innerVars,
        atomics, consumerVars, closerVars, history, DrainReturn
  <2> QED
    BY <1>22, <2>1 DEF LogInv, MutexFree, DrainFinish, vars, innerVars,
        atomics, consumerVars, closerVars, history, DrainReturn
<1>23. CASE UNCHANGED vars
  BY <1>23
  DEF LogInv, LogOrdered, MutexFree, vars, innerVars, atomics,
      consumerVars, closerVars, history
<1> QED
  BY <1>1, <1>2, <1>3, <1>4, <1>5, <1>6, <1>7, <1>8, <1>9, <1>10, <1>11,
      <1>12, <1>13, <1>14, <1>15, <1>16, <1>17, <1>18, <1>19, <1>20, <1>21,
      <1>22, <1>23 DEF Next, Consume, Drain

(* Every step keeps what callers were told about the end. *)
LEMMA CauseStep ==
    ASSUME StreamInv, [Next]_vars
    PROVE  OneCause'
<1> USE DEF StreamInv
<1>1. ASSUME NEW p \in Publications, PublishPrepare(p) PROVE OneCause'
  BY <1>1
  DEF OneCause, TypeOK, PublishPrepare, vars, innerVars, atomics,
      consumerVars, closerVars, history
<1>2. ASSUME PublishCommit PROVE OneCause'
  BY <1>2
  DEF OneCause, TypeOK, PublishCommit, vars, innerVars, atomics,
      consumerVars, closerVars, history
<1>3. ASSUME RecordAdmit PROVE OneCause'
  BY <1>3
  DEF OneCause, TypeOK, RecordAdmit, vars, innerVars, atomics,
      consumerVars, closerVars, history
<1>4. ASSUME RecordObserve PROVE OneCause'
  BY <1>4
  DEF OneCause, TypeOK, RecordObserve, vars, innerVars, atomics,
      consumerVars, closerVars, history
<1>5. ASSUME RecordAdd PROVE OneCause'
  BY <1>5
  DEF OneCause, TypeOK, RecordAdd, vars, innerVars, atomics, consumerVars,
      closerVars, history
<1>6. ASSUME NEW c \in Consumers, NEW request \in Requests, Call(c, request) PROVE OneCause'
  BY <1>6, StreamAssumption
  DEF OneCause, TypeOK, Call, vars, innerVars, atomics, consumerVars,
      closerVars, history
<1>7. ASSUME NEW c \in Consumers, Interrupt(c) PROVE OneCause'
  BY <1>7
  DEF OneCause, TypeOK, Interrupt, vars, innerVars, atomics, consumerVars,
      closerVars, history
<1>8. ASSUME NEW c \in Consumers, CheckEnded(c) PROVE OneCause'
  BY <1>8, StreamAssumption
  DEF OneCause, TypeOK, CheckEnded, vars, innerVars, atomics, consumerVars,
      closerVars, history, Return, EndOutcome, Ended, CloseInv
<1>9. ASSUME NEW c \in Consumers, CheckForeign(c) PROVE OneCause'
  BY <1>9, StreamAssumption
  DEF OneCause, TypeOK, CheckForeign, vars, innerVars, atomics,
      consumerVars, closerVars, history, Return, EndOutcome, Ended,
      CloseInv
<1>10. ASSUME NEW c \in Consumers, CheckPick(c) PROVE OneCause'
  BY <1>10
  DEF OneCause, TypeOK, CheckPick, vars, innerVars, atomics, consumerVars,
      closerVars, history
<1>11. ASSUME NEW c \in Consumers, CheckWait(c) PROVE OneCause'
  BY <1>11
  DEF OneCause, TypeOK, CheckWait, vars, innerVars, atomics, consumerVars,
      closerVars, history
<1>12. ASSUME NEW c \in Consumers, Wake(c) PROVE OneCause'
  BY <1>12
  DEF OneCause, TypeOK, Wake, vars, innerVars, atomics, consumerVars,
      closerVars, history
<1>13. ASSUME NEW c \in Consumers, Consult(c) PROVE OneCause'
  BY <1>13, StreamAssumption
  DEF OneCause, TypeOK, Consult, vars, innerVars, atomics, consumerVars,
      closerVars, history, Return, EndOutcome, Ended, CloseInv
<1>14. ASSUME NEW c \in Consumers, CommitFrame(c) PROVE OneCause'
  BY <1>14, StreamAssumption
  DEF OneCause, TypeOK, CommitFrame, vars, innerVars, atomics,
      consumerVars, closerVars, history, Return, EndOutcome, Ended,
      CloseInv
<1>15. ASSUME NEW fault \in Faults, TerminateStore(fault) PROVE OneCause'
  BY <1>15
  DEF OneCause, TypeOK, TerminateStore, vars, innerVars, atomics,
      consumerVars, closerVars, history
<1>16. ASSUME TerminateCommit PROVE OneCause'
  BY <1>16, StreamAssumption
  DEF OneCause, TypeOK, TerminateCommit, vars, innerVars, atomics,
      consumerVars, closerVars, history, CloseInv
<1>17. ASSUME NEW d \in Closers, DrainStore(d) PROVE OneCause'
  BY <1>17
  DEF OneCause, TypeOK, DrainStore, vars, innerVars, atomics, consumerVars,
      closerVars, history
<1>18. ASSUME NEW d \in Closers, InterruptDrain(d) PROVE OneCause'
  BY <1>18
  DEF OneCause, TypeOK, InterruptDrain, vars, innerVars, atomics,
      consumerVars, closerVars, history
<1>19. ASSUME NEW d \in Closers, DrainBegin(d) PROVE OneCause'
  BY <1>19
  DEF OneCause, TypeOK, DrainBegin, vars, innerVars, atomics, consumerVars,
      closerVars, history
<1>20. ASSUME NEW d \in Closers, DrainCheck(d) PROVE OneCause'
  BY <1>20
  DEF OneCause, TypeOK, DrainCheck, vars, innerVars, atomics, consumerVars,
      closerVars, history
<1>21. ASSUME NEW d \in Closers, DrainConsult(d) PROVE OneCause'
  BY <1>21
  DEF OneCause, TypeOK, DrainConsult, vars, innerVars, atomics,
      consumerVars, closerVars, history, DrainReturn
<1>22. ASSUME NEW d \in Closers, DrainFinish(d) PROVE OneCause'
  BY <1>22
  DEF OneCause, TypeOK, DrainFinish, vars, innerVars, atomics,
      consumerVars, closerVars, history, DrainReturn, CloseInv
<1>23. CASE UNCHANGED vars
  BY <1>23
  DEF OneCause, TypeOK, vars, innerVars, atomics, consumerVars, closerVars,
      history
<1> QED
  BY <1>1, <1>2, <1>3, <1>4, <1>5, <1>6, <1>7, <1>8, <1>9, <1>10, <1>11,
      <1>12, <1>13, <1>14, <1>15, <1>16, <1>17, <1>18, <1>19, <1>20, <1>21,
      <1>22, <1>23 DEF Next, Consume, Drain

-----------------------------------------------------------------------------
LEMMA InitInv ==
    ASSUME Init
    PROVE  StreamInv
<1>1. TypeOK
  <2>1. /\ cursor \in Cursors
        /\ geometry \in Geometries
        /\ pendingDrops \in 0..MaxDrops
        /\ waiters \in Nat /\ recorded \in Nat
    BY IdentityAssumption, StreamAssumption
    DEF Init, FirstCursor, Cursors, Epochs, Sequences, Geometries
  <2>2. log \in Seq(Frames)
    BY DEF Init
  <2>3. /\ pc \in [Consumers -> ConsumerStates] /\ want \in [Consumers -> Requests]
        /\ out \in [Consumers -> Outcomes]
        /\ picked \in [Consumers -> Frames \cup {NoFrame}]
        /\ held \in [Consumers -> Frames \cup {NoFrame}]
        /\ closerPc \in [Closers -> CloserStates]
    BY DEF Init, ConsumerStates, CloserStates, Outcomes, Requests
  <2>4. /\ stopped \in [Consumers -> BOOLEAN]
        /\ closerStopped \in [Closers -> BOOLEAN]
        /\ publishedAny \in BOOLEAN /\ acceptingDrops \in BOOLEAN
    BY DEF Init
  <2> QED BY <2>1, <2>2, <2>3, <2>4 DEF Init, TypeOK
<1>2. CountInv
  <2>1. Waiting = {}
    BY DEF Init, Waiting, Idle
  <2> QED BY <2>1, FS_EmptySet DEF Init, CountInv
<1>3. PublishingInv /\ CloseInv
  BY DEF Init, PublishingInv, CloseInv, MutexFree
<1>4. LogInv
  BY DEF Init, LogInv, LogOrdered, MutexFree
<1>5. OneCause
  BY StreamAssumption DEF Init, OneCause
<1> QED BY <1>1, <1>2, <1>3, <1>4, <1>5 DEF StreamInv

(* The inductive invariant of the stream.                                  *)
THEOREM StreamInvariant == Spec => []StreamInv
<1>1. Init => StreamInv
  BY InitInv
<1>2. StreamInv /\ [Next]_vars => StreamInv'
  BY TypeStep, CountStep, PublishingStep, CloseStep, LogStep, CauseStep DEF
      StreamInv
<1> QED BY <1>1, <1>2, PTL DEF Spec

(* Type correctness of the stream.                                         *)
THEOREM StreamTypeOK == Spec => []TypeOK
<1>1. StreamInv => TypeOK
  BY DEF StreamInv
<1> QED BY <1>1, StreamInvariant, PTL

(* Stamps of published frames strictly increase, and a geometry revision   *)
(* or an epoch never stands for two transforms or two shapes.              *)
THEOREM StreamLogOrdered == Spec => []LogOrdered
<1>1. StreamInv => LogOrdered
  BY DEF StreamInv, LogInv
<1> QED BY <1>1, StreamInvariant, PTL

(* The debug assertions of drain hold, however many threads wait or drain. *)
THEOREM StreamDrainSettled == Spec => []DrainSettled
<1>1. StreamInv => DrainSettled
  BY DEF StreamInv, CountInv, CloseInv, DrainSettled, Idle
<1> QED BY <1>1, StreamInvariant, PTL

(* Every caller told of a fault was told the stream's first one.           *)
THEOREM StreamOneCause == Spec => []OneCause
<1>1. StreamInv => OneCause
  BY DEF StreamInv
<1> QED BY <1>1, StreamInvariant, PTL

(* Once one caller has learned that capture ended, no call commits a frame. *)
THEOREM StreamEndIsCommon == Spec => EndIsCommon
<1>1. ASSUME StreamInv, [Next]_vars,
             \E c \in Consumers : out[c] \in Faults \cup {"SessionClosed"},
             NEW c \in Consumers, out'[c] = "ok"
      PROVE  out[c] = "ok"
  <2>1. Ended
    BY <1>1, StreamAssumption DEF StreamInv, OneCause, Ended
  <2>2. SUFFICES ASSUME out[c] # "ok" PROVE FALSE
    OBVIOUS
  <2>3. PICK e \in Consumers : \/ \E request \in Requests : Call(e, request)
                               \/ Consume(e)
    BY <1>1, <2>2 DEF Next, PublishPrepare, PublishCommit, RecordAdmit,
        RecordObserve, RecordAdd, Call, Interrupt, CheckEnded,
        CheckForeign, CheckPick, CheckWait, Wake, Consult, CommitFrame,
        TerminateStore, TerminateCommit, DrainStore, InterruptDrain,
        DrainBegin, DrainCheck, DrainConsult, DrainFinish, Return,
        DrainReturn, Consume, Drain, vars, innerVars, atomics,
        consumerVars, closerVars, history
  <2>4. out' = [out EXCEPT ![e] = out'[e]] /\ out \in [Consumers -> Outcomes]
    BY <2>3, <1>1 DEF StreamInv, TypeOK, PublishPrepare, PublishCommit,
        RecordAdmit, RecordObserve, RecordAdd, Call, Interrupt,
        CheckEnded, CheckForeign, CheckPick, CheckWait, Wake, Consult,
        CommitFrame, TerminateStore, TerminateCommit, DrainStore,
        InterruptDrain, DrainBegin, DrainCheck, DrainConsult,
        DrainFinish, Return, DrainReturn, Consume, Drain, vars,
        innerVars, atomics, consumerVars, closerVars, history
  <2>5. e = c
    BY <2>2, <2>4, <1>1
  <2>6. EndOutcome # "ok"
    BY <1>1, StreamAssumption DEF EndOutcome, StreamInv, TypeOK
  <2>7. ASSUME NEW request \in Requests, Call(c, request) PROVE FALSE
    BY <1>1, <2>7, <2>4 DEF Call
  <2>8. CASE CheckEnded(c) \/ CheckForeign(c)
    BY <1>1, <2>8, <2>4, <2>6 DEF CheckEnded, CheckForeign, Return
  <2>9. CASE CheckPick(c) \/ CheckWait(c) \/ Wake(c)
    BY <1>1, <2>2, <2>9 DEF CheckPick, CheckWait, Wake
  <2>10. CASE Consult(c)
    BY <1>1, <2>2, <2>4, <2>10 DEF Consult, Return
  <2>11. CASE CommitFrame(c)
    BY <1>1, <2>1, <2>4, <2>6, <2>11 DEF CommitFrame, Return
  <2> QED
    BY <2>3, <2>5, <2>7, <2>8, <2>9, <2>10, <2>11 DEF Consume
<1>2. StreamInv /\ [Next]_vars =>
         [(\E c \in Consumers : out[c] \in Faults \cup {"SessionClosed"})
            => \A c \in Consumers : out'[c] = "ok" => out[c] = "ok"]_vars
  BY <1>1
<1> QED BY <1>2, StreamInvariant, PTL DEF Spec, EndIsCommon

-----------------------------------------------------------------------------
(* Dropped candidates become gaps in the sequence.                         *)

(* A frame that follows the log and consumed n drops comes n numbers later *)
(* than the next one of its epoch; the first of an epoch consumes none.    *)
Skipped(f, n) ==
    \/ log = <<>> /\ f.sequence = 0 /\ n = 0
    \/ /\ log # <<>>
       /\ f.epoch = log[Len(log)].epoch
       /\ f.sequence = log[Len(log)].sequence + 1 + n
    \/ /\ log # <<>>
       /\ f.epoch = log[Len(log)].epoch + 1
       /\ f.sequence = 0 /\ n = 0

(* The gap such a frame leaves.                                            *)
Opened(f, n) == {f.epoch} \X ((f.sequence - n) .. (f.sequence - 1))

(* What was consumed when a publication was prepared is what its frame     *)
(* skips when it commits, whatever the recorder added in between.          *)
DropsInv ==
    /\ DropsAccounted
    /\ log = <<>> => cursor = FirstCursor
    /\ ~MutexFree => Skipped(publishing.frame, publishing.consumed)

(* The gap of n drops has n stamps.                                        *)
LEMMA OpenedCardinality ==
    ASSUME NEW f \in Frames, NEW n \in Nat
    PROVE  IsFiniteSet(Opened(f, n)) /\ Cardinality(Opened(f, n)) = n
<1> DEFINE S == (f.sequence - n) .. (f.sequence - 1)
<1>1. f.sequence \in Int
  BY IdentityAssumption DEF Frames, Sequences
<1>2. IsFiniteSet(S) /\ Cardinality(S) = n
  <2>1. f.sequence - n \in Int /\ f.sequence - 1 \in Int
    BY <1>1
  <2>2. IsFiniteSet(S) /\ Cardinality(S) =
            IF f.sequence - n > f.sequence - 1 THEN 0
            ELSE (f.sequence - 1) - (f.sequence - n) + 1
    BY <2>1, FS_Interval
  <2> QED BY <1>1, <2>2
<1>3. IsFiniteSet({f.epoch}) /\ Cardinality({f.epoch}) = 1
  BY FS_Singleton
<1> HIDE DEF S
<1>4. IsFiniteSet({f.epoch} \X S)
      /\ Cardinality({f.epoch} \X S) = Cardinality({f.epoch}) * Cardinality(S)
  BY <1>2, <1>3, FS_Product
<1> QED BY <1>2, <1>3, <1>4 DEF Opened, S

(* The gaps are finitely many.                                             *)
LEMMA GapsFinite == IsFiniteSet(Gaps)
<1>1. IsFiniteSet(Epochs) /\ IsFiniteSet(Sequences)
  BY IdentityAssumption, FS_Interval DEF Epochs, Sequences
<1>2. IsFiniteSet(Epochs \X Sequences)
  BY <1>1, FS_Product
<1> QED BY <1>2, FS_Subset DEF Gaps

(* Appending such a frame to an ordered log adds exactly its gap.          *)
LEMMA GapsGrow ==
    ASSUME StreamInv, NEW f \in Frames, NEW n \in Nat,
           log' = Append(log, f), Skipped(f, n), n <= f.sequence,
           \A i \in 1..Len(log) : Follows(log[i], f)
    PROVE  /\ Gaps' = Gaps \cup Opened(f, n)
           /\ Gaps \cap Opened(f, n) = {}
<1>1. /\ log \in Seq(Frames) /\ Len(log) \in Nat
      /\ Len(log') = Len(log) + 1 /\ log'[Len(log) + 1] = f
      /\ \A i \in 1..Len(log) : log'[i] = log[i] /\ log[i] \in Frames
  BY DEF StreamInv, TypeOK
<1>2. /\ f.epoch \in Nat /\ f.sequence \in Nat
      /\ f.epoch <= MaxEpoch /\ f.sequence <= MaxSequence
      /\ \A i \in 1..Len(log) : log[i].epoch \in Nat /\ log[i].sequence \in Nat
  BY <1>1, IdentityAssumption DEF Frames, Epochs, Sequences
<1>3. \A i \in 1..Len(log) : Before(log[i], f)
  BY DEF Follows
<1>4. \A i \in 1..Len(log) :
          log[i].epoch = f.epoch => log[i].sequence < f.sequence - n
  <2>1. SUFFICES ASSUME NEW i \in 1..Len(log), log[i].epoch = f.epoch
                 PROVE  log[i].sequence < f.sequence - n
    OBVIOUS
  <2>2. /\ log # <<>> /\ Len(log) \in 1..Len(log)
        /\ f.epoch = log[Len(log)].epoch
        /\ f.sequence = log[Len(log)].sequence + 1 + n
    BY <2>1, <1>1, <1>2, <1>3 DEF Skipped, Before
  <2>3. i = Len(log) \/ log[i].sequence < log[Len(log)].sequence
    <3>1. CASE i # Len(log)
      <4>1. Before(log[i], log[Len(log)])
        BY <1>1, <2>1, <2>2, <3>1 DEF StreamInv, LogInv, LogOrdered, Follows
      <4> QED BY <4>1, <1>2, <2>1, <2>2 DEF Before
    <3> QED BY <3>1
  <2>4. log[i].sequence \in Nat /\ log[Len(log)].sequence \in Nat
    BY <1>2, <2>2
  <2> QED BY <2>2, <2>3, <2>4
<1>5. ASSUME NEW p \in Gaps' PROVE p \in Gaps \cup Opened(f, n)
  <2>1. /\ p \in Epochs \X Sequences /\ p = <<p[1], p[2]>> /\ p[2] \in Nat
        /\ \E i \in 1..Len(log') : log'[i].epoch = p[1] /\ log'[i].sequence > p[2]
        /\ \A i \in 1..Len(log') : <<log'[i].epoch, log'[i].sequence>> # p
    BY <1>5, IdentityAssumption DEF Gaps, Sequences
  <2>2. \A i \in 1..Len(log) : <<log[i].epoch, log[i].sequence>> # p
    BY <2>1, <1>1
  <2>3. CASE \E i \in 1..Len(log) : log[i].epoch = p[1] /\ log[i].sequence > p[2]
    BY <2>1, <2>2, <2>3 DEF Gaps
  <2>4. CASE ~ \E i \in 1..Len(log) : log[i].epoch = p[1] /\ log[i].sequence > p[2]
    <3>1. f.epoch = p[1] /\ f.sequence > p[2]
      BY <2>1, <2>4, <1>1
    <3>2. p[2] >= f.sequence - n
      <4>1. CASE f.sequence = 0
        BY <4>1, <3>1, <2>1, <1>2
      <4>2. CASE log # <<>> /\ f.epoch = log[Len(log)].epoch
                 /\ f.sequence = log[Len(log)].sequence + 1 + n
        <5>1. Len(log) \in 1..Len(log)
          BY <4>2, <1>1
        <5>2. log[Len(log)].sequence # p[2]
          BY <5>1, <2>1, <2>2, <3>1, <4>2
        <5>3. ~(log[Len(log)].sequence > p[2])
          BY <5>1, <2>4, <3>1, <4>2
        <5> QED BY <5>1, <5>2, <5>3, <4>2, <1>2, <2>1
      <4> QED BY <4>1, <4>2 DEF Skipped
    <3> QED BY <2>1, <3>1, <3>2, <1>2 DEF Opened
  <2> QED BY <2>3, <2>4
<1>6. ASSUME NEW p \in Gaps PROVE p \in Gaps'
  <2>1. /\ p \in Epochs \X Sequences /\ p = <<p[1], p[2]>> /\ p[2] \in Nat
        /\ \A i \in 1..Len(log) : <<log[i].epoch, log[i].sequence>> # p
    BY <1>6, IdentityAssumption DEF Gaps, Sequences
  <2>2. PICK i \in 1..Len(log) : log[i].epoch = p[1] /\ log[i].sequence > p[2]
    BY <1>6 DEF Gaps
  <2>3. Before(log[i], f)
    BY <1>3
  <2>4. <<f.epoch, f.sequence>> # p
    BY <2>1, <2>2, <2>3, <1>2 DEF Before
  <2>5. \A j \in 1..Len(log') : <<log'[j].epoch, log'[j].sequence>> # p
    <3>1. \A j \in 1..Len(log') : j \in 1..Len(log) \/ j = Len(log) + 1
      BY <1>1
    <3> QED BY <2>1, <2>4, <3>1, <1>1
  <2>6. i \in 1..Len(log') /\ log'[i] = log[i]
    BY <1>1
  <2> QED BY <2>1, <2>2, <2>5, <2>6 DEF Gaps
<1>7. ASSUME NEW p \in Opened(f, n)
      PROVE  p \in Gaps' /\ p \notin Gaps
  <2>1. /\ p = <<p[1], p[2]>> /\ p[1] = f.epoch /\ p[2] \in Nat
        /\ f.sequence - n <= p[2] /\ p[2] < f.sequence
    BY <1>7, <1>2 DEF Opened
  <2>2. p \in Epochs \X Sequences
    BY <2>1, <1>2, IdentityAssumption DEF Epochs, Sequences
  <2>3. \A i \in 1..Len(log) :
            log[i].epoch = p[1] => log[i].sequence < p[2]
    BY <2>1, <1>2, <1>4
  <2>4. p \notin Gaps
    BY <2>1, <2>3, <1>2 DEF Gaps
  <2>5. \A j \in 1..Len(log') : <<log'[j].epoch, log'[j].sequence>> # p
    BY <2>1, <2>3, <1>1, <1>2
  <2>6. Len(log) + 1 \in 1..Len(log')
    BY <1>1
  <2> QED BY <2>1, <2>2, <2>4, <2>5, <2>6, <1>1 DEF Gaps
<1> QED BY <1>5, <1>6, <1>7

(* A publication skips as many numbers as it consumed drops.               *)
LEMMA PrepareSkips ==
    ASSUME StreamInv, DropsInv, NEW p \in Publications, Accepts(p)
    PROVE  Skipped(Prepared(p).frame, Prepared(p).consumed)
<1> DEFINE f == Prepared(p).frame
<1>1. /\ f.epoch = PreparedCursor(p).epoch /\ f.sequence = PreparedCursor(p).next
      /\ Prepared(p).consumed = ConsumedDrops(p)
  BY DEF Prepared
<1>2. lifecycle # "Closed" /\ LogInv /\ TypeOK
  BY DEF StreamInv, Accepts, Ended
<1>3. CASE log = <<>>
  <2>1. latest = NoFrame /\ cursor = FirstCursor
    BY <1>2, <1>3 DEF LogInv, DropsInv
  <2>2. ConsumedDrops(p) = 0 /\ ~BeginsEpoch(p)
    BY <2>1 DEF ConsumedDrops, BeginsEpoch
  <2>3. PreparedCursor(p) = FirstCursor
    BY <2>1, <2>2 DEF PreparedCursor, Skip, FirstCursor
  <2> QED BY <1>1, <1>3, <2>2, <2>3 DEF Skipped, FirstCursor
<1>4. CASE log # <<>>
  <2>1. /\ latest = log[Len(log)] /\ latest # NoFrame
        /\ cursor = [epoch |-> latest.epoch, next |-> latest.sequence + 1]
    <3>1. latest = log[Len(log)] /\ Len(log) \in 1..Len(log)
      BY <1>2, <1>4 DEF LogInv, TypeOK
    <3>2. latest \in Frames
      BY <1>2, <3>1 DEF TypeOK
    <3> QED BY <1>2, <1>4, <3>1, <3>2, StreamAssumption DEF LogInv
  <2>2. CASE BeginsEpoch(p)
    <3>1. /\ PreparedCursor(p) = [epoch |-> latest.epoch + 1, next |-> 0]
          /\ ConsumedDrops(p) = 0
      BY <2>1, <2>2 DEF PreparedCursor, BeginEpoch, ConsumedDrops
    <3> QED BY <1>1, <1>4, <2>1, <3>1 DEF Skipped
  <2>3. CASE ~BeginsEpoch(p)
    <3>1. PreparedCursor(p) = [epoch |-> latest.epoch,
                               next |-> latest.sequence + 1 + ConsumedDrops(p)]
      BY <2>1, <2>3 DEF PreparedCursor, Skip
    <3> QED BY <1>1, <1>4, <2>1, <3>1 DEF Skipped
  <2> QED BY <2>2, <2>3
<1> QED BY <1>3, <1>4

(* Every step keeps the account of the drops.                              *)
LEMMA DropsStep ==
    ASSUME StreamInv, DropsInv, [Next]_vars
    PROVE  DropsInv'
<1>1. ASSUME NEW p \in Publications, PublishPrepare(p) PROVE DropsInv'
  <2>1. /\ UNCHANGED <<log, cursor, pendingDrops, recorded>>
        /\ publishing' = Prepared(p) /\ Accepts(p)
    BY <1>1 DEF PublishPrepare, innerVars, atomics, history
  <2>2. Gaps' = Gaps
    BY <2>1 DEF Gaps
  <2>3. Skipped(Prepared(p).frame, Prepared(p).consumed)
    BY <2>1, PrepareSkips
  <2>4. Skipped(publishing.frame, publishing.consumed)'
    BY <2>1, <2>3 DEF Skipped
  <2> QED BY <2>1, <2>2, <2>4 DEF DropsInv, DropsAccounted
<1>2. ASSUME PublishCommit PROVE DropsInv'
  <2> DEFINE f == publishing.frame
             n == publishing.consumed
  <2>1. /\ f \in Frames /\ n \in Nat /\ n <= pendingDrops /\ Skipped(f, n)
        /\ \A i \in 1..Len(log) : Follows(log[i], f)
        /\ pendingDrops \in Nat
    BY <1>2, StreamAssumption DEF PublishCommit, StreamInv, TypeOK, LogInv,
       MutexFree, PublishingInv, PreparedPublications, DropsInv
  <2>2. /\ log' = Append(log, f) /\ pendingDrops' = pendingDrops - n
        /\ recorded' = recorded /\ publishing' = NoPublication
    BY <1>2 DEF PublishCommit
  <2>3. n <= f.sequence
    <3>1. CASE log = <<>> \/ n = 0
      BY <3>1, <2>1, IdentityAssumption DEF Skipped, Frames, Sequences
    <3>2. CASE log # <<>> /\ n # 0
      <4>1. Len(log) \in 1..Len(log) /\ log[Len(log)] \in Frames
        BY <3>2 DEF StreamInv, TypeOK
      <4>2. log[Len(log)].sequence \in Nat
        BY <4>1, IdentityAssumption DEF Frames, Sequences
      <4>3. f.sequence = log[Len(log)].sequence + 1 + n
        BY <2>1, <3>2 DEF Skipped
      <4> QED BY <2>1, <4>2, <4>3
    <3> QED BY <3>1, <3>2
  <2> HIDE DEF f, n
  <2>4. Gaps' = Gaps \cup Opened(f, n) /\ Gaps \cap Opened(f, n) = {}
    BY <2>1, <2>2, <2>3, GapsGrow
  <2>5. IsFiniteSet(Gaps) /\ Cardinality(Gaps) \in Nat
    BY GapsFinite, FS_CardinalityType
  <2>6. IsFiniteSet(Opened(f, n)) /\ Cardinality(Opened(f, n)) = n
    BY <2>1, OpenedCardinality
  <2>7. Cardinality(Gaps') = Cardinality(Gaps) + n
    <3>1. Cardinality(Gaps \cup Opened(f, n)) =
            Cardinality(Gaps) + Cardinality(Opened(f, n)) - Cardinality({})
      BY <2>4, <2>5, <2>6, FS_Union
    <3> QED BY <3>1, <2>1, <2>4, <2>5, <2>6, FS_EmptySet
  <2>8. DropsAccounted'
    BY <2>1, <2>2, <2>5, <2>7 DEF DropsInv, DropsAccounted
  <2>9. log' # <<>>
    BY <2>2, <2>1 DEF StreamInv, TypeOK
  <2> QED BY <2>2, <2>8, <2>9 DEF DropsInv, MutexFree
<1>3. ASSUME RecordAdd PROVE DropsInv'
  <2>1. UNCHANGED <<log, cursor, publishing>>
    BY <1>3 DEF RecordAdd, innerVars
  <2>2. Gaps' = Gaps
    BY <2>1 DEF Gaps
  <2>3. Cardinality(Gaps) \in Nat /\ pendingDrops \in Nat /\ recorded \in Nat
    BY GapsFinite, FS_CardinalityType, StreamAssumption DEF StreamInv, TypeOK
  <2>4. DropsAccounted'
    BY <1>3, <2>2, <2>3 DEF DropsInv, DropsAccounted, RecordAdd
  <2> QED BY <2>1, <2>4 DEF DropsInv, MutexFree, Skipped
<1>4. ASSUME UNCHANGED <<log, cursor, publishing, pendingDrops, recorded>>
      PROVE  DropsInv'
  <2>1. Gaps' = Gaps
    BY <1>4 DEF Gaps
  <2> QED BY <1>4, <2>1 DEF DropsInv, DropsAccounted, MutexFree, Skipped
<1>5. ASSUME \/ RecordAdmit \/ RecordObserve \/ TerminateCommit
             \/ \E fault \in Faults : TerminateStore(fault)
      PROVE  UNCHANGED <<log, cursor, publishing, pendingDrops, recorded>>
  BY <1>5 DEF RecordAdmit, RecordObserve, TerminateCommit, TerminateStore,
     innerVars, atomics, history
<1>6. ASSUME NEW c \in Consumers,
             \/ \E request \in Requests : Call(c, request)
             \/ Interrupt(c)
             \/ Consume(c)
      PROVE  UNCHANGED <<log, cursor, publishing, pendingDrops, recorded>>
  BY <1>6 DEF Call, Interrupt, Consume, CheckEnded, CheckForeign, CheckPick,
     CheckWait, Wake, Consult, CommitFrame, innerVars, atomics, history
<1>7. ASSUME NEW d \in Closers, DrainStore(d) \/ InterruptDrain(d) \/ Drain(d)
      PROVE  UNCHANGED <<log, cursor, publishing, pendingDrops, recorded>>
  BY <1>7 DEF DrainStore, InterruptDrain, Drain, DrainBegin, DrainCheck,
     DrainConsult, DrainFinish, innerVars, atomics, history
<1>8. CASE UNCHANGED vars
  BY <1>4, <1>8 DEF vars, innerVars, atomics, history
<1> QED BY <1>1, <1>2, <1>3, <1>4, <1>5, <1>6, <1>7, <1>8 DEF Next

(* No recorded drop is lost or counted twice: what was recorded is pending *)
(* or is exactly the gaps of the published sequence, for any interleaving  *)
(* of the recorder with the two halves of a publication.                   *)
THEOREM StreamDropsAccounted == Spec => []DropsAccounted
<1>1. Init => DropsInv
  <2> SUFFICES ASSUME Init PROVE DropsInv
    OBVIOUS
  <2>1. Gaps = {}
    BY DEF Init, Gaps
  <2>2. Cardinality(Gaps) = 0
    BY <2>1, FS_EmptySet
  <2> QED BY <2>2 DEF Init, DropsInv, DropsAccounted, MutexFree
<1>2. StreamInv /\ DropsInv /\ [Next]_vars => DropsInv'
  BY DropsStep
<1>3. DropsInv => DropsAccounted
  BY DEF DropsInv
<1> QED BY <1>1, <1>2, <1>3, StreamInvariant, PTL DEF Spec

(* Both at once: every counter is in its range, and drops are accounted    *)
(* for.                                                                    *)
THEOREM StreamCountersExact == Spec => []CountersExact
<1>1. TypeOK /\ DropsAccounted => CountersExact
  BY DEF CountersExact
<1> QED BY <1>1, StreamTypeOK, StreamDropsAccounted, PTL

(* A call for a newer frame has picked one that is newer than the held one *)
(* by the time it may be given it, and no call under way has an outcome.   *)
NewerInv ==
    \A c \in Consumers : pc[c] # Idle =>
        /\ out[c] = "none"
        /\ want[c] = "Newer" /\ pc[c] \in {"arbitrate", "order"} =>
               Before(held[c], picked[c])

(* Every step keeps what a call for a newer frame has picked.              *)
LEMMA NewerStep ==
    ASSUME StreamInv, NewerInv, [Next]_vars
    PROVE  NewerInv'
<1> USE DEF Idle
<1>1. /\ pc \in [Consumers -> ConsumerStates] /\ want \in [Consumers -> Requests]
      /\ picked \in [Consumers -> Frames \cup {NoFrame}]
      /\ held \in [Consumers -> Frames \cup {NoFrame}]
      /\ out \in [Consumers -> Outcomes]
  BY DEF StreamInv, TypeOK
<1>2. ASSUME NEW e \in Consumers, NEW o, Return(e, o),
             \A c \in Consumers : c # e => held'[c] = held[c]
      PROVE  NewerInv'
  BY <1>1, <1>2 DEF NewerInv, Return
<1>3. ASSUME UNCHANGED <<pc, want, picked, held, out>> PROVE NewerInv'
  BY <1>3 DEF NewerInv
<1>4. ASSUME NEW e \in Consumers, NEW request \in Requests, Call(e, request)
      PROVE  NewerInv'
  BY <1>1, <1>4 DEF NewerInv, Call
<1>5. ASSUME NEW e \in Consumers, CheckPick(e) PROVE NewerInv'
  <2>1. want[e] = "Newer" => Before(held[e], latest)
    BY <1>5 DEF CheckPick, Qualifies
  <2> QED BY <1>1, <1>5, <2>1 DEF NewerInv, CheckPick
<1>6. ASSUME NEW e \in Consumers, CheckWait(e) \/ Wake(e) PROVE NewerInv'
  BY <1>1, <1>6 DEF NewerInv, CheckWait, Wake
<1>7. ASSUME NEW e \in Consumers, Consult(e) PROVE NewerInv'
  <2>1. CASE stopped[e]
    BY <1>2, <1>7, <2>1 DEF Consult
  <2>2. CASE ~stopped[e]
    BY <1>1, <1>7, <2>2 DEF NewerInv, Consult
  <2> QED BY <2>1, <2>2
<1>8. ASSUME NEW e \in Consumers, CommitFrame(e) PROVE NewerInv'
  <2>1. \A c \in Consumers : c # e => held'[c] = held[c]
    BY <1>1, <1>8 DEF CommitFrame
  <2>2. \E o \in {"ok", "ForeignStream", EndOutcome} : Return(e, o)
    BY <1>8 DEF CommitFrame
  <2> QED BY <1>2, <2>1, <2>2
<1>9. ASSUME NEW e \in Consumers, CheckEnded(e) \/ CheckForeign(e) PROVE NewerInv'
  <2>1. UNCHANGED held /\ \E o \in {"ForeignStream", EndOutcome} : Return(e, o)
    BY <1>9 DEF CheckEnded, CheckForeign
  <2> QED BY <1>2, <2>1
<1>10. ASSUME \/ RecordAdmit \/ RecordObserve \/ RecordAdd
              \/ PublishCommit \/ TerminateCommit
              \/ \E p \in Publications : PublishPrepare(p)
              \/ \E fault \in Faults : TerminateStore(fault)
              \/ \E c \in Consumers : Interrupt(c)
              \/ \E d \in Closers :
                    DrainStore(d) \/ InterruptDrain(d) \/ Drain(d)
              \/ UNCHANGED vars
       PROVE  UNCHANGED <<pc, want, picked, held, out>>
  BY <1>10 DEF RecordAdmit, RecordObserve, RecordAdd, PublishCommit,
     TerminateCommit, PublishPrepare, TerminateStore, Interrupt, DrainStore,
     InterruptDrain, Drain, DrainBegin, DrainCheck, DrainConsult,
     DrainFinish, consumerVars, vars
<1> QED
  BY <1>3, <1>4, <1>5, <1>6, <1>7, <1>8, <1>9, <1>10 DEF Next, Consume

(* A caller that asks for a frame newer than one it holds is given one,    *)
(* however long the call waits and whatever is published meanwhile.        *)
THEOREM StreamNewerIsNewer == Spec => NewerIsNewer
<1>1. Init => NewerInv
  BY DEF Init, NewerInv
<1>2. StreamInv /\ NewerInv /\ [Next]_vars => NewerInv'
  BY NewerStep
<1>3. ASSUME StreamInv, NewerInv, [Next]_vars, NEW c \in Consumers,
             want[c] = "Newer", pc[c] # Idle, out'[c] = "ok"
      PROVE  Before(held[c], held'[c])
  <2>1. out[c] = "none" /\ out \in [Consumers -> Outcomes]
        /\ held \in [Consumers -> Frames \cup {NoFrame}]
    BY <1>3 DEF NewerInv, StreamInv, TypeOK
  <2>2. EndOutcome # "ok"
    BY <1>3, StreamAssumption DEF EndOutcome, StreamInv, TypeOK
  <2>3. CommitFrame(c)
    <3>1. out' # out
      BY <1>3, <2>1
    <3>2. PICK e \in Consumers : (\E request \in Requests : Call(e, request)) \/ Consume(e)
      BY <1>3, <3>1 DEF Next, PublishPrepare, PublishCommit, RecordAdmit,
         RecordObserve, RecordAdd, Interrupt, TerminateStore, TerminateCommit,
         DrainStore, InterruptDrain, Drain, DrainBegin, DrainCheck,
         DrainConsult, DrainFinish, consumerVars, vars
    <3>3. out' = [out EXCEPT ![e] = out'[e]]
      BY <3>2, <2>1 DEF Call, Consume, CheckEnded, CheckForeign, CheckPick,
         CheckWait, Wake, Consult, CommitFrame, Return
    <3>4. e = c
      BY <1>3, <2>1, <3>3
    <3>5. ASSUME NEW request \in Requests, Call(c, request) PROVE FALSE
      BY <1>3, <3>5 DEF Call
    <3>6. CASE CheckEnded(c) \/ CheckForeign(c)
      BY <1>3, <2>1, <2>2, <3>6 DEF CheckEnded, CheckForeign, Return
    <3>7. CASE CheckPick(c) \/ CheckWait(c) \/ Wake(c)
      BY <1>3, <2>1, <3>7 DEF CheckPick, CheckWait, Wake
    <3>8. CASE Consult(c)
      BY <1>3, <2>1, <3>8 DEF Consult, Return
    <3> QED BY <3>2, <3>4, <3>5, <3>6, <3>7, <3>8 DEF Consume
  <2>4. pc[c] = "order" /\ held'[c] = picked[c]
    <3>1. Return(c, "ok")
      BY <1>3, <2>1, <2>2, <2>3 DEF CommitFrame, Return
    <3> QED BY <1>3, <2>1, <2>2, <2>3 DEF CommitFrame, Return
  <2> QED BY <1>3, <2>4 DEF NewerInv
<1>4. StreamInv /\ NewerInv /\ [Next]_vars =>
        [\A c \in Consumers :
            want[c] = "Newer" /\ pc[c] # Idle /\ out'[c] = "ok"
                => Before(held[c], held'[c])]_vars
  BY <1>3
<1> QED BY <1>1, <1>2, <1>4, StreamInvariant, PTL DEF Spec, NewerIsNewer

(* The stream implements the ordered log its readers are promised.         *)
THEOREM StreamImplementsLog == Spec => LogSpec
<1>1. Init => Log!LogInit
  BY DEF Init, Log!LogInit
<1>2. ASSUME StreamInv, [Next]_vars
      PROVE  [Log!LogNext]_(Log!logVars)
  <2> USE DEF Log!logVars
  <2>1. CASE PublishCommit
    <3>1. /\ publishing.frame \in Frames
          /\ \A i \in 1..Len(log) : Follows(log[i], publishing.frame)
          /\ lifecycle = "Open"
      BY <1>2, <2>1 DEF PublishCommit, StreamInv, TypeOK, LogInv,
          PublishingInv,
         Ended, MutexFree, PreparedPublications
    <3>2. Log!AppendFrame(publishing.frame)
      BY <2>1, <3>1 DEF PublishCommit, Log!AppendFrame, Log!Follows, Follows,
         Log!Before, Before
    <3>3. publishing.frame \in Log!Frames
      BY <3>1 DEF Log!Frames, Frames, Log!Epochs, Epochs,
          Log!Sequences, Sequences,
         Log!Geometries, Geometries
    <3> QED BY <3>2, <3>3 DEF Log!LogNext
  <2>2. CASE TerminateCommit
    BY <1>2, <2>2, StreamAssumption
    DEF TerminateCommit, Log!LogNext, Log!End, Log!Blame, StreamInv, TypeOK,
        CloseInv, history
  <2>3. ASSUME NEW d \in Closers, DrainBegin(d) PROVE [Log!LogNext]_(Log!logVars)
    <3>1. CASE lifecycle = "Open"
      <4>1. terminal = NoFault
        BY <1>2, <3>1 DEF StreamInv, CloseInv
      <4>2. Log!End(NoFault)
        BY <2>3, <3>1, <4>1 DEF DrainBegin, Log!End, history
      <4> QED BY <4>2 DEF Log!LogNext
    <3>2. CASE lifecycle # "Open"
      BY <2>3, <3>2 DEF DrainBegin, history
    <3> QED BY <3>1, <3>2
  <2>4. ASSUME NEW d \in Closers, DrainFinish(d) PROVE [Log!LogNext]_(Log!logVars)
    <3>1. lifecycle # "Open" /\ lifecycle \in {"Open", "Closing", "Closed"}
      BY <1>2, <2>4 DEF DrainFinish, StreamInv, CloseInv, TypeOK, Idle
    <3> QED
      BY <2>4, <3>1 DEF DrainFinish, Log!LogNext, Log!Seal, history
  <2>5. CASE /\ ~PublishCommit /\ ~TerminateCommit
             /\ \A d \in Closers : ~DrainBegin(d) /\ ~DrainFinish(d)
    BY <1>2, <2>5 DEF Next, PublishPrepare, PublishCommit, RecordAdmit,
        RecordObserve, RecordAdd, Call, Interrupt, CheckEnded,
        CheckForeign, CheckPick, CheckWait, Wake, Consult, CommitFrame,
        TerminateStore, TerminateCommit, DrainStore, InterruptDrain,
        DrainBegin, DrainCheck, DrainConsult, DrainFinish, Return,
        DrainReturn, Consume, Drain, vars, innerVars, atomics,
        consumerVars, closerVars, history
  <2> QED BY <2>1, <2>2, <2>3, <2>4, <2>5
<1> QED BY <1>1, <1>2, StreamInvariant, PTL DEF Spec, LogSpec, Log!LogSpec
=============================================================================
