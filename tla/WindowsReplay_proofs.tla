------------------------ MODULE WindowsReplay_proofs ------------------------
(***************************************************************************)
(* Proofs about the two parts of MCWindowsReplay: the replay session, for  *)
(* every length of the source and any number of callers and requests, and  *)
(* what WindowsCapture_proofs proves, for the Windows adapter of the run.  *)
(***************************************************************************)
EXTENDS MCWindowsReplay, FiniteSetTheorems, TLAPS

Owning == {"claimed", "claiming", "publishing", "restoring"}

(* One request owns the claim, from TryReserve until Restore.              *)
ClaimInv ==
    /\ \A c \in Callers : claim[c] # NoFrame => stage[c] \in Owning
    /\ \A c \in Callers :
          stage[c] \in {"claimed", "claiming", "publishing"} => claim[c] # NoFrame
    /\ \A c, d \in Callers : stage[c] \in Owning /\ stage[d] \in Owning => c = d
    /\ reserved <=> \E c \in Callers : stage[c] \in Owning

(* What was published, what is claimed and what remains, frame by frame.   *)
Claimed == \E c \in Callers : claim[c] # NoFrame
Out == IF Claimed THEN Len(log) + 1 ELSE Len(log)

OrderInv ==
    /\ \A i \in 1..Len(log) : log[i] = i
    /\ \A c \in Callers : claim[c] # NoFrame => claim[c] = Len(log) + 1
    /\ \A i \in 1..Len(frames) : frames[i] = Out + i
    /\ Out + Len(frames) = MaxFrames

(* What a request at each stage may rely on.                               *)
Relies(c) ==
    /\ wanted[c] <= Len(log)
    /\ stage[c] \in {"committing", "ordering"} => chosen[c] # NoFrame
    /\ chosen[c] # NoFrame =>
          /\ stage[c] \in {"committing", "ordering", "restoring"}
          /\ wanted[c] < chosen[c] /\ chosen[c] <= Len(log)
    /\ stage[c] = "restoring" /\ chosen[c] = NoFrame =>
          outcome[c] \in {"Interrupted", "SessionClosed"}
    /\ stage[c] = "ended" => frames = <<>> /\ ~reserved
    /\ stage[c] = "looking" => lifecycle # "Open" \/ wanted[c] < Len(log)

AnswerInv == \A c \in Callers : Relies(c)

ReplayInv == TypeOK /\ ClaimInv /\ OrderInv /\ AnswerInv

USE ReplayAssumption

(* The stages of a request that owns nothing.                              *)
Free == Stages \ Owning

(* What only the request of c changes in a step of c.                      *)
OnlyBy(c) ==
    /\ stage' \in [Callers -> Stages] /\ wanted' \in [Callers -> Frames]
    /\ chosen' \in [Callers -> Frames \cup {NoFrame}]
    /\ outcome' \in [Callers -> Outcomes]
    /\ \A d \in Callers : d # c =>
          /\ stage'[d] = stage[d] /\ wanted'[d] = wanted[d]
          /\ chosen'[d] = chosen[d] /\ outcome'[d] = outcome[d]

-----------------------------------------------------------------------------
LEMMA ReplayInit == Init => ReplayInv
<1> SUFFICES ASSUME Init PROVE ReplayInv
  OBVIOUS
<1>1. /\ Source \in Seq(Frames) /\ Len(Source) = MaxFrames /\ Source # <<>>
      /\ \A i \in 1..MaxFrames : Source[i] = i
  BY DEF Source, Frames
<1>2. /\ frames \in Seq(Frames) /\ Len(frames) = MaxFrames - 1
      /\ \A i \in 1..Len(frames) : frames[i] = i + 1
  BY <1>1 DEF Init
<1>3. log \in Seq(Frames) /\ Len(log) = 1 /\ log[1] = 1 /\ log # <<>>
  BY DEF Init, Frames
<1>4. TypeOK
  <2>1. /\ 1 \in Frames /\ NoFrame \in Frames \cup {NoFrame}
        /\ "idle" \in Stages /\ "none" \in Outcomes /\ 0 \in Nat
    BY DEF Frames, Stages, Outcomes
  <2>2. /\ stage \in [Callers -> Stages] /\ wanted \in [Callers -> Frames]
        /\ claim \in [Callers -> Frames \cup {NoFrame}]
        /\ chosen \in [Callers -> Frames \cup {NoFrame}]
        /\ outcome \in [Callers -> Outcomes] /\ calls \in [Callers -> Nat]
    BY <2>1 DEF Init
  <2>3. /\ reserved \in BOOLEAN /\ lifecycle \in {"Open", "Closing"}
        /\ interrupted \subseteq Callers
    BY DEF Init
  <2> QED BY <1>2, <1>3, <2>2, <2>3 DEF TypeOK
<1>5. ClaimInv
  BY DEF Init, ClaimInv, Owning
<1>6. Out = 1
  BY <1>3 DEF Init, Out, Claimed
<1>7. OrderInv
  BY <1>2, <1>3, <1>6 DEF Init, OrderInv
<1>8. AnswerInv
  BY <1>3 DEF Init, AnswerInv, Relies
<1> QED BY <1>4, <1>5, <1>7, <1>8 DEF ReplayInv

-----------------------------------------------------------------------------
LEMMA Updated ==
    ASSUME NEW S, NEW f \in [Callers -> S], NEW c \in Callers, NEW v \in S,
           NEW g, g = [f EXCEPT ![c] = v]
    PROVE  /\ g \in [Callers -> S] /\ g[c] = v
           /\ \A d \in Callers : d # c => g[d] = f[d]
OBVIOUS

(* The last frame published is the one of that number.                     *)
LEMMA LatestIs ==
    ASSUME TypeOK, OrderInv
    PROVE  /\ Latest = Len(log) /\ Latest \in Frames /\ Len(log) \in Nat \ {0}
           /\ Out \in Nat /\ Len(frames) \in Nat
<1>1. Len(log) \in Nat \ {0} /\ Len(frames) \in Nat
  BY DEF TypeOK
<1>2. Latest = Len(log)
  BY <1>1 DEF OrderInv, Latest, Last
<1>3. Out \in Nat /\ Len(log) <= Out
  BY <1>1 DEF Out
<1>4. Len(log) <= MaxFrames
  BY <1>1, <1>3 DEF OrderInv
<1> QED BY <1>1, <1>2, <1>3, <1>4 DEF Frames

(* A request that owns nothing moves on without touching the sequence.     *)
LEMMA FreeMove ==
    ASSUME ReplayInv, NEW c \in Callers, stage[c] \notin Owning,
           NEW next \in Free, stage' = [stage EXCEPT ![c] = next],
           UNCHANGED <<frames, reserved, log, claim>>
    PROVE  ClaimInv' /\ OrderInv'
<1>1. ClaimInv'
  <2>1. /\ stage'[c] \notin Owning
        /\ \A d \in Callers : d # c => stage'[d] = stage[d]
    BY DEF ReplayInv, TypeOK, Free
  <2> QED BY <2>1 DEF ReplayInv, ClaimInv, Owning
<1>2. OrderInv'
  BY DEF ReplayInv, OrderInv, Out, Claimed
<1> QED BY <1>1, <1>2

(* Where a request of one caller goes, others may rely on what they did.   *)
LEMMA StepKeeps ==
    ASSUME ReplayInv, NEW c \in Callers, OnlyBy(c), Relies(c)',
           log' \in Seq(Frames), log' # <<>>, Len(log) <= Len(log'),
           frames' \in Seq(Frames), reserved' \in BOOLEAN, UNCHANGED lifecycle,
           claim' \in [Callers -> Frames \cup {NoFrame}],
           interrupted' \subseteq Callers, calls' \in [Callers -> Nat],
           ClaimInv', OrderInv',
           \A d \in Callers : d # c /\ stage[d] = "ended" => frames' = <<>> /\ ~reserved'
    PROVE  ReplayInv'
<1>1. TypeOK'
  BY DEF ReplayInv, TypeOK, OnlyBy
<1>2. AnswerInv'
  <2> SUFFICES ASSUME NEW d \in Callers, d # c PROVE Relies(d)'
    BY DEF AnswerInv
  <2>1. /\ Relies(d) /\ Len(log) \in Nat /\ Len(log') \in Nat
        /\ wanted[d] \in Nat /\ chosen[d] \in Nat \cup {NoFrame}
    BY DEF ReplayInv, AnswerInv, TypeOK, Frames
  <2>2. /\ stage'[d] = stage[d] /\ wanted'[d] = wanted[d]
        /\ chosen'[d] = chosen[d] /\ outcome'[d] = outcome[d]
    BY DEF OnlyBy
  <2>3. chosen[d] # NoFrame => chosen[d] \in Nat
    BY <2>1
  <2> QED BY <2>1, <2>2, <2>3 DEF Relies
<1> QED BY <1>1, <1>2 DEF ReplayInv

LEMMA AskKeeps ==
    ASSUME ReplayInv, NEW c \in Callers, NEW stamp \in 1..MaxFrames, Ask(c, stamp)
    PROVE  ReplayInv'
<1> DEFINE next == IF lifecycle = "Open" /\ Latest = stamp THEN "admitting" ELSE "looking"
<1>0. /\ TypeOK /\ OrderInv /\ AnswerInv /\ ClaimInv
      /\ Latest = Len(log) /\ Len(log) \in Nat
  BY LatestIs DEF ReplayInv
<1>1. next \in Stages /\ "none" \in Outcomes
  BY DEF Stages, Outcomes
<1>2. /\ stage' \in [Callers -> Stages] /\ stage'[c] = next
      /\ \A d \in Callers : d # c => stage'[d] = stage[d]
  BY <1>0, <1>1, Updated DEF TypeOK, Ask, GoTo
<1>3. /\ wanted' \in [Callers -> Frames] /\ wanted'[c] = stamp
      /\ \A d \in Callers : d # c => wanted'[d] = wanted[d]
  BY <1>0, Updated DEF TypeOK, Ask, Frames
<1>4. /\ outcome' \in [Callers -> Outcomes]
      /\ \A d \in Callers : d # c => outcome'[d] = outcome[d]
  BY <1>0, <1>1, Updated DEF TypeOK, Ask, Outcome
<1>5. OnlyBy(c)
  BY <1>0, <1>2, <1>3, <1>4 DEF TypeOK, Ask, OnlyBy
<1>6. ClaimInv' /\ OrderInv'
  BY FreeMove DEF Ask, GoTo, Free, Stages, Owning
<1>7. Relies(c)'
  <2>1. stage[c] = "idle" /\ chosen[c] = NoFrame /\ chosen' = chosen
    BY <1>0 DEF Ask, AnswerInv, Relies
  <2> QED BY <1>0, <1>2, <1>3, <2>1 DEF Relies, Ask
<1>8. calls' \in [Callers -> Nat]
  BY <1>0 DEF TypeOK, Ask
<1>9. \A d \in Callers : stage[d] = "ended" => frames' = <<>> /\ ~reserved'
  BY <1>0 DEF AnswerInv, Relies, Ask
<1>10. /\ log' \in Seq(Frames) /\ log' # <<>> /\ Len(log) <= Len(log')
       /\ frames' \in Seq(Frames) /\ reserved' \in BOOLEAN /\ UNCHANGED lifecycle
       /\ claim' \in [Callers -> Frames \cup {NoFrame}] /\ interrupted' \subseteq Callers
  BY <1>0 DEF Ask, TypeOK
<1> QED BY <1>5, <1>6, <1>7, <1>8, <1>9, <1>10, StepKeeps

(* A step of a request that owns nothing before or after, with its frame.  *)
LEMMA FreeKeeps ==
    ASSUME ReplayInv, NEW c \in Callers, stage[c] \notin Owning,
           NEW next \in Free, stage' = [stage EXCEPT ![c] = next],
           UNCHANGED <<frames, reserved, log, lifecycle, claim, calls>>,
           interrupted' \subseteq Callers, OnlyBy(c), Relies(c)'
    PROVE  ReplayInv'
<1>1. ClaimInv' /\ OrderInv'
  BY FreeMove
<1>2. \A d \in Callers : stage[d] = "ended" => frames' = <<>> /\ ~reserved'
  BY DEF ReplayInv, AnswerInv, Relies
<1>3. /\ TypeOK /\ Len(log) <= Len(log')
  BY DEF ReplayInv, TypeOK
<1> QED BY <1>1, <1>2, <1>3, StepKeeps DEF TypeOK

LEMMA ReturnOnly ==
    ASSUME ReplayInv, NEW c \in Callers, NEW what \in Outcomes, Return(c, what)
    PROVE  /\ OnlyBy(c) /\ interrupted' \subseteq Callers
           /\ stage'[c] = "idle" /\ wanted'[c] = 1 /\ chosen'[c] = NoFrame
           /\ outcome'[c] = what /\ 1 \in Frames
<1>1. "idle" \in Stages /\ 1 \in Frames /\ TypeOK
  BY DEF Stages, Frames, ReplayInv
<1> QED BY <1>1 DEF TypeOK, OnlyBy, Return, GoTo, Outcome

LEMMA ReturnKeeps ==
    ASSUME ReplayInv, NEW c \in Callers, stage[c] \notin Owning,
           NEW what \in Outcomes, Return(c, what),
           UNCHANGED <<frames, reserved, log, lifecycle, claim, calls>>
    PROVE  ReplayInv'
<1>1. /\ OnlyBy(c) /\ interrupted' \subseteq Callers
      /\ stage'[c] = "idle" /\ wanted'[c] = 1 /\ chosen'[c] = NoFrame
  BY ReturnOnly
<1>2. Relies(c)'
  BY <1>1, LatestIs DEF Relies, ReplayInv
<1>3. "idle" \in Free
  BY DEF Free, Stages, Owning
<1> QED BY <1>1, <1>2, <1>3, FreeKeeps DEF Return, GoTo

(* The steps that neither take nor give the claim.                         *)
LEMMA LookKeeps ==
    ASSUME ReplayInv, NEW c \in Callers, Look(c) PROVE ReplayInv'
<1>0. /\ TypeOK /\ Relies(c) /\ stage[c] = "looking" /\ stage[c] \notin Owning
      /\ Latest = Len(log) /\ Latest \in Frames /\ Len(log) \in Nat
  BY LatestIs DEF ReplayInv, AnswerInv, Look, Owning
<1>1. CASE lifecycle # "Open"
  BY <1>0, <1>1, ReturnKeeps DEF Look, Outcomes
<1>2. CASE lifecycle = "Open"
  <2>1. /\ OnlyBy(c) /\ stage'[c] = "committing" /\ chosen'[c] = Latest
        /\ "committing" \in Free
    BY <1>0, <1>2 DEF Look, GoTo, TypeOK, OnlyBy, Free, Stages, Owning
  <2>2. Relies(c)'
    BY <1>0, <1>2, <2>1 DEF Look, Relies, Frames
  <2> QED BY <1>0, <1>2, <2>1, <2>2, FreeKeeps DEF Look, GoTo, TypeOK
<1> QED BY <1>1, <1>2

LEMMA ArbitrateKeeps ==
    ASSUME ReplayInv, NEW c \in Callers, Arbitrate(c) PROVE ReplayInv'
<1>0. TypeOK /\ Relies(c) /\ stage[c] = "committing" /\ stage[c] \notin Owning
  BY DEF ReplayInv, AnswerInv, Arbitrate, Owning
<1>1. CASE c \in interrupted
  BY <1>0, <1>1, ReturnKeeps DEF Arbitrate, Outcomes
<1>2. CASE c \notin interrupted
  <2>1. OnlyBy(c) /\ stage'[c] = "ordering" /\ "ordering" \in Free
    BY <1>0, <1>2 DEF Arbitrate, GoTo, TypeOK, OnlyBy, Free, Stages, Owning
  <2>2. Relies(c)'
    BY <1>0, <1>2, <2>1 DEF Arbitrate, Relies
  <2> QED BY <1>0, <1>2, <2>1, <2>2, FreeKeeps DEF Arbitrate, GoTo, TypeOK
<1> QED BY <1>1, <1>2

LEMMA CommitFrameKeeps ==
    ASSUME ReplayInv, NEW c \in Callers, CommitFrame(c) PROVE ReplayInv'
<1>1. stage[c] \notin Owning
  BY DEF CommitFrame, Owning
<1> QED BY <1>1, ReturnKeeps DEF CommitFrame, Outcomes

LEMMA ConsultKeeps ==
    ASSUME ReplayInv, NEW c \in Callers, Consult(c) PROVE ReplayInv'
<1>0. /\ TypeOK /\ Relies(c) /\ stage[c] \in {"admitting", "polling"}
      /\ stage[c] \notin Owning
  BY DEF ReplayInv, AnswerInv, Consult, Owning
<1>1. CASE c \in interrupted
  BY <1>0, <1>1, ReturnKeeps DEF Consult, Outcomes
<1>2. CASE c \notin interrupted
  <2>1. OnlyBy(c) /\ stage'[c] = "reserving" /\ "reserving" \in Free
    BY <1>0, <1>2 DEF Consult, GoTo, TypeOK, OnlyBy, Free, Stages, Owning
  <2>2. Relies(c)'
    BY <1>0, <1>2, <2>1 DEF Consult, Relies
  <2> QED BY <1>0, <1>2, <2>1, <2>2, FreeKeeps DEF Consult, GoTo, TypeOK
<1> QED BY <1>1, <1>2

LEMMA TryLockKeeps ==
    ASSUME ReplayInv, NEW c \in Callers, TryLock(c) PROVE ReplayInv'
<1> DEFINE next == IF \E other \in Callers : stage[other] = "locked" THEN "polling"
                   ELSE "locked"
<1>0. TypeOK /\ Relies(c) /\ stage[c] = "reserving" /\ stage[c] \notin Owning
  BY DEF ReplayInv, AnswerInv, TryLock, Owning
<1>1. next \in Free /\ next \in Stages /\ next \in {"polling", "locked"}
  BY DEF Free, Stages, Owning
<1>2. stage' = [stage EXCEPT ![c] = next]
  BY DEF TryLock, GoTo
<1> HIDE DEF next
<1>3. OnlyBy(c) /\ stage'[c] = next
  BY <1>0, <1>1, <1>2 DEF TryLock, TypeOK, OnlyBy
<1>4. Relies(c)'
  BY <1>0, <1>1, <1>3 DEF TryLock, Relies
<1> QED BY <1>0, <1>1, <1>2, <1>3, <1>4, FreeKeeps DEF TryLock, TypeOK

LEMMA CompareEndedKeeps ==
    ASSUME ReplayInv, NEW c \in Callers, CompareEnded(c) PROVE ReplayInv'
<1>0. /\ TypeOK /\ Relies(c) /\ stage[c] = "ended" /\ stage[c] \notin Owning
      /\ Latest = Len(log) /\ Latest \in Frames /\ Len(log) \in Nat
  BY LatestIs DEF ReplayInv, AnswerInv, CompareEnded, Owning
<1>1. CASE ~Maintained(c)
  BY <1>0, <1>1, ReturnKeeps DEF CompareEnded, Outcomes
<1>2. CASE Maintained(c)
  <2>1. /\ OnlyBy(c) /\ stage'[c] = "committing" /\ chosen'[c] = Latest
        /\ "committing" \in Free
    BY <1>0, <1>2 DEF CompareEnded, GoTo, TypeOK, OnlyBy, Free, Stages, Owning
  <2>2. Relies(c)'
    BY <1>0, <1>2, <2>1 DEF CompareEnded, Relies, Maintained, Frames
  <2> QED BY <1>0, <1>2, <2>1, <2>2, FreeKeeps DEF CompareEnded, GoTo, TypeOK
<1> QED BY <1>1, <1>2

-----------------------------------------------------------------------------
(* Only the owner of the claim has a frame out.                            *)
LEMMA OwnerHolds ==
    ASSUME ReplayInv, NEW c \in Callers, stage[c] \in Owning
    PROVE  /\ reserved
           /\ \A d \in Callers : d # c => claim[d] = NoFrame /\ stage[d] \notin Owning
           /\ \A d \in Callers : stage[d] # "ended"
           /\ Claimed <=> claim[c] # NoFrame
<1>1. ClaimInv /\ AnswerInv
  BY DEF ReplayInv
<1>2. /\ reserved
      /\ \A d \in Callers : d # c => claim[d] = NoFrame /\ stage[d] \notin Owning
  BY <1>1 DEF ClaimInv
<1>3. \A d \in Callers : stage[d] # "ended"
  BY <1>1, <1>2 DEF AnswerInv, Relies
<1> QED BY <1>2, <1>3 DEF Claimed

(* The owner moves on and keeps the claim.                                 *)
LEMMA OwnedKeeps ==
    ASSUME ReplayInv, NEW c \in Callers, stage[c] \in Owning, stage'[c] \in Owning,
           stage'[c] # "restoring" => claim[c] # NoFrame,
           OnlyBy(c), Relies(c)',
           UNCHANGED <<frames, reserved, log, lifecycle, claim, interrupted, calls>>
    PROVE  ReplayInv'
<1>1. ClaimInv'
  <2>1. \A d \in Callers : d # c => stage'[d] = stage[d]
    BY DEF OnlyBy
  <2> QED BY <2>1, OwnerHolds DEF ReplayInv, ClaimInv, Owning
<1>2. OrderInv'
  BY DEF ReplayInv, OrderInv, Out, Claimed
<1>3. TypeOK /\ Len(log) <= Len(log')
  BY DEF ReplayInv, TypeOK
<1> QED BY <1>1, <1>2, <1>3, OwnerHolds, StepKeeps DEF TypeOK

LEMMA CompareClaimedKeeps ==
    ASSUME ReplayInv, NEW c \in Callers, CompareClaimed(c) PROVE ReplayInv'
<1>0. /\ TypeOK /\ Relies(c) /\ stage[c] = "claimed" /\ stage[c] \in Owning
      /\ claim[c] # NoFrame /\ chosen[c] = NoFrame
      /\ Latest = Len(log) /\ Latest \in Frames /\ Len(log) \in Nat
  BY LatestIs DEF ReplayInv, ClaimInv, AnswerInv, Relies, CompareClaimed, Owning
<1>1. CASE Maintained(c)
  <2>1. /\ OnlyBy(c) /\ stage'[c] = "restoring" /\ chosen'[c] = Latest
    BY <1>0, <1>1 DEF CompareClaimed, GoTo, TypeOK, OnlyBy, Stages
  <2>2. Relies(c)'
    BY <1>0, <1>1, <2>1 DEF CompareClaimed, Relies, Maintained, Frames
  <2> QED BY <1>0, <2>1, <2>2, OwnedKeeps DEF CompareClaimed, Owning
<1>2. CASE ~Maintained(c)
  <2>1. OnlyBy(c) /\ stage'[c] = "claiming"
    BY <1>0, <1>2 DEF CompareClaimed, GoTo, TypeOK, OnlyBy, Stages
  <2>2. Relies(c)'
    BY <1>0, <1>2, <2>1 DEF CompareClaimed, Relies
  <2> QED BY <1>0, <2>1, <2>2, OwnedKeeps DEF CompareClaimed, Owning
<1> QED BY <1>1, <1>2

LEMMA CommitClaimKeeps ==
    ASSUME ReplayInv, NEW c \in Callers, CommitClaim(c) PROVE ReplayInv'
<1>0. /\ TypeOK /\ Relies(c) /\ stage[c] = "claiming" /\ stage[c] \in Owning
      /\ claim[c] # NoFrame /\ chosen[c] = NoFrame
  BY DEF ReplayInv, ClaimInv, AnswerInv, Relies, CommitClaim, Owning
<1>1. CASE c \in interrupted
  <2>1. OnlyBy(c) /\ stage'[c] = "restoring" /\ outcome'[c] = "Interrupted"
    BY <1>0, <1>1 DEF CommitClaim, GoTo, Outcome, TypeOK, OnlyBy, Stages, Outcomes
  <2>2. Relies(c)'
    BY <1>0, <1>1, <2>1 DEF CommitClaim, Relies
  <2> QED BY <1>0, <2>1, <2>2, OwnedKeeps DEF CommitClaim, Owning
<1>2. CASE c \notin interrupted
  <2>1. OnlyBy(c) /\ stage'[c] = "publishing"
    BY <1>0, <1>2 DEF CommitClaim, GoTo, TypeOK, OnlyBy, Stages
  <2>2. Relies(c)'
    BY <1>0, <1>2, <2>1 DEF CommitClaim, Relies
  <2> QED BY <1>0, <2>1, <2>2, OwnedKeeps DEF CommitClaim, Owning
<1> QED BY <1>1, <1>2

LEMMA TryReserveKeeps ==
    ASSUME ReplayInv, NEW c \in Callers, TryReserve(c) PROVE ReplayInv'
<1>0. /\ TypeOK /\ ClaimInv /\ OrderInv /\ Relies(c) /\ stage[c] = "locked"
      /\ stage[c] \notin Owning /\ chosen[c] = NoFrame
  BY DEF ReplayInv, AnswerInv, Relies, TryReserve, Owning
<1>1. CASE reserved
  <2>1. OnlyBy(c) /\ stage'[c] = "polling" /\ "polling" \in Free
    BY <1>0, <1>1 DEF TryReserve, GoTo, TypeOK, OnlyBy, Free, Stages, Owning
  <2>2. Relies(c)'
    BY <1>0, <1>1, <2>1 DEF TryReserve, Relies
  <2> QED BY <1>0, <1>1, <2>1, <2>2, FreeKeeps DEF TryReserve, GoTo, TypeOK
<1>2. CASE ~reserved /\ frames = <<>>
  <2>1. OnlyBy(c) /\ stage'[c] = "ended" /\ "ended" \in Free
    BY <1>0, <1>2 DEF TryReserve, GoTo, TypeOK, OnlyBy, Free, Stages, Owning
  <2>2. Relies(c)'
    BY <1>0, <1>2, <2>1 DEF TryReserve, Relies
  <2> QED BY <1>0, <1>2, <2>1, <2>2, FreeKeeps DEF TryReserve, GoTo, TypeOK
<1>3. CASE ~reserved /\ frames # <<>>
  <2>1. /\ claim' = [claim EXCEPT ![c] = Head(frames)] /\ frames' = Tail(frames)
        /\ reserved' = TRUE /\ stage' = [stage EXCEPT ![c] = "claimed"]
        /\ UNCHANGED <<log, lifecycle, wanted, chosen, outcome, interrupted, calls>>
    BY <1>3 DEF TryReserve, GoTo
  <2>2. OnlyBy(c) /\ stage'[c] = "claimed"
    BY <1>0, <2>1 DEF TypeOK, OnlyBy, Stages
  <2>3. /\ \A d \in Callers : stage[d] \notin Owning /\ claim[d] = NoFrame
        /\ Out = Len(log)
    BY <1>0, <1>3 DEF ClaimInv, Out, Claimed
  <2>4. Head(frames) = Len(log) + 1 /\ Head(frames) \in Frames /\ Len(frames) \in Nat \ {0}
    BY <1>0, <1>3, <2>3 DEF OrderInv, TypeOK
  <2>5. /\ claim' \in [Callers -> Frames \cup {NoFrame}] /\ claim'[c] = Len(log) + 1
        /\ claim'[c] # NoFrame
        /\ \A d \in Callers : d # c => claim'[d] = NoFrame
    BY <1>0, <2>1, <2>3, <2>4 DEF TypeOK, Frames
  <2>6. ClaimInv'
    BY <2>1, <2>2, <2>3, <2>5 DEF ClaimInv, OnlyBy, Owning
  <2>7. Out' = Len(log) + 1
    BY <2>1, <2>5 DEF Out, Claimed
  <2>8. /\ frames' \in Seq(Frames) /\ Len(frames') = Len(frames) - 1
        /\ \A i \in 1..Len(frames') : frames'[i] = frames[i + 1]
    BY <1>0, <1>3, <2>1 DEF TypeOK
  <2>9. OrderInv'
    <3>1. ASSUME NEW i \in 1..Len(frames') PROVE frames'[i] = Out' + i
      <4>1. i \in Nat /\ i + 1 \in 1..Len(frames) /\ Len(log) \in Nat
        BY <1>0, <2>4, <2>8 DEF TypeOK
      <4>2. frames[i + 1] = Out + (i + 1)
        BY <1>0, <4>1 DEF OrderInv
      <4> QED BY <2>3, <2>7, <2>8, <4>1, <4>2
    <3>2. Out' + Len(frames') = MaxFrames
      <4>1. Len(log) \in Nat /\ Len(log) + Len(frames) = MaxFrames
        BY <1>0, <2>3 DEF OrderInv, TypeOK
      <4>2. Out' = Len(log) + 1 /\ Len(frames') = Len(frames) - 1
        BY <2>7, <2>8
      <4> QED BY <2>4, <4>1, <4>2
    <3> QED BY <1>0, <2>1, <2>5, <3>1, <3>2 DEF OrderInv
  <2>10. Relies(c)'
    BY <1>0, <2>1, <2>2 DEF Relies
  <2>11. \A d \in Callers : stage[d] # "ended"
    BY <1>3 DEF ReplayInv, AnswerInv, Relies
  <2>12. /\ log' \in Seq(Frames) /\ log' # <<>> /\ Len(log) <= Len(log')
         /\ reserved' \in BOOLEAN /\ interrupted' \subseteq Callers
         /\ calls' \in [Callers -> Nat] /\ UNCHANGED lifecycle
    BY <1>0, <2>1 DEF TypeOK
  <2> QED BY <2>2, <2>5, <2>6, <2>8, <2>9, <2>10, <2>11, <2>12, StepKeeps
<1> QED BY <1>1, <1>2, <1>3

LEMMA PublishKeeps ==
    ASSUME ReplayInv, NEW c \in Callers, Publish(c) PROVE ReplayInv'
<1>0. /\ TypeOK /\ ClaimInv /\ OrderInv /\ Relies(c) /\ stage[c] = "publishing"
      /\ stage[c] \in Owning /\ claim[c] # NoFrame /\ chosen[c] = NoFrame
  BY DEF ReplayInv, ClaimInv, AnswerInv, Relies, Publish, Owning
<1>1. CASE lifecycle # "Open"
  <2>1. /\ OnlyBy(c) /\ stage'[c] = "restoring" /\ outcome'[c] = "SessionClosed"
    BY <1>0, <1>1 DEF Publish, GoTo, Outcome, TypeOK, OnlyBy, Stages, Outcomes
  <2>2. Relies(c)'
    BY <1>0, <1>1, <2>1 DEF Publish, Relies
  <2> QED BY <1>0, <1>1, <2>1, <2>2, OwnedKeeps DEF Publish, Owning
<1>2. CASE lifecycle = "Open"
  <2>1. /\ log' = Append(log, claim[c]) /\ claim' = [claim EXCEPT ![c] = NoFrame]
        /\ chosen' = [chosen EXCEPT ![c] = claim[c]]
        /\ stage' = [stage EXCEPT ![c] = "restoring"]
        /\ UNCHANGED <<frames, reserved, lifecycle, wanted, outcome, interrupted, calls>>
    BY <1>2 DEF Publish, GoTo
  <2>2. /\ Len(log) \in Nat /\ claim[c] = Len(log) + 1 /\ claim[c] \in Frames
        /\ Len(frames) \in Nat
    BY <1>0 DEF OrderInv, TypeOK
  <2>3. OnlyBy(c) /\ stage'[c] = "restoring" /\ chosen'[c] = Len(log) + 1
    BY <1>0, <2>1, <2>2 DEF TypeOK, OnlyBy, Stages
  <2>4. /\ log' \in Seq(Frames) /\ Len(log') = Len(log) + 1 /\ log' # <<>>
        /\ log'[Len(log) + 1] = Len(log) + 1
        /\ \A i \in 1..Len(log) : log'[i] = log[i]
    BY <1>0, <2>1, <2>2 DEF TypeOK
  <2>5. /\ claim' \in [Callers -> Frames \cup {NoFrame}]
        /\ \A d \in Callers : claim'[d] = NoFrame
    BY <1>0, <2>1, OwnerHolds DEF TypeOK
  <2>6. ClaimInv'
    BY <1>0, <2>1, <2>3, <2>5, OwnerHolds DEF ClaimInv, OnlyBy, Owning
  <2>7. Out = Len(log) + 1 /\ Out' = Len(log')
    BY <1>0, <2>5 DEF Out, Claimed
  <2>8. OrderInv'
    <3>1. \A i \in 1..Len(log') : log'[i] = i
      <4>1. \A i \in 1..Len(log) : log[i] = i
        BY <1>0 DEF OrderInv
      <4> QED BY <2>2, <2>4, <4>1
    <3> QED BY <1>0, <2>1, <2>4, <2>5, <2>7, <3>1 DEF OrderInv
  <2>9. Relies(c)'
    <3>1. wanted[c] <= Len(log) /\ wanted[c] \in Nat
      BY <1>0 DEF Relies, TypeOK, Frames
    <3> QED BY <2>1, <2>2, <2>3, <2>4, <3>1 DEF Relies, Frames
  <2>10. /\ Len(log) <= Len(log') /\ frames' \in Seq(Frames) /\ reserved' \in BOOLEAN
         /\ interrupted' \subseteq Callers /\ calls' \in [Callers -> Nat]
         /\ UNCHANGED lifecycle
    BY <1>0, <2>1, <2>2, <2>4 DEF TypeOK
  <2>11. \A d \in Callers : stage[d] # "ended"
    BY <1>0, OwnerHolds
  <2> QED BY <2>3, <2>4, <2>5, <2>6, <2>8, <2>9, <2>10, <2>11, StepKeeps
<1> QED BY <1>1, <1>2

LEMMA RestoreKeeps ==
    ASSUME ReplayInv, NEW c \in Callers, Restore(c) PROVE ReplayInv'
<1>0. /\ TypeOK /\ ClaimInv /\ OrderInv /\ Relies(c) /\ stage[c] = "restoring"
      /\ stage[c] \in Owning
  BY DEF ReplayInv, AnswerInv, Restore, Owning
<1>1. /\ frames' = Unclaimed(c) /\ reserved' = FALSE
      /\ claim' = [claim EXCEPT ![c] = NoFrame]
      /\ UNCHANGED <<log, lifecycle, calls>>
  BY DEF Restore
<1>2. /\ OnlyBy(c) /\ stage'[c] \in Free /\ interrupted' \subseteq Callers /\ Relies(c)'
  <2>1. CASE chosen[c] = NoFrame
    <3>1. Return(c, outcome[c]) /\ outcome[c] \in Outcomes
      BY <1>0, <2>1 DEF Restore, TypeOK
    <3>2. /\ OnlyBy(c) /\ interrupted' \subseteq Callers
          /\ stage'[c] = "idle" /\ wanted'[c] = 1 /\ chosen'[c] = NoFrame
      BY <3>1, ReturnOnly
    <3> QED BY <1>0, <1>1, <3>2, LatestIs DEF Relies, Free, Stages, Owning
  <2>2. CASE chosen[c] # NoFrame
    <3>1. OnlyBy(c) /\ stage'[c] = "committing" /\ interrupted' \subseteq Callers
      BY <1>0, <2>2 DEF Restore, GoTo, TypeOK, OnlyBy, Stages
    <3> QED BY <1>0, <1>1, <2>2, <3>1 DEF Restore, Relies, Free, Stages, Owning
  <2> QED BY <2>1, <2>2
<1>3. /\ claim' \in [Callers -> Frames \cup {NoFrame}]
      /\ \A d \in Callers : claim'[d] = NoFrame
  BY <1>0, <1>1, OwnerHolds DEF TypeOK
<1>4. ClaimInv'
  BY <1>0, <1>1, <1>2, <1>3, OwnerHolds DEF ClaimInv, OnlyBy, Free, Owning
<1>5. Out' = Len(log) /\ (Claimed <=> claim[c] # NoFrame) /\ Len(log) \in Nat
  BY <1>0, <1>1, <1>3, OwnerHolds DEF Out, Claimed, TypeOK
<1>6. /\ frames' \in Seq(Frames) /\ Out' + Len(frames') = MaxFrames
      /\ \A i \in 1..Len(frames') : frames'[i] = Out' + i
  <2>1. CASE claim[c] = NoFrame
    BY <1>0, <1>1, <1>5, <2>1 DEF Unclaimed, OrderInv, Out, TypeOK
  <2>2. CASE claim[c] # NoFrame
    <3>1. /\ claim[c] = Len(log) + 1 /\ claim[c] \in Frames /\ Out = Len(log) + 1
          /\ frames' = <<claim[c]>> \o frames /\ frames \in Seq(Frames)
      BY <1>0, <1>1, <1>5, <2>2 DEF OrderInv, Out, TypeOK, Unclaimed
    <3>2. /\ frames' \in Seq(Frames) /\ Len(frames') = Len(frames) + 1
          /\ frames'[1] = claim[c] /\ Len(frames) \in Nat
          /\ \A i \in 1..Len(frames) : frames'[i + 1] = frames[i]
      BY <3>1
    <3>3. ASSUME NEW i \in 1..Len(frames') PROVE frames'[i] = Out' + i
      <4>1. CASE i = 1
        BY <1>5, <3>1, <3>2, <4>1
      <4>2. CASE i # 1
        <5>1. i - 1 \in 1..Len(frames) /\ (i - 1) + 1 = i
          BY <3>2, <4>2
        <5>2. frames'[i] = frames[i - 1]
          BY <3>2, <5>1
        <5>3. frames[i - 1] = Out + (i - 1)
          BY <1>0, <5>1 DEF OrderInv
        <5> QED BY <1>5, <3>1, <5>1, <5>2, <5>3
      <4> QED BY <4>1, <4>2
    <3>4. Out + Len(frames) = MaxFrames
      BY <1>0 DEF OrderInv
    <3> QED BY <1>5, <3>1, <3>2, <3>3, <3>4
  <2> QED BY <2>1, <2>2
<1>7. OrderInv'
  BY <1>0, <1>1, <1>3, <1>6 DEF OrderInv
<1>8. /\ log' \in Seq(Frames) /\ log' # <<>> /\ Len(log) <= Len(log')
      /\ reserved' \in BOOLEAN /\ calls' \in [Callers -> Nat] /\ UNCHANGED lifecycle
  <2>1. log' = log /\ lifecycle' = lifecycle /\ calls' = calls /\ reserved' \in BOOLEAN
    BY <1>1
  <2> QED BY <1>0, <1>5, <2>1 DEF TypeOK
<1>9. \A d \in Callers : stage[d] # "ended"
  BY <1>0, OwnerHolds
<1> QED BY <1>2, <1>3, <1>4, <1>6, <1>7, <1>8, <1>9, StepKeeps

-----------------------------------------------------------------------------
LEMMA ReplayStep == ASSUME ReplayInv, [Next]_vars PROVE ReplayInv'
<1>1. ASSUME NEW c \in Callers, Interrupt(c) PROVE ReplayInv'
  BY <1>1 DEF Interrupt, ReplayInv, TypeOK, ClaimInv, OrderInv, Out, Claimed, AnswerInv,
     Relies
<1>2. ASSUME NEW c \in Callers, Work(c) PROVE ReplayInv'
  BY <1>2, LookKeeps, ArbitrateKeeps, CommitFrameKeeps, ConsultKeeps, TryLockKeeps,
     TryReserveKeeps, CompareClaimedKeeps, CompareEndedKeeps, CommitClaimKeeps,
     PublishKeeps, RestoreKeeps DEF Work, Advance
<1>3. ASSUME NEW c \in Callers, NEW stamp \in 1..MaxFrames, Ask(c, stamp)
      PROVE  ReplayInv'
  BY <1>3, AskKeeps
<1>4. CASE Close
  BY <1>4 DEF Close, ReplayInv, TypeOK, ClaimInv, OrderInv, Out, Claimed, AnswerInv, Relies
<1>5. CASE UNCHANGED vars
  BY <1>5 DEF vars, ReplayInv, TypeOK, ClaimInv, OrderInv, Out, Claimed, AnswerInv, Relies
<1> QED BY <1>1, <1>2, <1>3, <1>4, <1>5 DEF Next

(* The invariant of a replay session, which is inductive.                  *)
THEOREM ReplayInvariant == Spec => []ReplayInv
BY ReplayInit, ReplayStep, PTL DEF Spec

-----------------------------------------------------------------------------
(* Frames that are numbered from one on, cut in three, are the source.     *)
LEMMA ThreeParts ==
    ASSUME NEW a \in Seq(Frames), NEW b \in Seq(Frames), NEW d \in Seq(Frames),
           Len(a) + Len(b) + Len(d) = MaxFrames,
           \A i \in 1..Len(a) : a[i] = i,
           \A i \in 1..Len(b) : b[i] = Len(a) + i,
           \A i \in 1..Len(d) : d[i] = Len(a) + Len(b) + i
    PROVE  a \o b \o d = Source
<1> DEFINE ab == a \o b
           abd == ab \o d
<1>1. /\ ab \in Seq(Frames) /\ Len(ab) = Len(a) + Len(b)
      /\ Len(a) \in Nat /\ Len(b) \in Nat /\ Len(d) \in Nat
      /\ \A i \in 1..Len(ab) : ab[i] = IF i <= Len(a) THEN a[i] ELSE b[i - Len(a)]
  OBVIOUS
<1>2. ASSUME NEW i \in 1..Len(ab) PROVE ab[i] = i
  <2>1. CASE i <= Len(a)
    BY <1>1, <2>1
  <2>2. CASE ~(i <= Len(a))
    <3>1. i - Len(a) \in 1..Len(b) /\ Len(a) + (i - Len(a)) = i
      BY <1>1, <2>2
    <3> QED BY <1>1, <2>2, <3>1
  <2> QED BY <2>1, <2>2
<1> HIDE DEF ab
<1>3. /\ abd \in Seq(Frames) /\ Len(abd) = MaxFrames
      /\ \A i \in 1..Len(abd) : abd[i] = IF i <= Len(ab) THEN ab[i] ELSE d[i - Len(ab)]
  BY <1>1
<1>4. ASSUME NEW i \in 1..Len(abd) PROVE abd[i] = i
  <2>1. CASE i <= Len(ab)
    BY <1>1, <1>2, <1>3, <2>1
  <2>2. CASE ~(i <= Len(ab))
    <3>1. i - Len(ab) \in 1..Len(d) /\ Len(ab) + (i - Len(ab)) = i
      BY <1>1, <1>3, <2>2
    <3> QED BY <1>1, <1>3, <2>2, <3>1
  <2> QED BY <2>1, <2>2
<1> HIDE DEF abd
<1>5. abd = [i \in 1..MaxFrames |-> i]
  BY <1>3, <1>4
<1> QED BY <1>5 DEF abd, ab, Source

LEMMA InvGivesOrder == ASSUME ReplayInv PROVE InSourceOrder
<1>0. TypeOK /\ ClaimInv /\ OrderInv
  BY DEF ReplayInv
<1>1. /\ log \in Seq(Frames) /\ frames \in Seq(Frames)
      /\ Len(log) \in Nat /\ Len(frames) \in Nat
  BY <1>0 DEF TypeOK
<1>2. log \o Held \o frames = Source
  <2>1. CASE Claimed
    <3>1. Holders # {} /\ (CHOOSE c \in Holders : TRUE) \in Holders
      BY <2>1 DEF Claimed, Holders
    <3>2. Held = <<Len(log) + 1>> /\ Len(log) + 1 \in Frames
      BY <1>0, <3>1 DEF Held, Holders, OrderInv, TypeOK
    <3>3. Held \in Seq(Frames) /\ Len(Held) = 1 /\ Held[1] = Len(log) + 1
      BY <1>1, <3>2
    <3>4. Out = Len(log) + Len(Held)
      BY <2>1, <3>3 DEF Out
    <3>5. /\ \A i \in 1..Len(Held) : Held[i] = Len(log) + i
          /\ \A i \in 1..Len(log) : log[i] = i
          /\ \A i \in 1..Len(frames) : frames[i] = Len(log) + Len(Held) + i
          /\ Len(log) + Len(Held) + Len(frames) = MaxFrames
      BY <1>0, <1>1, <3>3, <3>4 DEF OrderInv
    <3> QED BY <1>1, <3>3, <3>5, ThreeParts
  <2>2. CASE ~Claimed
    <3>1. Holders = {} /\ Out = Len(log)
      BY <2>2 DEF Claimed, Holders, Out
    <3>2. Held \in Seq(Frames) /\ Len(Held) = 0
      BY <3>1 DEF Held
    <3>3. /\ \A i \in 1..Len(Held) : Held[i] = Len(log) + i
          /\ \A i \in 1..Len(log) : log[i] = i
          /\ \A i \in 1..Len(frames) : frames[i] = Len(log) + Len(Held) + i
          /\ Len(log) + Len(Held) + Len(frames) = MaxFrames
      BY <1>0, <1>1, <3>1, <3>2 DEF OrderInv
    <3> QED BY <1>1, <3>2, <3>3, ThreeParts
  <2> QED BY <2>1, <2>2
<1>3. reserved <=> \E c \in Callers :
                      stage[c] \in {"claimed", "claiming", "publishing", "restoring"}
  BY <1>0 DEF ClaimInv, Owning
<1> QED BY <1>0, <1>2, <1>3 DEF InSourceOrder

(* Whatever claims are made, dropped, refused or answered by others, the   *)
(* frames published, claimed and left are the source, in its order         *)
(* (Remainder, Reservation).                                               *)
THEOREM ReplayInSourceOrder == Spec => []InSourceOrder
<1>1. ReplayInv => InSourceOrder
  BY InvGivesOrder
<1> QED BY <1>1, ReplayInvariant, PTL

-----------------------------------------------------------------------------
(* An empty queue that nobody has claimed from means that all was published. *)
LEMMA EndedIsAll ==
    ASSUME ReplayInv, frames = <<>>, ~reserved
    PROVE  log = Source /\ Len(log) = MaxFrames
<1>1. TypeOK /\ ClaimInv /\ OrderInv /\ Len(frames) = 0
  BY DEF ReplayInv
<1>2. ~Claimed
  BY <1>1 DEF ClaimInv, Claimed
<1>3. /\ log \in Seq(Frames) /\ Len(log) \in Nat /\ Len(log) = MaxFrames
      /\ \A i \in 1..Len(log) : log[i] = i
  BY <1>1, <1>2 DEF OrderInv, Out, TypeOK
<1> QED BY <1>3 DEF Source

Answered(c) ==
    stage'[c] = "idle" /\ stage[c] # "idle" =>
        /\ outcome'[c] = "StreamEnded" => log = Source /\ wanted[c] = MaxFrames
        /\ outcome'[c] = "Frame" =>
              chosen[c] > wanted[c] /\ chosen[c] <= Latest /\ lifecycle = "Open"

LEMMA WorkAnswers ==
    ASSUME ReplayInv, NEW c \in Callers, Work(c)
    PROVE  Answered(c) /\ \A d \in Callers : d # c => stage'[d] = stage[d]
<1>0. /\ TypeOK /\ Relies(c) /\ Latest = Len(log) /\ Len(log) \in Nat
      /\ wanted[c] \in Nat /\ wanted[c] <= Len(log)
  <2>1. TypeOK /\ OrderInv /\ Relies(c)
    BY DEF ReplayInv, AnswerInv
  <2>2. Latest = Len(log) /\ Len(log) \in Nat
    BY <2>1, LatestIs
  <2>3. wanted[c] \in Nat /\ wanted[c] <= Len(log)
    BY <2>1 DEF TypeOK, Relies, Frames
  <2> QED BY <2>1, <2>2, <2>3
<1>1. \A d \in Callers : d # c => stage'[d] = stage[d]
  BY <1>0 DEF Work, Advance, Look, Arbitrate, CommitFrame, Consult, TryLock, TryReserve,
     CompareClaimed, CompareEnded, CommitClaim, Publish, Restore, Return, GoTo, TypeOK
<1>2. CASE Look(c) \/ Arbitrate(c) \/ Consult(c)
  BY <1>0, <1>1, <1>2 DEF Look, Arbitrate, Consult, Return, GoTo, Outcome, TypeOK, Answered
<1>3. CASE CommitFrame(c)
  <2>1. chosen[c] # NoFrame /\ wanted[c] < chosen[c] /\ chosen[c] <= Len(log)
    BY <1>0, <1>3 DEF CommitFrame, Relies
  <2>2. chosen[c] \in Nat
    BY <1>0, <2>1 DEF TypeOK, Frames
  <2>3. outcome'[c] = IF lifecycle = "Open" THEN "Frame" ELSE "SessionClosed"
    BY <1>0, <1>3 DEF CommitFrame, Return, Outcome, TypeOK
  <2> QED BY <1>0, <1>1, <2>1, <2>2, <2>3 DEF Answered
<1>4. CASE TryLock(c) \/ TryReserve(c) \/ CompareClaimed(c) \/ CommitClaim(c) \/ Publish(c)
  BY <1>0, <1>1, <1>4 DEF TryLock, TryReserve, CompareClaimed, CommitClaim, Publish, GoTo,
     TypeOK, Answered
<1>5. CASE CompareEnded(c)
  <2>1. CASE Maintained(c)
    BY <1>0, <1>1, <1>5, <2>1 DEF CompareEnded, GoTo, TypeOK, Answered
  <2>2. CASE ~Maintained(c)
    <3>1. log = Source /\ Len(log) = MaxFrames
      BY <1>0, <1>5, EndedIsAll DEF CompareEnded, Relies
    <3>2. wanted[c] = MaxFrames
      BY <1>0, <2>2, <3>1 DEF Maintained
    <3>3. outcome'[c] = "StreamEnded"
      BY <1>0, <1>5, <2>2 DEF CompareEnded, Return, Outcome, TypeOK
    <3> QED BY <1>1, <3>1, <3>2, <3>3 DEF Answered
  <2> QED BY <2>1, <2>2
<1>6. CASE Restore(c)
  <2>1. CASE chosen[c] = NoFrame
    <3>1. outcome'[c] = outcome[c] /\ outcome[c] \in {"Interrupted", "SessionClosed"}
      BY <1>0, <1>6, <2>1 DEF Restore, Return, Outcome, TypeOK, Relies
    <3> QED BY <1>1, <3>1 DEF Answered
  <2>2. CASE chosen[c] # NoFrame
    BY <1>0, <1>1, <1>6, <2>2 DEF Restore, GoTo, TypeOK, Answered
  <2> QED BY <2>1, <2>2
<1> QED BY <1>1, <1>2, <1>3, <1>4, <1>5, <1>6 DEF Work, Advance

(* A request is told of the end only when all was published and it asked   *)
(* for more, and given only frames newer than its stamp, for any number of *)
(* competing requests (reserve, maintained_after).                         *)
THEOREM ReplayAnswersAreRight == Spec => AnswersAreRight
<1>1. ASSUME ReplayInv, [Next]_vars PROVE [\A c \in Callers : Answered(c)]_vars
  <2>1. ASSUME NEW d \in Callers, Work(d) PROVE \A c \in Callers : Answered(c)
    BY <1>1, <2>1, WorkAnswers DEF Answered
  <2>2. ASSUME NEW d \in Callers, NEW stamp \in 1..MaxFrames, Ask(d, stamp)
        PROVE  \A c \in Callers : Answered(c)
    BY <1>1, <2>2 DEF Ask, GoTo, ReplayInv, TypeOK, Answered
  <2>3. ASSUME NEW d \in Callers, Interrupt(d) PROVE \A c \in Callers : Answered(c)
    BY <2>3 DEF Interrupt, Answered
  <2>4. CASE Close
    BY <2>4 DEF Close, Answered
  <2> QED BY <1>1, <2>1, <2>2, <2>3, <2>4 DEF Next
<1>2. [\A c \in Callers : Answered(c)]_vars <=>
        [\A c \in Callers : stage'[c] = "idle" /\ stage[c] # "idle" =>
          /\ outcome'[c] = "StreamEnded" => log = Source /\ wanted[c] = MaxFrames
          /\ outcome'[c] = "Frame" =>
                chosen[c] > wanted[c] /\ chosen[c] <= Latest /\ lifecycle = "Open"]_vars
  BY DEF Answered
<1> QED BY <1>1, <1>2, ReplayInvariant, PTL DEF Spec, AnswersAreRight

-----------------------------------------------------------------------------
(* The Windows adapter in the same run.  What WindowsCapture_proofs proves *)
(* of it holds of this instance ...                                        *)
WindowsProofs == INSTANCE WindowsCapture_proofs WITH
        live <- winLive, owner <- winOwner, mine <- winMine,
        stream <- winStream, last <- winLast, accepting <- winAccepting,
        fenced <- winFenced, stage <- winStage, frame <- winFrame,
        transition <- winTransition, surfaces <- winSurfaces,
        target <- winTarget, ended <- winEnded, removed <- winRemoved,
        task <- winTask, result <- winResult, reported <- winReported,
        at <- winAt, on <- winOn, interrupted <- winInterrupted,
        permits <- winPermits, queue <- winQueue, executor <- winExecutor,
        lost <- winLost, job <- winJob, events <- winEvents

(* The constants of the adapter are of a kind, and there are finitely many *)
(* sessions.                                                               *)
WindowsConstants ==
    /\ IsFiniteSet(Sessions) /\ Permits \in Nat
    /\ None \notin [session : Sessions, drain : BOOLEAN]

LEMMA WindowsConstantsSuffice ==
    ASSUME WindowsConstants PROVE WindowsProofs!WindowsAssumption
BY DEF WindowsConstants, WindowsProofs!WindowsAssumption, WindowsProofs!Entry,
       WindowsProofs!IsFiniteSet, IsFiniteSet

(* ... for it is the same as the instance that the run makes, definition   *)
(* by definition ...                                                       *)
LEMMA SameWindowsInit == Windows!Init => WindowsProofs!Init
BY DEF Windows!All, Windows!Init, WindowsProofs!All, WindowsProofs!Init

LEMMA SameWindowsNext == [Windows!Next]_winVars => [WindowsProofs!Next]_WindowsProofs!vars
BY DEF Windows!Admit, Windows!Arrive, Windows!Await, Windows!Callback,
       Windows!Calling, Windows!Capped, Windows!Close, Windows!CloseStep,
       Windows!Continuity, Windows!Drain, Windows!DrainJob, Windows!Drop,
       Windows!DropClose, Windows!DropQueue, Windows!Enters, Windows!Event,
       Windows!Executor, Windows!Fail, Windows!Fence, Windows!Fenced,
       Windows!Finish, Windows!First, Windows!Framing, Windows!Gate,
       Windows!Gated, Windows!Goto, Windows!Inside, Windows!Interrupt,
       Windows!Known, Windows!Leave, Windows!Live, Windows!Lose, Windows!Move,
       Windows!Next, Windows!Open, Windows!Over, Windows!Panic, Windows!Publish,
       Windows!Recreate, Windows!Remove, Windows!Report, Windows!Resize,
       Windows!Return, Windows!Returned, Windows!Running, Windows!Runs,
       Windows!Send, Windows!Settle, Windows!StartClose, Windows!Step,
       Windows!Stop, Windows!Take, Windows!TakeCopied, Windows!TakeFails,
       Windows!TakeFenced, Windows!TakeFirst, Windows!TakeResized,
       Windows!Teardown, Windows!TurnBack, Windows!callers, Windows!closing,
       Windows!native, Windows!session, Windows!vars, Windows!workers,
       WindowsProofs!Admit, WindowsProofs!Arrive, WindowsProofs!Await,
       WindowsProofs!Callback, WindowsProofs!Calling, WindowsProofs!Capped,
       WindowsProofs!Close, WindowsProofs!CloseStep, WindowsProofs!Continuity,
       WindowsProofs!Drain, WindowsProofs!DrainJob, WindowsProofs!Drop,
       WindowsProofs!DropClose, WindowsProofs!DropQueue, WindowsProofs!Enters,
       WindowsProofs!Event, WindowsProofs!Executor, WindowsProofs!Fail,
       WindowsProofs!Fence, WindowsProofs!Fenced, WindowsProofs!Finish,
       WindowsProofs!First, WindowsProofs!Framing, WindowsProofs!Gate,
       WindowsProofs!Gated, WindowsProofs!Goto, WindowsProofs!Inside,
       WindowsProofs!Interrupt, WindowsProofs!Known, WindowsProofs!Leave,
       WindowsProofs!Live, WindowsProofs!Lose, WindowsProofs!Move,
       WindowsProofs!Next, WindowsProofs!Open, WindowsProofs!Over,
       WindowsProofs!Panic, WindowsProofs!Publish, WindowsProofs!Recreate,
       WindowsProofs!Remove, WindowsProofs!Report, WindowsProofs!Resize,
       WindowsProofs!Return, WindowsProofs!Returned, WindowsProofs!Running,
       WindowsProofs!Runs, WindowsProofs!Send, WindowsProofs!Settle,
       WindowsProofs!StartClose, WindowsProofs!Step, WindowsProofs!Stop,
       WindowsProofs!Take, WindowsProofs!TakeCopied, WindowsProofs!TakeFails,
       WindowsProofs!TakeFenced, WindowsProofs!TakeFirst,
       WindowsProofs!TakeResized, WindowsProofs!Teardown, WindowsProofs!TurnBack,
       WindowsProofs!callers, WindowsProofs!closing, WindowsProofs!native,
       WindowsProofs!session, WindowsProofs!vars, WindowsProofs!workers, winVars

LEMMA SameOwnedOnce == WindowsProofs!OwnedOnce => OwnedOnce
BY DEF Windows!Inside, Windows!OwnedOnce, Windows!Running, Windows!session,
       WindowsProofs!Inside, WindowsProofs!OwnedOnce, WindowsProofs!Running,
       WindowsProofs!session, Windows!Cardinality, WindowsProofs!Cardinality,
       OwnedOnce

LEMMA SameFramesAreMarked == WindowsProofs!FramesAreMarked => FramesAreMarked
BY PTL
       DEF Windows!FramesAreMarked, Windows!callers, Windows!closing, Windows!native,
           Windows!session, Windows!vars, Windows!workers,
           WindowsProofs!FramesAreMarked, WindowsProofs!callers,
           WindowsProofs!closing, WindowsProofs!native, WindowsProofs!session,
           WindowsProofs!vars, WindowsProofs!workers, FramesAreMarked

(* ... and a step of the run is one of the Windows adapter or leaves it    *)
(* alone.                                                                  *)
LEMMA AdapterIsWindows == AdapterSpec => WindowsProofs!Spec
<1>1. [AdapterNext]_<<adapter, vars, winVars>> => [Windows!Next]_winVars
  BY DEF AdapterNext
<1> QED BY <1>1, SameWindowsInit, SameWindowsNext, PTL
        DEF AdapterSpec, AdapterInit, WindowsProofs!Spec

(* In every execution of the run each permit, native resource and teardown *)
(* job of the Windows adapter has one owner, and what is released is behind *)
(* its fence (close_native, drain, Drop).                                  *)
THEOREM AdapterOwnsOnce == ASSUME WindowsConstants PROVE AdapterSpec => []OwnedOnce
<1>1. WindowsProofs!Spec => []WindowsProofs!OwnedOnce
  BY WindowsConstantsSuffice, WindowsProofs!ResourcesOwnedOnce
<1> QED BY <1>1, AdapterIsWindows, SameOwnedOnce, PTL

(* In every execution of the run a frame of the Windows adapter is marked  *)
(* with what happened to its source since the last one (continuity,        *)
(* accepts_frame_geometry, pool_recreated).                                *)
THEOREM AdapterMarksFrames == AdapterSpec => FramesAreMarked
<1>1. WindowsProofs!Spec => WindowsProofs!FramesAreMarked
  BY WindowsProofs!FramesMarked
<1> QED BY <1>1, AdapterIsWindows, SameFramesAreMarked, PTL

=============================================================================
