------------------------ MODULE WindowsCapture_proofs ------------------------
(***************************************************************************)
(* Proofs about the capture sessions of the Windows adapter, for any       *)
(* sessions, callbacks, threads that close, workers and permits: native    *)
(* resources are released once and by whom they should be, and frames are  *)
(* marked with what happened to their source since the last one.           *)
(***************************************************************************)
EXTENDS WindowsCapture, FiniteSetTheorems, TLAPS

(* What is told to the workers.                                            *)
Entry == [session : Sessions, drain : BOOLEAN]

(* The constants are of a kind, and the process has finitely many sessions. *)
WindowsAssumption ==
    /\ IsFiniteSet(Sessions) /\ Permits \in Nat
    /\ None \notin Entry

Stages == {"idle", "dispatched", "admitted", "recreating", "copying", "failing", "leaving"}
Outside == {"idle", "dispatched"}
Places == Returned \cup {"stopping", "gating", "removing", "draining", "fencing", "sending",
                         "awaiting", "reporting", "settling"}
Owners == {"none", "runtime", "job", "released", "discarded", "callback", "quarantined"}
HandedOver == {"job", "released", "discarded", "callback"}

ControlType ==
    /\ live \in [Sessions -> {"none", "open", "dropping", "gone"}]
    /\ owner \in [Sessions -> Owners]
    /\ accepting \in [Sessions -> BOOLEAN] /\ fenced \in [Sessions -> BOOLEAN]
    /\ task \in [Sessions -> {"none", "running", "ok", "fault", "lost"}]
    /\ result \in [Sessions -> {"none", "ok", "fault"}]
    /\ stage \in [Sessions -> [Callbacks -> Stages]]
    /\ at \in [Closers -> Places] /\ on \in [Closers -> Sessions \cup {None}]
    /\ permits \in Nat /\ queue \in Seq(Entry) /\ job \in [Workers -> Entry \cup {None}]

(* A permit is out for every session whose resources exist.                *)
Held == {s \in Sessions : owner[s] \notin {"none", "released", "discarded"}}
PermitsOut == permits + Cardinality(Held) = Permits

(* Resources leave a session once, with a task or its result to show for   *)
(* it, and behind the fence nobody is inside.                              *)
SessionInv(s) ==
    /\ owner[s] = "none" <=> live[s] = "none"
    /\ owner[s] = "quarantined" => live[s] = "gone"
    /\ owner[s] \in HandedOver => task[s] # "none" \/ result[s] # "none"
    /\ result[s] # "none" \/ task[s] \in {"ok", "fault", "lost"} =>
          owner[s] \in {"released", "discarded", "callback"}
    /\ fenced[s] => \A k \in Callbacks : stage[s][k] \in Outside
    /\ owner[s] = "released" => fenced[s]

(* How far a close call has come.                                          *)
CloserInv(d) ==
    at[d] \notin Returned =>
        /\ on[d] \in Sessions /\ live[on[d]] = "open"
        /\ at[d] # "stopping" => ~accepting[on[d]]
        /\ at[d] = "fencing" => \A k \in Callbacks : stage[on[d]][k] \in Outside
        /\ at[d] \in {"sending", "awaiting", "reporting", "settling"} => fenced[on[d]]
        /\ at[d] = "awaiting" => task[on[d]] # "none" \/ result[on[d]] # "none"

(* A job that does not have to drain any more finds the fence.             *)
Entrusted(j) == owner[j.session] = "job" /\ (~j.drain => fenced[j.session])

(* No two jobs are for one session, wherever they are.                     *)
JobsInv ==
    /\ \A i \in 1..Len(queue) : Entrusted(queue[i])
    /\ \A w \in Workers : Running(w) => Entrusted(job[w])
    /\ \A i, j \in 1..Len(queue) : i # j => queue[i].session # queue[j].session
    /\ \A i \in 1..Len(queue), w \in Workers :
          Running(w) => queue[i].session # job[w].session
    /\ \A w, v \in Workers :
          Running(w) /\ Running(v) /\ w # v => job[w].session # job[v].session

TeardownInv ==
    /\ ControlType /\ PermitsOut /\ JobsInv
    /\ \A s \in Sessions : SessionInv(s)
    /\ \A d \in Closers : CloserInv(d)

USE DEF session, closing, native, callers, workers, All

-----------------------------------------------------------------------------
(* The permits.                                                            *)

LEMMA HeldFinite ==
    ASSUME WindowsAssumption
    PROVE  /\ Held \subseteq Sessions /\ IsFiniteSet(Held) /\ Cardinality(Held) \in Nat
BY FS_Subset, FS_CardinalityType DEF WindowsAssumption, Held

LEMMA PermitsSteady ==
    ASSUME PermitsOut, permits' = permits, owner' = owner
    PROVE  PermitsOut'
BY DEF PermitsOut, Held

(* Resources go: their permit comes back, and the bound of the counter is  *)
(* not met.                                                                *)
LEMMA PermitBack ==
    ASSUME WindowsAssumption, ControlType, PermitsOut, NEW s \in Held,
           Held' = Held \ {s}, permits' = Capped(permits + 1)
    PROVE  PermitsOut' /\ permits' \in Nat
<1>1. /\ Cardinality(Held \ {s}) = Cardinality(Held) - 1
      /\ Cardinality(Held) \in Nat /\ Cardinality(Held \ {s}) \in Nat
  <2>1. IsFiniteSet(Held)
    BY HeldFinite
  <2>2. IsFiniteSet(Held \ {s}) /\ Cardinality(Held \ {s}) = Cardinality(Held) - 1
    BY <2>1, FS_RemoveElement
  <2> QED BY <2>1, <2>2, FS_CardinalityType
<1>2. permits \in Nat /\ permits + Cardinality(Held) = Permits /\ Permits \in Nat
  BY DEF ControlType, PermitsOut, WindowsAssumption
<1>3. permits' = permits + 1
  BY <1>1, <1>2 DEF Capped
<1> QED BY <1>1, <1>2, <1>3 DEF PermitsOut

LEMMA PermitTaken ==
    ASSUME WindowsAssumption, ControlType, PermitsOut, NEW s \in Sessions, s \notin Held,
           Held' = Held \cup {s}, permits > 0, permits' = permits - 1
    PROVE  PermitsOut' /\ permits' \in Nat
<1>1. /\ Cardinality(Held \cup {s}) = Cardinality(Held) + 1
      /\ Cardinality(Held) \in Nat
  BY HeldFinite, FS_AddElement
<1> QED BY <1>1 DEF ControlType, PermitsOut

-----------------------------------------------------------------------------
(* The start.                                                              *)

LEMMA TeardownStart == WindowsAssumption /\ Init => TeardownInv
<1> SUFFICES ASSUME WindowsAssumption, Init PROVE TeardownInv
  OBVIOUS
<1>1. ControlType
  BY DEF WindowsAssumption, Init, ControlType, Owners, Stages, Places, Returned
<1>2. PermitsOut
  <2>1. Held = {}
    BY DEF Init, Held
  <2> QED BY <2>1, FS_EmptySet DEF WindowsAssumption, Init, PermitsOut
<1>3. JobsInv
  BY DEF Init, JobsInv, Running
<1>4. \A s \in Sessions : SessionInv(s)
  BY DEF Init, SessionInv, HandedOver
<1>5. \A d \in Closers : CloserInv(d)
  BY DEF Init, CloserInv, Returned
<1> QED BY <1>1, <1>2, <1>3, <1>4, <1>5 DEF TeardownInv

-----------------------------------------------------------------------------
(* What a step leaves alone.                                               *)

LEMMA QueueTypes ==
    ASSUME TeardownInv, NEW i \in 1..Len(queue)
    PROVE  queue[i] \in Entry /\ queue[i].session \in Sessions
<1>1. queue[i] \in Entry
  BY DEF TeardownInv, ControlType
<1> QED BY <1>1 DEF Entry

LEMMA JobTypes ==
    ASSUME TeardownInv, NEW w \in Workers, Running(w)
    PROVE  job[w] \in Entry /\ job[w].session \in Sessions
<1>1. job[w] \in Entry
  BY DEF TeardownInv, ControlType, Running
<1> QED BY <1>1 DEF Entry

LEMMA JobsSteady ==
    ASSUME TeardownInv, queue' = queue, job' = job,
           \A s \in Sessions : /\ owner[s] = "job" => owner'[s] = "job"
                               /\ fenced[s] => fenced'[s]
    PROVE  JobsInv'
<1>1. \A s \in Sessions : \A j : j.session = s /\ Entrusted(j) => Entrusted(j)'
  BY DEF Entrusted
<1> QED BY <1>1, QueueTypes, JobTypes DEF TeardownInv, JobsInv, Running

(* A callback goes on; it comes inside only where it is let in.            *)
LEMMA StageStep ==
    ASSUME TeardownInv, NEW s \in Sessions, NEW k \in Callbacks, NEW n \in Stages,
           Step(s, k, n),
           \/ n \in Outside \/ stage[s][k] \notin Outside
           \/ accepting[s] /\ ~fenced[s],
           accepting' = accepting \/ accepting' = [accepting EXCEPT ![s] = FALSE],
           UNCHANGED <<live, owner, fenced, task, result, at, on, permits, queue, job>>
    PROVE  TeardownInv'
<1>1. /\ stage'[s][k] = n
      /\ \A r \in Sessions, c \in Callbacks : r # s \/ c # k => stage'[r][c] = stage[r][c]
  BY DEF Step, TeardownInv, ControlType
<1>2. /\ accepting' \in [Sessions -> BOOLEAN]
      /\ \A r \in Sessions : ~accepting[r] => ~accepting'[r]
  BY DEF TeardownInv, ControlType
<1>3. ControlType'
  <2>1. stage' \in [Sessions -> [Callbacks -> Stages]]
    BY DEF Step, TeardownInv, ControlType
  <2> QED BY <1>2, <2>1 DEF TeardownInv, ControlType
<1>4. PermitsOut' /\ JobsInv'
  BY JobsSteady, PermitsSteady DEF TeardownInv
<1>5. ASSUME NEW r \in Sessions PROVE SessionInv(r)'
  <2>1. SessionInv(r)
    BY DEF TeardownInv
  <2>2. fenced[r] => \A c \in Callbacks : stage'[r][c] \in Outside
    BY <1>1, <2>1 DEF SessionInv
  <2> QED BY <2>1, <2>2 DEF SessionInv
<1>6. ASSUME NEW d \in Closers PROVE CloserInv(d)'
  <2>1. CloserInv(d)
    BY DEF TeardownInv
  <2>2. at[d] = "fencing" => \A c \in Callbacks : stage'[on[d]][c] \in Outside
    BY <1>1, <2>1 DEF CloserInv, Returned
  <2> QED BY <1>2, <2>1, <2>2 DEF CloserInv
<1> QED BY <1>3, <1>4, <1>5, <1>6 DEF TeardownInv

LEMMA CallbackKeeps ==
    ASSUME TeardownInv, NEW s \in Sessions, NEW k \in Callbacks,
           \/ Arrive(s, k) \/ Lose(s, k)
           \/ Admit(s, k) \/ TurnBack(s, k) \/ TakeFails(s, k) \/ TakeResized(s, k)
           \/ TakeFenced(s, k) \/ TakeCopied(s, k) \/ Publish(s, k)
           \/ Fail(s, k) \/ Leave(s, k)
    PROVE  TeardownInv'
<1>1. CASE Arrive(s, k) \/ Leave(s, k)
  <2>1. Step(s, k, "dispatched") \/ Step(s, k, "idle")
    BY <1>1 DEF Arrive, Leave, Step
  <2> QED BY <1>1, <2>1, StageStep DEF Arrive, Leave, Stages, Outside
<1>2. CASE Lose(s, k)
  <2>1. \/ Step(s, k, "failing") /\ accepting[s] /\ ~fenced[s]
        \/ Step(s, k, "idle")
    BY <1>2 DEF Lose, Step
  <2> QED BY <1>2, <2>1, StageStep DEF Lose, Stages, Outside
<1>3. CASE Admit(s, k)
  <2>1. \/ Step(s, k, "admitted") /\ accepting[s] /\ ~fenced[s]
        \/ Step(s, k, "idle")
    BY <1>3 DEF Admit
  <2> QED BY <1>3, <2>1, StageStep DEF Admit, Stages, Outside
<1>4. CASE \/ TurnBack(s, k) \/ TakeFails(s, k) \/ TakeResized(s, k)
           \/ TakeFenced(s, k) \/ TakeCopied(s, k)
  <2>1. stage[s][k] = "admitted"
    BY <1>4 DEF TurnBack, TakeFails, TakeResized, TakeFenced, TakeCopied, Enters
  <2>2. \E n \in {"leaving", "failing", "recreating", "copying"} : Step(s, k, n)
    BY <1>4 DEF TurnBack, TakeFails, TakeResized, TakeFenced, TakeCopied
  <2>3. UNCHANGED <<accepting, live, owner, fenced, task, result, at, on, permits, queue, job>>
    BY <1>4 DEF TurnBack, TakeFails, TakeResized, TakeFenced, TakeCopied
  <2> QED BY <2>1, <2>2, <2>3, StageStep DEF Stages, Outside
<1>5. CASE Publish(s, k) \/ Fail(s, k)
  <2>1. /\ stage[s][k] \in {"copying", "failing"} /\ Step(s, k, "leaving")
        /\ accepting' = accepting \/ accepting' = [accepting EXCEPT ![s] = FALSE]
        /\ UNCHANGED <<live, owner, fenced, task, result, at, on, permits, queue, job>>
    BY <1>5 DEF Publish, Fail
  <2> QED BY <2>1, StageStep DEF Stages, Outside
<1> QED BY <1>1, <1>2, <1>3, <1>4, <1>5

-----------------------------------------------------------------------------
(* Close calls.                                                            *)

(* A call goes on, and admission may stop.                                 *)
LEMMA CallStep ==
    ASSUME TeardownInv, NEW d \in Closers,
           at'[d] \in Places, on'[d] \in Sessions \cup {None}, CloserInv(d)',
           at' = [at EXCEPT ![d] = at'[d]], on' = [on EXCEPT ![d] = on'[d]],
           accepting' = accepting
             \/ \E s \in Sessions : accepting' = [accepting EXCEPT ![s] = FALSE],
           UNCHANGED <<live, owner, fenced, task, result, stage, permits, queue, job>>
    PROVE  TeardownInv'
<1>1. /\ accepting' \in [Sessions -> BOOLEAN]
      /\ \A r \in Sessions : ~accepting[r] => ~accepting'[r]
  BY DEF TeardownInv, ControlType
<1>2. ControlType'
  <2>1. at' \in [Closers -> Places] /\ on' \in [Closers -> Sessions \cup {None}]
    BY DEF TeardownInv, ControlType
  <2> QED BY <1>1, <2>1 DEF TeardownInv, ControlType
<1>3. PermitsOut' /\ JobsInv'
  BY JobsSteady, PermitsSteady DEF TeardownInv
<1>4. \A r \in Sessions : SessionInv(r)'
  BY DEF TeardownInv, SessionInv
<1>5. ASSUME NEW e \in Closers, e # d PROVE CloserInv(e)'
  <2>1. CloserInv(e) /\ at'[e] = at[e] /\ on'[e] = on[e]
    BY <1>5 DEF TeardownInv, ControlType
  <2> QED BY <1>1, <2>1 DEF CloserInv
<1> QED BY <1>2, <1>3, <1>4, <1>5 DEF TeardownInv

LEMMA ReturnKeeps ==
    ASSUME TeardownInv, NEW d \in Closers, NEW what \in Returned, Return(d, what),
           UNCHANGED <<accepting, live, owner, fenced, task, result, stage, permits, queue, job>>
    PROVE  TeardownInv'
<1>1. at' = [at EXCEPT ![d] = what] /\ on' = [on EXCEPT ![d] = None]
  BY DEF Return, Goto
<1>2. at'[d] = what /\ on'[d] = None
  BY <1>1 DEF TeardownInv, ControlType
<1>3. CloserInv(d)'
  BY <1>2 DEF CloserInv
<1> QED BY <1>1, <1>2, <1>3, CallStep DEF Places

LEMMA GoKeeps ==
    ASSUME TeardownInv, NEW d \in Closers, NEW n \in Places, Goto(d, n), on' = on,
           accepting' = accepting \/ accepting' = [accepting EXCEPT ![on[d]] = FALSE],
           at[d] \notin Returned, n # "stopping",
           at[d] = "stopping" => ~accepting'[on[d]],
           n = "fencing" => \A k \in Callbacks : stage[on[d]][k] \in Outside,
           n \in {"sending", "awaiting", "reporting", "settling"} => fenced[on[d]],
           n = "awaiting" => task[on[d]] # "none" \/ result[on[d]] # "none",
           UNCHANGED <<live, owner, fenced, task, result, stage, permits, queue, job>>
    PROVE  TeardownInv'
<1>1. at' = [at EXCEPT ![d] = n] /\ at'[d] = n /\ on' = [on EXCEPT ![d] = on[d]]
  BY DEF Goto, TeardownInv, ControlType
<1>2. CloserInv(d) /\ on[d] \in Sessions
  BY DEF TeardownInv, CloserInv
<1>3. ~accepting'[on[d]]
  BY <1>2 DEF CloserInv, TeardownInv, ControlType
<1>4. CloserInv(d)'
  BY <1>1, <1>2, <1>3 DEF CloserInv
<1> QED BY <1>1, <1>2, <1>4, CallStep

LEMMA CallKeeps ==
    ASSUME TeardownInv, NEW d \in Closers,
           \/ \E s \in Sessions : Close(d, s)
           \/ Stop(d) \/ Gate(d) \/ Remove(d) \/ Drain(d) \/ Report(d) \/ Settle(d)
    PROVE  TeardownInv'
<1>0. CloserInv(d) /\ on[d] \in Sessions \cup {None}
  BY DEF TeardownInv, ControlType
<1>1. ASSUME NEW s \in Sessions, Close(d, s) PROVE TeardownInv'
  <2>1. /\ at' = [at EXCEPT ![d] = "stopping"] /\ on' = [on EXCEPT ![d] = s]
        /\ UNCHANGED <<accepting, live, owner, fenced, task, result, stage, permits, queue, job>>
        /\ live[s] = "open"
    BY <1>1 DEF Close, Goto
  <2>2. at'[d] = "stopping" /\ on'[d] = s
    BY <2>1 DEF TeardownInv, ControlType
  <2>3. CloserInv(d)'
    BY <2>1, <2>2 DEF CloserInv
  <2> QED BY <2>1, <2>2, <2>3, CallStep DEF Places
<1>2. CASE Stop(d)
  <2>1. at[d] = "stopping" /\ at[d] \notin Returned
    BY <1>2 DEF Stop, Returned
  <2>2. ~accepting'[on[d]]
    BY <1>0, <1>2, <2>1 DEF Stop, CloserInv, TeardownInv, ControlType
  <2> QED BY <1>2, <2>1, <2>2, GoKeeps DEF Stop, Places
<1>3. CASE Gate(d) \/ Report(d)
  <2>1. CASE \E what \in Returned : Return(d, what)
    BY <1>3, <2>1, ReturnKeeps DEF Gate, Report
  <2>2. CASE Gate(d) /\ Goto(d, "removing") /\ on' = on
    <3>1. at[d] = "gating" /\ at[d] \notin Returned
      BY <2>2 DEF Gate, Returned
    <3> QED BY <2>2, <3>1, GoKeeps DEF Gate, Places
  <2>3. CASE Report(d) /\ Goto(d, "settling") /\ on' = on
    <3>1. at[d] = "reporting" /\ at[d] \notin Returned /\ fenced[on[d]]
      BY <1>0, <2>3 DEF Report, Returned, CloserInv
    <3> QED BY <2>3, <3>1, GoKeeps DEF Report, Places
  <2> QED BY <1>3, <2>1, <2>2, <2>3 DEF Gate, Report, Returned
<1>4. CASE Remove(d)
  <2>1. at[d] = "removing" /\ at[d] \notin Returned
    BY <1>4 DEF Remove, Returned
  <2> QED BY <1>4, <2>1, GoKeeps DEF Remove, Places
<1>5. CASE Drain(d)
  <2>1. at[d] = "draining" /\ at[d] \notin Returned /\ on[d] \in Sessions
    BY <1>0, <1>5 DEF Drain, Returned, CloserInv
  <2>2. CASE d \in interrupted
    BY <1>5, <2>2, ReturnKeeps DEF Drain, Returned
  <2>3. CASE d \notin interrupted /\ fenced[on[d]]
    BY <1>5, <2>1, <2>3, GoKeeps DEF Drain, Places
  <2>4. CASE d \notin interrupted /\ ~fenced[on[d]]
    <3>1. \A k \in Callbacks : stage[on[d]][k] \in Outside
      BY <1>5, <2>4 DEF Drain, Inside, Outside
    <3> QED BY <1>5, <2>1, <2>4, <3>1, GoKeeps DEF Drain, Places
  <2> QED BY <2>2, <2>3, <2>4
<1>6. CASE Settle(d)
  BY <1>6, ReturnKeeps DEF Settle, Returned
<1> QED BY <1>1, <1>2, <1>3, <1>4, <1>5, <1>6

(* The fence goes up, and nobody is inside.                                *)
LEMMA FenceStep ==
    ASSUME TeardownInv, NEW s \in Sessions, fenced' = [fenced EXCEPT ![s] = TRUE],
           \A k \in Callbacks : stage[s][k] \in Outside,
           UNCHANGED <<live, owner, accepting, task, result, stage, on, permits, queue>>
    PROVE  /\ PermitsOut' /\ fenced' \in [Sessions -> BOOLEAN]
           /\ \A r \in Sessions : SessionInv(r)' /\ (fenced[r] => fenced'[r])
           /\ \A d \in Closers : at'[d] = at[d] => CloserInv(d)'
<1>1. /\ fenced' \in [Sessions -> BOOLEAN] /\ fenced'[s]
      /\ \A r \in Sessions : r # s => fenced'[r] = fenced[r]
  BY DEF TeardownInv, ControlType
<1>2. \A r \in Sessions : SessionInv(r)'
  BY <1>1 DEF TeardownInv, SessionInv
<1>3. ASSUME NEW d \in Closers, at'[d] = at[d] PROVE CloserInv(d)'
  <2>1. CloserInv(d)
    BY DEF TeardownInv
  <2> QED BY <1>1, <1>3, <2>1 DEF CloserInv
<1> QED BY <1>1, <1>2, <1>3, PermitsSteady DEF TeardownInv

LEMMA FenceKeeps ==
    ASSUME TeardownInv, NEW d \in Closers, Fence(d)
    PROVE  TeardownInv'
<1> DEFINE s == on[d]
<1>1. /\ CloserInv(d) /\ at[d] = "fencing" /\ at[d] \notin Returned /\ s \in Sessions
      /\ \A k \in Callbacks : stage[s][k] \in Outside
  BY DEF Fence, TeardownInv, CloserInv, Returned
<1>2. /\ at'[d] = "sending" /\ at' \in [Closers -> Places]
      /\ \A e \in Closers : e # d => at'[e] = at[e]
  BY DEF Fence, Goto, TeardownInv, ControlType, Places
<1>3. /\ PermitsOut' /\ fenced' \in [Sessions -> BOOLEAN]
      /\ \A r \in Sessions : SessionInv(r)' /\ (fenced[r] => fenced'[r])
      /\ \A e \in Closers : e # d => CloserInv(e)'
  BY <1>1, <1>2, FenceStep DEF Fence
<1>4. CloserInv(d)'
  <2>1. fenced'[s]
    BY <1>1 DEF Fence, TeardownInv, ControlType
  <2> QED BY <1>1, <1>2, <2>1 DEF Fence, CloserInv
<1>5. JobsInv'
  BY <1>3, JobsSteady DEF Fence
<1>6. ControlType'
  BY <1>2, <1>3 DEF Fence, TeardownInv, ControlType
<1> QED BY <1>3, <1>4, <1>5, <1>6 DEF TeardownInv

(* The answer is taken: a task that has one is over, and what it was about *)
(* has left the session.                                                   *)
LEMMA AwaitKeeps ==
    ASSUME TeardownInv, NEW d \in Closers, Await(d)
    PROVE  TeardownInv'
<1> DEFINE s == on[d]
<1>1. /\ CloserInv(d) /\ at[d] = "awaiting" /\ at[d] \notin Returned /\ s \in Sessions
      /\ fenced[s] /\ (task[s] # "none" \/ result[s] # "none")
  BY DEF Await, TeardownInv, CloserInv, Returned
<1>2. CASE ~(result[s] # "none" \/ task[s] # "running")
  BY <1>2, ReturnKeeps DEF Await, Returned
<1>3. CASE result[s] # "none" \/ task[s] # "running"
  <2> DEFINE r == IF result[s] # "none" THEN result[s]
                  ELSE IF task[s] = "ok" THEN "ok" ELSE "fault"
  <2>1. /\ result' = [result EXCEPT ![s] = r] /\ task' = [task EXCEPT ![s] = "none"]
        /\ at' = [at EXCEPT ![d] = "reporting"]
        /\ UNCHANGED <<on, live, owner, accepting, fenced, stage, permits, queue, job>>
    BY <1>3 DEF Await, Goto
  <2>2. r \in {"ok", "fault"}
    BY <1>1 DEF TeardownInv, ControlType
  <2>3. owner[s] \in {"released", "discarded", "callback"}
    BY <1>1, <1>3 DEF TeardownInv, SessionInv, ControlType
  <2> HIDE DEF r
  <2>4. /\ result'[s] = r /\ task'[s] = "none" /\ at'[d] = "reporting"
        /\ \A p \in Sessions : p # s => result'[p] = result[p] /\ task'[p] = task[p]
        /\ \A e \in Closers : e # d => at'[e] = at[e]
    BY <1>1, <2>1 DEF TeardownInv, ControlType
  <2>5. ControlType'
    BY <1>1, <2>1, <2>2 DEF TeardownInv, ControlType, Places
  <2>6. PermitsOut' /\ JobsInv'
    BY <2>1, PermitsSteady, JobsSteady DEF TeardownInv
  <2>7. ASSUME NEW p \in Sessions PROVE SessionInv(p)'
    <3>1. SessionInv(p)
      BY DEF TeardownInv
    <3> QED BY <2>1, <2>2, <2>3, <2>4, <3>1 DEF SessionInv
  <2>8. ASSUME NEW e \in Closers PROVE CloserInv(e)'
    <3>1. CloserInv(e)
      BY DEF TeardownInv
    <3>2. CASE e = d
      BY <1>1, <2>1, <2>4, <3>2 DEF CloserInv
    <3>3. CASE e # d
      BY <2>1, <2>2, <2>4, <3>1, <3>3 DEF CloserInv
    <3> QED BY <3>2, <3>3
  <2> QED BY <2>5, <2>6, <2>7, <2>8 DEF TeardownInv
<1> QED BY <1>2, <1>3

-----------------------------------------------------------------------------
(* Resources are handed to the workers.                                    *)

LEMMA SendStep ==
    ASSUME TeardownInv, NEW s \in Sessions, NEW drain \in BOOLEAN, Send(s, drain),
           owner[s] = "runtime", drain \/ fenced[s], live'[s] # "none",
           \A r \in Sessions : r # s => live'[r] = live[r],
           UNCHANGED <<fenced, result, stage, permits, job>>
    PROVE  /\ queue' \in Seq(Entry) /\ owner' \in [Sessions -> Owners]
           /\ task' \in [Sessions -> {"none", "running", "ok", "fault", "lost"}]
           /\ task'[s] = "running" /\ \A r \in Sessions : r # s => task'[r] = task[r]
           /\ JobsInv' /\ PermitsOut' /\ \A r \in Sessions : SessionInv(r)'
<1> DEFINE e == [session |-> s, drain |-> drain]
<1>1. /\ queue' = Append(queue, e) /\ owner' = [owner EXCEPT ![s] = "job"]
      /\ task' = [task EXCEPT ![s] = "running"] /\ queue \in Seq(Entry)
      /\ owner \in [Sessions -> Owners]
      /\ task \in [Sessions -> {"none", "running", "ok", "fault", "lost"}]
  BY DEF Send, TeardownInv, ControlType
<1>2. e \in Entry /\ e.session = s /\ e.drain = drain
  BY DEF Entry
<1> HIDE DEF e
<1>3. /\ owner'[s] = "job" /\ task'[s] = "running"
      /\ \A r \in Sessions : r # s => owner'[r] = owner[r] /\ task'[r] = task[r]
      /\ owner' \in [Sessions -> Owners]
      /\ task' \in [Sessions -> {"none", "running", "ok", "fault", "lost"}]
  BY <1>1 DEF Owners
<1>4. /\ queue' \in Seq(Entry) /\ Len(queue) \in Nat /\ Len(queue') = Len(queue) + 1
      /\ \A i \in 1..Len(queue) : queue'[i] = queue[i]
      /\ queue'[Len(queue) + 1] = e
  BY <1>1, <1>2
<1>5. JobsInv'
  <2>1. \A i \in 1..Len(queue) : Entrusted(queue[i])' /\ queue'[i].session # s
    <3> SUFFICES ASSUME NEW i \in 1..Len(queue)
                 PROVE  Entrusted(queue[i])' /\ queue'[i].session # s
      OBVIOUS
    <3>1. queue'[i] = queue[i] /\ queue[i].session \in Sessions /\ Entrusted(queue[i])
      BY <1>4, QueueTypes DEF TeardownInv, JobsInv
    <3> QED BY <1>3, <3>1 DEF Entrusted
  <2>2. \A w \in Workers : Running(w) => Entrusted(job[w])' /\ job[w].session # s
    <3> SUFFICES ASSUME NEW w \in Workers, Running(w)
                 PROVE  Entrusted(job[w])' /\ job[w].session # s
      OBVIOUS
    <3>1. job[w].session \in Sessions /\ Entrusted(job[w])
      BY JobTypes DEF TeardownInv, JobsInv
    <3> QED BY <1>3, <3>1 DEF Entrusted
  <2>3. \A i \in 1..Len(queue') : i \in 1..Len(queue) \/ i = Len(queue) + 1
    BY <1>4
  <2>4. \A i \in 1..Len(queue') : Entrusted(queue[i])'
    <3> SUFFICES ASSUME NEW i \in 1..Len(queue') PROVE Entrusted(queue[i])'
      OBVIOUS
    <3>1. CASE i = Len(queue) + 1
      BY <1>2, <1>3, <1>4, <3>1 DEF Entrusted
    <3> QED BY <2>1, <2>3, <3>1
  <2>5. \A i, j \in 1..Len(queue') : i # j => queue'[i].session # queue'[j].session
    BY <1>2, <1>4, <2>1, <2>3 DEF TeardownInv, JobsInv
  <2>6. \A i \in 1..Len(queue'), w \in Workers :
           Running(w) => queue'[i].session # job[w].session
    BY <1>2, <1>4, <2>2, <2>3 DEF TeardownInv, JobsInv
  <2> QED BY <2>2, <2>4, <2>5, <2>6 DEF TeardownInv, JobsInv, Running
<1>6. PermitsOut'
  <2>1. Held' = Held
    BY <1>3 DEF Held
  <2> QED BY <2>1 DEF TeardownInv, PermitsOut
<1>7. ASSUME NEW r \in Sessions PROVE SessionInv(r)'
  <2>1. SessionInv(r)
    BY DEF TeardownInv
  <2>2. CASE r = s
    BY <1>3, <2>1, <2>2 DEF SessionInv, HandedOver
  <2>3. CASE r # s
    BY <1>3, <2>1, <2>3 DEF SessionInv
  <2> QED BY <2>2, <2>3
<1> QED BY <1>3, <1>4, <1>5, <1>6, <1>7

LEMMA StartCloseKeeps ==
    ASSUME TeardownInv, NEW d \in Closers, StartClose(d)
    PROVE  TeardownInv'
<1> DEFINE s == on[d]
<1>1. /\ CloserInv(d) /\ at[d] = "sending" /\ at[d] \notin Returned /\ s \in Sessions
      /\ fenced[s] /\ live[s] = "open"
  BY DEF StartClose, TeardownInv, CloserInv, Returned
<1>2. CASE \E what \in Returned :
              Return(d, what) /\ UNCHANGED <<session, closing, workers, native, stage>>
  BY <1>2, ReturnKeeps
<1>3. CASE /\ task[s] # "none" \/ result[s] # "none"
           /\ Goto(d, "awaiting")
           /\ UNCHANGED <<session, closing, on, workers, native, stage>>
  BY <1>1, <1>3, GoKeeps DEF Places
<1>4. CASE /\ task[s] = "none" /\ result[s] = "none" /\ Send(s, FALSE) /\ Goto(d, "awaiting")
           /\ UNCHANGED <<live, accepting, fenced, result, on, permits, job, stage>>
  <2>1. owner[s] = "runtime"
    BY <1>1, <1>4 DEF TeardownInv, SessionInv, HandedOver, ControlType, Owners
  <2>2. /\ queue' \in Seq(Entry) /\ owner' \in [Sessions -> Owners]
        /\ task' \in [Sessions -> {"none", "running", "ok", "fault", "lost"}]
        /\ task'[s] = "running" /\ \A r \in Sessions : r # s => task'[r] = task[r]
        /\ JobsInv' /\ PermitsOut' /\ \A r \in Sessions : SessionInv(r)'
    BY <1>1, <1>4, <2>1, SendStep
  <2>3. /\ at'[d] = "awaiting" /\ at' \in [Closers -> Places]
        /\ \A e \in Closers : e # d => at'[e] = at[e]
    BY <1>4 DEF Goto, TeardownInv, ControlType, Places
  <2>4. ControlType'
    BY <1>4, <2>2, <2>3 DEF TeardownInv, ControlType
  <2>5. ASSUME NEW e \in Closers PROVE CloserInv(e)'
    <3>1. CloserInv(e)
      BY DEF TeardownInv
    <3>2. CASE e = d
      BY <1>1, <1>4, <2>2, <2>3, <3>2 DEF CloserInv
    <3>3. CASE e # d
      BY <1>4, <2>2, <2>3, <3>1, <3>3 DEF CloserInv
    <3> QED BY <3>2, <3>3
  <2> QED BY <2>2, <2>4, <2>5 DEF TeardownInv
<1> QED BY <1>1, <1>2, <1>3, <1>4 DEF StartClose, Returned

(* No call borrows a session that is dropped.                              *)
LEMMA DropCloseKeeps ==
    ASSUME TeardownInv, NEW s \in Sessions, DropClose(s)
    PROVE  TeardownInv'
<1>1. /\ live[s] = "dropping" /\ live'[s] = "gone"
      /\ \A r \in Sessions : r # s => live'[r] = live[r]
      /\ live' \in [Sessions -> {"none", "open", "dropping", "gone"}]
      /\ UNCHANGED <<accepting, fenced, result, stage, at, on, permits, job>>
  BY DEF DropClose, TeardownInv, ControlType
<1>2. \A d \in Closers : at[d] \notin Returned => on[d] # s
  BY <1>1 DEF TeardownInv, CloserInv
<1>3. ASSUME \A r \in Sessions : r # s => task'[r] = task[r]
      PROVE  \A d \in Closers : CloserInv(d)'
  BY <1>1, <1>2, <1>3 DEF TeardownInv, CloserInv
<1>4. CASE owner[s] # "runtime" /\ UNCHANGED <<owner, task, queue>>
  <2>1. PermitsOut' /\ JobsInv' /\ ControlType'
    BY <1>1, <1>4, PermitsSteady, JobsSteady DEF TeardownInv, ControlType
  <2>2. \A r \in Sessions : SessionInv(r)'
    BY <1>1, <1>4 DEF TeardownInv, SessionInv
  <2> QED BY <1>3, <1>4, <2>1, <2>2 DEF TeardownInv
<1>5. CASE owner[s] = "runtime" /\ Send(s, TRUE)
  <2>1. /\ queue' \in Seq(Entry) /\ owner' \in [Sessions -> Owners]
        /\ task' \in [Sessions -> {"none", "running", "ok", "fault", "lost"}]
        /\ task'[s] = "running" /\ \A r \in Sessions : r # s => task'[r] = task[r]
        /\ JobsInv' /\ PermitsOut' /\ \A r \in Sessions : SessionInv(r)'
    BY <1>1, <1>5, SendStep
  <2>2. ControlType'
    BY <1>1, <2>1 DEF TeardownInv, ControlType
  <2> QED BY <1>3, <2>1, <2>2 DEF TeardownInv
<1>6. CASE /\ owner[s] = "runtime" /\ owner' = [owner EXCEPT ![s] = "quarantined"]
           /\ UNCHANGED <<task, queue>>
  <2>1. /\ owner'[s] = "quarantined" /\ owner' \in [Sessions -> Owners]
        /\ \A r \in Sessions : r # s => owner'[r] = owner[r]
    BY <1>6 DEF TeardownInv, ControlType, Owners
  <2>2. ControlType' /\ JobsInv'
    BY <1>1, <1>6, <2>1, JobsSteady DEF TeardownInv, ControlType
  <2>3. PermitsOut'
    <3>1. Held' = Held
      BY <1>6, <2>1 DEF Held
    <3> QED BY <1>1, <3>1 DEF TeardownInv, PermitsOut
  <2>4. ASSUME NEW r \in Sessions PROVE SessionInv(r)'
    <3>1. SessionInv(r)
      BY DEF TeardownInv
    <3>2. CASE r = s
      BY <1>1, <1>6, <2>1, <3>1, <3>2 DEF SessionInv, HandedOver
    <3>3. CASE r # s
      BY <1>1, <1>6, <2>1, <3>1, <3>3 DEF SessionInv
    <3> QED BY <3>2, <3>3
  <2> QED BY <1>3, <1>6, <2>2, <2>3, <2>4 DEF TeardownInv
<1> QED BY <1>4, <1>5, <1>6 DEF DropClose

-----------------------------------------------------------------------------
(* A session is opened, or dropped.                                        *)

LEMMA OpenKeeps ==
    ASSUME WindowsAssumption, TeardownInv, NEW s \in Sessions, Open(s)
    PROVE  TeardownInv'
<1>1. /\ live[s] = "none" /\ owner[s] = "none" /\ permits > 0 /\ permits' = permits - 1
      /\ live' = [live EXCEPT ![s] = "open"] /\ owner' = [owner EXCEPT ![s] = "runtime"]
      /\ UNCHANGED <<accepting, fenced, task, result, stage, at, on, queue, job>>
  BY DEF Open, TeardownInv, SessionInv
<1>2. /\ owner'[s] = "runtime" /\ live'[s] = "open"
      /\ \A r \in Sessions : r # s => owner'[r] = owner[r] /\ live'[r] = live[r]
  BY <1>1 DEF TeardownInv, ControlType
<1>3. PermitsOut' /\ permits' \in Nat
  <2>1. s \notin Held /\ Held' = Held \cup {s}
    BY <1>1, <1>2 DEF Held
  <2> QED BY <1>1, <2>1, PermitTaken DEF TeardownInv
<1>4. ControlType'
  BY <1>1, <1>3 DEF TeardownInv, ControlType, Owners
<1>5. JobsInv'
  BY <1>1, <1>2, JobsSteady
<1>6. ASSUME NEW r \in Sessions PROVE SessionInv(r)'
  <2>1. SessionInv(r)
    BY DEF TeardownInv
  <2>2. CASE r = s
    BY <1>1, <1>2, <2>1, <2>2 DEF SessionInv, HandedOver
  <2>3. CASE r # s
    BY <1>1, <1>2, <2>1, <2>3 DEF SessionInv
  <2> QED BY <2>2, <2>3
<1>7. \A d \in Closers : CloserInv(d)'
  BY <1>1, <1>2 DEF TeardownInv, CloserInv
<1> QED BY <1>3, <1>4, <1>5, <1>6, <1>7 DEF TeardownInv

LEMMA DropKeeps ==
    ASSUME TeardownInv, NEW s \in Sessions, Drop(s)
    PROVE  TeardownInv'
<1>1. /\ live[s] = "open" /\ \A d \in Closers : at[d] \notin Returned => on[d] # s
      /\ live' = [live EXCEPT ![s] = "dropping"]
      /\ accepting' = [accepting EXCEPT ![s] = FALSE]
      /\ UNCHANGED <<owner, fenced, task, result, stage, at, on, permits, queue, job>>
  BY DEF Drop, Calling
<1>2. /\ live'[s] = "dropping" /\ \A r \in Sessions : r # s => live'[r] = live[r]
      /\ \A r \in Sessions : ~accepting[r] => ~accepting'[r]
  BY <1>1 DEF TeardownInv, ControlType
<1>3. PermitsOut' /\ JobsInv'
  BY <1>1, PermitsSteady, JobsSteady DEF TeardownInv
<1>4. ControlType'
  BY <1>1 DEF TeardownInv, ControlType
<1>5. ASSUME NEW r \in Sessions PROVE SessionInv(r)'
  <2>1. SessionInv(r)
    BY DEF TeardownInv
  <2>2. CASE r = s
    BY <1>1, <1>2, <2>1, <2>2 DEF SessionInv
  <2>3. CASE r # s
    BY <1>1, <1>2, <2>1, <2>3 DEF SessionInv
  <2> QED BY <2>2, <2>3
<1>6. \A d \in Closers : CloserInv(d)'
  BY <1>1, <1>2 DEF TeardownInv, CloserInv
<1> QED BY <1>3, <1>4, <1>5, <1>6 DEF TeardownInv

-----------------------------------------------------------------------------
(* The workers.                                                            *)

(* The jobs that are left when the first of the queue is gone.             *)
LEMMA Dequeued ==
    ASSUME TeardownInv, queue # <<>>
    PROVE  /\ Head(queue) = queue[1] /\ 1 \in 1..Len(queue) /\ Tail(queue) \in Seq(Entry)
           /\ \A i \in 1..Len(Tail(queue)) : i + 1 \in 1..Len(queue)
                                             /\ Tail(queue)[i] = queue[i + 1] /\ i + 1 # 1
           /\ \A i, j \in 1..Len(Tail(queue)) : i # j => i + 1 # j + 1
<1>1. queue \in Seq(Entry) /\ Len(queue) \in Nat /\ Len(queue) > 0
  BY DEF TeardownInv, ControlType
<1>2. Tail(queue) \in Seq(Entry) /\ Len(Tail(queue)) = Len(queue) - 1
  BY <1>1
<1>3. \A i \in 1..Len(Tail(queue)) : Tail(queue)[i] = queue[i + 1]
  BY <1>1, <1>2
<1> QED BY <1>1, <1>2, <1>3

LEMMA TakeKeeps ==
    ASSUME WindowsAssumption, TeardownInv, NEW w \in Workers, Take(w)
    PROVE  TeardownInv'
<1>1. /\ job[w] = None /\ queue # <<>> /\ queue' = Tail(queue)
      /\ job' = [job EXCEPT ![w] = queue[1]]
      /\ UNCHANGED <<live, owner, accepting, fenced, task, result, stage, at, on, permits>>
  BY Dequeued DEF Take, Runs
<1>2. queue[1] \in Entry
  BY <1>1, Dequeued, QueueTypes
<1>3. /\ job'[w] = queue[1] /\ \A v \in Workers : v # w => job'[v] = job[v]
      /\ job' \in [Workers -> Entry \cup {None}]
  BY <1>1, <1>2 DEF TeardownInv, ControlType
<1>4. ControlType' /\ PermitsOut'
  BY <1>1, <1>3, Dequeued, PermitsSteady DEF TeardownInv, ControlType
<1>5. JobsInv'
  <2>1. \A i \in 1..Len(queue') : i + 1 \in 1..Len(queue) /\ queue'[i] = queue[i + 1] /\ i + 1 # 1
    BY <1>1, Dequeued
  <2>2. \A i \in 1..Len(queue') : Entrusted(queue[i])'
    BY <1>1, <2>1 DEF TeardownInv, JobsInv, Entrusted
  <2>3. ASSUME NEW v \in Workers, Running(v)' PROVE Entrusted(job[v])'
    BY <1>1, <1>3, <2>3, Dequeued DEF TeardownInv, JobsInv, Entrusted, Running
  <2>4. \A i, j \in 1..Len(queue') : i # j => queue'[i].session # queue'[j].session
    BY <1>1, <2>1, Dequeued DEF TeardownInv, JobsInv
  <2>5. ASSUME NEW i \in 1..Len(queue'), NEW v \in Workers, Running(v)'
        PROVE  queue'[i].session # job'[v].session
    BY <1>1, <1>3, <2>1, <2>5, Dequeued DEF TeardownInv, JobsInv, Running
  <2>6. ASSUME NEW u \in Workers, NEW v \in Workers, Running(u)', Running(v)', u # v
        PROVE  job'[u].session # job'[v].session
    BY <1>1, <1>3, <2>6, Dequeued DEF TeardownInv, JobsInv, Running
  <2> QED BY <2>2, <2>3, <2>4, <2>5, <2>6 DEF JobsInv
<1>6. \A s \in Sessions : SessionInv(s)'
  BY <1>1 DEF TeardownInv, SessionInv
<1>7. \A d \in Closers : CloserInv(d)'
  BY <1>1 DEF TeardownInv, CloserInv
<1> QED BY <1>4, <1>5, <1>6, <1>7 DEF TeardownInv

LEMMA DrainJobKeeps ==
    ASSUME WindowsAssumption, TeardownInv, NEW w \in Workers, DrainJob(w)
    PROVE  TeardownInv'
<1> DEFINE s == job[w].session
           n == [job[w] EXCEPT !.drain = FALSE]
<1>1. job[w] \in Entry /\ s \in Sessions /\ SessionInv(s)
  BY JobTypes DEF DrainJob, TeardownInv
<1>2. /\ fenced' = [fenced EXCEPT ![s] = TRUE] /\ job' = [job EXCEPT ![w] = n]
      /\ UNCHANGED <<live, owner, accepting, task, result, stage, at, on, permits, queue>>
  BY DEF DrainJob, Runs
<1>3. \A k \in Callbacks : stage[s][k] \in Outside
  BY <1>1 DEF DrainJob, SessionInv, Inside, Outside
<1>4. n \in Entry /\ n.session = s /\ n.drain = FALSE /\ n # None
  BY <1>1 DEF Entry, WindowsAssumption
<1> HIDE DEF n
<1>5. /\ job'[w] = n /\ \A v \in Workers : v # w => job'[v] = job[v]
      /\ job' \in [Workers -> Entry \cup {None}]
  BY <1>2, <1>4 DEF TeardownInv, ControlType
<1>6. /\ PermitsOut' /\ fenced' \in [Sessions -> BOOLEAN]
      /\ \A r \in Sessions : SessionInv(r)' /\ (fenced[r] => fenced'[r])
      /\ \A d \in Closers : CloserInv(d)'
  BY <1>1, <1>2, <1>3, FenceStep
<1>7. ControlType'
  BY <1>2, <1>5, <1>6 DEF TeardownInv, ControlType
<1>8. fenced'[s]
  BY <1>1, <1>2 DEF TeardownInv, ControlType
<1>9. JobsInv'
  <2>1. \A i \in 1..Len(queue') : Entrusted(queue[i])'
    BY <1>2, <1>6, QueueTypes DEF TeardownInv, JobsInv, Entrusted
  <2>2. ASSUME NEW v \in Workers, Running(v)' PROVE Entrusted(job[v])'
    <3>1. CASE v = w
      <4>1. owner[s] = "job"
        BY DEF DrainJob, TeardownInv, JobsInv, Entrusted
      <4> QED BY <1>2, <1>4, <1>5, <1>8, <3>1, <4>1 DEF Entrusted
    <3>2. CASE v # w
      BY <1>2, <1>5, <1>6, <2>2, <3>2, JobTypes DEF TeardownInv, JobsInv, Entrusted, Running
    <3> QED BY <3>1, <3>2
  <2>3. \A v \in Workers : Running(v)' => Running(v) /\ job'[v].session = job[v].session
    BY <1>4, <1>5 DEF DrainJob, Running
  <2>4. \A i \in 1..Len(queue'), v \in Workers :
           Running(v)' => queue'[i].session # job'[v].session
    BY <1>2, <2>3 DEF TeardownInv, JobsInv
  <2>5. \A u, v \in Workers :
           Running(u)' /\ Running(v)' /\ u # v => job'[u].session # job'[v].session
    BY <2>3 DEF TeardownInv, JobsInv
  <2> QED BY <1>2, <2>1, <2>2, <2>4, <2>5 DEF TeardownInv, JobsInv
<1> QED BY <1>6, <1>7, <1>9 DEF TeardownInv

(* Resources leave their job: they are released behind the fence, or       *)
(* discarded, or left to the callback that still uses them.                *)
LEMMA EndStep ==
    ASSUME TeardownInv, NEW s \in Sessions, owner[s] = "job",
           NEW where \in {"released", "discarded", "callback"}, where = "released" => fenced[s],
           NEW answer \in {"ok", "fault", "lost"},
           owner' = [owner EXCEPT ![s] = where], task' = [task EXCEPT ![s] = answer],
           UNCHANGED <<live, result, fenced, stage, accepting, at, on>>
    PROVE  /\ owner' \in [Sessions -> Owners] /\ owner'[s] = where
           /\ \A r \in Sessions : r # s => owner'[r] = owner[r]
           /\ task' \in [Sessions -> {"none", "running", "ok", "fault", "lost"}]
           /\ \A r \in Sessions : SessionInv(r)'
           /\ \A d \in Closers : CloserInv(d)'
<1>1. /\ owner' \in [Sessions -> Owners] /\ owner'[s] = where
      /\ task' \in [Sessions -> {"none", "running", "ok", "fault", "lost"}]
      /\ task'[s] = answer
      /\ \A r \in Sessions : r # s => owner'[r] = owner[r] /\ task'[r] = task[r]
  BY DEF TeardownInv, ControlType, Owners
<1>2. ASSUME NEW r \in Sessions PROVE SessionInv(r)'
  <2>1. SessionInv(r)
    BY DEF TeardownInv
  <2>2. CASE r = s
    BY <1>1, <2>1, <2>2 DEF SessionInv, HandedOver
  <2>3. CASE r # s
    BY <1>1, <2>1, <2>3 DEF SessionInv
  <2> QED BY <2>2, <2>3
<1>3. ASSUME NEW d \in Closers PROVE CloserInv(d)'
  <2>1. CloserInv(d)
    BY DEF TeardownInv
  <2>2. on[d] \in Sessions /\ task[on[d]] # "none" => task'[on[d]] # "none"
    BY <1>1
  <2> QED BY <2>1, <2>2 DEF CloserInv
<1> QED BY <1>1, <1>2, <1>3

LEMMA FinishKeeps ==
    ASSUME WindowsAssumption, TeardownInv, NEW w \in Workers, Finish(w) \/ Panic(w)
    PROVE  TeardownInv'
<1> DEFINE s == job[w].session
<1>1. /\ job[w] \in Entry /\ s \in Sessions /\ Running(w) /\ owner[s] = "job" /\ fenced[s]
  BY JobTypes DEF Finish, Panic, TeardownInv, JobsInv, Entrusted
<1>2. PICK answer \in {"ok", "fault", "lost"} :
         /\ owner' = [owner EXCEPT ![s] = "released"] /\ task' = [task EXCEPT ![s] = answer]
         /\ permits' = Capped(permits + 1)
  BY DEF Finish, Panic, Over
<1>3. /\ job' = [job EXCEPT ![w] = None]
      /\ UNCHANGED <<live, result, fenced, stage, accepting, at, on, queue>>
  BY DEF Finish, Panic, Runs
<1>4. /\ owner' \in [Sessions -> Owners] /\ owner'[s] = "released"
      /\ \A r \in Sessions : r # s => owner'[r] = owner[r]
      /\ task' \in [Sessions -> {"none", "running", "ok", "fault", "lost"}]
      /\ \A r \in Sessions : SessionInv(r)'
      /\ \A d \in Closers : CloserInv(d)'
  BY <1>1, <1>2, <1>3, EndStep
<1>5. PermitsOut' /\ permits' \in Nat
  <2>1. s \in Held /\ Held' = Held \ {s}
    BY <1>1, <1>4 DEF Held
  <2> QED BY <1>2, <2>1, PermitBack DEF TeardownInv
<1>6. /\ job'[w] = None /\ \A v \in Workers : v # w => job'[v] = job[v]
      /\ job' \in [Workers -> Entry \cup {None}]
  BY <1>3 DEF TeardownInv, ControlType
<1>7. ControlType'
  BY <1>3, <1>4, <1>5, <1>6 DEF TeardownInv, ControlType
<1>8. JobsInv'
  <2>1. ASSUME NEW i \in 1..Len(queue') PROVE Entrusted(queue[i])'
    <3>1. /\ queue'[i] = queue[i] /\ queue[i].session \in Sessions
          /\ queue[i].session # s /\ Entrusted(queue[i])
      BY <1>1, <1>3, <2>1, QueueTypes DEF TeardownInv, JobsInv
    <3> QED BY <1>3, <1>4, <3>1 DEF Entrusted
  <2>2. \A v \in Workers : Running(v)' => Running(v) /\ v # w /\ job'[v] = job[v]
    BY <1>6 DEF Running
  <2>3. ASSUME NEW v \in Workers, Running(v)' PROVE Entrusted(job[v])'
    <3>1. /\ job'[v] = job[v] /\ job[v].session \in Sessions
          /\ job[v].session # s /\ Entrusted(job[v])
      BY <1>1, <2>2, <2>3, JobTypes DEF TeardownInv, JobsInv
    <3> QED BY <1>3, <1>4, <3>1 DEF Entrusted
  <2> QED BY <1>3, <2>1, <2>2, <2>3 DEF TeardownInv, JobsInv
<1> QED BY <1>4, <1>5, <1>7, <1>8 DEF TeardownInv

LEMMA DropQueueKeeps ==
    ASSUME WindowsAssumption, TeardownInv, DropQueue
    PROVE  TeardownInv'
<1> DEFINE s == queue[1].session
<1>1. /\ queue # <<>> /\ Head(queue) = queue[1] /\ 1 \in 1..Len(queue)
      /\ s \in Sessions /\ owner[s] = "job"
  BY Dequeued, QueueTypes DEF DropQueue, TeardownInv, JobsInv, Entrusted
<1>2. PICK where \in {"discarded", "callback"} :
         /\ owner' = [owner EXCEPT ![s] = where] /\ task' = [task EXCEPT ![s] = "lost"]
         /\ where = "discarded" => permits' = Capped(permits + 1)
         /\ where = "callback" => permits' = permits
  BY <1>1 DEF DropQueue, Over
<1>3. /\ queue' = Tail(queue)
      /\ UNCHANGED <<live, result, fenced, stage, accepting, at, on, job>>
  BY DEF DropQueue
<1>4. /\ owner' \in [Sessions -> Owners] /\ owner'[s] = where
      /\ \A r \in Sessions : r # s => owner'[r] = owner[r]
      /\ task' \in [Sessions -> {"none", "running", "ok", "fault", "lost"}]
      /\ \A r \in Sessions : SessionInv(r)'
      /\ \A d \in Closers : CloserInv(d)'
  BY <1>1, <1>2, <1>3, EndStep
<1>5. PermitsOut' /\ permits' \in Nat
  <2>1. CASE where = "discarded"
    <3>1. s \in Held /\ Held' = Held \ {s}
      BY <1>1, <1>4, <2>1 DEF Held
    <3> QED BY <1>2, <2>1, <3>1, PermitBack DEF TeardownInv
  <2>2. CASE where = "callback"
    <3>1. Held' = Held
      BY <1>1, <1>4, <2>2 DEF Held
    <3> QED BY <1>2, <2>2, <3>1 DEF TeardownInv, PermitsOut, ControlType
  <2> QED BY <2>1, <2>2
<1>6. ControlType'
  BY <1>1, <1>3, <1>4, <1>5, Dequeued DEF TeardownInv, ControlType
<1>7. JobsInv'
  <2>1. \A i \in 1..Len(queue') : i + 1 \in 1..Len(queue) /\ queue'[i] = queue[i + 1] /\ i + 1 # 1
    BY <1>1, <1>3, Dequeued
  <2>2. ASSUME NEW i \in 1..Len(queue') PROVE Entrusted(queue[i])'
    <3> DEFINE j == i + 1
    <3>1. j \in 1..Len(queue) /\ queue'[i] = queue[j] /\ j # 1
      BY <2>1, <2>2
    <3> HIDE DEF j
    <3>2. queue[j].session \in Sessions /\ queue[j].session # s /\ Entrusted(queue[j])
      BY <1>1, <3>1, QueueTypes DEF TeardownInv, JobsInv
    <3> QED BY <1>3, <1>4, <3>1, <3>2 DEF Entrusted
  <2>3. ASSUME NEW v \in Workers, Running(v)' PROVE Entrusted(job[v])'
    <3>1. /\ job'[v] = job[v] /\ job[v].session \in Sessions
          /\ job[v].session # s /\ Entrusted(job[v])
      BY <1>1, <1>3, <2>3, JobTypes DEF TeardownInv, JobsInv, Running
    <3> QED BY <1>3, <1>4, <3>1 DEF Entrusted
  <2>4. \A i, j \in 1..Len(queue') : i # j => queue'[i].session # queue'[j].session
    BY <1>1, <1>3, <2>1, Dequeued DEF TeardownInv, JobsInv
  <2>5. \A i \in 1..Len(queue'), v \in Workers :
           Running(v)' => queue'[i].session # job'[v].session
    BY <1>3, <2>1 DEF TeardownInv, JobsInv, Running
  <2> QED BY <1>3, <2>2, <2>3, <2>4, <2>5 DEF TeardownInv, JobsInv, Running
<1> QED BY <1>4, <1>5, <1>6, <1>7 DEF TeardownInv

(* A callback leaves the pool it recreated, with what only it still held.  *)
LEMMA RecreateKeeps ==
    ASSUME WindowsAssumption, TeardownInv, NEW s \in Sessions, NEW k \in Callbacks,
           Recreate(s, k)
    PROVE  TeardownInv'
<1>1. /\ stage[s][k] = "recreating"
      /\ UNCHANGED <<live, accepting, fenced, task, result, at, on, queue, job>>
  BY DEF Recreate
<1>2. PICK n \in {"leaving", "failing"} : Step(s, k, n)
  BY DEF Recreate
<1>3. CASE owner[s] # "callback"
  BY <1>1, <1>2, <1>3, StageStep DEF Recreate, Stages, Outside
<1>4. CASE owner[s] = "callback"
  <2>1. owner' = [owner EXCEPT ![s] = "discarded"] /\ permits' = Capped(permits + 1)
    BY <1>4 DEF Recreate
  <2>2. /\ owner' \in [Sessions -> Owners] /\ owner'[s] = "discarded"
        /\ \A r \in Sessions : r # s => owner'[r] = owner[r]
    BY <2>1 DEF TeardownInv, ControlType, Owners
  <2>3. PermitsOut' /\ permits' \in Nat
    <3>1. s \in Held /\ Held' = Held \ {s}
      BY <1>4, <2>2 DEF Held
    <3> QED BY <2>1, <3>1, PermitBack DEF TeardownInv
  <2>4. /\ stage' \in [Sessions -> [Callbacks -> Stages]] /\ stage'[s][k] = n
        /\ \A r \in Sessions, c \in Callbacks : r # s \/ c # k => stage'[r][c] = stage[r][c]
    BY <1>2 DEF Step, TeardownInv, ControlType, Stages
  <2>5. ControlType'
    BY <1>1, <2>2, <2>3, <2>4 DEF TeardownInv, ControlType
  <2>6. JobsInv'
    BY <1>1, <1>4, <2>2, JobsSteady
  <2>7. ASSUME NEW r \in Sessions PROVE SessionInv(r)'
    <3>1. SessionInv(r)
      BY DEF TeardownInv
    <3>2. fenced[r] => \A c \in Callbacks : stage'[r][c] \in Outside
      BY <1>1, <2>4, <3>1 DEF SessionInv, Outside
    <3>3. CASE r = s
      BY <1>1, <1>4, <2>2, <3>1, <3>2, <3>3 DEF SessionInv, HandedOver
    <3>4. CASE r # s
      BY <1>1, <2>2, <3>1, <3>2, <3>4 DEF SessionInv
    <3> QED BY <3>3, <3>4
  <2>8. ASSUME NEW d \in Closers PROVE CloserInv(d)'
    <3>1. CloserInv(d)
      BY DEF TeardownInv
    <3>2. at[d] = "fencing" => \A c \in Callbacks : stage'[on[d]][c] \in Outside
      BY <1>1, <2>4, <3>1 DEF CloserInv, Returned, Outside
    <3> QED BY <1>1, <3>1, <3>2 DEF CloserInv
  <2> QED BY <2>3, <2>5, <2>6, <2>7, <2>8 DEF TeardownInv
<1> QED BY <1>3, <1>4

-----------------------------------------------------------------------------
(* The invariant.                                                          *)

LEMMA TeardownNext == WindowsAssumption /\ TeardownInv /\ [Next]_vars => TeardownInv'
<1> SUFFICES ASSUME WindowsAssumption, TeardownInv, [Next]_vars PROVE TeardownInv'
  OBVIOUS
<1>1. CASE UNCHANGED <<live, owner, accepting, fenced, task, result, stage, at, on, permits,
                       queue, job>>
  BY <1>1 DEF TeardownInv, ControlType, PermitsOut, Held, JobsInv, Entrusted, Running,
     SessionInv, CloserInv
<1>2. CASE \/ UNCHANGED vars \/ \E s \in Sessions : Resize(s) \/ Move(s)
           \/ \E d \in Closers : Interrupt(d)
  BY <1>1, <1>2 DEF vars, Resize, Move, Interrupt
<1>3. ASSUME NEW s \in Sessions, Open(s) \/ Drop(s) \/ DropClose(s) PROVE TeardownInv'
  BY <1>3, OpenKeeps, DropKeeps, DropCloseKeeps
<1>4. ASSUME NEW s \in Sessions, NEW k \in Callbacks,
             Arrive(s, k) \/ Lose(s, k) \/ Callback(s, k)
      PROVE  TeardownInv'
  BY <1>4, CallbackKeeps, RecreateKeeps DEF Callback
<1>5. ASSUME NEW d \in Closers, CloseStep(d) \/ \E s \in Sessions : Close(d, s)
      PROVE  TeardownInv'
  BY <1>5, CallKeeps, FenceKeeps, StartCloseKeeps, AwaitKeeps DEF CloseStep
<1>6. ASSUME NEW w \in Workers, Teardown(w) \/ Panic(w) PROVE TeardownInv'
  BY <1>6, TakeKeeps, DrainJobKeeps, FinishKeeps DEF Teardown
<1> QED BY <1>2, <1>3, <1>4, <1>5, <1>6, DropQueueKeeps DEF Next

(* Every resource handed over has a job or an answer, jobs are of distinct *)
(* sessions, permits and existing resources add up, and nobody is behind a *)
(* fence (TeardownPermits, TeardownJob::run, CallbackControl).             *)
THEOREM TeardownInvariant == ASSUME WindowsAssumption PROVE Spec => []TeardownInv
BY TeardownStart, TeardownNext, PTL DEF Spec

(* The queue has room: its jobs are of distinct sessions that each hold a  *)
(* permit.                                                                 *)
LEMMA QueueBounded == ASSUME WindowsAssumption, TeardownInv PROVE Len(queue) <= Permits
<1> DEFINE n == Len(queue)
           of == [i \in 1..n |-> queue[i].session]
<1>1. n \in Nat
  BY DEF TeardownInv, ControlType
<1>2. of \in Injection(1..n, Held)
  <2>1. \A i \in 1..n : queue[i].session \in Held
    BY QueueTypes DEF TeardownInv, JobsInv, Entrusted, Held
  <2>2. \A i, j \in 1..n : of[i] = of[j] => i = j
    BY DEF TeardownInv, JobsInv
  <2>3. of \in [1..n -> Held]
    BY <2>1
  <2> HIDE DEF of
  <2> QED BY <2>2, <2>3 DEF Injection, IsInjective
<1>3. Cardinality(1..n) = n
  BY <1>1, FS_Interval
<1>4. n <= Cardinality(Held)
  <2> HIDE DEF of
  <2> QED BY <1>2, <1>3, HeldFinite, FS_Injection
<1> QED BY <1>1, <1>4, HeldFinite DEF TeardownInv, ControlType, PermitsOut, WindowsAssumption

(* Native resources are released once, by a worker and behind the fence; a *)
(* close that has its answer finds them gone; permits and resources add up *)
(* and the job queue has room (close_native_resources, TeardownPermits).   *)
THEOREM ResourcesOwnedOnce == ASSUME WindowsAssumption PROVE Spec => []OwnedOnce
<1>1. TeardownInv => OwnedOnce
  <2> SUFFICES ASSUME TeardownInv PROVE OwnedOnce
    OBVIOUS
  <2>1. \A s \in Sessions : fenced[s] => Inside(s) = {}
    BY DEF TeardownInv, SessionInv, Inside, Outside
  <2>2. permits + Cardinality({s \in Sessions :
                      owner[s] \notin {"none", "released", "discarded"}}) = Permits
    BY DEF TeardownInv, PermitsOut, Held
  <2>3. \A w \in Workers : Running(w) => /\ owner[job[w].session] = "job"
                                         /\ ~job[w].drain => Inside(job[w].session) = {}
    BY <2>1, JobTypes DEF TeardownInv, JobsInv, Entrusted
  <2>4. \A s \in Sessions :
           /\ owner[s] = "released" => Inside(s) = {} /\ fenced[s]
           /\ result[s] # "none" \/ task[s] \in {"ok", "fault", "lost"} =>
                 owner[s] \in {"released", "discarded", "callback"}
    BY <2>1 DEF TeardownInv, SessionInv
  <2> QED BY <2>2, <2>3, <2>4, QueueBounded DEF OwnedOnce
<1> QED BY <1>1, TeardownInvariant, PTL

-----------------------------------------------------------------------------
(* What frames are marked with.                                            *)

Surface == [extent : Nat, pixels : Nat, fresh : BOOLEAN]
Copied == [pixels : Nat, placement : Nat]
Published == [pixels : Nat, placement : Nat, pool : Nat,
              continuity : {"Continuous", "GeometryChanged", "Discontinuous"}]

FrameType ==
    /\ transition \in [Sessions -> [extent : Nat, placement : Nat, pool : Nat,
                                    discontinuity : BOOLEAN, geometry : BOOLEAN]]
    /\ target \in [Sessions -> [extent : Nat, moves : Nat]]
    /\ surfaces \in [Sessions -> Seq(Surface)]
    /\ last \in [Sessions -> Published \cup {None}]
    /\ stage \in [Sessions -> [Callbacks -> Stages]]
    /\ frame \in [Sessions -> [Callbacks -> Surface \cup Copied \cup {None}]]

(* The transition knows what the last frame does not show yet.             *)
TransitionInv(t, l, moves) ==
    /\ t.placement <= moves
    /\ l = None => ~t.discontinuity /\ ~t.geometry
    /\ l # None =>
          /\ l.pool <= t.pool /\ (t.discontinuity <=> t.pool # l.pool)
          /\ l.placement <= t.placement /\ (t.geometry <=> t.placement # l.placement)

(* Pixels in the pool that may pass the geometry fence are new enough.     *)
PoolInv(t, pool, moves) ==
    \A i \in 1..Len(pool) :
        /\ pool[i].pixels <= moves
        /\ t.geometry /\ pool[i].fresh => t.placement <= pool[i].pixels

CopyInv(t, l, copy, moves) ==
    /\ copy \in Copied /\ copy.placement <= moves
    /\ l # None => copy.placement = t.placement
    /\ t.geometry => copy.pixels = copy.placement

(* One callback at a time is in process_frame.                             *)
FrameInv(s) ==
    /\ TransitionInv(transition[s], last[s], target[s].moves)
    /\ PoolInv(transition[s], surfaces[s], target[s].moves)
    /\ \A k, c \in Callbacks :
          stage[s][k] \in {"recreating", "copying"}
            /\ stage[s][c] \in {"recreating", "copying"} => k = c
    /\ \A k \in Callbacks :
          /\ stage[s][k] = "recreating" => frame[s][k] \in Surface
          /\ stage[s][k] = "copying" =>
                CopyInv(transition[s], last[s], frame[s][k], target[s].moves)

MarkedInv == FrameType /\ \A s \in Sessions : FrameInv(s)

LEMMA MarkedStart == Init => MarkedInv
<1> SUFFICES ASSUME Init PROVE MarkedInv
  OBVIOUS
<1>1. FrameType
  BY DEF Init, FrameType, Stages
<1>2. \A s \in Sessions : /\ TransitionInv(transition[s], last[s], target[s].moves)
                          /\ PoolInv(transition[s], surfaces[s], target[s].moves)
  BY DEF Init, TransitionInv, PoolInv
<1>3. \A s \in Sessions, k \in Callbacks : stage[s][k] = "idle"
  BY DEF Init
<1> QED BY <1>1, <1>2, <1>3 DEF MarkedInv, FrameInv

LEMMA FrameTypes ==
    ASSUME MarkedInv, NEW s \in Sessions
    PROVE  /\ FrameInv(s) /\ target[s].moves \in Nat /\ target[s].extent \in Nat
           /\ transition[s].placement \in Nat /\ transition[s].pool \in Nat
           /\ transition[s].discontinuity \in BOOLEAN /\ transition[s].geometry \in BOOLEAN
           /\ surfaces[s] \in Seq(Surface) /\ Len(surfaces[s]) \in Nat
           /\ \A i \in 1..Len(surfaces[s]) : /\ surfaces[s][i] \in Surface
                                             /\ surfaces[s][i].pixels \in Nat
                                             /\ surfaces[s][i].extent \in Nat
           /\ last[s] # None => last[s].pool \in Nat /\ last[s].placement \in Nat
<1>1. /\ FrameInv(s) /\ target[s] \in [extent : Nat, moves : Nat]
      /\ transition[s] \in [extent : Nat, placement : Nat, pool : Nat,
                            discontinuity : BOOLEAN, geometry : BOOLEAN]
      /\ surfaces[s] \in Seq(Surface) /\ last[s] \in Published \cup {None}
  BY DEF MarkedInv, FrameType
<1>2. \A i \in 1..Len(surfaces[s]) : surfaces[s][i] \in Surface
  BY <1>1
<1>3. \A x \in Surface : x.pixels \in Nat /\ x.extent \in Nat
  BY DEF Surface
<1>4. last[s] # None => last[s].pool \in Nat /\ last[s].placement \in Nat
  BY <1>1 DEF Published
<1>5. Len(surfaces[s]) \in Nat
  BY <1>1
<1>6. /\ transition[s].placement \in Nat /\ transition[s].pool \in Nat
      /\ transition[s].discontinuity \in BOOLEAN /\ transition[s].geometry \in BOOLEAN
  BY <1>1
<1>7. target[s].moves \in Nat /\ target[s].extent \in Nat
  BY <1>1
<1> QED BY <1>1, <1>2, <1>3, <1>4, <1>5, <1>6, <1>7

(* A step in one session.                                                  *)
LEMMA FrameStep ==
    ASSUME MarkedInv, FrameType', NEW s \in Sessions, FrameInv(s)',
           \A r \in Sessions : r # s =>
               /\ transition'[r] = transition[r] /\ target'[r] = target[r]
               /\ surfaces'[r] = surfaces[r] /\ last'[r] = last[r]
               /\ stage'[r] = stage[r] /\ frame'[r] = frame[r]
    PROVE  MarkedInv'
<1> SUFFICES ASSUME NEW r \in Sessions, r # s PROVE FrameInv(r)'
  BY DEF MarkedInv
<1>1. FrameInv(r)
  BY DEF MarkedInv
<1> QED BY <1>1 DEF FrameInv

(* A callback that is not in process_frame afterwards.                     *)
LEMMA OutStep ==
    ASSUME MarkedInv, NEW s \in Sessions, NEW k \in Callbacks,
           NEW n \in Stages \ {"recreating", "copying"}, Step(s, k, n),
           UNCHANGED <<transition, target, surfaces, last, frame>>
    PROVE  MarkedInv'
<1>1. /\ stage' \in [Sessions -> [Callbacks -> Stages]] /\ stage'[s][k] = n
      /\ \A r \in Sessions : r # s => stage'[r] = stage[r]
      /\ \A c \in Callbacks : c # k => stage'[s][c] = stage[s][c]
  BY DEF Step, MarkedInv, FrameType
<1>2. FrameType'
  BY <1>1 DEF MarkedInv, FrameType
<1>3. FrameInv(s)'
  <2>1. FrameInv(s)
    BY DEF MarkedInv
  <2>2. \A c \in Callbacks : stage'[s][c] \in {"recreating", "copying"} =>
           stage'[s][c] = stage[s][c]
    BY <1>1
  <2> QED BY <2>1, <2>2 DEF FrameInv
<1> QED BY <1>1, <1>2, <1>3, FrameStep

(* What is left of the pool when the first surface is taken.               *)
LEMMA Taken ==
    ASSUME MarkedInv, NEW s \in Sessions, surfaces[s] # <<>>
    PROVE  LET pool == surfaces[s] IN
           /\ First(s) = pool[1] /\ 1 \in 1..Len(pool) /\ First(s) \in Surface
           /\ Tail(pool) \in Seq(Surface)
           /\ \A i \in 1..Len(Tail(pool)) : i + 1 \in 1..Len(pool) /\ Tail(pool)[i] = pool[i + 1]
           /\ PoolInv(transition[s], Tail(pool), target[s].moves)
<1> DEFINE pool == surfaces[s]
<1>1. pool \in Seq(Surface) /\ Len(pool) \in Nat /\ Len(pool) > 0
  BY FrameTypes
<1>2. First(s) = pool[1] /\ 1 \in 1..Len(pool) /\ pool[1] \in Surface
  BY <1>1 DEF First
<1>3. Tail(pool) \in Seq(Surface) /\ Len(Tail(pool)) = Len(pool) - 1
  BY <1>1
<1>4. \A i \in 1..Len(Tail(pool)) : i + 1 \in 1..Len(pool) /\ Tail(pool)[i] = pool[i + 1]
  BY <1>1, <1>3
<1>5. PoolInv(transition[s], pool, target[s].moves)
  BY FrameTypes DEF FrameInv
<1>6. PoolInv(transition[s], Tail(pool), target[s].moves)
  BY <1>4, <1>5 DEF PoolInv
<1> QED BY <1>2, <1>3, <1>4, <1>6

LEMMA TargetKeeps ==
    ASSUME MarkedInv, NEW s \in Sessions, Resize(s) \/ Move(s)
    PROVE  MarkedInv'
<1>1. /\ UNCHANGED <<transition, surfaces, last, stage, frame>>
      /\ \/ target' = [target EXCEPT ![s].extent = @ + 1]
         \/ target' = [target EXCEPT ![s].moves = @ + 1]
  BY DEF Resize, Move
<1>2. /\ target' \in [Sessions -> [extent : Nat, moves : Nat]]
      /\ \A r \in Sessions : r # s => target'[r] = target[r]
      /\ target'[s].moves \in Nat /\ target[s].moves <= target'[s].moves
  <2>1. /\ target \in [Sessions -> [extent : Nat, moves : Nat]]
        /\ target[s].moves \in Nat /\ target[s].extent \in Nat
    BY FrameTypes DEF MarkedInv, FrameType
  <2>2. PICK x \in [extent : Nat, moves : Nat] :
           target' = [target EXCEPT ![s] = x] /\ target[s].moves <= x.moves
    <3>1. /\ [target[s] EXCEPT !.extent = @ + 1] \in [extent : Nat, moves : Nat]
          /\ [target[s] EXCEPT !.extent = @ + 1].moves = target[s].moves
          /\ [target[s] EXCEPT !.moves = @ + 1] \in [extent : Nat, moves : Nat]
          /\ [target[s] EXCEPT !.moves = @ + 1].moves = target[s].moves + 1
      BY <2>1
    <3> QED BY <1>1, <2>1, <3>1
  <2> QED BY <2>1, <2>2
<1>3. FrameType'
  BY <1>1, <1>2 DEF MarkedInv, FrameType
<1>4. FrameInv(s)'
  <2> DEFINE n == target'[s].moves
  <2>1. FrameInv(s) /\ n \in Nat /\ target[s].moves \in Nat /\ target[s].moves <= n
    BY <1>2, FrameTypes
  <2> HIDE DEF n
  <2>2. TransitionInv(transition[s], last[s], n)
    BY <2>1, FrameTypes DEF FrameInv, TransitionInv
  <2>3. PoolInv(transition[s], surfaces[s], n)
    BY <2>1, FrameTypes DEF FrameInv, PoolInv
  <2>4. \A k \in Callbacks : stage[s][k] = "copying" =>
           CopyInv(transition[s], last[s], frame[s][k], n)
    BY <2>1 DEF FrameInv, CopyInv, Copied
  <2> QED BY <1>1, <2>1, <2>2, <2>3, <2>4 DEF FrameInv, n
<1> QED BY <1>1, <1>2, <1>3, <1>4, FrameStep

LEMMA ArriveKeeps ==
    ASSUME MarkedInv, NEW s \in Sessions, NEW k \in Callbacks, Arrive(s, k)
    PROVE  MarkedInv'
<1> DEFINE new == [extent |-> target[s].extent, pixels |-> target[s].moves, fresh |-> TRUE]
           pool == surfaces[s]
           grown == IF Len(pool) < 2 THEN Append(pool, new) ELSE pool
<1>1. /\ surfaces' = [surfaces EXCEPT ![s] = grown] /\ Step(s, k, "dispatched")
      /\ UNCHANGED <<transition, target, last, frame>>
  BY DEF Arrive, Step, MarkedInv, FrameType
<1>2. new \in Surface /\ new.pixels = target[s].moves /\ pool \in Seq(Surface)
  BY FrameTypes DEF Surface
<1>3. PoolInv(transition[s], grown, target[s].moves) /\ grown \in Seq(Surface)
  <2>1. CASE grown = pool
    BY <1>2, <2>1, FrameTypes DEF FrameInv
  <2>2. CASE grown = Append(pool, new)
    <3> HIDE DEF new
    <3>1. /\ Append(pool, new) \in Seq(Surface)
          /\ \A i \in 1..Len(Append(pool, new)) :
                \/ i \in 1..Len(pool) /\ Append(pool, new)[i] = pool[i]
                \/ Append(pool, new)[i] = new
      BY <1>2
    <3>2. /\ PoolInv(transition[s], pool, target[s].moves)
          /\ transition[s].placement <= target[s].moves /\ target[s].moves \in Nat
      BY FrameTypes DEF FrameInv, TransitionInv
    <3> QED BY <1>2, <2>2, <3>1, <3>2 DEF PoolInv
  <2> QED BY <2>1, <2>2
<1> HIDE DEF grown
<1>4. /\ stage' \in [Sessions -> [Callbacks -> Stages]] /\ stage'[s][k] = "dispatched"
      /\ \A r \in Sessions : r # s => stage'[r] = stage[r] /\ surfaces'[r] = surfaces[r]
      /\ \A c \in Callbacks : c # k => stage'[s][c] = stage[s][c]
      /\ surfaces' \in [Sessions -> Seq(Surface)] /\ surfaces'[s] = grown
  BY <1>1, <1>3 DEF Step, MarkedInv, FrameType, Stages
<1>5. FrameType'
  BY <1>1, <1>4 DEF MarkedInv, FrameType
<1>6. FrameInv(s)'
  <2>1. FrameInv(s)
    BY DEF MarkedInv
  <2>2. \A c \in Callbacks : stage'[s][c] \in {"recreating", "copying"} =>
           stage'[s][c] = stage[s][c]
    BY <1>4
  <2> QED BY <1>1, <1>3, <1>4, <2>1, <2>2 DEF FrameInv
<1> QED BY <1>1, <1>4, <1>5, <1>6, FrameStep

(* A callback takes the first surface, or none: what it leaves with.       *)
LEMMA TakeStep ==
    ASSUME MarkedInv, NEW s \in Sessions, NEW k \in Callbacks, Enters(s, k),
           NEW n \in Stages, Step(s, k, n), UNCHANGED <<transition, target, last>>,
           surfaces' = surfaces \/ (surfaces[s] # <<>> /\ TakeFirst(s)),
           \/ n \notin {"recreating", "copying"} /\ frame' = frame
           \/ \E f : /\ frame' = [frame EXCEPT ![s][k] = f]
                     /\ \/ n = "recreating" /\ f \in Surface
                        \/ /\ n = "copying"
                           /\ CopyInv(transition[s], last[s], f, target[s].moves)
    PROVE  MarkedInv'
<1>1. /\ stage' \in [Sessions -> [Callbacks -> Stages]] /\ stage'[s][k] = n
      /\ \A r \in Sessions : r # s => stage'[r] = stage[r]
      /\ \A c \in Callbacks : c # k => stage'[s][c] = stage[s][c]
  BY DEF Step, MarkedInv, FrameType
<1>2. \A c \in Callbacks : stage[s][c] \notin {"recreating", "copying"}
  BY DEF Enters, Framing
<1>3. /\ surfaces' \in [Sessions -> Seq(Surface)]
      /\ PoolInv(transition[s], surfaces'[s], target[s].moves)
      /\ \A r \in Sessions : r # s => surfaces'[r] = surfaces[r]
  <2>1. CASE surfaces' = surfaces
    BY <2>1, FrameTypes DEF FrameInv, MarkedInv, FrameType
  <2>2. CASE surfaces[s] # <<>> /\ TakeFirst(s)
    <3>1. surfaces' = [surfaces EXCEPT ![s] = Tail(surfaces[s])]
      BY <2>2 DEF TakeFirst
    <3>2. /\ Tail(surfaces[s]) \in Seq(Surface)
          /\ PoolInv(transition[s], Tail(surfaces[s]), target[s].moves)
      BY <2>2, Taken
    <3> QED BY <3>1, <3>2 DEF MarkedInv, FrameType
  <2> QED BY <2>1, <2>2
<1>4. /\ frame' \in [Sessions -> [Callbacks -> Surface \cup Copied \cup {None}]]
      /\ \A r \in Sessions : r # s => frame'[r] = frame[r]
      /\ n = "recreating" => frame'[s][k] \in Surface
      /\ n = "copying" => CopyInv(transition[s], last[s], frame'[s][k], target[s].moves)
  <2>1. CASE n \notin {"recreating", "copying"} /\ frame' = frame
    BY <2>1 DEF MarkedInv, FrameType
  <2>2. ASSUME NEW f, frame' = [frame EXCEPT ![s][k] = f],
               \/ n = "recreating" /\ f \in Surface
               \/ n = "copying" /\ CopyInv(transition[s], last[s], f, target[s].moves)
        PROVE  /\ frame' \in [Sessions -> [Callbacks -> Surface \cup Copied \cup {None}]]
               /\ \A r \in Sessions : r # s => frame'[r] = frame[r]
               /\ n = "recreating" => frame'[s][k] \in Surface
               /\ n = "copying" =>
                     CopyInv(transition[s], last[s], frame'[s][k], target[s].moves)
    <3>1. f \in Surface \cup Copied \cup {None}
      BY <2>2 DEF CopyInv
    <3>2. frame'[s][k] = f
      BY <2>2 DEF MarkedInv, FrameType
    <3> QED BY <2>2, <3>1, <3>2 DEF MarkedInv, FrameType
  <2> QED BY <2>1, <2>2
<1>5. FrameType'
  BY <1>1, <1>3, <1>4 DEF MarkedInv, FrameType
<1>6. FrameInv(s)'
  <2>1. TransitionInv(transition[s], last[s], target[s].moves)
    BY FrameTypes DEF FrameInv
  <2>2. \A c \in Callbacks : stage'[s][c] \in {"recreating", "copying"} => c = k
    BY <1>1, <1>2
  <2> QED BY <1>1, <1>3, <1>4, <2>1, <2>2 DEF FrameInv
<1> QED BY <1>1, <1>3, <1>4, <1>5, <1>6, FrameStep

LEMMA TakeMarks ==
    ASSUME MarkedInv, NEW s \in Sessions, NEW k \in Callbacks,
           TakeFails(s, k) \/ TakeResized(s, k) \/ TakeCopied(s, k)
    PROVE  MarkedInv'
<1>1. CASE TakeFails(s, k)
  BY <1>1, TakeStep DEF TakeFails, Stages
<1>2. CASE TakeResized(s, k)
  <2>1. First(s) \in Surface
    BY <1>2, Taken DEF TakeResized
  <2>2. /\ Enters(s, k) /\ UNCHANGED <<transition, target, last>>
        /\ surfaces[s] # <<>> /\ TakeFirst(s)
    BY <1>2 DEF TakeResized
  <2>3. CASE Step(s, k, "recreating") /\ frame' = [frame EXCEPT ![s][k] = First(s)]
    BY <2>1, <2>2, <2>3, TakeStep DEF Stages
  <2>4. CASE Step(s, k, "failing") /\ frame' = frame
    BY <2>2, <2>4, TakeStep DEF Stages
  <2> QED BY <1>2, <2>3, <2>4 DEF TakeResized
<1>3. CASE TakeCopied(s, k)
  <2> DEFINE f == [pixels |-> First(s).pixels, placement |-> target[s].moves]
  <2>1. /\ Enters(s, k) /\ UNCHANGED <<transition, target, last>>
        /\ surfaces[s] # <<>> /\ TakeFirst(s) /\ ~Fenced(s)
    BY <1>3 DEF TakeCopied
  <2>2. First(s) = surfaces[s][1] /\ 1 \in 1..Len(surfaces[s]) /\ First(s) \in Surface
    BY <2>1, Taken
  <2>3. /\ First(s).pixels \in Nat /\ target[s].moves \in Nat /\ transition[s].placement \in Nat
        /\ First(s).pixels <= target[s].moves
        /\ transition[s].geometry /\ First(s).fresh =>
              transition[s].placement <= First(s).pixels
    BY <2>2, FrameTypes DEF FrameInv, PoolInv
  <2>4. /\ First(s).fresh /\ (last[s] # None => target[s].moves = transition[s].placement)
        /\ transition[s].geometry => last[s] # None
    BY <2>1, FrameTypes DEF Fenced, FrameInv, TransitionInv
  <2>5. f \in Copied /\ f.pixels = First(s).pixels /\ f.placement = target[s].moves
    BY <2>3 DEF Copied
  <2> HIDE DEF f
  <2>6. CopyInv(transition[s], last[s], f, target[s].moves)
    BY <2>3, <2>4, <2>5 DEF CopyInv
  <2>7. CASE Step(s, k, "copying") /\ frame' = [frame EXCEPT ![s][k] = f]
    BY <2>1, <2>6, <2>7, TakeStep DEF Stages
  <2>8. CASE Step(s, k, "leaving") /\ frame' = frame
    BY <2>1, <2>8, TakeStep DEF Stages
  <2> QED BY <1>3, <2>7, <2>8 DEF TakeCopied, f
<1> QED BY <1>1, <1>2, <1>3

(* The placement is observed before any frame shows it, and nothing in the *)
(* pool passes the fence afterwards.                                       *)
LEMMA TakeFencedMarks ==
    ASSUME MarkedInv, NEW s \in Sessions, NEW k \in Callbacks, TakeFenced(s, k)
    PROVE  MarkedInv'
<1>1. /\ Enters(s, k) /\ Step(s, k, "leaving") /\ surfaces[s] # <<>>
      /\ UNCHANGED <<target, last, frame>>
  BY DEF TakeFenced
<1>2. CASE ~(last[s] # None /\ target[s].moves # transition[s].placement)
  BY <1>1, <1>2, TakeStep DEF TakeFenced, Stages
<1>3. CASE last[s] # None /\ target[s].moves # transition[s].placement
  <2> DEFINE pool == surfaces[s]
             aged == [i \in 1..(Len(pool) - 1) |-> [pool[i + 1] EXCEPT !.fresh = FALSE]]
             t == [transition[s] EXCEPT !.placement = target[s].moves, !.geometry = TRUE]
  <2>1. transition' = [transition EXCEPT ![s] = t] /\ surfaces' = [surfaces EXCEPT ![s] = aged]
    BY <1>3 DEF TakeFenced, MarkedInv, FrameType
  <2>2. /\ aged \in Seq(Surface) /\ Len(aged) = Len(pool) - 1
        /\ \A i \in 1..Len(aged) : ~aged[i].fresh /\ aged[i].pixels <= target[s].moves
    <3>1. Len(pool) \in Nat /\ Len(pool) > 0 /\ Len(pool) - 1 \in Nat
      BY <1>1, FrameTypes
    <3>2. PoolInv(transition[s], pool, target[s].moves)
      BY FrameTypes DEF FrameInv
    <3>3. ASSUME NEW i \in 1..(Len(pool) - 1)
          PROVE  /\ aged[i] \in Surface /\ ~aged[i].fresh
                 /\ aged[i].pixels <= target[s].moves
      <4>1. i + 1 \in 1..Len(pool) /\ pool[i + 1] \in Surface
        BY <3>1, FrameTypes
      <4>2. pool[i + 1].pixels <= target[s].moves
        BY <3>2, <4>1 DEF PoolInv
      <4>3. aged[i] = [pool[i + 1] EXCEPT !.fresh = FALSE]
        OBVIOUS
      <4> QED BY <4>1, <4>2, <4>3 DEF Surface
    <3>4. aged \in [1..(Len(pool) - 1) -> Surface]
      BY <3>3
    <3> HIDE DEF aged
    <3>5. aged \in Seq(Surface) /\ Len(aged) = Len(pool) - 1
      BY <3>1, <3>4
    <3> QED BY <3>3, <3>5
  <2>3. /\ t \in [extent : Nat, placement : Nat, pool : Nat,
                  discontinuity : BOOLEAN, geometry : BOOLEAN]
        /\ t.placement = target[s].moves /\ t.geometry = TRUE
        /\ t.pool = transition[s].pool /\ t.discontinuity = transition[s].discontinuity
    BY FrameTypes DEF MarkedInv, FrameType
  <2> HIDE DEF aged, t
  <2>4. /\ transition'[s] = t /\ surfaces'[s] = aged
        /\ transition' \in [Sessions -> [extent : Nat, placement : Nat, pool : Nat,
                                         discontinuity : BOOLEAN, geometry : BOOLEAN]]
        /\ surfaces' \in [Sessions -> Seq(Surface)]
        /\ \A r \in Sessions : r # s => transition'[r] = transition[r]
                                        /\ surfaces'[r] = surfaces[r]
    BY <2>1, <2>2, <2>3 DEF MarkedInv, FrameType
  <2>5. /\ stage' \in [Sessions -> [Callbacks -> Stages]] /\ stage'[s][k] = "leaving"
        /\ \A r \in Sessions : r # s => stage'[r] = stage[r]
        /\ \A c \in Callbacks : c # k => stage'[s][c] = stage[s][c]
    BY <1>1 DEF Step, MarkedInv, FrameType, Stages
  <2>6. FrameType'
    BY <1>1, <2>4, <2>5 DEF MarkedInv, FrameType
  <2>7. FrameInv(s)'
    <3>1. TransitionInv(t, last[s], target[s].moves)
      BY <1>3, <2>3, FrameTypes DEF FrameInv, TransitionInv
    <3>2. PoolInv(t, aged, target[s].moves)
      BY <2>2 DEF PoolInv
    <3>3. \A c \in Callbacks : stage'[s][c] \notin {"recreating", "copying"}
      BY <1>1, <2>5 DEF Enters, Framing
    <3> QED BY <1>1, <2>4, <3>1, <3>2, <3>3 DEF FrameInv
  <2> QED BY <1>1, <2>4, <2>5, <2>6, <2>7, FrameStep
<1> QED BY <1>2, <1>3

Transition == [extent : Nat, placement : Nat, pool : Nat,
               discontinuity : BOOLEAN, geometry : BOOLEAN]

(* The one callback in process_frame leaves it.                            *)
LEMMA FramedStep ==
    ASSUME MarkedInv, NEW s \in Sessions, NEW k \in Callbacks,
           stage[s][k] \in {"recreating", "copying"},
           NEW n \in Stages \ {"recreating", "copying"}, Step(s, k, n),
           frame' = [frame EXCEPT ![s][k] = None], target' = target,
           NEW t \in Transition, transition' = [transition EXCEPT ![s] = t],
           NEW pool \in Seq(Surface), surfaces' = [surfaces EXCEPT ![s] = pool],
           NEW l \in Published \cup {None}, last' = [last EXCEPT ![s] = l],
           TransitionInv(t, l, target[s].moves), PoolInv(t, pool, target[s].moves)
    PROVE  MarkedInv'
<1>1. /\ stage' \in [Sessions -> [Callbacks -> Stages]] /\ stage'[s][k] = n
      /\ \A r \in Sessions : r # s => stage'[r] = stage[r]
      /\ \A c \in Callbacks : c # k => stage'[s][c] = stage[s][c]
  BY DEF Step, MarkedInv, FrameType
<1>2. /\ transition' \in [Sessions -> Transition] /\ transition'[s] = t
      /\ surfaces' \in [Sessions -> Seq(Surface)] /\ surfaces'[s] = pool
      /\ last' \in [Sessions -> Published \cup {None}] /\ last'[s] = l
  BY DEF MarkedInv, FrameType, Transition
<1>3. /\ frame' \in [Sessions -> [Callbacks -> Surface \cup Copied \cup {None}]]
      /\ \A r \in Sessions : r # s => frame'[r] = frame[r]
  BY DEF MarkedInv, FrameType
<1>4. FrameType'
  BY <1>1, <1>2, <1>3 DEF MarkedInv, FrameType, Transition
<1>5. FrameInv(s)'
  <2>1. FrameInv(s)
    BY DEF MarkedInv
  <2>2. \A c \in Callbacks : stage'[s][c] \notin {"recreating", "copying"}
    BY <1>1, <2>1 DEF FrameInv
  <2> QED BY <1>2, <2>2 DEF FrameInv
<1>6. \A r \in Sessions : r # s =>
         /\ transition'[r] = transition[r] /\ target'[r] = target[r]
         /\ surfaces'[r] = surfaces[r] /\ last'[r] = last[r]
  BY DEF MarkedInv, FrameType
<1> QED BY <1>1, <1>3, <1>4, <1>5, <1>6, FrameStep

(* The pool is recreated: it is empty, and the frame after it is another   *)
(* pool's.                                                                 *)
LEMMA RecreateMarks ==
    ASSUME MarkedInv, NEW s \in Sessions, NEW k \in Callbacks, Recreate(s, k)
    PROVE  MarkedInv'
<1>1. /\ stage[s][k] = "recreating" /\ frame' = [frame EXCEPT ![s][k] = None]
      /\ UNCHANGED <<target, last>>
  BY DEF Recreate
<1>2. /\ transition[s] \in Transition /\ surfaces[s] \in Seq(Surface)
      /\ last[s] \in Published \cup {None} /\ last' = [last EXCEPT ![s] = last[s]]
      /\ TransitionInv(transition[s], last[s], target[s].moves)
      /\ PoolInv(transition[s], surfaces[s], target[s].moves)
  BY <1>1, FrameTypes DEF MarkedInv, FrameType, Transition, FrameInv
<1>3. ASSUME transition' = [transition EXCEPT ![s].extent = frame[s][k].extent,
                                             ![s].pool = @ + 1,
                                             ![s].discontinuity = last[s] # None],
             surfaces' = [surfaces EXCEPT ![s] = <<>>], Step(s, k, "leaving")
      PROVE  MarkedInv'
  <2> DEFINE t == [transition[s] EXCEPT !.extent = frame[s][k].extent, !.pool = @ + 1,
                                        !.discontinuity = last[s] # None]
  <2>1. transition' = [transition EXCEPT ![s] = t]
    BY <1>3 DEF MarkedInv, FrameType
  <2>2. frame[s][k] \in Surface
    BY <1>1, FrameTypes DEF FrameInv
  <2>3. frame[s][k].extent \in Nat /\ transition[s].pool + 1 \in Nat
    BY <2>2, FrameTypes DEF Surface
  <2>4. /\ t \in Transition /\ t.placement = transition[s].placement
        /\ t.pool = transition[s].pool + 1 /\ t.geometry = transition[s].geometry
        /\ t.discontinuity = (last[s] # None)
    BY <1>2, <2>3 DEF Transition
  <2> HIDE DEF t
  <2>5. TransitionInv(t, last[s], target[s].moves)
    <3>1. CASE last[s] = None
      BY <1>2, <2>4, <3>1, FrameTypes DEF TransitionInv
    <3>2. CASE last[s] # None
      <4>1. /\ transition[s].pool \in Nat /\ last[s].pool \in Nat
            /\ last[s].pool <= transition[s].pool
        BY <1>2, <3>2, FrameTypes DEF TransitionInv
      <4>2. last[s].pool <= t.pool /\ t.pool # last[s].pool
        BY <2>4, <4>1
      <4>3. t.discontinuity
        BY <2>4, <3>2, Zenon
      <4> QED BY <1>2, <2>4, <3>2, <4>2, <4>3 DEF TransitionInv
    <3> QED BY <3>1, <3>2
  <2>6. PoolInv(t, <<>>, target[s].moves) /\ <<>> \in Seq(Surface)
    BY DEF PoolInv
  <2> QED BY <1>1, <1>2, <1>3, <2>1, <2>4, <2>5, <2>6, FramedStep DEF Stages
<1>4. CASE Step(s, k, "failing") /\ UNCHANGED <<transition, surfaces>>
  <2>1. /\ transition' = [transition EXCEPT ![s] = transition[s]]
        /\ surfaces' = [surfaces EXCEPT ![s] = surfaces[s]]
    BY <1>4 DEF MarkedInv, FrameType
  <2> QED BY <1>1, <1>2, <1>4, <2>1, FramedStep DEF Stages
<1> QED BY <1>3, <1>4 DEF Recreate

(* The frame that is published shows all the transition knew.              *)
LEMMA PublishMarks ==
    ASSUME MarkedInv, NEW s \in Sessions, NEW k \in Callbacks, Publish(s, k)
    PROVE  MarkedInv'
<1>1. /\ stage[s][k] = "copying" /\ frame' = [frame EXCEPT ![s][k] = None]
      /\ UNCHANGED <<target, surfaces>> /\ Step(s, k, "leaving")
  BY DEF Publish
<1>2. /\ transition[s] \in Transition /\ surfaces[s] \in Seq(Surface)
      /\ surfaces' = [surfaces EXCEPT ![s] = surfaces[s]]
      /\ last[s] \in Published \cup {None}
      /\ TransitionInv(transition[s], last[s], target[s].moves)
      /\ PoolInv(transition[s], surfaces[s], target[s].moves)
  BY <1>1, FrameTypes DEF MarkedInv, FrameType, Transition, FrameInv
<1>3. CASE stream[s] = "Open"
  <2> DEFINE l == [pixels |-> frame[s][k].pixels, placement |-> frame[s][k].placement,
                   pool |-> transition[s].pool, continuity |-> Continuity(s)]
             t == [transition[s] EXCEPT !.placement = frame[s][k].placement,
                                        !.discontinuity = FALSE, !.geometry = FALSE]
  <2>1. transition' = [transition EXCEPT ![s] = t] /\ last' = [last EXCEPT ![s] = l]
    BY <1>3 DEF Publish, MarkedInv, FrameType
  <2>2. CopyInv(transition[s], last[s], frame[s][k], target[s].moves)
    BY <1>1, FrameTypes DEF FrameInv
  <2>3. /\ frame[s][k].pixels \in Nat /\ frame[s][k].placement \in Nat
        /\ frame[s][k].placement <= target[s].moves
    BY <2>2 DEF CopyInv, Copied
  <2>4. Continuity(s) \in {"Continuous", "GeometryChanged", "Discontinuous"}
    BY DEF Continuity
  <2>5. /\ l \in Published /\ l.pool = transition[s].pool
        /\ l.placement = frame[s][k].placement
    BY <1>2, <2>3, <2>4 DEF Published, Transition
  <2>6. /\ t \in Transition /\ t.placement = frame[s][k].placement
        /\ t.pool = transition[s].pool /\ t.geometry = FALSE /\ t.discontinuity = FALSE
    BY <1>2, <2>3 DEF Transition
  <2>7. t.pool \in Nat
    BY <2>6 DEF Transition
  <2> HIDE DEF l, t
  <2>8. l # None => TransitionInv(t, l, target[s].moves)
    BY <2>3, <2>5, <2>6, <2>7 DEF TransitionInv
  <2>9. l = None => TransitionInv(t, l, target[s].moves)
    BY <2>3, <2>6 DEF TransitionInv
  <2>10. PoolInv(t, surfaces[s], target[s].moves)
    BY <1>2, <2>6 DEF PoolInv
  <2> QED BY <1>1, <1>2, <2>1, <2>5, <2>6, <2>8, <2>9, <2>10, FramedStep DEF Stages
<1>4. CASE stream[s] # "Open"
  <2>1. /\ transition' = [transition EXCEPT ![s] = transition[s]]
        /\ last' = [last EXCEPT ![s] = last[s]]
    BY <1>4 DEF Publish, MarkedInv, FrameType
  <2> QED BY <1>1, <1>2, <2>1, FramedStep DEF Stages
<1> QED BY <1>3, <1>4

LEMMA CallbackMarks ==
    ASSUME MarkedInv, NEW s \in Sessions, NEW k \in Callbacks, Callback(s, k) \/ Lose(s, k)
    PROVE  MarkedInv'
<1>1. CASE Lose(s, k)
  BY <1>1, OutStep DEF Lose, Step, Stages
<1>2. CASE Admit(s, k)
  BY <1>2, OutStep DEF Admit, Stages, session, native
<1>3. CASE TurnBack(s, k)
  BY <1>3, OutStep DEF TurnBack, Stages, session, native
<1>4. CASE Fail(s, k)
  BY <1>4, OutStep DEF Fail, Stages, native
<1>5. CASE Leave(s, k)
  BY <1>5, OutStep DEF Leave, Stages, session, native
<1> QED BY <1>1, <1>2, <1>3, <1>4, <1>5, TakeMarks, TakeFencedMarks, RecreateMarks,
           PublishMarks DEF Callback

(* What the closers, the workers and the drop do leaves the frames alone.  *)
LEMMA OthersKeep ==
    ASSUME MarkedInv, UNCHANGED <<transition, target, surfaces, last, stage, frame>>
    PROVE  MarkedInv'
  BY DEF MarkedInv, FrameType, FrameInv

LEMMA OthersSteady ==
    ASSUME \/ \E s \in Sessions : Open(s) \/ Drop(s) \/ DropClose(s)
           \/ \E d \in Closers : \/ Interrupt(d) \/ CloseStep(d)
                                 \/ \E s \in Sessions : Close(d, s)
           \/ \E w \in Workers : Teardown(w) \/ Panic(w)
           \/ DropQueue
    PROVE  UNCHANGED <<transition, target, surfaces, last, stage, frame>>
<1>1. ASSUME NEW s \in Sessions, Open(s) \/ Drop(s) \/ DropClose(s)
      PROVE  UNCHANGED <<transition, target, surfaces, last, stage, frame>>
  BY <1>1 DEF Open, Drop, DropClose, native
<1>2. ASSUME NEW d \in Closers, Interrupt(d) \/ \E s \in Sessions : Close(d, s)
      PROVE  UNCHANGED <<transition, target, surfaces, last, stage, frame>>
  BY <1>2 DEF Interrupt, Close, native, session
<1>3. ASSUME NEW d \in Closers, CloseStep(d)
      PROVE  UNCHANGED <<transition, target, surfaces, last, stage, frame>>
  <2>1. CASE Stop(d) \/ Gate(d) \/ Remove(d) \/ Drain(d) \/ Fence(d)
    BY <2>1 DEF Stop, Gate, Remove, Drain, Fence, native, session
  <2>2. CASE StartClose(d)
    BY <2>2 DEF StartClose, native, session
  <2>3. CASE Await(d) \/ Report(d) \/ Settle(d)
    BY <2>3 DEF Await, Report, Settle, native, session
  <2> QED BY <1>3, <2>1, <2>2, <2>3 DEF CloseStep
<1>4. ASSUME NEW w \in Workers, Teardown(w) \/ Panic(w)
      PROVE  UNCHANGED <<transition, target, surfaces, last, stage, frame>>
  BY <1>4 DEF Teardown, Take, DrainJob, Finish, Panic, native, session
<1>5. CASE DropQueue
  BY <1>5 DEF DropQueue, native
<1> QED BY <1>1, <1>2, <1>3, <1>4, <1>5

LEMMA MarkedNext == MarkedInv /\ [Next]_vars => MarkedInv'
<1> SUFFICES ASSUME MarkedInv, [Next]_vars PROVE MarkedInv'
  OBVIOUS
<1>1. ASSUME NEW s \in Sessions, Resize(s) \/ Move(s) PROVE MarkedInv'
  BY <1>1, TargetKeeps
<1>2. ASSUME NEW s \in Sessions, NEW k \in Callbacks,
             Arrive(s, k) \/ Lose(s, k) \/ Callback(s, k)
      PROVE  MarkedInv'
  BY <1>2, ArriveKeeps, CallbackMarks
<1>3. CASE UNCHANGED vars
  BY <1>3, OthersKeep DEF vars, native, session
<1>4. ASSUME \/ \E s \in Sessions : Open(s) \/ Drop(s) \/ DropClose(s)
             \/ \E d \in Closers : \/ Interrupt(d) \/ CloseStep(d)
                                   \/ \E s \in Sessions : Close(d, s)
             \/ \E w \in Workers : Teardown(w) \/ Panic(w)
             \/ DropQueue
      PROVE  MarkedInv'
  BY <1>4, OthersSteady, OthersKeep
<1> QED BY <1>1, <1>2, <1>3, <1>4 DEF Next

(* What process_frame knows of a session is what its last frame does not   *)
(* show yet: a discontinuity is pending exactly when the pool is another   *)
(* one, a change of geometry exactly when the target was seen elsewhere,   *)
(* and from then on only pixels captured at the new place pass the fence   *)
(* (TransitionState, pool_recreated, accepts_frame_geometry).              *)
THEOREM MarkedInvariant == Spec => []MarkedInv
<1>1. Init => MarkedInv
  BY MarkedStart
<1> QED BY <1>1, MarkedNext, PTL DEF Spec

LEMMA OnlyPublished ==
    ASSUME MarkedInv, [Next]_vars, NEW s \in Sessions, last'[s] # last[s]
    PROVE  \E k \in Callbacks : Publish(s, k) /\ stream[s] = "Open"
<1>1. last' # last
  OBVIOUS
<1>2. ASSUME NEW r \in Sessions, Resize(r) \/ Move(r) PROVE FALSE
  BY <1>1, <1>2 DEF Resize, Move, session
<1>3. ASSUME NEW r \in Sessions, NEW k \in Callbacks, Arrive(r, k) \/ Lose(r, k) PROVE FALSE
  BY <1>1, <1>3 DEF Arrive, Lose, session
<1>4. ASSUME NEW r \in Sessions, NEW k \in Callbacks, Callback(r, k), ~Publish(r, k)
      PROVE  FALSE
  <2>1. \/ Admit(r, k) \/ TurnBack(r, k) \/ TakeFails(r, k) \/ TakeResized(r, k)
        \/ TakeFenced(r, k) \/ TakeCopied(r, k) \/ Recreate(r, k) \/ Fail(r, k)
        \/ Leave(r, k)
    BY <1>4 DEF Callback
  <2>2. last' = last
    BY <2>1 DEF Admit, TurnBack, TakeFails, TakeResized, TakeFenced, TakeCopied, Recreate,
                Fail, Leave, session
  <2> QED BY <1>1, <2>2
<1>5. ASSUME NEW r \in Sessions, NEW k \in Callbacks, Publish(r, k)
      PROVE  Publish(s, k) /\ stream[s] = "Open"
  <2>1. stream[r] = "Open" /\ \E l : last' = [last EXCEPT ![r] = l]
    BY <1>1, <1>5 DEF Publish
  <2>2. r = s
    BY <2>1 DEF MarkedInv, FrameType
  <2> QED BY <1>5, <2>1, <2>2
<1>6. \/ \E r \in Sessions : Resize(r) \/ Move(r)
      \/ \E r \in Sessions, k \in Callbacks : Arrive(r, k) \/ Lose(r, k) \/ Callback(r, k)
  BY <1>1, OthersSteady DEF Next, vars, session
<1> QED BY <1>2, <1>3, <1>4, <1>5, <1>6

(* A frame is marked Discontinuous exactly when the pool was recreated     *)
(* since the frame before it, GeometryChanged exactly when it was not and  *)
(* the target was seen elsewhere, and a frame that moved carries pixels of *)
(* the placement it states, whatever callbacks, drops and recreations ran  *)
(* between (pool_recreated, accepts_frame_geometry, continuity).           *)
THEOREM FramesMarked == Spec => FramesAreMarked
<1> DEFINE Marked(s) ==
             IF last[s] = None
               THEN last'[s].continuity = "Continuous"
               ELSE /\ last'[s].continuity =
                          IF last'[s].pool # last[s].pool THEN "Discontinuous"
                          ELSE IF last'[s].placement # last[s].placement
                          THEN "GeometryChanged" ELSE "Continuous"
                    /\ last'[s].placement # last[s].placement =>
                          last'[s].pixels = last'[s].placement
<1>1. ASSUME MarkedInv, [Next]_vars, NEW s \in Sessions, last'[s] # last[s]
      PROVE  Marked(s)
  <2>1. PICK k \in Callbacks : Publish(s, k) /\ stream[s] = "Open"
    BY <1>1, OnlyPublished
  <2>2. last'[s] = [pixels |-> frame[s][k].pixels, placement |-> frame[s][k].placement,
                    pool |-> transition[s].pool, continuity |-> Continuity(s)]
    BY <1>1, <2>1 DEF Publish, MarkedInv, FrameType
  <2>3. /\ last'[s].pixels = frame[s][k].pixels /\ last'[s].pool = transition[s].pool
        /\ last'[s].placement = frame[s][k].placement
        /\ last'[s].continuity = Continuity(s)
    BY <2>2
  <2>4. /\ TransitionInv(transition[s], last[s], target[s].moves)
        /\ CopyInv(transition[s], last[s], frame[s][k], target[s].moves)
    BY <1>1, <2>1, FrameTypes DEF FrameInv, Publish
  <2>5. CASE last[s] = None
    BY <2>3, <2>4, <2>5 DEF TransitionInv, Continuity
  <2>6. CASE last[s] # None
    <3>1. /\ transition[s].discontinuity <=> transition[s].pool # last[s].pool
          /\ transition[s].geometry <=> transition[s].placement # last[s].placement
      BY <2>4, <2>6 DEF TransitionInv
    <3>2. /\ frame[s][k].placement = transition[s].placement
          /\ transition[s].geometry => frame[s][k].pixels = frame[s][k].placement
      BY <2>4, <2>6 DEF CopyInv
    <3>3. last'[s].continuity =
             IF transition[s].discontinuity THEN "Discontinuous"
             ELSE IF transition[s].geometry THEN "GeometryChanged" ELSE "Continuous"
      BY <2>3 DEF Continuity
    <3> QED BY <2>3, <2>6, <3>1, <3>2, <3>3
  <2> QED BY <2>5, <2>6
<1>2. MarkedInv /\ [Next]_vars =>
         [\A s \in Sessions : last'[s] # last[s] => Marked(s)]_vars
  BY <1>1
<1> QED BY <1>2, MarkedInvariant, PTL DEF Spec, FramesAreMarked

=============================================================================
