--------------------------- MODULE DispatchProofs ---------------------------
(***************************************************************************)
(* Proofs about Dispatch, for any packs, workers, keys and bounds: IInv is *)
(* inductive, with one lemma per action; the safety properties follow from *)
(* it; and Dispatch implements OneShotSend.  Each lemma about an action    *)
(* has one step per part of IInv.                                          *)
(***************************************************************************)
EXTENDS DispatchInvariant, TLAPS

-----------------------------------------------------------------------------
(* What an action does not touch, it preserves.                             *)

(* Who holds which pack depends on the program counters, the current packs  *)
(* and the claims alone.                                                    *)
LEMMA CustodyFrame ==
  ASSUME Custody, UNCHANGED <<pc, cur, status, claimAge>>
  PROVE  Custody'
BY DEF Custody, CurrentPack, OneHolder, HolderClaimed, HeldInTime, Holding

(* Whether statuses are true of the mail depends on these, not on queues,   *)
(* keys or time.                                                            *)
LEMMA TruthFrame ==
  ASSUME Truth, UNCHANGED <<status, posts, provider, events, pc, cur, result>>
  PROVE  Truth'
BY DEF Truth, PostsCounted, StatusTruthful, OutcomeTruthful, ResultTruthful,
       OneShot!Certain

(* What is due or stale depends on the clocks and on the places where packs *)
(* wait.                                                                    *)
LEMMA TimingFrame ==
  ASSUME Timing, UNCHANGED <<status, sendIn, claimAge, replica, unqueued, queue,
                             batch, todo, cur, sweepPc, sweepTodo>>
  PROVE  Timing'
BY DEF Timing, OnlyDue, Due, StaleSwept

-----------------------------------------------------------------------------
(* Every action preserves the invariant. *)

(* put_pack inserts only an id that is absent, so nobody works on the pack  *)
(* yet.                                                                     *)
LEMMA PutPackStep ==
  ASSUME IInv, NEW p \in Packs, NEW d \in 0..MaxDelay, NEW k \in Keys, PutPack(p, d, k)
  PROVE  IInv'
<1>1. TypeOK'
  BY DEF IInv, TypeOK, Status, Resolved, PutPack, workerVars, sweepVars, mailVars
<1>2. Custody'
  BY DEF IInv, Custody, CurrentPack, OneHolder, HolderClaimed, HeldInTime, Holding,
     PutPack, workerVars, sweepVars, mailVars
<1>3. Truth'
  BY DEF IInv, Truth, PostsCounted, StatusTruthful, OutcomeTruthful, ResultTruthful,
     OneShot!Certain, PutPack, workerVars, sweepVars, mailVars
<1>4. Timing'
  BY DEF IInv, TypeOK, Timing, OnlyDue, Due, StaleSwept, PutPack, workerVars,
     sweepVars, mailVars
<1> QED BY <1>1, <1>2, <1>3, <1>4 DEF IInv

(* _enqueue of packs_push moves a due pack from "to be queued" to the       *)
(* queue.                                                                   *)
LEMMA EnqueueStep ==
  ASSUME IInv, NEW p \in Packs, Enqueue(p)
  PROVE  IInv'
<1>1. TypeOK'
  BY DEF IInv, TypeOK, Enqueue, itemVars, workerVars, sweepVars, mailVars
<1>2. Custody'
  BY CustodyFrame DEF IInv, Enqueue, itemVars, workerVars, sweepVars, mailVars
<1>3. Truth'
  BY TruthFrame DEF IInv, Enqueue, itemVars, workerVars, sweepVars, mailVars
<1>4. Timing'
  BY DEF IInv, Timing, OnlyDue, Due, StaleSwept, Enqueue, itemVars, workerVars,
     sweepVars, mailVars
<1> QED BY <1>1, <1>2, <1>3, <1>4 DEF IInv

(* The conditional cancel hits a pending pack, which nobody holds or has    *)
(* posted.                                                                  *)
LEMMA CancelPackStep ==
  ASSUME IInv, NEW p \in Packs, CancelPack(p)
  PROVE  IInv'
<1>1. TypeOK'
  BY DEF IInv, TypeOK, Status, Resolved, CancelPack, Cancellable, SetOutcome,
     workerVars, sweepVars, mailVars
<1>2. Custody'
  BY DEF IInv, Custody, CurrentPack, OneHolder, HolderClaimed, HeldInTime, Holding,
     CancelPack, Cancellable, SetOutcome, workerVars
<1>3. Truth'
  BY DEF IInv, Truth, PostsCounted, StatusTruthful, OutcomeTruthful, ResultTruthful,
     CancelPack, Cancellable, SetOutcome, workerVars, mailVars
<1>4. Timing'
  BY DEF IInv, Timing, OnlyDue, Due, StaleSwept, CancelPack, Cancellable,
     SetOutcome, workerVars, sweepVars, mailVars
<1> QED BY <1>1, <1>2, <1>3, <1>4 DEF IInv

(* A late answer of the provider turns "inflight" into a fact; no status    *)
(* relied on it.                                                            *)
LEMMA ProviderAnswersStep ==
  ASSUME IInv, NEW p \in Packs, ProviderAnswers(p)
  PROVE  IInv'
<1>1. TypeOK'
  BY DEF IInv, TypeOK, ProviderAnswers, itemVars, workerVars, sweepVars
<1>2. Custody'
  BY CustodyFrame DEF IInv, ProviderAnswers, itemVars, workerVars, sweepVars
<1>3. Truth'
  BY DEF IInv, Truth, PostsCounted, StatusTruthful, OutcomeTruthful, ResultTruthful,
     OneShot!Certain, ProviderAnswers, itemVars, workerVars, sweepVars
<1>4. Timing'
  BY TimingFrame DEF IInv, ProviderAnswers, itemVars, workerVars, sweepVars
<1> QED BY <1>1, <1>2, <1>3, <1>4 DEF IInv

(* A message lost by SQS takes only its queue entry along.                  *)
LEMMA DropMessageStep ==
  ASSUME IInv, NEW p \in Packs, DropMessage(p)
  PROVE  IInv'
<1>1. TypeOK'
  BY DispatchAssumption DEF IInv, TypeOK, DropMessage, Fault, itemVars, workerVars,
     sweepVars, mailVars
<1>2. Custody'
  BY CustodyFrame DEF IInv, DropMessage, Fault, itemVars, workerVars, sweepVars,
     mailVars
<1>3. Truth'
  BY TruthFrame DEF IInv, DropMessage, Fault, itemVars, workerVars, sweepVars,
     mailVars
<1>4. Timing'
  BY DEF IInv, Timing, OnlyDue, Due, StaleSwept, DropMessage, Fault, itemVars,
     workerVars, sweepVars, mailVars
<1> QED BY <1>1, <1>2, <1>3, <1>4 DEF IInv

(* The replica catches up with a pack that is stored.                       *)
LEMMA ReplicateStep ==
  ASSUME IInv, NEW p \in Packs, Replicate(p)
  PROVE  IInv'
<1>1. TypeOK'
  BY DEF IInv, TypeOK, Replicate, itemVars, workerVars, sweepVars, mailVars
<1>2. Custody'
  BY CustodyFrame DEF IInv, Replicate, itemVars, workerVars, sweepVars, mailVars
<1>3. Truth'
  BY TruthFrame DEF IInv, Replicate, itemVars, workerVars, sweepVars, mailVars
<1>4. Timing'
  BY DEF IInv, Timing, OnlyDue, Due, StaleSwept, Replicate, itemVars, workerVars,
     sweepVars, mailVars
<1> QED BY <1>1, <1>2, <1>3, <1>4 DEF IInv

(* A batch is taken from a queue of due packs.                              *)
LEMMA ReceiveStep ==
  ASSUME IInv, NEW w \in Workers, Receive(w)
  PROVE  IInv'
<1>1. TypeOK'
  BY DEF IInv, TypeOK, Steps, Receive, itemVars, sweepVars, mailVars
<1>2. Custody'
  BY DEF IInv, Custody, CurrentPack, OneHolder, HolderClaimed, HeldInTime, Holding,
     Receive, itemVars, sweepVars, mailVars
<1>3. Truth'
  BY DEF IInv, Truth, PostsCounted, StatusTruthful, OutcomeTruthful, ResultTruthful,
     OneShot!Certain, Receive, itemVars, sweepVars, mailVars
<1>4. Timing'
  BY DEF IInv, TypeOK, Timing, OnlyDue, Due, StaleSwept, Receive, itemVars,
     sweepVars, mailVars
<1> QED BY <1>1, <1>2, <1>3, <1>4 DEF IInv

(* The first get_pack, stale or not, picks a due pack and holds nothing     *)
(* yet.                                                                     *)
LEMMA GetPackStep ==
  ASSUME IInv, NEW w \in Workers, NEW p \in Packs, GetPack(w, p)
  PROVE  IInv'
<1>1. TypeOK'
  BY DEF IInv, TypeOK, Steps, GetPack, itemVars, sweepVars, mailVars
<1>2. Custody'
  BY DispatchAssumption DEF Custody, CurrentPack, OneHolder, HolderClaimed,
     HeldInTime, Holding, GetPack, itemVars, IInv, TypeOK
<1>3. Truth'
  BY DEF IInv, TypeOK, Truth, PostsCounted, StatusTruthful, OutcomeTruthful,
     ResultTruthful, GetPack, itemVars, mailVars
<1>4. Timing'
  BY DEF IInv, TypeOK, Timing, OnlyDue, Due, StaleSwept, GetPack, itemVars,
     sweepVars, mailVars
<1> QED BY <1>1, <1>2, <1>3, <1>4 DEF IInv

(* claim_pack: a won claim makes its invocation the only holder of a fresh, *)
(* unposted pack.                                                           *)
LEMMA ClaimPackStep ==
  ASSUME IInv, NEW w \in Workers, ClaimPack(w)
  PROVE  IInv'
<1> USE DispatchAssumption DEF IInv, TypeOK, itemVars, workerVars, sweepVars, mailVars
<1>0. cur[w] \in Packs /\ ~Holding(w)
  BY DEF Custody, CurrentPack, ClaimPack, Holding
<1>a. CASE Claimable(cur[w])
  <2>1. /\ status[cur[w]] = "pending"
        /\ status' = [status EXCEPT ![cur[w]] = "claimed"]
        /\ claimAge' = [claimAge EXCEPT ![cur[w]] = 0]
        /\ pc' = [pc EXCEPT ![w] = "reget"]
        /\ UNCHANGED <<cur, blob, result, sendIn, sealedBy, payload, replica, unqueued,
                       queue, activeKey, batch, todo, sweepVars, mailVars, events, faults>>
    BY <1>a DEF ClaimPack, Claimable
  <2>2. TypeOK'
    BY <2>1, <1>0 DEF Status, Steps
  <2>3. Custody'
    <3>1. \A v \in Workers : Holding(v) => cur[v] # cur[w]
      BY <2>1 DEF Custody, HolderClaimed
    <3>2. \A v \in Workers : Holding(v)' <=> Holding(v) \/ v = w
      BY <2>1 DEF Holding
    <3>3a. CurrentPack'
      BY <2>1, <1>0 DEF Custody, CurrentPack, ClaimPack
    <3>3b. OneHolder'
      BY <2>1, <3>1, <3>2 DEF Custody, OneHolder
    <3>4. ASSUME NEW v \in Workers, Holding(v)'
          PROVE  /\ cur'[v] \in Packs
                 /\ v = w => status'[cur'[v]] = "claimed" /\ claimAge'[cur'[v]] = 0
                 /\ v # w => /\ Holding(v) /\ cur'[v] = cur[v]
                            /\ status'[cur'[v]] = status[cur[v]]
                            /\ claimAge'[cur'[v]] = claimAge[cur[v]]
      BY <2>1, <3>1, <3>2, <3>4, <1>0 DEF Custody, CurrentPack, Holding
    <3>5. HolderClaimed' /\ HeldInTime'
      BY <3>4 DEF Custody, HolderClaimed, HeldInTime
    <3> QED BY <3>3a, <3>3b, <3>5 DEF Custody
  <2>4. Truth'
    BY <2>1, <1>0 DEF Truth, PostsCounted, StatusTruthful, OutcomeTruthful,
         ResultTruthful, OneShot!Certain
  <2>5. Timing'
    BY <2>1, <1>0 DEF Timing, OnlyDue, Due, StaleSwept
  <2> QED BY <2>2, <2>3, <2>4, <2>5
<1>b. CASE ~Claimable(cur[w])
  <2>1. /\ Leave(w, "batch")
        /\ UNCHANGED <<itemVars, replica, unqueued, queue, activeKey, batch, todo,
                       sweepVars, mailVars, events, faults>>
    BY <1>b DEF ClaimPack
  <2>2. TypeOK'
    BY <2>1 DEF Leave, Steps, Resolved
  <2>3. Custody'
    BY <2>1 DEF Custody, CurrentPack, OneHolder, HolderClaimed, HeldInTime, Holding,
         Leave
  <2>4. Truth'
    BY <2>1 DEF Truth, PostsCounted, StatusTruthful, OutcomeTruthful,
         ResultTruthful, OneShot!Certain, Leave
  <2>5. Timing'
    BY <2>1 DEF Timing, OnlyDue, Due, StaleSwept, Leave
  <2> QED BY <2>2, <2>3, <2>4, <2>5
<1> QED BY <1>a, <1>b

(* The second get_pack only tells the holder whether it has a payload.      *)
LEMMA RegetPackStep ==
  ASSUME IInv, NEW w \in Workers, RegetPack(w)
  PROVE  IInv'
<1>1. TypeOK'
  BY DEF IInv, TypeOK, Steps, RegetPack, itemVars, sweepVars, mailVars
<1>2. Custody'
  BY DEF IInv, Custody, CurrentPack, OneHolder, HolderClaimed, HeldInTime, Holding,
     RegetPack, itemVars, sweepVars, mailVars
<1>3. Truth'
  BY DEF IInv, Truth, PostsCounted, StatusTruthful, OutcomeTruthful, ResultTruthful,
     OneShot!Certain, RegetPack, itemVars, sweepVars, mailVars
<1>4. Timing'
  BY TimingFrame DEF IInv, RegetPack, itemVars, sweepVars, mailVars
<1> QED BY <1>1, <1>2, <1>3, <1>4 DEF IInv

(* A pack without a key, or one that does not open, is written off before   *)
(* any POST.                                                                *)
LEMMA FetchKeyAndOpenStep ==
  ASSUME IInv, NEW w \in Workers, FetchKeyAndOpen(w)
  PROVE  IInv'
<1>1. TypeOK'
  BY DEF IInv, TypeOK, Resolved, Steps, FetchKeyAndOpen, NoKeyOutcome, itemVars,
     sweepVars, mailVars
<1>2. Custody'
  BY DEF IInv, TypeOK, Custody, CurrentPack, OneHolder, HolderClaimed, HeldInTime,
     Holding, FetchKeyAndOpen, itemVars
<1>3. Truth'
  BY DEF IInv, TypeOK, Custody, CurrentPack, Truth, PostsCounted, StatusTruthful,
     OutcomeTruthful, ResultTruthful, OneShot!Certain, FetchKeyAndOpen,
     NoKeyOutcome, itemVars, mailVars
<1>4. Timing'
  BY TimingFrame DEF IInv, FetchKeyAndOpen, NoKeyOutcome, itemVars, sweepVars,
     mailVars
<1> QED BY <1>1, <1>2, <1>3, <1>4 DEF IInv

(* The POST is the first for its pack, as the only holder had not made one. *)
LEMMA PostStep ==
  ASSUME IInv, NEW w \in Workers, Post(w)
  PROVE  IInv'
<1>1. TypeOK'
  BY DEF IInv, Custody, CurrentPack, TypeOK, Steps, Post, itemVars, sweepVars
<1>2. Custody'
  BY DEF IInv, Custody, CurrentPack, OneHolder, HolderClaimed, HeldInTime, Holding,
     Post, itemVars, sweepVars
<1>3. Truth'
  BY DEF Truth, PostsCounted, StatusTruthful, OutcomeTruthful, ResultTruthful, Post,
     itemVars, IInv, TypeOK, Custody, OneHolder, HolderClaimed, Holding
<1>4. Timing'
  BY TimingFrame DEF IInv, Post, itemVars, sweepVars
<1> QED BY <1>1, <1>2, <1>3, <1>4 DEF IInv

(* _send_sync reports "sent" or "failed" only when the provider said so.    *)
LEMMA ReplyStep ==
  ASSUME IInv, NEW w \in Workers, Reply(w)
  PROVE  IInv'
<1>1. TypeOK'
  BY DEF IInv, TypeOK, Resolved, Steps, Reply, AnswersSeen, itemVars, sweepVars,
     mailVars
<1>2. Custody'
  BY DEF IInv, Custody, CurrentPack, OneHolder, HolderClaimed, HeldInTime, Holding,
     Reply, itemVars
<1>3. Truth'
  BY DEF IInv, TypeOK, Truth, PostsCounted, StatusTruthful, OutcomeTruthful,
     ResultTruthful, OneShot!Certain, Reply, AnswersSeen, itemVars, mailVars
<1>4. Timing'
  BY TimingFrame DEF IInv, Reply, AnswersSeen, itemVars, sweepVars, mailVars
<1> QED BY <1>1, <1>2, <1>3, <1>4 DEF IInv

(* The unconditional write of the outcome: it is true, and the pack was     *)
(* held and unresolved.                                                     *)
LEMMA UpdatePackStep ==
  ASSUME IInv, NEW w \in Workers, UpdatePack(w)
  PROVE  IInv'
<1>0. /\ cur[w] \in Packs /\ Holding(w)
      /\ OneShot!Certain(result[w], provider[cur[w]])
      /\ result[w] # "cancelled" /\ result[w] \in Resolved
      /\ status' = [status EXCEPT ![cur[w]] = result[w]]
  BY DEF IInv, TypeOK, Custody, CurrentPack, Truth, ResultTruthful, UpdatePack,
       SetOutcome, Holding
<1>a. UNCHANGED <<provider, posts, events>>
  BY DEF UpdatePack, mailVars
<1>b. /\ \A v \in Workers : v # w => pc'[v] = pc[v] /\ cur'[v] = cur[v] /\ result'[v] = result[v]
      /\ pc'[w] \in {"idle", "batch", "event"}
      /\ pc'[w] = "event" => result[w] = "sent" /\ cur'[w] = cur[w]
  BY DEF IInv, TypeOK, UpdatePack, Stop, Leave
<1>1. TypeOK'
  BY DEF IInv, TypeOK, Status, Resolved, Steps, UpdatePack, SetOutcome, Stop, Leave,
     sweepVars, mailVars
<1>2. Custody'
  BY DEF IInv, TypeOK, Custody, CurrentPack, OneHolder, HolderClaimed, HeldInTime,
     Holding, UpdatePack, SetOutcome, Stop, Leave
<1>3. Truth'
  <2>1. PostsCounted'
    BY <1>a, <1>b DEF IInv, Truth, PostsCounted
  <2>2. StatusTruthful'
    BY <1>0, <1>a DEF IInv, TypeOK, Custody, HolderClaimed, Truth, PostsCounted,
         StatusTruthful, OutcomeTruthful, OneShot!Certain, Resolved
  <2>3. ResultTruthful'
    BY <1>0, <1>a, <1>b DEF IInv, TypeOK, Truth, ResultTruthful, Custody,
         CurrentPack, HolderClaimed, OneShot!Certain, Resolved
  <2> QED BY <2>1, <2>2, <2>3 DEF Truth
<1>4. Timing'
  BY DispatchAssumption DEF Timing, OnlyDue, Due, StaleSwept, UpdatePack,
     SetOutcome, Stop, Leave, sweepVars, IInv, TypeOK, Resolved, Steps, Custody
<1> QED BY <1>1, <1>2, <1>3, <1>4 DEF IInv

(* The event of _finalize follows a status that is already "sent" and stays *)
(* so.                                                                      *)
LEMMA PutEventStep ==
  ASSUME IInv, NEW w \in Workers, PutEvent(w)
  PROVE  IInv'
<1>1. TypeOK'
  BY DEF IInv, Custody, CurrentPack, TypeOK, Resolved, Steps, PutEvent, Leave,
     itemVars, sweepVars, mailVars
<1>2. Custody'
  BY DEF IInv, TypeOK, Custody, CurrentPack, OneHolder, HolderClaimed, HeldInTime,
     Holding, PutEvent, Leave, itemVars
<1>3. Truth'
  BY DEF IInv, TypeOK, Truth, PostsCounted, StatusTruthful, OutcomeTruthful,
     ResultTruthful, PutEvent, Leave, itemVars, mailVars
<1>4. Timing'
  BY DEF IInv, Timing, OnlyDue, Due, StaleSwept, PutEvent, Leave, itemVars,
     sweepVars, mailVars
<1> QED BY <1>1, <1>2, <1>3, <1>4 DEF IInv

(* The end of handler releases the batch; no pack was held.                 *)
LEMMA EndBatchStep ==
  ASSUME IInv, NEW w \in Workers, EndBatch(w)
  PROVE  IInv'
<1>1. TypeOK'
  BY DEF IInv, TypeOK, Resolved, Steps, EndBatch, Stop, Leave, itemVars, sweepVars,
     mailVars
<1>2. Custody'
  BY DEF IInv, Custody, CurrentPack, OneHolder, HolderClaimed, HeldInTime, Holding,
     EndBatch, Stop, Leave, itemVars
<1>3. Truth'
  BY DEF IInv, Truth, PostsCounted, StatusTruthful, OutcomeTruthful, ResultTruthful,
     EndBatch, Stop, Leave, itemVars, mailVars
<1>4. Timing'
  BY DEF IInv, Timing, OnlyDue, Due, StaleSwept, EndBatch, Stop, Leave, itemVars,
     sweepVars, mailVars
<1> QED BY <1>1, <1>2, <1>3, <1>4 DEF IInv

(* A dying invocation leaves its pack as it is and returns its batch.       *)
LEMMA CrashStep ==
  ASSUME IInv, NEW w \in Workers, Crash(w)
  PROVE  IInv'
<1>1. TypeOK'
  BY DispatchAssumption DEF IInv, TypeOK, Resolved, Steps, Crash, Stop, Leave,
     Fault, itemVars, sweepVars, mailVars
<1>2. Custody'
  BY DEF IInv, TypeOK, Custody, CurrentPack, OneHolder, HolderClaimed, HeldInTime,
     Holding, Crash, Stop, Leave, itemVars
<1>3. Truth'
  BY DEF IInv, TypeOK, Truth, PostsCounted, StatusTruthful, OutcomeTruthful,
     ResultTruthful, Crash, Stop, Leave, itemVars, mailVars
<1>4. Timing'
  BY DEF IInv, TypeOK, Timing, OnlyDue, Due, StaleSwept, Crash, Stop, Leave,
     itemVars, sweepVars
<1> QED BY <1>1, <1>2, <1>3, <1>4 DEF IInv

(* The visibility timeout returns due packs to the queue.                   *)
LEMMA RedeliverStep ==
  ASSUME IInv, NEW w \in Workers, Redeliver(w)
  PROVE  IInv'
<1>1. TypeOK'
  BY DispatchAssumption DEF IInv, TypeOK, Redeliver, Fault, itemVars, workerVars,
     sweepVars, mailVars
<1>2. Custody'
  BY CustodyFrame DEF IInv, Redeliver, Fault, itemVars, workerVars, sweepVars,
     mailVars
<1>3. Truth'
  BY TruthFrame DEF IInv, Redeliver, Fault, itemVars, workerVars, sweepVars,
     mailVars
<1>4. Timing'
  BY DEF IInv, Timing, OnlyDue, Due, StaleSwept, Redeliver, Fault, itemVars,
     workerVars, sweepVars, mailVars
<1> QED BY <1>1, <1>2, <1>3, <1>4 DEF IInv

(* Setting or wiping K_temp touches no pack.                                *)
LEMMA ChangeKeyStep ==
  ASSUME IInv, ChangeKey
  PROVE  IInv'
<1>1. TypeOK'
  BY DEF IInv, TypeOK, ChangeKey, itemVars, workerVars, sweepVars, mailVars
<1>2. Custody'
  BY CustodyFrame DEF IInv, ChangeKey, itemVars, workerVars, sweepVars, mailVars
<1>3. Truth'
  BY TruthFrame DEF IInv, ChangeKey, itemVars, workerVars, sweepVars, mailVars
<1>4. Timing'
  BY TimingFrame DEF IInv, ChangeKey, itemVars, workerVars, sweepVars, mailVars
<1> QED BY <1>1, <1>2, <1>3, <1>4 DEF IInv

(* list_pending_packs finds due packs only, since send_at never moves.      *)
LEMMA SweepStartStep ==
  ASSUME IInv, SweepStart
  PROVE  IInv'
<1>1. TypeOK'
  BY DEF IInv, TypeOK, SweepStart, DuePending, itemVars, workerVars, mailVars
<1>2. Custody'
  BY CustodyFrame DEF IInv, SweepStart, DuePending, itemVars, workerVars, mailVars
<1>3. Truth'
  BY TruthFrame DEF IInv, SweepStart, DuePending, itemVars, workerVars, mailVars
<1>4. Timing'
  BY DEF IInv, Timing, OnlyDue, Due, StaleSwept, SweepStart, DuePending, itemVars,
     workerVars, mailVars
<1> QED BY <1>1, <1>2, <1>3, <1>4 DEF IInv

(* expire_stale_claims lists packs whose age has reached CLAIM_STALE_S.     *)
LEMMA SweepListClaimsStep ==
  ASSUME IInv, SweepListClaims
  PROVE  IInv'
<1>1. TypeOK'
  BY DEF IInv, TypeOK, SweepListClaims, StaleClaims, itemVars, workerVars, mailVars
<1>2. Custody'
  BY CustodyFrame DEF IInv, SweepListClaims, StaleClaims, itemVars, workerVars,
     mailVars
<1>3. Truth'
  BY TruthFrame DEF IInv, SweepListClaims, StaleClaims, itemVars, workerVars,
     mailVars
<1>4. Timing'
  BY DEF IInv, Timing, OnlyDue, Due, StaleSwept, SweepListClaims, StaleClaims,
     itemVars, workerVars, mailVars
<1> QED BY <1>1, <1>2, <1>3, <1>4 DEF IInv

(* The end of a sweep, also by an exception, only drops its lists.          *)
LEMMA SweepEndStep ==
  ASSUME IInv, SweepEnd
  PROVE  IInv'
<1>1. TypeOK'
  BY DispatchAssumption DEF IInv, TypeOK, SweepEnd, Fault, itemVars, workerVars,
     mailVars
<1>2. Custody'
  BY CustodyFrame DEF IInv, SweepEnd, Fault, itemVars, workerVars, mailVars
<1>3. Truth'
  BY TruthFrame DEF IInv, SweepEnd, Fault, itemVars, workerVars, mailVars
<1>4. Timing'
  BY DEF IInv, Timing, OnlyDue, Due, StaleSwept, SweepEnd, Fault, itemVars,
     workerVars, mailVars
<1> QED BY <1>1, <1>2, <1>3, <1>4 DEF IInv

(* The sweep queues a listed, hence due, pack.                              *)
LEMMA SweepEnqueueStep ==
  ASSUME IInv, NEW p \in Packs, SweepEnqueue(p)
  PROVE  IInv'
<1>1. TypeOK'
  BY DispatchAssumption DEF IInv, TypeOK, SweepEnqueue, Fault, itemVars, workerVars,
     mailVars
<1>2. Custody'
  BY CustodyFrame DEF IInv, SweepEnqueue, Fault, itemVars, workerVars, mailVars
<1>3. Truth'
  BY TruthFrame DEF IInv, SweepEnqueue, Fault, itemVars, workerVars, mailVars
<1>4. Timing'
  BY DEF IInv, Timing, OnlyDue, Due, StaleSwept, SweepEnqueue, Fault, itemVars,
     workerVars, mailVars
<1> QED BY <1>1, <1>2, <1>3, <1>4 DEF IInv

(* The conditional expiry: only a stale claim becomes "unknown", so nobody  *)
(* holds it in time.                                                        *)
LEMMA SweepExpireStep ==
  ASSUME IInv, NEW p \in Packs, SweepExpire(p)
  PROVE  IInv'
<1>1. TypeOK'
  BY DEF IInv, TypeOK, Status, Resolved, SweepExpire, SetOutcome, StillClaimed,
     itemVars, workerVars, mailVars
<1>2. Custody'
  BY DispatchAssumption DEF Custody, CurrentPack, OneHolder, HolderClaimed,
     HeldInTime, Holding, SweepExpire, SetOutcome, itemVars, workerVars, IInv,
     TypeOK, Timing, StaleSwept
<1>3. Truth'
  BY DEF IInv, TypeOK, Custody, CurrentPack, Truth, PostsCounted, StatusTruthful,
     OutcomeTruthful, ResultTruthful, SweepExpire, SetOutcome, StillClaimed,
     itemVars, workerVars, mailVars
<1>4. Timing'
  BY DEF IInv, TypeOK, Timing, OnlyDue, Due, StaleSwept, SweepExpire, SetOutcome,
     itemVars, workerVars
<1> QED BY <1>1, <1>2, <1>3, <1>4 DEF IInv

(* Time passes only while every held claim is young enough.                 *)
LEMMA TickStep ==
  ASSUME IInv, Tick
  PROVE  IInv'
<1>1. TypeOK'
  BY DispatchAssumption DEF IInv, TypeOK, Tick, ClaimSeen, workerVars, sweepVars,
     mailVars
<1>2. Custody'
  BY DispatchAssumption DEF Custody, CurrentPack, OneHolder, HolderClaimed,
     HeldInTime, Holding, Tick, workerVars, IInv, TypeOK
<1>3. Truth'
  BY TruthFrame DEF IInv, Tick, ClaimSeen, workerVars, sweepVars, mailVars
<1>4. Timing'
  BY DEF IInv, TypeOK, Resolved, Timing, OnlyDue, Due, StaleSwept, Tick, ClaimSeen,
     workerVars, sweepVars
<1> QED BY <1>1, <1>2, <1>3, <1>4 DEF IInv

(* A stuttering step preserves whatever the variables say.                  *)
LEMMA StutterStep ==
  ASSUME IInv, UNCHANGED vars
  PROVE  IInv'
<1>1. TypeOK'
  BY DEF IInv, TypeOK, vars, itemVars, workerVars, sweepVars, mailVars
<1>2. Custody'
  BY CustodyFrame DEF IInv, vars, itemVars, workerVars, sweepVars, mailVars
<1>3. Truth'
  BY TruthFrame DEF IInv, vars, itemVars, workerVars, sweepVars, mailVars
<1>4. Timing'
  BY TimingFrame DEF IInv, vars, itemVars, workerVars, sweepVars, mailVars
<1> QED BY <1>1, <1>2, <1>3, <1>4 DEF IInv

-----------------------------------------------------------------------------
(* The empty table, queue and log satisfy the invariant.                    *)
LEMMA InitIInv == Init => IInv
<1> SUFFICES ASSUME Init PROVE IInv
  OBVIOUS
<1> USE DispatchAssumption DEF Init
<1>1. TypeOK
  BY DEF TypeOK, Status, Resolved, Steps
<1>2. Custody
  BY DEF Custody, CurrentPack, OneHolder, HolderClaimed, HeldInTime, Holding
<1>3. Truth
  BY DEF Truth, PostsCounted, StatusTruthful, OutcomeTruthful, ResultTruthful
<1>4. Timing
  BY DEF Timing, OnlyDue, StaleSwept
<1> QED BY <1>1, <1>2, <1>3, <1>4 DEF IInv

(* Every step of a dispatcher, the sweep, a terminal, SQS, the provider or  *)
(* the clock preserves it.                                                  *)
LEMMA NextIInv == IInv /\ [Next]_vars => IInv'
<1> SUFFICES ASSUME IInv, [Next]_vars PROVE IInv'
  OBVIOUS
<1>1. CASE UNCHANGED vars
  BY <1>1, StutterStep
<1>2. CASE \E p \in Packs, d \in 0..MaxDelay, k \in Keys : PutPack(p, d, k)
  BY <1>2, PutPackStep
<1>3. CASE \E p \in Packs : Enqueue(p) \/ CancelPack(p) \/ ProviderAnswers(p)
                            \/ DropMessage(p) \/ Replicate(p)
  BY <1>3, EnqueueStep, CancelPackStep, ProviderAnswersStep, DropMessageStep, ReplicateStep
<1>4. CASE \E w \in Workers : Receive(w) \/ Crash(w) \/ Redeliver(w)
  BY <1>4, ReceiveStep, CrashStep, RedeliverStep
<1>5. CASE \E w \in Workers : Dispatcher(w)
  BY <1>5, GetPackStep, ClaimPackStep, RegetPackStep, FetchKeyAndOpenStep, PostStep,
     ReplyStep, UpdatePackStep, PutEventStep, EndBatchStep DEF Dispatcher
<1>6. CASE Sweep
  BY <1>6, SweepStartStep, SweepListClaimsStep, SweepEndStep, SweepEnqueueStep,
     SweepExpireStep DEF Sweep
<1>7. CASE ChangeKey \/ Tick
  BY <1>7, ChangeKeyStep, TickStep
<1> QED BY <1>1, <1>2, <1>3, <1>4, <1>5, <1>6, <1>7 DEF Next

(* The inductive invariant holds in every reachable state of the cloud:     *)
(* custody of claims, truth of statuses, timing of packs.                   *)
THEOREM Invariance == Spec => []IInv
BY InitIInv, NextIInv, PTL DEF Spec

(* Every variable of the pack store, the dispatchers and the sweep keeps    *)
(* its type.                                                                *)
THEOREM TypeCorrect == Spec => []TypeOK
<1>1. IInv => TypeOK
  BY DEF IInv
<1> QED BY <1>1, Invariance, PTL

(* No pack is POSTed twice: _process posts only after a claim that it alone *)
(* won, on a pack that nobody posted before.                                *)
THEOREM PostedAtMostOnce == Spec => []AtMostOnePost
<1>1. IInv => AtMostOnePost
  BY DEF IInv, Truth, PostsCounted, AtMostOnePost
<1> QED BY <1>1, Invariance, PTL

(* The status that packs_status reports is true of the mail, as _finalize,  *)
(* cancel_pack and expire_stale_claims write nothing that is not certain.   *)
THEOREM OutcomesAreTrue == Spec => []OutcomeTruthful
<1>1. IInv => OutcomeTruthful
  BY DEF IInv, Truth, StatusTruthful
<1> QED BY <1>1, Invariance, PTL

(* Only five operations write the status of a pack: put_pack, cancel_pack,  *)
(* claim_pack, update_pack and expire_stale_claims.                         *)
LEMMA StatusWrites ==
  ASSUME [Next]_vars, status' # status
  PROVE  \/ \E p \in Packs, d \in 0..MaxDelay, k \in Keys : PutPack(p, d, k)
         \/ \E p \in Packs : CancelPack(p) \/ SweepExpire(p)
         \/ \E w \in Workers : ClaimPack(w) \/ UpdatePack(w)
BY DEF Next, Dispatcher, Sweep, vars, itemVars, Enqueue, ProviderAnswers,
     DropMessage, Replicate, Receive, GetPack, RegetPack, FetchKeyAndOpen, Post,
     Reply, PutEvent, EndBatch, Crash, Redeliver, ChangeKey, SweepStart,
     SweepListClaims, SweepEnd, SweepEnqueue, Tick

(* None of them overwrites an outcome: four are conditional, and the holder *)
(* that makes the fifth (update_pack) holds an unresolved pack, or one      *)
(* given up as "unknown".                                                   *)
LEMMA ResolvedStays ==
  ASSUME IInv, [Next]_vars, NEW p \in Packs, status[p] \in Resolved,
         status[p] = "unknown" => InvocationLimit < ClaimStale
  PROVE  status'[p] = status[p]
<1> SUFFICES ASSUME status' # status PROVE status'[p] = status[p]
  OBVIOUS
<1> USE DEF IInv, TypeOK, Resolved
<1>1. ASSUME NEW q \in Packs, NEW d \in 0..MaxDelay, NEW k \in Keys, PutPack(q, d, k)
      PROVE  status'[p] = status[p]
  BY <1>1 DEF PutPack
<1>2. ASSUME NEW q \in Packs, CancelPack(q) PROVE status'[p] = status[p]
  BY <1>2 DEF CancelPack, Cancellable, SetOutcome
<1>3. ASSUME NEW q \in Packs, SweepExpire(q) PROVE status'[p] = status[p]
  BY <1>3 DEF SweepExpire, StillClaimed, SetOutcome, itemVars
<1>4. ASSUME NEW w \in Workers, ClaimPack(w) PROVE status'[p] = status[p]
  BY <1>4 DEF ClaimPack, Claimable
<1>5. ASSUME NEW w \in Workers, UpdatePack(w) PROVE status'[p] = status[p]
  <2>1. Holding(w)
    BY <1>5 DEF UpdatePack, Holding
  <2>2. cur[w] # p
    BY <2>1 DEF Custody, HolderClaimed, HeldInTime
  <2> QED BY <1>5, <2>2 DEF UpdatePack, SetOutcome
<1> QED BY <1>1, <1>2, <1>3, <1>4, <1>5, StatusWrites

(* An outcome the terminal may have read past its cursor is never replaced, *)
(* if the Lambda time limit is below CLAIM_STALE_S.                         *)
THEOREM OutcomesAreFinal ==
  ASSUME InvocationLimit < ClaimStale
  PROVE  Spec => OutcomeFinal
<1>1. IInv /\ [Next]_vars =>
        [\A p \in Packs : status[p] \in Resolved => status'[p] = status[p]]_vars
  BY ResolvedStays
<1> QED BY <1>1, Invariance, PTL DEF Spec, OutcomeFinal

(* Without any time limit, only "unknown" can still be replaced, by the     *)
(* late write of update_pack.                                               *)
THEOREM KnownOutcomesAreFinal == Spec => KnownOutcomeFinal
<1>1. IInv /\ [Next]_vars =>
        [\A p \in Packs :
           status[p] \in Resolved \ {"unknown"} => status'[p] = status[p]]_vars
  BY ResolvedStays
<1> QED BY <1>1, Invariance, PTL DEF Spec, KnownOutcomeFinal

(* No POST happens before send_at: packs_push and the sweep queue only due  *)
(* packs, and a dispatcher takes packs from the queue only.                 *)
THEOREM NoMailIsEarly == Spec => NeverEarly
<1>1. IInv /\ [Next]_vars =>
        [\A p \in Packs : posts'[p] # posts[p] => sendIn[p] = 0]_vars
  <2> SUFFICES ASSUME IInv, [Next]_vars, NEW p \in Packs, posts'[p] # posts[p]
               PROVE  sendIn[p] = 0
    OBVIOUS
  <2>1. PICK w \in Workers : Post(w)
    BY DEF Next, Dispatcher, Sweep, vars, mailVars, PutPack, CancelPack, ClaimPack,
         UpdatePack, SweepExpire, Enqueue, ProviderAnswers, DropMessage, Replicate,
         Receive, GetPack, RegetPack, FetchKeyAndOpen, Reply, PutEvent, EndBatch,
         Crash, Redeliver, ChangeKey, SweepStart, SweepListClaims, SweepEnd,
         SweepEnqueue, Tick
  <2>2. cur[w] = p
    BY <2>1 DEF Post, IInv, TypeOK
  <2> QED BY <2>1, <2>2 DEF Post, IInv, Timing, OnlyDue, Due, Custody, CurrentPack
<1> QED BY <1>1, Invariance, PTL DEF Spec, NeverEarly

(* A write of SetOutcome that tells what is certain is the Resolve of       *)
(* OneShotSend.                                                             *)
LEMMA ResolvesOneShot ==
  ASSUME TypeOK, NEW p \in Packs, NEW s \in Resolved, status[p] \notin Resolved,
         OneShot!Certain(s, provider[p]), SetOutcome(p, s), provider' = provider
  PROVE  OneShot!Next
<1>1. OneShot!Resolve(p)
  BY DEF OneShot!Resolve, OneShot!Outcomes, SetOutcome, TypeOK, Resolved
<1> QED BY <1>1 DEF OneShot!Next

(* Each step of the cloud is one of OneShotSend (Offer, Answer or Resolve), *)
(* or does not show.                                                        *)
LEMMA StepRefines ==
  ASSUME InvocationLimit < ClaimStale, IInv, [Next]_vars
  PROVE  [OneShot!Next]_(OneShot!vars)
<1> USE DEF IInv, TypeOK
<1>1. ASSUME NEW p \in Packs, NEW d \in 0..MaxDelay, NEW k \in Keys, PutPack(p, d, k)
      PROVE  UNCHANGED OneShot!vars
  BY <1>1 DEF PutPack, OneShot!vars, mailVars, Resolved
<1>2. ASSUME NEW p \in Packs, CancelPack(p) PROVE OneShot!Next
  <2>1. OneShot!Certain("cancelled", provider[p])
    BY <1>2 DEF CancelPack, Cancellable, OneShot!Certain, Truth, PostsCounted,
         StatusTruthful
  <2> QED BY <1>2, <2>1, ResolvesOneShot DEF CancelPack, Cancellable, Resolved, mailVars
<1>3. ASSUME NEW w \in Workers, ClaimPack(w) PROVE UNCHANGED OneShot!vars
  BY <1>3 DEF ClaimPack, Claimable, OneShot!vars, mailVars, Resolved
<1>4. ASSUME NEW w \in Workers, Post(w) PROVE OneShot!Next
  <2>1. /\ cur[w] \in Packs /\ provider[cur[w]] = "none"
        /\ status[cur[w]] = "claimed"
    BY <1>4 DEF Post, Holding, Custody, CurrentPack, HeldInTime, Truth, PostsCounted
  <2>2. OneShot!Offer(cur[w])
    BY <1>4, <2>1 DEF Post, OneShot!Offer, itemVars, Resolved
  <2> QED BY <2>1, <2>2 DEF OneShot!Next
<1>5. ASSUME NEW p \in Packs, ProviderAnswers(p) PROVE OneShot!Next
  <2>1. OneShot!Answer(p)
    BY <1>5 DEF ProviderAnswers, OneShot!Answer, itemVars
  <2> QED BY <2>1 DEF OneShot!Next
<1>6. ASSUME NEW w \in Workers, UpdatePack(w) PROVE OneShot!Next
  <2>1. /\ cur[w] \in Packs /\ status[cur[w]] = "claimed"
        /\ OneShot!Certain(result[w], provider[cur[w]])
    BY <1>6 DEF UpdatePack, Holding, Custody, CurrentPack, HeldInTime, Truth,
         ResultTruthful
  <2> QED BY <1>6, <2>1, ResolvesOneShot DEF UpdatePack, Resolved, mailVars
<1>7. ASSUME NEW p \in Packs, SweepExpire(p) PROVE OneShot!Next \/ UNCHANGED OneShot!vars
  <2>1. CASE StillClaimed(p)
    BY <1>7, <2>1, ResolvesOneShot DEF SweepExpire, StillClaimed, OneShot!Certain,
         Resolved, mailVars
  <2>2. CASE ~StillClaimed(p)
    BY <1>7, <2>2 DEF SweepExpire, OneShot!vars, itemVars, mailVars
  <2> QED BY <2>1, <2>2
<1>8. CASE UNCHANGED <<status, provider>>
  BY <1>8 DEF OneShot!vars
<1> QED
  BY <1>1, <1>2, <1>3, <1>4, <1>5, <1>6, <1>7, <1>8
  DEF Next, Dispatcher, Sweep, vars, itemVars, mailVars, Enqueue, DropMessage,
       Replicate, Receive, GetPack, RegetPack, FetchKeyAndOpen, Reply, PutEvent,
       EndBatch, Crash, Redeliver, ChangeKey, SweepStart, SweepListClaims, SweepEnd,
       SweepEnqueue, Tick

(* The pipeline of claims, batches, crashes and sweeps is, seen from a      *)
(* terminal, one atomic decision per pack.                                  *)
THEOREM DispatchImplementsOneShot ==
  ASSUME InvocationLimit < ClaimStale
  PROVE  Spec => ImplementsOneShot
<1>1. Init => OneShot!Init
  BY DEF Init, OneShot!Init, Resolved
<1>2. IInv /\ [Next]_vars => [OneShot!Next]_(OneShot!vars)
  BY StepRefines
<1> QED BY <1>1, <1>2, Invariance, PTL DEF Spec, ImplementsOneShot, OneShot!Spec
=============================================================================
