----------------------------- MODULE Dispatch ------------------------------
(***************************************************************************)
(* The life of a pack in the cloud: cloud/packs.py stores it in DynamoDB   *)
(* and queues it in SQS, cloud/dispatcher_lambda.py claims it, decrypts it *)
(* with the active K_temp, POSTs it to the provider and records what       *)
(* happened, and the EventBridge sweep feeds due packs to the queue and    *)
(* gives up on claims whose dispatcher died.                               *)
(*                                                                         *)
(* Every call to DynamoDB, SQS or the provider is a step of its own, so    *)
(* dispatcher invocations, the sweep, cancellations and pushes interleave  *)
(* between any two of them.  Item reads and the status-index may return    *)
(* the replica of a pack, which lags behind it.  SQS delivers at least     *)
(* once and may drop a message (retention, dead-letter queue).  Time is    *)
(* relative: send_at and claimed_at are kept as the time left and the age. *)
(***************************************************************************)
EXTENDS Naturals, FiniteSets

CONSTANTS
  Packs,            \* pack ids
  Workers,          \* concurrent dispatcher invocations
  Keys,             \* K_temp values
  NoKey, NoPack,
  MaxDelay,         \* bound: the furthest send_at lies in the future
  ClaimStale,       \* CLAIM_STALE_S, in clock ticks
  InvocationLimit,  \* ticks an invocation may hold a claim before it is killed
  BatchSize,        \* records per SQS delivery
  MaxFaults         \* bound: crashes, redeliveries, lost messages

ASSUME DispatchAssumption ==
  /\ NoKey \notin Keys
  /\ NoPack \notin Packs
  /\ MaxDelay \in Nat /\ MaxFaults \in Nat /\ InvocationLimit \in Nat
  /\ ClaimStale \in Nat \ {0}
  /\ BatchSize \in Nat \ {0}

VARIABLES
  status,     \* the pack item's status in DynamoDB ("absent": no item)
  replica,    \* the status a lagging read or the status-index still shows
  sendIn,     \* ticks until send_at
  claimAge,   \* ticks since claimed_at, up to ClaimStale
  sealedBy,   \* the K_temp the terminal sealed the pack with
  payload,    \* is encrypted_payload still stored?
  unqueued,   \* due packs stored by POST /packs whose _enqueue has not run yet
  queue,      \* packs with a visible SQS message
  activeKey,  \* the K_temp that KTEMP_ACTIVE names
  pc, batch, todo, cur, blob, result,  \* of each invocation
  sweepPc, sweepTodo,                  \* of the sweep
  provider,   \* what the provider knows of the pack's mail
  posts,      \* number of POSTs made for the pack
  events,     \* packs with a "pack" event for the terminals
  faults      \* faults so far, at most MaxFaults

itemVars == <<status, sendIn, claimAge, sealedBy, payload>>
workerVars == <<pc, batch, todo, cur, blob, result>>
sweepVars == <<sweepPc, sweepTodo>>
mailVars == <<provider, posts>>
vars == <<itemVars, replica, unqueued, queue, activeKey, workerVars,
          sweepVars, mailVars, events, faults>>

Resolved == {"sent", "failed", "stuck_no_key", "cancelled", "unknown"}
Status == {"absent", "pending", "claimed"} \cup Resolved
Steps == {"idle", "batch", "claim", "reget", "key", "post", "reply", "write", "event"}

(* Every field keeps its kind: the statuses are those packs.py and the     *)
(* dispatcher write, result is an outcome, and no sum of steps leaves the   *)
(* bounds of sendIn, claimAge and faults.                                   *)
TypeOK ==
  /\ status \in [Packs -> Status] /\ replica \in [Packs -> Status]
  /\ sendIn \in [Packs -> 0..MaxDelay] /\ claimAge \in [Packs -> 0..ClaimStale]
  /\ sealedBy \in [Packs -> Keys \cup {NoKey}] /\ payload \in [Packs -> BOOLEAN]
  /\ unqueued \subseteq Packs /\ queue \subseteq Packs
  /\ activeKey \in Keys \cup {NoKey}
  /\ pc \in [Workers -> Steps] /\ cur \in [Workers -> Packs \cup {NoPack}]
  /\ batch \in [Workers -> SUBSET Packs] /\ todo \in [Workers -> SUBSET Packs]
  /\ blob \in [Workers -> BOOLEAN] /\ result \in [Workers -> Resolved]
  /\ sweepPc \in {"idle", "feed", "expire"} /\ sweepTodo \subseteq Packs
  /\ provider \in [Packs -> {"none", "inflight", "accepted", "refused"}]
  /\ posts \in [Packs -> Nat] /\ events \subseteq Packs /\ faults \in 0..MaxFaults

Init ==
  /\ status = [p \in Packs |-> "absent"] /\ replica = [p \in Packs |-> "absent"]
  /\ sendIn = [p \in Packs |-> 0] /\ claimAge = [p \in Packs |-> 0]
  /\ sealedBy = [p \in Packs |-> NoKey] /\ payload = [p \in Packs |-> FALSE]
  /\ unqueued = {} /\ queue = {} /\ activeKey = NoKey
  /\ pc = [w \in Workers |-> "idle"] /\ cur = [w \in Workers |-> NoPack]
  /\ batch = [w \in Workers |-> {}] /\ todo = [w \in Workers |-> {}]
  /\ blob = [w \in Workers |-> FALSE] /\ result = [w \in Workers |-> "unknown"]
  /\ sweepPc = "idle" /\ sweepTodo = {}
  /\ provider = [p \in Packs |-> "none"] /\ posts = [p \in Packs |-> 0]
  /\ events = {} /\ faults = 0

(* A write that resolves a pack.  All of them drop encrypted_payload except  *)
(* the one for "stuck_no_key".                                              *)
SetOutcome(p, s) ==
  /\ status' = [status EXCEPT ![p] = s]
  /\ payload' = [payload EXCEPT ![p] = (s = "stuck_no_key" /\ payload[p])]
  /\ UNCHANGED <<sendIn, claimAge, sealedBy>>

(* One more fault, while the bound allows it. *)
Fault == faults < MaxFaults /\ faults' = faults + 1

-----------------------------------------------------------------------------
(* POST /packs, DELETE /packs/{id}, POST /packs/cancel-campaign, K_temp.    *)

(* put_pack is conditional on the id being new: a pushed id that is already *)
(* stored changes nothing and is answered under "held".                     *)
PutPack(p, delay, k) ==
  /\ status[p] = "absent"
  /\ status' = [status EXCEPT ![p] = "pending"]
  /\ sendIn' = [sendIn EXCEPT ![p] = delay]
  /\ sealedBy' = [sealedBy EXCEPT ![p] = k]
  /\ payload' = [payload EXCEPT ![p] = TRUE]
  /\ unqueued' = IF delay = 0 THEN unqueued \cup {p} ELSE unqueued
  /\ UNCHANGED <<claimAge, replica, queue, activeKey, workerVars, sweepVars,
                 mailVars, events, faults>>

(* The handler then queues a due pack.  send_message may fail, which is     *)
(* swallowed, or the API process may die first: the pack is left pending.   *)
Enqueue(p) ==
  /\ p \in unqueued
  /\ unqueued' = unqueued \ {p}
  /\ queue' \in {queue \cup {p}, queue}
  /\ UNCHANGED <<itemVars, replica, activeKey, workerVars, sweepVars,
                 mailVars, events, faults>>

CancelUnclaimed(p) == status[p] \in {"pending", "claimed"}  \* mutant: too late

(* The conditional write of cancel_pack.  packs_cancel makes it up to twice *)
(* and cancel_pending_for_campaign once for every pack the index lists.     *)
Cancellable(p) == status[p] = "pending"

CancelPack(p) ==
  /\ Cancellable(p)
  /\ SetOutcome(p, "cancelled")
  /\ UNCHANGED <<replica, unqueued, queue, activeKey, workerVars, sweepVars,
                 mailVars, events, faults>>

(* A launch sets another K_temp; expiry or a wipe removes it. *)
ChangeKey ==
  /\ \E k \in Keys \cup {NoKey} : k # activeKey /\ activeKey' = k
  /\ UNCHANGED <<itemVars, replica, unqueued, queue, workerVars, sweepVars,
                 mailVars, events, faults>>

-----------------------------------------------------------------------------
(* handler and _process: one invocation, a batch of records one by one.     *)

(* After a claim the invocation owns the pack until it has recorded the     *)
(* outcome.                                                                 *)
Holding(w) == pc[w] \in {"reget", "key", "post", "reply", "write"}

(* Nothing of the current pack is remembered once the invocation leaves it. *)
Leave(w, step) ==
  /\ pc' = [pc EXCEPT ![w] = step] /\ cur' = [cur EXCEPT ![w] = NoPack]
  /\ blob' = [blob EXCEPT ![w] = FALSE] /\ result' = [result EXCEPT ![w] = "unknown"]

Stop(w) ==
  /\ Leave(w, "idle")
  /\ batch' = [batch EXCEPT ![w] = {}] /\ todo' = [todo EXCEPT ![w] = {}]

Receive(w) ==
  /\ pc[w] = "idle"
  /\ \E S \in SUBSET queue :
       /\ S # {} /\ Cardinality(S) <= BatchSize
       /\ queue' = queue \ S
       /\ batch' = [batch EXCEPT ![w] = S] /\ todo' = [todo EXCEPT ![w] = S]
  /\ pc' = [pc EXCEPT ![w] = "batch"]
  /\ UNCHANGED <<itemVars, replica, unqueued, activeKey, cur, blob, result,
                 sweepVars, mailVars, events, faults>>

(* The first get_pack, possibly stale: anything but "pending" is skipped. *)
GetPack(w, p) ==
  /\ pc[w] = "batch" /\ p \in todo[w]
  /\ todo' = [todo EXCEPT ![w] = @ \ {p}]
  /\ \E seen \in {status[p], replica[p]} :
       \/ /\ seen = "pending"
          /\ pc' = [pc EXCEPT ![w] = "claim"] /\ cur' = [cur EXCEPT ![w] = p]
       \/ seen # "pending" /\ UNCHANGED <<pc, cur>>
  /\ UNCHANGED <<itemVars, replica, unqueued, queue, activeKey, batch, blob,
                 result, sweepVars, mailVars, events, faults>>

ClaimAsRead(p) == TRUE  \* mutant: the check made by get_pack is trusted

(* claim_pack, conditional on the stored status. *)
Claimable(p) == status[p] = "pending"

ClaimPack(w) ==
  LET p == cur[w] IN
  /\ pc[w] = "claim"
  /\ IF Claimable(p)
     THEN /\ status' = [status EXCEPT ![p] = "claimed"]
          /\ claimAge' = [claimAge EXCEPT ![p] = 0]
          /\ pc' = [pc EXCEPT ![w] = "reget"] /\ UNCHANGED <<cur, blob, result>>
     ELSE Leave(w, "batch") /\ UNCHANGED <<status, claimAge>>
  /\ UNCHANGED <<sendIn, sealedBy, payload, replica, unqueued, queue, activeKey,
                 batch, todo, sweepVars, mailVars, events, faults>>

(* The second get_pack, which decides whether a payload is in hand.  A stale *)
(* one still has the payload that a resolving write has dropped since, and   *)
(* one that predates the push finds no pack, hence no payload.               *)
RegetPack(w) ==
  LET p == cur[w] IN
  /\ pc[w] = "reget"
  /\ \E seen \in BOOLEAN :
       /\ seen => payload[p] \/ replica[p] \in {"pending", "claimed"}
       /\ payload[p] /\ replica[p] # "absent" => seen
       /\ blob' = [blob EXCEPT ![w] = seen]
  /\ pc' = [pc EXCEPT ![w] = "key"]
  /\ UNCHANGED <<itemVars, replica, unqueued, queue, activeKey, batch, todo, cur,
                 result, sweepVars, mailVars, events, faults>>


(* A pack that finds no active key is not put back. *)
NoKeyOutcome == "stuck_no_key"

(* get_active_k_temp and the decryption.  The two reads of the key may find *)
(* no key, even just after one was set (an expired one is being wiped).  A  *)
(* pack that opens either carries a resend_api_key or fails without a POST. *)
FetchKeyAndOpen(w) ==
  LET Opens(k) == blob[w] /\ k = sealedBy[cur[w]]
      Goto(step, r) == /\ pc' = [pc EXCEPT ![w] = step]
                       /\ result' = [result EXCEPT ![w] = r]
  IN
  /\ pc[w] = "key"
  /\ \E k \in {activeKey, NoKey} :
       \/ k = NoKey /\ Goto("write", NoKeyOutcome)
       \/ k # NoKey /\ ~Opens(k) /\ Goto("write", "failed")
       \/ k # NoKey /\ Opens(k) /\ (Goto("post", result[w]) \/ Goto("write", "failed"))
  /\ UNCHANGED <<itemVars, replica, unqueued, queue, activeKey, batch, todo, cur,
                 blob, sweepVars, mailVars, events, faults>>

(* httpx.post: the request leaves. *)
Post(w) ==
  LET p == cur[w] IN
  /\ pc[w] = "post"
  /\ provider' = [provider EXCEPT ![p] = "inflight"]
  /\ posts' = [posts EXCEPT ![p] = @ + 1]
  /\ pc' = [pc EXCEPT ![w] = "reply"]
  /\ UNCHANGED <<itemVars, replica, unqueued, queue, activeKey, batch, todo, cur,
                 blob, result, sweepVars, events, faults>>

(* The provider takes or rejects the mail, perhaps after the caller gave up. *)
ProviderAnswers(p) ==
  /\ provider[p] = "inflight"
  /\ \E a \in {"accepted", "refused"} : provider' = [provider EXCEPT ![p] = a]
  /\ UNCHANGED <<itemVars, replica, unqueued, queue, activeKey, workerVars,
                 sweepVars, posts, events, faults>>

AnswerMissingIsFailed(p) ==  \* mutant: an exception is taken for a refusal
  IF provider[p] = "accepted" THEN {"sent", "failed"} ELSE {"failed"}

(* A 2xx or 4xx answer is certain; an exception or a 5xx is "unknown". *)
AnswersSeen(p) ==
  {r \in {"sent", "failed", "unknown"} :
     /\ r = "sent" => provider[p] = "accepted"
     /\ r = "failed" => provider[p] = "refused"}

Reply(w) ==
  /\ pc[w] = "reply"
  /\ \E r \in AnswersSeen(cur[w]) : result' = [result EXCEPT ![w] = r]
  /\ pc' = [pc EXCEPT ![w] = "write"]
  /\ UNCHANGED <<itemVars, replica, unqueued, queue, activeKey, batch, todo, cur,
                 blob, sweepVars, mailVars, events, faults>>

(* update_pack: unconditional.  After "sent" the event follows; "unknown"   *)
(* raises SendOutcomeUnknown, so the whole batch goes back to the queue.    *)
UpdatePack(w) ==
  /\ pc[w] = "write"
  /\ SetOutcome(cur[w], result[w])
  /\ \/ /\ result[w] = "sent"
        /\ pc' = [pc EXCEPT ![w] = "event"]
        /\ UNCHANGED <<cur, blob, result, batch, todo, queue>>
     \/ /\ result[w] = "unknown"
        /\ Stop(w) /\ queue' = queue \cup batch[w]
     \/ /\ result[w] \notin {"sent", "unknown"}
        /\ Leave(w, "batch")
        /\ UNCHANGED <<batch, todo, queue>>
  /\ UNCHANGED <<replica, unqueued, activeKey, sweepVars, mailVars, events, faults>>

PutEvent(w) ==
  /\ pc[w] = "event"
  /\ events' = events \cup {cur[w]}
  /\ Leave(w, "batch")
  /\ UNCHANGED <<itemVars, replica, unqueued, queue, activeKey, batch, todo,
                 sweepVars, mailVars, faults>>

(* All records done: SQS deletes the batch. *)
EndBatch(w) ==
  /\ pc[w] = "batch" /\ todo[w] = {}
  /\ Stop(w)
  /\ UNCHANGED <<itemVars, replica, unqueued, queue, activeKey, sweepVars,
                 mailVars, events, faults>>

(* The invocation dies between two steps (an exception out of handler, a    *)
(* crash, the time limit): the whole batch becomes visible again.           *)
Crash(w) ==
  /\ pc[w] # "idle" /\ Fault
  /\ Stop(w) /\ queue' = queue \cup batch[w]
  /\ UNCHANGED <<itemVars, replica, unqueued, activeKey, sweepVars, mailVars, events>>

(* The visibility timeout passes while the invocation still runs. *)
Redeliver(w) ==
  /\ pc[w] # "idle" /\ ~(batch[w] \subseteq queue) /\ Fault
  /\ queue' = queue \cup batch[w]
  /\ UNCHANGED <<itemVars, replica, unqueued, activeKey, workerVars, sweepVars,
                 mailVars, events>>

(* A message is received too often (dead-letter queue) or outlives retention. *)
DropMessage(p) ==
  /\ p \in queue /\ Fault
  /\ queue' = queue \ {p}
  /\ UNCHANGED <<itemVars, replica, unqueued, activeKey, workerVars, sweepVars,
                 mailVars, events>>

-----------------------------------------------------------------------------
(* _sweep: list due pending packs, queue each, then expire stale claims.    *)

AllPending == {p \in Packs : replica[p] = "pending"}  \* mutant: send_at ignored

(* list_pending_packs, from the index. *)
DuePending == {p \in Packs : replica[p] = "pending" /\ sendIn[p] = 0}

SweepStart ==
  /\ sweepPc = "idle"
  /\ sweepPc' = "feed"
  /\ sweepTodo' = DuePending
  /\ UNCHANGED <<itemVars, replica, unqueued, queue, activeKey, workerVars,
                 mailVars, events, faults>>

SweepEnqueue(p) ==
  /\ sweepPc = "feed" /\ p \in sweepTodo
  /\ sweepTodo' = sweepTodo \ {p}
  /\ \/ queue' = queue \cup {p} /\ UNCHANGED faults
     \/ Fault /\ UNCHANGED queue
  /\ UNCHANGED <<itemVars, replica, unqueued, activeKey, workerVars, sweepPc,
                 mailVars, events>>

AllClaims == {p \in Packs : replica[p] = "claimed"}  \* mutant: their age ignored
NoClaims == {}                                        \* mutant: none is given up

(* The claims expire_stale_claims finds in the index. *)
StaleClaims == {p \in Packs : replica[p] = "claimed" /\ claimAge[p] = ClaimStale}

SweepListClaims ==
  /\ sweepPc = "feed" /\ sweepTodo = {}
  /\ sweepPc' = "expire"
  /\ sweepTodo' = StaleClaims
  /\ UNCHANGED <<itemVars, replica, unqueued, queue, activeKey, workerVars,
                 mailVars, events, faults>>

ExpireAsListed(p) == TRUE  \* mutant: the lagging index is trusted

(* expire_stale_claims writes on condition that the pack is still claimed.  *)
(* (No write makes a pack pending again, so its claimed_at never changes.)  *)
StillClaimed(p) == status[p] = "claimed"

SweepExpire(p) ==
  /\ sweepPc = "expire" /\ p \in sweepTodo
  /\ sweepTodo' = sweepTodo \ {p}
  /\ IF StillClaimed(p) THEN SetOutcome(p, "unknown") ELSE UNCHANGED itemVars
  /\ UNCHANGED <<replica, unqueued, queue, activeKey, workerVars, sweepPc,
                 mailVars, events, faults>>

SweepEnd ==
  /\ \/ sweepPc = "expire" /\ sweepTodo = {} /\ UNCHANGED faults
     \/ sweepPc # "idle" /\ Fault
  /\ sweepPc' = "idle" /\ sweepTodo' = {}
  /\ UNCHANGED <<itemVars, replica, unqueued, queue, activeKey, workerVars,
                 mailVars, events>>

-----------------------------------------------------------------------------
Replicate(p) ==
  /\ replica[p] # status[p]
  /\ replica' = [replica EXCEPT ![p] = status[p]]
  /\ UNCHANGED <<itemVars, unqueued, queue, activeKey, workerVars, sweepVars,
                 mailVars, events, faults>>

(* The table or the index shows a claim, so its age still matters. *)
ClaimSeen(p) == status[p] = "claimed" \/ (status[p] \in Resolved /\ replica[p] = "claimed")

(* Time passes, but no invocation lives to hold a claim for more than       *)
(* InvocationLimit ticks: it finishes or is killed (Crash) before.          *)
Tick ==
  /\ \A w \in Workers : Holding(w) => claimAge[cur[w]] < InvocationLimit
  /\ sendIn' = [p \in Packs |-> IF sendIn[p] > 0 THEN sendIn[p] - 1 ELSE 0]
  /\ claimAge' = [p \in Packs |->
       IF ClaimSeen(p) /\ claimAge[p] < ClaimStale THEN claimAge[p] + 1 ELSE claimAge[p]]
  /\ UNCHANGED <<status, sealedBy, payload, replica, unqueued, queue, activeKey,
                 workerVars, sweepVars, mailVars, events, faults>>

Dispatcher(w) ==
  \/ \E p \in Packs : GetPack(w, p)
  \/ ClaimPack(w) \/ RegetPack(w) \/ FetchKeyAndOpen(w) \/ Post(w) \/ Reply(w)
  \/ UpdatePack(w) \/ PutEvent(w) \/ EndBatch(w)

Sweep ==
  \/ SweepStart \/ SweepListClaims \/ SweepEnd
  \/ \E p \in Packs : SweepEnqueue(p) \/ SweepExpire(p)

Next ==
  \/ \E p \in Packs, d \in 0..MaxDelay, k \in Keys : PutPack(p, d, k)
  \/ \E p \in Packs : Enqueue(p) \/ CancelPack(p) \/ ProviderAnswers(p)
                      \/ DropMessage(p) \/ Replicate(p)
  \/ \E w \in Workers : Receive(w) \/ Dispatcher(w) \/ Crash(w) \/ Redeliver(w)
  \/ ChangeKey \/ Sweep \/ Tick

Spec == Init /\ [][Next]_vars

-----------------------------------------------------------------------------
(* Fairness: what runs on its own.  Lambda and SQS keep delivering and every *)
(* live invocation goes on, EventBridge starts the sweep again and again,    *)
(* the index catches up and time passes.  Nobody is obliged to push, cancel, *)
(* set a key or answer a POST.                                               *)
Fairness ==
  /\ \A w \in Workers : WF_vars(Receive(w)) /\ WF_vars(Dispatcher(w))
  /\ \A p \in Packs : WF_vars(Replicate(p))
  /\ WF_vars(Sweep) /\ WF_vars(Tick)

FairSpec == Spec /\ Fairness

-----------------------------------------------------------------------------
(* Properties.                                                              *)

(* A pack is POSTed to the provider at most once, whatever is pushed again, *)
(* queued twice, delivered to several invocations, read stale or cut short  *)
(* by a crash: _process never posts without having won claim_pack.          *)
AtMostOnePost == \A p \in Packs : posts[p] <= 1

(* What packs_status tells the terminal is true of the mail: "sent" means   *)
(* the provider took it, "failed" that it did not, "cancelled" and          *)
(* "stuck_no_key" that it was never offered; only sent packs have an event. *)
OutcomeTruthful ==
  /\ \A p \in Packs :
       /\ status[p] = "sent" => provider[p] = "accepted"
       /\ status[p] = "failed" => provider[p] \in {"none", "refused"}
       /\ status[p] \in {"cancelled", "stuck_no_key"} => posts[p] = 0
  /\ \A p \in events : status[p] = "sent"

(* An outcome never changes, not even "unknown": terminals read each one    *)
(* once, past their cursor.  It needs invocations that die before their     *)
(* claim is stale, since update_pack is unconditional.                      *)
OutcomeFinal ==
  [][\A p \in Packs : status[p] \in Resolved => status'[p] = status[p]]_vars

(* Without that, an outcome other than "unknown" still never changes:       *)
(* expire_stale_claims writes only over a claim.                            *)
KnownOutcomeFinal ==
  [][\A p \in Packs :
       status[p] \in Resolved \ {"unknown"} => status'[p] = status[p]]_vars

(* No mail leaves before its send_at: the push and the sweep queue only     *)
(* what is due, and nothing else reaches a dispatcher, which does not look. *)
NeverEarly == [][\A p \in Packs : posts'[p] # posts[p] => sendIn[p] = 0]_vars

(* Every pack the cloud accepted gets an outcome, though its SQS message    *)
(* was never sent or is lost, its batch was stopped by another pack's       *)
(* unknown outcome, or the invocation that claimed it died.                 *)
EveryPackResolves ==
  \A p \in Packs : status[p] = "pending" ~> status[p] \in Resolved

(* The whole pipeline is one atomic decision per pack, as seen from the     *)
(* terminal: dispatcher steps, claims and sweeps implement OneShotSend.     *)
OneShot == INSTANCE OneShotSend WITH
  outcome <- [p \in Packs |-> IF status[p] \in Resolved THEN status[p] ELSE "open"],
  mail <- provider

ImplementsOneShot == OneShot!Spec
=============================================================================
