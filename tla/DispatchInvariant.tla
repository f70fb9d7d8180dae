------------------------- MODULE DispatchInvariant --------------------------
(***************************************************************************)
(* The inductive invariant of Dispatch, part by part.  The properties of   *)
(* Dispatch speak of packs; they are inductive only together with what     *)
(* every invocation, the sweep, the queue and the replica know of them.    *)
(***************************************************************************)
EXTENDS Dispatch

(* An invocation has a current pack exactly while it works on one. *)
CurrentPack == \A w \in Workers : (cur[w] = NoPack) <=> (pc[w] \in {"idle", "batch"})

(* Two invocations never hold the same pack: only one claim_pack succeeds. *)
OneHolder ==
  \A v, w \in Workers : Holding(v) /\ Holding(w) /\ cur[v] = cur[w] => v = w

(* A held pack is still claimed, or the sweep has given its claim up. *)
HolderClaimed ==
  \A w \in Workers : Holding(w) => status[cur[w]] \in {"claimed", "unknown"}

(* posts counts what the provider has seen, and before its own POST the     *)
(* holder knows that there was none.                                        *)
PostsCounted ==
  /\ \A p \in Packs : posts[p] \in {0, 1} /\ (posts[p] = 0 <=> provider[p] = "none")
  /\ \A w \in Workers : pc[w] \in {"reget", "key", "post"} => posts[cur[w]] = 0

(* A pack nobody has claimed was not posted, and outcomes are true ... *)
StatusTruthful ==
  /\ OutcomeTruthful
  /\ \A p \in Packs : status[p] \in {"absent", "pending"} => posts[p] = 0

(* ... because what an invocation is about to write is. *)
ResultTruthful ==
  \A w \in Workers :
    /\ pc[w] = "write" =>
         OneShot!Certain(result[w], provider[cur[w]]) /\ result[w] # "cancelled"
    /\ pc[w] = "event" => status[cur[w]] = "sent"

(* Only stored, due packs are queued, delivered, worked on or swept.        *)
Due(p) == status[p] # "absent" /\ sendIn[p] = 0

OnlyDue ==
  /\ \A p \in unqueued \cup queue : Due(p)
  /\ \A w \in Workers : todo[w] \subseteq batch[w] /\ \A p \in batch[w] : Due(p)
  /\ \A w \in Workers : cur[w] # NoPack => Due(cur[w])
  /\ sweepPc = "feed" => \A p \in sweepTodo : Due(p)
  /\ \A p \in Packs : replica[p] # "absent" => status[p] # "absent"

(* The age of a claim starts at zero, and what the sweep gives up is stale. *)
StaleSwept ==
  /\ \A p \in Packs : status[p] \in {"absent", "pending"} => claimAge[p] = 0
  /\ sweepPc = "expire" => \A p \in sweepTodo : claimAge[p] = ClaimStale

(* When invocations die in time, a pack that is held is not stale. *)
HeldInTime ==
  InvocationLimit < ClaimStale =>
    \A w \in Workers :
      Holding(w) => status[cur[w]] = "claimed" /\ claimAge[cur[w]] <= InvocationLimit

(* Who works on a pack, what is known of its mail, and when it may leave.   *)
Custody == CurrentPack /\ OneHolder /\ HolderClaimed /\ HeldInTime
Truth   == PostsCounted /\ StatusTruthful /\ ResultTruthful
Timing  == OnlyDue /\ StaleSwept

(* Checked as an invariant by the runs and proved inductive in              *)
(* DispatchProofs: each claim, cancel, update and expiry write of the       *)
(* cloud, and each step between them, preserves it.                         *)
IInv == TypeOK /\ Custody /\ Truth /\ Timing
=============================================================================
