--------------------------- MODULE SendPathProofs ---------------------------
(***************************************************************************)
(* The ids of SendPath keep their promise for any contacts, requests,      *)
(* batches, generations, ordinals, presses, retries and faults: IInv is    *)
(* inductive, and three safety properties follow from it.  With it go the  *)
(* types of all that IInv leaves out, and SerialInv, which says where an   *)
(* interrupted send is on record.                                          *)
(*                                                                         *)
(* The step proof has one lemma for each kind of action: those that only   *)
(* move packs towards the cloud, those that plan new ones, those that      *)
(* record jobs, and those that decide outcomes.                            *)
(***************************************************************************)
EXTENDS MCSendPresses, FiniteSetTheorems, TLAPS

(* What IInv is about. *)
tracked == <<job, outcome, mail, stored, late, page, todo, chunk, wire, acked, held>>

(* An earlier ordinal of a pack is a pack. *)
LEMMA EarlierIsId ==
  ASSUME NEW id \in Ids, NEW a \in 0..MaxOrdinal
  PROVE  <<id[1], id[2], a>> \in Ids
  BY DEF Ids

(* EarlierFailed survives a step that makes nothing sendable and keeps      *)
(* failed jobs failed.                                                      *)
LEMMA EarlierFailedKept ==
  ASSUME EarlierFailed,
         \A id \in Ids : Sendable(id)' => Sendable(id),
         \A id \in Ids : job[id] = "failed" => job'[id] = "failed"
  PROVE  EarlierFailed'
<1>1. SUFFICES ASSUME NEW id \in Ids, Sendable(id)', NEW a \in 0..MaxOrdinal, a < id[3]
               PROVE  job'[<<id[1], id[2], a>>] = "failed"
  BY DEF EarlierFailed
<1>2. job[<<id[1], id[2], a>>] = "failed"
  BY <1>1 DEF EarlierFailed
<1> QED BY <1>2, EarlierIsId

(* _plan_sends gives a contact a later ordinal only where all earlier ones  *)
(* have failed.                                                             *)
LEMMA PlanIsSound ==
  ASSUME SendPathAssumption, IInv, NEW g, NEW cs, NEW queued,
         NEW id \in PlanSends(g, cs, queued), NEW a \in 0..MaxOrdinal, a < id[3]
  PROVE  id \in Ids /\ job[<<id[1], id[2], a>>] = "failed"
<1> DEFINE last == <<id[1], id[2], id[3] - 1>>
<1>1. id \in Ids /\ id[3] \in 0..MaxOrdinal /\ a \in Nat /\ MaxOrdinal \in Nat
  BY DEF PlanSends, Ids, SendPathAssumption
<1>2. id[3] > 0 /\ id[3] - 1 \in 0..MaxOrdinal
  BY <1>1
<1>3. job[last] = "failed"
  BY <1>1, <1>2 DEF PlanSends, RetryableJob
<1>4. last \in Ids
  BY <1>1, <1>2, EarlierIsId
<1>5. last \in stored /\ Sendable(last)
  BY <1>3, <1>4 DEF IInv, JobsFollow, Sendable
<1>6. CASE a = id[3] - 1
  BY <1>1, <1>3, <1>6
<1>7. CASE a # id[3] - 1
  <2>1. a < last[3]
    BY <1>1, <1>2, <1>7
  <2>2. job[<<last[1], last[2], a>>] = "failed"
    BY <1>4, <1>5, <2>1 DEF IInv, EarlierFailed
  <2> QED BY <1>1, <2>2
<1> QED BY <1>6, <1>7

-----------------------------------------------------------------------------
(* Steps that record and decide nothing.                                    *)

(* Requests, batches, recipients and the campaign are not what IInv is      *)
(* about.                                                                   *)
LEMMA Frame ==
  ASSUME IInv, UNCHANGED tracked
  PROVE  IInv'
BY DEF tracked, IInv, Shape, Acknowledged, CloudTruthful, JobsFollow, EarlierFailed, Sendable

(* A request that ends forgets its packs.                                   *)
LEMMA DoneStep ==
  ASSUME IInv, NEW h \in Handlers, Done(h),
         UNCHANGED <<job, outcome, mail, stored, late, page>>
  PROVE  IInv'
<1>1. Shape'
  BY DEF IInv, Shape, Done
<1>2. Acknowledged'
  BY DEF IInv, Shape, Acknowledged, Done
<1>3. CloudTruthful' /\ JobsFollow'
  BY DEF IInv, CloudTruthful, JobsFollow
<1>4. \A id \in Ids : Sendable(id)' => Sendable(id)
  BY DEF IInv, Shape, Sendable, Done
<1>5. EarlierFailed'
  BY <1>4, EarlierFailedKept DEF IInv
<1> QED BY <1>1, <1>2, <1>3, <1>5 DEF IInv

(* A push begins with what _plan_sends chose.                               *)
LEMMA StartPushStep ==
  ASSUME SendPathAssumption, IInv, NEW h \in Handlers, NEW g, NEW cs, NEW queued,
         StartPush(h, g, PlanSends(g, cs, queued)),
         UNCHANGED <<job, outcome, mail, stored, late, page, chunk, wire, acked, held>>
  PROVE  IInv'
<1>1. PlanSends(g, cs, queued) \subseteq Ids
  BY DEF PlanSends
<1>2. Shape'
  BY <1>1 DEF IInv, Shape, StartPush
<1>3. Acknowledged' /\ CloudTruthful' /\ JobsFollow'
  BY DEF IInv, Acknowledged, CloudTruthful, JobsFollow
<1>4. SUFFICES ASSUME NEW id \in Ids, Sendable(id)', NEW a \in 0..MaxOrdinal, a < id[3]
               PROVE  job[<<id[1], id[2], a>>] = "failed"
  BY <1>2, <1>3 DEF IInv, EarlierFailed
<1>5. Sendable(id) \/ id \in PlanSends(g, cs, queued)
  BY <1>4 DEF IInv, Shape, Sendable, StartPush
<1>6. CASE Sendable(id)
  BY <1>4, <1>6 DEF IInv, EarlierFailed
<1>7. CASE id \in PlanSends(g, cs, queued)
  BY <1>4, <1>7, PlanIsSound
<1> QED BY <1>5, <1>6, <1>7

(* A chunk goes out once all of the one before has been acknowledged.       *)
LEMMA PushChunkStep ==
  ASSUME IInv, NEW h \in Handlers, PushChunk(h)
  PROVE  IInv'
<1>1. NextChunk(todo[h]) \subseteq todo[h] /\ todo[h] \subseteq Ids
  BY DEF NextChunk, IInv, Shape
<1>2. Shape'
  BY <1>1 DEF IInv, Shape, PushChunk, cloudVars, pollVars
<1>3. Acknowledged'
  <2>1. chunk[h] \subseteq stored
    BY DEF IInv, Acknowledged, PushChunk
  <2>2. ASSUME NEW k \in Handlers
        PROVE  acked'[k] \cup (chunk'[k] \ wire'[k]) \subseteq stored
    BY <2>1, <2>2 DEF IInv, Shape, Acknowledged, PushChunk
  <2> QED BY <2>2 DEF IInv, Acknowledged, PushChunk, cloudVars, pollVars
<1>4. CloudTruthful' /\ JobsFollow'
  BY DEF IInv, CloudTruthful, JobsFollow, PushChunk, cloudVars
<1>5. \A id \in Ids : Sendable(id)' => Sendable(id)
  BY <1>1 DEF IInv, Shape, Sendable, PushChunk, cloudVars
<1>6. EarlierFailed'
  BY <1>5, EarlierFailedKept DEF IInv, PushChunk
<1> QED BY <1>2, <1>3, <1>4, <1>6 DEF IInv

(* packs_push stores a pack or finds it stored; only an outcome is held.    *)
LEMMA PackArrivesStep ==
  ASSUME IInv, NEW h \in Handlers, NEW id \in Ids, PackArrives(h, id)
  PROVE  IInv'
<1>1. Shape'
  BY DEF IInv, Shape, PackArrives, pollVars
<1>2. Acknowledged'
  <2>1. ASSUME NEW k \in Handlers
        PROVE  acked'[k] \cup (chunk'[k] \ wire'[k]) \subseteq stored'
    BY <2>1 DEF IInv, Shape, Acknowledged, PackArrives
  <2>2. ASSUME NEW k \in Handlers, NEW x \in held'[k]
        PROVE  outcome'[x] # "open"
    BY <2>2 DEF IInv, Shape, Acknowledged, PackArrives
  <2> QED BY <2>1, <2>2 DEF IInv, Acknowledged, PackArrives, pollVars
<1>3. CloudTruthful' /\ JobsFollow'
  BY DEF IInv, CloudTruthful, JobsFollow, PackArrives
<1>4. \A x \in Ids : Sendable(x)' => Sendable(x)
  BY DEF IInv, Shape, Sendable, PackArrives
<1>5. EarlierFailed'
  BY <1>4, EarlierFailedKept DEF IInv, PackArrives
<1> QED BY <1>1, <1>2, <1>3, <1>5 DEF IInv

(* A pack that lands late was planned before.                               *)
LEMMA LatePackArrivesStep ==
  ASSUME IInv, NEW id \in Ids, LatePackArrives(id)
  PROVE  IInv'
<1>1. Shape' /\ Acknowledged' /\ CloudTruthful' /\ JobsFollow'
  BY DEF IInv, Shape, Acknowledged, CloudTruthful, JobsFollow, LatePackArrives, pushVars, pollVars
<1>2. \A x \in Ids : Sendable(x)' => Sendable(x)
  BY DEF Sendable, LatePackArrives, pushVars
<1>3. EarlierFailed'
  BY <1>2, EarlierFailedKept DEF IInv, LatePackArrives
<1> QED BY <1>1, <1>3 DEF IInv

-----------------------------------------------------------------------------
(* Steps that record jobs.                                                  *)

(* What a job becomes agrees with a known outcome.                          *)
LEMMA JobAfterIsTrue ==
  ASSUME NEW s \in Outcomes
  PROVE  /\ JobAfter(s) \in {"dispatched", "completed", "failed"}
         /\ JobAfter(s) = "completed" => s = "sent"
         /\ JobAfter(s) = "failed" <=> s \in {"failed", "cancelled"}
BY DEF Outcomes, JobAfter

(* Jobs are recorded for packs at the cloud that had none, with outcomes    *)
(* that the cloud gave; what was in flight may still land.                  *)
LEMMA RecordDispatchStep ==
  ASSUME IInv, NEW h \in Handlers, NEW ids \in SUBSET stored, NEW known \in SUBSET held[h],
         Recordable(ids), RecordDispatch(ids, known), Done(h),
         late' \in {late, late \cup wire[h]}, UNCHANGED <<outcome, mail, stored, page>>
  PROVE  IInv'
<1>1. \A id \in known : id \in Ids /\ outcome[id] \in Outcomes
  BY DEF IInv, Shape, Acknowledged
<1>2. \A id \in Ids : \/ job'[id] = job[id]
                       \/ /\ id \in ids /\ job[id] = "none"
                          /\ \/ job'[id] = "dispatched"
                             \/ id \in known /\ job'[id] = JobAfter(outcome[id])
  BY DEF RecordDispatch, Recordable
<1>3. Shape'
  <2>1. job' \in [Ids -> {"none", "dispatched", "completed", "failed"}]
    BY <1>1, JobAfterIsTrue DEF RecordDispatch, IInv, Shape
  <2>2. late' \subseteq Ids
    BY DEF IInv, Shape
  <2> QED BY <2>1, <2>2 DEF IInv, Shape, Done
<1>4. Acknowledged'
  BY DEF IInv, Shape, Acknowledged, Done
<1>5. CloudTruthful'
  BY DEF IInv, CloudTruthful
<1>6. JobsFollow'
  <2>1. SUFFICES ASSUME NEW id \in Ids
                 PROVE  /\ job'[id] # "none" => id \in stored
                        /\ job'[id] = "completed" => outcome[id] = "sent"
                        /\ job'[id] = "failed" => outcome[id] \in {"failed", "cancelled"}
    BY DEF JobsFollow
  <2>2. CASE job'[id] = job[id]
    BY <2>2 DEF IInv, JobsFollow
  <2>3. CASE job'[id] # job[id]
    BY <1>1, <1>2, <2>3, JobAfterIsTrue
  <2> QED BY <2>2, <2>3
<1>7. \A id \in Ids : Sendable(id)' => Sendable(id)
  BY DEF IInv, Shape, Sendable, Done
<1>8. \A id \in Ids : job[id] = "failed" => job'[id] = "failed"
  BY <1>2
<1>9. EarlierFailed'
  BY <1>7, <1>8, EarlierFailedKept DEF IInv
<1> QED BY <1>3, <1>4, <1>5, <1>6, <1>9 DEF IInv

(* The end of a complete push.                                              *)
LEMMA RecordStep ==
  ASSUME IInv, NEW h \in Handlers, Record(h)
  PROVE  IInv'
<1> DEFINE ids == acked[h] \cup chunk[h]
<1>1. ids \subseteq stored /\ Done(h) /\ UNCHANGED <<outcome, mail, stored, late, page>>
  BY DEF Record, IInv, Acknowledged, cloudVars, pollVars
<1>2. \/ Recordable(ids) /\ \E known \in SUBSET held[h] : RecordDispatch(ids, known)
      \/ UNCHANGED job
  BY DEF Record
<1>3. CASE UNCHANGED job
  BY <1>1, <1>3, DoneStep
<1>4. CASE Recordable(ids) /\ \E known \in SUBSET held[h] : RecordDispatch(ids, known)
  <2>1. PICK known \in SUBSET held[h] : RecordDispatch(ids, known)
    BY <1>4
  <2> HIDE DEF ids
  <2> QED BY <1>1, <1>4, <2>1, RecordDispatchStep
<1> QED BY <1>2, <1>3, <1>4

(* The end of a push that was given up.                                     *)
LEMMA PushFailsStep ==
  ASSUME IInv, NEW h \in Handlers, PushFails(h)
  PROVE  IInv'
<1>1. /\ acked[h] \subseteq stored /\ Done(h) /\ late' = late \cup wire[h]
      /\ UNCHANGED <<outcome, mail, stored, page>>
  BY DEF PushFails, IInv, Acknowledged, pollVars
<1>2. \/ Recordable(acked[h]) /\ \E known \in SUBSET held[h] : RecordDispatch(acked[h], known)
      \/ UNCHANGED job
  BY DEF PushFails
<1>3. CASE UNCHANGED job
  <2>1. Shape'
    BY <1>1, <1>3 DEF IInv, Shape, Done
  <2>2. Acknowledged' /\ CloudTruthful' /\ JobsFollow'
    BY <1>1, <1>3 DEF IInv, Shape, Acknowledged, CloudTruthful, JobsFollow, Done
  <2>3. \A id \in Ids : Sendable(id)' => Sendable(id)
    BY <1>1 DEF IInv, Shape, Sendable, Done
  <2>4. EarlierFailed'
    BY <1>3, <2>3, EarlierFailedKept DEF IInv
  <2> QED BY <2>1, <2>2, <2>4 DEF IInv
<1>4. CASE Recordable(acked[h]) /\ \E known \in SUBSET held[h] : RecordDispatch(acked[h], known)
  <2>1. PICK known \in SUBSET held[h] : RecordDispatch(acked[h], known)
    BY <1>4
  <2> QED BY <1>1, <1>4, <2>1, RecordDispatchStep
<1> QED BY <1>2, <1>3, <1>4

(* The outcomes loop repeats or adds what the cloud said; a failed job      *)
(* stays failed, as its outcome is final.                                   *)
LEMMA ApplyPageStep ==
  ASSUME IInv, ApplyPage
  PROVE  IInv'
<1>1. PICK S \in SUBSET page :
        job' = [id \in Ids |-> IF id \in S /\ job[id] # "none"
                               THEN JobAfter(outcome[id]) ELSE job[id]]
  BY DEF ApplyPage
<1>2. \A id \in S : id \in Ids /\ outcome[id] \in Outcomes
  BY DEF IInv, Shape, Acknowledged
<1>3. page' = {} /\ UNCHANGED <<outcome, mail, stored, late, todo, chunk, wire, acked, held>>
  BY DEF ApplyPage, cloudVars, pushVars
<1>4. Shape'
  BY <1>1, <1>2, <1>3, JobAfterIsTrue DEF IInv, Shape
<1>5. Acknowledged' /\ CloudTruthful'
  BY <1>3 DEF IInv, Acknowledged, CloudTruthful
<1>6. JobsFollow'
  BY <1>1, <1>2, <1>3, JobAfterIsTrue DEF IInv, JobsFollow
<1>7. \A id \in Ids : Sendable(id)' => Sendable(id)
  BY <1>3 DEF Sendable
<1>8. \A id \in Ids : job[id] = "failed" => job'[id] = "failed"
  BY <1>1, <1>2, JobAfterIsTrue DEF IInv, JobsFollow
<1>9. EarlierFailed'
  BY <1>7, <1>8, EarlierFailedKept DEF IInv
<1> QED BY <1>4, <1>5, <1>6, <1>9 DEF IInv

-----------------------------------------------------------------------------
(* Steps that decide or read outcomes, and restarts.                        *)

(* The cloud decides an open pack as OneShotSend allows.                    *)
LEMMA ResolveStep ==
  ASSUME IInv, NEW id \in Ids, Resolve(id)
  PROVE  IInv'
<1>1. PICK s \in {"sent", "failed", "unknown"}, m \in {"none", "accepted"} :
        /\ Cloud!Certain(s, m)
        /\ outcome' = [outcome EXCEPT ![id] = s] /\ mail' = [mail EXCEPT ![id] = m]
  BY DEF Resolve
<1>2. id \in stored /\ outcome[id] = "open" /\ UNCHANGED <<job, stored, late, page>>
      /\ UNCHANGED pushVars
  BY DEF Resolve, pollVars
<1>3. Shape'
  BY <1>1, <1>2 DEF IInv, Shape, Outcomes, pushVars
<1>4. Acknowledged'
  BY <1>1, <1>2 DEF IInv, Shape, Acknowledged, pushVars
<1>5. CloudTruthful'
  BY <1>1, <1>2 DEF IInv, Shape, CloudTruthful, Cloud!Certain
<1>6. JobsFollow'
  BY <1>1, <1>2 DEF IInv, Shape, JobsFollow
<1>7. EarlierFailed'
  <2>1. \A x \in Ids : Sendable(x)' => Sendable(x)
    BY <1>2 DEF Sendable, pushVars
  <2> QED BY <1>2, <2>1, EarlierFailedKept DEF IInv
<1> QED BY <1>3, <1>4, <1>5, <1>6, <1>7 DEF IInv

(* packs_cancel_campaign decides open packs only.                           *)
LEMMA CancelAtCloudStep ==
  ASSUME IInv, NEW h \in Handlers, CancelAtCloud(h)
  PROVE  IInv'
<1>1. PICK S \in SUBSET {id \in stored : outcome[id] = "open"} :
        outcome' = [id \in Ids |-> IF id \in S THEN "cancelled" ELSE outcome[id]]
  <2>1. PICK missed \in SUBSET {id \in stored : outcome[id] = "open"} :
          outcome' = [id \in Ids |-> IF id \in {x \in stored : outcome[x] = "open"} \ missed
                                    THEN "cancelled" ELSE outcome[id]]
    BY DEF CancelAtCloud
  <2> QED BY <2>1
<1>2. UNCHANGED <<job, mail, stored, late, page>> /\ UNCHANGED pushVars
  BY DEF CancelAtCloud, pollVars
<1>3. Shape'
  BY <1>1, <1>2 DEF IInv, Shape, Outcomes, pushVars
<1>4. Acknowledged'
  BY <1>1, <1>2 DEF IInv, Shape, Acknowledged, pushVars
<1>5. CloudTruthful' /\ JobsFollow'
  BY <1>1, <1>2 DEF IInv, CloudTruthful, JobsFollow
<1>6. EarlierFailed'
  <2>1. \A x \in Ids : Sendable(x)' => Sendable(x)
    BY <1>2 DEF Sendable, pushVars
  <2> QED BY <1>2, <2>1, EarlierFailedKept DEF IInv
<1> QED BY <1>3, <1>4, <1>5, <1>6 DEF IInv

(* GET /packs/status returns outcomes only.                                 *)
LEMMA PollOutcomesStep ==
  ASSUME IInv, PollOutcomes
  PROVE  IInv'
<1>1. page' \subseteq {id \in Ids : outcome[id] # "open"}
      /\ UNCHANGED <<job, cloudVars, pushVars>>
  BY DEF PollOutcomes
<1> QED
  BY <1>1 DEF IInv, Shape, Acknowledged, CloudTruthful, JobsFollow, EarlierFailed, Sendable,
     cloudVars, pushVars

(* A restart forgets the requests; their packs in flight may still land.    *)
LEMMA RestartStep ==
  ASSUME IInv, Restart
  PROVE  IInv'
<1>1. Shape'
  BY DEF IInv, Shape, Restart
<1>2. Acknowledged' /\ CloudTruthful' /\ JobsFollow'
  BY DEF IInv, Acknowledged, CloudTruthful, JobsFollow, Restart
<1>3. \A id \in Ids : Sendable(id)' => Sendable(id)
  BY DEF Sendable, Restart
<1>4. EarlierFailed'
  BY <1>3, EarlierFailedKept DEF IInv, Restart
<1> QED BY <1>1, <1>2, <1>4 DEF IInv

-----------------------------------------------------------------------------
(* Buttons.                                                                 *)

(* dispatch_batch ends, or starts a push of what _plan_sends chose.         *)
LEMMA DispatchBatchStep ==
  ASSUME SendPathAssumption, IInv, NEW h \in Handlers, NEW bno, NEW bn, NEW bs,
         DispatchBatch(h, bno, bn, bs)
  PROVE  IInv'
<1>1. UNCHANGED <<job, outcome, mail, stored, late, page>>
  BY DEF DispatchBatch, cloudVars, pollVars
<1>2. \/ Done(h)
      \/ /\ \E cs : StartPush(h, gen, PlanSends(gen, cs, cs))
         /\ UNCHANGED <<chunk, wire, acked, held>>
  BY DEF DispatchBatch
<1>3. CASE Done(h)
  BY <1>1, <1>3, DoneStep
<1>4. CASE /\ \E cs : StartPush(h, gen, PlanSends(gen, cs, cs))
           /\ UNCHANGED <<chunk, wire, acked, held>>
  <2>1. PICK cs : StartPush(h, gen, PlanSends(gen, cs, cs))
    BY <1>4
  <2> QED BY <1>1, <1>4, <2>1, StartPushStep
<1> QED BY <1>2, <1>3, <1>4

(* A Re-launch ends, or starts a push of what _plan_sends chose.            *)
LEMMA RelaunchOpenStep ==
  ASSUME SendPathAssumption, IInv, NEW h \in Handlers, RelaunchOpen(h)
  PROVE  IInv'
<1>1. UNCHANGED <<job, outcome, mail, stored, late, page>>
  BY DEF RelaunchOpen, cloudVars, pollVars
<1>2. \/ Done(h)
      \/ /\ \E g : StartPush(h, g, PlanSends(g, cands[h], wasQueued[h]))
         /\ UNCHANGED <<chunk, wire, acked, held>>
  BY DEF RelaunchOpen
<1>3. CASE Done(h)
  BY <1>1, <1>3, DoneStep
<1>4. CASE /\ \E g : StartPush(h, g, PlanSends(g, cands[h], wasQueued[h]))
           /\ UNCHANGED <<chunk, wire, acked, held>>
  <2>1. PICK g : StartPush(h, g, PlanSends(g, cands[h], wasQueued[h]))
    BY <1>4
  <2> QED BY <1>1, <1>4, <2>1, StartPushStep
<1> QED BY <1>2, <1>3, <1>4

(* A button that only waits for the network or writes other tables.         *)
LEMMA AwaitStep ==
  ASSUME IInv, NEW h \in Handlers,
         \/ LaunchStart(h) \/ (\E b \in Batches : ApproveStart(h, b)) \/ RelaunchStart(h)
         \/ CancelStart(h)
  PROVE  IInv'
<1>1. UNCHANGED tracked
  BY DEF LaunchStart, ApproveStart, RelaunchStart, CancelStart, Await, tracked, pushVars,
     cloudVars, pollVars
<1> QED BY <1>1, Frame

(* A request that is refused, or a cancel that is answered, ends.           *)
LEMMA EndStep ==
  ASSUME IInv, NEW h \in Handlers, Refused(h) \/ CancelFinish(h)
  PROVE  IInv'
<1>1. Done(h) /\ UNCHANGED <<job, outcome, mail, stored, late, page>>
  BY DEF Refused, CancelFinish, cloudVars, pollVars
<1> QED BY <1>1, DoneStep

(* Routes and loops that write recipients, statuses, or suppressions only.  *)
LEMMA OtherStep ==
  ASSUME IInv,
         \/ (\E c \in Contacts : Suppress(c)) \/ (\E b \in Batches : DrainBatch(b))
         \/ RetryFailed \/ ChangeStatus
  PROVE  IInv'
<1>1. UNCHANGED tracked
  BY DEF Suppress, DrainBatch, RetryFailed, ChangeStatus, tracked, pushVars, cloudVars, pollVars
<1> QED BY <1>1, Frame

-----------------------------------------------------------------------------
(* The theorems.                                                            *)

(* In the beginning nothing has been planned, stored or decided.            *)
LEMMA InitEstablishes ==
  ASSUME SendPathAssumption, NEW recipients, Start(recipients)
  PROVE  IInv
<1>1. Shape
  BY DEF Start, Shape
<1>2. Acknowledged /\ CloudTruthful /\ JobsFollow /\ EarlierFailed
  BY DEF Start, Acknowledged, CloudTruthful, JobsFollow, EarlierFailed, Sendable
<1> QED BY <1>1, <1>2 DEF IInv

(* Every step keeps the invariant. *)
LEMMA StepPreserves ==
  ASSUME SendPathAssumption, IInv, [Next]_vars
  PROVE  IInv'
<1>1. ASSUME NEW h \in Handlers, Request(h)
      PROVE  IInv'
  <2>1. CASE LaunchBatches(h)
    BY <2>1, DispatchBatchStep DEF LaunchBatches
  <2>2. CASE DispatchReady(h)
    BY <2>2, DispatchBatchStep DEF DispatchReady
  <2>3. CASE \/ LaunchStart(h) \/ (\E b \in Batches : ApproveStart(h, b)) \/ RelaunchStart(h)
             \/ CancelStart(h)
    BY <2>3, AwaitStep
  <2>4. CASE RelaunchOpen(h)
    BY <2>4, RelaunchOpenStep
  <2>5. CASE Refused(h) \/ CancelFinish(h)
    BY <2>5, EndStep
  <2>6. CASE PushChunk(h)
    BY <2>6, PushChunkStep
  <2>7. CASE Record(h)
    BY <2>7, RecordStep
  <2>8. CASE PushFails(h)
    BY <2>8, PushFailsStep
  <2>9. CASE \E id \in Ids : PackArrives(h, id)
    BY <2>9, PackArrivesStep
  <2>10. CASE CancelAtCloud(h)
    BY <2>10, CancelAtCloudStep
  <2> QED BY <1>1, <2>1, <2>2, <2>3, <2>4, <2>5, <2>6, <2>7, <2>8, <2>9, <2>10 DEF Request
<1>2. CASE \E id \in Ids : LatePackArrives(id) \/ Resolve(id)
  BY <1>2, LatePackArrivesStep, ResolveStep
<1>3. CASE \/ (\E c \in Contacts : Suppress(c)) \/ (\E b \in Batches : DrainBatch(b))
           \/ RetryFailed \/ ChangeStatus
  BY <1>3, OtherStep
<1>4. CASE PollOutcomes
  BY <1>4, PollOutcomesStep
<1>5. CASE ApplyPage
  BY <1>5, ApplyPageStep
<1>6. CASE Restart
  BY <1>6, RestartStep
<1>7. CASE UNCHANGED vars
  <2>1. UNCHANGED tracked
    BY <1>7 DEF vars, tracked, cloudVars, pushVars, pollVars
  <2> QED BY <2>1, Frame
<1> QED BY <1>1, <1>2, <1>3, <1>4, <1>5, <1>6, <1>7 DEF Next

(* The invariant holds throughout. *)
THEOREM Invariance == Spec => []IInv
<1>1. Init => IInv
  BY SendPathAssumption, InitEstablishes DEF Init
<1>2. IInv /\ [Next]_vars => IInv'
  BY SendPathAssumption, StepPreserves
<1> QED BY <1>1, <1>2, PTL DEF Spec

(* No contact is mailed twice in a generation: the later of two packs was   *)
(* only planned because the earlier one had failed, which is final.         *)
THEOREM MailedOncePerGeneration == Spec => []OneMailPerGeneration
<1>1. IInv => OneMailPerGeneration
  <2>1. SUFFICES ASSUME IInv, NEW x \in Ids, NEW y \in Ids, x[1] = y[1], x[2] = y[2],
                        mail[x] = "accepted", mail[y] = "accepted", x # y
                 PROVE  FALSE
    BY DEF OneMailPerGeneration
  <2>2. ASSUME NEW p \in Ids, NEW q \in Ids, p[1] = q[1], p[2] = q[2], p[3] < q[3],
               mail[p] = "accepted", mail[q] = "accepted"
        PROVE  FALSE
    <3>1. Sendable(q)
      BY <2>1, <2>2 DEF IInv, CloudTruthful, Sendable
    <3>2. p = <<q[1], q[2], p[3]>> /\ p[3] \in 0..MaxOrdinal
      BY <2>2 DEF Ids
    <3>3. job[<<q[1], q[2], p[3]>>] = "failed"
      BY <2>1, <2>2, <3>1, <3>2 DEF IInv, EarlierFailed
    <3> QED BY <2>1, <2>2, <3>2, <3>3 DEF IInv, JobsFollow, CloudTruthful
  <2>3. x[3] # y[3] /\ x[3] \in Nat /\ y[3] \in Nat
    BY <2>1 DEF Ids
  <2>4. x[3] < y[3] \/ y[3] < x[3]
    BY <2>3
  <2> QED BY <2>1, <2>2, <2>4
<1> QED BY <1>1, Invariance, PTL

(* A contact gets a second pack in a generation only after the first failed.*)
THEOREM RepeatedOnlyAfterFailure == Spec => []RepeatOnlyAfterFailure
<1>1. IInv => RepeatOnlyAfterFailure
  <2>1. SUFFICES ASSUME IInv, NEW id \in stored, NEW a \in 0..MaxOrdinal, a < id[3]
                 PROVE  outcome[<<id[1], id[2], a>>] \in {"failed", "cancelled"}
    BY DEF RepeatOnlyAfterFailure
  <2>2. id \in Ids /\ Sendable(id)
    BY <2>1 DEF IInv, Shape, Sendable
  <2>3. job[<<id[1], id[2], a>>] = "failed"
    BY <2>1, <2>2 DEF IInv, EarlierFailed
  <2> QED BY <2>1, <2>2, <2>3, EarlierIsId DEF IInv, JobsFollow
<1> QED BY <1>1, Invariance, PTL

(* The terminal's records are true of the cloud's packs and mails.          *)
THEOREM JobsAreTruthful == Spec => []JobsTruthful
<1>1. IInv => JobsTruthful
  BY DEF IInv, JobsFollow, CloudTruthful, JobsTruthful
<1> QED BY <1>1, Invariance, PTL

-----------------------------------------------------------------------------
(* Types.  IInv has the types of jobs, packs and pushes; the rest of TypeOK *)
(* is kept by every step, and the one hard part of it is that a contact     *)
(* never gets a batch beyond the last.                                      *)

CampaignTyped == cstat \in CampaignStatus /\ gen \in 0..MaxGen /\ open \in BOOLEAN

RecipientsTyped ==
  /\ batchNo \in [Contacts -> Batches \cup {0}]
  /\ rstat \in [Contacts -> RecipientStatus]

BatchesTyped == bstat \in [Batches -> BatchStatus] /\ marker \in [Batches -> BOOLEAN]

RequestsTyped ==
  /\ pc \in [Handlers -> {"idle", "ctx", "key", "push", "cancel", "cancelled"}]
  /\ button \in [Handlers -> AllButtons] /\ batch \in [Handlers -> Batches \cup {0}]
  /\ pushGen \in [Handlers -> 0..MaxGen]
  /\ cands \in [Handlers -> SUBSET Contacts] /\ wasQueued \in [Handlers -> SUBSET Contacts]

OthersTyped == blocked \subseteq Contacts /\ passed \subseteq Ids

CountersTyped ==
  presses \in 0..MaxPresses /\ retries \in 0..MaxRetries /\ faults \in 0..MaxFaults

RestTyped ==
  /\ CampaignTyped /\ RecipientsTyped /\ BatchesTyped
  /\ RequestsTyped /\ OthersTyped /\ CountersTyped

(* An item of n, in groups of k, falls into one of the m groups that hold   *)
(* them all.                                                                *)
LEMMA Quotient ==
  ASSUME NEW n \in Nat, NEW m \in Nat, NEW k \in Nat \ {0}, n < m * k
  PROVE  n \div k \in Nat /\ n \div k < m
<1> DEFINE q == n \div k
<1>1. q \in Nat /\ q * k <= n
  BY Z3
<1>2. q < m
  <2> HIDE DEF q
  <2>1. SUFFICES ASSUME m <= q PROVE FALSE
    BY <1>1
  <2>2. m * k <= q * k
    BY <1>1, <2>1, Z3
  <2> QED BY <1>1, <2>2
<1> QED BY <1>1, <1>2

(* launch_campaign fills the batches in turn: with as many batches as the   *)
(* contacts need, no contact is put beyond the last one.                    *)
LEMMA BatchForInRange ==
  ASSUME SendPathAssumption, NEW cs \in SUBSET Contacts, NEW c \in cs
  PROVE  BatchFor(c, cs) \in Batches
<1> DEFINE before == {d \in cs : d < c}
<1>1. /\ IsFiniteSet(Contacts) /\ Cardinality(Contacts) \in Nat
      /\ Cardinality(Contacts) <= NumBatches * BatchSize
  BY FS_CardinalityType DEF SendPathAssumption
<1>2. /\ IsFiniteSet(before) /\ Cardinality(before) <= Cardinality(Contacts)
      /\ Cardinality(before) = Cardinality(Contacts) => before = Contacts
  <2>1. before \in SUBSET Contacts
    OBVIOUS
  <2> HIDE DEF before
  <2> QED BY <1>1, <2>1, FS_Subset
<1>3. before # Contacts
  <2>1. c \in Nat /\ c \in Contacts
    BY DEF SendPathAssumption
  <2> QED BY <2>1
<1>4. Cardinality(before) \in Nat
  BY <1>2, FS_CardinalityType
<1> DEFINE n == Cardinality(before)
<1>5. n \in Nat /\ n < NumBatches * BatchSize
  BY <1>1, <1>2, <1>3, <1>4
<1>6. BatchFor(c, cs) = n \div BatchSize + 1
  BY DEF BatchFor
<1> HIDE DEF n
<1>7. NumBatches \in Nat /\ BatchSize \in Nat \ {0}
  BY DEF SendPathAssumption
<1>8. n \div BatchSize \in Nat /\ n \div BatchSize < NumBatches
  BY <1>5, <1>7, Quotient
<1> QED BY <1>6, <1>7, <1>8 DEF Batches

(* Where there is a contact there is a first batch.                         *)
LEMMA FirstBatch ==
  ASSUME SendPathAssumption, NEW c \in Contacts
  PROVE  1 \in Batches
<1>1. BatchFor(c, Contacts) \in Batches
  BY BatchForInRange
<1> QED BY <1>1 DEF Batches, SendPathAssumption

(* A request that begins, begins to push, or ends.                          *)
LEMMA AwaitTyped ==
  ASSUME RequestsTyped, NEW h \in Handlers,
         NEW step \in {"ctx", "key", "cancel"}, NEW b \in AllButtons,
         NEW bno \in Batches \cup {0}, NEW cs \in SUBSET Contacts, NEW q \in SUBSET Contacts,
         Await(h, step, b, bno, cs, q)
  PROVE  RequestsTyped'
BY DEF RequestsTyped, Await

(* A push is of this generation, for a batch or for none.                   *)
LEMMA StartPushTyped ==
  ASSUME RequestsTyped, NEW h \in Handlers, NEW g \in 0..MaxGen, NEW ids,
         StartPush(h, g, ids), NEW bno \in Batches \cup {0},
         batch' \in {batch, [batch EXCEPT ![h] = bno]}, UNCHANGED button
  PROVE  RequestsTyped'
BY DEF RequestsTyped, StartPush

(* A request that ends forgets all it had.                                  *)
LEMMA DoneTyped ==
  ASSUME SendPathAssumption, RequestsTyped, NEW h \in Handlers, Done(h)
  PROVE  RequestsTyped'
<1>1. 0 \in 0..MaxGen /\ "launch" \in AllButtons
  BY DEF SendPathAssumption, AllButtons
<1> QED BY <1>1 DEF RequestsTyped, Done

(* Closing a batch writes statuses of batches.                              *)
LEMMA ClosePreviousTyped ==
  ASSUME NEW h, NEW bno, NEW bs \in [Batches -> BatchStatus]
  PROVE  ClosePrevious(h, bno, bs) \in [Batches -> BatchStatus]
BY DEF ClosePrevious, BatchStatus

(* dispatch_batch keeps the types of the tables, whichever way it ends.     *)
LEMMA DispatchBatchTyped ==
  ASSUME SendPathAssumption, RestTyped, NEW h \in Handlers,
         NEW bno \in Batches \cup {0, 1},
         NEW bn \in [Contacts -> Batches \cup {0}], NEW bs \in [Batches -> BatchStatus],
         DispatchBatch(h, bno, bn, bs)
  PROVE  RecipientsTyped' /\ BatchesTyped' /\ RequestsTyped' /\ OthersTyped'
<1> DEFINE recips == {c \in Contacts : rstat[c] = "queued" /\ bn[c] = bno}
           handedOver == marker[bno] \/ Deliverable(recips) # {}
           sends == PlanSends(gen, recips, recips)
<1>1. RecipientsTyped'
  BY DEF DispatchBatch, MarkSuppressed, RestTyped, RecipientsTyped, RecipientStatus
<1>2. BatchesTyped'
  <2>1. CloseEmptyBatch(bno, bs, handedOver) \in [Batches -> BatchStatus]
    BY DEF CloseEmptyBatch, BatchStatus
  <2>2. ClosePrevious(h, bno, CloseEmptyBatch(bno, bs, handedOver))
          \in [Batches -> BatchStatus]
    BY <2>1, ClosePreviousTyped
  <2>3. bstat' \in {bs, ClosePrevious(h, bno, CloseEmptyBatch(bno, bs, handedOver))}
    BY DEF DispatchBatch
  <2>4. marker' \in {marker, [marker EXCEPT ![bno] = FALSE], MarkStarted(bno)}
    BY DEF DispatchBatch
  <2>5. marker' \in [Batches -> BOOLEAN]
    BY <2>4 DEF RestTyped, BatchesTyped, MarkStarted
  <2> QED BY <2>2, <2>3, <2>5 DEF BatchesTyped
<1>3. RequestsTyped'
  <2>1. CASE Done(h)
    BY <2>1, DoneTyped DEF RestTyped
  <2>2. CASE /\ sends # {} /\ StartPush(h, gen, sends)
             /\ batch' = [batch EXCEPT ![h] = bno] /\ UNCHANGED button
    <3>1. PICK id \in Ids : Contact(id) \in Contacts
      BY <2>2 DEF PlanSends, Ids, Contact
    <3>2. bno \in Batches \cup {0}
      BY <3>1, FirstBatch
    <3>3. gen \in 0..MaxGen /\ RequestsTyped
      BY DEF RestTyped, CampaignTyped
    <3> HIDE DEF sends
    <3> QED BY <2>2, <3>2, <3>3, StartPushTyped
  <2> QED BY <2>1, <2>2 DEF DispatchBatch
<1>4. OthersTyped'
  BY DEF DispatchBatch, RestTyped, OthersTyped, pollVars
<1> QED BY <1>1, <1>2, <1>3, <1>4

(* What is recorded of a pack gives its contact a status.                   *)
LEMMA RecordDispatchTyped ==
  ASSUME RecipientsTyped, NEW ids, NEW known, RecordDispatch(ids, known)
  PROVE  RecipientsTyped'
BY DEF RecipientsTyped, RecordDispatch, RecipientStatus

(* Recording a push keeps the types.                                        *)
LEMMA RecordTyped ==
  ASSUME SendPathAssumption, RestTyped, NEW h \in Handlers, Record(h)
  PROVE  RestTyped'
<1>1. RecipientsTyped'
  BY RecordDispatchTyped DEF Record, RestTyped, RecipientsTyped, recipientVars
<1>2. CampaignTyped'
  BY DEF Record, RestTyped, CampaignTyped, batchVars
<1>3. BatchesTyped'
  <2> DEFINE bs == [bstat EXCEPT ![batch[h]] = "sending"]
  <2>1. bs \in [Batches -> BatchStatus]
    BY DEF RestTyped, BatchesTyped, BatchStatus
  <2>2. ClosePrevious(h, batch[h], bs) \in [Batches -> BatchStatus]
    BY <2>1, ClosePreviousTyped
  <2>3. /\ bstat' \in {bstat, ClosePrevious(h, batch[h], bs)}
        /\ marker' \in {marker, [marker EXCEPT ![batch[h]] = FALSE]}
    BY DEF Record, batchVars
  <2>4. marker' \in [Batches -> BOOLEAN]
    BY <2>3 DEF RestTyped, BatchesTyped
  <2> QED BY <2>2, <2>3, <2>4 DEF RestTyped, BatchesTyped
<1>4. RequestsTyped'
  BY DoneTyped DEF Record, RestTyped
<1>5. OthersTyped'
  BY DEF Record, RecordDispatch, RestTyped, OthersTyped, pollVars
<1>6. CountersTyped'
  BY DEF Record, Fault, NoFault, counters, RestTyped, CountersTyped, SendPathAssumption
<1> QED BY <1>1, <1>2, <1>3, <1>4, <1>5, <1>6 DEF RestTyped

(* Every request keeps the types. *)
LEMMA RequestTyped ==
  ASSUME SendPathAssumption, RestTyped, NEW h \in Handlers, Request(h)
  PROVE  RestTyped'
<1> USE DEF RestTyped
<1>1. CASE LaunchStart(h)
  <2>1. RequestsTyped'
    BY <1>1, AwaitTyped DEF LaunchStart, Deliverable, AllButtons
  <2> QED
    BY <1>1, <2>1 DEF LaunchStart, Press, CampaignTyped, RecipientsTyped, BatchesTyped,
       OthersTyped, CountersTyped, campaignVars, recipientVars, batchVars, pollVars,
       SendPathAssumption
<1>2. CASE LaunchBatches(h)
  <2> DEFINE bn == [c \in Contacts |->
                      IF c \in cands[h] THEN BatchFor(c, cands[h]) ELSE batchNo[c]]
             bs == [b \in Batches |->
                      IF bstat[b] = "none" /\ \E c \in cands[h] : BatchFor(c, cands[h]) = b
                      THEN "pending" ELSE bstat[b]]
  <2>1. bn \in [Contacts -> Batches \cup {0}]
    BY BatchForInRange DEF RequestsTyped, RecipientsTyped
  <2>2. bs \in [Batches -> BatchStatus]
    BY DEF BatchesTyped, BatchStatus
  <2>3. DispatchBatch(h, 1, bn, bs)
    BY <1>2 DEF LaunchBatches
  <2> HIDE DEF bn, bs
  <2>4. RecipientsTyped' /\ BatchesTyped' /\ RequestsTyped' /\ OthersTyped'
    BY <2>1, <2>2, <2>3, DispatchBatchTyped
  <2> QED
    BY <1>2, <2>4 DEF LaunchBatches, CampaignTyped, CampaignStatus, CountersTyped, NoFault,
       counters
<1>3. CASE \E b \in Batches : ApproveStart(h, b)
  <2>1. RequestsTyped'
    BY <1>3, AwaitTyped DEF ApproveStart, AllButtons
  <2> QED
    BY <1>3, <2>1 DEF ApproveStart, Press, CampaignTyped, RecipientsTyped, BatchesTyped,
       OthersTyped, CountersTyped, campaignVars, recipientVars, batchVars, pollVars,
       SendPathAssumption
<1>4. CASE RelaunchStart(h)
  <2>1. RequestsTyped'
    BY <1>4, AwaitTyped DEF RelaunchStart, Interrupted, AllButtons
  <2> QED
    BY <1>4, <2>1 DEF RelaunchStart, Press, CampaignTyped, RecipientsTyped, BatchesTyped,
       OthersTyped, CountersTyped, campaignVars, recipientVars, batchVars, pollVars,
       SendPathAssumption
<1>5. CASE RelaunchOpen(h)
  <2>1. /\ gen' = RelaunchGeneration /\ RelaunchGeneration <= MaxGen
        /\ open' \in {TRUE, FALSE}
    BY <1>5 DEF RelaunchOpen
  <2>2. RelaunchGeneration \in Nat
    BY DEF RelaunchGeneration, CampaignTyped
  <2>3. gen' \in 0..MaxGen
    BY <2>1, <2>2 DEF SendPathAssumption
  <2>4. RequestsTyped'
    <3>1. CASE Done(h)
      BY <3>1, DoneTyped
    <3>2. CASE /\ \E ids : StartPush(h, gen', ids)
               /\ UNCHANGED <<button, batch>>
      <4>1. PICK ids : StartPush(h, gen', ids)
        BY <3>2
      <4> QED BY <2>3, <3>2, <4>1, StartPushTyped
    <3> QED BY <1>5, <2>1, <3>1, <3>2 DEF RelaunchOpen
  <2> QED
    BY <1>5, <2>1, <2>3, <2>4 DEF RelaunchOpen, NoFault, CampaignTyped, RecipientsTyped,
       BatchesTyped, OthersTyped, CountersTyped, recipientVars, batchVars, pollVars, counters
<1>6. CASE DispatchReady(h)
  <2>1. RecipientsTyped' /\ BatchesTyped' /\ RequestsTyped' /\ OthersTyped'
    BY <1>6, DispatchBatchTyped DEF DispatchReady, RequestsTyped, RecipientsTyped, BatchesTyped
  <2> QED
    BY <1>6, <2>1 DEF DispatchReady, CampaignTyped, CountersTyped, NoFault, counters,
       campaignVars
<1>7. CASE Refused(h)
  <2>1. RequestsTyped'
    BY <1>7, DoneTyped DEF Refused
  <2> QED
    BY <1>7, <2>1 DEF Refused, Fault, CampaignTyped, RecipientsTyped, BatchesTyped,
       OthersTyped, CountersTyped, campaignVars, recipientVars, batchVars, pollVars,
       SendPathAssumption
<1>8. CASE PushChunk(h) \/ (\E id \in Ids : PackArrives(h, id))
  BY <1>8 DEF PushChunk, PackArrives, NoFault, CampaignTyped, RecipientsTyped, BatchesTyped,
     RequestsTyped, OthersTyped, CountersTyped, campaignVars, recipientVars, batchVars,
     requestVars, pollVars, counters
<1>9. CASE Record(h)
  BY <1>9, RecordTyped
<1>10. CASE PushFails(h)
  <2>1. RequestsTyped'
    BY <1>10, DoneTyped DEF PushFails
  <2>2. RecipientsTyped'
    BY <1>10, RecordDispatchTyped DEF PushFails, RecipientsTyped, recipientVars
  <2> QED
    BY <1>10, <2>1, <2>2 DEF PushFails, RecordDispatch, Fault, CampaignTyped, BatchesTyped,
       OthersTyped, CountersTyped, campaignVars, batchVars, pollVars, SendPathAssumption
<1>11. CASE CancelStart(h)
  <2>1. RequestsTyped'
    <3>1. \/ Await(h, "cancel", "cancel", 0, {}, {})
          \/ Await(h, "cancel", "archive", 0, {}, {})
          \/ UNCHANGED requestVars
      BY <1>11 DEF CancelStart
    <3>2. CASE UNCHANGED requestVars
      BY <3>2 DEF RequestsTyped, requestVars
    <3>3. "cancel" \in AllButtons /\ "archive" \in AllButtons
      BY DEF AllButtons
    <3> QED BY <3>1, <3>2, <3>3, AwaitTyped
  <2>2. CampaignTyped'
    BY <1>11 DEF CancelStart, CampaignTyped, CampaignStatus
  <2> QED
    BY <1>11, <2>1, <2>2 DEF CancelStart, Press, RecipientsTyped, BatchesTyped,
       OthersTyped, CountersTyped, recipientVars, batchVars, pollVars, SendPathAssumption
<1>12. CASE CancelAtCloud(h)
  BY <1>12 DEF CancelAtCloud, Fault, NoFault, CampaignTyped, RecipientsTyped, BatchesTyped,
     RequestsTyped, OthersTyped, CountersTyped, campaignVars, recipientVars, batchVars,
     pollVars, counters, SendPathAssumption
<1>13. CASE CancelFinish(h)
  <2>1. RequestsTyped'
    BY <1>13, DoneTyped DEF CancelFinish
  <2>2. CampaignTyped'
    BY <1>13 DEF CancelFinish, CampaignTyped, CampaignStatus
  <2>3. BatchesTyped'
    BY <1>13 DEF CancelFinish, BatchesTyped, BatchStatus
  <2> QED
    BY <1>13, <2>1, <2>2, <2>3 DEF CancelFinish, Fault, NoFault, RecipientsTyped,
       OthersTyped, CountersTyped, recipientVars, pollVars, counters, SendPathAssumption
<1> QED
  BY <1>1, <1>2, <1>3, <1>4, <1>5, <1>6, <1>7, <1>8, <1>9, <1>10, <1>11, <1>12, <1>13
  DEF Request

(* The types at the beginning. *)
LEMMA InitTyped ==
  ASSUME SendPathAssumption, NEW recipients \in [Contacts -> RecipientStatus],
         Start(recipients)
  PROVE  RestTyped
<1>1. CampaignTyped /\ CountersTyped
  <2>1. /\ cstat = "tested" /\ gen = 0 /\ open = FALSE
        /\ presses = 0 /\ retries = 0 /\ faults = 0
    BY DEF Start
  <2>2. 0 \in 0..MaxGen /\ 0 \in 0..MaxPresses /\ 0 \in 0..MaxRetries /\ 0 \in 0..MaxFaults
    BY DEF SendPathAssumption
  <2>3. CountersTyped
    BY <2>1, <2>2 DEF CountersTyped
  <2>4. CampaignTyped
    BY <2>1, <2>2 DEF CampaignTyped, CampaignStatus
  <2> QED BY <2>3, <2>4
<1>2. RecipientsTyped
  BY DEF Start, RecipientsTyped
<1>3. BatchesTyped
  BY DEF Start, BatchesTyped, BatchStatus
<1>4. RequestsTyped
  <2>1. 0 \in 0..MaxGen /\ "launch" \in AllButtons
    BY DEF SendPathAssumption, AllButtons
  <2> QED BY <2>1 DEF Start, RequestsTyped
<1>5. OthersTyped
  BY DEF Start, OthersTyped
<1> QED BY <1>1, <1>2, <1>3, <1>4, <1>5 DEF RestTyped

(* Every step keeps the types. *)
LEMMA StepTyped ==
  ASSUME SendPathAssumption, IInv, RestTyped, [Next]_vars
  PROVE  RestTyped'
<1> USE DEF RestTyped
<1>1. CASE \E h \in Handlers : Request(h)
  BY <1>1, RequestTyped
<1>2. CASE \/ (\E id \in Ids : LatePackArrives(id) \/ Resolve(id))
           \/ (\E c \in Contacts : Suppress(c)) \/ PollOutcomes
  BY <1>2 DEF LatePackArrives, Resolve, Suppress, PollOutcomes, NoFault, CampaignTyped,
     RecipientsTyped, BatchesTyped, RequestsTyped, OthersTyped, CountersTyped, campaignVars,
     recipientVars, batchVars, requestVars, pollVars, counters, SendPathAssumption
<1>3. CASE \E b \in Batches : DrainBatch(b)
  BY <1>3 DEF DrainBatch, NoFault, CampaignTyped, RecipientsTyped, BatchesTyped, BatchStatus,
     RequestsTyped, OthersTyped, CountersTyped, campaignVars, recipientVars, requestVars,
     pollVars, counters
<1>4. CASE RetryFailed \/ ChangeStatus
  <2>1. CampaignTyped'
    BY <1>4 DEF RetryFailed, ChangeStatus, CampaignTyped, CampaignStatus
  <2>2. RecipientsTyped'
    BY <1>4 DEF RetryFailed, ChangeStatus, RecipientsTyped, RecipientStatus, recipientVars
  <2>3. CountersTyped'
    BY <1>4 DEF RetryFailed, ChangeStatus, CountersTyped, NoFault, counters, SendPathAssumption
  <2> QED
    BY <1>4, <2>1, <2>2, <2>3 DEF RetryFailed, ChangeStatus, BatchesTyped, RequestsTyped,
       OthersTyped, batchVars, requestVars, pollVars
<1>5. CASE ApplyPage
  <2>1. page \subseteq Ids
    BY DEF IInv, Shape
  <2> QED
    BY <1>5, <2>1 DEF ApplyPage, Fault, NoFault, CampaignTyped, RecipientsTyped, RecipientStatus,
       BatchesTyped, RequestsTyped, OthersTyped, CountersTyped, campaignVars, batchVars,
       requestVars, counters, SendPathAssumption
<1>6. CASE Restart
  <2>1. 0 \in 0..MaxGen
    BY DEF SendPathAssumption
  <2> QED
    BY <1>6, <2>1 DEF Restart, Fault, CampaignTyped, RecipientsTyped, BatchesTyped,
       RequestsTyped, AllButtons, OthersTyped, CountersTyped, campaignVars, recipientVars,
       batchVars, SendPathAssumption
<1>7. CASE UNCHANGED vars
  BY <1>7 DEF vars, CampaignTyped, RecipientsTyped, BatchesTyped, RequestsTyped, OthersTyped,
     CountersTyped, campaignVars, recipientVars, batchVars, requestVars, pollVars, counters
<1> QED BY <1>1, <1>2, <1>3, <1>4, <1>5, <1>6, <1>7 DEF Next

(* Whatever is pressed, lost, retried or restarted, every table, request    *)
(* and cloud item keeps its shape; no contact is put beyond the last batch  *)
(* and no generation or ordinal is met that has no pack id.                 *)
THEOREM TypesHold == Spec => []TypeOK
<1>1. Init => RestTyped
  <2>1. [c \in Contacts |-> "queued"] \in [Contacts -> RecipientStatus]
    BY DEF RecipientStatus
  <2> QED BY <2>1, SendPathAssumption, InitTyped DEF Init
<1>2. IInv /\ RestTyped /\ [Next]_vars => RestTyped'
  BY SendPathAssumption, StepTyped
<1>3. IInv /\ RestTyped => TypeOK
  BY DEF IInv, Shape, RestTyped, CampaignTyped, RecipientsTyped, BatchesTyped, RequestsTyped,
     OthersTyped, CountersTyped, TypeOK, JobStatus
<1> QED BY <1>1, <1>2, <1>3, Invariance, PTL DEF Spec

-----------------------------------------------------------------------------
(* Interrupted sends are found.  SerialInv says where the pack without a    *)
(* job is on record while it is pushed and after the push broke off; it     *)
(* holds as long as requests follow one another, see SerialSpec.            *)

(* What a push has in hand. *)
Pushed(h) == todo[h] \cup chunk[h] \cup acked[h]

(* The first pack of a contact in this generation. *)
FirstId(c) == <<gen, c, 0>>

(* Packs that InterruptedSendFound is about. *)
Owed == {id \in Unrecorded : outcome[id] \notin {"failed", "cancelled"}}

Jobless(c) == \A id \in Ids : Contact(id) = c => job[id] = "none"

(* One request is in progress, and no cancel. *)
OneRequest ==
  /\ \A g, h \in Handlers : g # h => pc[g] = "idle" \/ pc[h] = "idle"
  /\ \A h \in Handlers : pc[h] \notin {"cancel", "cancelled"}

(* Only a push has packs in hand. *)
PushesOnly ==
  \A h \in Handlers : wire[h] \subseteq chunk[h] /\ (pc[h] # "push" => Pushed(h) = {})

(* Nothing was recorded of a queued contact, as nothing is retried. *)
QueuedJobless == \A c \in Contacts : rstat[c] = "queued" => Jobless(c)

(* Only the suppression list takes a contact out. *)
CancelledBlocked == \A c \in Contacts : rstat[c] = "cancelled" => c \in blocked

(* A request that waits for the key began with no batch interrupted, and a  *)
(* Re-launch has everyone who is left.                                      *)
Waiting ==
  \A h \in Handlers :
    /\ pc[h] = "key" =>
         /\ Interrupted = {} /\ batch[h] = 0
         /\ button[h] = "relaunch" => Contacts \ blocked \subseteq cands[h]
         /\ \A c \in wasQueued[h] : Jobless(c)
    /\ pc[h] = "ctx" => batch[h] \in Batches

(* A push has the first packs of all that it is to finish: of everyone      *)
(* without a job, or of all that are queued in its batch.                   *)
Pushing(h) ==
  /\ pushGen[h] = gen /\ \A id \in Pushed(h) : id = FirstId(Contact(id))
  /\ batch[h] = 0 =>
       /\ open /\ Interrupted = {}
       /\ \A c \in Contacts \ blocked : job[FirstId(c)] = "none" => FirstId(c) \in Pushed(h)
  /\ batch[h] # 0 =>
       /\ batch[h] \in Interrupted
       /\ \A id \in Pushed(h) : rstat[Contact(id)] = "queued" /\ batchNo[Contact(id)] = batch[h]
       /\ \A c \in Contacts \ blocked :
            rstat[c] = "queued" /\ batchNo[c] = batch[h] => FirstId(c) \in Pushed(h)

(* A pack without a job belongs to the generation, which is open, or to a   *)
(* queued contact of a marked batch.                                        *)
OwedFound ==
  \A id \in Owed :
    /\ id = FirstId(Contact(id))
    /\ open \/ (rstat[Contact(id)] = "queued" /\ batchNo[Contact(id)] \in Interrupted)

SerialInv ==
  /\ OneRequest /\ PushesOnly /\ QueuedJobless /\ CancelledBlocked /\ Waiting
  /\ \A h \in Handlers : pc[h] = "push" => Pushing(h)
  /\ OwedFound

Base == SendPathAssumption /\ IInv /\ RestTyped

(* The first pack of a contact is a pack. *)
LEMMA FirstIsId ==
  ASSUME Base, NEW c \in Contacts
  PROVE  FirstId(c) \in Ids /\ Contact(FirstId(c)) = c
<1>1. gen \in 0..MaxGen /\ 0 \in 0..MaxOrdinal
  BY DEF Base, RestTyped, CampaignTyped, SendPathAssumption
<1> QED BY <1>1 DEF FirstId, Ids, Contact

(* Every pack is a contact's.                                               *)
LEMMA ContactOf == \A id \in Ids : Contact(id) \in Contacts
  BY DEF Ids, Contact

(* _plan_sends takes the first pack of everyone left that has no job.       *)
LEMMA PlanCovers ==
  ASSUME Base, NEW g \in 0..MaxGen, NEW cs, NEW queued,
         NEW c \in (Contacts \cap cs) \ blocked, job[<<g, c, 0>>] = "none"
  PROVE  <<g, c, 0>> \in PlanSends(g, cs, queued)
<1>1. <<g, c, 0>> \in Ids
  BY DEF Base, Ids, SendPathAssumption
<1>2. \A b \in 0..MaxOrdinal : ~(b < 0)
  BY DEF Base, SendPathAssumption
<1> QED BY <1>1, <1>2 DEF PlanSends, Deliverable

(* Of contacts that never had a job, _plan_sends takes first packs only.    *)
LEMMA PlanIsFirst ==
  ASSUME Base, NEW g, NEW cs, NEW queued, \A c \in queued : Jobless(c),
         NEW id \in PlanSends(g, cs, queued)
  PROVE  /\ id \in Ids /\ Contact(id) \in Contacts /\ Contact(id) \in cs \ blocked
         /\ id = <<g, Contact(id), 0>>
<1>1. /\ id \in Ids /\ id[1] = g /\ id[2] \in cs \ blocked /\ id[2] \in Contacts
      /\ id = <<id[1], id[2], id[3]>> /\ id[3] \in 0..MaxOrdinal
  BY DEF PlanSends, Deliverable, Ids
<1>2. CASE id[3] > 0
  <2>1. id[2] \in queued /\ job[<<g, id[2], id[3] - 1>>] = "failed"
    BY <1>2 DEF PlanSends, RetryableJob
  <2>2. id[3] - 1 \in 0..MaxOrdinal
    BY <1>1, <1>2 DEF Base, SendPathAssumption
  <2>3. <<g, id[2], id[3] - 1>> \in Ids
    BY <1>1, <2>2 DEF Ids
  <2> QED BY <2>1, <2>3 DEF Jobless, Contact
<1>3. CASE ~(id[3] > 0)
  <2>1. id[3] = 0
    BY <1>1, <1>3 DEF Base, SendPathAssumption
  <2> QED BY <1>1, <2>1 DEF Contact
<1> QED BY <1>2, <1>3

(* Steps that touch no request, recipient, batch or job, and owe no pack    *)
(* more.                                                                    *)
LEMMA QuietKeeps ==
  ASSUME Base, SerialInv,
         UNCHANGED <<gen, open, batchNo, rstat, marker, job, requestVars>>,
         UNCHANGED <<todo, chunk, acked, wire>>,
         blocked \subseteq blocked', Owed' \subseteq Owed
  PROVE  SerialInv'
<1> USE DEF SerialInv, requestVars
<1>1. OneRequest' /\ PushesOnly' /\ QueuedJobless' /\ CancelledBlocked'
  BY DEF OneRequest, PushesOnly, Pushed, QueuedJobless, Jobless, CancelledBlocked
<1>2. Waiting'
  BY DEF Waiting, Interrupted, Jobless
<1>3. \A h \in Handlers : pc'[h] = "push" => Pushing(h)'
  BY DEF Pushing, Pushed, FirstId, Interrupted
<1>4. OwedFound'
  BY DEF OwedFound, FirstId, Interrupted
<1> QED BY <1>1, <1>2, <1>3, <1>4

(* When the only request ends, nothing is left in hand.                     *)
LEMMA EndKeeps ==
  ASSUME Base, SerialInv, NEW h \in Handlers, pc[h] # "idle", Done(h),
         QueuedJobless', CancelledBlocked', OwedFound'
  PROVE  SerialInv'
<1>1. \A k \in Handlers : pc'[k] = "idle"
  BY DEF Base, RestTyped, RequestsTyped, SerialInv, OneRequest, Done
<1>2. \A k \in Handlers : wire'[k] \subseteq chunk'[k] /\ Pushed(k)' = {}
  BY DEF Base, RestTyped, RequestsTyped, IInv, Shape, SerialInv, OneRequest, PushesOnly,
     Pushed, Done
<1>3. OneRequest' /\ PushesOnly' /\ Waiting'
  BY <1>1, <1>2 DEF OneRequest, PushesOnly, Waiting
<1> QED BY <1>1, <1>3 DEF SerialInv

(* What is recorded of a push is owed no more, and a push that closes its   *)
(* generation or its batch records all of it.                               *)
LEMMA RecordKeeps ==
  ASSUME Base, SerialInv, NEW h \in Handlers, pc[h] = "push",
         NEW ids \in SUBSET Pushed(h), NEW known, RecordDispatch(ids, known), Done(h),
         UNCHANGED <<gen, outcome, stored>>, late \subseteq late',
         \/ UNCHANGED <<open, marker>>
         \/ ids = Pushed(h) /\ batch[h] = 0
         \/ /\ ids = Pushed(h) /\ batch[h] # 0
            /\ UNCHANGED open /\ marker' = [marker EXCEPT ![batch[h]] = FALSE]
  PROVE  SerialInv'
<1>1. ids \subseteq Ids /\ Pushing(h)
  BY DEF Base, IInv, Shape, Pushed, SerialInv
<1>2. \A id \in Ids : IF id \in ids THEN job'[id] # "none" ELSE job'[id] = job[id]
  BY DEF RecordDispatch, JobAfter
<1>3. \A c \in Contacts : \/ rstat'[c] \in {"sent", "failed"}
                          \/ rstat'[c] = rstat[c] /\ \A id \in ids : Contact(id) # c
  BY DEF RecordDispatch
<1>4. QueuedJobless'
  BY <1>1, <1>2, <1>3 DEF QueuedJobless, Jobless, SerialInv
<1>5. CancelledBlocked'
  BY <1>3 DEF CancelledBlocked, SerialInv, RecordDispatch
<1>6. OwedFound'
  <2>1. SUFFICES ASSUME NEW id \in Owed'
                 PROVE  /\ id = FirstId(Contact(id))
                        /\ \/ open'
                           \/ /\ rstat'[Contact(id)] = "queued"
                              /\ batchNo[Contact(id)] \in Batches
                              /\ marker'[batchNo[Contact(id)]]
    BY DEF OwedFound, FirstId, Interrupted, RecordDispatch
  <2>2. id \in Owed \ ids /\ id \in Ids /\ Contact(id) \in Contacts \ blocked
    <3>1. id \in Ids /\ id \notin ids
      BY <1>2 DEF Owed, Unrecorded, Base, IInv, Shape
    <3>2. id \in Owed
      BY <1>2, <3>1 DEF Owed, Unrecorded, RecordDispatch
    <3> QED BY <3>1, <3>2, ContactOf DEF Owed, Unrecorded, RecordDispatch
  <2> DEFINE c == Contact(id)
  <2>3. id = FirstId(c) /\ (open \/ (rstat[c] = "queued" /\ batchNo[c] \in Interrupted))
    BY <2>2 DEF SerialInv, OwedFound
  <2>4. \A x \in ids : Contact(x) # c
    <3>1. \A x \in ids : x = FirstId(Contact(x))
      BY <1>1 DEF Pushing
    <3> QED BY <2>2, <2>3, <3>1
  <2>5. rstat'[c] = rstat[c]
    BY <2>2, <2>4 DEF RecordDispatch
  <2>6. job[id] = "none"
    BY <2>2 DEF Owed, Unrecorded
  <2>7. CASE UNCHANGED <<open, marker>>
    BY <2>3, <2>5, <2>7 DEF Interrupted
  <2>8. CASE ids = Pushed(h) /\ batch[h] = 0
    BY <1>1, <2>2, <2>3, <2>6, <2>8 DEF Pushing
  <2>9. CASE /\ ids = Pushed(h) /\ batch[h] # 0
             /\ UNCHANGED open /\ marker' = [marker EXCEPT ![batch[h]] = FALSE]
    <3>1. rstat[c] = "queued" => batchNo[c] # batch[h]
      BY <1>1, <2>2, <2>3, <2>9 DEF Pushing
    <3> QED
      BY <2>3, <2>5, <2>9, <3>1 DEF Interrupted, Base, RestTyped, BatchesTyped
  <2> QED BY <2>3, <2>7, <2>8, <2>9
<1> QED BY <1>4, <1>5, <1>6, EndKeeps

(* A request that ends without a record, and gives up no promise.           *)
LEMMA EndQuietKeeps ==
  ASSUME Base, SerialInv, NEW h \in Handlers, pc[h] # "idle", Done(h),
         UNCHANGED <<gen, open, batchNo, rstat, marker, job, blocked, outcome, stored>>,
         late \subseteq late'
  PROVE  SerialInv'
<1>1. QueuedJobless' /\ CancelledBlocked'
  BY DEF SerialInv, QueuedJobless, Jobless, CancelledBlocked
<1>2. Owed' \subseteq Owed
  BY DEF Owed, Unrecorded
<1>3. OwedFound'
  BY <1>2 DEF SerialInv, OwedFound, FirstId, Interrupted
<1> QED BY <1>1, <1>3, EndKeeps

(* A push that is recorded, or is not.                                      *)
LEMMA SerialRecord ==
  ASSUME Base, SerialInv, NEW h \in Handlers, Record(h)
  PROVE  SerialInv'
<1> DEFINE ids == acked[h] \cup chunk[h]
<1>1. /\ pc[h] = "push" /\ Done(h) /\ ids = Pushed(h)
      /\ UNCHANGED <<gen, outcome, stored, late>>
  BY DEF Record, Pushed, cloudVars
<1>2. CASE UNCHANGED <<recipientVars, job, blocked, open, batchVars>>
  BY <1>1, <1>2, EndQuietKeeps DEF recipientVars, batchVars
<1>3. CASE /\ \E known : RecordDispatch(ids, known)
           /\ \/ batch[h] = 0
              \/ /\ batch[h] # 0 /\ UNCHANGED open
                 /\ marker' = [marker EXCEPT ![batch[h]] = FALSE]
              \/ UNCHANGED <<open, marker>>
  <2>1. PICK known : RecordDispatch(ids, known)
    BY <1>3
  <2> HIDE DEF ids
  <2> QED BY <1>1, <1>3, <2>1, RecordKeeps
<1> QED BY <1>2, <1>3 DEF Record, batchVars

(* A push that is given up.                                                 *)
LEMMA SerialPushFails ==
  ASSUME Base, SerialInv, NEW h \in Handlers, PushFails(h)
  PROVE  SerialInv'
<1>1. /\ pc[h] = "push" /\ Done(h) /\ late' = late \cup wire[h]
      /\ UNCHANGED <<gen, open, marker, outcome, stored>>
  BY DEF PushFails, campaignVars, batchVars
<1>2. CASE UNCHANGED <<recipientVars, job, blocked>>
  BY <1>1, <1>2, EndQuietKeeps DEF recipientVars
<1>3. CASE \E known : RecordDispatch(acked[h], known)
  <2>1. PICK known : RecordDispatch(acked[h], known)
    BY <1>3
  <2>2. acked[h] \subseteq Pushed(h)
    BY DEF Pushed
  <2> QED BY <1>1, <2>1, <2>2, RecordKeeps
<1> QED BY <1>2, <1>3 DEF PushFails

(* A chunk goes out of what is in hand already.                             *)
LEMMA SerialPushChunk ==
  ASSUME Base, SerialInv, NEW h \in Handlers, PushChunk(h)
  PROVE  SerialInv'
<1>1. /\ NextChunk(todo[h]) \subseteq todo[h] /\ pc[h] = "push"
      /\ UNCHANGED <<gen, open, batchNo, rstat, marker, job, requestVars, blocked, outcome,
                     stored, late>>
  BY DEF NextChunk, PushChunk, campaignVars, recipientVars, batchVars, cloudVars
<1>2. \A k \in Handlers : Pushed(k)' = Pushed(k) /\ (wire[k] \subseteq chunk[k])'
  BY <1>1 DEF PushChunk, Pushed, Base, IInv, Shape, SerialInv, PushesOnly
<1>3. OneRequest' /\ PushesOnly' /\ QueuedJobless' /\ CancelledBlocked' /\ Waiting'
  BY <1>1, <1>2 DEF SerialInv, OneRequest, PushesOnly, QueuedJobless, Jobless,
     CancelledBlocked, Waiting, Interrupted, requestVars
<1>4. \A k \in Handlers : pc'[k] = "push" => Pushing(k)'
  BY <1>1, <1>2 DEF SerialInv, Pushing, FirstId, Interrupted, requestVars
<1>5. OwedFound'
  BY <1>1 DEF SerialInv, OwedFound, Owed, Unrecorded, FirstId, Interrupted
<1> QED BY <1>3, <1>4, <1>5 DEF SerialInv

(* A pack that arrives is of the open generation or of the marked batch.    *)
LEMMA SerialPackArrives ==
  ASSUME Base, SerialInv, NEW h \in Handlers, NEW id \in Ids, PackArrives(h, id)
  PROVE  SerialInv'
<1>1. /\ id \in wire[h] /\ stored' = stored \cup {id}
      /\ UNCHANGED <<gen, open, batchNo, rstat, marker, job, requestVars, blocked, outcome,
                     late, todo, chunk, acked>>
  BY DEF PackArrives, campaignVars, recipientVars, batchVars
<1>2. wire[h] \subseteq Pushed(h) /\ pc[h] = "push" /\ Pushing(h)
  BY <1>1 DEF SerialInv, PushesOnly, Pushed
<1>3. \A k \in Handlers : Pushed(k)' = Pushed(k) /\ wire'[k] \subseteq wire[k]
  BY <1>1 DEF PackArrives, Pushed, Base, IInv, Shape
<1>4. OneRequest' /\ PushesOnly' /\ QueuedJobless' /\ CancelledBlocked' /\ Waiting'
  BY <1>1, <1>3 DEF SerialInv, OneRequest, PushesOnly, QueuedJobless, Jobless,
     CancelledBlocked, Waiting, Interrupted, requestVars
<1>5. \A k \in Handlers : pc'[k] = "push" => Pushing(k)'
  BY <1>1, <1>3 DEF SerialInv, Pushing, FirstId, Interrupted, requestVars
<1>6. OwedFound'
  <2>1. Owed' \subseteq Owed \cup {id}
    BY <1>1 DEF Owed, Unrecorded
  <2>2. /\ id = FirstId(Contact(id))
        /\ open \/ (rstat[Contact(id)] = "queued" /\ batchNo[Contact(id)] \in Interrupted)
    BY <1>1, <1>2 DEF Pushing
  <2> QED BY <1>1, <2>1, <2>2 DEF SerialInv, OwedFound, FirstId, Interrupted
<1> QED BY <1>4, <1>5, <1>6 DEF SerialInv

(* A page of outcomes changes recorded packs only.                          *)
LEMMA SerialApplyPage ==
  ASSUME Base, SerialInv, ApplyPage
  PROVE  SerialInv'
<1>1. UNCHANGED <<gen, open, batchNo, marker, requestVars, blocked, outcome, stored, late,
                 todo, chunk, acked, wire>>
  BY DEF ApplyPage, campaignVars, batchVars, cloudVars, pushVars
<1>2. /\ \A id \in Ids : job'[id] = "none" <=> job[id] = "none"
      /\ \A c \in Contacts : \/ rstat'[c] = rstat[c]
                             \/ rstat'[c] \in {"sent", "failed"} /\ ~Jobless(c)
  <2>1. PICK S \in SUBSET page :
          /\ job' = [id \in Ids |-> IF id \in {x \in S : job[x] # "none"}
                                   THEN JobAfter(outcome[id]) ELSE job[id]]
          /\ \A c \in Contacts :
               \/ \E id \in S : /\ job[id] # "none" /\ Contact(id) = c
                                /\ rstat'[c] = RecipientAfter(outcome[id])
               \/ rstat'[c] = rstat[c]
    BY DEF ApplyPage
  <2>2. S \subseteq Ids
    BY DEF Base, IInv, Shape
  <2>3. \A id \in Ids : job'[id] = "none" <=> job[id] = "none"
    BY <2>1 DEF JobAfter
  <2>4. \A c \in Contacts : \/ rstat'[c] = rstat[c]
                            \/ rstat'[c] \in {"sent", "failed"} /\ ~Jobless(c)
    BY <2>1, <2>2 DEF RecipientAfter, Jobless
  <2> QED BY <2>3, <2>4
<1>3. \A c \in Contacts : /\ Jobless(c)' <=> Jobless(c)
                          /\ rstat'[c] = "queued" <=> rstat[c] = "queued"
  BY <1>2 DEF Jobless, SerialInv, QueuedJobless
<1>4. OneRequest' /\ PushesOnly' /\ QueuedJobless' /\ CancelledBlocked' /\ Waiting'
  <2>1. OneRequest' /\ PushesOnly'
    BY <1>1 DEF SerialInv, OneRequest, PushesOnly, Pushed, requestVars
  <2>2. QueuedJobless' /\ CancelledBlocked'
    BY <1>1, <1>2, <1>3 DEF SerialInv, QueuedJobless, CancelledBlocked
  <2>3. Waiting'
    <3>1. \A k \in Handlers : wasQueued[k] \subseteq Contacts
      BY DEF Base, RestTyped, RequestsTyped
    <3> HIDE DEF Jobless
    <3> QED BY <1>1, <1>3, <3>1 DEF SerialInv, Waiting, Interrupted, requestVars
  <2> QED BY <2>1, <2>2, <2>3
<1>5. \A k \in Handlers : pc'[k] = "push" => Pushing(k)'
  <2>1. SUFFICES ASSUME NEW k \in Handlers, pc[k] = "push"
                 PROVE  Pushing(k)'
    BY <1>1 DEF requestVars
  <2>2. Pushing(k) /\ Pushed(k)' = Pushed(k) /\ Pushed(k) \subseteq Ids
    BY <1>1, <2>1 DEF SerialInv, Pushed, Base, IInv, Shape
  <2>3. \A c \in Contacts : FirstId(c)' = FirstId(c) /\ FirstId(c) \in Ids
    BY <1>1, FirstIsId DEF FirstId
  <2>4. \A x \in Pushed(k) : Contact(x) \in Contacts /\ FirstId(Contact(x))' = FirstId(Contact(x))
    BY <1>1, <2>2, ContactOf DEF FirstId
  <2>5. Interrupted' = Interrupted
    BY <1>1 DEF Interrupted
  <2> HIDE DEF FirstId, Pushed, Interrupted
  <2> QED BY <1>1, <1>2, <1>3, <2>2, <2>3, <2>4, <2>5 DEF Pushing, requestVars
<1>6. OwedFound'
  <2>1. Owed' \subseteq Owed /\ Owed \subseteq Ids
    BY <1>1, <1>2 DEF Owed, Unrecorded, Base, IInv, Shape
  <2>2. \A id \in Owed : Contact(id) \in Contacts
    BY <2>1, ContactOf
  <2> QED BY <1>1, <1>3, <2>1, <2>2 DEF SerialInv, OwedFound, FirstId, Interrupted
<1> QED BY <1>4, <1>5, <1>6 DEF SerialInv

(* A restart ends the request.                                              *)
LEMMA SerialRestart ==
  ASSUME Base, SerialInv, Restart
  PROVE  SerialInv'
<1>1. /\ UNCHANGED <<gen, open, batchNo, rstat, marker, job, blocked, outcome, stored>>
      /\ late \subseteq late' /\ \A k \in Handlers : pc'[k] = "idle"
  BY DEF Restart, campaignVars, recipientVars, batchVars
<1>2. \A k \in Handlers : wire'[k] \subseteq chunk'[k] /\ Pushed(k)' = {}
  BY DEF Restart, Pushed
<1>3. OneRequest' /\ PushesOnly' /\ QueuedJobless' /\ CancelledBlocked' /\ Waiting'
  BY <1>1, <1>2 DEF SerialInv, OneRequest, PushesOnly, QueuedJobless, Jobless,
     CancelledBlocked, Waiting
<1>4. OwedFound'
  <2>1. Owed' \subseteq Owed
    BY <1>1 DEF Owed, Unrecorded
  <2> QED BY <1>1, <2>1 DEF SerialInv, OwedFound, FirstId, Interrupted
<1> QED BY <1>1, <1>3, <1>4 DEF SerialInv

(* The only request begins to push. *)
LEMMA PushBeginKeeps ==
  ASSUME Base, SerialInv, NEW h \in Handlers, pc[h] \notin {"idle", "push"},
         NEW g, NEW ids, StartPush(h, g, ids), UNCHANGED <<button, chunk, wire, acked>>,
         Pushing(h)', QueuedJobless', CancelledBlocked', OwedFound'
  PROVE  SerialInv'
<1>1. \A k \in Handlers : pc'[k] = IF k = h THEN "push" ELSE "idle"
  BY DEF Base, RestTyped, RequestsTyped, SerialInv, OneRequest, StartPush
<1>2. \A k \in Handlers : /\ wire'[k] \subseteq chunk'[k]
                          /\ k # h => Pushed(k)' = {}
  BY DEF Base, RestTyped, RequestsTyped, IInv, Shape, SerialInv, OneRequest, PushesOnly,
     Pushed, StartPush
<1>3. OneRequest' /\ PushesOnly' /\ Waiting'
  BY <1>1, <1>2 DEF OneRequest, PushesOnly, Waiting
<1> QED BY <1>1, <1>3 DEF SerialInv

(* dispatch_batch: a batch is closed only when nothing of it is owed, and   *)
(* what it pushes is what is queued in it.                                  *)
LEMMA SerialDispatchBatch ==
  ASSUME Base, SerialInv, NEW h \in Handlers, pc[h] \in {"ctx", "key"},
         NEW bno \in Batches \cup {1}, NEW bn \in [Contacts -> Batches \cup {0}], NEW bs,
         DispatchBatch(h, bno, bn, bs), UNCHANGED <<gen, open>>,
         bn = batchNo \/ Interrupted = {}
  PROVE  SerialInv'
<1> DEFINE recips == {c \in Contacts : rstat[c] = "queued" /\ bn[c] = bno}
           sends == PlanSends(gen, recips, recips)
<1>1. /\ UNCHANGED <<job, blocked, stored, outcome, late>> /\ batchNo' = bn
      /\ \A c \in Contacts : IF c \in recips \cap blocked THEN rstat'[c] = "cancelled"
                                                     ELSE rstat'[c] = rstat[c]
  BY DEF DispatchBatch, MarkSuppressed, cloudVars
<1>2. \A c \in recips : c \in Contacts /\ Jobless(c)
  BY DEF SerialInv, QueuedJobless
<1>3. \A c \in recips \ blocked : FirstId(c) \in sends
  <2>1. SUFFICES ASSUME NEW c \in recips \ blocked
                 PROVE  <<gen, c, 0>> \in sends
    BY DEF FirstId
  <2>2. job[<<gen, c, 0>>] = "none"
    BY <1>2, <2>1, FirstIsId DEF FirstId, Jobless
  <2>3. gen \in 0..MaxGen
    BY DEF Base, RestTyped, CampaignTyped
  <2> HIDE DEF recips
  <2> QED BY <1>2, <2>1, <2>2, <2>3, PlanCovers
<1>4. \A id \in sends : id \in Ids /\ Contact(id) \in recips \ blocked
                        /\ id = FirstId(Contact(id))
  <2> HIDE DEF recips
  <2> QED BY <1>2, PlanIsFirst DEF FirstId
<1>5. QueuedJobless'
  BY <1>1 DEF SerialInv, QueuedJobless, Jobless
<1>6. CancelledBlocked'
  BY <1>1 DEF SerialInv, CancelledBlocked
<1>7. OwedFound'
  <2>1. SUFFICES ASSUME NEW id \in Owed, ~open
                 PROVE  /\ id = FirstId(Contact(id))
                        /\ rstat'[Contact(id)] = "queued"
                        /\ bn[Contact(id)] \in Batches /\ marker'[bn[Contact(id)]]
    BY <1>1 DEF SerialInv, OwedFound, Owed, Unrecorded, FirstId, Interrupted
  <2> DEFINE c == Contact(id)
  <2>2. id \in Ids /\ c \in Contacts \ blocked
    BY <2>1, ContactOf DEF Owed, Unrecorded, Base, IInv, Shape
  <2>3. /\ id = FirstId(c) /\ rstat[c] = "queued"
        /\ batchNo[c] \in Batches /\ marker[batchNo[c]] /\ bn = batchNo
    BY <2>1 DEF SerialInv, OwedFound, Interrupted
  <2>4. rstat'[c] = "queued"
    BY <1>1, <2>2, <2>3
  <2>5. marker'[bn[c]]
    <3>1. CASE UNCHANGED marker \/ marker' = MarkStarted(bno)
      BY <2>3, <3>1 DEF MarkStarted, Base, RestTyped, BatchesTyped
    <3>2. CASE sends = {} /\ marker' = [marker EXCEPT ![bno] = FALSE]
      <4>1. bn[c] # bno
        BY <1>3, <2>2, <2>3, <3>2
      <4> QED BY <2>3, <3>2, <4>1 DEF Base, RestTyped, BatchesTyped
    <3> QED BY <3>1, <3>2 DEF DispatchBatch
  <2> QED BY <2>3, <2>4, <2>5
<1>8. CASE Done(h)
  BY <1>5, <1>6, <1>7, <1>8, EndKeeps
<1>9. CASE /\ sends # {} /\ marker' = MarkStarted(bno) /\ StartPush(h, gen, sends)
           /\ batch' = [batch EXCEPT ![h] = bno] /\ UNCHANGED <<button, chunk, wire, acked>>
  <2>1. Pushed(h)' = sends
    BY <1>9 DEF StartPush, Pushed, SerialInv, PushesOnly, Base, IInv, Shape
  <2>2. batch'[h] = bno /\ pushGen'[h] = gen
    BY <1>9 DEF StartPush, Base, RestTyped, RequestsTyped
  <2>3. bno \in Batches /\ bno # 0
    <3>1. PICK c \in Contacts : TRUE
      BY <1>4, <1>9
    <3> QED BY <3>1, FirstBatch DEF Base, Batches
  <2>4. bno \in Interrupted'
    BY <1>9, <2>3 DEF Interrupted, MarkStarted, Base, RestTyped, BatchesTyped
  <2>5. \A id \in sends : rstat'[Contact(id)] = "queued" /\ batchNo'[Contact(id)] = bno
    BY <1>1, <1>4
  <2>6. \A c \in Contacts \ blocked :
          rstat'[c] = "queued" /\ batchNo'[c] = bno => FirstId(c) \in sends
    BY <1>1, <1>3
  <2>7. \A c : FirstId(c)' = FirstId(c)
    BY DEF FirstId
  <2>8. Pushing(h)'
    <3> HIDE DEF sends
    <3> QED BY <1>1, <1>4, <2>1, <2>2, <2>3, <2>4, <2>5, <2>6, <2>7 DEF Pushing
  <2> HIDE DEF sends
  <2> QED BY <1>5, <1>6, <1>7, <1>9, <2>8, PushBeginKeeps
<1> QED BY <1>8, <1>9 DEF DispatchBatch

(* _open_relaunch: a new generation begins when nothing is owed to the old  *)
(* one, and its push is of everyone who is left.                            *)
LEMMA SerialRelaunchOpen ==
  ASSUME Base, SerialInv, NEW h \in Handlers, RelaunchOpen(h)
  PROVE  SerialInv'
<1> DEFINE g == RelaunchGeneration
           sends == PlanSends(g, cands[h], wasQueued[h])
<1>1. /\ pc[h] = "key" /\ button[h] = "relaunch" /\ gen' = g /\ g <= MaxGen
      /\ UNCHANGED <<batchNo, rstat, marker, job, blocked, stored, outcome, late>>
  BY DEF RelaunchOpen, recipientVars, batchVars, cloudVars
<1>2. /\ Interrupted = {} /\ Contacts \ blocked \subseteq cands[h]
      /\ \A c \in wasQueued[h] : Jobless(c)
      /\ batch[h] = 0
  BY <1>1 DEF SerialInv, Waiting
<1>3. g \in 0..MaxGen
  BY <1>1 DEF RelaunchGeneration, Base, RestTyped, CampaignTyped, SendPathAssumption
<1>4. \A c \in Contacts \ blocked : job[<<g, c, 0>>] = "none" => <<g, c, 0>> \in sends
  <2> HIDE DEF g
  <2> QED BY <1>2, <1>3, PlanCovers
<1>5. \A id \in sends : id = <<g, Contact(id), 0>>
  <2> HIDE DEF g
  <2> QED BY <1>2, PlanIsFirst
<1>6. QueuedJobless' /\ CancelledBlocked'
  BY <1>1 DEF SerialInv, QueuedJobless, Jobless, CancelledBlocked
<1>7. \A id \in Owed : open /\ g = gen /\ id \in sends /\ id = <<g, Contact(id), 0>>
  <2>1. SUFFICES ASSUME NEW id \in Owed
                 PROVE  open /\ g = gen /\ id \in sends /\ id = <<g, Contact(id), 0>>
    OBVIOUS
  <2>2. id = FirstId(Contact(id)) /\ open /\ g = gen
    BY <1>2, <2>1 DEF SerialInv, OwedFound, RelaunchGeneration
  <2>3. Contact(id) \in Contacts \ blocked /\ job[id] = "none"
    BY <2>1, ContactOf DEF Owed, Unrecorded, Base, IInv, Shape
  <2> HIDE DEF g, sends
  <2> QED BY <1>4, <2>2, <2>3 DEF FirstId
<1>8. Owed' = Owed
  BY <1>1 DEF Owed, Unrecorded
<1>9. CASE sends = {} /\ Done(h)
  <2>1. OwedFound'
    BY <1>7, <1>8, <1>9 DEF OwedFound
  <2> QED BY <1>1, <1>6, <1>9, <2>1, EndKeeps
<1>10. CASE /\ open' = TRUE /\ StartPush(h, g, sends)
            /\ UNCHANGED <<button, batch, chunk, wire, acked>>
  <2>1. Pushed(h)' = sends /\ pushGen'[h] = g /\ batch'[h] = 0 /\ Interrupted' = {}
    BY <1>1, <1>2, <1>10 DEF StartPush, Pushed, SerialInv, PushesOnly, Base, IInv, Shape,
       RestTyped, RequestsTyped, Interrupted
  <2>2. \A c : FirstId(c)' = <<g, c, 0>>
    BY <1>1 DEF FirstId
  <2> HIDE DEF g, sends
  <2>3. Pushing(h)'
    BY <1>1, <1>4, <1>5, <1>10, <2>1, <2>2 DEF Pushing
  <2>4. OwedFound'
    BY <1>7, <1>8, <1>10, <2>2 DEF OwedFound
  <2> QED BY <1>1, <1>6, <1>10, <2>3, <2>4, PushBeginKeeps
<1> QED BY <1>9, <1>10 DEF RelaunchOpen

(* A request begins.                                                        *)
LEMMA BeginKeeps ==
  ASSUME Base, SerialInv, NEW h \in Handlers, pc[h] = "idle",
         NEW step \in {"ctx", "key"}, NEW b, NEW bno, NEW cs \in SUBSET Contacts,
         NEW q \in SUBSET Contacts, Await(h, step, b, bno, cs, q), OneRequest',
         UNCHANGED <<gen, open, batchNo, rstat, marker, job, blocked, stored, outcome, late>>,
         step = "ctx" => bno \in Batches,
         step = "key" => /\ Interrupted = {} /\ bno = 0
                         /\ b = "relaunch" => Contacts \ blocked \subseteq cs
                         /\ \A c \in q : Jobless(c)
  PROVE  SerialInv'
<1>1. \A k \in Handlers :
        /\ k # h => /\ pc'[k] = pc[k] /\ button'[k] = button[k] /\ batch'[k] = batch[k]
                    /\ cands'[k] = cands[k] /\ wasQueued'[k] = wasQueued[k]
        /\ k = h => /\ pc'[k] = step /\ button'[k] = b /\ batch'[k] = bno
                    /\ cands'[k] = cs /\ wasQueued'[k] = q
  BY DEF Await, Base, RestTyped, RequestsTyped
<1>2. UNCHANGED <<pushGen, todo, chunk, wire, acked>>
  BY DEF Await, pushVars
<1>3. PushesOnly'
  BY <1>1, <1>2 DEF SerialInv, PushesOnly, Pushed
<1>4. QueuedJobless' /\ CancelledBlocked'
  BY DEF SerialInv, QueuedJobless, Jobless, CancelledBlocked
<1>5. Waiting'
  <2>1. Interrupted' = Interrupted /\ \A c : Jobless(c)' = Jobless(c)
    BY DEF Interrupted, Jobless
  <2> HIDE DEF Interrupted, Jobless
  <2>2. SUFFICES ASSUME NEW k \in Handlers
                 PROVE  /\ pc'[k] = "key" =>
                             /\ Interrupted = {} /\ batch'[k] = 0
                             /\ button'[k] = "relaunch" => Contacts \ blocked \subseteq cands'[k]
                             /\ \A c \in wasQueued'[k] : Jobless(c)
                        /\ pc'[k] = "ctx" => batch'[k] \in Batches
    BY <2>1 DEF Waiting
  <2>3. CASE k = h
    BY <1>1, <2>3
  <2>4. CASE k # h
    BY <1>1, <2>4 DEF SerialInv, Waiting
  <2> QED BY <2>3, <2>4
<1>6. \A k \in Handlers : pc'[k] = "push" => Pushing(k)'
  BY <1>1, <1>2 DEF SerialInv, Pushing, Pushed, FirstId, Interrupted
<1>7. OwedFound'
  BY DEF SerialInv, OwedFound, Owed, Unrecorded, FirstId, Interrupted
<1> QED BY <1>3, <1>4, <1>5, <1>6, <1>7 DEF SerialInv

(* Launch, Approve and Re-launch up to their first await.                   *)
LEMMA SerialBegin ==
  ASSUME Base, SerialInv, NEW h \in Handlers, SerialStep, OneRequest',
         LaunchStart(h) \/ (\E b \in Batches : ApproveStart(h, b)) \/ RelaunchStart(h)
  PROVE  SerialInv'
<1>1. /\ UNCHANGED <<gen, open, batchNo, rstat, marker, job, blocked, stored, outcome, late>>
      /\ pc[h] = "idle"
  BY DEF LaunchStart, ApproveStart, RelaunchStart, Press, campaignVars, recipientVars,
     batchVars, cloudVars
<1>2. CASE LaunchStart(h)
  <2>1. PICK cs \in SUBSET Contacts : Await(h, "key", "launch", 0, cs, {})
    BY <1>2 DEF LaunchStart, Deliverable
  <2>2. pc'[h] = "key"
    BY <2>1 DEF Await, Base, RestTyped, RequestsTyped
  <2>3. Interrupted = {}
    BY <1>1, <2>2 DEF SerialStep
  <2> QED BY <1>1, <2>1, <2>3, BeginKeeps
<1>3. CASE \E b \in Batches : ApproveStart(h, b)
  <2>1. PICK b \in Batches : Await(h, "ctx", "approve", b, {}, {})
    BY <1>3 DEF ApproveStart
  <2> QED BY <1>1, <2>1, BeginKeeps
<1>4. CASE RelaunchStart(h)
  <2> DEFINE everyone == {c \in Contacts : rstat[c] # "cancelled"}
             queued == {c \in everyone : rstat[c] = "queued"}
  <2>1. CASE \E b \in Interrupted : Await(h, "ctx", "finish", b, {}, {})
    <3>1. PICK b \in Batches : Await(h, "ctx", "finish", b, {}, {})
      BY <2>1 DEF Interrupted
    <3> QED BY <1>1, <3>1, BeginKeeps
  <2>2. CASE Interrupted = {} /\ Await(h, "key", "relaunch", 0, everyone, queued)
    <3>1. Contacts \ blocked \subseteq everyone
      BY DEF SerialInv, CancelledBlocked
    <3>2. \A c \in queued : Jobless(c)
      BY DEF SerialInv, QueuedJobless
    <3>3. everyone \in SUBSET Contacts /\ queued \in SUBSET Contacts
      OBVIOUS
    <3> HIDE DEF everyone, queued
    <3> QED BY <1>1, <2>2, <3>1, <3>2, <3>3, BeginKeeps
  <2> QED BY <1>4, <2>1, <2>2 DEF RelaunchStart
<1> QED BY <1>2, <1>3, <1>4

(* Every piece of a request.                                                *)
LEMMA SerialRequest ==
  ASSUME Base, SerialInv, NEW h \in Handlers, Request(h), SerialStep
  PROVE  SerialInv'
<1>1. OneRequest'
  BY DEF SerialStep, OneRequest
<1>2. pc[h] \notin {"cancel", "cancelled"} /\ pc'[h] \notin {"cancel", "cancelled"}
  BY DEF SerialStep, SerialInv, OneRequest
<1>3. CASE LaunchBatches(h)
  <2> DEFINE bn == [c \in Contacts |->
                      IF c \in cands[h] THEN BatchFor(c, cands[h]) ELSE batchNo[c]]
  <2>1. bn \in [Contacts -> Batches \cup {0}]
    BY BatchForInRange DEF Base, RestTyped, RequestsTyped, RecipientsTyped
  <2>2. /\ \E bs : DispatchBatch(h, 1, bn, bs)
        /\ pc[h] = "key" /\ UNCHANGED <<gen, open>>
    BY <1>3 DEF LaunchBatches
  <2>3. Interrupted = {}
    BY <2>2 DEF SerialInv, Waiting
  <2> HIDE DEF bn
  <2>4. PICK bs : DispatchBatch(h, 1, bn, bs)
    BY <2>2
  <2> QED BY <2>1, <2>2, <2>3, <2>4, SerialDispatchBatch
<1>4. CASE DispatchReady(h)
  <2>1. DispatchBatch(h, batch[h], batchNo, bstat) /\ pc[h] = "ctx" /\ UNCHANGED <<gen, open>>
    BY <1>4 DEF DispatchReady, campaignVars
  <2>2. batch[h] \in Batches /\ batchNo \in [Contacts -> Batches \cup {0}]
    BY <2>1 DEF SerialInv, Waiting, Base, RestTyped, RecipientsTyped
  <2> QED BY <2>1, <2>2, SerialDispatchBatch
<1>5. CASE LaunchStart(h) \/ (\E b \in Batches : ApproveStart(h, b)) \/ RelaunchStart(h)
  BY <1>1, <1>5, SerialBegin
<1>6. CASE Refused(h)
  <2>1. /\ pc[h] # "idle" /\ Done(h)
        /\ UNCHANGED <<gen, open, batchNo, rstat, marker, job, blocked, outcome, stored, late>>
    BY <1>6 DEF Refused, campaignVars, recipientVars, batchVars, cloudVars
  <2> QED BY <2>1, EndQuietKeeps
<1>7. CASE CancelStart(h)
  <2>1. /\ UNCHANGED <<requestVars, pushVars>>
        /\ UNCHANGED <<gen, open, batchNo, rstat, marker, job, blocked, outcome, stored, late>>
    BY <1>2, <1>7 DEF CancelStart, Await, Base, RestTyped, RequestsTyped, recipientVars,
       batchVars, cloudVars
  <2> QED BY <2>1, QuietKeeps DEF Owed, Unrecorded, pushVars
<1>8. CASE CancelAtCloud(h) \/ CancelFinish(h)
  BY <1>2, <1>8 DEF CancelAtCloud, CancelFinish
<1> QED
  BY <1>3, <1>4, <1>5, <1>6, <1>7, <1>8, SerialRelaunchOpen, SerialPushChunk, SerialRecord,
     SerialPushFails, SerialPackArrives DEF Request

(* Every step of requests that follow one another keeps the promise.        *)
LEMMA SerialKeeps ==
  ASSUME Base, SerialInv, [Next /\ SerialStep /\ UNCHANGED retries]_vars
  PROVE  SerialInv'
<1>1. CASE SerialStep /\ \E h \in Handlers : Request(h)
  BY <1>1, SerialRequest
<1>2. CASE \E id \in Ids : LatePackArrives(id) \/ Resolve(id)
  <2>1. /\ UNCHANGED <<gen, open, batchNo, rstat, marker, job, blocked, late>>
        /\ UNCHANGED <<requestVars, pushVars>>
    BY <1>2 DEF LatePackArrives, Resolve, campaignVars, recipientVars, batchVars
  <2>2. Owed' \subseteq Owed
    BY <1>2 DEF LatePackArrives, Resolve, Owed, Unrecorded, Base, IInv, Shape
  <2> QED BY <2>1, <2>2, QuietKeeps DEF pushVars
<1>3. CASE \/ (\E c \in Contacts : Suppress(c)) \/ (\E b \in Batches : DrainBatch(b))
           \/ ChangeStatus \/ PollOutcomes \/ UNCHANGED vars
  <2>1. /\ UNCHANGED <<gen, open, batchNo, rstat, marker, job, stored, outcome, late>>
        /\ UNCHANGED <<requestVars, pushVars>> /\ blocked \subseteq blocked'
    BY <1>3 DEF Suppress, DrainBatch, ChangeStatus, PollOutcomes, vars, campaignVars,
       recipientVars, batchVars, cloudVars
  <2>2. Owed' \subseteq Owed
    BY <2>1 DEF Owed, Unrecorded
  <2> QED BY <2>1, <2>2, QuietKeeps DEF pushVars
<1>4. CASE RetryFailed /\ UNCHANGED retries
  BY <1>4 DEF RetryFailed, Base, RestTyped, CountersTyped
<1> QED BY <1>1, <1>2, <1>3, <1>4, SerialApplyPage, SerialRestart DEF Next

(* In the beginning nothing is owed.                                        *)
LEMMA SerialInitial ==
  ASSUME SendPathAssumption, Init
  PROVE  SerialInv
<1>1. /\ \A h \in Handlers : /\ pc[h] = "idle" /\ todo[h] = {} /\ chunk[h] = {}
                             /\ acked[h] = {} /\ wire[h] = {}
      /\ job = [id \in Ids |-> "none"] /\ stored = {}
      /\ \A c \in Contacts : rstat[c] = "queued"
  BY DEF Init, Start
<1> QED
  BY <1>1 DEF SerialInv, OneRequest, PushesOnly, Pushed, QueuedJobless, Jobless,
     CancelledBlocked, Waiting, OwedFound, Owed, Unrecorded

(* What SerialInv says of packs without a job is what is promised.          *)
LEMMA SerialFinds ==
  ASSUME SerialInv
  PROVE  InterruptedSendFound
BY DEF SerialInv, OwedFound, Owed, InterruptedSendFound

(* Requests that follow one another, with any suppressions, outcomes,       *)
(* faults and restarts between and within them, never lose an interrupted   *)
(* send: dispatch_started_at and relaunch_open point at it until it is      *)
(* recorded.                                                                *)
THEOREM InterruptedSendsAreFound == SerialSpec => []InterruptedSendFound
<1> DEFINE SerialNext == Next /\ SerialStep /\ UNCHANGED retries
<1>1. Init => IInv /\ RestTyped /\ SerialInv
  <2>1. [c \in Contacts |-> "queued"] \in [Contacts -> RecipientStatus]
    BY DEF RecipientStatus
  <2> QED BY <2>1, SendPathAssumption, InitEstablishes, InitTyped, SerialInitial DEF Init
<1>2. IInv /\ RestTyped /\ SerialInv /\ [SerialNext]_vars => (IInv /\ RestTyped /\ SerialInv)'
  <2>1. SUFFICES ASSUME IInv, RestTyped, SerialInv, [SerialNext]_vars
                 PROVE  (IInv /\ RestTyped /\ SerialInv)'
    OBVIOUS
  <2>2. [Next]_vars
    BY <2>1
  <2>3. Base
    BY <2>1, SendPathAssumption DEF Base
  <2> QED BY <2>1, <2>2, <2>3, SendPathAssumption, StepPreserves, StepTyped, SerialKeeps
<1>3. SerialInv => InterruptedSendFound
  BY SerialFinds
<1> QED BY <1>1, <1>2, <1>3, PTL DEF SerialSpec

-----------------------------------------------------------------------------
(* The same of the behaviours that TLC looks at, whatever the bounds.       *)

(* Only Retry failed counts a retry. *)
LEMMA RetriesGrow ==
  ASSUME RestTyped, [Next]_vars
  PROVE  retries' \in Nat \ {0} \/ UNCHANGED retries
<1>1. CASE RetryFailed
  BY <1>1 DEF RetryFailed, RestTyped, CountersTyped
<1>2. CASE \E h \in Handlers : Request(h)
  <2>1. PICK h \in Handlers : Request(h)
    BY <1>2
  <2> QED
    BY <2>1 DEF Request, LaunchStart, LaunchBatches, ApproveStart, RelaunchStart, RelaunchOpen,
       DispatchReady, Refused, PushChunk, Record, PushFails, PackArrives, CancelStart,
       CancelAtCloud, CancelFinish, Press, Fault, NoFault, counters
<1>3. CASE Next /\ ~RetryFailed /\ ~\E h \in Handlers : Request(h)
  BY <1>3 DEF Next, LatePackArrives, Resolve, Suppress, DrainBatch, ChangeStatus, PollOutcomes,
     ApplyPage, Restart, Fault, NoFault, counters
<1> QED BY <1>1, <1>2, <1>3 DEF vars, counters

(* In those behaviours an interrupted send is found in every state of the   *)
(* serial scope before a retry.                                             *)
THEOREM SerialPressesFindSends == PressesSpec => []InterruptedSendFoundAlone
<1> DEFINE Inv == IInv /\ RestTyped /\ (scope = "serial" /\ retries = 0 => SerialInv)
<1>1. PressesInit => Inv
  <2>1. SUFFICES ASSUME PressesInit PROVE Inv
    OBVIOUS
  <2> DEFINE recipients == [c \in Contacts |->
                              IF scope = "cancel" /\ c # 1 THEN "cancelled" ELSE "queued"]
  <2>2. recipients \in [Contacts -> RecipientStatus] /\ Start(recipients)
    BY <2>1 DEF PressesInit, RecipientStatus
  <2>3. scope = "serial" => Init
    BY <2>2 DEF Init
  <2> HIDE DEF recipients
  <2> QED BY <2>2, <2>3, SendPathAssumption, InitEstablishes, InitTyped, SerialInitial
<1>2. Inv /\ [PressesNext]_<<vars, scope>> => Inv'
  <2>1. SUFFICES ASSUME Inv, [PressesNext]_<<vars, scope>> PROVE Inv'
    OBVIOUS
  <2>2. [Next]_vars /\ scope' = scope /\ Base
    BY <2>1, SendPathAssumption DEF PressesNext, Base
  <2>3. IInv' /\ RestTyped'
    BY <2>1, <2>2, SendPathAssumption, StepPreserves, StepTyped
  <2>4. ASSUME scope = "serial", retries' = 0
        PROVE  SerialInv'
    <3>1. UNCHANGED retries
      BY <2>1, <2>2, <2>4, RetriesGrow
    <3>2. [Next /\ SerialStep /\ UNCHANGED retries]_vars
      BY <2>1, <2>4, <3>1 DEF PressesNext, Within
    <3> QED BY <2>1, <2>2, <2>4, <3>1, <3>2, SerialKeeps
  <2> QED BY <2>2, <2>3, <2>4
<1>3. Inv => InterruptedSendFoundAlone
  BY SerialFinds DEF InterruptedSendFoundAlone
<1> QED BY <1>1, <1>2, <1>3, PTL DEF PressesSpec
=============================================================================
