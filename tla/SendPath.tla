----------------------------- MODULE SendPath ------------------------------
(***************************************************************************)
(* How a terminal sends one campaign: terminal/launch.py compiles packs,   *)
(* pushes them in chunks and records them; routes_admin.py approves,       *)
(* retries, cancels and archives; the outcomes loop of sync_client.py      *)
(* reads back what the cloud made of each pack.                            *)
(*                                                                         *)
(* The terminal is one asyncio process, so a press of a button runs from   *)
(* one await to the next without the others: each action is the code       *)
(* between two awaits.  (Pause, Resume, Retry failed and Mark tested run in *)
(* threads, but each is one transaction that commutes with such a piece.)  *)
(* A push is in flight until it lands at the cloud, possibly after the     *)
(* terminal gave up on it.  The cloud is OneShotSend,                      *)
(* whose offer, answer and outcome are one step here, as the terminal      *)
(* cannot tell them apart.                                                 *)
(***************************************************************************)
EXTENDS Naturals, FiniteSets

CONSTANTS
  Contacts,     \* the campaign's contacts, by number
  Handlers,     \* requests that may be in progress at a time
  Buttons,      \* what operators press: see AllButtons, and "retry", "status"
  Blockable,    \* bound: contacts that may come onto the suppression list
  NumBatches,   \* bound: batches of the campaign
  BatchSize,    \* send_batch_size
  ChunkSize,    \* PACK_PUSH_CHUNK
  MaxGen,       \* bound: re-launch generations
  MaxOrdinal,   \* bound: repeated sends to a contact in one generation
  MaxPresses,   \* bound: presses
  MaxRetries,   \* bound: presses of Retry failed
  MaxFaults     \* bound: pushes given up, database errors, restarts

ASSUME SendPathAssumption ==
  /\ Contacts \subseteq Nat /\ IsFiniteSet(Contacts) /\ Blockable \subseteq Contacts
  /\ NumBatches \in Nat /\ BatchSize \in Nat \ {0} /\ ChunkSize \in Nat \ {0}
  /\ Cardinality(Contacts) <= NumBatches * BatchSize   \* so the bounds on batches
  /\ MaxGen \in Nat /\ MaxOrdinal \in Nat /\ MaxPresses \in Nat
  /\ MaxRetries \in Nat /\ MaxFaults \in Nat
  /\ MaxRetries <= MaxOrdinal                          \* and ordinals are never met

Batches == 1..NumBatches

(* _pack_id: a pack is named by generation, contact and ordinal alone.      *)
Ids == (0..MaxGen) \X Contacts \X (0..MaxOrdinal)
Contact(id) == id[2]

VARIABLES
  cstat, gen, open,             \* campaign: status, relaunch_gen, relaunch_open
  batchNo, rstat,               \* campaign_recipients: batch_no (0: none), status
  bstat, marker,                \* campaign_batches: status, dispatch_started_at
  job,                          \* dispatched_job: status by pack id
  blocked,                      \* contacts on the suppression list
  stored, outcome, mail,        \* cloud: packs, outcomes, mails
  late,                         \* packs of pushes that the terminal gave up on
  pc, button, batch, pushGen, cands, wasQueued,  \* of each request
  todo, chunk, wire, acked, held,                \* of its push
  page, passed,                 \* outcomes loop: packs read, packs before the cursor
  presses, retries, faults      \* bounded counters

campaignVars == <<cstat, gen, open>>
recipientVars == <<batchNo, rstat>>
batchVars == <<bstat, marker>>
cloudVars == <<stored, outcome, mail, late>>
requestVars == <<pc, button, batch, pushGen, cands, wasQueued>>
pushVars == <<todo, chunk, wire, acked, held>>
pollVars == <<page, passed>>
counters == <<presses, retries, faults>>
vars == <<campaignVars, recipientVars, batchVars, job, blocked, cloudVars,
          requestVars, pushVars, pollVars, counters>>

Cloud == INSTANCE OneShotSend WITH Packs <- Ids

CampaignStatus == {"tested", "dispatched", "paused", "cancelled", "archived"}
RecipientStatus == {"queued", "sent", "failed", "cancelled"}
JobStatus == {"none", "dispatched", "completed", "failed"}
BatchStatus == {"none", "pending", "sending", "drained", "done", "cancelled"}
Outcomes == {"sent", "failed", "cancelled", "unknown"}
AllButtons == {"launch", "approve", "relaunch", "finish", "cancel", "archive"}

(* Every table, request and cloud item has the shape the code gives it.     *)
TypeOK ==
  /\ cstat \in CampaignStatus /\ gen \in 0..MaxGen /\ open \in BOOLEAN
  /\ batchNo \in [Contacts -> Batches \cup {0}]
  /\ rstat \in [Contacts -> RecipientStatus]
  /\ bstat \in [Batches -> BatchStatus] /\ marker \in [Batches -> BOOLEAN]
  /\ job \in [Ids -> JobStatus]
  /\ blocked \subseteq Contacts /\ stored \subseteq Ids /\ late \subseteq Ids
  /\ outcome \in [Ids -> Outcomes \cup {"open"}] /\ mail \in [Ids -> {"none", "accepted"}]
  /\ pc \in [Handlers -> {"idle", "ctx", "key", "push", "cancel", "cancelled"}]
  /\ button \in [Handlers -> AllButtons] /\ batch \in [Handlers -> Batches \cup {0}]
  /\ pushGen \in [Handlers -> 0..MaxGen]
  /\ cands \in [Handlers -> SUBSET Contacts] /\ wasQueued \in [Handlers -> SUBSET Contacts]
  /\ todo \in [Handlers -> SUBSET Ids] /\ chunk \in [Handlers -> SUBSET Ids]
  /\ wire \in [Handlers -> SUBSET Ids] /\ acked \in [Handlers -> SUBSET Ids]
  /\ held \in [Handlers -> SUBSET Ids] /\ page \subseteq Ids /\ passed \subseteq Ids
  /\ presses \in 0..MaxPresses /\ retries \in 0..MaxRetries /\ faults \in 0..MaxFaults

Start(recipients) ==
  /\ cstat = "tested" /\ gen = 0 /\ open = FALSE
  /\ batchNo = [c \in Contacts |-> 0] /\ rstat = recipients
  /\ bstat = [b \in Batches |-> "none"] /\ marker = [b \in Batches |-> FALSE]
  /\ job = [id \in Ids |-> "none"] /\ blocked = {} /\ stored = {} /\ late = {}
  /\ outcome = [id \in Ids |-> "open"] /\ mail = [id \in Ids |-> "none"]
  /\ pc = [h \in Handlers |-> "idle"] /\ button = [h \in Handlers |-> "launch"]
  /\ batch = [h \in Handlers |-> 0] /\ pushGen = [h \in Handlers |-> 0]
  /\ cands = [h \in Handlers |-> {}] /\ wasQueued = [h \in Handlers |-> {}]
  /\ todo = [h \in Handlers |-> {}] /\ chunk = [h \in Handlers |-> {}]
  /\ wire = [h \in Handlers |-> {}] /\ acked = [h \in Handlers |-> {}]
  /\ held = [h \in Handlers |-> {}] /\ page = {} /\ passed = {}
  /\ presses = 0 /\ retries = 0 /\ faults = 0

Init == Start([c \in Contacts |-> "queued"])

Fault == faults < MaxFaults /\ faults' = faults + 1 /\ UNCHANGED <<presses, retries>>
NoFault == UNCHANGED counters

(* A request begins, and ends with nothing of it left in memory.            *)
Press(h, b) ==
  /\ pc[h] = "idle" /\ b \in Buttons
  /\ presses < MaxPresses /\ presses' = presses + 1 /\ UNCHANGED <<retries, faults>>

Await(h, step, b, bno, cs, q) ==
  /\ pc' = [pc EXCEPT ![h] = step] /\ button' = [button EXCEPT ![h] = b]
  /\ batch' = [batch EXCEPT ![h] = bno]
  /\ cands' = [cands EXCEPT ![h] = cs] /\ wasQueued' = [wasQueued EXCEPT ![h] = q]
  /\ UNCHANGED <<pushGen, pushVars>>

Done(h) ==
  /\ pc' = [pc EXCEPT ![h] = "idle"] /\ button' = [button EXCEPT ![h] = "launch"]
  /\ batch' = [batch EXCEPT ![h] = 0] /\ pushGen' = [pushGen EXCEPT ![h] = 0]
  /\ cands' = [cands EXCEPT ![h] = {}] /\ wasQueued' = [wasQueued EXCEPT ![h] = {}]
  /\ todo' = [todo EXCEPT ![h] = {}] /\ chunk' = [chunk EXCEPT ![h] = {}]
  /\ wire' = [wire EXCEPT ![h] = {}] /\ acked' = [acked EXCEPT ![h] = {}]
  /\ held' = [held EXCEPT ![h] = {}]

-----------------------------------------------------------------------------
(* Choosing what to send.                                                   *)

AnyJob == {"dispatched", "completed", "failed"}  \* mutant: a recorded send may be repeated

(* _RETRYABLE_JOB; no code sets a job to "cancelled".                       *)
RetryableJob == {"failed"}

(* Who is left of them by the suppression list.                             *)
Deliverable(cs) == cs \ blocked

(* _plan_sends: a contact's id in a generation is the first that has no     *)
(* job; after an earlier job, only for a queued contact whose last one      *)
(* failed.                                                                  *)
PlanSends(g, cs, queued) ==
  {id \in Ids :
     LET c == id[2]  a == id[3] IN
     /\ id[1] = g /\ c \in Deliverable(cs)
     /\ job[id] = "none" /\ \A b \in 0..MaxOrdinal : b < a => job[<<g, c, b>>] # "none"
     /\ a > 0 => c \in queued /\ job[<<g, c, a - 1>>] \in RetryableJob}

StartPush(h, g, ids) ==
  /\ pc' = [pc EXCEPT ![h] = "push"] /\ todo' = [todo EXCEPT ![h] = ids]
  /\ pushGen' = [pushGen EXCEPT ![h] = g]
  /\ cands' = [cands EXCEPT ![h] = {}] /\ wasQueued' = [wasQueued EXCEPT ![h] = {}]

(* approve_batch and _finish_interrupted_batch close the batch before.      *)
ClosePrevious(h, bno, bs) ==
  IF button[h] \in {"approve", "finish"} /\ bno > 1
  THEN [bs EXCEPT ![bno - 1] = "done"] ELSE bs

MarkLater(bno) == marker  \* mutant: the push starts before the batch is marked

(* dispatch_started_at is set before the push. *)
MarkStarted(bno) == [marker EXCEPT ![bno] = TRUE]

(* Queued recipients on the suppression list are closed at dispatch.        *)
MarkSuppressed(recips) ==
  rstat' = [c \in Contacts |-> IF c \in recips \cap blocked THEN "cancelled" ELSE rstat[c]]

(* A batch with nothing left to push: if some of it was handed over it      *)
(* drains and cools down like any other.                                    *)
CloseEmptyBatch(bno, bs, handedOver) ==
  [bs EXCEPT ![bno] = IF handedOver THEN "sending" ELSE "drained"]

(* dispatch_batch from reading the queued recipients to the first push.     *)
DispatchBatch(h, bno, bn, bs) ==
  LET recips == {c \in Contacts : rstat[c] = "queued" /\ bn[c] = bno}
      sends  == PlanSends(gen, recips, recips)
      handedOver == marker[bno] \/ Deliverable(recips) # {}
  IN
  /\ batchNo' = bn
  /\ MarkSuppressed(recips)
  /\ \/ /\ recips = {} /\ ~marker[bno]
        /\ bstat' = bs /\ Done(h) /\ UNCHANGED marker
     \/ /\ recips # {} \/ marker[bno]
        /\ sends = {}
        /\ bstat' = ClosePrevious(h, bno, CloseEmptyBatch(bno, bs, handedOver))
        /\ marker' = [marker EXCEPT ![bno] = FALSE] /\ Done(h)
     \/ /\ sends # {}
        /\ bstat' = bs /\ marker' = MarkStarted(bno)
        /\ StartPush(h, gen, sends)
        /\ batch' = [batch EXCEPT ![h] = bno]
        /\ UNCHANGED <<button, chunk, wire, acked, held>>
  /\ UNCHANGED <<job, blocked, cloudVars, pollVars>>

-----------------------------------------------------------------------------
(* Launch, Approve, Re-launch.                                              *)

(* launch_campaign up to the await of _ensure_k_temp.                       *)
LaunchStart(h) ==
  LET deliver == Deliverable({c \in Contacts : rstat[c] = "queued"}) IN
  /\ Press(h, "launch") /\ cstat = "tested" /\ deliver # {}
  /\ Await(h, "key", "launch", 0, deliver, {})
  /\ UNCHANGED <<campaignVars, recipientVars, batchVars, job, blocked, cloudVars, pollVars>>

(* Batches are filled one after the other, in the order of the contacts. *)
BatchFor(c, cs) == Cardinality({d \in cs : d < c}) \div BatchSize + 1

(* Then it writes the batches and the status, and dispatches batch 1.       *)
LaunchBatches(h) ==
  /\ pc[h] = "key" /\ button[h] = "launch"
  /\ DispatchBatch(h, 1,
       [c \in Contacts |-> IF c \in cands[h] THEN BatchFor(c, cands[h]) ELSE batchNo[c]],
       [b \in Batches |-> IF bstat[b] = "none" /\ \E c \in cands[h] : BatchFor(c, cands[h]) = b
                          THEN "pending" ELSE bstat[b]])
  /\ cstat' = "dispatched"
  /\ NoFault /\ UNCHANGED <<gen, open>>

(* approve_batch: the batch before must be drained and cooled down.         *)
ApproveStart(h, b) ==
  /\ Press(h, "approve") /\ bstat[b] = "pending" /\ cstat # "archived"
  /\ b > 1 => bstat[b - 1] \in {"drained", "done"}
  /\ Await(h, "ctx", "approve", b, {}, {})
  /\ UNCHANGED <<campaignVars, recipientVars, batchVars, job, blocked, cloudVars, pollVars>>

Interrupted == {b \in Batches : marker[b]}

(* A Re-launch finishes an interrupted batch first, or else reads everyone. *)
RelaunchStart(h) ==
  LET everyone == {c \in Contacts : rstat[c] # "cancelled"} IN
  /\ Press(h, "relaunch") /\ cstat # "archived"
  /\ \/ \E b \in Interrupted :
          /\ \A other \in Interrupted : b <= other
          /\ Await(h, "ctx", "finish", b, {}, {})
     \/ /\ Interrupted = {} /\ (everyone # {} \/ open)
        /\ Await(h, "key", "relaunch", 0, everyone,
                 {c \in everyone : rstat[c] = "queued"})
  /\ UNCHANGED <<campaignVars, recipientVars, batchVars, job, blocked, cloudVars, pollVars>>

(* dispatch_batch after the await of _load_send_ctx. *)
DispatchReady(h) ==
  /\ pc[h] = "ctx"
  /\ DispatchBatch(h, batch[h], batchNo, bstat)
  /\ NoFault /\ UNCHANGED campaignVars

(* _open_relaunch: a generation that is open is finished, not repeated.     *)
RelaunchGeneration == IF open THEN gen ELSE gen + 1

RelaunchOpen(h) ==
  LET g == RelaunchGeneration
      sends == PlanSends(g, cands[h], wasQueued[h]) IN
  /\ pc[h] = "key" /\ button[h] = "relaunch" /\ g <= MaxGen
  /\ gen' = g
  /\ \/ sends = {} /\ open' = FALSE /\ Done(h)
     \/ /\ sends # {} /\ open' = TRUE
        /\ StartPush(h, g, sends)
        /\ UNCHANGED <<button, batch, chunk, wire, acked, held>>
  /\ NoFault
  /\ UNCHANGED <<cstat, recipientVars, batchVars, job, blocked, cloudVars, pollVars>>

(* The key or the settings are not there: a refusal before any write.       *)
Refused(h) ==
  /\ pc[h] \in {"key", "ctx"}
  /\ Done(h) /\ Fault
  /\ UNCHANGED <<campaignVars, recipientVars, batchVars, job, blocked, cloudVars, pollVars>>

-----------------------------------------------------------------------------
(* _push_and_record.                                                        *)

NextChunk(ids) ==
  {id \in ids : Cardinality({x \in ids : Contact(x) < Contact(id)}) < ChunkSize}

PushChunk(h) ==
  /\ pc[h] = "push" /\ wire[h] = {} /\ todo[h] # {}
  /\ todo' = [todo EXCEPT ![h] = @ \ NextChunk(@)]
  /\ chunk' = [chunk EXCEPT ![h] = NextChunk(todo[h])]
  /\ wire' = [wire EXCEPT ![h] = NextChunk(todo[h])]
  /\ acked' = [acked EXCEPT ![h] = @ \cup chunk[h]]
  /\ NoFault
  /\ UNCHANGED <<campaignVars, recipientVars, batchVars, job, blocked, cloudVars,
                 requestVars, held, pollVars>>

(* packs_push for one pack: a known id is not stored again but "held", with *)
(* its status, which a stale read may still call unresolved.                *)
PackArrives(h, id) ==
  /\ id \in wire[h]
  /\ wire' = [wire EXCEPT ![h] = @ \ {id}]
  /\ stored' = stored \cup {id}
  /\ \/ /\ id \in stored /\ outcome[id] # "open"
        /\ held' = [held EXCEPT ![h] = @ \cup {id}]
     \/ UNCHANGED held
  /\ NoFault
  /\ UNCHANGED <<campaignVars, recipientVars, batchVars, job, blocked, outcome, mail,
                 late, requestVars, todo, chunk, acked, pollVars>>

UnknownIsFailed(s) ==  \* mutant: an unknown outcome counts as a failure
  CASE s = "sent" -> "completed" [] OTHER -> "failed"

UnknownIsSent(s) ==    \* mutant: an unknown outcome counts as delivered
  CASE s \in {"sent", "unknown"} -> "completed" [] OTHER -> "failed"

OutcomeAsIs(s) == s    \* mutant: the cloud's word for it

(* _apply_pack_outcome: an unknown outcome leaves the job as it was.        *)
JobAfter(s) ==
  CASE s = "sent" -> "completed" [] s \in {"failed", "cancelled"} -> "failed"
    [] OTHER -> "dispatched"

RecipientAfter(s) == IF JobAfter(s) = "failed" THEN "failed" ELSE "sent"

(* _record_dispatch and _apply_held_outcomes.  A job that exists is an      *)
(* IntegrityError: nothing is recorded.                                     *)
Recordable(ids) == \A id \in ids : job[id] = "none"

RecordDispatch(ids, known) ==
  /\ job' = [id \in Ids |->
       IF id \notin ids THEN job[id]
       ELSE IF id \in known THEN JobAfter(outcome[id]) ELSE "dispatched"]
  /\ rstat' = [c \in Contacts |->
       IF \A id \in ids : Contact(id) # c THEN rstat[c]
       ELSE IF \E id \in ids \cap known : Contact(id) = c /\ JobAfter(outcome[id]) = "failed"
            THEN "failed" ELSE "sent"]
  /\ UNCHANGED <<batchNo, blocked>>

(* The last chunk is acknowledged: record, then close the batch or the      *)
(* generation.  An error at any of these leaves the marker set.             *)
Record(h) ==
  LET ids == acked[h] \cup chunk[h] IN
  /\ pc[h] = "push" /\ wire[h] = {} /\ todo[h] = {}
  /\ \/ /\ Recordable(ids)
        /\ \E known \in SUBSET held[h] : RecordDispatch(ids, known)
        /\ \/ NoFault /\ batch[h] = 0
              /\ open' = (open /\ gen # pushGen[h]) /\ UNCHANGED batchVars
           \/ NoFault /\ batch[h] # 0
              /\ bstat' = ClosePrevious(h, batch[h], [bstat EXCEPT ![batch[h]] = "sending"])
              /\ marker' = [marker EXCEPT ![batch[h]] = FALSE] /\ UNCHANGED open
           \/ Fault /\ UNCHANGED <<open, batchVars>>
     \/ /\ ~Recordable(ids) /\ NoFault
        /\ UNCHANGED <<recipientVars, job, blocked, open, batchVars>>
     \/ Fault /\ UNCHANGED <<recipientVars, job, blocked, open, batchVars>>
  /\ Done(h)
  /\ UNCHANGED <<cstat, gen, cloudVars, pollVars>>

(* A chunk is rejected or its answer does not come: what was acknowledged   *)
(* before is recorded, and the rest may or may not reach the cloud.         *)
PushFails(h) ==
  /\ pc[h] = "push" /\ chunk[h] # {} /\ Fault
  /\ late' = late \cup wire[h]
  /\ \/ /\ acked[h] # {} /\ Recordable(acked[h])
        /\ \E known \in SUBSET (held[h] \cap acked[h]) : RecordDispatch(acked[h], known)
     \/ UNCHANGED <<recipientVars, job, blocked>>
  /\ Done(h)
  /\ UNCHANGED <<campaignVars, batchVars, stored, outcome, mail, pollVars>>

-----------------------------------------------------------------------------
(* The cloud.                                                               *)

(* A pack that the terminal gave up on may land at any later time.          *)
LatePackArrives(id) ==
  /\ id \in late \ stored
  /\ stored' = stored \cup {id}
  /\ NoFault
  /\ UNCHANGED <<campaignVars, recipientVars, batchVars, job, blocked, outcome, mail, late,
                 requestVars, pushVars, pollVars>>

(* What Dispatch makes of a pack, from the claim on: an outcome that is     *)
(* certain.  The terminal treats "stuck_no_key" as "failed".                *)
Resolve(id) ==
  /\ id \in stored /\ outcome[id] = "open"
  /\ \E s \in {"sent", "failed", "unknown"}, m \in {"none", "accepted"} :
       /\ Cloud!Certain(s, m)
       /\ outcome' = [outcome EXCEPT ![id] = s] /\ mail' = [mail EXCEPT ![id] = m]
  /\ NoFault
  /\ UNCHANGED <<campaignVars, recipientVars, batchVars, job, blocked, stored, late,
                 requestVars, pushVars, pollVars>>

-----------------------------------------------------------------------------
(* Cancel and Archive.                                                      *)

Live == open \/ \E b \in Batches : bstat[b] \in {"pending", "sending"} \/ marker[b]

CancelStart(h) ==
  /\ \/ Press(h, "cancel") /\ Await(h, "cancel", "cancel", 0, {}, {}) /\ UNCHANGED cstat
     \/ Press(h, "archive") /\ Live /\ Await(h, "cancel", "archive", 0, {}, {}) /\ UNCHANGED cstat
     \/ Press(h, "archive") /\ ~Live /\ cstat' = "archived" /\ UNCHANGED <<requestVars, pushVars>>
  /\ UNCHANGED <<gen, open, recipientVars, batchVars, job, blocked, cloudVars, pollVars>>

(* packs_cancel_campaign: of the pending packs, a lagging index may miss    *)
(* some.                                                                    *)
CancelAtCloud(h) ==
  LET pending == {id \in stored : outcome[id] = "open"} IN
  /\ pc[h] = "cancel"
  /\ \E missed \in SUBSET pending :
       /\ IF missed = {} THEN NoFault ELSE Fault
       /\ outcome' = [id \in Ids |-> IF id \in pending \ missed THEN "cancelled" ELSE outcome[id]]
  /\ pc' = [pc EXCEPT ![h] = "cancelled"]
  /\ UNCHANGED <<campaignVars, recipientVars, batchVars, job, blocked, stored, mail, late,
                 button, batch, pushGen, cands, wasQueued, pushVars, pollVars>>

PushInFlight == \E h \in Handlers : pc[h] = "push"

(* The answer, or its absence.  The markers of interrupted sends are        *)
(* cleared only after a confirmed cancel with no push in flight.            *)
CancelFinish(h) ==
  /\ \E clear \in BOOLEAN :
       /\ \/ pc[h] = "cancelled" /\ clear = ~PushInFlight /\ NoFault
          \/ pc[h] \in {"cancel", "cancelled"} /\ ~clear /\ Fault
       /\ open' = (open /\ ~clear)
       /\ marker' = [b \in Batches |-> marker[b] /\ ~clear]
  /\ bstat' = [b \in Batches |-> IF bstat[b] \in {"pending", "sending"} THEN "cancelled" ELSE bstat[b]]
  /\ cstat' = IF button[h] = "archive" THEN "archived" ELSE "cancelled"
  /\ Done(h)
  /\ UNCHANGED <<gen, recipientVars, job, blocked, cloudVars, pollVars>>

-----------------------------------------------------------------------------
(* Other routes and loops.                                                  *)

(* retry_failed looks at the recipients only, not at the campaign.          *)
RetryFailed ==
  /\ "retry" \in Buttons /\ \E c \in Contacts : rstat[c] = "failed"
  /\ retries < MaxRetries /\ retries' = retries + 1
  /\ rstat' = [c \in Contacts |-> IF rstat[c] = "failed" THEN "queued" ELSE rstat[c]]
  /\ cstat' = "tested"
  /\ UNCHANGED <<gen, open, batchNo, batchVars, job, blocked, cloudVars, requestVars,
                 pushVars, pollVars, presses, faults>>

(* pause_campaign, resume_campaign, mark_tested *)
ChangeStatus ==
  /\ "status" \in Buttons
  /\ \/ cstat \in {"tested", "dispatched"} /\ cstat' = "paused"
     \/ cstat = "paused" /\ cstat' = "tested"
     \/ cstat # "tested" /\ cstat' = "tested"
  /\ NoFault
  /\ UNCHANGED <<gen, open, recipientVars, batchVars, job, blocked, cloudVars, requestVars,
                 pushVars, pollVars>>

(* An unsubscribe, bounce or complaint reaches the terminal. *)
Suppress(c) ==
  /\ c \in Blockable \ blocked /\ blocked' = blocked \cup {c}
  /\ NoFault
  /\ UNCHANGED <<campaignVars, recipientVars, batchVars, job, cloudVars, requestVars,
                 pushVars, pollVars>>

(* _drain_batches, once the send window of a batch has passed. *)
DrainBatch(b) ==
  /\ bstat[b] = "sending" /\ bstat' = [bstat EXCEPT ![b] = "drained"]
  /\ NoFault
  /\ UNCHANGED <<campaignVars, recipientVars, marker, job, blocked, cloudVars, requestVars,
                 pushVars, pollVars>>

(* GET /packs/status: outcomes past the cursor, of which the newest ten     *)
(* seconds wait for another poll.                                           *)
PollOutcomes ==
  /\ page = {}
  /\ page' \in SUBSET ({id \in Ids : outcome[id] # "open"} \ passed) /\ page' # {}
  /\ NoFault
  /\ UNCHANGED <<campaignVars, recipientVars, batchVars, job, blocked, cloudVars, requestVars,
                 pushVars, passed>>

(* The loop applies the page and moves the cursor; an error on the way      *)
(* leaves the cursor, so the page is applied again.  Of several packs of a  *)
(* contact the last one decides its status.  A pack without a job is        *)
(* skipped; a recipient that a webhook has marked keeps that status.        *)
ApplyPage ==
  \E S \in SUBSET page :
    LET known == {id \in S : job[id] # "none"}
        decided(c) == {id \in known : Contact(id) = c /\ JobAfter(outcome[id]) # "dispatched"}
        marked(c) == rstat[c] = "sent" /\ \E id \in Ids : Contact(id) = c /\ job[id] = "completed"
    IN
    /\ page # {} /\ page' = {}
    /\ \/ S = page /\ passed' = passed \cup page /\ NoFault
       \/ Fault /\ UNCHANGED passed
    /\ job' = [id \in Ids |-> IF id \in known THEN JobAfter(outcome[id]) ELSE job[id]]
    /\ rstat' \in [Contacts -> {"queued", "sent", "failed", "cancelled"}]
    /\ \A c \in Contacts :
         \/ \E id \in decided(c) : rstat'[c] = RecipientAfter(outcome[id])
         \/ (decided(c) = {} \/ marked(c)) /\ rstat'[c] = rstat[c]
    /\ UNCHANGED <<campaignVars, batchNo, batchVars, blocked, cloudVars, requestVars, pushVars>>

(* The terminal restarts: requests and the page in memory are gone.         *)
Restart ==
  /\ \E h \in Handlers : pc[h] # "idle"
  /\ Fault
  /\ pc' = [h \in Handlers |-> "idle"] /\ button' = [h \in Handlers |-> "launch"]
  /\ batch' = [h \in Handlers |-> 0] /\ pushGen' = [h \in Handlers |-> 0]
  /\ cands' = [h \in Handlers |-> {}] /\ wasQueued' = [h \in Handlers |-> {}]
  /\ todo' = [h \in Handlers |-> {}] /\ chunk' = [h \in Handlers |-> {}]
  /\ acked' = [h \in Handlers |-> {}] /\ held' = [h \in Handlers |-> {}]
  /\ wire' = [h \in Handlers |-> {}] /\ late' = late \cup UNION {wire[h] : h \in Handlers}
  /\ page' = {}
  /\ UNCHANGED <<campaignVars, recipientVars, batchVars, job, blocked, stored, outcome, mail,
                 passed>>

-----------------------------------------------------------------------------
Request(h) ==
  \/ LaunchStart(h) \/ LaunchBatches(h) \/ (\E b \in Batches : ApproveStart(h, b))
  \/ RelaunchStart(h) \/ RelaunchOpen(h) \/ DispatchReady(h) \/ Refused(h)
  \/ PushChunk(h) \/ Record(h) \/ PushFails(h) \/ (\E id \in Ids : PackArrives(h, id))
  \/ CancelStart(h) \/ CancelAtCloud(h) \/ CancelFinish(h)

Next ==
  \/ \E h \in Handlers : Request(h)
  \/ \E id \in Ids : LatePackArrives(id) \/ Resolve(id)
  \/ \E c \in Contacts : Suppress(c)
  \/ \E b \in Batches : DrainBatch(b)
  \/ RetryFailed \/ ChangeStatus \/ PollOutcomes \/ ApplyPage \/ Restart

Spec == Init /\ [][Next]_vars

-----------------------------------------------------------------------------
(* Properties.                                                              *)

(* Within one generation (the launch, or one Re-launch) a contact is mailed *)
(* at most once, whatever is pressed twice, interrupted, cancelled, retried *)
(* or restarted: the aim of the ids of _plan_sends.                         *)
OneMailPerGeneration ==
  \A x, y \in Ids :
    /\ x[1] = y[1] /\ x[2] = y[2]
    /\ mail[x] = "accepted" /\ mail[y] = "accepted"
    => x = y

(* A second pack of a generation reaches the cloud only after the first one *)
(* has failed or was cancelled there; an unknown one is never repeated.     *)
RepeatOnlyAfterFailure ==
  \A id \in stored : \A a \in 0..MaxOrdinal :
    a < id[3] => outcome[<<id[1], id[2], a>>] \in {"failed", "cancelled"}

(* The terminal's jobs say what the cloud knows: a recorded pack is stored, *)
(* a completed one was mailed, and a failed one never will be, although     *)
(* outcomes come from two places and pages of them are applied again.       *)
JobsTruthful ==
  \A id \in Ids :
    /\ job[id] # "none" => id \in stored
    /\ job[id] = "completed" => mail[id] = "accepted"
    /\ job[id] = "failed" => outcome[id] \in {"failed", "cancelled"} /\ mail[id] = "none"

(* Except what landed after the terminal gave up on it, and what belongs to *)
(* a contact that has been suppressed since.                                *)
Unrecorded == {id \in stored \ late : job[id] = "none" /\ Contact(id) \notin blocked}

(* A pack that the cloud may mail and that has no job is still pointed at   *)
(* by an open generation or a marked batch, so that the next Re-launch      *)
(* finishes it and does not mail everyone again.                            *)
InterruptedSendFound ==
  (\E id \in Unrecorded : outcome[id] \notin {"failed", "cancelled"}) =>
     open \/ Interrupted # {}

(* It is so for one request at a time, as long as nothing is cancelled and  *)
(* Launch is not pressed over an interrupted batch, which would number the  *)
(* recipients anew, and Retry failed is not pressed (see SerialSpec).       *)
SerialStep ==
  /\ \A g, h \in Handlers : g # h => "idle" \in {pc'[g], pc'[h]}
  /\ \A h \in Handlers : pc'[h] \notin {"cancel", "cancelled"}
  /\ \A h \in Handlers : pc[h] = "idle" /\ pc'[h] = "key" => Interrupted = {}

SerialSpec == Init /\ [][Next /\ SerialStep /\ UNCHANGED retries]_vars

(* cancel_campaign: "only a confirmed cancel, and no push racing it" clears *)
(* the markers, as "the cloud cancelled every pending pack, recorded or     *)
(* not".                                                                    *)
CancelReachesAll ==
  (\E id \in Unrecorded : outcome[id] = "open") =>
     open \/ Interrupted # {} \/ PushInFlight

(* _apply_held_outcomes: what was pending when it was recorded is resolved  *)
(* through the outcomes loop.  So once the cursor is past a pack, and no    *)
(* request is in progress, its job has its outcome.                         *)
OutcomeApplied ==
  (\A h \in Handlers : pc[h] = "idle") =>
    \A id \in passed : job[id] = "dispatched" => outcome[id] = "unknown"

-----------------------------------------------------------------------------
(* The inductive invariant behind the first three properties.               *)

Shape ==
  /\ job \in [Ids -> {"none", "dispatched", "completed", "failed"}]
  /\ outcome \in [Ids -> Outcomes \cup {"open"}] /\ mail \in [Ids -> {"none", "accepted"}]
  /\ stored \subseteq Ids /\ late \subseteq Ids /\ page \subseteq Ids
  /\ todo \in [Handlers -> SUBSET Ids] /\ chunk \in [Handlers -> SUBSET Ids]
  /\ wire \in [Handlers -> SUBSET Ids] /\ acked \in [Handlers -> SUBSET Ids]
  /\ held \in [Handlers -> SUBSET Ids]

(* Only packs at the cloud are counted as acknowledged, held or resolved. *)
Acknowledged ==
  /\ \A h \in Handlers : /\ acked[h] \cup (chunk[h] \ wire[h]) \subseteq stored
                         /\ \A id \in held[h] : outcome[id] # "open"
  /\ \A id \in page : outcome[id] # "open"

CloudTruthful ==
  \A id \in Ids :
    /\ outcome[id] # "open" => id \in stored
    /\ outcome[id] = "sent" => mail[id] = "accepted"
    /\ outcome[id] \in {"open", "failed", "cancelled"} => mail[id] = "none"

JobsFollow ==
  \A id \in Ids :
    /\ job[id] # "none" => id \in stored
    /\ job[id] = "completed" => outcome[id] = "sent"
    /\ job[id] = "failed" => outcome[id] \in {"failed", "cancelled"}

(* On its way to the cloud, possibly given up, or there. *)
Sendable(id) ==
  \/ id \in stored \cup late
  \/ \E h \in Handlers : id \in todo[h] \cup chunk[h] \cup wire[h]

(* A later ordinal exists only where all earlier ones have failed. *)
EarlierFailed ==
  \A id \in Ids : Sendable(id) =>
    \A a \in 0..MaxOrdinal : a < id[3] => job[<<id[1], id[2], a>>] = "failed"

IInv == Shape /\ Acknowledged /\ CloudTruthful /\ JobsFollow /\ EarlierFailed
=============================================================================
