# MailChad: TLA+ specifications and proofs

MailChad sends e-mail campaigns from two self-hosted *terminals* (FastAPI +
SQLite) through a small *cloud* (Lambda + DynamoDB + SQS) that never keeps
plaintext.  A terminal compiles one encrypted *pack* per recipient and pushes it;
the cloud holds it until it is due, sends it through the provider (Resend) and
reports the outcome.  Provider webhooks and unsubscribes come back over a sync
stream.  There is no central transaction anywhere: every step is one call to
DynamoDB, SQS, the provider, SQLite or HTTP, and any process may die between two.

Paths below are relative to the repository; `cloud/` and `terminal/` stand for
`src/mailman/cloud/` and `src/mailman/terminal/`.

## 1. Inventory

| Component | State it keeps | Operations | Talks to | What makes it correct |
|---|---|---|---|---|
| **Pack store** `cloud/dynamo.py`, `cloud/packs.py` | pack item: status, send_at, claimed_at, resolved_at, payload; status-index (lagging copy) | POST /packs, GET /packs/status, DELETE /packs/{id}, POST /packs/cancel-campaign, claim, update, expire | terminals, dispatcher, sweep, SQS | an id is stored once; a cancelled pack is never sent; an outcome is final and true |
| **Dispatcher** `cloud/dispatcher_lambda.py`, `dispatcher_local.py` | position in its batch, claimed pack, key, answer | handler, `_process`, `_finalize`, `_stop_if_unknown`; `_sweep`, `_expire_stale_claims` | SQS, pack store, K_temp, provider, event log | at most one POST per pack, never before send_at; every pack resolves in the end |
| **K_temp** `cloud/keys_dynamo.py`, `terminal/launch.py:_ensure_k_temp` | KTEMP items, the KTEMP_ACTIVE pointer, the terminal's cached key | set, wipe, read with expiry, status, ensure | launch, dispatcher, API | a launch's key is the one its packs are opened with; a wipe removes only the key it meant to |
| **Sync log** `cloud/sync.py`, `dynamo.put_event` | event counter, EVENT items, conflicts, UNSUB_LOG | push, pull, near-conflict detection | both terminals, webhooks, dispatcher | an id names one event; terminals at one cursor hold the same rows |
| **Sync client** `terminal/sync_client.py` | outbox, inbox, four cursors | pull, push, outcomes, materialise | cloud API, SQLite | cursors never pass something not applied; replays are idempotent |
| **Send path** `terminal/launch.py`, `routes_admin.py` | campaign, recipient, batch and job rows, relaunch generation | launch, dispatch batch, push and record, re-launch, retry failed, approve, cancel, archive, pause, resume | pack store, scheduler, outcomes | one recorded send per recipient and generation; a retry re-derives the same pack ids |
| **Scheduler** `sync_client.scheduler_tick` | due campaigns and stages | launch due, refuse, fail or cancel stages, drain batches, confirm locks | send path, operator | operator edits made during a tick win; nothing is launched twice |
| **Suppression** `_merge_unsubs`, materialiser, `cloud/compliance_public.py`, `launch._suppressed_map` | suppression_hashes (scope, reason), UNSUB rows | unsubscribe, upgrade, merge, filter at dispatch | public endpoint, sync log, send path | scope is only ever widened; a suppressed address is not mailed |
| **Webhook receiver** `cloud/webhook_receiver.py` | raw rows by svix id | verify, dedupe, encrypt, log, auto-suppress | provider, sync log | one event per svix id; none is lost |
| **Contact lock** `terminal/campaign_lock.py` | dispatched_at, lock_until, unsubs_confirmed_at | find conflicts, confirm elapsed locks | scheduler, launch | one running campaign holds a contact, also when two are launched in one pass |
| **Send schedule** `terminal/send_schedule.py` | none (pure) | window arithmetic, send_at per recipient | dispatch batch | every send_at lies in a window, in order, capped per day |
| **Handshake and sessions** `cloud/handshake.py` | pubkeys, sessions | register, wipe, bearer check | terminals | a stored bearer works until its role is revoked; what a revocation finds it shuts out for good; both terminals can open what is sealed for both |
| **Settings, auth, rate limit, brand, compliance tokens, e-mail cleaning** | small tables | CRUD, checks | UI | mostly pure or single-row |
| **Admin UI** `terminal/admin_ui.py`, `admin_settings_ui.py` | none | HTML | routes | presentation |
| **Encryption** `encryption.py`, `encryption_cloud.py` | key files | seal, open | all | a library contract, abstracted as "opens with the key it was sealed with" |
| **Legacy** `legacy_wg_*.py`, `cloud/keys.py`, `cloud/db.py`, `cloud/models.py` | v2 WireGuard path | | | not on the active path |
| **Scripts and deploy** `scripts/`, `deploy/` | archives | backup; tables, Lambda set-up | database, key files, table | a backup reported complete can be restored; constants (timeouts, rates) are taken from here |

### How they interact

```
 operator -> send path --POST /packs--> pack store <--sweep (EventBridge, 1/min)
                 ^                       |   ^  |
                 |                     SQS   |  +--> GET /packs/status -> outcomes loop
                 |                       v   |
              scheduler             dispatcher (Lambda) --POST--> provider
                                         |                          |
                                      event log <-- webhook receiver+
                                         |
                            pull loop -> inbox -> materialiser -> suppression
```

### Hard behaviours

* **Concurrency**: several dispatcher invocations, the sweep, pushes and cancels
  act on one pack; on the terminal five asyncio loops and the request handlers
  share SQLite, and every `await` is a place where another one runs.
* **Stale reads**: `get_item` is called without ConsistentRead, and all lists come
  from the status-index, which lags.  Only conditional writes see the truth.
* **Delivery**: SQS delivers at least once (a 60 s visibility timeout), gives up
  after 3 receives or a day, and `send_message` failures are swallowed.
* **Crashes**: a dispatcher may die with a pack claimed, before or after the POST.
* **Lost answers**: the POST has no idempotency key, so an exception or 5xx leaves
  delivery unknown, and must never lead to a second POST.
* **Cursors**: outcomes, events and unsubscribes are read once, past a cursor.
* **Retries**: an interrupted push is repeated with ids derived again.

`PROJECT.json` lists each hazard at its line, with the property that covers it.

## 2. Modules

| # | Modules | Subject |
|---|---|---|
| 1 | `OneShotSend`, `Dispatch`, `DispatchInvariant`, `DispatchProofs`, `MCDispatch` | the pack in the cloud: push, queue, claim, key, POST, record, sweep, cancel, crash |
| 2 | `SendPath`, `SendPathProofs`, `MCSendPath`, `MCSendPresses` | launch, batches, chunked push and record, re-launch generations, retry, approve, cancel, archive, the outcomes loop; with `OneShotSend` as the cloud |
| 3 | `Outcomes` | the outcome cursor: ties, settle time, lagging index, work cap, polls that fail |
| 4 | `EventLog`, `SyncPush`, `EventLogProofs`, `SyncPushProofs` | the append-only log: ids drawn and written apart, pull pages, cursors, inbox; outbox, repeated and lost pushes |
| 5 | `Feedback`, `MCReturns`, `ReturnsProofs` | webhooks, unsubscribes, the materialiser, suppression; on top of `EventLog`; run and proved beside `Outcomes` |
| 6 | `KTemp` | set, wipe, read with expiry, two launches of `_ensure_k_temp` |
| 7 | `Handshake`; `KeysProofs` | registration, bearers, revocation, what envelopes are sealed with; the proofs of 6 and 7 |
| 8 | `Scheduler`, `SchedulerProofs`, `MCSchedule` | the scheduler's pass, stages, streaks of errors, the contact lock |
| 9 | `AddressBook` | contacts, tags, suppression by hand, recipients and their count |
| 10 | `TestGate` | templates, companies, campaigns, the comparison a launch makes before it sends |
| 11 | `SendSchedule` | `compute_send_ats`, one step per iteration of its loop |
| 12 | `Backup` | one run of `scripts/_backup.py` beside the log |
| | `MCParts`, `TerminalProofs` | 4, 6, 7, 9, 10, 11 and 12, which share no state, each on its own instance; the proofs of 9 to 12 and of `MCParts` |

How they compose: `SendPath` uses what `OneShotSend` promises, and `Dispatch` is
shown to keep that promise (`ImplementsOneShot`).  `SyncPush` and `Feedback` are
two writers of one `EventLog`, which both extend.  `Scheduler` looks at a launch
from outside, as the two waits during which others act; `SendPath` looks inside.
`Outcomes` has the cursor that the page of `SendPath` stands for.

## 3. How the models correspond to the code

### `Dispatch`: the cloud's half of a send

| In the model | In the code |
|---|---|
| `status`, `sendIn`, `claimAge`, `sealedBy`, `payload` | the pack item of `dynamo.put_pack` (`send_at` and `claimed_at` as time left and age) |
| `replica` | what an eventually consistent `get_item` or the status-index still returns; one lagging copy serves both |
| `queue`, `batch`, `todo` | visible SQS messages; the batch an invocation received and what it has not reached |
| `pc`, `cur`, `blob`, `result` | where `_process` stands, its pack, whether the payload is in hand, the outcome to be written |
| `unqueued` | packs stored by `packs_push` whose `_enqueue` has not run |
| `sweepPc`, `sweepTodo` | `_sweep`'s two lists |
| `provider`, `posts` | what the provider did with the mail, and how often it was asked |
| `activeKey` | the K_temp that KTEMP_ACTIVE points to |
| `PutPack`, `Enqueue` | `packs_push`: conditional put, then `_enqueue` of a due pack (which may fail silently, or never run) |
| `CancelPack` | the conditional write in `cancel_pack`, the only write of both cancel endpoints |
| `Receive` ... `EndBatch` | `handler` and `_process`, one action per external call |
| `UpdatePack`, `PutEvent` | `_finalize` and `_stop_if_unknown`; the "unknown" exception returns the whole batch |
| `Crash`, `Redeliver`, `DropMessage` | exceptions and time limits, visibility timeout, dead-letter queue and retention |
| `SweepStart` ... `SweepEnd` | `_sweep`, `list_pending_packs`, `expire_stale_claims` |
| `Tick`, `Replicate` | time; replication |

`GetPack` and `RegetPack` may return the replica; `ClaimPack`, `CancelPack` and
`SweepExpire` test the stored status, as DynamoDB conditions do.  `UpdatePack` is
unconditional, as in the code.

Abstractions, and why they lose nothing the properties speak of:

* Records of a batch are processed in any order, since their order never enters
  a decision; pacing (`_compute_delay`, the human-send sleep, bounce halving) only
  takes time, and a sleep that overruns the Lambda's 60 s is a `Crash`.
* The two reads of the key and the local decryption are one step, which may
  find no key although one is active (an expired one is being wiped).  The wipe
  itself is in `KTemp`.
* `SWEEP_LIMIT` (200) and paging exceed the model's packs.
* One sweep runs at a time.  Two would make the same conditional writes and
  idempotent enqueues.
* Two messages for the same pack are visible as one; a second one appears when
  the sweep or a redelivery queues a pack that is already being worked on.
* Packs are unrelated except through shared batches, so the refinement is per pack.

### `OneShotSend`: what the terminal may rely on

For each pack an `outcome` and the `mail` at the provider: the request leaves at
most once, only while the outcome is open; an outcome says only what is certain;
it never changes.  `ImplementsOneShot` maps `outcome` to the resolved status
("open" otherwise) and `mail` to `provider`.

### `DispatchInvariant`

The inductive invariant, in three groups.  *Custody*: one holder per pack, and a
held pack is claimed (or expired).  *Truth*: POSTs are counted, statuses are true,
and so is what an invocation is about to write.  *Timing*: only due packs move,
and only stale claims expire.

### `SendPath`: the terminal's half of a send

| In the model | In the code |
|---|---|
| `cstat`, `gen`, `open` | `campaigns.status`, `relaunch_gen`, `relaunch_open` |
| `batchNo`, `rstat` | `campaign_recipients.batch_no`, `status` (delivered, opened, clicked, bounced and complained count as "sent") |
| `bstat`, `marker` | `campaign_batches.status`, and whether `dispatch_started_at` is set |
| `job` | `dispatched_job.status` by pack id; an id is `<<generation, contact, ordinal>>`, what `_pack_id` hashes |
| `stored`, `outcome`, `mail` | the cloud: packs put, the resolved status ("open" before), the provider's mail |
| `pc` and the variables after it | the requests in progress, at the `await` they have reached, with what they read before it |
| `todo`, `chunk`, `wire`, `acked`, `held` | `_push_packs`: packs not sent, the chunk in flight, its packs still on the way, those of acknowledged chunks, and those the cloud held with an outcome |
| `late` | packs in flight when the terminal gave up; they may land at any time |
| `page`, `passed` | the outcomes loop: a page read and not applied, and what is before the cursor |

A terminal is one asyncio process, so each action is the code between two awaits:
`LaunchStart`, then (with the key) `LaunchBatches`; `ApproveStart` or an
interrupted `RelaunchStart`, then `DispatchReady`; or `RelaunchStart`, then `RelaunchOpen`.
`LaunchBatches` and `DispatchReady` contain the whole of `dispatch_batch` up to
the first chunk.  `PushChunk`, `PackArrives`, `Record` and `PushFails` are
`_push_and_record`; `Record` and `DispatchBatch` include what the caller does after it
(close the batch, the previous one, or the generation).
Pause, Resume, Mark tested and Retry failed run in threads; each is one
transaction on rows that such a piece of code does not read twice.

The cloud is `OneShotSend`: `Resolve` takes any outcome that `Certain` allows.  It
stands for the claim and all that follows, so a pack that is claimed when a
cancel comes counts as resolved, with an outcome that the terminal has yet to read.

Left out: stages (they are in `Scheduler`), seeds (they have neither job nor recipient), the contact
lock (in `Scheduler` as well, for launches) and configuration errors (they refuse before any write, as `Refused` does),
`relaunch_seq` (it refuses presses from a stale page; here a press may come from any page), and the cooldown and the send window (time enough may always have
passed).  A cancel whose answer was lost reached the cloud before or not at all.

### `EventLog`, `SyncPush`: the log between the terminals

| In the model | In the code |
|---|---|
| `seq`, `log`, `drawn` | the counter item, the EVENT items, and the id that a `put_event` has drawn and not written yet |
| `cursor`, `inbox`, `page` | `last_pulled_event_id`, the inbox rows, a pull's answer that is being applied |
| `overtaken` | history: ids written after a reader had been past them |
| `outbox`, `request`, `waiting` | outbox rows with their event ids, the pushes at the cloud, the one a terminal waits for |
| `NextId`, `PutItem`, `Abandon` | the two calls of `put_event`, and a request that ends between them |
| `PullEvents`, `ApplyEvent`, `SetCursor`, `BreakPull` | `list_events_since` and the pull loop |
| `LocalWrite`, `DrainOutbox`, `MarkPushed`, `GiveUp` | `enqueue_local_write` and the push loop |
| `PushNextId`, `PushPutItem`, `DetectConflict`, `Answer`, `Die` | the handler of `/sync/push` |

`put_event` makes two calls, so an id may be written after a larger one has been
read.  The code accepts that; the properties name the rows concerned
(`overtaken`) and claim the rest.  Pages, row payloads and limits are small; the
tables other than `webhook_event` and `suppression` have no materialiser in the code.

### `Feedback`: what recipients do

| In the model | In the code |
|---|---|
| `delivery`, `raw`, `answered` | a webhook request and what it has still to write, rows by svix id, what the provider was told 200 for |
| `rawOnly` | history: accepted before both public keys were registered |
| `unsub`, `unsubLog`, `ask`, `accepted` | UNSUB and UNSUB_LOG items, a request between the two, what the page confirmed |
| `unsubCursor`, `unsubPage` | `last_pulled_unsub_at`, and the unsubscribes of a pull |
| `known`, `status`, `supp`, `done`, `skipped` | message ids, recipients, the suppression list, materialised rows, rows that failed in this batch |
| `missed` | history: UNSUB_LOG rows written at or before a key already read |
| `Deliver`, `HookNextId`, `HookPutItem`, `PutRaw` | the receiver, one action per call |
| `Ask`, `LogUnsub` | `put_unsub` |
| `Pull`, `PullStep`, `MergeUnsubs`, `SetUnsubCursor` | the pull loop with `_merge_unsubs` |
| `Materialise`, `FailRow`, `NextBatch`, `SuppressByHand` | the materialiser, and `add_suppression` |

In `put_unsub` the failed condition and the upgrade that follows are one step.
A person is one recipient of one campaign; the four kinds of webhook stand for
the kinds whose handling differs.

### `Outcomes`: the cursor over resolved packs

`outcome` is a pack's status with `resolved_at`, `index` the copy that the
status-index shows, `outCursor` the terminal's `<<second, pack>>`, `outPage` an
answer that is being applied.  `Resolve`, `Reindex`, `TickSecond` are the cloud;
`Poll`, `ApplyOutcome`, `SetOutcomeCursor`, `DropAnswer` are `outcomes_loop`.  A pack's
number gives its place both by pack id and by `send_at`.  `WorkCap` stands for the
index items one call reads of a status.

### `KTemp`: the key packs are sealed with

`table` holds the pointer and the key items, `copy` what an eventually consistent
read may return; `file` is a terminal's `k_temp.bin`; `launch` and `caller` say
where a call of `_ensure_k_temp`, of `get_active_k_temp` or of the wipe is, and
what it has read.  `StartEnsure` to `WriteFile` are `_ensure_k_temp` with the
handlers of its requests, `GetActive` to `DeletePointer` the read that may go on to wipe.
`StatusRefused` is an answer other than 200, which counts as "no key".
`excused` is history: the keys that a reader of an older key, or a revocation, may take.  Such
a reader found its key expired; the wipe that follows reads the pointer again and deletes
whichever key it names.  So a key is excused when it is set while a wipe is under way, and also
when it was set before the reader found the old one expired (after its look at the pointer, or
before a look at an older copy).  The code does delete such a key while it is live
(`keys_dynamo.py:53`).  `LatestKeyActive` says that nothing else costs a live key.

### `Handshake`: registration, revocation, sealing

| In the model | In the code |
|---|---|
| `pubkey`, `session` | PUBKEY and SESSION items |
| `ownKey`, `peerKey`, `bearerFile` | a terminal's key files and `cloud_bearer.txt` |
| `script`, `post`, `wipe` | where `scripts/_init_handshake.py`, a POST and a DELETE of `/init/handshake` are |
| `keyRead`, `envelopes` | `load_pubkeys` between its two reads; what has been sealed for both |
| `missed`, `disturbed` | history: bearers that escaped a DELETE; bearers during or after whose issue one ran |

`revoke_sessions_for_actor` scans one page of the whole table, eventually consistent and
filtered after it is cut, and does not ask for another.  So `ScanSessions` may show any part
of the role's sessions, none included, and a DELETE does not do what its docstring says ("all its bearer
tokens").  `NoBearerWithoutKey` says what is left of that: when no DELETE of the
role is under way and the role has no key, a bearer of the role is accepted only if
it is in `missed`, that is, if the page did not show it, if the DELETE broke off before its turn, or
if a registration under way wrote it behind the scan.  Which of these it was does not matter to the
property, and a bearer never gets into `missed` after a page has shown it and its DELETE has answered.

A revoked session that an older copy shows again is revoked again, which changes nothing, so a page is taken from
the live ones.  `Accepted` reads the table; the API may read a copy that is a moment
older.  A bearer in the `CLOUD_BEARER` variable, which overrides the file, is left aside.  One
DELETE runs at a time.

### `Scheduler`: a pass of the scheduler and what goes on meanwhile

| In the model | In the code |
|---|---|
| `camp`, `stage` | campaigns and stages: status, time, whether tested, and `updated_at` as a counter |
| `lock`, `pulled`, `clicked` | `lock_until` and `unsubs_confirmed_at`, whether a pull followed the dispatch, `clicked_at` |
| `streak` | the newest audit row with a `streak_start` |
| `tick`, `launch` | what the pass has listed and where it is; the scheduler's launch and an operator's, waiting for the key or the push |
| `calm`, `mailed`, `cut`, `raced` | history |
| `StartTick`, `LaunchCampaign`, `Judge`, `Refuse` | `confirm_elapsed_locks`, the due campaigns, and what becomes of an error |
| `CancelStages`, `ListStages`, `LaunchStage`, `StageFails`, `FailUnreadable` | stages, and times SQLite cannot read |
| `BeginLaunch`, `HasKey`, `Pushed` | `launch_campaign` before, between and after its waits |
| `PressCampaign`, `PressStage`, `EditTemplate`, `OperatorLaunch` | the operator's routes |

`updated_at` has whole seconds in the code; the counter tells two edits of one
second apart.  The archive's cancel and the call to the cloud in it are one
step (SendPath has them apart), and so are the list and the guarded update of the stages of
closed campaigns.  Two launches that wait at the same time can take
the same contact, because the lock is looked up before the first wait: the
property says so.  Stages do not look at the lock, in the code either.  A Re-launch does
(`launch.py:341`) and is refused before it writes anything but `relaunch_seq`; Re-launch is in
`SendPath`, which leaves the lock out, so there a press may be refused without a reason (`Refused`).
A restart during a stage's push leaves the stage pending.  Draining batches is
`DrainBatch` of `SendPath`.

### `AddressBook`, `TestGate`: the terminal's rows

`AddressBook` has `contacts`, `suppressed`, `recipients` and `recipientCount`, and in
`requests` what a request has read before it writes: `ReadSuppression` then
`InsertContacts`, `ReadTags` then `WriteTags`, `ReadTagged` then `AddRecipients`.  An
e-mail stands for all its spellings, and `Importable` for what `clean_email` lets
through.  An import reads the suppression list in one step.

`TestGate` has `templates` (the hash of what they say), `companies` and
`campaigns`; `presses` holds what a button or a launch has read.
`PressMarkTested`, `MarkTested`, `PressSchedule`, `Schedule`, `PressStatus`, `SetStatus`
are the routes; `PressLaunch`, `ReadTemplate`, `PushMail` are
`launch_campaign`, a stage or a Re-launch; `tested` and `pushed` are history.  The
template and the company are read in one step.  `text_body` is not part of the hash in
the code, hence not of `Contents`.

### `SendSchedule`, `Backup`

`SendSchedule` has one behaviour per call of `compute_send_ats`: `sender` are the
parallel cursors, `Emit` and `RollCursor` an iteration, `guard` its bound.  A change
of the clocks within a window is left out, and a window is at most a day long.

`Backup` has the steps of `main` in their `Order`, with `Meanwhile` for the cloud and
the terminal that go on working.  `owed` is history: what the table held when
its scan began.  Whether a gap counts as covered is computed from the parts, as the
script does.  The pages of the table's scan are taken to show what was there when the scan began;
in the code they are eventually consistent.

## 4. Runs

A run is one question, or several on components that share no state (`part` in
`MCReturns` and `MCParts`) or about sides of one component that would be too much
together (`scope` in `MCSendPresses` and `MCSchedule`): every behaviour stays in the part or
scope it began in, so the state spaces add up and do not multiply.  Distinct states are
approximate.

| Run | Question | Instance | Checked | States |
|---|---|---|---|---|
| `dispatch_race` | two invocations, the sweep, cancels, key changes and faults race for one pack | 1 pack, 2 workers, 2 keys, delay 1, stale 2, limit 1, 2 faults | `IInv`, `AtMostOnePost`, `OutcomeTruthful`, `OutcomeFinal`, `NeverEarly`, `ImplementsOneShot` | 330,000 |
| `dispatch_outlive` | what holds if an invocation may outlive its claim, as in the local dispatcher, and is every accepted pack resolved | as race, 1 key, limit 9, `FairSpec` | `KnownOutcomeFinal`, `EveryPackResolves` | 270,000 |
| `send_presses` | every button of one campaign, in three scopes | 2 contacts, 2 requests, 3 presses, 1 retry, 1 fault | `TypeOK`, `IInv`, `OneMailPerGeneration`, `RepeatOnlyAfterFailure`, `JobsTruthful`, `InterruptedSendFoundAlone` | 410,000 |
| `returns` | do webhooks, unsubscribes and outcomes reach the terminal, whole and once | 1 terminal, 1 person, 2 asks, 1 fault; 2 packs, settle 2, lag 1, page 1 | `ReturnsInv`, `UnsubHonoured`, `NoOutcomePassed`, `SuppressionOnlyGrows`, `UnsubReachesTerminal`, `HookReachesTerminal`, `EveryOutcomeApplied` | 137,000 |
| `parts` | seven components on their own | 2 terminals and 2 writes; 2 launches; 2 registrations; 2 e-mails; 2 presses; up to 5 sends; 2 events | `PartsInv`, `CursorCovers`, `PushedIsStored`, `InboxesAgree`, `LatestKeyActive`, `NoRetiredKey`, `NoBearerWithoutKey`, `BearerWorks`, `EnvelopesOpen`, `LaunchedWasTested`, `ScheduleHonoured`, `CompleteIsWhole` | 1,560,000 |
| `scheduler` | passes of the scheduler while an operator presses buttons, in three scopes | 2 campaigns with a contact in common, 2 stages, 2 presses, 1 click, 1 restart | `SchedTypeOK`, `StopWins`, `StageWordTrue`, `LockExclusive`, `RefusedAfterQuietDay`, `DueCampaignEnds`, `OwedStageEnds` | 350,000 |
| `send_outcome` | is an outcome that was polled ever applied? (*violated*) | 1 contact, 1 request, no faults | `OutcomeApplied` | |
| `send_clear` | does a confirmed cancel leave nothing behind? (*violated*) | 1 contact, 2 requests, 1 fault | `CancelReachesAll` | |
| `send_rebatched` | is an interrupted batch found after Retry failed and Launch? (*violated*) | 3 contacts in 3 batches, 1 request at a time, 5 presses, 1 retry, 1 fault; only contact 2's pack resolves, as failed | `InterruptedSendFound` | |
| `outcome_cap` | is a status partition read in full? (*violated*) | 2 packs, cap 1 | `EveryOutcomeApplied` | |
| `sched_early` | is nothing launched before its time? (*violated*) | 2 campaigns, 1 press | `NothingEarly` | |
| `lock_pull` | does a lock last until a pull has completed? (*violated*) | 2 campaigns, 1 press | `LockedUntilPulled` | |

The scopes of `send_presses`: *serial*, one request after another (`SerialStep`) on
two contacts in two batches, two presses and a retry, a suppression, or a fault (a failed chunk, a
database error, a restart); *overlap*, Re-launches of two contacts that
overlap, in chunks; *cancel*, every button for one contact, with cancel and archive at
any moment.  Those of `scheduler`: *campaigns*, two due campaigns, errors of
every kind and days that pass; *stages*, two stages of one campaign, which is
paused, closed and resumed meanwhile; *locks*, launches by the scheduler and by an
operator at once, with clicks and pulls.

### What the violated runs show

* `send_outcome`: `_push_and_record` writes the jobs after the last chunk is
  acknowledged.  A pack of the first chunk may by then have been sent, settled and
  polled; `_apply_pack_outcome` finds no job and returns, and the cursor moves past
  it.  The job stays "dispatched": a failed mail is shown as sent and cannot
  be retried.  The settle time of 10 s hides this for small pushes; a Re-launch of
  many chunks, due at once, takes longer.
* `send_clear`: `cancel_campaign` asks whether a push is in flight after the
  cloud has answered.  A push that landed behind the cancel and has failed since
  is not noticed, and its marker is cleared although its packs are pending and
  unrecorded.  (Packs that land after the terminal gave up on them are a
  limitation that the repository's README names, and are excluded.)
* `send_rebatched`: `launch_campaign` gives every queued recipient a new `batch_no`, also those
  of a batch whose `dispatch_started_at` is set.  Batch 3 is interrupted with its pack
  at the cloud; the mail of batch 2 fails; Retry failed queues its recipient and Launch
  numbers the two queued ones 1 and 2.  Finishing batch 3 then finds nobody, clears the
  marker and answers "No interrupted send is left", while the pack has no job.
* `outcome_cap`: `list_resolved_packs` leaves a status partition after `work_cap`
  index items, though its docstring says that each is read in full.  It reads from
  the start in `send_at` order every time, so once a status holds more packs than
  that, the outcomes of those with a later `send_at` are never listed.
* `sched_early`: a pass reads the due campaigns once, and `launch_campaign` does not look at
  `scheduled_for` again.  One edit that moves the time of a listed campaign to later, before
  its turn, leaves its status "scheduled", and it is launched at once.  (One that is only paused is
  refused by its status.)
* `lock_pull`: `locked_contacts` asks for `lock_until > now` as well as for the
  missing confirmation, so a contact is free when the window ends, whether a pull has completed or
  not, where the module's docstring says "until both".

Three disagreements need no run; the models have them, and no property claims otherwise.

* `retry_failed` (and `mark_tested`) set "tested" whatever the status was, so an archived campaign
  comes back, where the README says "Archive is one-way".
* DELETE /init/handshake/{role} is to wipe "all its bearer tokens" (`cloud/handshake.py:113`), but
  finds only those on one page, and none that a registration writes after it.
* A reader that finds an old key expired deletes whichever key the pointer names by then
  (`keys_dynamo.py:53`), also one that is live.

`InterruptedSendFound` is claimed of requests that follow one another (`SerialSpec`), and each of
its conditions excludes something that breaks it.  *No retry*: `send_rebatched`; and
an old outcome that is applied again after a retry marks the recipient failed anew.  *No Launch over an
interrupted batch*: the renumbering of `send_rebatched` again, after Mark tested.  *No cancel*:
`send_clear`.  *One request at a time*: a press that began before another was
interrupted does not know of it, and may clear the marker the other has set.

### Bounds

`Dispatch`: two workers are enough for every race on a claim, because a third
could only repeat what one of them does.  Two faults let a message be lost *and* an
invocation die with the claim.  One tick of delay separates "due at push" from
"swept later"; `ClaimStale = 2` with `InvocationLimit = 1` keeps the order of the
real numbers (60 s Lambda timeout in `deploy/deploy_lambda.py`, 900 s
`CLAIM_STALE_S`).  Clocks saturate, so nothing else bounds time.  `MaxFaults` is the
only budget: safety is proved for any value of it, and liveness needs it finite
(an SQS message lost for ever and a sweep that fails for ever resolve nothing).

`SendPath`: two requests are enough for a press that runs between any two awaits of
another; a third press comes after one has ended.  With one retry ordinals 0 and 1
occur, with one Re-launch generations 0 and 1, and the ids of larger numbers are
formed in the same way; the theorems hold for any.  One fault interrupts a push
at each of its steps.  The assumption keeps batch numbers and ordinals within their bounds,
so that they are never met; a Re-launch beyond `MaxGen` waits.

`EventLog`, `SyncPush`: pages of one event end between any two ids; two requests
overtake each other in every way a pair can; two terminals see the log at different
times, which is what `InboxesAgree` compares.  A push carries one row (`PushLimit` 1); that the ids of an answer
meet the rows of a longer one in their order is left to the theorem `MarkedRowsAreStored`.  `Feedback`: two asks of one person
meet in both orders of their calls, and with a page of one UNSUB_LOG row a pull ends
inside a second.  `Outcomes`: two packs resolve in one second or in two, in both
orders of their ids, and a page of one stops between them.  `Horizon` is long enough
for both to settle.

`KTemp`: two launches of one machine against one reader, any of whose reads
may be stale.  `Handshake`: two registrations, two
bearers, one revocation with a page that shows any of them, and one call or script that stops before its end and is run again.  `AddressBook`: one request that has read, and the operator who
writes meanwhile; tags `"a"` and `"ab"`, since one is part of the other.  `TestGate`: two
presses of which the second changes what the first has read.  `SendSchedule`: days of
six units with a window that crosses midnight, three cursors, up to five sends and
caps of none, one and two, so that days fill, cursors roll over and wait for each other.
`Backup`: two events, stored before, between and after any of its steps.
`Scheduler`: two campaigns are the least that can conflict and that make a pass
work through a list; `edit` grows by launches and refusals besides presses, and
either can repeat only after a press.

### Fairness

`Fairness` of `Dispatch`: live invocations continue, a visible message is
received, replication, the sweep and time go on.  These are what Lambda, SQS,
DynamoDB and EventBridge provide.  Nothing is assumed of operators (push, cancel, set a key)
or of the provider's answer, and a pack whose enqueue never ran relies on the
sweep alone.

`FeedFairness`: a terminal's pull loop and its materialiser go on, which are
asyncio tasks that catch what they raise.  Nothing is assumed of the provider, of
whoever unsubscribes, or of a request that has begun.  `OutFairness`: time passes, the
index catches up, and the poll loop goes on.  `SchedFairness`: the scheduler's loop
goes on, a day passes, and a lock's window ends.  A launch that waits is
answered *or fails*: nothing says that any launch succeeds.  `DueCampaignEnds` takes it that a missing bearer comes back:
`MaxStops` bounds the launches that find none, as it bounds restarts, because a `LaunchRetryable`
is tried again at every pass and the 24 h rule does not end it.  In all of them operators do
nothing unless they like.

**Deadlock** is checked in the runs of `Dispatch` and of `Scheduler`, whose loops
never end.  The others end when their budgets of presses, retries, asks and faults are
used up, and say `CHECK_DEADLOCK FALSE`.

## 5. Proofs

### `DispatchProofs`

`DispatchProofs` is checked by TLAPS for any sets of packs, workers and keys and
any bounds that satisfy `DispatchAssumption`.

| Theorem | Statement |
|---|---|
| `Invariance` | `Spec => []IInv` |
| `TypeCorrect` | `Spec => []TypeOK` |
| `PostedAtMostOnce` | `Spec => []AtMostOnePost` |
| `OutcomesAreTrue` | `Spec => []OutcomeTruthful` |
| `KnownOutcomesAreFinal` | `Spec => KnownOutcomeFinal` |
| `OutcomesAreFinal` | `Spec => OutcomeFinal`, if `InvocationLimit < ClaimStale` |
| `NoMailIsEarly` | `Spec => NeverEarly` |
| `DispatchImplementsOneShot` | `Spec => ImplementsOneShot`, if `InvocationLimit < ClaimStale` |

**The argument.**  `AtMostOnePost` alone is not inductive: a state with two
invocations about to POST the same pack satisfies it.  `OneHolder` excludes that
state, and holds because `ClaimPack` needs "pending" while a held pack is "claimed"
or "unknown" (`HolderClaimed`), and no write ever makes a pack pending again.
`PostsCounted` then says that a holder that has not posted yet has a pack nobody
posted.  Truth of the statuses needs truth of what is about to be written
(`ResultTruthful`), since `update_pack` is unconditional.  That an outcome is final
needs, further, that a held claim is not stale (`HeldInTime`), which is where the
order of the two time limits enters.  Three frame lemmas discharge the groups
that an action does not touch; there is one lemma per action.

**The assumption.**  `InvocationLimit < ClaimStale` holds for the deployed Lambda
(60 s against 900 s) and not for `dispatcher_local.py`, which bounds nothing.
Without it, a dispatcher that is suspended for longer than `CLAIM_STALE_S`
overwrites "unknown" with its late but true answer; at most one POST, truth
and finality of the other outcomes survive, which is what `dispatch_outlive` and the
unconditional theorems say.

### `SendPathProofs`

`SendPathProofs` is checked for any contacts, concurrent requests, generations,
ordinals, batches, chunk sizes, presses, retries and faults.

| Theorem | Statement |
|---|---|
| `Invariance`, `TypesHold` | `Spec => []IInv`, `[]TypeOK` |
| `MailedOncePerGeneration` | `Spec => []OneMailPerGeneration` |
| `RepeatedOnlyAfterFailure` | `Spec => []RepeatOnlyAfterFailure` |
| `JobsAreTruthful` | `Spec => []JobsTruthful` |
| `InterruptedSendsAreFound` | `SerialSpec => []InterruptedSendFound` |
| `SerialPressesFindSends` | `PressesSpec => []InterruptedSendFoundAlone` |

**The argument.**  `OneMailPerGeneration` is not inductive: a second id that is only
planned, in flight, or given up on and late may yet be mailed.  `EarlierFailed`
therefore speaks of every id that is sendable anywhere, and says that the jobs of all
earlier ordinals have failed.  `PlanIsSound` shows it of what `_plan_sends`
chooses.  It survives because failed jobs stay failed (`JobsFollow`: their outcome
is failed or cancelled, and outcomes are final), and because jobs are recorded
only for ids that have none.  `Acknowledged` and `CloudTruthful` tie jobs to packs that are
stored and to outcomes that are true, the promise of `OneShotSend`.  There is
one lemma for each kind of step.

`TypesHold` needs one thing that is not a type: that `launch_campaign` numbers no contact
beyond the last batch (`BatchForInRange`).

**Interrupted sends.**  `InterruptedSendFound` says that *some* generation is open or *some*
batch marked.  That is no invariant on its own: a finished batch clears its marker, whatever
other packs rest on it.  `SerialInv` says which record stands for which pack.  A pack
without a job is the first of its contact in the present generation, and either the
generation is open or its contact is queued in a marked batch (`OwedFound`).  So a marker may be
cleared when its batch has no queued contact left, and `Pushing` says why a push leaves none: it
carries the packs of everybody who is queued in its batch, or, in a Re-launch, of everybody
without a job.  `QueuedJobless` (nothing is recorded of a queued contact, as long as nothing
is retried) makes the ids of a repeated push those of the first, `Waiting` carries what a press has read over
its wait for the key, and `CancelledBlocked` lets nobody drop out of a batch but by suppression.
`OneRequest` and the clauses of `SerialSpec` are used where section 4 says they are needed.

### `EventLogProofs` and `SyncPushProofs`

| Theorem | Statement |
|---|---|
| `NothingIsPassed` | `PushSpec => []CursorCovers` |
| `IdsNameOneEvent` | `PushSpec => []IdsUnique` |
| `MarkedRowsAreStored` | `PushSpec => []PushedIsStored` |
| `EqualCursorsEqualInboxes` | `PushSpec => []InboxesAgree` |

For any terminals, requests, rows, page sizes, push limits and faults.  `EventLogProofs` has the lemmas about
the log that both its writers share; `LogIInv` says that ids are drawn once, and that a page
which is being applied holds every event between the cursor and its last id that was
written when it was read and is not overtaken (`PageCovers`).  What is written behind a cursor
is in `overtaken` from that step on.

* *Marks.*  The answer to a push is a list of ids, matched to rows by position.  `Aligned` says of a
  request that is still awaited that the ids so far and the rows to come are those of the
  rows that were sent, place by place; `DrawnForARow`, that an id is drawn only for a row.
  A request that nobody waits for may do as it likes.
* *Inboxes.*  Two inboxes may differ in the middle of a page.  `FirstsKept`: while no id was overtaken, an
  inbox holds, up to its cursor and up to where its page has been applied, the first event of each
  revision in the log.  That does not depend on the reader.

### `KeysProofs`

| Theorem | Statement |
|---|---|
| `LatestKeyStays` | `KeySpec => []LatestKeyActive` |
| `RetiredKeysUnused` | `KeySpec => []NoRetiredKey` |
| `WipedRolesAreShut`, `StoredBearerWorks`, `SealedOpens` | `HandSpec => []NoBearerWithoutKey`, `[]BearerWorks`, `[]EnvelopesOpen` |

For any keys, machines, launches and callers, and for any bearers, registrations, revocations
and failures.

* `KeyIInv`: nothing names a key before its item is put (`SetOnce`), the stale copy errs only towards
  "live" (`CopyIsOlder`), and while a wipe goes on the latest key is excused or past its use (`WipeIsLate`):
  whoever wipes without a revocation has found the key it read expired, so either that key is the latest one, or
  the latest is another and was excused with that finding, or when it was set.
* `NoRetiredKey` speaks of what a launch has sealed.  `LaunchClear` says it of every place before:
  a key that a launch has read from its file and that was retired when it began is dead in the table
  *and* in the copy, so its status request cannot find it alive, and the key it mints is new.  No step brings an
  item back (`TableStep`).
* `HandIInv`: a bearer that is in a reply or a file was issued for that role
  (`Issuance`); a bearer of a role without a key is dead or missed, or the role's DELETE still has to
  scan or has it on its list (`Revocation`); a terminal makes one key pair, and every copy of its public key is of
  that pair (`OnePair`); and a bearer no DELETE has disturbed goes with a
  registered key (`Registration`).

### `ReturnsProofs`

| Theorem | Statement |
|---|---|
| `PassedUnsubsHonoured` | `FeedSpec => []UnsubHonoured` |
| `SuppressionIsKept` | `FeedSpec => SuppressionOnlyGrows` |
| `AnsweredHooksAreLogged` | `FeedSpec => []AckedIsLogged` |
| `CursorPassesNothing` | `OutSpec => []NoOutcomePassed`, if `Cardinality(OutPacks) <= WorkCap` |
| `ReturnsHold` | `Spec => []ReturnsInv`, of both together |

For any people, hooks, requests, packs, pages, batches, settle times, lags and faults.

* *Unsubscribes.*  A page of UNSUB_LOG leaves out no row between the cursor and its last
  (`UnsubsHaveNoGap`), and once merged it honours what the cursor is about to pass (`PageHonours`).  What
  is honoured stays so because every write of the list adds to it
  (`InsertGrows`, `MergeGrows`), which is the action property.
* *Webhooks.*  The raw row, by which a repeated delivery is known, is written last (`RawIsLast`): an answer,
  or a duplicate, means that all else was written.
* `OutIInv`: an outcome that the index does not show is younger than the settle
  time, because `MaxLag < Settle` (`InTime`).  The listing stops at the settle
  time, so a page holds all up to its end that was not applied (`PageHolds`), each row as
  it is, unless the pack has a newer outcome beyond the page (`RowsCurrent`), and
  the cursor stays behind the settle time (`CursorBehind`).  That the listing has no gap needs the
  cap, the theorem's assumption; `outcome_cap` shows that it is needed.

### `SchedulerProofs`

| Theorem | Statement |
|---|---|
| `SchedulerTypes` | `SchedSpec => []SchedTypeOK` |
| `NoLaunchOfStoppedStage`, `StageWordsAreTrue` | `SchedSpec => []StopWins`, `[]StageWordTrue` |
| `ContactLockExclusive` | `SchedSpec => []LockExclusive` |
| `GivenUpAfterQuietDay` | `SchedSpec => RefusedAfterQuietDay` |

For any campaigns, stages, contacts, presses, clicks and restarts.  `SchedIInv` has three groups that hardly meet.

* `StagesInv`: a stage whose launch
  waits is pending or deleted, and one whose mail has begun is never pending unless it is
  the one that waits.
* `LocksInv`: a launch that waits overlaps no running lock,
  clicks apart, but of launches recorded in `raced`; `LockExclusive` alone would
  not survive the taking of the lock, which looks at nothing.
* `StreaksInv`: a streak that is a day old and still carries the campaign's `edit` is of
  a campaign in `calm`, and so is one that has been decided on and not yet acted upon.

### `TerminalProofs`

| Theorem | Statement |
|---|---|
| `GateInvariant`, `LaunchesWereTested` | `GateSpec => []GateInv`, `[]LaunchedWasTested` |
| `CompleteBackupIsWhole` | `BackupSpec => []CompleteIsWhole` |
| `BookIsSound` | `BookSpec => []BookInv` |
| `SchedulesAreHonoured` | `ScheduleSpec => []ScheduleHonoured`, if `FewCursors` |
| `PartsHold` | `PartsSpec => []PartsInv`, of all the parts of `MCParts` |

For any templates, companies, campaigns, presses, events, addresses, tags and requests.

* `GateIInv`: the hash on a campaign's row, and the one a waiting launch has read, is
  in the campaign's `tested`, which only grows; campaigns are never deleted.
* `BackupIInv`: parts are copied in the order of `main`, so what the database copy
  knows was in the table before the table's scan began (`KnownIsOwed`), and a
  scan that began then has read it (`OwedIsRead`).
* `BookIInv`: `BookInv` and that a request which rewrites tags holds one row of a contact
  (`RowsReadOnce`), so that what it writes is well-defined.
* *Send times.*  That times lie in windows and within the cap follows from where the
  cursors stand.  That everybody gets one is harder: the loop has a guard of 8 iterations for each
  recipient, and iterations that only leave a full day count as well.  An iteration that
  sends nothing takes its cursor past a window whose date is full, and a cursor meets no
  window twice; so the guard is at most the sends so far and the pairs in `Left`
  (`RollsCounted`), which are at most as many as cursors times full dates (`LeftIsSmall`), twice as many if a window has two
  dates.  A date is full only by sends (`FullDatesAreFew`).

### Assumptions

What the theorems assume of the constants is named in the modules that declare them and evaluated by the
runs.  Two theorems have a hypothesis about the size of things besides:

* `CursorPassesNothing`: the packs are finitely many and fit in the work cap of one poll (2,000, or four pages if that is more).
* `SchedulesAreHonoured`: `FewCursors`, at most three senders (the default is three)
  or seven if the window ends before midnight.  With more, the counting argument
  does not bound the guard, which is a constant; nothing is claimed then.

`OutcomesAreFinal` and `DispatchImplementsOneShot` assume `InvocationLimit < ClaimStale`, see `DispatchProofs`.

### What is only model-checked

Every safety invariant and every action property of the passing runs is also a theorem.  What remains with
TLC is liveness: `EveryPackResolves`, `EveryOutcomeApplied`, `UnsubReachesTerminal`,
`HookReachesTerminal`, `DueCampaignEnds` and `OwedStageEnds`.  Liveness under
fairness needs ENABLED, which the prover does not support.

## 6. Not modelled

* **Authentication, settings, rate limits, branding**: single-row reads and writes and in-memory counters,
  without interleavings that a property could be about.
* **Admin HTML, statistics, exports, previews**: they only read.
* **Encryption**: the primitives are taken as a contract, "opens with the key it was
  sealed with".  What key that is, is the subject of `KTemp` and `Handshake`.
* **Compliance tokens, e-mail cleaning**: pure string handling; an address or a token is a model value.
* **Migrations and the schema**: of the schema, the constraints that `AddressBook` and
  `TestGate` write against are modelled; migrations run alone, at start.
* **Seeds**: addresses that get a copy of a batch, with neither recipient nor job.
* **Legacy**: the WireGuard and SQLite cloud paths are not reached by the shipped configuration.
* **Deployment**: only its constants (time limits, queue settings) are used.
* **Telling a stop from a launch that already waits**: `launch_campaign` writes "dispatched"
  after its wait without asking for the status again.  The models write it as the
  code does; no document promises otherwise, so no property is about it.
