------------------------------ MODULE SyncPush ------------------------------
(***************************************************************************)
(* The terminals' outbox and POST /sync/push.                              *)
(*                                                                         *)
(* A terminal writes rows to its outbox; its push loop sends the oldest    *)
(* unpushed ones in one request, and the handler appends them to the event *)
(* log one by one, looking for a near conflict after each.  The terminal   *)
(* may give up on a request that goes on working, and a request may end    *)
(* part-way: the same rows are then pushed again, under new event ids.     *)
(* A terminal is also a reader of the log, its own events included.        *)
(***************************************************************************)
EXTENDS EventLog, Sequences

CONSTANTS
  Rows,        \* rows the terminals write
  Times,       \* modified_at values, in seconds
  PushLimit,   \* outbox rows of one request (200)
  MaxWrites,   \* bound: local writes of all terminals together
  MaxFaults,   \* bound: requests that break or are given up, pulls that break
  Nobody       \* no request

Terminals  == Readers

\* An event of the log is a row a terminal wrote.
PushItems == [row : Rows, rev : 1..MaxWrites, by : Terminals, at : Times]

ASSUME PushAssumption ==
  /\ PushLimit \in Nat \ {0} /\ MaxWrites \in Nat /\ MaxFaults \in Nat
  /\ Nobody \notin Readers \union Appenders
  /\ IsFiniteSet(Readers)
  /\ Items = PushItems

VARIABLES
  outbox,      \* rows written locally, oldest first, with the event id once pushed
  request,     \* the push requests at the cloud
  waiting,     \* the request a terminal waits for, and the outbox rows it sent
  conflicts,   \* CONFLICT items: pairs of event ids
  faults

pushVars == <<logVars, outbox, request, waiting, conflicts, faults>>

NotWaiting == [on |-> Nobody, rows |-> <<>>]
Idle       == [by |-> Nobody, todo |-> <<>>, ids |-> <<>>, checking |-> 0]

\* pushed is 0, or the id the cloud assigned.
OutboxRow == [item : Items, pushed : Nat]

PushTypeOK ==
  /\ LogTypeOK
  /\ outbox \in [Terminals -> Seq(OutboxRow)]
  /\ request \in [Appenders -> [by : Terminals \union {Nobody}, todo : Seq(Items),
                                ids : Seq(Nat), checking : Nat]]
  /\ waiting \in [Terminals -> [on : Appenders \union {Nobody}, rows : Seq(Nat)]]
  /\ conflicts \subseteq Nat \X Nat
  /\ faults \in 0..MaxFaults

PushInit ==
  /\ LogInit
  /\ outbox = [t \in Terminals |-> <<>>]
  /\ request = [r \in Appenders |-> Idle]
  /\ waiting = [t \in Terminals |-> NotWaiting]
  /\ conflicts = {}
  /\ faults = 0

Written == {w \in Terminals \X (1..MaxWrites) : w[2] <= Len(outbox[w[1]])}

Unpushed(t) == {i \in 1..Len(outbox[t]) : outbox[t][i].pushed = 0}

\* The places in the outbox of the first unpushed rows, in order: one sequence.
Oldest(t) ==
  {p \in UNION {[1..n -> Unpushed(t)] : n \in 1..PushLimit} :
     /\ \A k, l \in DOMAIN p : k < l => p[k] < p[l]
     /\ \A i \in Unpushed(t) \ {p[k] : k \in DOMAIN p} :
          Len(p) = PushLimit /\ \A k \in DOMAIN p : p[k] < i}

Fault == faults < MaxFaults /\ faults' = faults + 1

-----------------------------------------------------------------------------
(* The terminal                                                            *)

\* enqueue_local_write; the caller numbers the revisions of a row.
LocalWrite(t, row, at) ==
  /\ Cardinality(Written) < MaxWrites
  /\ LET rev == 1 + Cardinality({i \in 1..Len(outbox[t]) : outbox[t][i].item.row = row})
     IN  outbox' = [outbox EXCEPT ![t] =
           Append(@, [item |-> [row |-> row, rev |-> rev, by |-> t, at |-> at], pushed |-> 0])]
  /\ UNCHANGED <<logVars, request, waiting, conflicts, faults>>

DrainOutbox(t, r) ==
  /\ waiting[t] = NotWaiting
  /\ request[r] = Idle
  /\ \E p \in Oldest(t) :
       /\ request' = [request EXCEPT ![r] = [by |-> t, ids |-> <<>>, checking |-> 0,
                        todo |-> [k \in 1..Len(p) |-> outbox[t][p[k]].item]]]
       /\ waiting' = [waiting EXCEPT ![t] = [on |-> r, rows |-> p]]
  /\ UNCHANGED <<logVars, outbox, conflicts, faults>>

MarkFirst(t, ids) ==  \* mutant: ids are given to the first rows of the outbox
  [outbox EXCEPT ![t] = [i \in 1..Len(@) |-> IF i <= Len(ids) THEN [@[i] EXCEPT !.pushed = ids[i]] ELSE @[i]]]
\* The answer: the rows are marked with their ids, in the order they were sent.
MarkPushed(t, ids) ==
  LET sent(i) == {k \in 1..Len(ids) : waiting[t].rows[k] = i}
  IN  [outbox EXCEPT ![t] = [i \in 1..Len(@) |->
         IF sent(i) = {} THEN @[i] ELSE [@[i] EXCEPT !.pushed = ids[CHOOSE k \in sent(i) : TRUE]]]]

GiveUp(t) ==
  /\ waiting[t] # NotWaiting
  /\ Fault
  /\ waiting' = [waiting EXCEPT ![t] = NotWaiting]
  /\ UNCHANGED <<logVars, outbox, request, conflicts>>

-----------------------------------------------------------------------------
(* The handler of /sync/push                                               *)

PushNextId(r) ==
  /\ request[r].by # Nobody
  /\ request[r].checking = 0
  /\ request[r].todo # <<>>
  /\ NextId(r)
  /\ UNCHANGED <<outbox, request, waiting, conflicts, faults>>

PushPutItem(r) ==
  /\ request[r].by # Nobody
  /\ PutItem(r, Head(request[r].todo))
  /\ request' = [request EXCEPT ![r].todo = Tail(@), ![r].ids = Append(@, drawn[r]),
                                ![r].checking = drawn[r]]
  /\ UNCHANGED <<outbox, waiting, conflicts, faults>>

\* query_latest_event_for_row: the readable event of the row with the largest smaller id.
Prior(e) ==
  {p \in log : /\ p.item.row = e.item.row
               /\ p.id < e.id
               /\ \A q \in log : q.item.row = e.item.row /\ q.id < e.id => q.id <= p.id}

Within60(a, b) == a - b < 60 /\ b - a < 60

DetectConflict(r) ==
  /\ request[r].checking # 0
  /\ LET e == CHOOSE f \in log : f.id = request[r].checking
     IN  conflicts' = conflicts \union
           {<<p.id, e.id>> : p \in {q \in Prior(e) : /\ Within60(q.item.at, e.item.at)
                                                     /\ q.item.by # e.item.by}}
  /\ request' = [request EXCEPT ![r].checking = 0]
  /\ UNCHANGED <<logVars, outbox, waiting, faults>>

Answer(r) ==
  LET t == request[r].by
  IN  /\ t # Nobody
      /\ request[r].todo = <<>> /\ request[r].checking = 0
      /\ request' = [request EXCEPT ![r] = Idle]
      /\ IF waiting[t].on = r
           THEN /\ outbox' = MarkPushed(t, request[r].ids)
                /\ waiting' = [waiting EXCEPT ![t] = NotWaiting]
           ELSE UNCHANGED <<outbox, waiting>>
      /\ UNCHANGED <<logVars, conflicts, faults>>

\* The handler ends part-way; a terminal that waits for it sees an error.
Die(r) ==
  LET t == request[r].by
  IN  /\ t # Nobody
      /\ Fault
      /\ Abandon(r)
      /\ request' = [request EXCEPT ![r] = Idle]
      /\ waiting' = IF waiting[t].on = r THEN [waiting EXCEPT ![t] = NotWaiting] ELSE waiting
      /\ UNCHANGED <<outbox, conflicts>>

-----------------------------------------------------------------------------
Pull(t) ==
  /\ \/ PullEvents(t) \/ ApplyEvent(t) \/ SetCursor(t)
  /\ UNCHANGED <<outbox, request, waiting, conflicts, faults>>

LosePull(t) ==
  /\ BreakPull(t)
  /\ Fault
  /\ UNCHANGED <<outbox, request, waiting, conflicts>>

Handle(r) == PushNextId(r) \/ PushPutItem(r) \/ DetectConflict(r) \/ Answer(r)

PushNext ==
  \/ \E t \in Terminals :
       \/ \E row \in Rows, at \in Times : LocalWrite(t, row, at)
       \/ \E r \in Appenders : DrainOutbox(t, r)
       \/ GiveUp(t)
       \/ Pull(t)
       \/ LosePull(t)
  \/ \E r \in Appenders : Handle(r) \/ Die(r)

PushSpec == PushInit /\ [][PushNext]_pushVars

-----------------------------------------------------------------------------
\* A row marked as pushed is in the log under the id it was marked with: ids
\* are matched to rows by position, and a repeated or overtaken request must
\* not give one row another's id.
PushedIsStored ==
  \A t \in Terminals : \A i \in 1..Len(outbox[t]) :
    outbox[t][i].pushed # 0 =>
      [id |-> outbox[t][i].pushed, item |-> outbox[t][i].item] \in log

\* Terminals that have pulled equally far hold the same rows: which of two
\* writes of one revision is kept depends on the log alone, not on how the
\* pages fell or which pulls broke.  It is claimed for logs in which no id was
\* overtaken.
InboxesAgree ==
  \A t, u \in Terminals :
    cursor[t] = cursor[u] /\ overtaken = {} =>
      {e \in inbox[t] : e.id <= cursor[t]} = {e \in inbox[u] : e.id <= cursor[u]}
=============================================================================
