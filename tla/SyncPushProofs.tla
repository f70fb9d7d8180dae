--------------------------- MODULE SyncPushProofs ---------------------------
(***************************************************************************)
(* The log that terminals push to and pull from, for any terminals,        *)
(* requests, rows, page size and push limit: what a cursor has passed is   *)
(* in the inbox, an id names one event, a row marked as pushed is in the   *)
(* log under the id it was marked with, and terminals that have pulled     *)
(* equally far hold the same events.                                       *)
(*                                                                         *)
(* The marks are right because of Aligned, which says of a request that is *)
(* still awaited that the ids assigned so far and the rows to come are     *)
(* those of the rows the terminal sent, place by place.                    *)
(***************************************************************************)
EXTENDS SyncPush, EventLogProofs

PushItem == PushItems

PushShape ==
  /\ outbox \in [Terminals -> Seq([item : PushItem, pushed : Nat])]
  /\ request \in [Appenders -> [by : Terminals \union {Nobody}, todo : Seq(PushItem),
                                ids : Seq(Nat), checking : Nat]]
  /\ waiting \in [Terminals -> [on : Appenders \union {Nobody}, rows : Seq(Nat)]]

(* An id is drawn only by a request that has a row to write under it.       *)
DrawnForARow ==
  \A r \in Appenders : drawn[r] # 0 => request[r].by # Nobody /\ request[r].todo # <<>>

(* What request q says of the rows that were sent from the outbox box, with *)
(* the events of stored in the log.                                         *)
Aligned(box, rows, q, stored) ==
  /\ \A k \in 1..Len(rows) : rows[k] \in 1..Len(box)
  /\ Len(q.ids) + Len(q.todo) = Len(rows)
  /\ \A k \in 1..Len(q.ids) : [id |-> q.ids[k], item |-> box[rows[k]].item] \in stored
  /\ \A k \in 1..Len(q.todo) : q.todo[k] = box[rows[Len(q.ids) + k]].item

AwaitedAreAligned ==
  \A t \in Terminals, r \in Appenders :
    request[r].by = t /\ waiting[t].on = r => Aligned(outbox[t], waiting[t].rows, request[r], log)

PushIInv ==
  /\ LogIInv /\ FirstsKept
  /\ PushShape /\ DrawnForARow /\ AwaitedAreAligned /\ PushedIsStored

(* The rest of PushTypeOK, for what the steps do not read.                  *)
PushHolds == LogHolds /\ conflicts \subseteq Nat \X Nat /\ faults \in 0..MaxFaults

(* The event a request compares with its predecessor is in the log.         *)
CheckedIsStored ==
  \A r \in Appenders : request[r].checking # 0 => \E f \in log : f.id = request[r].checking

-----------------------------------------------------------------------------
(* The log                                                                  *)

LEMMA PushKeepsLog ==
  ASSUME LogIInv, FirstsKept, [PushNext]_pushVars
  PROVE  LogIInv' /\ FirstsKept'
<1>1. CASE UNCHANGED logVars
  <2>1. LogIInv'
    BY <1>1 DEF logVars, LogIInv, LogShape, IdsUnique, PageCovers, CursorCovers, SameRevision
  <2> QED BY <1>1, <2>1, DrawKeepsFirsts DEF logVars
<1>2. ASSUME NEW t \in Terminals, Pull(t) \/ LosePull(t)
      PROVE  LogIInv' /\ FirstsKept'
  BY <1>2, PullKeeps, ApplyKeeps, EndPullKeeps, PullKeepsFirsts, ApplyKeepsFirsts,
     EndPullKeepsFirsts DEF Pull, LosePull, Terminals
<1>3. ASSUME NEW r \in Appenders, NextId(r) \/ Abandon(r)
      PROVE  LogIInv' /\ FirstsKept'
  BY <1>3, DrawKeeps, DrawKeepsFirsts DEF NextId, Abandon
<1>4. ASSUME NEW r \in Appenders, Handle(r) \/ Die(r)
      PROVE  LogIInv' /\ FirstsKept'
  <2>1. CASE PushNextId(r)
    BY <1>3, <2>1 DEF PushNextId
  <2>2. CASE PushPutItem(r)
    BY <2>2, PutKeeps, PutKeepsFirsts DEF PushPutItem
  <2>3. CASE DetectConflict(r)
    BY <1>1, <2>3 DEF DetectConflict
  <2>4. CASE Answer(r)
    BY <1>1, <2>4 DEF Answer
  <2>5. CASE Die(r)
    BY <1>3, <2>5 DEF Die
  <2> QED BY <1>4, <2>1, <2>2, <2>3, <2>4, <2>5 DEF Handle
<1>5. ASSUME NEW t \in Terminals, \/ \E row \in Rows, at \in Times : LocalWrite(t, row, at)
                                  \/ \E r \in Appenders : DrainOutbox(t, r)
                                  \/ GiveUp(t)
      PROVE  LogIInv' /\ FirstsKept'
  BY <1>1, <1>5 DEF LocalWrite, DrainOutbox, GiveUp
<1>6. CASE UNCHANGED pushVars
  BY <1>1, <1>6 DEF pushVars
<1> QED BY <1>2, <1>4, <1>5, <1>6 DEF PushNext

LEMMA LogGrows ==
  ASSUME [PushNext]_pushVars
  PROVE  log \subseteq log'
BY DEF PushNext, pushVars, logVars, Pull, LosePull, Handle, Die, PushNextId, PushPutItem,
       DetectConflict, Answer, LocalWrite, DrainOutbox, GiveUp, NextId, PutItem, Abandon,
       PullEvents, ApplyEvent, SetCursor, BreakPull

-----------------------------------------------------------------------------
(* The outbox and the requests                                              *)

LEMMA BoxOf ==
  ASSUME PushShape, NEW t \in Terminals
  PROVE  /\ outbox[t] \in Seq([item : PushItem, pushed : Nat])
         /\ waiting[t].on \in Appenders \union {Nobody} /\ waiting[t].rows \in Seq(Nat)
         /\ waiting[t] \in [on : Appenders \union {Nobody}, rows : Seq(Nat)]
BY DEF PushShape

LEMMA RequestOf ==
  ASSUME PushShape, NEW r \in Appenders
  PROVE  /\ request[r].by \in Terminals \union {Nobody} /\ request[r].todo \in Seq(PushItem)
         /\ request[r].ids \in Seq(Nat) /\ request[r].checking \in Nat
         /\ request[r] \in [by : Terminals \union {Nobody}, todo : Seq(PushItem),
                            ids : Seq(Nat), checking : Nat]
BY DEF PushShape

LEMMA AlignedStays ==
  ASSUME NEW box, NEW rows, NEW q, NEW p, p.ids = q.ids, p.todo = q.todo,
         NEW old, NEW stored, old \subseteq stored, Aligned(box, rows, q, old)
  PROVE  Aligned(box, rows, p, stored)
BY DEF Aligned

LEMMA SeqFacts ==
  ASSUME NEW S, NEW s \in Seq(S)
  PROVE  Len(s) \in Nat /\ \A k \in 1..Len(s) : s[k] \in S
OBVIOUS

LEMMA AppendFacts ==
  ASSUME NEW S, NEW s \in Seq(S), NEW x \in S
  PROVE  /\ Append(s, x) \in Seq(S) /\ Len(Append(s, x)) = Len(s) + 1
         /\ \A k \in 1..Len(s) : Append(s, x)[k] = s[k]
         /\ Append(s, x)[Len(s) + 1] = x
OBVIOUS

LEMMA TailFacts ==
  ASSUME NEW S, NEW s \in Seq(S), s # <<>>
  PROVE  /\ Tail(s) \in Seq(S) /\ Len(Tail(s)) = Len(s) - 1 /\ Len(s) >= 1
         /\ \A k \in 1..Len(Tail(s)) : Tail(s)[k] = s[k + 1]
         /\ Head(s) = s[1] /\ Head(s) \in S
OBVIOUS

LEMMA Longer == \A n \in Nat : 1..n \subseteq 1..(n + 1)
OBVIOUS

(* Of a rows with ids, and b rows to come.                                  *)
LEMMA Places ==
  ASSUME NEW a \in Nat, NEW b \in Nat
  PROVE  /\ \A k \in 1..a : k \in 1..(a + b)
         /\ \A k \in 1..b : a + k \in 1..(a + b)
OBVIOUS

LEMMA NextPlace ==
  ASSUME NEW a \in Nat, NEW b \in Nat, b >= 1
  PROVE  /\ (a + 1) + (b - 1) = a + b /\ 1 \in 1..b
         /\ \A k \in 1..(a + 1) : k \in 1..a \/ k = a + 1
         /\ \A k \in 1..(b - 1) : k + 1 \in 1..b /\ a + (k + 1) = (a + 1) + k
OBVIOUS

(* Before the last write, no outbox is as long as the bound on the writes.  *)
LEMMA BoxIsShort ==
  ASSUME NEW t \in Terminals, Len(outbox[t]) \in Nat, Cardinality(Written) < MaxWrites
  PROVE  Len(outbox[t]) < MaxWrites
<1> SUFFICES ASSUME MaxWrites <= Len(outbox[t])
             PROVE  FALSE
  BY PushAssumption
<1> DEFINE mine == {t} \X (1..MaxWrites)
<1>1. mine \subseteq Written
  BY PushAssumption DEF Written
<1>2. IsFiniteSet(Terminals) /\ IsFiniteSet(1..MaxWrites) /\ Cardinality(1..MaxWrites) = MaxWrites
  BY PushAssumption, FS_Interval DEF Terminals
<1>3. IsFiniteSet(Terminals \X (1..MaxWrites))
  BY <1>2, FS_Product
<1>4. IsFiniteSet(Written)
  BY <1>3, FS_Subset DEF Written
<1>5. IsFiniteSet({t}) /\ Cardinality({t}) = 1
  BY FS_Singleton
<1>6. Cardinality(mine) = 1 * MaxWrites
  <2>1. Cardinality({t} \X (1..MaxWrites)) = Cardinality({t}) * Cardinality(1..MaxWrites)
    BY <1>2, <1>5, FS_Product
  <2> QED BY <1>2, <1>5, <2>1
<1>7. Cardinality(mine) <= Cardinality(Written) /\ Cardinality(Written) \in Nat
  BY <1>1, <1>4, FS_Subset, FS_CardinalityType
<1> QED BY <1>6, <1>7, PushAssumption

LEMMA LocalWriteKeeps ==
  ASSUME PushIInv, NEW t \in Terminals, NEW row \in Rows, NEW at \in Times, LocalWrite(t, row, at)
  PROVE  PushShape' /\ DrawnForARow' /\ AwaitedAreAligned' /\ PushedIsStored'
<1> DEFINE rev == 1 + Cardinality({i \in 1..Len(outbox[t]) : outbox[t][i].item.row = row})
           new == [item |-> [row |-> row, rev |-> rev, by |-> t, at |-> at], pushed |-> 0]
<1>1. /\ outbox' = [outbox EXCEPT ![t] = Append(@, new)]
      /\ UNCHANGED <<logVars, request, waiting>>
  BY DEF LocalWrite
<1>2. rev \in 1..MaxWrites
  <2> DEFINE mine == {i \in 1..Len(outbox[t]) : outbox[t][i].item.row = row}
  <2>1. Len(outbox[t]) \in Nat /\ Len(outbox[t]) < MaxWrites
    BY BoxIsShort, BoxOf, SeqFacts DEF PushIInv, LocalWrite
  <2>2. IsFiniteSet(1..Len(outbox[t])) /\ Cardinality(1..Len(outbox[t])) = Len(outbox[t])
    BY <2>1, FS_Interval
  <2>3. mine \subseteq 1..Len(outbox[t])
    OBVIOUS
  <2>4. Cardinality(mine) \in Nat /\ Cardinality(mine) <= Len(outbox[t])
    BY <2>2, <2>3, FS_Subset, FS_CardinalityType
  <2> HIDE DEF mine
  <2> QED BY <2>1, <2>4, PushAssumption DEF mine
<1>3. new \in [item : PushItem, pushed : Nat]
  BY <1>2 DEF PushItem, PushItems
<1> HIDE DEF new
<1>4. /\ outbox'[t] = Append(outbox[t], new)
      /\ \A u \in Terminals \ {t} : outbox'[u] = outbox[u]
  BY <1>1 DEF PushIInv, PushShape
<1>5. PushShape'
  <2>1. Append(outbox[t], new) \in Seq([item : PushItem, pushed : Nat])
    BY <1>3, BoxOf, AppendFacts DEF PushIInv
  <2>2. outbox' \in [Terminals -> Seq([item : PushItem, pushed : Nat])]
    BY <1>1, <2>1 DEF PushIInv, PushShape
  <2> QED BY <1>1, <2>2 DEF PushIInv, PushShape
<1>6. /\ Len(outbox'[t]) = Len(outbox[t]) + 1 /\ Len(outbox[t]) \in Nat
      /\ \A i \in 1..Len(outbox[t]) : outbox'[t][i] = outbox[t][i]
      /\ outbox'[t][Len(outbox[t]) + 1] = new
  BY <1>3, <1>4, BoxOf, AppendFacts, SeqFacts DEF PushIInv
<1>7. ASSUME NEW u \in Terminals, NEW r \in Appenders, request[r].by = u, waiting[u].on = r
      PROVE  Aligned(outbox'[u], waiting[u].rows, request[r], log)
  <2>1. Aligned(outbox[u], waiting[u].rows, request[r], log)
    BY <1>7 DEF PushIInv, AwaitedAreAligned
  <2>2. CASE u = t
    <3> DEFINE rows == waiting[t].rows
               q    == request[r]
    <3>0. Len(q.ids) \in Nat /\ Len(q.todo) \in Nat
      BY RequestOf, SeqFacts DEF PushIInv
    <3> HIDE DEF rows, q
    <3>1. Aligned(outbox[t], rows, q, log)
      BY <2>1, <2>2 DEF rows, q
    <3>2. Len(q.ids) + Len(q.todo) = Len(rows) /\ \A k \in 1..Len(rows) : rows[k] \in 1..Len(outbox[t])
      BY <3>1 DEF Aligned
    <3>3. \A k \in 1..Len(q.ids) : rows[k] \in 1..Len(outbox[t])
      BY <3>0, <3>2, Places
    <3>4. \A k \in 1..Len(q.todo) : rows[Len(q.ids) + k] \in 1..Len(outbox[t])
      BY <3>0, <3>2, Places
    <3>5. \A k \in 1..Len(rows) : rows[k] \in 1..Len(outbox'[t])
      BY <1>6, <3>2, Longer
    <3>6. Aligned(outbox'[t], rows, q, log)
      BY <1>6, <3>1, <3>2, <3>3, <3>4, <3>5 DEF Aligned
    <3> QED BY <2>2, <3>6 DEF rows, q
  <2>3. CASE u # t
    BY <1>4, <2>1, <2>3
  <2> QED BY <2>2, <2>3
<1>8. AwaitedAreAligned'
  BY <1>1, <1>7 DEF AwaitedAreAligned, logVars
<1>9. PushedIsStored'
  <2> SUFFICES ASSUME NEW u \in Terminals, NEW i \in 1..Len(outbox'[u]), outbox'[u][i].pushed # 0
               PROVE  [id |-> outbox'[u][i].pushed, item |-> outbox'[u][i].item] \in log
    BY <1>1 DEF PushedIsStored, logVars
  <2>1. new.pushed = 0
    BY DEF new
  <2>2. i \in 1..Len(outbox[u]) /\ outbox'[u][i] = outbox[u][i]
    BY <1>4, <1>6, <2>1
  <2> QED BY <2>2 DEF PushIInv, PushedIsStored
<1> QED BY <1>1, <1>5, <1>8, <1>9 DEF PushIInv, DrawnForARow, logVars

LEMMA DrainKeeps ==
  ASSUME PushIInv, NEW t \in Terminals, NEW r \in Appenders, DrainOutbox(t, r)
  PROVE  PushShape' /\ DrawnForARow' /\ AwaitedAreAligned' /\ PushedIsStored'
<1> DEFINE todo(p) == [k \in 1..Len(p) |-> outbox[t][p[k]].item]
           sent(p) == [by |-> t, ids |-> <<>>, checking |-> 0, todo |-> todo(p)]
<1>1. PICK p \in Oldest(t) : /\ request' = [request EXCEPT ![r] = sent(p)]
                             /\ waiting' = [waiting EXCEPT ![t] = [on |-> r, rows |-> p]]
  BY DEF DrainOutbox
<1>2. UNCHANGED <<logVars, outbox>> /\ waiting[t] = NotWaiting /\ request[r] = Idle
  BY DEF DrainOutbox
<1>3. p \in Seq(Nat) /\ \A k \in 1..Len(p) : p[k] \in 1..Len(outbox[t])
  <2>1. PICK n \in 1..PushLimit : p \in [1..n -> Unpushed(t)]
    BY DEF Oldest
  <2>2. Unpushed(t) \subseteq 1..Len(outbox[t]) /\ Unpushed(t) \subseteq Nat /\ n \in Nat
    BY PushAssumption DEF Unpushed
  <2>3. p \in [1..n -> Nat] /\ \A k \in 1..n : p[k] \in 1..Len(outbox[t])
    BY <2>1, <2>2
  <2>4. p \in Seq(Nat) /\ Len(p) = n
    BY <2>2, <2>3
  <2> QED BY <2>3, <2>4
<1>4. todo(p) \in Seq(PushItem) /\ Len(todo(p)) = Len(p)
      /\ \A k \in 1..Len(p) : todo(p)[k] = outbox[t][p[k]].item
  <2>0. \A i \in 1..Len(outbox[t]) : outbox[t][i] \in [item : PushItem, pushed : Nat]
    BY BoxOf, SeqFacts DEF PushIInv
  <2>1. \A k \in 1..Len(p) : outbox[t][p[k]].item \in PushItem
    BY <1>3, <2>0
  <2>2. Len(p) \in Nat
    BY <1>3
  <2>3. todo(p) \in [1..Len(p) -> PushItem]
    BY <2>1
  <2> QED BY <2>2, <2>3
<1> HIDE DEF todo
<1>5. /\ request' = [request EXCEPT ![r] = sent(p)] /\ request'[r] = sent(p)
      /\ \A a \in Appenders \ {r} : request'[a] = request[a]
      /\ waiting'[t] = [on |-> r, rows |-> p]
      /\ \A u \in Terminals \ {t} : waiting'[u] = waiting[u]
  BY <1>1 DEF PushIInv, PushShape
<1>6. PushShape'
  <2>1. sent(p) \in [by : Terminals \union {Nobody}, todo : Seq(PushItem), ids : Seq(Nat), checking : Nat]
    BY <1>4
  <2>2. [on |-> r, rows |-> p] \in [on : Appenders \union {Nobody}, rows : Seq(Nat)]
    BY <1>3
  <2> QED BY <1>1, <1>2, <2>1, <2>2 DEF PushIInv, PushShape
<1>7. DrawnForARow'
  <2>1. drawn[r] = 0
    BY <1>2 DEF PushIInv, DrawnForARow, Idle
  <2> QED BY <1>2, <1>5, <2>1 DEF PushIInv, DrawnForARow, logVars
<1>8. Aligned(outbox[t], p, sent(p), log)
  <2>1. Len(<<>>) = 0 /\ Len(p) \in Nat
    BY <1>3
  <2>2. sent(p).ids = <<>> /\ sent(p).todo = todo(p)
    OBVIOUS
  <2> QED BY <1>3, <1>4, <2>1, <2>2 DEF Aligned
<1> HIDE DEF sent
<1>9. AwaitedAreAligned'
  <2> SUFFICES ASSUME NEW u \in Terminals, NEW a \in Appenders,
                      request'[a].by = u, waiting'[u].on = a
               PROVE  Aligned(outbox[u], waiting'[u].rows, request'[a], log)
    BY <1>2 DEF AwaitedAreAligned, logVars
  <2>1. CASE u = t
    <3>1. a = r /\ waiting'[u].rows = p
      BY <1>5, <2>1
    <3> QED BY <1>5, <1>8, <2>1, <3>1
  <2>2. CASE u # t
    <3>1. a # r
      BY <1>5, <2>2 DEF sent
    <3>2. Aligned(outbox[u], waiting[u].rows, request[a], log)
      BY <1>5, <2>2, <3>1 DEF PushIInv, AwaitedAreAligned
    <3> QED BY <1>5, <2>2, <3>1, <3>2
  <2> QED BY <2>1, <2>2
<1> QED BY <1>2, <1>6, <1>7, <1>9 DEF PushIInv, PushedIsStored, logVars

LEMMA GiveUpKeeps ==
  ASSUME PushIInv, NEW t \in Terminals, GiveUp(t)
  PROVE  PushShape' /\ DrawnForARow' /\ AwaitedAreAligned' /\ PushedIsStored'
<1>1. waiting' = [waiting EXCEPT ![t] = NotWaiting] /\ UNCHANGED <<logVars, outbox, request>>
  BY DEF GiveUp
<1>2. waiting'[t].on = Nobody /\ \A u \in Terminals \ {t} : waiting'[u] = waiting[u]
  BY <1>1 DEF PushIInv, PushShape, NotWaiting
<1>3. AwaitedAreAligned'
  <2> SUFFICES ASSUME NEW u \in Terminals, NEW a \in Appenders,
                      request[a].by = u, waiting'[u].on = a
               PROVE  Aligned(outbox[u], waiting'[u].rows, request[a], log)
    BY <1>1 DEF AwaitedAreAligned, logVars
  <2>1. u # t
    BY <1>2, PushAssumption
  <2> QED BY <1>2, <2>1 DEF PushIInv, AwaitedAreAligned
<1>4. NotWaiting \in [on : Appenders \union {Nobody}, rows : Seq(Nat)]
  BY DEF NotWaiting
<1>5. PushShape'
  BY <1>1, <1>4 DEF PushIInv, PushShape
<1> QED BY <1>1, <1>3, <1>5 DEF PushIInv, DrawnForARow, PushedIsStored, logVars

-----------------------------------------------------------------------------
(* The handler                                                              *)

LEMMA PutRowKeeps ==
  ASSUME PushIInv, NEW r \in Appenders, PushPutItem(r)
  PROVE  PushShape' /\ DrawnForARow' /\ AwaitedAreAligned' /\ PushedIsStored'
<1> DEFINE q   == request[r]
           new == [by |-> q.by, todo |-> Tail(q.todo), ids |-> Append(q.ids, drawn[r]),
                   checking |-> drawn[r]]
           row == [id |-> drawn[r], item |-> Head(q.todo)]
<1>1. /\ request' = [request EXCEPT ![r].todo = Tail(@), ![r].ids = Append(@, drawn[r]),
                                    ![r].checking = drawn[r]]
      /\ UNCHANGED <<outbox, waiting>>
      /\ log' = log \union {row} /\ drawn[r] # 0
      /\ drawn' = [drawn EXCEPT ![r] = 0]
  BY DEF PushPutItem, PutItem, AfterPut
<1>2. /\ q.todo # <<>> /\ q.by # Nobody /\ drawn[r] \in Nat
      /\ q.todo \in Seq(PushItem) /\ q.ids \in Seq(Nat)
      /\ q \in [by : Terminals \union {Nobody}, todo : Seq(PushItem), ids : Seq(Nat), checking : Nat]
  BY <1>1, RequestOf DEF PushIInv, DrawnForARow, LogIInv, LogShape
<1>3. /\ Tail(q.todo) \in Seq(PushItem) /\ Len(Tail(q.todo)) = Len(q.todo) - 1 /\ Len(q.todo) >= 1
      /\ \A k \in 1..Len(Tail(q.todo)) : Tail(q.todo)[k] = q.todo[k + 1]
      /\ Head(q.todo) = q.todo[1]
  BY <1>2, TailFacts
<1>4. /\ Append(q.ids, drawn[r]) \in Seq(Nat) /\ Len(Append(q.ids, drawn[r])) = Len(q.ids) + 1
      /\ \A k \in 1..Len(q.ids) : Append(q.ids, drawn[r])[k] = q.ids[k]
      /\ Append(q.ids, drawn[r])[Len(q.ids) + 1] = drawn[r]
  BY <1>2, AppendFacts
<1>5. /\ new.by = q.by /\ new.todo = Tail(q.todo) /\ new.ids = Append(q.ids, drawn[r])
      /\ new \in [by : Terminals \union {Nobody}, todo : Seq(PushItem), ids : Seq(Nat), checking : Nat]
  BY <1>2, <1>3, <1>4
<1>6. Len(q.todo) \in Nat /\ Len(q.ids) \in Nat /\ Len(Tail(q.todo)) \in Nat
  BY <1>2, <1>3, SeqFacts
<1>7. /\ request'[r] = new /\ \A a \in Appenders \ {r} : request'[a] = request[a]
      /\ request' = [a \in Appenders |-> request'[a]]
  <2>1. /\ \A a \in Appenders \ {r} : request'[a] = request[a]
        /\ request' = [a \in Appenders |-> request'[a]]
    BY <1>1 DEF PushIInv, PushShape
  <2>2. request'[r] = [q EXCEPT !.todo = Tail(q.todo), !.ids = Append(q.ids, drawn[r]), !.checking = drawn[r]]
    BY <1>1 DEF PushIInv, PushShape
  <2>3. request'[r] = new
    BY <1>2, <2>2
  <2> QED BY <2>1, <2>3
<1>8. PushShape'
  <2> HIDE DEF new
  <2>1. \A a \in Appenders : request'[a] \in
          [by : Terminals \union {Nobody}, todo : Seq(PushItem), ids : Seq(Nat), checking : Nat]
    BY <1>5, <1>7, RequestOf DEF PushIInv
  <2> QED BY <1>1, <1>7, <2>1 DEF PushIInv, PushShape
<1>9. DrawnForARow'
  BY <1>1, <1>7 DEF PushIInv, DrawnForARow, LogIInv, LogShape
<1> HIDE DEF new, row, q
<1>10. ASSUME NEW box, NEW rows, Aligned(box, rows, q, log)
       PROVE  Aligned(box, rows, new, log')
  <2>1. Len(new.ids) = Len(q.ids) + 1 /\ Len(new.todo) = Len(q.todo) - 1
    BY <1>3, <1>4, <1>5
  <2>2. Len(new.ids) + Len(new.todo) = Len(rows)
    <3>1. Len(q.ids) + Len(q.todo) = Len(rows)
      BY <1>10 DEF Aligned
    <3>2. (Len(q.ids) + 1) + (Len(q.todo) - 1) = Len(q.ids) + Len(q.todo)
      BY <1>3, <1>6, NextPlace
    <3> QED BY <2>1, <3>1, <3>2
  <2>3. \A k \in 1..Len(new.ids) : [id |-> new.ids[k], item |-> box[rows[k]].item] \in log'
    <3> SUFFICES ASSUME NEW k \in 1..Len(new.ids)
                 PROVE  [id |-> new.ids[k], item |-> box[rows[k]].item] \in log'
      OBVIOUS
    <3>1. CASE k \in 1..Len(q.ids)
      BY <1>1, <1>4, <1>5, <1>10, <3>1 DEF Aligned
    <3>2. CASE k = Len(q.ids) + 1
      <4>1. q.todo[1] = box[rows[Len(q.ids) + 1]].item
        <5>1. 1 \in 1..Len(q.todo)
          BY <1>3, <1>6, NextPlace
        <5> QED BY <1>10, <5>1 DEF Aligned
      <4>2. new.ids[k] = drawn[r] /\ Head(q.todo) = box[rows[k]].item
        BY <1>3, <1>4, <1>5, <3>2, <4>1
      <4>3. [id |-> new.ids[k], item |-> box[rows[k]].item] = row
        BY <4>2 DEF row
      <4> QED BY <1>1, <4>3
    <3> QED BY <1>3, <1>6, <2>1, <3>1, <3>2, NextPlace
  <2>4. \A k \in 1..Len(new.todo) : new.todo[k] = box[rows[Len(new.ids) + k]].item
    <3> SUFFICES ASSUME NEW k \in 1..Len(new.todo)
                 PROVE  new.todo[k] = box[rows[Len(new.ids) + k]].item
      OBVIOUS
    <3>1. new.todo[k] = q.todo[k + 1] /\ k + 1 \in 1..Len(q.todo)
      BY <1>3, <1>5, <1>6, <2>1, NextPlace
    <3>2. q.todo[k + 1] = box[rows[Len(q.ids) + (k + 1)]].item
      BY <1>10, <3>1 DEF Aligned
    <3>3. Len(q.ids) + (k + 1) = Len(new.ids) + k
      <4>1. k \in 1..(Len(q.todo) - 1)
        BY <2>1
      <4>2. Len(q.ids) + (k + 1) = (Len(q.ids) + 1) + k
        BY <1>3, <1>6, <4>1, NextPlace
      <4> QED BY <2>1, <4>2
    <3> QED BY <3>1, <3>2, <3>3
  <2> QED BY <1>10, <2>2, <2>3, <2>4 DEF Aligned
<1>11. AwaitedAreAligned'
  <2> SUFFICES ASSUME NEW t \in Terminals, NEW a \in Appenders,
                      request'[a].by = t, waiting[t].on = a
               PROVE  Aligned(outbox[t], waiting[t].rows, request'[a], log')
    BY <1>1 DEF AwaitedAreAligned
  <2>1. CASE a = r
    <3>1. Aligned(outbox[t], waiting[t].rows, q, log)
      BY <1>5, <1>7, <2>1 DEF PushIInv, AwaitedAreAligned, q
    <3> QED BY <1>7, <1>10, <2>1, <3>1
  <2>2. CASE a # r
    <3>1. Aligned(outbox[t], waiting[t].rows, request[a], log)
      BY <1>7, <2>2 DEF PushIInv, AwaitedAreAligned
    <3> QED BY <1>1, <1>7, <2>2, <3>1, AlignedStays
  <2> QED BY <2>1, <2>2
<1>12. PushedIsStored'
  BY <1>1 DEF PushIInv, PushedIsStored
<1> QED BY <1>8, <1>9, <1>11, <1>12

LEMMA AnswerKeeps ==
  ASSUME PushIInv, NEW r \in Appenders, Answer(r)
  PROVE  PushShape' /\ DrawnForARow' /\ AwaitedAreAligned' /\ PushedIsStored'
<1> DEFINE t   == request[r].by
           ids == request[r].ids
           sent(i) == {k \in 1..Len(ids) : waiting[t].rows[k] = i}
           marked(i) == IF sent(i) = {} THEN outbox[t][i]
                        ELSE [outbox[t][i] EXCEPT !.pushed = ids[CHOOSE k \in sent(i) : TRUE]]
<1>1. /\ request' = [request EXCEPT ![r] = Idle] /\ UNCHANGED logVars
      /\ t # Nobody /\ request[r].todo = <<>>
  BY DEF Answer
<1>2. t \in Terminals /\ ids \in Seq(Nat)
  BY <1>1, RequestOf DEF PushIInv
<1>3. Idle \in [by : Terminals \union {Nobody}, todo : Seq(PushItem), ids : Seq(Nat), checking : Nat]
  BY DEF Idle
<1>4. /\ request' \in [Appenders -> [by : Terminals \union {Nobody}, todo : Seq(PushItem),
                                     ids : Seq(Nat), checking : Nat]]
      /\ request'[r].by = Nobody /\ \A a \in Appenders \ {r} : request'[a] = request[a]
  BY <1>1, <1>3 DEF PushIInv, PushShape, Idle
<1>5. DrawnForARow'
  <2>1. drawn[r] = 0
    BY <1>1 DEF PushIInv, DrawnForARow
  <2> QED BY <1>1, <1>4, <2>1 DEF PushIInv, DrawnForARow, logVars
<1> HIDE DEF t, ids
<1>6. CASE waiting[t].on # r
  <2>1. UNCHANGED <<outbox, waiting>>
    BY <1>6 DEF Answer, t
  <2>2. PushShape' /\ PushedIsStored'
    BY <1>1, <1>4, <2>1 DEF PushIInv, PushShape, PushedIsStored, logVars
  <2>3. AwaitedAreAligned'
    <3> SUFFICES ASSUME NEW u \in Terminals, NEW a \in Appenders,
                        request'[a].by = u, waiting[u].on = a
                 PROVE  Aligned(outbox[u], waiting[u].rows, request'[a], log)
      BY <1>1, <2>1 DEF AwaitedAreAligned, logVars
    <3>1. a # r
      BY <1>4, PushAssumption DEF Terminals
    <3> QED BY <1>4, <3>1 DEF PushIInv, AwaitedAreAligned
  <2> QED BY <1>5, <2>2, <2>3
<1>7. CASE waiting[t].on = r
  <2>1. /\ outbox' = [outbox EXCEPT ![t] = [i \in 1..Len(@) |-> marked(i)]]
        /\ waiting' = [waiting EXCEPT ![t] = NotWaiting]
    BY <1>7 DEF Answer, MarkPushed, t, ids
  <2>2. Aligned(outbox[t], waiting[t].rows, request[r], log)
    BY <1>2, <1>7 DEF PushIInv, AwaitedAreAligned, t
  <2>3. \A k \in 1..Len(ids) : [id |-> ids[k], item |-> outbox[t][waiting[t].rows[k]].item] \in log
    BY <2>2 DEF Aligned, ids
  <2>4. Len(outbox[t]) \in Nat /\ \A i \in 1..Len(outbox[t]) : outbox[t][i] \in [item : PushItem, pushed : Nat]
    BY <1>2, BoxOf, SeqFacts DEF PushIInv
  <2>5. ASSUME NEW i \in 1..Len(outbox[t])
        PROVE  /\ marked(i) \in [item : PushItem, pushed : Nat] /\ marked(i).item = outbox[t][i].item
               /\ marked(i) = outbox[t][i] \/ [id |-> marked(i).pushed, item |-> outbox[t][i].item] \in log
    <3>1. CASE sent(i) = {}
      BY <2>4, <3>1
    <3>2. CASE sent(i) # {}
      <4>1. PICK k \in sent(i) : k = CHOOSE l \in sent(i) : TRUE
        BY <3>2
      <4>2. marked(i) = [outbox[t][i] EXCEPT !.pushed = ids[k]]
        BY <3>2, <4>1
      <4>3. k \in 1..Len(ids) /\ waiting[t].rows[k] = i /\ ids[k] \in Nat
        BY <1>2, <4>1, SeqFacts
      <4>4. [id |-> ids[k], item |-> outbox[t][i].item] \in log
        BY <2>3, <4>3
      <4> HIDE DEF marked, sent
      <4> QED BY <2>4, <4>2, <4>3, <4>4
    <3> QED BY <3>1, <3>2
  <2> HIDE DEF marked
  <2>6. /\ outbox'[t] = [i \in 1..Len(outbox[t]) |-> marked(i)]
        /\ \A u \in Terminals \ {t} : outbox'[u] = outbox[u] /\ waiting'[u] = waiting[u]
        /\ waiting'[t].on = Nobody
    BY <1>2, <2>1 DEF PushIInv, PushShape, NotWaiting
  <2>7. /\ [i \in 1..Len(outbox[t]) |-> marked(i)] \in Seq([item : PushItem, pushed : Nat])
        /\ Len(outbox'[t]) = Len(outbox[t]) /\ \A i \in 1..Len(outbox[t]) : outbox'[t][i] = marked(i)
    <3>1. [i \in 1..Len(outbox[t]) |-> marked(i)] \in [1..Len(outbox[t]) -> [item : PushItem, pushed : Nat]]
      BY <2>5
    <3>2. ASSUME NEW S, NEW n \in Nat, NEW f \in [1..n -> S]
          PROVE  f \in Seq(S) /\ Len(f) = n
      OBVIOUS
    <3> QED BY <2>4, <2>6, <3>1, <3>2
  <2>8. PushShape'
    <3>1. outbox' \in [Terminals -> Seq([item : PushItem, pushed : Nat])]
      BY <2>1, <2>7 DEF PushIInv, PushShape
    <3>2. NotWaiting \in [on : Appenders \union {Nobody}, rows : Seq(Nat)]
      BY DEF NotWaiting
    <3> QED BY <1>4, <2>1, <3>1, <3>2 DEF PushIInv, PushShape
  <2>9. AwaitedAreAligned'
    <3> SUFFICES ASSUME NEW u \in Terminals, NEW a \in Appenders,
                        request'[a].by = u, waiting'[u].on = a
                 PROVE  Aligned(outbox'[u], waiting'[u].rows, request'[a], log)
      BY <1>1 DEF AwaitedAreAligned, logVars
    <3>1. a # r /\ u # t
      BY <1>4, <2>6, PushAssumption DEF Terminals
    <3> QED BY <1>4, <2>6, <3>1 DEF PushIInv, AwaitedAreAligned
  <2>10. PushedIsStored'
    <3> SUFFICES ASSUME NEW u \in Terminals, NEW i \in 1..Len(outbox'[u]), outbox'[u][i].pushed # 0
                 PROVE  [id |-> outbox'[u][i].pushed, item |-> outbox'[u][i].item] \in log
      BY <1>1 DEF PushedIsStored, logVars
    <3>1. CASE u = t
      BY <2>5, <2>7, <3>1 DEF PushIInv, PushedIsStored
    <3>2. CASE u # t
      BY <2>6, <3>2 DEF PushIInv, PushedIsStored
    <3> QED BY <3>1, <3>2
  <2> QED BY <1>5, <2>8, <2>9, <2>10
<1> QED BY <1>6, <1>7

LEMMA DieKeeps ==
  ASSUME PushIInv, NEW r \in Appenders, Die(r)
  PROVE  PushShape' /\ DrawnForARow' /\ AwaitedAreAligned' /\ PushedIsStored'
<1> DEFINE t == request[r].by
<1>1. /\ request' = [request EXCEPT ![r] = Idle] /\ drawn' = [drawn EXCEPT ![r] = 0]
      /\ waiting' = IF waiting[t].on = r THEN [waiting EXCEPT ![t] = NotWaiting] ELSE waiting
      /\ UNCHANGED <<log, outbox>>
  BY DEF Die, Abandon
<1>2. Idle \in [by : Terminals \union {Nobody}, todo : Seq(PushItem), ids : Seq(Nat), checking : Nat]
      /\ NotWaiting \in [on : Appenders \union {Nobody}, rows : Seq(Nat)]
  BY DEF Idle, NotWaiting
<1>3. /\ request' \in [Appenders -> [by : Terminals \union {Nobody}, todo : Seq(PushItem),
                                     ids : Seq(Nat), checking : Nat]]
      /\ request'[r].by = Nobody /\ \A a \in Appenders \ {r} : request'[a] = request[a]
  BY <1>1, <1>2 DEF PushIInv, PushShape, Idle
<1>4. PushShape'
  BY <1>1, <1>2, <1>3 DEF PushIInv, PushShape
<1>5. DrawnForARow'
  BY <1>1, <1>3 DEF PushIInv, DrawnForARow, LogIInv, LogShape
<1>6. \A u \in Terminals : waiting'[u] = waiting[u] \/ waiting'[u].on = Nobody
  BY <1>1 DEF PushIInv, PushShape, NotWaiting
<1>7. AwaitedAreAligned'
  <2> SUFFICES ASSUME NEW u \in Terminals, NEW a \in Appenders,
                      request'[a].by = u, waiting'[u].on = a
               PROVE  Aligned(outbox[u], waiting'[u].rows, request'[a], log)
    BY <1>1 DEF AwaitedAreAligned
  <2>1. a # r /\ waiting'[u] = waiting[u]
    BY <1>3, <1>6, PushAssumption DEF Terminals
  <2> QED BY <1>3, <2>1 DEF PushIInv, AwaitedAreAligned
<1> QED BY <1>1, <1>4, <1>5, <1>7 DEF PushIInv, PushedIsStored

(* The other steps leave the rows, the ids and the waiting terminals alone. *)
LEMMA FrameKeeps ==
  ASSUME PushIInv, PushShape', UNCHANGED <<outbox, waiting>>, log \subseteq log',
         \A r \in Appenders : /\ request'[r].by = request[r].by
                              /\ request'[r].todo = request[r].todo /\ request'[r].ids = request[r].ids,
         \A r \in Appenders : drawn'[r] # 0 => drawn[r] # 0 \/ (request[r].by # Nobody /\ request[r].todo # <<>>)
  PROVE  DrawnForARow' /\ AwaitedAreAligned' /\ PushedIsStored'
<1>1. DrawnForARow'
  BY DEF PushIInv, DrawnForARow
<1>2. AwaitedAreAligned'
  <2> SUFFICES ASSUME NEW u \in Terminals, NEW a \in Appenders, request'[a].by = u, waiting[u].on = a
               PROVE  Aligned(outbox[u], waiting[u].rows, request'[a], log')
    BY DEF AwaitedAreAligned
  <2>1. Aligned(outbox[u], waiting[u].rows, request[a], log)
    BY DEF PushIInv, AwaitedAreAligned
  <2> QED BY <2>1, AlignedStays
<1>3. PushedIsStored'
  BY DEF PushIInv, PushedIsStored
<1> QED BY <1>1, <1>2, <1>3

LEMMA OtherStepsKeep ==
  ASSUME PushIInv,
         \/ \E r \in Appenders : PushNextId(r) \/ DetectConflict(r)
         \/ \E t \in Terminals : Pull(t) \/ LosePull(t)
         \/ UNCHANGED pushVars
  PROVE  PushShape' /\ DrawnForARow' /\ AwaitedAreAligned' /\ PushedIsStored'
<1>1. CASE \E r \in Appenders : PushNextId(r)
  <2>1. PICK r \in Appenders : PushNextId(r)
    BY <1>1
  <2>2. UNCHANGED <<outbox, request, waiting, log>> /\ drawn' = [drawn EXCEPT ![r] = seq + 1]
        /\ request[r].by # Nobody /\ request[r].todo # <<>>
    BY <2>1 DEF PushNextId, NextId
  <2>3. PushShape'
    BY <2>2 DEF PushIInv, PushShape
  <2>4. \A a \in Appenders \ {r} : drawn'[a] = drawn[a]
    BY <2>2 DEF PushIInv, LogIInv, LogShape
  <2> QED BY <2>2, <2>3, <2>4, FrameKeeps
<1>2. CASE \E r \in Appenders : DetectConflict(r)
  <2>1. PICK r \in Appenders : DetectConflict(r)
    BY <1>2
  <2>2. UNCHANGED <<logVars, outbox, waiting>> /\ request' = [request EXCEPT ![r].checking = 0]
    BY <2>1 DEF DetectConflict
  <2>3. PushShape'
    BY <2>2 DEF PushIInv, PushShape
  <2>4. \A a \in Appenders : /\ request'[a].by = request[a].by
                             /\ request'[a].todo = request[a].todo /\ request'[a].ids = request[a].ids
    BY <2>2, RequestOf DEF PushIInv, PushShape
  <2> QED BY <2>2, <2>3, <2>4, FrameKeeps DEF logVars
<1>3. CASE UNCHANGED <<outbox, request, waiting, log, drawn>>
  <2>1. PushShape'
    BY <1>3 DEF PushIInv, PushShape
  <2> QED BY <1>3, <2>1, FrameKeeps
<1>4. CASE \E t \in Terminals : Pull(t) \/ LosePull(t)
  BY <1>3, <1>4 DEF Pull, LosePull, PullEvents, ApplyEvent, SetCursor, BreakPull
<1>5. CASE UNCHANGED pushVars
  BY <1>3, <1>5 DEF pushVars, logVars
<1> QED BY <1>1, <1>2, <1>4, <1>5

-----------------------------------------------------------------------------
LEMMA PushInitial ==
  ASSUME PushInit
  PROVE  PushIInv
<1>1. LogIInv /\ FirstsKept
  BY LogInitial, FirstsInitial DEF PushInit
<1>2. <<>> \in Seq([item : PushItem, pushed : Nat]) /\ Len(<<>>) = 0
  OBVIOUS
<1>3. /\ Idle \in [by : Terminals \union {Nobody}, todo : Seq(PushItem), ids : Seq(Nat), checking : Nat]
      /\ NotWaiting \in [on : Appenders \union {Nobody}, rows : Seq(Nat)]
  BY DEF Idle, NotWaiting
<1>4. PushShape
  BY <1>2, <1>3 DEF PushInit, PushShape
<1>5. AwaitedAreAligned
  BY PushAssumption DEF PushInit, AwaitedAreAligned, NotWaiting
<1>6. DrawnForARow
  BY DEF PushInit, LogInit, DrawnForARow
<1>7. PushedIsStored
  BY <1>2 DEF PushInit, PushedIsStored
<1> QED BY <1>1, <1>4, <1>5, <1>6, <1>7 DEF PushIInv

LEMMA PushStep ==
  ASSUME PushIInv, [PushNext]_pushVars
  PROVE  PushIInv'
<1>1. LogIInv' /\ FirstsKept'
  BY PushKeepsLog DEF PushIInv
<1>2. PushShape' /\ DrawnForARow' /\ AwaitedAreAligned' /\ PushedIsStored'
  BY LocalWriteKeeps, DrainKeeps, GiveUpKeeps, PutRowKeeps, AnswerKeeps, DieKeeps, OtherStepsKeep
     DEF PushNext, Handle
<1> QED BY <1>1, <1>2 DEF PushIInv

-----------------------------------------------------------------------------
(* Types                                                                    *)

LEMMA PushTyped ==
  ASSUME PushIInv, PushHolds
  PROVE  PushTypeOK /\ LogInv
<1>1. LogTypeOK
  BY HeldTypes DEF PushIInv, LogIInv, PushHolds
<1>2. OutboxRow = [item : PushItem, pushed : Nat] /\ Items = PushItem
  BY PushAssumption DEF OutboxRow, PushItem
<1>3. PushTypeOK
  BY <1>1, <1>2 DEF PushIInv, PushShape, PushHolds, PushTypeOK
<1>4. \A t \in Readers : inbox[t] \subseteq log /\ page[t].events \subseteq log
  BY DEF PushIInv, LogIInv, LogShape
<1> QED BY <1>1, <1>3, <1>4 DEF PushIInv, LogIInv, LogShape, LogInv

LEMMA PushHoldsInitial ==
  ASSUME PushInit
  PROVE  PushHolds /\ CheckedIsStored
BY PushAssumption DEF PushInit, LogInit, PushHolds, LogHolds, CheckedIsStored, Idle

LEMMA CheckedStep ==
  ASSUME PushIInv, CheckedIsStored, [PushNext]_pushVars
  PROVE  CheckedIsStored'
<1>1. log \subseteq log'
  BY LogGrows
<1>2. ASSUME \A r \in Appenders : request'[r].checking \in {0, request[r].checking}
      PROVE  CheckedIsStored'
  BY <1>1, <1>2 DEF CheckedIsStored
<1>3. CASE UNCHANGED request
  BY <1>2, <1>3
<1>4. ASSUME NEW r \in Appenders, NEW q, q.checking = 0, request' = [request EXCEPT ![r] = q]
      PROVE  CheckedIsStored'
  BY <1>2, <1>4 DEF PushIInv, PushShape
<1>5. ASSUME NEW t \in Terminals, NEW r \in Appenders, DrainOutbox(t, r)
      PROVE  CheckedIsStored'
  BY <1>4, <1>5 DEF DrainOutbox
<1>6. ASSUME NEW r \in Appenders, Answer(r) \/ Die(r)
      PROVE  CheckedIsStored'
  BY <1>4, <1>6 DEF Answer, Die, Idle
<1>7. ASSUME NEW r \in Appenders, DetectConflict(r)
      PROVE  CheckedIsStored'
  <2>1. request' = [request EXCEPT ![r].checking = 0]
    BY <1>7 DEF DetectConflict
  <2> QED BY <1>2, <2>1 DEF PushIInv, PushShape
<1>8. ASSUME NEW r \in Appenders, PushPutItem(r)
      PROVE  CheckedIsStored'
  <2> DEFINE new == [id |-> drawn[r], item |-> Head(request[r].todo)]
  <2>0. new \in log' /\ new.id = drawn[r]
    BY <1>8 DEF PushPutItem, PutItem
  <2>1. \E f \in log' : f.id = drawn[r]
    BY <2>0
  <2>2. request'[r].checking = drawn[r] /\ \A a \in Appenders \ {r} : request'[a] = request[a]
    BY <1>8 DEF PushPutItem, PushIInv, PushShape
  <2> QED BY <1>1, <2>1, <2>2 DEF CheckedIsStored
<1>9. ASSUME NEW r \in Appenders, PushNextId(r)
      PROVE  CheckedIsStored'
  BY <1>3, <1>9 DEF PushNextId
<1>10. ASSUME NEW t \in Terminals, \/ \E row \in Rows, at \in Times : LocalWrite(t, row, at)
                                   \/ GiveUp(t) \/ Pull(t) \/ LosePull(t)
       PROVE  CheckedIsStored'
  BY <1>3, <1>10 DEF LocalWrite, GiveUp, Pull, LosePull
<1>11. CASE UNCHANGED pushVars
  BY <1>3, <1>11 DEF pushVars
<1> QED BY <1>5, <1>6, <1>7, <1>8, <1>9, <1>10, <1>11 DEF PushNext, Handle

LEMMA PushHoldsStep ==
  ASSUME PushIInv, PushHolds, CheckedIsStored, [PushNext]_pushVars
  PROVE  PushHolds'
<1>1. CASE UNCHANGED <<log, overtaken, conflicts>> /\ faults' \in 0..MaxFaults
  BY <1>1 DEF PushHolds, LogHolds
<1>2. Fault => faults' \in 0..MaxFaults
  BY PushAssumption DEF PushHolds, Fault
<1>3. faults' = faults => faults' \in 0..MaxFaults
  BY DEF PushHolds
<1>4. ASSUME NEW t \in Terminals, Pull(t) \/ LosePull(t)
      PROVE  PushHolds'
  BY <1>1, <1>2, <1>3, <1>4 DEF Pull, LosePull, PullEvents, ApplyEvent, SetCursor, BreakPull
<1>5. ASSUME NEW r \in Appenders, PushPutItem(r)
      PROVE  PushHolds'
  <2>1. request[r].todo \in Seq(PushItem) /\ request[r].todo # <<>>
    BY <1>5, RequestOf DEF PushPutItem, PutItem, PushIInv, DrawnForARow
  <2>2. Head(request[r].todo) \in Items
    BY <2>1, TailFacts, PushAssumption DEF PushItem
  <2>3. LogHolds'
    BY <1>5, <2>2, PutHolds DEF PushPutItem, PushIInv, LogIInv, PushHolds
  <2> QED BY <1>3, <1>5, <2>3 DEF PushPutItem, PushHolds
<1>6. ASSUME NEW r \in Appenders, DetectConflict(r)
      PROVE  PushHolds'
  <2> DEFINE e == CHOOSE f \in log : f.id = request[r].checking
             near == {q \in Prior(e) : Within60(q.item.at, e.item.at) /\ q.item.by # e.item.by}
  <2>1. conflicts' = conflicts \union {<<p.id, e.id>> : p \in near}
    BY <1>6 DEF DetectConflict
  <2>2. UNCHANGED <<log, overtaken, faults>>
    BY <1>6 DEF DetectConflict, logVars
  <2>3. \A f \in log : f.id \in Nat
    BY DEF PushHolds, LogHolds, Event
  <2>4. e \in log
    BY <1>6 DEF DetectConflict, CheckedIsStored
  <2>5. near \subseteq log
    BY DEF Prior
  <2> HIDE DEF e, near
  <2>6. conflicts' \subseteq Nat \X Nat
    BY <2>1, <2>3, <2>4, <2>5 DEF PushHolds
  <2> QED BY <2>2, <2>6 DEF PushHolds, LogHolds
<1>7. ASSUME NEW r \in Appenders, PushNextId(r) \/ Answer(r) \/ Die(r)
      PROVE  PushHolds'
  BY <1>1, <1>2, <1>3, <1>7 DEF PushNextId, NextId, Answer, Die, Abandon, logVars
<1>8. ASSUME NEW t \in Terminals, \/ \E row \in Rows, at \in Times : LocalWrite(t, row, at)
                                  \/ \E r \in Appenders : DrainOutbox(t, r)
                                  \/ GiveUp(t)
      PROVE  PushHolds'
  BY <1>1, <1>2, <1>3, <1>8 DEF LocalWrite, DrainOutbox, GiveUp, logVars
<1>9. CASE UNCHANGED pushVars
  BY <1>1, <1>3, <1>9 DEF pushVars, logVars
<1> QED BY <1>4, <1>5, <1>6, <1>7, <1>8, <1>9 DEF PushNext, Handle

(* The invariant itself, which the theorems below are read off from.        *)
THEOREM PushInvariant == PushSpec => []PushIInv
<1>1. PushInit => PushIInv
  BY PushInitial
<1>2. PushIInv /\ [PushNext]_pushVars => PushIInv'
  BY PushStep
<1> QED BY <1>1, <1>2, PTL DEF PushSpec

(* Every event a terminal's cursor has passed is in its inbox, under its    *)
(* own id or as the same revision of its row, or was written only after the *)
(* terminal had been past it: whatever pages fall where, whichever pulls    *)
(* break and pushes are repeated.                                           *)
THEOREM NothingIsPassed == PushSpec => []CursorCovers
<1>1. PushIInv => CursorCovers
  BY DEF PushIInv, LogIInv
<1> QED BY <1>1, PushInvariant, PTL

(* An id names one event, although a request may end with an id drawn, and  *)
(* requests append side by side.                                            *)
THEOREM IdsNameOneEvent == PushSpec => []IdsUnique
<1>1. PushIInv => IdsUnique
  BY DEF PushIInv, LogIInv
<1> QED BY <1>1, PushInvariant, PTL

(* A row that is marked as pushed is in the log under the id it is marked   *)
(* with, although the ids of an answer are matched to rows by position      *)
(* only, rows are written meanwhile, and a request that was given up and    *)
(* one that repeats it may be at work side by side.                         *)
THEOREM MarkedRowsAreStored == PushSpec => []PushedIsStored
<1>1. PushIInv => PushedIsStored
  BY DEF PushIInv
<1> QED BY <1>1, PushInvariant, PTL

(* Two terminals that have pulled equally far hold the same events, however *)
(* the pages fell and whichever pulls broke, as long as no event was        *)
(* written behind a reader.                                                 *)
THEOREM EqualCursorsEqualInboxes == PushSpec => []InboxesAgree
<1>1. PushIInv => InboxesAgree
  BY FirstsAgree DEF PushIInv, InboxesAgree, Terminals
<1> QED BY <1>1, PushInvariant, PTL
=============================================================================
