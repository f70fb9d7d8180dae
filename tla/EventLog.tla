------------------------------ MODULE EventLog ------------------------------
(***************************************************************************)
(* The cloud's append-only sync log and the terminals' copy of it.         *)
(*                                                                         *)
(* put_event draws an id from the counter and then writes the item: two    *)
(* calls, so a larger id may be readable before a smaller one.  A terminal *)
(* pulls a page of items past its cursor, applies them one at a time to    *)
(* its inbox, each unless that (table, row, revision) is already there,    *)
(* and moves the cursor to the page's last id when all are applied.        *)
(*                                                                         *)
(* An item is a record with at least the fields row (the table's name and  *)
(* the row id) and rev.  The page limit of 500 is PageSize.                *)
(***************************************************************************)
EXTENDS Integers, FiniteSets

CONSTANTS
  Readers,      \* terminals that pull
  Appenders,    \* requests that may be inside put_event
  Items,        \* what an event can say
  PageSize      \* events of one pull (500)

ASSUME EventLogAssumption ==
  /\ PageSize \in Nat \ {0}
  /\ \A x \in Items : {"row", "rev"} \subseteq DOMAIN x

VARIABLES
  seq,       \* COUNTER#event_log: the last id handed out
  log,       \* the EVENT items, [id, item]
  drawn,     \* the id an appender holds and has not written yet, or 0
  cursor,    \* sync_state last_pulled_event_id
  inbox,     \* the inbox rows of a terminal: events it has stored
  page,      \* the answer to a pull that is being applied
  overtaken  \* <<reader, id>>: id was written after the reader had been past it

logVars == <<seq, log, drawn, cursor, inbox, page, overtaken>>

Event  == [id : Nat \ {0}, item : Items]
NoPage == [open |-> FALSE, events |-> {}, upto |-> 0]

\* A row of the inbox keeps the event as it was pulled.
InboxRow == Event

LogTypeOK ==
  /\ seq \in Nat
  /\ log \subseteq Event
  /\ drawn \in [Appenders -> Nat]
  /\ cursor \in [Readers -> Nat]
  /\ inbox \in [Readers -> SUBSET InboxRow]
  /\ page \in [Readers -> [open : BOOLEAN, events : SUBSET Event, upto : Nat]]
  /\ overtaken \subseteq Readers \X Nat

LogInit ==
  /\ seq = 0
  /\ log = {}
  /\ drawn = [a \in Appenders |-> 0]
  /\ cursor = [t \in Readers |-> 0]
  /\ inbox = [t \in Readers |-> {}]
  /\ page = [t \in Readers |-> NoPage]
  /\ overtaken = {}

-----------------------------------------------------------------------------
(* put_event                                                               *)

NextId(a) ==
  /\ drawn[a] = 0
  /\ seq' = seq + 1
  /\ drawn' = [drawn EXCEPT ![a] = seq + 1]
  /\ UNCHANGED <<log, cursor, inbox, page, overtaken>>

\* The reader has been past id n: by its cursor, by the end of the page it is
\* applying, or by an event of a pull that broke before its cursor moved.
Beyond(t, n) ==
  \/ n <= cursor[t]
  \/ page[t].open /\ n <= page[t].upto
  \/ \E e \in inbox[t] : n <= e.id

KeepId(a)   == drawn[a]  \* mutant: one id for all the rows of a request
AfterPut(a) == 0

PutItem(a, x) ==
  /\ drawn[a] # 0
  /\ log' = log \union {[id |-> drawn[a], item |-> x]}
  /\ overtaken' = overtaken \union {<<t, drawn[a]>> : t \in {u \in Readers : Beyond(u, drawn[a])}}
  /\ drawn' = [drawn EXCEPT ![a] = AfterPut(a)]
  /\ UNCHANGED <<seq, cursor, inbox, page>>

\* The request ends with an id drawn and nothing written under it.
Abandon(a) ==
  /\ drawn' = [drawn EXCEPT ![a] = 0]
  /\ UNCHANGED <<seq, log, cursor, inbox, page, overtaken>>

-----------------------------------------------------------------------------
(* /sync/pull and the terminal's pull loop                                 *)

EventsSince(since) ==
  LET later == {e \in log : e.id > since}
  IN  {e \in later : Cardinality({f \in later : f.id < e.id}) < PageSize}

SameRevision(e, f) == e.item.row = f.item.row /\ e.item.rev = f.item.rev

SeenOrOwn(t, e) ==  \* mutant: a terminal takes its own writes as already held
  e.item.by = t \/ \E f \in inbox[t] : SameRevision(e, f)
Seen(t, e) == \E f \in inbox[t] : SameRevision(e, f)

PullEvents(t) ==
  LET new == EventsSince(cursor[t])
  IN  /\ ~page[t].open
      /\ \E last \in {cursor[t]} \union {e.id : e \in new} :
           /\ \A e \in new : e.id <= last
           /\ page' = [page EXCEPT ![t] = [open |-> TRUE, events |-> new, upto |-> last]]
      /\ UNCHANGED <<seq, log, drawn, cursor, inbox, overtaken>>

ApplyEvent(t) ==
  /\ page[t].open
  /\ \E e \in page[t].events :
       /\ \A f \in page[t].events : e.id <= f.id
       /\ page' = [page EXCEPT ![t].events = @ \ {e}]
       /\ inbox' = IF Seen(t, e) THEN inbox ELSE [inbox EXCEPT ![t] = @ \union {e}]
  /\ UNCHANGED <<seq, log, drawn, cursor, overtaken>>

AnyPoint(t)   == TRUE  \* mutant: the cursor moves before the events are applied
AllApplied(t) == page[t].events = {}

SetCursor(t) ==
  /\ page[t].open
  /\ AllApplied(t)
  /\ cursor' = [cursor EXCEPT ![t] = page[t].upto]
  /\ page' = [page EXCEPT ![t] = NoPage]
  /\ UNCHANGED <<seq, log, drawn, inbox, overtaken>>

\* The pull fails, or the terminal stops, at any point: the cursor stays.
BreakPull(t) ==
  /\ page[t].open
  /\ page' = [page EXCEPT ![t] = NoPage]
  /\ UNCHANGED <<seq, log, drawn, cursor, inbox, overtaken>>

-----------------------------------------------------------------------------
\* Every event a reader's cursor has passed is in its inbox, under its own id
\* or as the same revision of the same row, unless it was written only after
\* the reader had been past it.  The cursor moves when the page is applied, a
\* broken pull is repeated, and the inbox drops nothing but repetitions.
CursorCovers ==
  \A t \in Readers : \A e \in log :
    e.id <= cursor[t] =>
      (\E f \in inbox[t] : SameRevision(e, f)) \/ <<t, e.id>> \in overtaken

\* An id names one event: those handed out and not yet written are distinct,
\* and none is that of an event in the log.
IdsUnique ==
  /\ \A e, f \in log : e.id = f.id => e = f
  /\ \A e \in log : e.id <= seq
  /\ \A a \in Appenders :
       /\ drawn[a] <= seq
       /\ drawn[a] # 0 =>
            /\ \A e \in log : e.id # drawn[a]
            /\ \A b \in Appenders : drawn[b] = drawn[a] => a = b

\* An open page holds every event between the cursor and its end that is not
\* yet in the inbox, with the exception CursorCovers makes.
PageCovers ==
  \A t \in Readers : page[t].open =>
    \A e \in log : e.id <= page[t].upto =>
      \/ e \in page[t].events
      \/ \E f \in inbox[t] : SameRevision(e, f)
      \/ <<t, e.id>> \in overtaken

\* What makes CursorCovers inductive.
LogInv ==
  /\ LogTypeOK
  /\ IsFiniteSet(log)
  /\ IdsUnique
  /\ \A t \in Readers : inbox[t] \subseteq log /\ page[t].events \subseteq log
  /\ PageCovers
  /\ CursorCovers
=============================================================================
