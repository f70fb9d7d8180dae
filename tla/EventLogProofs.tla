--------------------------- MODULE EventLogProofs ---------------------------
(***************************************************************************)
(* Lemmas about the steps of EventLog, for any terminals, requests, items  *)
(* and page size.  SyncPushProofs and ReturnsProofs use them for the two   *)
(* kinds of request that append to the log.                                *)
(*                                                                         *)
(* CursorCovers is kept by PageCovers, which says of a page that is being  *)
(* applied what CursorCovers will say once the cursor is at its end.       *)
(* FirstsKept does the same for which of two equal revisions is kept.      *)
(***************************************************************************)
EXTENDS EventLog, FiniteSetTheorems, TLAPS

(* What of the types is needed, and kept by every step of EventLog without  *)
(* knowing what the items are.                                              *)
LogShape ==
  /\ seq \in Nat
  /\ IsFiniteSet(log) /\ \A e \in log : e.id \in Nat
  /\ drawn \in [Appenders -> Nat]
  /\ cursor \in [Readers -> Nat]
  /\ inbox \in [Readers -> SUBSET log]
  /\ page \in [Readers -> [open : BOOLEAN, events : SUBSET log, upto : Nat]]

LogIInv == LogShape /\ IdsUnique /\ PageCovers /\ CursorCovers

(* The event e of the log is no gap for terminal t.                         *)
Held(t, e) == (\E f \in inbox[t] : SameRevision(e, f)) \/ <<t, e.id>> \in overtaken

LEMMA PageOf ==
  ASSUME LogShape, NEW t \in Readers
  PROVE  page[t].open \in BOOLEAN /\ page[t].events \subseteq log /\ page[t].upto \in Nat
BY DEF LogShape

(* A page leaves out no event between the cursor and its last: PageSize     *)
(* counts the events with smaller ids, of which an earlier event has fewer. *)
LEMMA PageHasNoGap ==
  ASSUME LogShape, NEW since \in Nat, NEW e \in log, NEW last \in EventsSince(since),
         e.id > since, e.id <= last.id
  PROVE  e \in EventsSince(since)
<1> DEFINE later == {f \in log : f.id > since}
           under(g) == {f \in later : f.id < g.id}
<1>1. last \in later /\ Cardinality(under(last)) < PageSize
  BY DEF EventsSince
<1>2. under(e) \subseteq under(last) /\ under(last) \subseteq log
  BY <1>1 DEF LogShape
<1>3. IsFiniteSet(under(last))
  BY <1>2, FS_Subset DEF LogShape
<1>4. Cardinality(under(e)) <= Cardinality(under(last)) /\ IsFiniteSet(under(e))
  BY <1>2, <1>3, FS_Subset
<1>5. Cardinality(under(e)) \in Nat /\ Cardinality(under(last)) \in Nat
  BY <1>3, <1>4, FS_CardinalityType
<1>6. Cardinality(under(e)) < PageSize
  BY <1>1, <1>4, <1>5, EventLogAssumption
<1> QED BY <1>6 DEF EventsSince

LEMMA LogInitial ==
  ASSUME LogInit
  PROVE  LogIInv
<1>1. IsFiniteSet({})
  BY FS_EmptySet
<1> QED BY <1>1 DEF LogInit, LogIInv, LogShape, IdsUnique, PageCovers, CursorCovers, NoPage

-----------------------------------------------------------------------------
(* The appenders                                                            *)

LEMMA DrawKeeps ==
  ASSUME LogIInv, NEW a \in Appenders, NextId(a) \/ Abandon(a)
  PROVE  LogIInv'
<1>1. UNCHANGED <<log, cursor, inbox, page, overtaken>>
  BY DEF NextId, Abandon
<1>2. LogShape'
  BY <1>1 DEF NextId, Abandon, LogIInv, LogShape
<1>3. IdsUnique'
  BY DEF NextId, Abandon, LogIInv, LogShape, IdsUnique
<1>4. PageCovers' /\ CursorCovers'
  BY <1>1 DEF LogIInv, PageCovers, CursorCovers, SameRevision
<1> QED BY <1>2, <1>3, <1>4 DEF LogIInv

LEMMA PutKeeps ==
  ASSUME LogIInv, NEW a \in Appenders, NEW x, PutItem(a, x)
  PROVE  LogIInv'
<1> DEFINE new == [id |-> drawn[a], item |-> x]
<1>1. /\ log' = log \union {new} /\ new.id = drawn[a] /\ drawn[a] \in Nat \ {0}
      /\ drawn' = [drawn EXCEPT ![a] = 0]
      /\ UNCHANGED <<seq, cursor, inbox, page>>
      /\ overtaken \subseteq overtaken'
  BY DEF PutItem, AfterPut, LogIInv, LogShape
<1>2. LogShape'
  <2>1. IsFiniteSet(log')
    BY <1>1, FS_AddElement DEF LogIInv, LogShape
  <2>2. \A t \in Readers : page[t] \in [open : BOOLEAN, events : SUBSET log', upto : Nat]
    BY <1>1 DEF LogIInv, LogShape
  <2>3. page' \in [Readers -> [open : BOOLEAN, events : SUBSET log', upto : Nat]]
    BY <1>1, <2>2 DEF LogIInv, LogShape
  <2> QED BY <1>1, <2>1, <2>3 DEF LogIInv, LogShape
<1>3. IdsUnique'
  <2>1. \A e \in log : e.id # new.id
    BY <1>1 DEF LogIInv, IdsUnique
  <2>2. \A e, f \in log' : e.id = f.id => e = f
    BY <1>1, <2>1 DEF LogIInv, IdsUnique
  <2>3. \A e \in log' : e.id <= seq'
    BY <1>1 DEF LogIInv, IdsUnique
  <2>4. ASSUME NEW b \in Appenders
        PROVE  /\ drawn'[b] <= seq'
               /\ drawn'[b] # 0 => /\ \A e \in log' : e.id # drawn'[b]
                                   /\ \A c \in Appenders : drawn'[c] = drawn'[b] => b = c
    BY <1>1, <2>4 DEF LogIInv, LogShape, IdsUnique
  <2> QED BY <2>2, <2>3, <2>4 DEF IdsUnique
<1>4. ASSUME NEW t \in Readers, Beyond(t, drawn[a])
      PROVE  <<t, new.id>> \in overtaken'
  BY <1>1, <1>4 DEF PutItem
<1>5. PageCovers'
  <2> SUFFICES ASSUME NEW t \in Readers, page'[t].open, NEW e \in log', e.id <= page'[t].upto
               PROVE  \/ e \in page'[t].events
                      \/ \E f \in inbox'[t] : SameRevision(e, f)
                      \/ <<t, e.id>> \in overtaken'
    BY DEF PageCovers, SameRevision
  <2>1. CASE e \in log
    BY <1>1, <2>1 DEF LogIInv, PageCovers
  <2>2. CASE e = new
    BY <1>1, <1>4, <2>2 DEF Beyond
  <2> QED BY <1>1, <2>1, <2>2
<1>6. CursorCovers'
  <2> SUFFICES ASSUME NEW t \in Readers, NEW e \in log', e.id <= cursor'[t]
               PROVE  (\E f \in inbox'[t] : SameRevision(e, f)) \/ <<t, e.id>> \in overtaken'
    BY DEF CursorCovers, SameRevision
  <2>1. CASE e \in log
    BY <1>1, <2>1 DEF LogIInv, CursorCovers
  <2>2. CASE e = new
    BY <1>1, <1>4, <2>2 DEF Beyond
  <2> QED BY <1>1, <2>1, <2>2
<1> QED BY <1>2, <1>3, <1>5, <1>6 DEF LogIInv

-----------------------------------------------------------------------------
(* The readers                                                              *)

LEMMA PullKeeps ==
  ASSUME LogIInv, NEW t \in Readers, PullEvents(t)
  PROVE  LogIInv'
<1> DEFINE new == EventsSince(cursor[t])
<1>1. PICK last \in {cursor[t]} \union {e.id : e \in new} :
        /\ \A e \in new : e.id <= last
        /\ page' = [page EXCEPT ![t] = [open |-> TRUE, events |-> new, upto |-> last]]
  BY DEF PullEvents
<1>2. UNCHANGED <<seq, log, drawn, cursor, inbox, overtaken>>
  BY DEF PullEvents
<1>3. new \subseteq log /\ cursor[t] \in Nat /\ last \in Nat
  <2>1. new \subseteq log
    BY DEF EventsSince
  <2>2. cursor[t] \in Nat /\ \A e \in log : e.id \in Nat
    BY DEF LogIInv, LogShape
  <2> HIDE DEF new
  <2> QED BY <1>1, <2>1, <2>2
<1>4. LogShape'
  BY <1>1, <1>2, <1>3 DEF LogIInv, LogShape
<1>5. ASSUME NEW e \in log, e.id <= last
      PROVE  e \in new \/ Held(t, e)
  <2>1. CASE e.id <= cursor[t]
    BY <2>1 DEF LogIInv, CursorCovers, Held
  <2>2. CASE ~(e.id <= cursor[t])
    <3>1. e.id > cursor[t]
      BY <1>3, <2>2 DEF LogIInv, LogShape
    <3>2. PICK g \in new : last = g.id
      BY <1>1, <1>5, <2>2
    <3> QED BY <1>3, <1>5, <3>1, <3>2, PageHasNoGap DEF LogIInv
  <2> QED BY <2>1, <2>2
<1>6. page'[t] = [open |-> TRUE, events |-> new, upto |-> last]
      /\ \A u \in Readers \ {t} : page'[u] = page[u]
  BY <1>1 DEF LogIInv, LogShape
<1>7. PageCovers'
  <2> SUFFICES ASSUME NEW u \in Readers, page'[u].open, NEW e \in log, e.id <= page'[u].upto
               PROVE  e \in page'[u].events \/ Held(u, e)
    BY <1>2 DEF PageCovers, SameRevision, Held
  <2>1. CASE u = t
    BY <1>5, <1>6, <2>1
  <2>2. CASE u # t
    BY <1>6, <2>2 DEF LogIInv, PageCovers, Held
  <2> QED BY <2>1, <2>2
<1>8. IdsUnique' /\ CursorCovers'
  BY <1>2 DEF LogIInv, IdsUnique, CursorCovers, SameRevision
<1> QED BY <1>4, <1>7, <1>8 DEF LogIInv

LEMMA ApplyKeeps ==
  ASSUME LogIInv, NEW t \in Readers, ApplyEvent(t)
  PROVE  LogIInv'
<1>1. PICK e \in page[t].events :
        /\ page' = [page EXCEPT ![t].events = @ \ {e}]
        /\ inbox' = IF Seen(t, e) THEN inbox ELSE [inbox EXCEPT ![t] = @ \union {e}]
  BY DEF ApplyEvent
<1>2. UNCHANGED <<seq, log, drawn, cursor, overtaken>>
  BY DEF ApplyEvent
<1>3. e \in log
  BY <1>1, PageOf DEF LogIInv
<1>4. /\ \A u \in Readers : inbox[u] \subseteq inbox'[u] /\ inbox'[u] \subseteq log
      /\ inbox' \in [Readers -> SUBSET log]
      /\ \E f \in inbox'[t] : SameRevision(e, f)
  BY <1>1, <1>3 DEF LogIInv, LogShape, Seen, SameRevision
<1>5. /\ \A u \in Readers : page'[u].open = page[u].open /\ page'[u].upto = page[u].upto
      /\ \A u \in Readers : page'[u].events = IF u = t THEN page[u].events \ {e} ELSE page[u].events
      /\ page' \in [Readers -> [open : BOOLEAN, events : SUBSET log, upto : Nat]]
  BY <1>1 DEF LogIInv, LogShape
<1>6. LogShape'
  BY <1>2, <1>4, <1>5 DEF LogIInv, LogShape
<1>7. PageCovers'
  <2> SUFFICES ASSUME NEW u \in Readers, page[u].open, NEW f \in log, f.id <= page[u].upto
               PROVE  \/ f \in page'[u].events
                      \/ \E g \in inbox'[u] : SameRevision(f, g)
                      \/ <<u, f.id>> \in overtaken
    BY <1>2, <1>5 DEF PageCovers, SameRevision
  <2> QED BY <1>4, <1>5 DEF LogIInv, PageCovers
<1>8. IdsUnique'
  BY <1>2 DEF LogIInv, IdsUnique
<1>9. CursorCovers'
  BY <1>2, <1>4 DEF LogIInv, CursorCovers, SameRevision
<1> QED BY <1>6, <1>7, <1>8, <1>9 DEF LogIInv

LEMMA EndPullKeeps ==
  ASSUME LogIInv, NEW t \in Readers, SetCursor(t) \/ BreakPull(t)
  PROVE  LogIInv'
<1>1. UNCHANGED <<seq, log, drawn, inbox, overtaken>> /\ page' = [page EXCEPT ![t] = NoPage]
  BY DEF SetCursor, BreakPull
<1>2. /\ page' \in [Readers -> [open : BOOLEAN, events : SUBSET log, upto : Nat]]
      /\ ~page'[t].open /\ \A u \in Readers \ {t} : page'[u] = page[u]
  BY <1>1 DEF LogIInv, LogShape, NoPage
<1>3. PageCovers'
  <2> SUFFICES ASSUME NEW u \in Readers \ {t}, page'[u].open, NEW e \in log, e.id <= page'[u].upto
               PROVE  e \in page'[u].events \/ Held(u, e)
    BY <1>1, <1>2 DEF PageCovers, SameRevision, Held
  <2> QED BY <1>2 DEF LogIInv, PageCovers, Held
<1>4. IdsUnique'
  BY <1>1 DEF LogIInv, IdsUnique
<1>5. CASE SetCursor(t)
  <2>1. page[t].open /\ page[t].events = {} /\ cursor' = [cursor EXCEPT ![t] = page[t].upto]
    BY <1>5 DEF SetCursor, AllApplied
  <2>2. /\ cursor' \in [Readers -> Nat]
        /\ cursor'[t] = page[t].upto /\ \A u \in Readers \ {t} : cursor'[u] = cursor[u]
    BY <2>1, PageOf DEF LogIInv, LogShape
  <2>3. ASSUME NEW u \in Readers, NEW e \in log, e.id <= cursor'[u]
        PROVE  Held(u, e)
    BY <2>1, <2>2, <2>3 DEF LogIInv, PageCovers, CursorCovers, Held
  <2>4. CursorCovers'
    BY <1>1, <2>3 DEF CursorCovers, SameRevision, Held
  <2>5. LogShape'
    BY <1>1, <1>2, <2>2 DEF LogIInv, LogShape
  <2> QED BY <1>3, <1>4, <2>4, <2>5 DEF LogIInv
<1>6. CASE BreakPull(t)
  <2>1. UNCHANGED cursor
    BY <1>6 DEF BreakPull
  <2>2. CursorCovers'
    BY <1>1, <2>1 DEF LogIInv, CursorCovers, SameRevision
  <2>3. LogShape'
    BY <1>1, <1>2, <2>1 DEF LogIInv, LogShape
  <2> QED BY <1>3, <1>4, <2>2, <2>3 DEF LogIInv
<1> QED BY <1>5, <1>6

-----------------------------------------------------------------------------
(* Which of the events of one revision an inbox keeps: the first of the log *)

(* The event e is in t's inbox, or an earlier one of its revision is.       *)
KeptBefore(t, e) == \E g \in inbox[t] : SameRevision(e, g) /\ g.id <= e.id

(* An inbox holds first revisions only; it has kept one of everything up to *)
(* what it holds, up to the cursor, and up to the end of the page but for   *)
(* the rest of the page.                                                    *)
FirstsKeptAt(t) ==
  /\ \A e \in inbox[t], f \in log : SameRevision(e, f) => e.id <= f.id
  /\ \A e \in inbox[t], f \in log : f.id <= e.id => KeptBefore(t, f)
  /\ \A f \in log : f.id <= cursor[t] => KeptBefore(t, f)
  /\ page[t].open =>
       /\ \A e \in page[t].events : e.id <= page[t].upto
       /\ \A f \in log : f.id <= page[t].upto => f \in page[t].events \/ KeptBefore(t, f)

(* As long as nothing was written behind a reader.                          *)
FirstsKept == overtaken = {} => \A t \in Readers : FirstsKeptAt(t)

LEMMA FirstsInitial ==
  ASSUME LogInit
  PROVE  FirstsKept
BY DEF LogInit, FirstsKept, FirstsKeptAt, KeptBefore, NoPage

LEMMA DrawKeepsFirsts ==
  ASSUME FirstsKept, UNCHANGED <<log, cursor, inbox, page, overtaken>>
  PROVE  FirstsKept'
BY DEF FirstsKept, FirstsKeptAt, KeptBefore, SameRevision

LEMMA PutKeepsFirsts ==
  ASSUME LogIInv, FirstsKept, NEW a \in Appenders, NEW x, PutItem(a, x)
  PROVE  FirstsKept'
<1> DEFINE new == [id |-> drawn[a], item |-> x]
<1> SUFFICES ASSUME overtaken' = {}, NEW t \in Readers
             PROVE  FirstsKeptAt(t)'
  BY DEF FirstsKept
<1>1. /\ log' = log \union {new} /\ new.id = drawn[a] /\ drawn[a] \in Nat
      /\ UNCHANGED <<cursor, inbox, page>>
      /\ overtaken = {}
  BY DEF PutItem, LogIInv, LogShape
<1>2. ~Beyond(t, new.id)
  BY <1>1 DEF PutItem
<1>3. /\ ~(new.id <= cursor[t]) /\ \A e \in inbox[t] : ~(new.id <= e.id)
      /\ page[t].open => ~(new.id <= page[t].upto)
  BY <1>2 DEF Beyond
<1>4. inbox[t] \subseteq log /\ \A e \in log : e.id \in Nat
  BY DEF LogIInv, LogShape
<1>5. FirstsKeptAt(t)
  BY <1>1 DEF FirstsKept
<1>6. \A e \in inbox[t], f \in log' : SameRevision(e, f) => e.id <= f.id
  BY <1>1, <1>3, <1>4, <1>5 DEF FirstsKeptAt
<1>7. \A e \in inbox[t], f \in log' : f.id <= e.id => KeptBefore(t, f)
  BY <1>1, <1>3, <1>5 DEF FirstsKeptAt
<1>8. \A f \in log' : f.id <= cursor[t] => KeptBefore(t, f)
  BY <1>1, <1>3, <1>5 DEF FirstsKeptAt
<1>9. page[t].open =>
        /\ \A e \in page[t].events : e.id <= page[t].upto
        /\ \A f \in log' : f.id <= page[t].upto => f \in page[t].events \/ KeptBefore(t, f)
  BY <1>1, <1>3, <1>5 DEF FirstsKeptAt
<1> QED BY <1>1, <1>6, <1>7, <1>8, <1>9 DEF FirstsKeptAt, KeptBefore, SameRevision

LEMMA PullKeepsFirsts ==
  ASSUME LogIInv, FirstsKept, NEW t \in Readers, PullEvents(t)
  PROVE  FirstsKept'
<1> DEFINE new == EventsSince(cursor[t])
<1>1. PICK last \in {cursor[t]} \union {e.id : e \in new} :
        /\ \A e \in new : e.id <= last
        /\ page' = [page EXCEPT ![t] = [open |-> TRUE, events |-> new, upto |-> last]]
  BY DEF PullEvents
<1>2. UNCHANGED <<seq, log, drawn, cursor, inbox, overtaken>>
  BY DEF PullEvents
<1>3. new \subseteq log /\ cursor[t] \in Nat /\ \A e \in log : e.id \in Nat
  BY DEF EventsSince, LogIInv, LogShape
<1>4. page'[t] = [open |-> TRUE, events |-> new, upto |-> last]
      /\ \A u \in Readers \ {t} : page'[u] = page[u]
  BY <1>1 DEF LogIInv, LogShape
<1> SUFFICES ASSUME overtaken' = {}, NEW u \in Readers
             PROVE  FirstsKeptAt(u)'
  BY DEF FirstsKept
<1>5. FirstsKeptAt(u)
  BY <1>2 DEF FirstsKept
<1>6. CASE u # t
  BY <1>2, <1>4, <1>5, <1>6 DEF FirstsKeptAt, KeptBefore, SameRevision
<1>7. CASE u = t
  <2>1. ASSUME NEW f \in log, f.id <= last
        PROVE  f \in new \/ KeptBefore(t, f)
    <3>1. CASE f.id <= cursor[t]
      BY <1>5, <1>7, <3>1 DEF FirstsKeptAt
    <3>2. CASE ~(f.id <= cursor[t])
      <4>1. PICK g \in new : last = g.id
        BY <1>1, <2>1, <3>2
      <4> QED BY <1>3, <2>1, <3>2, <4>1, PageHasNoGap DEF LogIInv
    <3> QED BY <3>1, <3>2
  <2>2. page'[t].events = new /\ page'[t].upto = last
    BY <1>4
  <2>3. \A e \in page'[t].events : e.id <= page'[t].upto
    BY <1>1, <2>2
  <2>4. \A f \in log : f.id <= page'[t].upto => f \in page'[t].events \/ KeptBefore(t, f)
    BY <2>1, <2>2
  <2> QED BY <1>2, <1>5, <1>7, <2>3, <2>4 DEF FirstsKeptAt, KeptBefore, SameRevision
<1> QED BY <1>6, <1>7

LEMMA ApplyKeepsFirsts ==
  ASSUME LogIInv, FirstsKept, NEW t \in Readers, ApplyEvent(t)
  PROVE  FirstsKept'
<1>1. PICK e \in page[t].events :
        /\ \A f \in page[t].events : e.id <= f.id
        /\ page' = [page EXCEPT ![t].events = @ \ {e}]
        /\ inbox' = IF Seen(t, e) THEN inbox ELSE [inbox EXCEPT ![t] = @ \union {e}]
  BY DEF ApplyEvent
<1>2. UNCHANGED <<seq, log, drawn, cursor, overtaken>> /\ page[t].open
  BY DEF ApplyEvent
<1>3. page[t].events \subseteq log /\ e \in log /\ \A f \in log : f.id \in Nat
  BY <1>1, PageOf DEF LogIInv, LogShape
<1>4. /\ \A u \in Readers : page'[u].open = page[u].open /\ page'[u].upto = page[u].upto
      /\ page'[t].events = page[t].events \ {e}
      /\ \A u \in Readers \ {t} : page'[u].events = page[u].events
  BY <1>1 DEF LogIInv, LogShape
<1>5. \A u \in Readers \ {t} : inbox'[u] = inbox[u]
  BY <1>1 DEF LogIInv, LogShape
<1>6. inbox'[t] = IF Seen(t, e) THEN inbox[t] ELSE inbox[t] \union {e}
  BY <1>1 DEF LogIInv, LogShape
<1> SUFFICES ASSUME overtaken' = {}, NEW u \in Readers
             PROVE  FirstsKeptAt(u)'
  BY DEF FirstsKept
<1>7. FirstsKeptAt(u) /\ inbox[u] \subseteq log
  BY <1>2 DEF FirstsKept, LogIInv, LogShape
<1>8. CASE u # t
  BY <1>2, <1>4, <1>5, <1>7, <1>8 DEF FirstsKeptAt, KeptBefore, SameRevision
<1>9. CASE u = t
  \* What comes before the event is kept: it is the first of its page.
  <2>1. ASSUME NEW f \in log, f.id <= e.id, f # e
        PROVE  KeptBefore(t, f)
    <3>1. f.id <= page[t].upto
      <4>1. e.id <= page[t].upto /\ page[t].upto \in Nat
        BY <1>1, <1>2, <1>7, <1>9, PageOf DEF FirstsKeptAt, LogIInv
      <4> QED BY <1>3, <2>1, <4>1
    <3>2. f \notin page[t].events
      BY <1>1, <1>3, <2>1 DEF LogIInv, IdsUnique
    <3> QED BY <1>2, <1>7, <1>9, <3>1, <3>2 DEF FirstsKeptAt
  <2>2. inbox[t] \subseteq inbox'[t]
    BY <1>6
  <2>3. \E g \in inbox'[t] : SameRevision(e, g) /\ g.id <= e.id
    <3>1. CASE Seen(t, e)
      <4>1. PICK g \in inbox[t] : SameRevision(e, g)
        BY <3>1 DEF Seen
      <4>2. g.id <= e.id
        BY <1>3, <1>7, <1>9, <4>1 DEF FirstsKeptAt, SameRevision
      <4> QED BY <2>2, <4>1, <4>2
    <3>2. CASE ~Seen(t, e)
      BY <1>3, <1>6, <3>2 DEF SameRevision
    <3> QED BY <3>1, <3>2
  <2> DEFINE Kept(f) == \E g \in inbox'[t] : SameRevision(f, g) /\ g.id <= f.id
  <2>4. \A f \in log : KeptBefore(t, f) => Kept(f)
    BY <2>2 DEF KeptBefore
  <2>5. \A f \in log : f.id <= e.id => Kept(f)
    BY <2>1, <2>3, <2>4
  <2> HIDE DEF Kept
  <2>6. \A d \in inbox'[t], f \in log : SameRevision(d, f) => d.id <= f.id
    <3>1. CASE Seen(t, e)
      BY <1>6, <1>7, <1>9, <3>1 DEF FirstsKeptAt
    <3>2. CASE ~Seen(t, e)
      <4>1. ASSUME NEW f \in log, SameRevision(e, f)
            PROVE  e.id <= f.id
        <5>1. SUFFICES ASSUME ~(e.id <= f.id)
                       PROVE  FALSE
          OBVIOUS
        <5>2. f.id <= e.id /\ f # e
          BY <1>3, <5>1
        <5>3. KeptBefore(t, f)
          BY <2>1, <5>2
        <5> QED BY <3>2, <4>1, <5>3 DEF KeptBefore, Seen, SameRevision
      <4> QED BY <1>6, <1>7, <1>9, <4>1 DEF FirstsKeptAt
    <3> QED BY <3>1, <3>2
  <2>7. \A d \in inbox'[t], f \in log : f.id <= d.id => Kept(f)
    BY <1>6, <1>7, <1>9, <2>4, <2>5 DEF FirstsKeptAt
  <2>8. \A f \in log : f.id <= cursor[t] => Kept(f)
    BY <1>7, <1>9, <2>4 DEF FirstsKeptAt
  <2>9. \A d \in page'[t].events : d.id <= page'[t].upto
    BY <1>2, <1>4, <1>7, <1>9 DEF FirstsKeptAt
  <2>10. \A f \in log : f.id <= page'[t].upto => f \in page'[t].events \/ Kept(f)
    <3>1. Kept(e)
      BY <1>3, <2>5
    <3>2. \A f \in log : f.id <= page[t].upto => f \in page[t].events \/ KeptBefore(t, f)
      BY <1>2, <1>7, <1>9 DEF FirstsKeptAt
    <3> QED BY <1>4, <2>4, <3>1, <3>2
  <2> QED BY <1>2, <1>9, <2>6, <2>7, <2>8, <2>9, <2>10 DEF FirstsKeptAt, KeptBefore, SameRevision, Kept
<1> QED BY <1>8, <1>9

LEMMA EndPullKeepsFirsts ==
  ASSUME LogIInv, FirstsKept, NEW t \in Readers, SetCursor(t) \/ BreakPull(t)
  PROVE  FirstsKept'
<1>1. UNCHANGED <<seq, log, drawn, inbox, overtaken>> /\ page' = [page EXCEPT ![t] = NoPage]
  BY DEF SetCursor, BreakPull
<1>2. ~page'[t].open /\ \A u \in Readers \ {t} : page'[u] = page[u]
  BY <1>1 DEF LogIInv, LogShape, NoPage
<1>3. \/ UNCHANGED cursor
      \/ page[t].open /\ page[t].events = {} /\ cursor' = [cursor EXCEPT ![t] = page[t].upto]
  BY DEF SetCursor, BreakPull, AllApplied
<1>4. \A u \in Readers \ {t} : cursor'[u] = cursor[u]
  BY <1>3 DEF LogIInv, LogShape
<1> SUFFICES ASSUME overtaken' = {}, NEW u \in Readers
             PROVE  FirstsKeptAt(u)'
  BY DEF FirstsKept
<1>5. FirstsKeptAt(u)
  BY <1>1 DEF FirstsKept
<1>6. CASE u # t
  BY <1>1, <1>2, <1>4, <1>5, <1>6 DEF FirstsKeptAt, KeptBefore, SameRevision
<1>7. CASE u = t
  <2>1. cursor'[t] = cursor[t] \/ (page[t].open /\ page[t].events = {} /\ cursor'[t] = page[t].upto)
    BY <1>3 DEF LogIInv, LogShape
  <2>2. \A f \in log : f.id <= cursor'[t] => KeptBefore(t, f)
    BY <1>5, <1>7, <2>1 DEF FirstsKeptAt
  <2> QED BY <1>1, <1>2, <1>5, <1>7, <2>2 DEF FirstsKeptAt, KeptBefore, SameRevision
<1> QED BY <1>6, <1>7

(* Two readers that have pulled equally far hold the same events.           *)
LEMMA FirstsAgree ==
  ASSUME LogIInv, FirstsKept, overtaken = {},
         NEW t \in Readers, NEW u \in Readers, cursor[t] = cursor[u],
         NEW e \in inbox[t], e.id <= cursor[t]
  PROVE  e \in inbox[u]
<1>1. FirstsKeptAt(t) /\ FirstsKeptAt(u)
  BY DEF FirstsKept
<1>2. e \in log /\ inbox[u] \subseteq log /\ \A f \in log : f.id \in Nat
  BY DEF LogIInv, LogShape
<1>3. PICK g \in inbox[u] : SameRevision(e, g) /\ g.id <= e.id
  BY <1>1, <1>2 DEF FirstsKeptAt, KeptBefore
<1>4. e.id <= g.id
  BY <1>1, <1>2, <1>3 DEF FirstsKeptAt
<1> QED BY <1>2, <1>3, <1>4 DEF LogIInv, IdsUnique

-----------------------------------------------------------------------------
(* Types                                                                    *)

(* The events of the log are of the declared items, and every copy of one   *)
(* is one of the log: LogTypeOK.                                            *)
LogHolds == log \subseteq Event /\ overtaken \subseteq Readers \X Nat

LEMMA HeldTypes ==
  ASSUME LogShape, LogHolds
  PROVE  LogTypeOK
<1>1. \A t \in Readers : page[t] \in [open : BOOLEAN, events : SUBSET Event, upto : Nat]
  BY DEF LogShape, LogHolds
<1>2. page \in [Readers -> [open : BOOLEAN, events : SUBSET Event, upto : Nat]]
  BY <1>1 DEF LogShape
<1>3. inbox \in [Readers -> SUBSET Event]
  BY DEF LogShape, LogHolds
<1> QED BY <1>2, <1>3 DEF LogShape, LogHolds, LogTypeOK, InboxRow

LEMMA PutHolds ==
  ASSUME LogShape, LogHolds, NEW a \in Appenders, NEW x \in Items, PutItem(a, x)
  PROVE  LogHolds' /\ log \subseteq log' /\ \E e \in log' : e.item = x
<1>1. drawn[a] \in Nat \ {0} /\ log' = log \union {[id |-> drawn[a], item |-> x]}
  BY DEF LogShape, PutItem
<1>2. overtaken' = overtaken \union {<<t, drawn[a]>> : t \in {u \in Readers : Beyond(u, drawn[a])}}
  BY DEF PutItem
<1>3. \A t \in Readers : <<t, drawn[a]>> \in Readers \X Nat
  BY <1>1
<1>4. overtaken' \subseteq Readers \X Nat
  BY <1>2, <1>3 DEF LogHolds
<1>5. [id |-> drawn[a], item |-> x] \in Event
  BY <1>1 DEF Event
<1> QED BY <1>1, <1>4, <1>5 DEF LogHolds

=============================================================================
