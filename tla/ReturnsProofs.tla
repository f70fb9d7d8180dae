---------------------------- MODULE ReturnsProofs ----------------------------
(***************************************************************************)
(* What comes back to a terminal, for any people, hooks, requests, packs,  *)
(* page and batch limits and any number of faults.                         *)
(*                                                                         *)
(* Feedback.  The suppression list: every write of it is an Insert or a    *)
(* merge, and both only add (InsertGrows, MergeGrows).  The unsubscribe    *)
(* cursor: a page leaves out no row between the cursor and its last        *)
(* (UnsubsHaveNoGap), so once merged the page honours what the cursor will *)
(* pass (PageHonours); a row written later at or before a key already read *)
(* is counted as missed.  Webhooks: the raw row, by which a repeat is      *)
(* known, is written last (RawIsLast).  The log and the pull are those of  *)
(* EventLogProofs.                                                         *)
(*                                                                         *)
(* Outcomes.  The cursor passes nothing, as long as the packs fit in the   *)
(* work cap of a poll (AllRead); without that it does, as the run          *)
(* outcome_cap shows.  What the index shows late is not settled, and the   *)
(* cursor stays behind what is settled (LagIsUnsettled).  A page leaves    *)
(* out nothing before its end (ListedHasNoGap).  A row of a page that is   *)
(* old by the time it is applied belongs to a pack whose newer outcome     *)
(* lies beyond the page (RowsCurrent).                                     *)
(***************************************************************************)
EXTENDS MCReturns, EventLogProofs

-----------------------------------------------------------------------------
(* Suppression                                                              *)

Stops(t, c) == Blocks(supp[t][c])
Grows == \A t \in Readers, c \in People : Blocks(supp[t][c]) \subseteq Blocks(supp'[t][c])

HasSupp == supp \in [Readers -> [People -> Suppression]]

LEMMA InsertGrows ==
  ASSUME NEW old \in Suppression, NEW reason \in {"all", "blocked"}
  PROVE  /\ Inserted(old, reason) \in Suppression
         /\ Blocks(old) \subseteq Blocks(Inserted(old, reason))
BY DEF Inserted, Suppression, Scopes, Blocks

LEMMA MergeGrows ==
  ASSUME NEW old \in Suppression, NEW scope \in Scopes
  PROVE  /\ Merged(old, scope) \in Suppression
         /\ Blocks(old) \subseteq Blocks(Merged(old, scope))
         /\ Blocks(scope) \subseteq Blocks(Merged(old, scope))
         /\ scope = "all" => Blocks(Merged(old, scope)) = {"promotional", "transactional"}
BY DEF Merged, Suppression, Scopes, Blocks

(* One person's suppression is added to.                                    *)
LEMMA OneInserted ==
  ASSUME HasSupp, NEW t \in Readers, NEW c \in People, NEW reason \in {"all", "blocked"},
         supp' = [supp EXCEPT ![t][c] = Inserted(@, reason)]
  PROVE  HasSupp' /\ Grows
<1>1. supp[t][c] \in Suppression
  BY DEF HasSupp
<1> DEFINE s == Inserted(supp[t][c], reason)
<1>2. s \in Suppression /\ Blocks(supp[t][c]) \subseteq Blocks(s)
  BY <1>1, InsertGrows
<1>3. supp' = [supp EXCEPT ![t][c] = s]
  OBVIOUS
<1> HIDE DEF s
<1>4. /\ supp' \in [Readers -> [People -> Suppression]]
      /\ supp'[t][c] = s
      /\ \A u \in Readers, d \in People : (u = t /\ d = c) \/ supp'[u][d] = supp[u][d]
  BY <1>2, <1>3 DEF HasSupp
<1> QED BY <1>2, <1>4 DEF HasSupp, Grows

LEMMA EffectGrows ==
  ASSUME HasSupp, NEW t \in Readers, NEW e, e.item.hook.who \in People, Effect(t, e)
  PROVE  HasSupp' /\ Grows
<1> DEFINE h == e.item.hook
<1>1. CASE supp' = supp
  BY <1>1 DEF HasSupp, Grows
<1>2. CASE supp' = [supp EXCEPT ![t][h.who] = Inserted(@, "all")]
  BY <1>2, OneInserted
<1>3. CASE supp' = [supp EXCEPT ![t][h.who] = Inserted(@, "blocked")]
  BY <1>3, OneInserted
<1> QED BY <1>1, <1>2, <1>3 DEF Effect

LEMMA MergeStep ==
  ASSUME HasSupp, NEW t \in Readers, MergeUnsubs(t), unsubPage[t].rows \subseteq UnsubRow
  PROVE  /\ HasSupp' /\ Grows
         /\ \A r \in unsubPage[t].rows : Blocks(r.scope) \subseteq Blocks(supp'[t][r.who])
<1> DEFINE scopes(c) == {r.scope : r \in {s \in unsubPage[t].rows : s.who = c}}
           after(c)  == IF scopes(c) = {} THEN supp[t][c]
                        ELSE IF "all" \in scopes(c) THEN Merged(supp[t][c], "all")
                        ELSE Merged(supp[t][c], "promotional")
<1>1. supp' = [supp EXCEPT ![t] = [c \in People |-> after(c)]]
  BY DEF MergeUnsubs
<1>2. ASSUME NEW c \in People
      PROVE  /\ after(c) \in Suppression /\ Blocks(supp[t][c]) \subseteq Blocks(after(c))
             /\ \A s \in scopes(c) : Blocks(s) \subseteq Blocks(after(c))
  <2>1. supp[t][c] \in Suppression /\ scopes(c) \subseteq Scopes
    BY DEF HasSupp, UnsubRow
  <2>2. "all" \in Scopes /\ "promotional" \in Scopes /\ \A s \in Scopes : s = "all" \/ s = "promotional"
    BY DEF Scopes
  <2>3. CASE "all" \in scopes(c)
    <3>1. after(c) = Merged(supp[t][c], "all")
      BY <2>3
    <3>2. \A s \in Scopes : Blocks(s) \subseteq {"promotional", "transactional"}
      BY DEF Scopes, Blocks
    <3>3. Blocks(after(c)) = {"promotional", "transactional"} /\ after(c) \in Suppression
          /\ Blocks(supp[t][c]) \subseteq Blocks(after(c))
      BY <2>1, <2>2, <3>1, MergeGrows
    <3> QED BY <2>1, <3>2, <3>3
  <2>4. CASE "all" \notin scopes(c) /\ scopes(c) # {}
    <3>1. after(c) = Merged(supp[t][c], "promotional") /\ \A s \in scopes(c) : s = "promotional"
      BY <2>1, <2>2, <2>4
    <3> QED BY <2>1, <2>2, <3>1, MergeGrows
  <2>5. CASE scopes(c) = {}
    BY <2>1, <2>5
  <2> QED BY <2>3, <2>4, <2>5
<1> HIDE DEF after
<1>3. /\ supp' \in [Readers -> [People -> Suppression]]
      /\ \A c \in People : supp'[t][c] = after(c)
      /\ \A u \in Readers \ {t} : supp'[u] = supp[u]
  BY <1>1, <1>2 DEF HasSupp
<1>4. HasSupp' /\ Grows
  BY <1>2, <1>3 DEF HasSupp, Grows
<1>5. ASSUME NEW r \in unsubPage[t].rows
      PROVE  Blocks(r.scope) \subseteq Blocks(supp'[t][r.who])
  <2>1. r.who \in People /\ r.scope \in scopes(r.who)
    BY DEF UnsubRow
  <2> QED BY <1>2, <1>3, <2>1
<1> QED BY <1>4, <1>5

-----------------------------------------------------------------------------
(* Unsubscribes                                                             *)

(* The row of the log has its effect at t, or t need not see it.            *)
Honoured(t, r) == Blocks(r.scope) \subseteq Blocks(supp[t][r.who]) \/ <<t, r>> \in missed

(* The row r is not past one of the page.                                   *)
WithinPage(t, r) == \E s \in unsubPage[t].rows : ~Past(Key(r), Key(s))

(* What the page of a terminal will make true of its cursor.                *)
PageHonours ==
  \A t \in Readers : \A r \in unsubLog :
    WithinPage(t, r) =>
      \/ unsubPage[t].phase = "merge" /\ r \in unsubPage[t].rows
      \/ Honoured(t, r)

UnsubShape ==
  /\ unsubLog \subseteq UnsubRow /\ IsFiniteSet(unsubLog)
  /\ unsubCursor \in [Readers -> {<<-1, -1>>} \union ((0..MaxTime) \X People)]
  /\ unsubPage \in [Readers -> [phase : {"none", "merge", "cursor"}, rows : SUBSET UnsubRow]]
  /\ ask \in [Askers -> UnsubRow \union {None}]
  /\ HasSupp

UnsubIInv == UnsubShape /\ PageHonours /\ UnsubHonoured

IsKey(k) == k[1] \in Int /\ k[2] \in Int

LEMMA PastIsOrder ==
  ASSUME NEW i, NEW j, NEW k, IsKey(i), IsKey(j), IsKey(k)
  PROVE  /\ Past(i, j) /\ ~Past(i, k) => Past(k, j)
         /\ Past(i, j) /\ Past(j, k) => Past(i, k)
         /\ ~Past(i, i)
BY DEF Past, IsKey

LEMMA Numbers == People \subseteq Int /\ 0..MaxTime \subseteq Int
<1>1. MaxTime \in Nat
  BY FeedbackAssumption
<1>2. 0..MaxTime \subseteq Int
  BY <1>1
<1>3. People \subseteq Nat
  BY FeedbackAssumption
<1>4. People \subseteq Int
  BY <1>3
<1> QED BY <1>2, <1>4

LEMMA RowKey ==
  ASSUME NEW r \in UnsubRow
  PROVE  IsKey(Key(r)) /\ Key(r) \in (0..MaxTime) \X People
<1>1. r.at \in 0..MaxTime /\ r.who \in People
  BY DEF UnsubRow
<1>2. r.at \in Int /\ r.who \in Int
  BY <1>1, Numbers
<1>3. Key(r)[1] = r.at /\ Key(r)[2] = r.who
  BY DEF Key
<1>4. Key(r) \in (0..MaxTime) \X People
  BY <1>1 DEF Key
<1> QED BY <1>2, <1>3, <1>4 DEF IsKey

LEMMA CursorKey ==
  ASSUME UnsubShape, NEW t \in Readers
  PROVE  IsKey(unsubCursor[t])
<1>1. unsubCursor[t] \in {<<-1, -1>>} \union ((0..MaxTime) \X People)
  BY DEF UnsubShape
<1>2. CASE unsubCursor[t] = <<-1, -1>>
  BY <1>2 DEF IsKey
<1>3. CASE unsubCursor[t] \in (0..MaxTime) \X People
  <2>1. unsubCursor[t][1] \in 0..MaxTime /\ unsubCursor[t][2] \in People
    BY <1>3
  <2> QED BY <2>1, Numbers DEF IsKey
<1> QED BY <1>1, <1>2, <1>3

(* A page leaves out no row between the cursor and its last.                *)
LEMMA UnsubsHaveNoGap ==
  ASSUME UnsubShape, NEW k, IsKey(k), NEW r \in unsubLog, NEW s \in UnsubsSince(k),
         Past(Key(r), k), ~Past(Key(r), Key(s))
  PROVE  r \in UnsubsSince(k)
<1> DEFINE later == {x \in unsubLog : Past(Key(x), k)}
           under(x) == {y \in later : Past(Key(x), Key(y))}
<1>1. s \in later /\ r \in later /\ Cardinality(under(s)) < UnsubLimit
  BY DEF UnsubsSince
<1>2. \A x \in unsubLog : IsKey(Key(x))
  BY RowKey DEF UnsubShape
<1>3. \A y \in later : Past(Key(r), Key(y)) => Past(Key(s), Key(y))
  BY <1>1, <1>2, PastIsOrder
<1>4. under(r) \subseteq under(s) /\ under(s) \subseteq unsubLog
  BY <1>3
<1>5. IsFiniteSet(under(s))
  BY <1>4, FS_Subset DEF UnsubShape
<1>6. Cardinality(under(r)) <= Cardinality(under(s)) /\ IsFiniteSet(under(r))
  BY <1>4, <1>5, FS_Subset
<1>7. Cardinality(under(r)) \in Nat /\ Cardinality(under(s)) \in Nat
  BY <1>5, <1>6, FS_CardinalityType
<1>8. Cardinality(under(r)) < UnsubLimit
  BY <1>1, <1>6, <1>7, FeedbackAssumption
<1> QED BY <1>1, <1>8 DEF UnsubsSince

LEMMA UnsubInitial ==
  ASSUME FeedInit
  PROVE  UnsubIInv
<1>1. IsFiniteSet({})
  BY FS_EmptySet
<1> QED BY <1>1 DEF FeedInit, UnsubIInv, UnsubShape, PageHonours, UnsubHonoured, NoUnsubs, HasSupp,
  Suppression, WithinPage

(* A step that only adds to the suppression list.                           *)
LEMMA UnsubFrame ==
  ASSUME UnsubIInv, HasSupp', Grows, ask' \in [Askers -> UnsubRow \union {None}],
         UNCHANGED <<unsubLog, unsubCursor, unsubPage, missed>>
  PROVE  UnsubIInv'
<1>1. UnsubShape'
  BY DEF UnsubIInv, UnsubShape
<1>2. ASSUME NEW t \in Readers, NEW r \in unsubLog, Honoured(t, r)
      PROVE  Honoured(t, r)'
  <2>1. r.who \in People
    BY DEF UnsubIInv, UnsubShape, UnsubRow
  <2> QED BY <1>2, <2>1 DEF Honoured, Grows
<1>3. PageHonours'
  BY <1>2 DEF UnsubIInv, PageHonours, WithinPage
<1>4. UnsubHonoured'
  BY <1>2 DEF UnsubIInv, UnsubHonoured, Honoured
<1> QED BY <1>1, <1>3, <1>4 DEF UnsubIInv

LEMMA LogUnsubKeeps ==
  ASSUME UnsubIInv, NEW u \in Askers, LogUnsub(u)
  PROVE  UnsubIInv' /\ Grows
<1> DEFINE row == ask[u]
           given(t) == \/ ~Past(Key(row), unsubCursor[t])
                       \/ \E r \in unsubPage[t].rows : ~Past(Key(row), Key(r))
<1>1. /\ row # None /\ unsubLog' = Others(row) \union {row}
      /\ missed' = missed \union {<<t, row>> : t \in {v \in Readers : given(v)}}
      /\ ask' = [ask EXCEPT ![u] = None]
      /\ UNCHANGED <<unsubCursor, unsubPage, supp>>
  BY DEF LogUnsub, localVars
<1>2. row \in UnsubRow
  BY <1>1 DEF UnsubIInv, UnsubShape
<1>3. Others(row) \subseteq unsubLog
  BY DEF Others
<1>4. IsFiniteSet(unsubLog')
  <2>1. IsFiniteSet(Others(row))
    BY <1>3, FS_Subset DEF UnsubIInv, UnsubShape
  <2> QED BY <1>1, <2>1, FS_AddElement
<1>5. UnsubShape'
  BY <1>1, <1>2, <1>3, <1>4 DEF UnsubIInv, UnsubShape, HasSupp
<1>6. \A t \in Readers : given(t) => <<t, row>> \in missed'
  BY <1>1
<1>7. missed \subseteq missed'
  BY <1>1
<1> HIDE DEF row
<1>8. PageHonours'
  <2> SUFFICES ASSUME NEW t \in Readers, NEW r \in unsubLog', WithinPage(t, r)
               PROVE  \/ unsubPage[t].phase = "merge" /\ r \in unsubPage[t].rows
                      \/ Honoured(t, r)'
    BY <1>1 DEF PageHonours, WithinPage
  <2>1. CASE r \in unsubLog
    BY <1>1, <1>7, <2>1 DEF UnsubIInv, PageHonours, Honoured
  <2>2. CASE r = row
    BY <1>6, <2>2 DEF WithinPage, Honoured
  <2> QED BY <1>1, <1>3, <2>1, <2>2
<1>9. UnsubHonoured'
  <2> SUFFICES ASSUME NEW t \in Readers, NEW r \in unsubLog', ~Past(Key(r), unsubCursor[t])
               PROVE  Honoured(t, r)'
    BY <1>1 DEF UnsubHonoured, Honoured
  <2>1. CASE r \in unsubLog
    BY <1>1, <1>7, <2>1 DEF UnsubIInv, UnsubHonoured, Honoured
  <2>2. CASE r = row
    BY <1>6, <2>2 DEF Honoured
  <2> QED BY <1>1, <1>3, <2>1, <2>2
<1>10. Grows
  BY <1>1 DEF Grows
<1> QED BY <1>5, <1>8, <1>9, <1>10 DEF UnsubIInv

LEMMA PullUnsubsKeeps ==
  ASSUME UnsubIInv, NEW t \in Readers, Pull(t)
  PROVE  UnsubIInv' /\ Grows
<1> DEFINE rows == UnsubsSince(unsubCursor[t])
<1>1. /\ unsubPage' = [unsubPage EXCEPT ![t] = [phase |-> "merge", rows |-> rows]]
      /\ UNCHANGED <<unsubLog, unsubCursor, missed, supp, ask>>
  BY DEF Pull, unsubVars
<1>2. rows \subseteq unsubLog /\ rows \subseteq UnsubRow
  BY DEF UnsubsSince, UnsubIInv, UnsubShape
<1>3. /\ unsubPage' \in [Readers -> [phase : {"none", "merge", "cursor"}, rows : SUBSET UnsubRow]]
      /\ unsubPage'[t] = [phase |-> "merge", rows |-> rows]
      /\ \A u \in Readers \ {t} : unsubPage'[u] = unsubPage[u]
  BY <1>1, <1>2 DEF UnsubIInv, UnsubShape
<1>4. UnsubShape'
  BY <1>1, <1>3 DEF UnsubIInv, UnsubShape, HasSupp
<1>5. ASSUME NEW r \in unsubLog, NEW s \in rows, ~Past(Key(r), Key(s))
      PROVE  r \in rows \/ Honoured(t, r)
  <2>1. CASE Past(Key(r), unsubCursor[t])
    BY <1>5, <2>1, CursorKey, UnsubsHaveNoGap DEF UnsubIInv
  <2>2. CASE ~Past(Key(r), unsubCursor[t])
    BY <2>2 DEF UnsubIInv, UnsubHonoured, Honoured
  <2> QED BY <2>1, <2>2
<1> HIDE DEF rows
<1>6. PageHonours'
  <2> SUFFICES ASSUME NEW u \in Readers, NEW r \in unsubLog, NEW s \in unsubPage'[u].rows, ~Past(Key(r), Key(s))
               PROVE  \/ unsubPage'[u].phase = "merge" /\ r \in unsubPage'[u].rows
                      \/ Honoured(u, r)
    BY <1>1 DEF PageHonours, WithinPage, Honoured
  <2>1. CASE u = t
    BY <1>3, <1>5, <2>1
  <2>2. CASE u # t
    BY <1>3, <2>2 DEF UnsubIInv, PageHonours, WithinPage
  <2> QED BY <2>1, <2>2
<1>7. UnsubHonoured' /\ Grows
  BY <1>1 DEF UnsubIInv, UnsubHonoured, Grows
<1> QED BY <1>4, <1>6, <1>7 DEF UnsubIInv

LEMMA MergeKeeps ==
  ASSUME UnsubIInv, NEW t \in Readers, MergeUnsubs(t)
  PROVE  UnsubIInv' /\ Grows
<1>1. /\ unsubPage' = [unsubPage EXCEPT ![t].phase = "cursor"] /\ unsubPage[t].phase = "merge"
      /\ UNCHANGED <<unsubLog, unsubCursor, missed, ask>>
  BY DEF MergeUnsubs, unsubVars
<1>2. unsubPage[t].rows \subseteq UnsubRow
  BY DEF UnsubIInv, UnsubShape
<1>3. /\ HasSupp' /\ Grows
      /\ \A r \in unsubPage[t].rows : Blocks(r.scope) \subseteq Blocks(supp'[t][r.who])
  BY <1>2, MergeStep DEF UnsubIInv, UnsubShape
<1>4. /\ unsubPage' \in [Readers -> [phase : {"none", "merge", "cursor"}, rows : SUBSET UnsubRow]]
      /\ unsubPage'[t].phase = "cursor"
      /\ \A u \in Readers : unsubPage'[u].rows = unsubPage[u].rows
      /\ \A u \in Readers \ {t} : unsubPage'[u] = unsubPage[u]
  BY <1>1 DEF UnsubIInv, UnsubShape
<1>5. UnsubShape'
  BY <1>1, <1>3, <1>4 DEF UnsubIInv, UnsubShape
<1>6. ASSUME NEW u \in Readers, NEW r \in unsubLog, Honoured(u, r)
      PROVE  Honoured(u, r)'
  <2>1. r.who \in People
    BY DEF UnsubIInv, UnsubShape, UnsubRow
  <2> QED BY <1>1, <1>3, <1>6, <2>1 DEF Honoured, Grows
<1>7. PageHonours'
  <2> SUFFICES ASSUME NEW u \in Readers, NEW r \in unsubLog, WithinPage(u, r)
               PROVE  \/ unsubPage'[u].phase = "merge" /\ r \in unsubPage'[u].rows
                      \/ Honoured(u, r)'
    BY <1>1, <1>4 DEF PageHonours, WithinPage
  <2>1. CASE Honoured(u, r)
    BY <1>6, <2>1
  <2>2. CASE ~Honoured(u, r)
    <3>1. unsubPage[u].phase = "merge" /\ r \in unsubPage[u].rows
      BY <2>2 DEF UnsubIInv, PageHonours
    <3>2. CASE u = t
      BY <1>3, <3>1, <3>2 DEF Honoured
    <3>3. CASE u # t
      BY <1>4, <3>1, <3>3
    <3> QED BY <3>2, <3>3
  <2> QED BY <2>1, <2>2
<1>8. UnsubHonoured'
  BY <1>1, <1>6 DEF UnsubIInv, UnsubHonoured, Honoured
<1> QED BY <1>3, <1>5, <1>7, <1>8 DEF UnsubIInv

LEMMA EndUnsubsKeeps ==
  ASSUME UnsubIInv, NEW t \in Readers, SetUnsubCursor(t) \/ LosePull(t)
  PROVE  UnsubIInv' /\ Grows
<1>1. /\ unsubPage' = [unsubPage EXCEPT ![t] = NoUnsubs]
      /\ UNCHANGED <<unsubLog, missed, supp, ask>>
  BY DEF SetUnsubCursor, LosePull, unsubVars
<1>2. /\ unsubPage' \in [Readers -> [phase : {"none", "merge", "cursor"}, rows : SUBSET UnsubRow]]
      /\ unsubPage'[t].rows = {}
      /\ \A u \in Readers \ {t} : unsubPage'[u] = unsubPage[u]
  BY <1>1 DEF UnsubIInv, UnsubShape, NoUnsubs
<1>3. PageHonours'
  <2> SUFFICES ASSUME NEW u \in Readers, NEW r \in unsubLog, NEW s \in unsubPage'[u].rows, ~Past(Key(r), Key(s))
               PROVE  \/ unsubPage'[u].phase = "merge" /\ r \in unsubPage'[u].rows
                      \/ Honoured(u, r)
    BY <1>1 DEF PageHonours, WithinPage, Honoured
  <2>1. u # t
    BY <1>2
  <2> QED BY <1>2, <2>1 DEF UnsubIInv, PageHonours, WithinPage
<1>4. /\ unsubCursor' \in [Readers -> {<<-1, -1>>} \union ((0..MaxTime) \X People)]
      /\ UnsubHonoured'
  <2>1. CASE UNCHANGED unsubCursor
    BY <1>1, <2>1 DEF UnsubIInv, UnsubShape, UnsubHonoured
  <2>2. CASE /\ unsubPage[t].phase = "cursor"
             /\ \E last \in unsubPage[t].rows :
                  /\ \A r \in unsubPage[t].rows : ~Past(Key(r), Key(last))
                  /\ unsubCursor' = [unsubCursor EXCEPT ![t] = Key(last)]
    <3>1. PICK last \in unsubPage[t].rows : unsubCursor' = [unsubCursor EXCEPT ![t] = Key(last)]
      BY <2>2
    <3>2. last \in UnsubRow
      BY DEF UnsubIInv, UnsubShape
    <3>3. Key(last) \in (0..MaxTime) \X People
      BY <3>2, RowKey
    <3>4. /\ unsubCursor' \in [Readers -> {<<-1, -1>>} \union ((0..MaxTime) \X People)]
          /\ unsubCursor'[t] = Key(last) /\ \A u \in Readers \ {t} : unsubCursor'[u] = unsubCursor[u]
      BY <3>1, <3>3 DEF UnsubIInv, UnsubShape
    <3>5. ASSUME NEW u \in Readers, NEW r \in unsubLog, ~Past(Key(r), unsubCursor'[u])
          PROVE  Honoured(u, r)
      <4>1. CASE u = t
        BY <2>2, <3>4, <3>5, <4>1 DEF UnsubIInv, PageHonours, WithinPage
      <4>2. CASE u # t
        BY <3>4, <3>5, <4>2 DEF UnsubIInv, UnsubHonoured, Honoured
      <4> QED BY <4>1, <4>2
    <3> QED BY <1>1, <3>4, <3>5 DEF UnsubHonoured, Honoured
  <2> QED BY <2>1, <2>2 DEF SetUnsubCursor, LosePull
<1>5. UnsubShape'
  BY <1>1, <1>2, <1>4 DEF UnsubIInv, UnsubShape, HasSupp
<1>6. Grows
  BY <1>1 DEF Grows
<1> QED BY <1>3, <1>4, <1>5, <1>6 DEF UnsubIInv

-----------------------------------------------------------------------------
(* The log, as the requests and the pull loop use it                        *)

LogSafe == LogIInv /\ LogHolds

LEMMA LogStays ==
  ASSUME LogSafe, UNCHANGED logVars
  PROVE  LogSafe'
BY DEF LogSafe, LogHolds, LogIInv, LogShape, IdsUnique, PageCovers, CursorCovers, SameRevision, logVars

LEMMA LogAppends ==
  ASSUME LogSafe, NEW a \in Appenders, NEW x \in Items, PutItem(a, x)
  PROVE  LogSafe' /\ log \subseteq log' /\ \E e \in log' : e.item = x
BY PutKeeps, PutHolds DEF LogSafe, LogIInv

LEMMA LogDraws ==
  ASSUME LogSafe, NEW a \in Appenders, NextId(a) \/ Abandon(a)
  PROVE  LogSafe' /\ log' = log /\ inbox' = inbox
<1>1. UNCHANGED <<log, inbox, overtaken>>
  BY DEF NextId, Abandon
<1> QED BY <1>1, DrawKeeps DEF LogSafe, LogHolds

LEMMA LogIsPulled ==
  ASSUME LogSafe, NEW t \in Readers,
         PullEvents(t) \/ ApplyEvent(t) \/ SetCursor(t) \/ BreakPull(t)
  PROVE  LogSafe' /\ log' = log /\ \A u \in Readers : inbox[u] \subseteq inbox'[u]
<1>1. UNCHANGED <<log, overtaken>>
  BY DEF PullEvents, ApplyEvent, SetCursor, BreakPull
<1>2. LogIInv'
  BY PullKeeps, ApplyKeeps, EndPullKeeps DEF LogSafe
<1>3. \A u \in Readers : inbox[u] \subseteq inbox'[u]
  BY DEF PullEvents, ApplyEvent, SetCursor, BreakPull, LogSafe, LogIInv, LogShape
<1> QED BY <1>1, <1>2, <1>3 DEF LogSafe, LogHolds

LEMMA HookItems ==
  ASSUME NEW h \in Hooks
  PROVE  /\ EventItem(h) \in Items /\ SuppItem(h) \in Items
         /\ SuppItem(h).row = <<"suppression", h.who>> /\ h.who \in People
BY ItemsAssumption, FeedbackAssumption DEF FeedItems, EventItem, SuppItem

LEMMA ItemHook ==
  ASSUME NEW x \in Items
  PROVE  x.hook \in Hooks /\ x.hook.who \in People
         /\ x.hook.type \in {"clicked", "bounced", "complained", "unsubscribed"}
BY ItemsAssumption, FeedbackAssumption DEF FeedItems, EventItem, SuppItem

-----------------------------------------------------------------------------
(* Webhooks                                                                 *)

HookShape ==
  /\ registered \in BOOLEAN
  /\ delivery \in [Appenders -> [hook : Hooks \union {None}, todo : {"none", "event", "suppression", "raw"}]]
  /\ \A a \in Appenders : delivery[a].todo # "none" => delivery[a].hook \in Hooks
  /\ raw \subseteq Hooks /\ answered \subseteq Hooks /\ rawOnly \subseteq answered

EventIn(events, h) == \E e \in events : e.item = EventItem(h)
SuppIn(events, h)  == \E e \in events : e.item.row = <<"suppression", h.who>>
AllIn(events, h)   == EventIn(events, h) /\ (Suppressing(h) => SuppIn(events, h))

(* The raw row is written last: what it would answer for is in the log.     *)
RawIsLast ==
  /\ \A h \in (raw \union answered) \ rawOnly : AllIn(log, h)
  /\ \A a \in Appenders :
       /\ delivery[a].todo = "suppression" => EventIn(log, delivery[a].hook)
       /\ delivery[a].todo = "raw" => AllIn(log, delivery[a].hook)

HookIInv == HookShape /\ RawIsLast

LEMMA StaysLogged ==
  ASSUME log \subseteq log', NEW h
  PROVE  /\ EventIn(log, h) => EventIn(log', h)
         /\ AllIn(log, h) => AllIn(log', h)
BY DEF EventIn, AllIn, SuppIn

LEMMA HookStays ==
  ASSUME HookIInv, UNCHANGED hookVars, log \subseteq log'
  PROVE  HookIInv'
<1>1. UNCHANGED <<registered, delivery, raw, answered, rawOnly>>
  BY DEF hookVars
<1>2. HookShape'
  BY <1>1 DEF HookIInv, HookShape
<1>3. RawIsLast'
  BY <1>1, StaysLogged DEF HookIInv, RawIsLast
<1> QED BY <1>2, <1>3 DEF HookIInv

(* One delivery goes on.                                                    *)
LEMMA DeliveryMoves ==
  ASSUME HookIInv, log \subseteq log', NEW a \in Appenders,
         NEW d \in [hook : Hooks \union {None}, todo : {"none", "event", "suppression", "raw"}],
         delivery' = [delivery EXCEPT ![a] = d],
         d.todo # "none" => d.hook \in Hooks,
         d.todo = "suppression" => EventIn(log', d.hook),
         d.todo = "raw" => AllIn(log', d.hook),
         registered' = registered, rawOnly' = rawOnly,
         raw \subseteq raw', answered \subseteq answered', raw' \subseteq Hooks, answered' \subseteq Hooks,
         \A h \in raw' \union answered' : h \in raw \union answered \/ AllIn(log', h)
  PROVE  HookIInv'
<1>1. /\ delivery' \in [Appenders -> [hook : Hooks \union {None}, todo : {"none", "event", "suppression", "raw"}]]
      /\ delivery'[a] = d /\ \A b \in Appenders \ {a} : delivery'[b] = delivery[b]
  BY DEF HookIInv, HookShape
<1>2. HookShape'
  BY <1>1 DEF HookIInv, HookShape
<1>3. \A h \in (raw' \union answered') \ rawOnly' : AllIn(log', h)
  BY StaysLogged DEF HookIInv, RawIsLast
<1>4. ASSUME NEW b \in Appenders
      PROVE  /\ delivery'[b].todo = "suppression" => EventIn(log', delivery'[b].hook)
             /\ delivery'[b].todo = "raw" => AllIn(log', delivery'[b].hook)
  <2>1. CASE b = a
    BY <1>1, <2>1
  <2>2. CASE b # a
    BY <1>1, <2>2, StaysLogged DEF HookIInv, RawIsLast
  <2> QED BY <2>1, <2>2
<1> QED BY <1>2, <1>3, <1>4 DEF HookIInv, RawIsLast

LEMMA DeliveryAt ==
  ASSUME HookShape, NEW a \in Appenders, NEW todo \in {"none", "event", "suppression", "raw"}
  PROVE  /\ [delivery EXCEPT ![a].todo = todo] = [delivery EXCEPT ![a] = [hook |-> delivery[a].hook, todo |-> todo]]
         /\ [hook |-> delivery[a].hook, todo |-> todo]
              \in [hook : Hooks \union {None}, todo : {"none", "event", "suppression", "raw"}]
<1>1. delivery[a] \in [hook : Hooks \union {None}, todo : {"none", "event", "suppression", "raw"}]
  BY DEF HookShape
<1>2. [delivery[a] EXCEPT !.todo = todo] = [hook |-> delivery[a].hook, todo |-> todo]
  BY <1>1
<1>3. [delivery EXCEPT ![a].todo = todo] = [delivery EXCEPT ![a] = [delivery[a] EXCEPT !.todo = todo]]
  BY DEF HookShape
<1> QED BY <1>1, <1>2, <1>3

LEMMA ArrivalKeeps ==
  ASSUME HookIInv, log' = log, NEW a \in Appenders, NEW h \in Hooks, Deliver(a, h)
  PROVE  HookIInv'
<1>1. log \subseteq log'
  OBVIOUS
<1>2. CASE Deliver(a, h) /\ Duplicate(h)
  <2>1. h \in raw /\ answered' = answered \union {h} /\ UNCHANGED <<registered, delivery, raw, rawOnly>>
    BY <1>2 DEF Deliver, Duplicate
  <2> QED BY <2>1 DEF HookIInv, HookShape, RawIsLast
<1>3. CASE Deliver(a, h) /\ KeepRawOnly(h)
  <2>1. /\ raw' = raw \union {h} /\ answered' = answered \union {h} /\ rawOnly' = rawOnly \union {h}
        /\ UNCHANGED <<registered, delivery>>
    BY <1>3 DEF Deliver, KeepRawOnly
  <2> QED BY <2>1 DEF HookIInv, HookShape, RawIsLast
<1>4. CASE Deliver(a, h) /\ Accept(a, h)
  <2> DEFINE d == [hook |-> h, todo |-> "event"]
  <2>1. /\ delivery' = [delivery EXCEPT ![a] = d] /\ UNCHANGED <<registered, raw, answered, rawOnly>>
    BY <1>4 DEF Deliver, Accept
  <2>2. d \in [hook : Hooks \union {None}, todo : {"none", "event", "suppression", "raw"}]
        /\ d.todo = "event" /\ d.hook \in Hooks
    OBVIOUS
  <2>3. raw \subseteq Hooks /\ answered \subseteq Hooks
    BY DEF HookIInv, HookShape
  <2> HIDE DEF d
  <2> QED BY <1>1, <2>1, <2>2, <2>3, DeliveryMoves
<1> QED BY <1>2, <1>3, <1>4 DEF Deliver

LEMMA HookPutKeeps ==
  ASSUME HookIInv, LogSafe, NEW a \in Appenders, HookPutItem(a)
  PROVE  HookIInv' /\ LogSafe' /\ inbox' = inbox
<1> DEFINE h == delivery[a].hook
<1>1. h \in Hooks /\ raw \subseteq Hooks /\ answered \subseteq Hooks
  BY DEF HookPutItem, HookIInv, HookShape
<1>2. UNCHANGED <<registered, raw, answered, rawOnly>> /\ inbox' = inbox
  BY DEF HookPutItem, PutItem
<1>3. CASE /\ PutItem(a, EventItem(h)) /\ delivery' = [delivery EXCEPT ![a].todo = AfterEvent(h)]
  <2> DEFINE d == [hook |-> h, todo |-> AfterEvent(h)]
  <2>1. LogSafe' /\ log \subseteq log' /\ EventIn(log', h)
    BY <1>1, <1>3, HookItems, LogAppends DEF EventIn
  <2>2. AfterEvent(h) \in {"suppression", "raw"} /\ (AfterEvent(h) = "raw" => ~Suppressing(h))
    BY DEF AfterEvent
  <2>3. delivery' = [delivery EXCEPT ![a] = d]
        /\ d \in [hook : Hooks \union {None}, todo : {"none", "event", "suppression", "raw"}]
    BY <1>3, <2>2, DeliveryAt DEF HookIInv
  <2>4. d.hook = h /\ d.todo = AfterEvent(h)
    OBVIOUS
  <2>5. d.todo = "raw" => AllIn(log', d.hook)
    BY <2>1, <2>2, <2>4 DEF AllIn, Suppressing
  <2> HIDE DEF d
  <2> QED BY <1>1, <1>2, <2>1, <2>3, <2>4, <2>5, DeliveryMoves
<1>4. CASE /\ PutItem(a, SuppItem(h)) /\ delivery' = [delivery EXCEPT ![a].todo = "raw"]
           /\ delivery[a].todo = "suppression"
  <2> DEFINE d == [hook |-> h, todo |-> "raw"]
  <2>1. LogSafe' /\ log \subseteq log' /\ SuppIn(log', h)
    BY <1>1, <1>4, HookItems, LogAppends DEF SuppIn
  <2>2. EventIn(log', h)
    BY <1>4, <2>1, StaysLogged DEF HookIInv, RawIsLast
  <2>3. delivery' = [delivery EXCEPT ![a] = d]
        /\ d \in [hook : Hooks \union {None}, todo : {"none", "event", "suppression", "raw"}]
    BY <1>4, DeliveryAt DEF HookIInv
  <2>4. d.hook = h /\ d.todo = "raw" /\ AllIn(log', h)
    BY <2>1, <2>2 DEF AllIn, Suppressing
  <2> HIDE DEF d
  <2> QED BY <1>1, <1>2, <2>1, <2>3, <2>4, DeliveryMoves
<1> QED BY <1>2, <1>3, <1>4 DEF HookPutItem

LEMMA FreeDelivery ==
  Free \in [hook : Hooks \union {None}, todo : {"none", "event", "suppression", "raw"}] /\ Free.todo = "none"
BY DEF Free

LEMMA HookEndsKeeps ==
  ASSUME HookIInv, log' = log, NEW a \in Appenders, PutRaw(a) \/ BreakHook(a)
  PROVE  HookIInv'
<1>1. /\ delivery' = [delivery EXCEPT ![a] = Free] /\ UNCHANGED <<registered, rawOnly>>
  BY DEF PutRaw, BreakHook
<1>2. raw \subseteq Hooks /\ answered \subseteq Hooks
  BY DEF HookIInv, HookShape
<1>3. /\ raw' = raw \/ (raw' = raw \union {delivery[a].hook} /\ delivery[a].todo = "raw")
      /\ answered' = answered \/ (answered' = answered \union {delivery[a].hook} /\ delivery[a].todo = "raw")
  BY DEF PutRaw, BreakHook
<1>4. delivery[a].todo = "raw" => delivery[a].hook \in Hooks /\ AllIn(log', delivery[a].hook)
  BY DEF HookIInv, HookShape, RawIsLast
<1> QED BY <1>1, <1>2, <1>3, <1>4, FreeDelivery, DeliveryMoves

-----------------------------------------------------------------------------
(* The other types                                                          *)

AskShape ==
  /\ unsub \in [People -> Scopes \union {"none"}]
  /\ \A r, s \in unsubLog : r.at = s.at /\ r.who = s.who => r = s
  /\ accepted \subseteq People \X Scopes
  /\ asks \in 0..MaxAsks /\ clock \in 0..MaxTime
  /\ missed \subseteq Readers \X UnsubRow

OwnShape ==
  /\ status \in [Readers -> [People -> {"sent", "clicked", "bounced", "complained"}]]
  /\ known \in [Readers -> SUBSET People]
  /\ done \in [Readers -> SUBSET Event] /\ skipped \in [Readers -> SUBSET Event]
  /\ \A t \in Readers : done[t] \subseteq inbox[t] /\ skipped[t] \subseteq inbox[t]

FeedIInv ==
  LogSafe /\ HookIInv /\ UnsubIInv /\ AskShape /\ OwnShape /\ faults \in 0..MaxFaults

LEMMA IInvTypes ==
  ASSUME FeedIInv
  PROVE  FeedTypeOK
<1>1. LogTypeOK
  BY HeldTypes DEF FeedIInv, LogSafe, LogIInv
<1>2. ASSUME NEW t \in Readers
      PROVE  /\ unsubCursor[t] \in {<<-1, -1>>} \union ((0..MaxTime) \X People)
             /\ unsubPage[t].phase \in {"none", "merge", "cursor"}
             /\ unsubPage[t].rows \subseteq UnsubRow
             /\ status[t] \in [People -> {"sent", "clicked", "bounced", "complained"}]
             /\ supp[t] \in [People -> Suppression]
             /\ known[t] \subseteq People
             /\ done[t] \subseteq inbox[t] /\ skipped[t] \subseteq inbox[t]
  BY DEF FeedIInv, UnsubIInv, UnsubShape, HasSupp, OwnShape
<1>3. unsubLog \subseteq UnsubRow /\ ask \in [Askers -> UnsubRow \union {None}]
  BY DEF FeedIInv, UnsubIInv, UnsubShape
<1> QED BY <1>1, <1>2, <1>3 DEF FeedTypeOK, FeedIInv, HookIInv, HookShape, AskShape

LEMMA FeedInitial ==
  ASSUME FeedInit
  PROVE  FeedIInv
<1>1. LogSafe
  BY LogInitial DEF FeedInit, LogInit, LogSafe, LogHolds
<1>2. HookIInv
  BY DEF FeedInit, HookIInv, HookShape, RawIsLast, Free
<1>3. AskShape
  BY FeedbackAssumption DEF FeedInit, AskShape
<1>4. OwnShape
  BY DEF FeedInit, OwnShape
<1>5. faults \in 0..MaxFaults
  BY FeedbackAssumption DEF FeedInit
<1> QED BY <1>1, <1>2, <1>3, <1>4, <1>5, UnsubInitial DEF FeedIInv

LEMMA OwnStays ==
  ASSUME OwnShape, UNCHANGED <<status, known, done, skipped>>,
         \A u \in Readers : inbox[u] \subseteq inbox'[u]
  PROVE  OwnShape'
BY DEF OwnShape

LEMMA AskStays ==
  ASSUME AskShape, UNCHANGED <<unsub, unsubLog, accepted, asks, clock, missed>>
  PROVE  AskShape'
BY DEF AskShape

LEMMA FaultCounts ==
  ASSUME faults \in 0..MaxFaults, Fault \/ UNCHANGED faults
  PROVE  faults' \in 0..MaxFaults
<1>1. MaxFaults \in Nat
  BY FeedbackAssumption
<1> QED BY <1>1 DEF Fault

LEMMA UnsubStays ==
  ASSUME UnsubIInv, UNCHANGED <<unsubLog, unsubCursor, unsubPage, missed, ask, supp>>
  PROVE  UnsubIInv' /\ Grows
<1>1. HasSupp' /\ Grows
  BY DEF UnsubIInv, UnsubShape, HasSupp, Grows
<1>2. ask' \in [Askers -> UnsubRow \union {None}]
  BY DEF UnsubIInv, UnsubShape
<1> QED BY <1>1, <1>2, UnsubFrame

-----------------------------------------------------------------------------
(* The steps                                                                *)

LEMMA RegisterOrTickKeeps ==
  ASSUME FeedIInv, Register \/ Tick
  PROVE  FeedIInv' /\ Grows
<1>1. UNCHANGED <<logVars, localVars, delivery, raw, answered, rawOnly, unsub, unsubLog, ask, accepted, asks,
                  missed, faults>>
  BY DEF Register, Tick, hookVars, unsubVars
<1>2. UNCHANGED <<log, inbox, unsubCursor, unsubPage, known, status, supp, done, skipped>>
  BY <1>1 DEF logVars, localVars
<1>3. registered' \in BOOLEAN
  BY DEF Register, Tick, hookVars, FeedIInv, HookIInv, HookShape
<1>4. clock' \in 0..MaxTime
  <2>1. MaxTime \in Nat
    BY FeedbackAssumption
  <2> QED BY <2>1 DEF Register, Tick, unsubVars, FeedIInv, AskShape
<1>5. LogSafe' /\ OwnShape'
  BY <1>1, <1>2, LogStays, OwnStays DEF FeedIInv
<1>6. HookIInv'
  BY <1>1, <1>2, <1>3 DEF FeedIInv, HookIInv, HookShape, RawIsLast
<1>7. UnsubIInv' /\ Grows
  BY <1>1, <1>2, UnsubStays DEF FeedIInv
<1>8. AskShape'
  BY <1>1, <1>4 DEF FeedIInv, AskShape
<1> QED BY <1>1, <1>5, <1>6, <1>7, <1>8 DEF FeedIInv

LEMMA HookStepKeeps ==
  ASSUME FeedIInv, NEW a \in Appenders,
         (\E h \in Hooks : Deliver(a, h)) \/ Hook(a) \/ BreakHook(a)
  PROVE  FeedIInv' /\ Grows
<1>1. UNCHANGED <<unsubVars, localVars>> /\ (Fault \/ UNCHANGED faults)
  BY DEF Deliver, Hook, HookNextId, HookPutItem, PutRaw, BreakHook
<1>2. UNCHANGED <<unsub, unsubLog, ask, accepted, asks, clock, missed, unsubCursor, unsubPage, known, status,
                  supp, done, skipped>>
  BY <1>1 DEF unsubVars, localVars
<1>3. HookIInv' /\ LogSafe' /\ inbox' = inbox
  <2>1. CASE \E h \in Hooks : Deliver(a, h)
    <3>1. UNCHANGED logVars
      BY <2>1 DEF Deliver
    <3>2. log' = log /\ inbox' = inbox
      BY <3>1 DEF logVars
    <3> QED BY <2>1, <3>1, <3>2, LogStays, ArrivalKeeps DEF FeedIInv
  <2>2. CASE HookNextId(a)
    <3>1. NextId(a) /\ UNCHANGED hookVars
      BY <2>2 DEF HookNextId
    <3> QED BY <3>1, LogDraws, HookStays DEF FeedIInv
  <2>3. CASE HookPutItem(a)
    BY <2>3, HookPutKeeps DEF FeedIInv
  <2>4. CASE PutRaw(a)
    <3>1. UNCHANGED logVars
      BY <2>4 DEF PutRaw
    <3>2. log' = log /\ inbox' = inbox
      BY <3>1 DEF logVars
    <3> QED BY <2>4, <3>1, <3>2, LogStays, HookEndsKeeps DEF FeedIInv
  <2>5. CASE BreakHook(a)
    <3>1. Abandon(a)
      BY <2>5 DEF BreakHook
    <3> QED BY <2>5, <3>1, LogDraws, HookEndsKeeps DEF FeedIInv
  <2> QED BY <2>1, <2>2, <2>3, <2>4, <2>5 DEF Hook
<1>4. AskShape' /\ OwnShape'
  BY <1>2, <1>3, AskStays, OwnStays DEF FeedIInv
<1>5. UnsubIInv' /\ Grows
  BY <1>2, UnsubStays DEF FeedIInv
<1>6. faults' \in 0..MaxFaults
  BY <1>1, FaultCounts DEF FeedIInv
<1> QED BY <1>3, <1>4, <1>5, <1>6 DEF FeedIInv

LEMMA AskStepKeeps ==
  ASSUME FeedIInv, NEW u \in Askers,
         (\E c \in People, scope \in Scopes : Ask(u, c, scope)) \/ LogUnsub(u) \/ BreakAsk(u)
  PROVE  FeedIInv' /\ Grows
<1>1. UNCHANGED <<logVars, hookVars, localVars>> /\ (Fault \/ UNCHANGED faults)
  BY DEF Ask, LogUnsub, BreakAsk
<1>2. UNCHANGED <<unsubCursor, unsubPage, known, status, supp, done, skipped, log, inbox>>
  BY <1>1 DEF localVars, logVars
<1>3. LogSafe' /\ HookIInv'
  BY <1>1, <1>2, LogStays, HookStays DEF FeedIInv
<1>4. OwnShape'
  BY <1>2, OwnStays DEF FeedIInv
<1>5. HasSupp' /\ Grows
  BY <1>2 DEF FeedIInv, UnsubIInv, UnsubShape, HasSupp, Grows
<1>6. MaxTime \in Nat /\ MaxAsks \in Nat
  BY FeedbackAssumption
<1>7. ask \in [Askers -> UnsubRow \union {None}] /\ unsubLog \subseteq UnsubRow
  BY DEF FeedIInv, UnsubIInv, UnsubShape
<1>8. AskShape' /\ UnsubIInv'
  <2>2. ASSUME NEW c \in People, NEW scope \in Scopes, Ask(u, c, scope)
        PROVE  AskShape' /\ UnsubIInv'
    <3>1. UNCHANGED <<unsubLog, missed, clock>> /\ asks' = asks + 1 /\ asks < MaxAsks
          /\ unsub' = [unsub EXCEPT ![c] = IF unsub[c] = "none" \/ scope = "all" THEN scope ELSE unsub[c]]
          /\ (ask' = [ask EXCEPT ![u] = [at |-> clock, who |-> c, scope |-> scope]] \/ ask' = ask)
          /\ (accepted' = accepted \/ accepted' = accepted \union {<<c, scope>>})
      BY <2>2 DEF Ask
    <3>2. unsub' \in [People -> Scopes \union {"none"}]
      BY <3>1 DEF FeedIInv, AskShape
    <3>3. asks' \in 0..MaxAsks
      BY <1>6, <3>1 DEF FeedIInv, AskShape
    <3>4. [at |-> clock, who |-> c, scope |-> scope] \in UnsubRow
      BY DEF FeedIInv, AskShape, UnsubRow
    <3>5. ask' \in [Askers -> UnsubRow \union {None}]
      BY <1>7, <3>1, <3>4
    <3>6. UnsubIInv'
      BY <1>2, <1>5, <3>1, <3>5, UnsubFrame DEF FeedIInv
    <3>7. accepted' \subseteq People \X Scopes
      BY <3>1 DEF FeedIInv, AskShape
    <3> QED BY <3>1, <3>2, <3>3, <3>6, <3>7 DEF FeedIInv, AskShape
  <2>3. CASE LogUnsub(u)
    <3> DEFINE row == ask[u]
    <3>1. /\ row # None /\ unsubLog' = Others(row) \union {row}
          /\ accepted' = accepted \union {<<row.who, row.scope>>}
          /\ UNCHANGED <<unsub, asks, clock>>
      BY <2>3 DEF LogUnsub
    <3>2. row \in UnsubRow
      BY <1>7, <3>1
    <3>3. missed' \subseteq missed \union (Readers \X {row})
      BY <2>3 DEF LogUnsub
    <3> HIDE DEF row
    <3>4. row.who \in People /\ row.scope \in Scopes
      BY <3>2 DEF UnsubRow
    <3>5. \A r, s \in unsubLog' : r.at = s.at /\ r.who = s.who => r = s
      <4>1. \A r \in Others(row) : r \in unsubLog /\ (r.at # row.at \/ r.who # row.who)
        BY DEF Others, Key
      <4> QED BY <3>1, <4>1 DEF FeedIInv, AskShape
    <3>6. accepted' \subseteq People \X Scopes /\ missed' \subseteq Readers \X UnsubRow
      BY <3>1, <3>2, <3>3, <3>4 DEF FeedIInv, AskShape
    <3>7. AskShape'
      BY <3>1, <3>5, <3>6 DEF FeedIInv, AskShape
    <3> QED BY <2>3, <3>7, LogUnsubKeeps DEF FeedIInv
  <2>4. CASE BreakAsk(u)
    <3>1. ask' = [ask EXCEPT ![u] = None] /\ UNCHANGED <<unsub, unsubLog, accepted, asks, clock, missed>>
      BY <2>4 DEF BreakAsk
    <3>2. ask' \in [Askers -> UnsubRow \union {None}]
      BY <1>7, <3>1
    <3> QED BY <1>2, <1>5, <3>1, <3>2, UnsubFrame, AskStays DEF FeedIInv
  <2> QED BY <2>2, <2>3, <2>4
<1>9. faults' \in 0..MaxFaults
  BY <1>1, FaultCounts DEF FeedIInv
<1> QED BY <1>3, <1>4, <1>5, <1>8, <1>9 DEF FeedIInv

LEMMA PullLoopKeeps ==
  ASSUME FeedIInv, NEW t \in Readers, PullLoop(t) \/ LosePull(t)
  PROVE  FeedIInv' /\ Grows
<1>1. UNCHANGED <<hookVars, unsubVars, known, status, done, skipped>> /\ (Fault \/ UNCHANGED faults)
  BY DEF PullLoop, Pull, PullStep, MergeUnsubs, SetUnsubCursor, LosePull, localVars
<1>2. UNCHANGED <<unsub, unsubLog, ask, accepted, asks, clock, missed>>
  BY <1>1 DEF unsubVars
<1>3. \/ UNCHANGED logVars
      \/ PullEvents(t) \/ ApplyEvent(t) \/ SetCursor(t) \/ BreakPull(t)
  BY DEF PullLoop, Pull, PullStep, MergeUnsubs, SetUnsubCursor, LosePull
<1>4. LogSafe' /\ log \subseteq log' /\ \A u \in Readers : inbox[u] \subseteq inbox'[u]
  <2>1. CASE UNCHANGED logVars
    BY <2>1, LogStays DEF logVars, FeedIInv
  <2>2. CASE PullEvents(t) \/ ApplyEvent(t) \/ SetCursor(t) \/ BreakPull(t)
    BY <2>2, LogIsPulled DEF FeedIInv
  <2> QED BY <1>3, <2>1, <2>2
<1>5. HookIInv' /\ AskShape' /\ OwnShape'
  BY <1>1, <1>2, <1>4, HookStays, AskStays, OwnStays DEF FeedIInv
<1>6. UnsubIInv' /\ Grows
  <2>1. CASE PullStep(t)
    <3>1. UNCHANGED <<unsubCursor, unsubPage, supp>>
      BY <2>1 DEF PullStep, localVars
    <3> QED BY <1>2, <3>1, UnsubStays DEF FeedIInv
  <2> QED BY <2>1, PullUnsubsKeeps, MergeKeeps, EndUnsubsKeeps DEF FeedIInv, PullLoop
<1>7. faults' \in 0..MaxFaults
  BY <1>1, FaultCounts DEF FeedIInv
<1> QED BY <1>4, <1>5, <1>6, <1>7 DEF FeedIInv

LEMMA OneSet ==
  ASSUME NEW D, NEW E, NEW S, NEW f \in [D -> [E -> S]], NEW d \in D, NEW e \in E, NEW v \in S
  PROVE  [f EXCEPT ![d][e] = v] \in [D -> [E -> S]]
OBVIOUS

LEMMA OwnStepKeeps ==
  ASSUME FeedIInv, NEW t \in Readers,
         \/ Materialiser(t) \/ FailRow(t)
         \/ \E c \in People : LearnMessage(t, c) \/ SuppressByHand(t, c)
  PROVE  FeedIInv' /\ Grows
<1>1. UNCHANGED <<logVars, hookVars, unsub, unsubLog, ask, accepted, clock, missed, unsubCursor, unsubPage>>
      /\ (Fault \/ UNCHANGED faults)
  BY DEF Materialiser, Materialise, NextBatch, FailRow, LearnMessage, SuppressByHand, unsubVars
<1>2. UNCHANGED <<log, inbox>>
  BY <1>1 DEF logVars
<1>3. LogSafe' /\ HookIInv'
  BY <1>1, <1>2, LogStays, HookStays DEF FeedIInv
<1>4. ask' \in [Askers -> UnsubRow \union {None}] /\ HasSupp
  BY <1>1 DEF FeedIInv, UnsubIInv, UnsubShape
<1>5. NextOf(t) \subseteq inbox[t]
  BY DEF NextOf, Batch
<1>6. ASSUME NEW e \in inbox[t]
      PROVE  e \in Event /\ e.item.hook.who \in People
             /\ e.item.hook.type \in {"clicked", "bounced", "complained", "unsubscribed"}
  <2>1. e \in Event
    BY <1>6 DEF FeedIInv, LogSafe, LogIInv, LogShape, LogHolds
  <2> QED BY <2>1, ItemHook DEF Event
<1>7. faults' \in 0..MaxFaults
  BY <1>1, FaultCounts DEF FeedIInv
<1>8. SUFFICES AskShape' /\ OwnShape' /\ HasSupp' /\ Grows
  BY <1>1, <1>3, <1>4, <1>7, UnsubFrame DEF FeedIInv
<1>9. CASE Materialise(t)
  <2>1. PICK e \in NextOf(t) :
          /\ Effect(t, e)
          /\ done' = [done EXCEPT ![t] = @ \union {e}] \/ done' = done
    BY <1>9 DEF Materialise
  <2>2. UNCHANGED <<asks, known, skipped>>
    BY <1>9 DEF Materialise, unsubVars
  <2>3. HasSupp' /\ Grows
    BY <1>4, <1>5, <1>6, <2>1, EffectGrows
  <2>4. status' \in [Readers -> [People -> {"sent", "clicked", "bounced", "complained"}]]
    <3> DEFINE h == e.item.hook
               new == StatusAfter(status[t][h.who], h.type)
    <3>1. status' = status \/ status' = [status EXCEPT ![t][h.who] = new]
      BY <2>1 DEF Effect
    <3>2. status[t][h.who] \in {"sent", "clicked", "bounced", "complained"}
      BY <1>5, <1>6 DEF FeedIInv, OwnShape
    <3>3. new \in {"sent", "clicked", "bounced", "complained"}
      BY <1>5, <1>6, <3>2 DEF StatusAfter
    <3>4. h.who \in People /\ status \in [Readers -> [People -> {"sent", "clicked", "bounced", "complained"}]]
      BY <1>5, <1>6 DEF FeedIInv, OwnShape
    <3> HIDE DEF new, h
    <3> QED BY <3>1, <3>3, <3>4, OneSet
  <2>5. e \in Event /\ e \in inbox[t]
    BY <1>5, <1>6
  <2>6. done' \in [Readers -> SUBSET Event] /\ \A u \in Readers : done'[u] \subseteq inbox[u]
    <3>1. done \in [Readers -> SUBSET Event] /\ \A u \in Readers : done[u] \subseteq inbox[u]
      BY DEF FeedIInv, OwnShape
    <3>2. CASE done' = done
      BY <3>1, <3>2
    <3>3. CASE done' = [done EXCEPT ![t] = @ \union {e}]
      BY <2>5, <3>1, <3>3
    <3> QED BY <2>1, <3>2, <3>3
  <2> QED BY <1>1, <1>2, <2>2, <2>3, <2>4, <2>6, AskStays DEF FeedIInv, OwnShape
<1>10. CASE NextBatch(t) \/ FailRow(t)
  <2>1. UNCHANGED <<asks, known, status, supp, done>>
    BY <1>10 DEF NextBatch, FailRow, unsubVars
  <2>2. skipped' = [skipped EXCEPT ![t] = {}]
        \/ \E e \in NextOf(t) : skipped' = [skipped EXCEPT ![t] = skipped[t] \union {e}]
    BY <1>10 DEF NextBatch, FailRow
  <2>3. skipped' \in [Readers -> SUBSET Event] /\ \A u \in Readers : skipped'[u] \subseteq inbox[u]
    <3>1. skipped \in [Readers -> SUBSET Event] /\ \A u \in Readers : skipped[u] \subseteq inbox[u]
      BY DEF FeedIInv, OwnShape
    <3>2. CASE skipped' = [skipped EXCEPT ![t] = {}]
      BY <3>1, <3>2
    <3>3. ASSUME NEW e \in NextOf(t), skipped' = [skipped EXCEPT ![t] = skipped[t] \union {e}]
          PROVE  skipped' \in [Readers -> SUBSET Event] /\ \A u \in Readers : skipped'[u] \subseteq inbox[u]
      <4>1. e \in Event /\ e \in inbox[t]
        BY <1>5, <1>6
      <4> QED BY <3>1, <3>3, <4>1
    <3> QED BY <2>2, <3>2, <3>3
  <2> QED BY <1>1, <1>2, <1>4, <2>1, <2>3, AskStays DEF FeedIInv, OwnShape, HasSupp, Grows
<1>11. ASSUME NEW c \in People, LearnMessage(t, c)
       PROVE  AskShape' /\ OwnShape' /\ HasSupp' /\ Grows
  <2>1. UNCHANGED <<asks, status, supp, done, skipped>> /\ known' = [known EXCEPT ![t] = @ \union {c}]
    BY <1>11 DEF LearnMessage, unsubVars
  <2>2. known' \in [Readers -> SUBSET People]
    BY <2>1 DEF FeedIInv, OwnShape
  <2> QED BY <1>1, <1>2, <1>4, <2>1, <2>2, AskStays DEF FeedIInv, OwnShape, HasSupp, Grows
<1>12. ASSUME NEW c \in People, SuppressByHand(t, c)
       PROVE  AskShape' /\ OwnShape' /\ HasSupp' /\ Grows
  <2>1. /\ UNCHANGED <<known, status, done, skipped>> /\ asks < MaxAsks /\ asks' = asks + 1
        /\ supp' = [supp EXCEPT ![t][c] = Inserted(@, "blocked")]
    BY <1>12 DEF SuppressByHand
  <2>2. HasSupp' /\ Grows
    BY <1>4, <2>1, OneInserted
  <2>3. MaxAsks \in Nat
    BY FeedbackAssumption
  <2>4. asks' \in 0..MaxAsks
    BY <2>1, <2>3 DEF FeedIInv, AskShape
  <2> QED BY <1>1, <1>2, <2>1, <2>2, <2>4, OwnStays DEF FeedIInv, AskShape
<1> QED BY <1>9, <1>10, <1>11, <1>12 DEF Materialiser

LEMMA FeedKeeps ==
  ASSUME FeedIInv, FeedNext
  PROVE  FeedIInv' /\ Grows
<1>1. CASE Register \/ Tick
  BY <1>1, RegisterOrTickKeeps
<1>2. ASSUME NEW a \in Appenders, (\E h \in Hooks : Deliver(a, h)) \/ Hook(a) \/ BreakHook(a)
      PROVE  FeedIInv' /\ Grows
  BY <1>2, HookStepKeeps
<1>4. ASSUME NEW u \in Askers,
             \/ \E c \in People, scope \in Scopes : Ask(u, c, scope)
             \/ LogUnsub(u) \/ BreakAsk(u)
      PROVE  FeedIInv' /\ Grows
  BY <1>4, AskStepKeeps
<1>5. ASSUME NEW t \in Readers,
             \/ PullLoop(t) \/ LosePull(t)
             \/ Materialiser(t) \/ FailRow(t)
             \/ \E c \in People : LearnMessage(t, c) \/ SuppressByHand(t, c)
      PROVE  FeedIInv' /\ Grows
  BY <1>5, PullLoopKeeps, OwnStepKeeps
<1> QED BY <1>1, <1>2, <1>4, <1>5 DEF FeedNext

LEMMA FeedStutters ==
  ASSUME FeedIInv, UNCHANGED feedVars
  PROVE  FeedIInv' /\ Grows
<1>1. UNCHANGED <<logVars, hookVars, unsubVars, localVars, faults>>
  BY DEF feedVars
<1>2. UNCHANGED <<log, inbox>> /\ UNCHANGED <<registered, delivery, raw, answered, rawOnly>>
  BY <1>1 DEF logVars, hookVars
<1>3. LogSafe' /\ HookIInv'
  BY <1>1, <1>2, LogStays, HookStays DEF FeedIInv
<1>4. HasSupp' /\ Grows /\ ask' \in [Askers -> UnsubRow \union {None}]
  BY <1>1 DEF FeedIInv, UnsubIInv, UnsubShape, HasSupp, Grows, unsubVars, localVars
<1>5. UnsubIInv'
  BY <1>1, <1>4, UnsubFrame DEF FeedIInv, unsubVars, localVars
<1>6. AskShape' /\ OwnShape'
  BY <1>1, <1>2 DEF FeedIInv, AskShape, OwnShape, unsubVars, localVars
<1> QED BY <1>1, <1>3, <1>4, <1>5, <1>6 DEF FeedIInv

(* Every variable keeps its type, the keys of the unsubscribe log stay      *)
(* unique, and no row is materialised that is not in the inbox, whatever    *)
(* receiver, page and terminal do.                                          *)
THEOREM FeedInvariant == FeedSpec => []FeedIInv
<1>1. FeedInit => FeedIInv
  BY FeedInitial
<1>2. FeedIInv /\ [FeedNext]_feedVars => FeedIInv'
  BY FeedKeeps, FeedStutters
<1> QED BY <1>1, <1>2, PTL DEF FeedSpec

(* A webhook the provider was told is accepted is in the event log with the *)
(* suppression it calls for: receive_resend records the svix id after both  *)
(* appends, so a request that breaks anywhere is repeated, never taken for  *)
(* a duplicate.                                                             *)
THEOREM AnsweredHooksAreLogged == FeedSpec => []AckedIsLogged
<1>1. FeedIInv => AckedIsLogged
  BY DEF FeedIInv, HookIInv, RawIsLast, AllIn, EventIn, SuppIn, AckedIsLogged
<1> QED BY <1>1, FeedInvariant, PTL

(* Every unsubscribe the cursor of a terminal has passed stops the mail it  *)
(* asks to stop, unless its row was written at or before a key already      *)
(* read: merge_unsubs runs before the cursor moves, and a page that fills   *)
(* up ends where the next one begins.                                       *)
THEOREM PassedUnsubsHonoured == FeedSpec => []UnsubHonoured
<1>1. FeedIInv => UnsubHonoured
  BY DEF FeedIInv, UnsubIInv
<1> QED BY <1>1, FeedInvariant, PTL

(* No step lets mail through again that was stopped: merge_unsubs, the      *)
(* materialiser and the operator only add to the list, in whatever order    *)
(* and however often their pages and rows are replayed.                     *)
THEOREM SuppressionIsKept == FeedSpec => SuppressionOnlyGrows
<1>1. FeedIInv /\ [FeedNext]_feedVars =>
        [\A t \in Readers, c \in People : Blocks(supp[t][c]) \subseteq Blocks(supp'[t][c])]_feedVars
  BY FeedKeeps DEF Grows
<1> QED BY <1>1, FeedInvariant, PTL DEF FeedSpec, SuppressionOnlyGrows

-----------------------------------------------------------------------------
(* The outcomes                                                             *)

KeyOf(p)    == <<outcome[p].at, p>>
IsOutKey(k)  == k \in Int \X Nat
Behind(k) == k = <<-1, 0>> \/ k[1] <= now - Settle
RowOf(p)  == [pack |-> p, out |-> outcome[p]]
IsResolved(p)   == outcome[p].status # "pending"

AllRead == IsFiniteSet(OutPacks) /\ Cardinality(OutPacks) <= WorkCap

InTime ==
  \A p \in OutPacks :
    /\ outcome[p].at <= now
    /\ index[p] # outcome[p] => IsResolved(p) /\ now - outcome[p].at <= MaxLag

CursorBehind ==
  /\ Behind(outCursor)
  /\ outPage.open => /\ Behind(outPage.upto)
                     /\ outPage.upto = outCursor \/ Later(outPage.upto, outCursor)

PageHolds ==
  outPage.open =>
    \A p \in OutPacks : IsResolved(p) =>
      \/ Later(KeyOf(p), outPage.upto)
      \/ applied[p] = outcome[p].status
      \/ RowOf(p) \in outPage.rows

RowsCurrent ==
  outPage.open =>
    \A r \in outPage.rows : r = RowOf(r.pack) \/ Later(KeyOf(r.pack), outPage.upto)

OutIInv == OutTypeOK /\ InTime /\ CursorBehind /\ PageHolds /\ RowsCurrent /\ NoOutcomePassed

LEMMA LaterIsTotal ==
  ASSUME NEW k, NEW l, NEW m, IsOutKey(k), IsOutKey(l), IsOutKey(m)
  PROVE  /\ Later(k, l) \/ Later(l, k) \/ k = l
         /\ Later(k, l) /\ Later(l, m) => Later(k, m)
         /\ Later(k, l) => ~Later(l, k)
         /\ ~Later(k, k)
BY DEF IsOutKey, Later

LEMMA OutTypes ==
  ASSUME OutTypeOK
  PROVE  /\ now \in Nat /\ IsOutKey(outCursor) /\ IsOutKey(outPage.upto)
         /\ outPage.open \in BOOLEAN /\ outPage.rows \subseteq Row
         /\ \A p \in OutPacks :
              /\ p \in Nat /\ outcome[p].at \in Nat /\ index[p].at \in Nat /\ IsOutKey(KeyOf(p))
              /\ IsResolved(p) => outcome[p] \in Outcome
              /\ index[p].status # "pending" => index[p] \in Outcome
BY OutcomesAssumption DEF OutTypeOK, IsOutKey, KeyOf, IsResolved, Outcome, Pending, Resolved

(* An outcome the index does not show yet, and any that may still come, is  *)
(* beyond the cursor and beyond a page that is open.                        *)
LEMMA LagIsUnsettled ==
  ASSUME OutTypeOK, NEW p \in OutPacks, NEW k, IsOutKey(k), Behind(k), now - outcome[p].at <= MaxLag
  PROVE  Later(KeyOf(p), k)
<1>1. now \in Nat /\ outcome[p].at \in Nat /\ Settle \in Nat /\ MaxLag \in Nat /\ MaxLag < Settle
  BY OutTypes, OutcomesAssumption
<1>2. CASE k = <<-1, 0>>
  BY <1>1, <1>2 DEF Later, KeyOf
<1>3. CASE k[1] <= now - Settle
  BY <1>1, <1>3 DEF Later, KeyOf, IsOutKey
<1> QED BY <1>2, <1>3 DEF Behind

LEMMA OutInitial ==
  ASSUME OutInit
  PROVE  OutIInv
<1>1. OutTypeOK
  BY OutcomesAssumption DEF OutInit, OutTypeOK, Pending, NoAnswer
<1> QED BY <1>1 DEF OutInit, OutIInv, InTime, CursorBehind, Behind, PageHolds, RowsCurrent,
                   NoOutcomePassed, IsResolved, Pending, NoAnswer

-----------------------------------------------------------------------------
(* The cloud                                                                *)

LEMMA ResolveKeeps ==
  ASSUME OutIInv, NEW p \in OutPacks, NEW s \in Resolved, Resolve(p, s)
  PROVE  OutIInv'
<1>1. /\ outcome' = [outcome EXCEPT ![p] = [status |-> s, at |-> now]]
      /\ UNCHANGED <<now, index, outCursor, outPage, applied, drops>>
  BY DEF Resolve
<1>2. /\ outcome'[p] = [status |-> s, at |-> now]
      /\ \A q \in OutPacks : q # p => outcome'[q] = outcome[q]
      /\ now \in Nat /\ s # "pending"
  BY <1>1, OutTypes DEF OutIInv, OutTypeOK, Resolved
<1>3. OutTypeOK'
  BY <1>1, <1>2 DEF OutIInv, OutTypeOK, Outcome
<1>4. InTime'
  BY <1>1, <1>2, OutcomesAssumption DEF OutIInv, InTime, IsResolved
<1>5. CursorBehind'
  BY <1>1 DEF OutIInv, CursorBehind, Behind
<1>6. /\ Later(KeyOf(p)', outCursor')
      /\ outPage.open => Later(KeyOf(p)', outPage'.upto)
  <2>1. OutTypeOK' /\ IsOutKey(outCursor)' /\ IsOutKey(outPage.upto)' /\ (now - outcome[p].at <= MaxLag)'
    BY <1>1, <1>2, <1>3, OutTypes, OutcomesAssumption DEF OutIInv, IsOutKey
  <2>2. ASSUME NEW k, IsOutKey(k), k = <<-1, 0>> \/ k[1] <= now - Settle
        PROVE  Later(<<now, p>>, k)
    BY <1>2, <2>2, OutcomesAssumption DEF IsOutKey, Later
  <2>3. KeyOf(p)' = <<now, p>>
    BY <1>2 DEF KeyOf
  <2> QED BY <1>1, <2>1, <2>2, <2>3, OutTypes DEF OutIInv, CursorBehind, Behind
<1>7. \A q \in OutPacks : q # p => (IsResolved(q)' <=> IsResolved(q)) /\ KeyOf(q)' = KeyOf(q) /\ RowOf(q)' = RowOf(q)
  BY <1>2 DEF IsResolved, KeyOf, RowOf
<1>8. PageHolds'
  BY <1>1, <1>2, <1>6, <1>7 DEF OutIInv, PageHolds
<1>9. RowsCurrent'
  <2>1. \A r \in outPage.rows : r.pack \in OutPacks
    BY OutTypes DEF OutIInv, Row
  <2> QED BY <1>1, <1>6, <1>7, <2>1 DEF OutIInv, RowsCurrent
<1>10. NoOutcomePassed'
  BY <1>1, <1>2, <1>6 DEF OutIInv, NoOutcomePassed, KeyOf
<1> QED BY <1>3, <1>4, <1>5, <1>8, <1>9, <1>10 DEF OutIInv

LEMMA ReindexKeeps ==
  ASSUME OutIInv, NEW p \in OutPacks, Reindex(p)
  PROVE  OutIInv'
<1>1. /\ index' = [index EXCEPT ![p] = outcome[p]]
      /\ UNCHANGED <<now, outcome, outCursor, outPage, applied, drops>>
  BY DEF Reindex
<1>2. OutTypeOK'
  BY <1>1 DEF OutIInv, OutTypeOK
<1>3. InTime'
  BY <1>1 DEF OutIInv, OutTypeOK, InTime, IsResolved
<1> QED BY <1>1, <1>2, <1>3 DEF OutIInv, CursorBehind, Behind, PageHolds, RowsCurrent,
                                NoOutcomePassed, IsResolved, KeyOf, RowOf

LEMMA TickKeeps ==
  ASSUME OutIInv, TickSecond
  PROVE  OutIInv'
<1>1. /\ now' = now + 1 /\ now < Horizon
      /\ \A p \in OutPacks : index[p] # outcome[p] => now - outcome[p].at < MaxLag
      /\ UNCHANGED <<outcome, index, outCursor, outPage, applied, drops>>
  BY DEF TickSecond
<1>2. now \in Nat /\ \A p \in OutPacks : outcome[p].at \in Nat
  BY OutTypes DEF OutIInv
<1>3. OutTypeOK'
  BY <1>1, <1>2, OutcomesAssumption DEF OutIInv, OutTypeOK
<1>4. InTime'
  BY <1>1, <1>2, OutcomesAssumption DEF OutIInv, InTime, IsResolved
<1>5. CursorBehind'
  <2>1. ASSUME NEW k, IsOutKey(k), Behind(k)
        PROVE  k = <<-1, 0>> \/ k[1] <= now' - Settle
    BY <1>1, <1>2, <2>1, OutcomesAssumption DEF IsOutKey, Behind
  <2> QED BY <1>1, <2>1, OutTypes DEF OutIInv, CursorBehind, Behind
<1> QED BY <1>1, <1>3, <1>4, <1>5 DEF OutIInv, PageHolds, RowsCurrent, NoOutcomePassed, IsResolved, KeyOf, RowOf

-----------------------------------------------------------------------------
(* A poll                                                                   *)

CurrentRow(p) == [pack |-> p, out |-> index[p]]
AllRows == {r \in {CurrentRow(p) : p \in UNION {Read(s) : s \in Resolved}} :
              AfterCursor(OutKey(r), outCursor) /\ Settled(OutKey(r))}

LEMMA RowsAreFinite ==
  ASSUME AllRead
  PROVE  IsFiniteSet(AllRows)
<1> DEFINE S == {CurrentRow(p) : p \in OutPacks}
           f == [p \in OutPacks |-> CurrentRow(p)]
<1>1. f \in Surjection(OutPacks, S)
  BY DEF Surjection
<1>2. IsFiniteSet(S)
  BY <1>1, FS_Surjection DEF AllRead
<1>3. AllRows \subseteq S
  BY DEF AllRows, Read
<1> QED BY <1>2, <1>3, FS_Subset

(* With room in the cap, every resolved pack of the index is read.          *)
LEMMA ResolvedIsRead ==
  ASSUME AllRead, OutTypeOK, NEW p \in OutPacks, index[p].status \in Resolved
  PROVE  p \in Read(index[p].status)
<1> DEFINE of == {q \in OutPacks : index[q].status = index[p].status}
           before == {q \in of : q < p}
<1>1. before \subseteq OutPacks \ {p}
  BY OutTypes
<1>2. IsFiniteSet(OutPacks \ {p}) /\ Cardinality(OutPacks \ {p}) = Cardinality(OutPacks) - 1
      /\ Cardinality(OutPacks) \in Nat
  BY FS_RemoveElement, FS_CardinalityType DEF AllRead
<1>3. IsFiniteSet(before) /\ Cardinality(before) <= Cardinality(OutPacks \ {p})
  BY <1>1, <1>2, FS_Subset
<1>4. Cardinality(before) \in Nat
  BY <1>3, FS_CardinalityType
<1>5. Cardinality(before) < WorkCap
  BY <1>2, <1>3, <1>4, OutcomesAssumption DEF AllRead
<1> QED BY <1>5 DEF Read

LEMMA ListedOf == Listed = {r \in AllRows : Cardinality({q \in AllRows : Later(OutKey(r), OutKey(q))}) < OutLimit}
BY DEF Listed, AllRows, CurrentRow

LEMMA RowTypes ==
  ASSUME OutTypeOK, NEW r \in AllRows
  PROVE  /\ r \in Row /\ IsOutKey(OutKey(r)) /\ r.pack \in OutPacks /\ r.out = index[r.pack]
         /\ Behind(OutKey(r)) /\ Later(OutKey(r), outCursor)
<1>0. PICK s \in Resolved : \E p \in Read(s) : r = [pack |-> p, out |-> index[p]]
  BY DEF AllRows, CurrentRow
<1>1. PICK p \in Read(s) : r = [pack |-> p, out |-> index[p]]
  BY <1>0
<1>2. p \in OutPacks /\ index[p].status # "pending"
  BY <1>1 DEF Read, Resolved
<1>3. index[p] \in Outcome /\ p \in Nat /\ index[p].at \in Nat
  BY <1>2, OutTypes
<1>4. r \in Row /\ IsOutKey(OutKey(r))
  BY <1>1, <1>2, <1>3 DEF Row, IsOutKey, OutKey
<1>5. Behind(OutKey(r)) /\ Later(OutKey(r), outCursor)
  BY DEF AllRows, AfterCursor, Settled, Behind
<1> QED BY <1>1, <1>2, <1>4, <1>5

(* A settled outcome after the cursor and no later than a row of the page   *)
(* is on the page.                                                          *)
LEMMA ListedHasNoGap ==
  ASSUME AllRead, OutIInv, NEW p \in OutPacks, IsResolved(p), index[p] = outcome[p],
         Later(KeyOf(p), outCursor), NEW g \in Listed, ~Later(KeyOf(p), OutKey(g))
  PROVE  RowOf(p) \in Listed
<1> DEFINE r == RowOf(p)
           under(x) == {q \in AllRows : Later(OutKey(x), OutKey(q))}
<1>1. g \in AllRows /\ Cardinality(under(g)) < OutLimit
  BY ListedOf
<1>2. /\ IsOutKey(OutKey(g)) /\ OutKey(g)[1] <= now - Settle
      /\ IsOutKey(KeyOf(p)) /\ now \in Nat
  BY <1>1, RowTypes, OutTypes DEF OutIInv, AllRows, Settled
<1>3. r = CurrentRow(p) /\ OutKey(r) = KeyOf(p)
  BY DEF RowOf, CurrentRow, OutKey, KeyOf
<1>4. Settled(OutKey(r))
  BY <1>2, <1>3, OutcomesAssumption DEF Settled, Later, IsOutKey, KeyOf
<1>5. r \in AllRows
  <2>1. index[p].status \in Resolved
    BY OutTypes DEF OutIInv, IsResolved, Outcome
  <2>2. p \in UNION {Read(s) : s \in Resolved}
    BY <2>1, ResolvedIsRead DEF OutIInv
  <2> QED BY <1>3, <1>4, <2>2 DEF AllRows, AfterCursor
<1>6. under(r) \subseteq under(g)
  <2> SUFFICES ASSUME NEW q \in AllRows, Later(KeyOf(p), OutKey(q))
               PROVE  Later(OutKey(g), OutKey(q))
    BY <1>3
  <2>1. IsOutKey(OutKey(q))
    BY RowTypes DEF OutIInv
  <2>2. Later(OutKey(g), KeyOf(p)) \/ OutKey(g) = KeyOf(p)
    BY <1>2, LaterIsTotal
  <2> QED BY <1>2, <2>1, <2>2, LaterIsTotal
<1>7. IsFiniteSet(under(g)) /\ IsFiniteSet(under(r)) /\ Cardinality(under(r)) <= Cardinality(under(g))
  <2>1. IsFiniteSet(under(g))
    BY RowsAreFinite, FS_Subset
  <2> QED BY <1>6, <2>1, FS_Subset
<1>8. Cardinality(under(r)) < OutLimit
  BY <1>1, <1>7, FS_CardinalityType, OutcomesAssumption
<1> QED BY <1>5, <1>8, ListedOf

LEMMA PollKeeps ==
  ASSUME AllRead, OutIInv, Poll
  PROVE  OutIInv'
<1>1. PICK last \in {outCursor} \union {OutKey(r) : r \in Listed} :
        /\ \A r \in Listed : ~Later(OutKey(r), last)
        /\ outPage' = [open |-> TRUE, rows |-> Listed, upto |-> last]
  BY DEF Poll
<1>2. UNCHANGED <<now, outcome, index, outCursor, applied, drops>>
  BY DEF Poll
<1>3. Listed \subseteq AllRows
  BY ListedOf
<1>4. last = outCursor \/ Later(last, outCursor)
  BY <1>1, <1>3, RowTypes, OutTypes DEF OutIInv, CursorBehind
<1>4a. IsOutKey(last) /\ Behind(last)
  BY <1>1, <1>3, RowTypes, OutTypes DEF OutIInv, CursorBehind
<1>5. OutTypeOK'
  <2>1. Listed \subseteq Row
    BY <1>3, RowTypes DEF OutIInv
  <2> QED BY <1>1, <1>2, <1>4a, <2>1 DEF OutIInv, OutTypeOK, IsOutKey
<1>6. InTime'
  BY <1>2 DEF OutIInv, InTime, IsResolved
<1>7. CursorBehind'
  BY <1>1, <1>2, <1>4, <1>4a DEF OutIInv, CursorBehind, Behind
<1>8. ASSUME NEW p \in OutPacks, IsResolved(p)
      PROVE  Later(KeyOf(p), last) \/ applied[p] = outcome[p].status \/ RowOf(p) \in Listed
  <2>1. CASE index[p] # outcome[p]
    BY <1>4a, <2>1, LagIsUnsettled DEF OutIInv, InTime
  <2>2. CASE ~Later(KeyOf(p), outCursor)
    BY <1>8, <2>2 DEF OutIInv, NoOutcomePassed, KeyOf, IsResolved
  <2>3. CASE index[p] = outcome[p] /\ Later(KeyOf(p), outCursor) /\ ~Later(KeyOf(p), last)
    <3>1. PICK g \in Listed : last = OutKey(g)
      BY <1>1, <2>3
    <3> QED BY <1>8, <2>3, <3>1, ListedHasNoGap
  <2> QED BY <2>1, <2>2, <2>3
<1>9. PageHolds'
  BY <1>1, <1>2, <1>8 DEF PageHolds, IsResolved, KeyOf, RowOf
<1>10. RowsCurrent'
  <2> SUFFICES ASSUME NEW r \in Listed
               PROVE  r = RowOf(r.pack) \/ Later(KeyOf(r.pack), last)
    BY <1>1, <1>2 DEF RowsCurrent, RowOf, KeyOf
  <2>1. r \in Row /\ r.pack \in OutPacks /\ r.out = index[r.pack]
    BY <1>3, RowTypes DEF OutIInv
  <2>2. CASE index[r.pack] = outcome[r.pack]
    BY <2>1, <2>2 DEF RowOf, Row
  <2>3. CASE index[r.pack] # outcome[r.pack]
    BY <1>4a, <2>1, <2>3, LagIsUnsettled DEF OutIInv, InTime
  <2> QED BY <2>2, <2>3
<1>11. NoOutcomePassed'
  BY <1>2 DEF OutIInv, NoOutcomePassed
<1> QED BY <1>5, <1>6, <1>7, <1>9, <1>10, <1>11 DEF OutIInv

-----------------------------------------------------------------------------
(* The terminal                                                             *)

(* An outcome that is applied is the pack's own, or its pack has one beyond *)
(* the page and so beyond the cursor.                                       *)
LEMMA ApplyOutcomeKeeps ==
  ASSUME OutIInv, ApplyOutcome
  PROVE  OutIInv'
<1>1. PICK r \in outPage.rows : /\ applied' = [applied EXCEPT ![r.pack] = r.out.status]
                                /\ outPage' = [outPage EXCEPT !.rows = @ \ {r}]
  BY DEF ApplyOutcome
<1>2. UNCHANGED <<now, outcome, index, outCursor, drops>> /\ outPage.open
  BY DEF ApplyOutcome
<1>3. r \in Row /\ r.pack \in OutPacks /\ r.out.status \in Resolved
  BY <1>1, OutTypes DEF OutIInv, Row, Outcome
<1>4. /\ outPage'.open /\ outPage'.upto = outPage.upto /\ outPage'.rows = outPage.rows \ {r}
      /\ outPage' \in [open : BOOLEAN, rows : SUBSET Row, upto : Int \X Nat]
  BY <1>1, <1>2 DEF OutIInv, OutTypeOK
<1>5. /\ applied'[r.pack] = r.out.status
      /\ \A p \in OutPacks : p # r.pack => applied'[p] = applied[p]
      /\ applied' \in [OutPacks -> Resolved \union {"none"}]
  BY <1>1, <1>3 DEF OutIInv, OutTypeOK
<1>6. applied'[r.pack] = outcome[r.pack].status \/ Later(KeyOf(r.pack), outPage.upto)
  BY <1>1, <1>2, <1>5 DEF OutIInv, RowsCurrent, RowOf
<1>7. OutTypeOK'
  BY <1>2, <1>4, <1>5 DEF OutIInv, OutTypeOK
<1>8. InTime' /\ CursorBehind'
  BY <1>2, <1>4 DEF OutIInv, InTime, CursorBehind, Behind, IsResolved
<1>9. PageHolds'
  <2> SUFFICES ASSUME NEW p \in OutPacks, IsResolved(p)
               PROVE  \/ Later(KeyOf(p), outPage.upto)
                      \/ applied'[p] = outcome[p].status
                      \/ RowOf(p) \in outPage.rows \ {r}
    BY <1>2, <1>4 DEF PageHolds, IsResolved, KeyOf, RowOf
  <2>1. CASE p = r.pack
    BY <1>6, <2>1
  <2>2. CASE p # r.pack
    <3>1. RowOf(p) # r
      BY <2>2 DEF RowOf
    <3> QED BY <1>2, <1>5, <2>2, <3>1 DEF OutIInv, PageHolds
  <2> QED BY <2>1, <2>2
<1>10. RowsCurrent'
  BY <1>2, <1>4 DEF OutIInv, RowsCurrent, RowOf, KeyOf
<1>11. NoOutcomePassed'
  <2> SUFFICES ASSUME NEW p \in OutPacks, IsResolved(p)
               PROVE  Later(KeyOf(p), outCursor) \/ applied'[p] = outcome[p].status
    BY <1>2 DEF NoOutcomePassed, IsResolved, KeyOf
  <2>1. CASE p # r.pack
    BY <1>5, <2>1 DEF OutIInv, NoOutcomePassed, IsResolved, KeyOf
  <2>2. CASE p = r.pack /\ Later(KeyOf(p), outPage.upto)
    <3>1. IsOutKey(KeyOf(p)) /\ IsOutKey(outPage.upto) /\ IsOutKey(outCursor)
      BY OutTypes DEF OutIInv
    <3> QED BY <1>2, <2>2, <3>1, LaterIsTotal DEF OutIInv, CursorBehind
  <2> QED BY <1>6, <2>1, <2>2
<1> QED BY <1>7, <1>8, <1>9, <1>10, <1>11 DEF OutIInv

LEMMA EndPollKeeps ==
  ASSUME OutIInv, SetOutcomeCursor \/ DropAnswer
  PROVE  OutIInv'
<1>1. /\ outPage.open /\ outPage' = NoAnswer /\ UNCHANGED <<now, outcome, index, applied>>
      /\ drops' \in 0..MaxDrops
      /\ outCursor' = outCursor \/ (outPage.rows = {} /\ outCursor' = outPage.upto)
  <2>1. drops \in 0..MaxDrops /\ MaxDrops \in Nat
    BY OutcomesAssumption DEF OutIInv, OutTypeOK
  <2>2. CASE SetOutcomeCursor
    BY <2>1, <2>2 DEF SetOutcomeCursor
  <2>3. CASE DropAnswer
    BY <2>1, <2>3 DEF DropAnswer
  <2> QED BY <2>2, <2>3
<1>2. OutTypeOK'
  BY <1>1 DEF OutIInv, OutTypeOK, NoAnswer
<1>3. InTime' /\ PageHolds' /\ RowsCurrent'
  BY <1>1 DEF OutIInv, InTime, PageHolds, RowsCurrent, NoAnswer, IsResolved
<1>4. CursorBehind'
  BY <1>1 DEF OutIInv, CursorBehind, Behind, NoAnswer
<1>5. NoOutcomePassed'
  BY <1>1 DEF OutIInv, NoOutcomePassed, PageHolds, IsResolved, KeyOf
<1> QED BY <1>2, <1>3, <1>4, <1>5 DEF OutIInv

-----------------------------------------------------------------------------
LEMMA OutcomeStep ==
  ASSUME AllRead, OutIInv, [OutNext]_outVars
  PROVE  OutIInv'
<1>1. CASE UNCHANGED outVars
  BY <1>1 DEF outVars, OutIInv, OutTypeOK, InTime, CursorBehind, Behind, PageHolds, RowsCurrent,
              NoOutcomePassed, IsResolved, KeyOf, RowOf
<1> QED BY <1>1, ResolveKeeps, ReindexKeeps, TickKeeps, PollKeeps, ApplyOutcomeKeeps, EndPollKeeps DEF OutNext

(* The cursor passes no outcome that the terminal has not applied: not one  *)
(* of a second it stopped in, not one the index showed late, not the second *)
(* outcome of a pack, whichever polls fail, as long as the packs fit in the *)
(* work cap of list_resolved_packs.                                         *)
THEOREM CursorPassesNothing ==
  ASSUME IsFiniteSet(OutPacks), Cardinality(OutPacks) <= WorkCap
  PROVE  OutSpec => []NoOutcomePassed
<1>1. OutInit => OutIInv
  BY OutInitial
<1>2. OutIInv /\ [OutNext]_outVars => OutIInv'
  BY OutcomeStep DEF AllRead
<1>3. OutIInv => NoOutcomePassed
  BY DEF OutIInv
<1> QED BY <1>1, <1>2, <1>3, PTL DEF OutSpec

-----------------------------------------------------------------------------
(* Both, as the run returns has them                                        *)

LEMMA OutTypesKept ==
  ASSUME OutTypeOK, [OutNext]_outVars
  PROVE  OutTypeOK'
<1>1. CASE UNCHANGED outVars
  BY <1>1 DEF outVars, OutTypeOK
<1>2. ASSUME NEW p \in OutPacks, NEW s \in Resolved, Resolve(p, s)
      PROVE  OutTypeOK'
  BY <1>2, OutTypes DEF Resolve, OutTypeOK, Outcome
<1>3. ASSUME NEW p \in OutPacks, Reindex(p)
      PROVE  OutTypeOK'
  BY <1>3 DEF Reindex, OutTypeOK
<1>4. CASE TickSecond
  <2>1. Horizon \in Nat
    BY OutcomesAssumption
  <2> QED BY <1>4, <2>1 DEF TickSecond, OutTypeOK
<1>5. CASE Poll
  <2>1. PICK last \in {outCursor} \union {OutKey(r) : r \in Listed} :
          outPage' = [open |-> TRUE, rows |-> Listed, upto |-> last]
    BY <1>5 DEF Poll
  <2>2. Listed \subseteq Row /\ last \in Int \X Nat
    BY <2>1, ListedOf, RowTypes, OutTypes DEF IsOutKey
  <2> QED BY <1>5, <2>1, <2>2 DEF Poll, OutTypeOK
<1>6. CASE ApplyOutcome
  <2>1. PICK r \in outPage.rows : /\ applied' = [applied EXCEPT ![r.pack] = r.out.status]
                                  /\ outPage' = [outPage EXCEPT !.rows = @ \ {r}]
    BY <1>6 DEF ApplyOutcome
  <2>2. r.pack \in OutPacks /\ r.out.status \in Resolved
    BY <2>1, OutTypes DEF Row, Outcome
  <2> QED BY <1>6, <2>1, <2>2 DEF ApplyOutcome, OutTypeOK
<1>7. CASE SetOutcomeCursor \/ DropAnswer
  <2>1. outPage' = NoAnswer /\ UNCHANGED <<now, outcome, index, applied>>
    BY <1>7 DEF SetOutcomeCursor, DropAnswer
  <2>2. drops' \in 0..MaxDrops
    <3>1. MaxDrops \in Nat
      BY OutcomesAssumption
    <3> QED BY <1>7, <3>1 DEF SetOutcomeCursor, DropAnswer, OutTypeOK
  <2>3. outCursor' \in Int \X Nat
    BY <1>7, OutTypes DEF SetOutcomeCursor, DropAnswer, OutTypeOK
  <2> QED BY <2>1, <2>2, <2>3 DEF OutTypeOK, NoAnswer
<1> QED BY <1>1, <1>2, <1>3, <1>4, <1>5, <1>6, <1>7 DEF OutNext

(* The types of both components and that an answered webhook is in the log, *)
(* for every bound of the run: without any assumption on the work cap.      *)
THEOREM ReturnsHold == Spec => []ReturnsInv
<1> DEFINE I == FeedIInv /\ OutTypeOK
<1>1. Init => I
  BY FeedInitial, OutInitial DEF Init, OutIInv
<1>2. I /\ [Next]_vars => I'
  <2> SUFFICES ASSUME I, [Next]_vars
               PROVE  I'
    OBVIOUS
  <2>1. FeedNext \/ UNCHANGED feedVars
    BY DEF Next, FeedStep, OutStep, vars
  <2>2. [OutNext]_outVars
    BY DEF Next, FeedStep, OutStep, vars
  <2> QED BY <2>1, <2>2, FeedKeeps, FeedStutters, OutTypesKept
<1>3. I => ReturnsInv
  BY IInvTypes DEF ReturnsInv, FeedIInv, HookIInv, RawIsLast, AllIn, EventIn, SuppIn, AckedIsLogged
<1> QED BY <1>1, <1>2, <1>3, PTL DEF Spec

=============================================================================
