----------------------------- MODULE KeysProofs ------------------------------
(***************************************************************************)
(* Keys and sessions, for any number of terminals, launches, callers,      *)
(* bearers and requests.                                                   *)
(*                                                                         *)
(* K_temp.  A key is named by nothing until its item is put (SetOnce), a   *)
(* wipe deletes only what its caller read, and the latest key is excused   *)
(* from the moment a reader of an older key, or a revocation, may hit it   *)
(* (WipeIsLate): no other wipe costs a live key.  What was retired when a  *)
(* launch began stays retired, because no step brings an item or a pointer *)
(* back (TableStep, RetiredStaysSo).                                       *)
(*                                                                         *)
(* The handshake.  A bearer without a key that did not escape its DELETE   *)
(* is on that DELETE's list, or its scan is to come (Revocation).  A       *)
(* bearer a script stored works because a DELETE leaves its mark on every  *)
(* request of its role that it may have overtaken (Registration).  What is *)
(* sealed for both can be opened because a terminal makes one key pair,    *)
(* ever, and every copy of its public key is of that pair (OnePair).       *)
(***************************************************************************)
EXTENDS KTemp, Handshake, TLAPS

-----------------------------------------------------------------------------
(* K_temp                                                                   *)

ItemDead(v, k) == v.item[k] \in {"expired", "deleted", "wiped"}
WasSet(k) == table.item[k] # "unset"

(* Only a key that has an item is named by a file, a pointer or a caller.   *)
NamedWasSet ==
  /\ \A m \in Machines : file[m] # NoneKey => WasSet(file[m])
  /\ table.pointer # NoneKey => WasSet(table.pointer)
  /\ copy.pointer # NoneKey => WasSet(copy.pointer)
  /\ latest # NoneKey => WasSet(latest)
  /\ \A c \in Callers : caller[c].key # NoneKey => WasSet(caller[c].key)

(* A key being set belongs to one launch, and nothing names it yet.         *)
SetOnce ==
  \A l \in Launches :
    /\ launch[l].at \in {"post", "point"} =>
         /\ launch[l].key \in MintedKeys
         /\ \A m \in Launches \ {l} : launch[m].key # launch[l].key
    /\ launch[l].at = "post" => ~WasSet(launch[l].key)
    /\ launch[l].at = "point" =>
         /\ table.item[launch[l].key] \in {"live", "expired", "deleted"}
         /\ \A m \in Machines : file[m] # launch[l].key
         /\ table.pointer # launch[l].key /\ copy.pointer # launch[l].key
         /\ latest # launch[l].key
         /\ \A c \in Callers : caller[c].key # launch[l].key
    /\ launch[l].at = "write" => launch[l].key \in MintedKeys /\ WasSet(launch[l].key)

(* An older copy may show an item live that is not, never the reverse.      *)
CopyIsOlder ==
  \A k \in MintedKeys : copy.item[k] = "expired" => table.item[k] \in {"expired", "deleted"}

(* While a wipe goes on, the latest key is excused or past use.             *)
WipeIsLate ==
  latest # NoneKey /\ latest \notin excused /\ Wiping # {} =>
    table.item[latest] \in {"expired", "deleted"}

KeyIInv ==
  KeyTypeOK /\ NamedWasSet /\ SetOnce /\ CopyIsOlder /\ WipeIsLate /\ LatestKeyActive

(* What a step may do to the table and its copy, as far as it matters to    *)
(* whether a key is retired.                                                *)
TableStep ==
  /\ \A k \in MintedKeys : WasSet(k) => table'.item[k] # "unset"
  /\ \A k \in MintedKeys : ItemDead(table, k) => ItemDead(table', k)
  /\ \A k \in MintedKeys : ItemDead(table, k) /\ ItemDead(copy, k) => ItemDead(copy', k)
  /\ \/ table'.pointer \in {table.pointer, NoneKey}
     \/ \E l \in Launches : launch[l].at = "point" /\ table'.pointer = launch[l].key
  /\ copy'.pointer \in {copy.pointer, table.pointer}
  /\ \A l \in Launches : launch'[l].at = "point" =>
       \/ launch[l].at = "point" /\ launch'[l].key = launch[l].key
       \/ ~WasSet(launch'[l].key)

LEMMA KeyInitial ==
  ASSUME KeyInit
  PROVE  KeyIInv
BY KTempAssumption DEF KeyInit, KeyIInv, KeyTypeOK, NamedWasSet, SetOnce, CopyIsOlder, WipeIsLate,
  LatestKeyActive, Table, ItemState, AtRest, NotCalled, Wiping

LaunchRow == [at : {"rest", "status", "item", "mint", "post", "point", "write"},
              key : MintedKeys \union {NoneKey}, seen : MintedKeys \union {NoneKey},
              retired : SUBSET MintedKeys]
CallerRow == [at : {"rest", "item", "wipe", "delItem", "delPointer"}, key : MintedKeys \union {NoneKey}]

LEMMA LaunchOf ==
  ASSUME KeyTypeOK, NEW l \in Launches
  PROVE  /\ launch[l] \in LaunchRow
         /\ launch[l].at \in {"rest", "status", "item", "mint", "post", "point", "write"}
         /\ launch[l].key \in MintedKeys \union {NoneKey} /\ launch[l].seen \in MintedKeys \union {NoneKey}
         /\ launch[l].retired \subseteq MintedKeys
BY DEF KeyTypeOK, LaunchRow

LEMMA CallerOf ==
  ASSUME KeyTypeOK, NEW c \in Callers
  PROVE  caller[c] \in CallerRow /\ caller[c].key \in MintedKeys \union {NoneKey}
         /\ caller[c].at \in {"rest", "item", "wipe", "delItem", "delPointer"}
BY DEF KeyTypeOK, CallerRow

LEMMA ViewOf ==
  ASSUME KeyTypeOK, NEW v \in Views
  PROVE  v \in Table /\ v.pointer \in MintedKeys \union {NoneKey} /\ v.item \in [MintedKeys -> ItemState]
BY DEF KeyTypeOK, Views, Table

LEMMA ItemSet ==
  ASSUME NEW v \in Table, NEW k, NEW s \in ItemState, NEW w, w = [v EXCEPT !.item[k] = s]
  PROVE  /\ w \in Table
         /\ w.pointer = v.pointer
         /\ \A j \in MintedKeys : w.item[j] = IF j = k THEN s ELSE v.item[j]
BY DEF Table

LEMMA PointerSet ==
  ASSUME NEW v \in Table, NEW p \in MintedKeys \union {NoneKey}, NEW w, w = [v EXCEPT !.pointer = p]
  PROVE  w \in Table /\ w.pointer = p /\ w.item = v.item
BY DEF Table

(* Every step of a launch moves that launch.                                *)
LEMMA LaunchMoves ==
  ASSUME KeyTypeOK, NEW l \in Launches, NEW r \in LaunchRow, launch' = [launch EXCEPT ![l] = r]
  PROVE  /\ launch' \in [Launches -> LaunchRow] /\ launch'[l] = r
         /\ \A m \in Launches \ {l} : launch'[m] = launch[m]
BY DEF KeyTypeOK, LaunchRow

LEMMA CallerMoves ==
  ASSUME KeyTypeOK, NEW c \in Callers, NEW r \in CallerRow, caller' = [caller EXCEPT ![c] = r]
  PROVE  /\ caller' \in [Callers -> CallerRow] /\ caller'[c] = r
         /\ \A d \in Callers \ {c} : caller'[d] = caller[d]
BY DEF KeyTypeOK, CallerRow

LEMMA CallerAt ==
  ASSUME KeyTypeOK, NEW c \in Callers, NEW at
  PROVE  [caller EXCEPT ![c].at = at] = [caller EXCEPT ![c] = [at |-> at, key |-> caller[c].key]]
<1>1. caller \in [Callers -> CallerRow]
  BY DEF KeyTypeOK, CallerRow
<1>2. [caller[c] EXCEPT !.at = at] = [at |-> at, key |-> caller[c].key]
  BY <1>1 DEF CallerRow
<1>3. [caller EXCEPT ![c].at = at] = [caller EXCEPT ![c] = [caller[c] EXCEPT !.at = at]]
  BY <1>1
<1> QED BY <1>2, <1>3

(* Where each step leaves its launch.                                       *)
LEMMA LaunchRows ==
  ASSUME KeyTypeOK, NEW l \in Launches
  PROVE  /\ \A at \in {"rest", "status", "item", "mint", "post", "point", "write"} :
              /\ [launch EXCEPT ![l].at = at] = [launch EXCEPT ![l] = [launch[l] EXCEPT !.at = at]]
              /\ [launch[l] EXCEPT !.at = at] \in LaunchRow
              /\ [launch[l] EXCEPT !.at = at].at = at
              /\ [launch[l] EXCEPT !.at = at].key = launch[l].key
              /\ [launch[l] EXCEPT !.at = at].seen = launch[l].seen
              /\ [launch[l] EXCEPT !.at = at].retired = launch[l].retired
         /\ [AtRest EXCEPT !.retired = launch[l].retired] \in LaunchRow
         /\ [AtRest EXCEPT !.retired = launch[l].retired].at = "rest"
         /\ [AtRest EXCEPT !.retired = launch[l].retired].key = NoneKey
         /\ [AtRest EXCEPT !.retired = launch[l].retired].retired = launch[l].retired
<1>1. launch[l] \in LaunchRow /\ launch \in [Launches -> LaunchRow]
  BY LaunchOf DEF KeyTypeOK, LaunchRow
<1>2. [AtRest EXCEPT !.retired = launch[l].retired]
        = [at |-> "rest", key |-> NoneKey, seen |-> NoneKey, retired |-> launch[l].retired]
  BY DEF AtRest
<1> QED BY <1>1, <1>2 DEF LaunchRow

LEMMA MintedRow ==
  ASSUME KeyTypeOK, NEW l \in Launches, NEW k \in MintedKeys, MintKey(l, k)
  PROVE  \E r \in LaunchRow : /\ launch' = [launch EXCEPT ![l] = r]
                              /\ r.at = "post" /\ r.key = k /\ r.retired = launch[l].retired
<1>1. launch \in [Launches -> LaunchRow] /\ launch[l] \in LaunchRow
  BY LaunchOf DEF KeyTypeOK, LaunchRow
<1> DEFINE r == [launch[l] EXCEPT !.at = "post", !.key = k]
<1>2. launch' = [launch EXCEPT ![l] = r]
  BY <1>1 DEF MintKey
<1>3. r \in LaunchRow /\ r.at = "post" /\ r.key = k /\ r.retired = launch[l].retired
  BY <1>1 DEF LaunchRow
<1> HIDE DEF r
<1> QED BY <1>2, <1>3

LEMMA AskedRow ==
  ASSUME KeyTypeOK, NEW l \in Launches, StatusPointer(l)
  PROVE  \E r \in LaunchRow : /\ launch' = [launch EXCEPT ![l] = r]
                              /\ r.at = "item" /\ r.key = launch[l].key /\ r.retired = launch[l].retired
                              /\ \E v \in Views : r.seen = v.pointer
<1>1. launch \in [Launches -> LaunchRow] /\ launch[l] \in LaunchRow
  BY LaunchOf DEF KeyTypeOK, LaunchRow
<1>2. PICK v \in Views : launch' = [launch EXCEPT ![l].at = "item", ![l].seen = v.pointer]
  BY DEF StatusPointer
<1> DEFINE r == [launch[l] EXCEPT !.at = "item", !.seen = v.pointer]
<1>3. v.pointer \in MintedKeys \union {NoneKey}
  BY ViewOf
<1>4. launch' = [launch EXCEPT ![l] = r]
  BY <1>1, <1>2
<1>5. r \in LaunchRow /\ r.at = "item" /\ r.key = launch[l].key /\ r.retired = launch[l].retired
      /\ r.seen = v.pointer
  BY <1>1, <1>3 DEF LaunchRow
<1> HIDE DEF r
<1> QED BY <1>4, <1>5

LEMMA KeyTypes ==
  ASSUME table' \in Table, copy' \in Table, file' \in [Machines -> MintedKeys \union {NoneKey}],
         launch' \in [Launches -> LaunchRow], caller' \in [Callers -> CallerRow],
         sealed' \in [Launches -> MintedKeys \union {NoneKey}], latest' \in MintedKeys \union {NoneKey},
         calls' \in 0..MaxCalls, excused' \subseteq MintedKeys
  PROVE  KeyTypeOK'
BY DEF KeyTypeOK, LaunchRow, CallerRow

-----------------------------------------------------------------------------
(* Time, and the copy                                                       *)

LEMMA CatchUpKeeps ==
  ASSUME KeyIInv, CatchUp
  PROVE  KeyIInv' /\ TableStep
<1>1. copy' = table /\ UNCHANGED <<table, file, launch, caller, sealed, latest, calls, excused>>
  BY DEF CatchUp
<1>2. KeyTypeOK'
  BY <1>1 DEF KeyIInv, KeyTypeOK
<1>3. NamedWasSet' /\ SetOnce' /\ CopyIsOlder'
  BY <1>1 DEF KeyIInv, NamedWasSet, SetOnce, CopyIsOlder, WasSet
<1>4. WipeIsLate' /\ LatestKeyActive'
  BY <1>1 DEF KeyIInv, WipeIsLate, LatestKeyActive, Wiping
<1> QED BY <1>1, <1>2, <1>3, <1>4 DEF KeyIInv, TableStep, WasSet, ItemDead

LEMMA TimeKeeps ==
  ASSUME KeyIInv, NEW k \in MintedKeys, KeyExpires(k) \/ TtlDeletes(k)
  PROVE  KeyIInv' /\ TableStep
<1>1. UNCHANGED <<file, launch, caller, sealed, latest, calls, excused>>
  BY DEF KeyExpires, TtlDeletes
<1>2. table \in Table /\ copy \in Table
  BY DEF KeyIInv, KeyTypeOK
<1>3. /\ table' \in Table /\ copy' \in Table
      /\ table'.pointer = table.pointer /\ copy'.pointer = copy.pointer
      /\ \A j \in MintedKeys : table'.item[j] = table.item[j]
           \/ (table.item[j] = "live" /\ table'.item[j] = "expired")
           \/ (table.item[j] = "expired" /\ table'.item[j] = "deleted")
      /\ \A j \in MintedKeys : copy'.item[j] = copy.item[j]
           \/ (copy.item[j] = "live" /\ copy'.item[j] = "expired" /\ table'.item[j] = "expired")
  <2>1. CASE KeyExpires(k)
    <3>1. table.item[k] = "live" /\ table' = [table EXCEPT !.item[k] = "expired"]
          /\ copy' = [copy EXCEPT !.item[k] = IF copy.item[k] = "live" THEN "expired" ELSE copy.item[k]]
      BY <2>1 DEF KeyExpires
    <3>2. "expired" \in ItemState /\ (IF copy.item[k] = "live" THEN "expired" ELSE copy.item[k]) \in ItemState
      BY <1>2 DEF Table, ItemState
    <3>3. /\ table' \in Table /\ table'.pointer = table.pointer
          /\ \A j \in MintedKeys : table'.item[j] = IF j = k THEN "expired" ELSE table.item[j]
      BY <1>2, <3>1, <3>2 DEF Table
    <3>4. /\ copy' \in Table /\ copy'.pointer = copy.pointer
          /\ \A j \in MintedKeys : copy'.item[j] =
               IF j = k THEN IF copy.item[k] = "live" THEN "expired" ELSE copy.item[k] ELSE copy.item[j]
      BY <1>2, <3>1, <3>2 DEF Table
    <3>5. table.item[k] = "live" /\ (copy.item[k] = "live" \/ copy'.item[k] = copy.item[k])
      BY <3>1, <3>4
    <3> QED BY <3>3, <3>4, <3>5
  <2>2. CASE TtlDeletes(k)
    <3>1. table.item[k] = "expired" /\ table' = [table EXCEPT !.item[k] = "deleted"] /\ copy' = copy
      BY <2>2 DEF TtlDeletes
    <3>2. "deleted" \in ItemState
      BY DEF ItemState
    <3>3. /\ table' \in Table /\ table'.pointer = table.pointer
          /\ \A j \in MintedKeys : table'.item[j] = IF j = k THEN "deleted" ELSE table.item[j]
      BY <1>2, <3>1, <3>2 DEF Table
    <3>4. table.item[k] = "expired" /\ copy' = copy /\ copy \in Table
      BY <1>2, <3>1
    <3> QED BY <3>3, <3>4
  <2> QED BY <2>1, <2>2
<1>4. KeyTypeOK'
  BY <1>1, <1>3 DEF KeyIInv, KeyTypeOK
<1>5. \A j \in MintedKeys : WasSet(j) => table'.item[j] # "unset"
  BY <1>3 DEF WasSet
<1>6. \A j \in MintedKeys : ~WasSet(j) => table'.item[j] = "unset"
  BY <1>3 DEF WasSet
<1>7. NamedWasSet'
  <2>1. ASSUME NEW j, j \in MintedKeys, WasSet(j)
        PROVE  WasSet(j)'
    BY <1>5, <2>1 DEF WasSet
  <2>2. \A m \in Machines : file[m] \in MintedKeys \union {NoneKey}
    BY DEF KeyIInv, KeyTypeOK
  <2>3. latest \in MintedKeys \union {NoneKey} /\ table.pointer \in MintedKeys \union {NoneKey}
        /\ copy.pointer \in MintedKeys \union {NoneKey}
    BY DEF KeyIInv, KeyTypeOK, Table
  <2>4. \A c \in Callers : caller[c].key \in MintedKeys \union {NoneKey}
    BY CallerOf DEF KeyIInv
  <2> QED BY <1>1, <1>3, <2>1, <2>2, <2>3, <2>4 DEF KeyIInv, NamedWasSet, WasSet
<1>8. SetOnce'
  BY <1>1, <1>3, <1>5, <1>6 DEF KeyIInv, SetOnce, WasSet
<1>9. CopyIsOlder'
  BY <1>3 DEF KeyIInv, CopyIsOlder
<1>10. WipeIsLate' /\ LatestKeyActive'
  <2>1. latest \in MintedKeys \union {NoneKey}
    BY DEF KeyIInv, KeyTypeOK
  <2> QED BY <1>1, <1>3, <2>1 DEF KeyIInv, WipeIsLate, LatestKeyActive, Wiping
<1>11. TableStep
  BY <1>1, <1>3 DEF TableStep, WasSet, ItemDead
<1> QED BY <1>4, <1>7, <1>8, <1>9, <1>10, <1>11 DEF KeyIInv

-----------------------------------------------------------------------------
(* get_active_k_temp and wipe_k_temp                                        *)

(* A step of a caller that leaves the table alone.                          *)
LEMMA CallerFrame ==
  ASSUME KeyIInv, NEW c \in Callers, NEW r \in CallerRow, caller' = [caller EXCEPT ![c] = r],
         UNCHANGED <<table, copy, file, launch, sealed, latest>>,
         calls' \in 0..MaxCalls, excused \subseteq excused', excused' \subseteq MintedKeys,
         r.key # NoneKey => r.key \in {caller[c].key, table.pointer, copy.pointer},
         \/ r.at \in {"rest", "item"} \/ caller[c].at \in {"wipe", "delItem", "delPointer"}
         \/ latest = NoneKey \/ latest \in excused'
         \/ table.item[latest] \in {"expired", "deleted"}
  PROVE  KeyIInv' /\ TableStep
<1>1. caller' \in [Callers -> CallerRow] /\ caller'[c] = r /\ \A d \in Callers \ {c} : caller'[d] = caller[d]
  BY CallerMoves DEF KeyIInv
<1>2. KeyTypeOK'
  BY <1>1 DEF KeyIInv, KeyTypeOK, CallerRow
<1>3. \A d \in Callers : caller'[d].key # NoneKey =>
        caller'[d].key \in {table.pointer, copy.pointer} \/ \E b \in Callers : caller'[d].key = caller[b].key
  BY <1>1
<1>4. NamedWasSet'
  BY <1>3 DEF KeyIInv, NamedWasSet, WasSet
<1>5. SetOnce'
  <2>1. ASSUME NEW l \in Launches, launch[l].at = "point", NEW d \in Callers
        PROVE  caller'[d].key # launch[l].key
    <3>1. launch[l].key \in MintedKeys
      BY <2>1 DEF KeyIInv, SetOnce
    <3>2. launch[l].key # NoneKey
      BY <3>1, KTempAssumption
    <3> QED BY <1>3, <2>1, <3>2 DEF KeyIInv, SetOnce
  <2> QED BY <2>1 DEF KeyIInv, SetOnce, WasSet
<1>6. CopyIsOlder' /\ LatestKeyActive'
  BY DEF KeyIInv, CopyIsOlder, LatestKeyActive
<1>7. WipeIsLate'
  <2> SUFFICES ASSUME latest # NoneKey, latest \notin excused', Wiping' # {}
               PROVE  table.item[latest] \in {"expired", "deleted"}
    BY DEF WipeIsLate
  <2>1. CASE Wiping # {}
    BY <2>1 DEF KeyIInv, WipeIsLate
  <2>2. CASE Wiping = {}
    <3>1. Wiping' \subseteq {c} /\ c \in Wiping'
      BY <1>1, <2>2 DEF Wiping
    <3>2. r.at \notin {"rest", "item"} /\ caller[c].at \notin {"wipe", "delItem", "delPointer"}
      BY <1>1, <2>2, <3>1 DEF Wiping
    <3> QED BY <3>2
  <2> QED BY <2>1, <2>2
<1>8. TableStep
  BY DEF TableStep, WasSet, ItemDead
<1> QED BY <1>2, <1>4, <1>5, <1>6, <1>7, <1>8 DEF KeyIInv

LEMMA CallerReadsKeep ==
  ASSUME KeyIInv, NEW c \in Callers,
         GetActive(c) \/ FetchItem(c) \/ Revoke(c) \/ WipeReads(c) \/ CallerStops(c)
  PROVE  KeyIInv' /\ TableStep
<1> USE KTempAssumption
<1>1. calls \in 0..MaxCalls /\ excused \subseteq MintedKeys /\ latest \in MintedKeys \union {NoneKey}
  BY DEF KeyIInv, KeyTypeOK
<1>2. caller[c] \in CallerRow /\ caller[c].key \in MintedKeys \union {NoneKey} /\ NotCalled \in CallerRow
  BY CallerOf DEF KeyIInv, NotCalled, CallerRow
<1>3. \A v \in Views : v.pointer \in {table.pointer, copy.pointer} /\ v.pointer \in MintedKeys \union {NoneKey}
  BY ViewOf DEF KeyIInv, Views
<1>4. CASE GetActive(c)
  <2>1. PICK v \in Views : caller' = [caller EXCEPT ![c] = [at |-> "item", key |-> v.pointer]]
    BY <1>4 DEF GetActive
  <2> DEFINE r == [at |-> "item", key |-> v.pointer]
  <2>2. r \in CallerRow /\ r.key \in {table.pointer, copy.pointer} /\ r.at = "item"
    BY <1>3 DEF CallerRow
  <2>3. UNCHANGED <<table, copy, file, launch, sealed, latest, excused>> /\ calls' \in 0..MaxCalls
    BY <1>1, <1>4 DEF GetActive, Begin
  <2> HIDE DEF r
  <2> QED BY <1>1, <2>1, <2>2, <2>3, CallerFrame DEF r
<1>5. CASE FetchItem(c)
  <2>1. UNCHANGED <<table, copy, file, launch, sealed, latest, calls>>
    BY <1>5 DEF FetchItem
  <2>2. PICK v \in Views :
          IF v.item[caller[c].key] \in {"expired"}
            THEN /\ caller' = [caller EXCEPT ![c].at = "wipe"]
                 /\ excused' = excused \union ({latest} \ {NoneKey, caller[c].key})
            ELSE caller' = [caller EXCEPT ![c] = NotCalled] /\ excused' = excused
    BY <1>5 DEF FetchItem, Outdated
  <2>3. CASE v.item[caller[c].key] \in {"expired"}
    <3> DEFINE r == [at |-> "wipe", key |-> caller[c].key]
    <3>1. r \in CallerRow /\ r.key = caller[c].key
      BY <1>2 DEF CallerRow
    <3>2. caller' = [caller EXCEPT ![c] = r]
      BY <2>2, <2>3, CallerAt DEF KeyIInv
    <3>3. excused \subseteq excused' /\ excused' \subseteq MintedKeys
      BY <1>1, <2>2, <2>3
    <3>4. \/ latest = NoneKey \/ latest \in excused' \/ table.item[latest] \in {"expired", "deleted"}
      <4>1. CASE latest = caller[c].key /\ latest # NoneKey
        BY <1>1, <2>3, <4>1 DEF Views, KeyIInv, CopyIsOlder
      <4> QED BY <2>2, <2>3, <4>1
    <3> HIDE DEF r
    <3> QED BY <1>1, <2>1, <3>1, <3>2, <3>3, <3>4, CallerFrame
  <2>4. CASE v.item[caller[c].key] \notin {"expired"}
    <3>1. NotCalled.key = NoneKey /\ NotCalled.at = "rest"
      BY DEF NotCalled
    <3> QED BY <1>1, <1>2, <2>1, <2>2, <2>4, <3>1, CallerFrame
  <2> QED BY <2>3, <2>4
<1>6. CASE Revoke(c)
  <2> DEFINE r == [at |-> "wipe", key |-> caller[c].key]
  <2>1. r \in CallerRow /\ r.key = caller[c].key
    BY <1>2 DEF CallerRow
  <2>2. caller' = [caller EXCEPT ![c] = r]
    <3>1. caller' = [caller EXCEPT ![c].at = "wipe"]
      BY <1>6 DEF Revoke
    <3> QED BY <3>1, CallerAt DEF KeyIInv
  <2>3. UNCHANGED <<table, copy, file, launch, sealed, latest>> /\ calls' \in 0..MaxCalls
        /\ excused \subseteq excused' /\ excused' \subseteq MintedKeys
        /\ (latest = NoneKey \/ latest \in excused')
    BY <1>1, <1>6 DEF Revoke, Begin
  <2> HIDE DEF r
  <2> QED BY <2>1, <2>2, <2>3, CallerFrame
<1>7. CASE WipeReads(c)
  <2>1. PICK v \in Views : caller' = [caller EXCEPT ![c] =
          [at |-> IF v.pointer = NoneKey THEN "delPointer" ELSE "delItem", key |-> v.pointer]]
    BY <1>7 DEF WipeReads
  <2> DEFINE r == [at |-> IF v.pointer = NoneKey THEN "delPointer" ELSE "delItem", key |-> v.pointer]
  <2>2. r \in CallerRow /\ r.key \in {table.pointer, copy.pointer}
    BY <1>3 DEF CallerRow
  <2>3. UNCHANGED <<table, copy, file, launch, sealed, latest, calls, excused>> /\ caller[c].at = "wipe"
    BY <1>7 DEF WipeReads
  <2>4. caller' = [caller EXCEPT ![c] = r]
    BY <2>1
  <2> HIDE DEF r
  <2> QED BY <1>1, <2>2, <2>3, <2>4, CallerFrame
<1>8. CASE CallerStops(c)
  <2>1. NotCalled.key = NoneKey /\ NotCalled.at = "rest"
    BY DEF NotCalled
  <2> QED BY <1>1, <1>2, <1>8, <2>1, CallerFrame DEF CallerStops
<1> QED BY <1>4, <1>5, <1>6, <1>7, <1>8

(* A wipe deletes the latest key only if that is excused or past use.       *)
LEMMA CallerDeletesKeep ==
  ASSUME KeyIInv, NEW c \in Callers, DeleteItem(c) \/ DeletePointer(c)
  PROVE  KeyIInv' /\ TableStep
<1> DEFINE key == caller[c].key
<1>1. UNCHANGED <<copy, file, launch, sealed, latest, calls, excused>>
      /\ caller[c].at \in {"delItem", "delPointer"}
  BY DEF DeleteItem, DeletePointer
<1>2. table \in Table /\ table.pointer \in MintedKeys \union {NoneKey} /\ table.item \in [MintedKeys -> ItemState]
  BY DEF KeyIInv, KeyTypeOK, Table
<1>3. \E r \in CallerRow : caller' = [caller EXCEPT ![c] = r] /\ r.key \in {caller[c].key, NoneKey}
        /\ (r.at = "rest" \/ r.at = "delPointer")
  <2>1. CASE DeleteItem(c)
    <3>1. caller' = [caller EXCEPT ![c].at = "delPointer"]
      BY <2>1 DEF DeleteItem
    <3>2. [at |-> "delPointer", key |-> key] \in CallerRow
      BY CallerOf DEF KeyIInv, CallerRow
    <3>3. caller' = [caller EXCEPT ![c] = [at |-> "delPointer", key |-> key]]
      BY <3>1, CallerAt DEF KeyIInv
    <3> QED BY <3>2, <3>3
  <2>2. CASE DeletePointer(c)
    <3>1. NotCalled \in CallerRow /\ NotCalled.key = NoneKey /\ NotCalled.at = "rest"
      BY DEF NotCalled, CallerRow
    <3> QED BY <2>2, <3>1 DEF DeletePointer
  <2> QED BY <2>1, <2>2
<1>4. PICK r \in CallerRow : caller' = [caller EXCEPT ![c] = r] /\ r.key \in {caller[c].key, NoneKey}
  BY <1>3
<1>5. caller' \in [Callers -> CallerRow] /\ caller'[c] = r /\ \A d \in Callers \ {c} : caller'[d] = caller[d]
  BY <1>4, CallerMoves DEF KeyIInv
<1>6. /\ table' \in Table /\ table'.pointer \in {table.pointer, NoneKey}
      /\ \A j \in MintedKeys : table'.item[j] = table.item[j]
           \/ (j = key /\ table'.item[j] = IF table.item[j] = "live" THEN "wiped" ELSE "deleted")
      /\ table'.item # table.item => key # NoneKey
      /\ table'.pointer # table.pointer => caller[c].at = "delPointer"
      /\ table'.item = table.item \/ table'.pointer = table.pointer
  <2>1. CASE DeleteItem(c)
    <3> DEFINE s == IF table.item[key] = "live" THEN "wiped" ELSE "deleted"
    <3>1. table' \in {table, [table EXCEPT !.item[key] = s]}
      BY <2>1 DEF DeleteItem
    <3>2. s \in ItemState
      BY DEF ItemState
    <3> HIDE DEF s
    <3>3. ASSUME table' = [table EXCEPT !.item[key] = s]
          PROVE  /\ table' \in Table /\ table'.pointer = table.pointer
                 /\ \A j \in MintedKeys : table'.item[j] = table.item[j] \/ (j = key /\ table'.item[j] = s)
                 /\ table'.item # table.item => key # NoneKey
      <4>1. /\ table' \in Table /\ table'.pointer = table.pointer
            /\ \A j \in MintedKeys : table'.item[j] = IF j = key THEN s ELSE table.item[j]
        BY <1>2, <3>2, <3>3, ItemSet
      <4>2. table'.item # table.item => key # NoneKey
        <5>1. CASE key = NoneKey
          <6>1. table'.item \in [MintedKeys -> ItemState] /\ \A j \in MintedKeys : table'.item[j] = table.item[j]
            BY <4>1, <5>1, KTempAssumption DEF Table
          <6> QED BY <1>2, <6>1
        <5> QED BY <5>1
      <4>3. \A j \in MintedKeys : table'.item[j] = table.item[j] \/ (j = key /\ table'.item[j] = s)
        BY <4>1
      <4> QED BY <4>1, <4>2, <4>3
    <3>4. CASE table' = table
      BY <1>2, <3>4
    <3>5. CASE table' # table
      BY <3>1, <3>3, <3>5 DEF s
    <3> QED BY <3>4, <3>5
  <2>2. CASE DeletePointer(c)
    <3>1. table' \in {table, [table EXCEPT !.pointer = NoneKey]} /\ caller[c].at = "delPointer"
      BY <2>2 DEF DeletePointer
    <3>2. CASE table' = [table EXCEPT !.pointer = NoneKey]
      <4>1. table' \in Table /\ table'.pointer = NoneKey /\ table'.item = table.item
        BY <1>2, <3>2 DEF Table
      <4>2. caller[c].at = "delPointer"
        BY <3>1
      <4> QED BY <4>1, <4>2
    <3>3. CASE table' = table
      BY <1>2, <3>3
    <3> QED BY <3>1, <3>2, <3>3
  <2> QED BY <2>1, <2>2
<1>7. KeyTypeOK'
  BY <1>1, <1>5, <1>6 DEF KeyIInv, KeyTypeOK, CallerRow
<1>8. key # NoneKey => WasSet(key) /\ key \in MintedKeys
  BY CallerOf DEF KeyIInv, NamedWasSet
<1>9. \A j \in MintedKeys : WasSet(j) <=> table'.item[j] # "unset"
  BY <1>6, <1>8, KTempAssumption DEF WasSet
<1>10. NamedWasSet'
  <2>1. \A m \in Machines : file[m] \in MintedKeys \union {NoneKey}
    BY DEF KeyIInv, KeyTypeOK
  <2>2. latest \in MintedKeys \union {NoneKey} /\ copy.pointer \in MintedKeys \union {NoneKey}
    BY DEF KeyIInv, KeyTypeOK, Table
  <2>3. \A d \in Callers : caller[d].key \in MintedKeys \union {NoneKey}
    BY CallerOf DEF KeyIInv
  <2>4. \A d \in Callers : caller'[d].key \in {caller[d].key, NoneKey}
    BY <1>4, <1>5
  <2> QED BY <1>1, <1>2, <1>6, <1>9, <2>1, <2>2, <2>3, <2>4 DEF KeyIInv, NamedWasSet, WasSet
<1>11. SetOnce'
  <2>1. ASSUME NEW l \in Launches, launch[l].at = "point"
        PROVE  /\ launch[l].key # NoneKey /\ launch[l].key # key /\ table'.pointer # launch[l].key
               /\ table'.item[launch[l].key] = table.item[launch[l].key]
               /\ \A d \in Callers : caller'[d].key # launch[l].key
    <3>1. launch[l].key \in MintedKeys /\ launch[l].key # NoneKey
      BY <2>1, KTempAssumption DEF KeyIInv, SetOnce
    <3>2. \A d \in Callers : caller[d].key # launch[l].key
      BY <2>1 DEF KeyIInv, SetOnce
    <3>3. table.pointer # launch[l].key
      BY <2>1 DEF KeyIInv, SetOnce
    <3> QED BY <1>4, <1>5, <1>6, <3>1, <3>2, <3>3
  <2>2. ASSUME NEW l \in Launches
        PROVE  /\ launch[l].at = "post" => ~WasSet(launch[l].key)'
               /\ launch[l].at = "write" => WasSet(launch[l].key)'
    BY <1>1, <1>9 DEF KeyIInv, SetOnce, WasSet
  <2> QED BY <1>1, <2>1, <2>2 DEF KeyIInv, SetOnce, WasSet
<1>12. CopyIsOlder'
  BY <1>1, <1>6 DEF KeyIInv, CopyIsOlder
<1>13. c \in Wiping
  BY <1>1 DEF Wiping
<1>14. latest # NoneKey /\ latest \notin excused => table'.item[latest] \in {"expired", "deleted"}
  BY <1>6, <1>13 DEF KeyIInv, WipeIsLate, KeyTypeOK
<1>15. WipeIsLate' /\ LatestKeyActive'
  BY <1>1, <1>14 DEF WipeIsLate, LatestKeyActive
<1>16. TableStep
  BY <1>1, <1>6, <1>9 DEF TableStep, WasSet, ItemDead
<1> QED BY <1>7, <1>10, <1>11, <1>12, <1>15, <1>16 DEF KeyIInv

-----------------------------------------------------------------------------
(* _ensure_k_temp                                                           *)

(* A step of a launch that leaves the table alone.                          *)
LEMMA LaunchFrame ==
  ASSUME KeyIInv, NEW l \in Launches, NEW r \in LaunchRow, launch' = [launch EXCEPT ![l] = r],
         UNCHANGED <<table, copy, caller, latest, excused>>,
         calls' \in 0..MaxCalls, sealed' \in [Launches -> MintedKeys \union {NoneKey}],
         file' \in [Machines -> MintedKeys \union {NoneKey}],
         \A m \in Machines : file'[m] \in {file[m], NoneKey} \/ (file'[m] = launch[l].key /\ launch[l].at = "write"),
         \/ r.at \in {"rest", "status", "item", "mint"}
            /\ (r.key \in {NoneKey, launch[l].key} \/ \E m \in Machines : r.key = file[m])
         \/ r.at = "post" /\ r.key \in MintedKeys /\ ~WasSet(r.key) /\ \A m \in Launches : launch[m].key # r.key,
         launch[l].at \in {"post", "point"} => r.key = NoneKey
  PROVE  KeyIInv' /\ TableStep
<1> USE KTempAssumption
<1>1. launch' \in [Launches -> LaunchRow] /\ launch'[l] = r /\ \A m \in Launches \ {l} : launch'[m] = launch[m]
  BY LaunchMoves DEF KeyIInv
<1>2. KeyTypeOK'
  BY <1>1 DEF KeyIInv, KeyTypeOK, LaunchRow
<1>3. NamedWasSet'
  BY DEF KeyIInv, NamedWasSet, SetOnce, WasSet
<1>4. SetOnce'
  <2>1. ASSUME NEW m \in Launches, launch'[m].at = "point"
        PROVE  m # l /\ launch'[m] = launch[m] /\ \A i \in Machines : file'[i] # launch[m].key
    <3>1. m # l /\ launch'[m] = launch[m]
      BY <1>1, <2>1
    <3>2. launch[m].key \in MintedKeys /\ launch[l].key # launch[m].key /\ \A i \in Machines : file[i] # launch[m].key
      BY <2>1, <3>1 DEF KeyIInv, SetOnce
    <3> QED BY <3>1, <3>2
  <2>2. ASSUME NEW m \in Launches, launch'[m].at \in {"post", "point"}
        PROVE  launch'[m].key \in MintedKeys /\ \A n \in Launches \ {m} : launch'[n].key # launch'[m].key
    <3>1. CASE m = l
      BY <1>1, <2>2, <3>1
    <3>2. CASE m # l
      <4>1. launch'[m] = launch[m]
        BY <1>1, <3>2
      <4>2. /\ launch[m].key \in MintedKeys /\ launch[m].key # NoneKey
            /\ \A n \in Launches \ {m} : launch[n].key # launch[m].key
            /\ \A i \in Machines : file[i] # launch[m].key
        BY <2>2, <4>1 DEF KeyIInv, SetOnce, NamedWasSet
      <4>3. r.key # launch[m].key
        BY <4>2, <3>2
      <4> QED BY <1>1, <3>2, <4>1, <4>2, <4>3
    <3> QED BY <3>1, <3>2
  <2>3. ASSUME NEW m \in Launches
        PROVE  /\ launch'[m].at = "post" => ~WasSet(launch'[m].key)
               /\ launch'[m].at = "write" => launch'[m].key \in MintedKeys /\ WasSet(launch'[m].key)
    BY <1>1 DEF KeyIInv, SetOnce
  <2> QED BY <2>1, <2>2, <2>3 DEF KeyIInv, SetOnce, WasSet
<1>5. CopyIsOlder' /\ WipeIsLate' /\ LatestKeyActive'
  BY DEF KeyIInv, CopyIsOlder, WipeIsLate, LatestKeyActive, Wiping
<1>6. TableStep
  BY <1>1 DEF TableStep, WasSet, ItemDead
<1> QED BY <1>2, <1>3, <1>4, <1>5, <1>6 DEF KeyIInv

(* What a launch does without the cloud.                                    *)
LEMMA LaunchReadsKeep ==
  ASSUME KeyIInv, NEW l \in Launches,
         \/ StartEnsure(l) \/ StatusPointer(l) \/ StatusItem(l) \/ StatusRefused(l)
         \/ WriteFile(l) \/ EnsureFails(l)
  PROVE  KeyIInv' /\ TableStep
<1> USE KTempAssumption
<1> DEFINE row == launch[l]
           rest == [AtRest EXCEPT !.retired = row.retired]
<1>1. /\ calls \in 0..MaxCalls /\ sealed \in [Launches -> MintedKeys \union {NoneKey}]
      /\ file \in [Machines -> MintedKeys \union {NoneKey}] /\ MachineOf[l] \in Machines
  BY DEF KeyIInv, KeyTypeOK
<1>2. row \in LaunchRow /\ row.key \in MintedKeys \union {NoneKey} /\ row.retired \subseteq MintedKeys
  BY LaunchOf DEF KeyIInv, LaunchRow
<1>3. rest \in LaunchRow /\ rest.at = "rest" /\ rest.key = NoneKey
  BY LaunchRows DEF KeyIInv
<1>4. \A m \in Machines : file[m] \in {file[m], NoneKey}
  OBVIOUS
<1>5. CASE StartEnsure(l)
  <2> DEFINE k == file[MachineOf[l]]
             r == [at |-> IF k = NoneKey THEN "mint" ELSE "status", key |-> k, seen |-> NoneKey,
                   retired |-> Retired]
  <2>1. r \in LaunchRow /\ r.at \in {"mint", "status"} /\ r.key = file[MachineOf[l]]
    BY <1>1 DEF LaunchRow, Retired
  <2>2. launch' = [launch EXCEPT ![l] = r] /\ row.at = "rest"
    BY <1>5 DEF StartEnsure
  <2>3. UNCHANGED <<table, copy, file, caller, latest, excused>> /\ calls' \in 0..MaxCalls
        /\ sealed' \in [Launches -> MintedKeys \union {NoneKey}]
    BY <1>1, <1>5 DEF StartEnsure, Begin
  <2> HIDE DEF r
  <2> QED BY <1>1, <1>4, <2>1, <2>2, <2>3, LaunchFrame
<1>6. CASE StatusPointer(l)
  <2>1. PICK r \in LaunchRow : launch' = [launch EXCEPT ![l] = r] /\ r.at = "item" /\ r.key = launch[l].key
    BY <1>6, AskedRow DEF KeyIInv
  <2>2. UNCHANGED <<table, copy, file, caller, sealed, latest, calls, excused>> /\ launch[l].at = "status"
    BY <1>6 DEF StatusPointer
  <2> QED BY <1>1, <1>4, <2>1, <2>2, LaunchFrame
<1>7. ASSUME UNCHANGED <<table, copy, caller, sealed, latest, calls, excused>>,
              launch[l].at \in {"status", "item"},
              file' = [file EXCEPT ![MachineOf[l]] = NoneKey],
              launch' = [launch EXCEPT ![l].at = "mint"]
       PROVE  KeyIInv' /\ TableStep
  <2> DEFINE r == [launch[l] EXCEPT !.at = "mint"]
  <2>1. r \in LaunchRow /\ r.at = "mint" /\ r.key = launch[l].key
        /\ [launch EXCEPT ![l].at = "mint"] = [launch EXCEPT ![l] = r]
    BY LaunchRows DEF KeyIInv
  <2>2. file' \in [Machines -> MintedKeys \union {NoneKey}]
        /\ \A m \in Machines : file'[m] \in {file[m], NoneKey}
    BY <1>1, <1>7
  <2> HIDE DEF r
  <2> QED BY <1>1, <1>7, <2>1, <2>2, LaunchFrame
<1>8. CASE StatusRefused(l)
  BY <1>7, <1>8 DEF StatusRefused
<1>9. CASE StatusItem(l)
  <2>1. UNCHANGED <<table, copy, caller, latest, calls, excused>> /\ launch[l].at = "item"
    BY <1>9 DEF StatusItem
  <2>2. \/ /\ sealed' = [sealed EXCEPT ![l] = launch[l].key] /\ file' = file
           /\ launch' = [launch EXCEPT ![l] = [AtRest EXCEPT !.retired = launch[l].retired]]
        \/ /\ file' = [file EXCEPT ![MachineOf[l]] = NoneKey] /\ sealed' = sealed
           /\ launch' = [launch EXCEPT ![l].at = "mint"]
    BY <1>9 DEF StatusItem
  <2>3. CASE /\ sealed' = [sealed EXCEPT ![l] = launch[l].key] /\ file' = file
             /\ launch' = [launch EXCEPT ![l] = rest]
    <3>1. sealed' \in [Launches -> MintedKeys \union {NoneKey}]
      BY <1>1, <1>2, <2>3
    <3> HIDE DEF rest
    <3> QED BY <1>1, <1>3, <1>4, <2>1, <2>3, <3>1, LaunchFrame
  <2>4. CASE /\ file' = [file EXCEPT ![MachineOf[l]] = NoneKey] /\ sealed' = sealed
             /\ launch' = [launch EXCEPT ![l].at = "mint"]
    BY <2>1, <2>4, <1>7
  <2> QED BY <2>2, <2>3, <2>4
<1>10. CASE WriteFile(l)
  <2>1. /\ UNCHANGED <<table, copy, caller, latest, calls, excused>> /\ launch[l].at = "write"
        /\ file' = [file EXCEPT ![MachineOf[l]] = launch[l].key]
        /\ sealed' = [sealed EXCEPT ![l] = launch[l].key]
        /\ launch' = [launch EXCEPT ![l] = rest]
    BY <1>10 DEF WriteFile
  <2>2. file' \in [Machines -> MintedKeys \union {NoneKey}]
        /\ sealed' \in [Launches -> MintedKeys \union {NoneKey}]
        /\ \A m \in Machines : file'[m] \in {file[m], NoneKey} \/ file'[m] = launch[l].key
    BY <1>1, <1>2, <2>1
  <2> HIDE DEF rest
  <2> QED BY <1>1, <1>3, <2>1, <2>2, LaunchFrame
<1>11. CASE EnsureFails(l)
  <2>1. /\ UNCHANGED <<table, copy, file, caller, sealed, latest, calls, excused>>
        /\ launch' = [launch EXCEPT ![l] = rest]
    BY <1>11 DEF EnsureFails
  <2> HIDE DEF rest
  <2> QED BY <1>1, <1>3, <1>4, <2>1, LaunchFrame
<1> QED BY <1>5, <1>6, <1>8, <1>9, <1>10, <1>11

LEMMA MintKeeps ==
  ASSUME KeyIInv, NEW l \in Launches, NEW k \in MintedKeys, MintKey(l, k)
  PROVE  KeyIInv' /\ TableStep
<1> USE KTempAssumption
<1>1. PICK r \in LaunchRow : launch' = [launch EXCEPT ![l] = r] /\ r.at = "post" /\ r.key = k
  BY MintedRow DEF KeyIInv
<1>2. ~WasSet(k) /\ (\A m \in Launches : launch[m].key # k) /\ launch[l].at = "mint"
      /\ UNCHANGED <<table, copy, file, caller, sealed, latest, calls, excused>>
  BY DEF MintKey, Fresh, WasSet
<1>3. /\ calls \in 0..MaxCalls /\ sealed \in [Launches -> MintedKeys \union {NoneKey}]
      /\ file \in [Machines -> MintedKeys \union {NoneKey}]
  BY DEF KeyIInv, KeyTypeOK
<1> QED BY <1>1, <1>2, <1>3, LaunchFrame

(* The item is put before the pointer: until then nothing names the key.    *)
LEMMA PutItemKeeps ==
  ASSUME KeyIInv, NEW l \in Launches, PutKeyItem(l)
  PROVE  KeyIInv' /\ TableStep
<1> USE KTempAssumption
<1> DEFINE key == launch[l].key
           r == [launch[l] EXCEPT !.at = "point"]
<1>1. /\ r \in LaunchRow /\ r.at = "point" /\ r.key = key
      /\ [launch EXCEPT ![l].at = "point"] = [launch EXCEPT ![l] = r]
  BY LaunchRows DEF KeyIInv
<1>2. /\ UNCHANGED <<copy, file, caller, sealed, latest, calls, excused>> /\ launch[l].at = "post"
      /\ launch' = [launch EXCEPT ![l] = r] /\ table' = [table EXCEPT !.item[key] = "live"]
  BY <1>1 DEF PutKeyItem
<1>3. key \in MintedKeys /\ key # NoneKey /\ ~WasSet(key) /\ \A m \in Launches \ {l} : launch[m].key # key
  BY <1>2 DEF KeyIInv, SetOnce
<1> HIDE DEF r, key
<1>4. launch' \in [Launches -> LaunchRow] /\ launch'[l] = r /\ \A m \in Launches \ {l} : launch'[m] = launch[m]
  BY <1>1, <1>2, LaunchMoves DEF KeyIInv
<1>5. table \in Table /\ "live" \in ItemState
  BY DEF KeyIInv, KeyTypeOK, ItemState
<1>6. /\ table' \in Table /\ table'.pointer = table.pointer
      /\ \A j \in MintedKeys : table'.item[j] = IF j = key THEN "live" ELSE table.item[j]
  BY <1>2, <1>5 DEF Table
<1>7. KeyTypeOK'
  BY <1>2, <1>4, <1>6 DEF KeyIInv, KeyTypeOK, LaunchRow
<1>8. \A j \in MintedKeys : (table'.item[j] # "unset") <=> (WasSet(j) \/ j = key)
  BY <1>6 DEF WasSet
<1>9. /\ table.pointer # key /\ copy.pointer # key /\ latest # key
      /\ \A m \in Machines : file[m] # key
      /\ \A c \in Callers : caller[c].key # key
  BY <1>3 DEF KeyIInv, NamedWasSet
<1>10. /\ latest \in MintedKeys \union {NoneKey} /\ table.pointer \in MintedKeys \union {NoneKey}
       /\ copy.pointer \in MintedKeys \union {NoneKey} /\ \A m \in Machines : file[m] \in MintedKeys \union {NoneKey}
  BY DEF KeyIInv, KeyTypeOK, Table
<1>11. \A c \in Callers : caller[c].key \in MintedKeys \union {NoneKey}
  BY CallerOf DEF KeyIInv
<1>12. NamedWasSet'
  BY <1>2, <1>6, <1>8, <1>10, <1>11 DEF KeyIInv, NamedWasSet, WasSet
<1>13. SetOnce'
  <2>1. ASSUME NEW m \in Launches \ {l}
        PROVE  /\ launch'[m] = launch[m] /\ launch[m].key # key
               /\ launch[m].key \in MintedKeys =>
                     table'.item[launch[m].key] = table.item[launch[m].key]
    BY <1>3, <1>4, <1>6
  <2>2. ASSUME NEW m \in Launches \ {l}, launch[m].at \in {"post", "point", "write"}
        PROVE  launch[m].key \in MintedKeys /\ table'.item[launch[m].key] = table.item[launch[m].key]
    BY <2>1, <2>2 DEF KeyIInv, SetOnce
  <2>3. table'.item[key] = "live"
    BY <1>3, <1>6
  <2> QED BY <1>1, <1>2, <1>3, <1>4, <1>6, <1>9, <2>1, <2>2, <2>3 DEF KeyIInv, SetOnce, WasSet
<1>14. CopyIsOlder'
  BY <1>2, <1>3, <1>6 DEF KeyIInv, CopyIsOlder, WasSet
<1>15. latest # NoneKey => table'.item[latest] = table.item[latest]
  BY <1>6, <1>9, <1>10
<1>16. WipeIsLate' /\ LatestKeyActive'
  BY <1>2, <1>6, <1>15 DEF KeyIInv, WipeIsLate, LatestKeyActive, Wiping
<1>17. \A m \in Launches : launch'[m].at = "point" =>
         \/ launch[m].at = "point" /\ launch'[m].key = launch[m].key
         \/ ~WasSet(launch'[m].key)
  BY <1>1, <1>3, <1>4
<1>18. TableStep
  BY <1>2, <1>3, <1>6, <1>17 DEF TableStep, WasSet, ItemDead
<1> QED BY <1>7, <1>12, <1>13, <1>14, <1>16, <1>18 DEF KeyIInv

(* A key set while a wipe goes on is excused: no later step has to save it. *)
LEMMA PutPointerKeeps ==
  ASSUME KeyIInv, NEW l \in Launches, PutPointer(l)
  PROVE  KeyIInv' /\ TableStep
<1> USE KTempAssumption
<1> DEFINE key == launch[l].key
           r == [launch[l] EXCEPT !.at = "write"]
<1>1. /\ r \in LaunchRow /\ r.at = "write" /\ r.key = key
      /\ [launch EXCEPT ![l].at = "write"] = [launch EXCEPT ![l] = r]
  BY LaunchRows DEF KeyIInv
<1>2. /\ UNCHANGED <<copy, file, caller, sealed, calls>> /\ launch[l].at = "point" /\ latest' = key
      /\ excused' = IF Wiping = {} THEN excused ELSE excused \union {key}
      /\ launch' = [launch EXCEPT ![l] = r] /\ table' = [table EXCEPT !.pointer = key]
  BY <1>1 DEF PutPointer
<1>3. key \in MintedKeys /\ key # NoneKey /\ table.item[key] \in {"live", "expired", "deleted"}
      /\ \A m \in Launches \ {l} : launch[m].key # key
  BY <1>2 DEF KeyIInv, SetOnce
<1>4. WasSet(key)
  BY <1>3 DEF WasSet
<1>5. key = launch[l].key
  OBVIOUS
<1> HIDE DEF r, key
<1>6. launch' \in [Launches -> LaunchRow] /\ launch'[l] = r /\ \A m \in Launches \ {l} : launch'[m] = launch[m]
  BY <1>1, <1>2, LaunchMoves DEF KeyIInv
<1>7. table \in Table
  BY DEF KeyIInv, KeyTypeOK
<1>8. table' \in Table /\ table'.pointer = key /\ table'.item = table.item
  BY <1>2, <1>3, <1>7 DEF Table
<1>9. KeyTypeOK'
  BY <1>2, <1>3, <1>6, <1>8 DEF KeyIInv, KeyTypeOK, LaunchRow
<1>10. NamedWasSet'
  BY <1>2, <1>4, <1>8 DEF KeyIInv, NamedWasSet, WasSet
<1>11. SetOnce'
  <2>1. ASSUME NEW m \in Launches, launch'[m].at = "point"
        PROVE  m # l /\ launch'[m] = launch[m] /\ launch[m].key # key /\ launch[m].at = "point"
    BY <1>1, <1>3, <1>6, <2>1
  <2>2. \A m \in Launches : launch'[m].at # launch[m].at => m = l
    BY <1>6
  <2>3. \A m \in Launches : launch'[m].key = launch[m].key
    BY <1>1, <1>5, <1>6
  <2> QED BY <1>1, <1>2, <1>3, <1>4, <1>6, <1>8, <2>1, <2>2, <2>3 DEF KeyIInv, SetOnce, WasSet
<1>12. CopyIsOlder'
  BY <1>2, <1>8 DEF KeyIInv, CopyIsOlder
<1>13. WipeIsLate' /\ LatestKeyActive'
  BY <1>2, <1>3, <1>8 DEF WipeIsLate, LatestKeyActive, Wiping
<1>14. TableStep
  BY <1>1, <1>2, <1>5, <1>6, <1>8 DEF TableStep, WasSet, ItemDead
<1> QED BY <1>9, <1>10, <1>11, <1>12, <1>13, <1>14 DEF KeyIInv

-----------------------------------------------------------------------------
(* The latest key                                                           *)

LEMMA KeyStep ==
  ASSUME KeyIInv, KeyNext
  PROVE  KeyIInv' /\ TableStep
<1>1. CASE CatchUp
  BY <1>1, CatchUpKeeps
<1>2. CASE \E k \in MintedKeys : KeyExpires(k) \/ TtlDeletes(k)
  BY <1>2, TimeKeeps
<1>3. ASSUME NEW c \in Callers,
             \/ GetActive(c) \/ FetchItem(c) \/ Revoke(c) \/ WipeReads(c)
             \/ DeleteItem(c) \/ DeletePointer(c) \/ CallerStops(c)
      PROVE  KeyIInv' /\ TableStep
  BY <1>3, CallerReadsKeep, CallerDeletesKeep
<1>4. ASSUME NEW l \in Launches,
             \/ StartEnsure(l) \/ StatusPointer(l) \/ StatusItem(l) \/ StatusRefused(l)
             \/ \E k \in MintedKeys : MintKey(l, k)
             \/ PutKeyItem(l) \/ PutPointer(l) \/ WriteFile(l) \/ EnsureFails(l)
      PROVE  KeyIInv' /\ TableStep
  BY <1>4, LaunchReadsKeep, MintKeeps, PutItemKeeps, PutPointerKeeps
<1> QED BY <1>1, <1>2, <1>3, <1>4 DEF KeyNext

LEMMA KeyIdle ==
  ASSUME KeyIInv, UNCHANGED keyVars
  PROVE  KeyIInv'
BY DEF KeyIInv, KeyTypeOK, NamedWasSet, SetOnce, CopyIsOlder, WipeIsLate, LatestKeyActive, WasSet,
  Wiping, keyVars

(* The calls of any number of dispatchers, operators and launches keep the  *)
(* invariant, whichever copy of the table each of their reads is given.     *)
THEOREM KeyInvariant == KeySpec => []KeyIInv
<1>1. KeyIInv /\ [KeyNext]_keyVars => KeyIInv'
  BY KeyStep, KeyIdle
<1> QED BY KeyInitial, <1>1, PTL DEF KeySpec

(* The key POST /key/temp set last is lost while live only to a revocation, *)
(* or to a reader that looked up an older key, found it expired and had not *)
(* ended its wipe when the new one was set: that wipe takes whichever key   *)
(* the pointer names (keys_dynamo.py:53).  Any other call of                *)
(* get_active_k_temp leaves a live key in its place.                        *)
THEOREM LatestKeyStays == KeySpec => []LatestKeyActive
<1>1. KeyIInv => LatestKeyActive
  BY DEF KeyIInv
<1> QED BY KeyInvariant, <1>1, PTL

-----------------------------------------------------------------------------
(* Retired keys                                                             *)

LEMMA RetiredStaysSo ==
  ASSUME KeyIInv, TableStep, NEW k \in Retired
  PROVE  k \in Retired'
<1>1. k \in MintedKeys /\ k # NoneKey
  BY KTempAssumption DEF Retired
<1>2. CASE \A v \in Views : ItemDead(v, k)
  BY <1>1, <1>2 DEF Retired, Views, TableStep, ItemDead
<1>3. CASE /\ WasSet(k) /\ \A v \in Views : v.pointer # k
           /\ \A l \in Launches : ~(launch[l].at = "point" /\ launch[l].key = k)
  <2>1. table'.pointer # k /\ copy'.pointer # k
    BY <1>1, <1>3 DEF TableStep, Views
  <2>2. \A l \in Launches : ~(launch'[l].at = "point" /\ launch'[l].key = k)
    BY <1>3 DEF TableStep
  <2>3. table'.item[k] # "unset"
    BY <1>1, <1>3 DEF TableStep
  <2> QED BY <1>1, <2>1, <2>2, <2>3 DEF Retired, Views
<1> QED BY <1>2, <1>3 DEF Retired, ItemDead, WasSet

(* What a launch set aside as retired stays so, what it read of such a key  *)
(* it will find dead, and what it mints is not one of them.                 *)
LaunchClear(l) ==
  /\ launch[l].retired \subseteq Retired
  /\ launch[l].at = "item" /\ launch[l].seen \in launch[l].retired =>
       \A v \in Views : ItemDead(v, launch[l].seen)
  /\ launch[l].at \in {"post", "point", "write"} => launch[l].key \notin launch[l].retired
  /\ sealed[l] \notin launch[l].retired

RetiredIInv == KeyIInv /\ \A l \in Launches : LaunchClear(l)

(* The step leaves this launch as it is.                                    *)
LEMMA OthersStayClear ==
  ASSUME RetiredIInv, TableStep, NEW l \in Launches, launch'[l] = launch[l], sealed'[l] = sealed[l]
  PROVE  LaunchClear(l)'
<1>1. LaunchClear(l) /\ KeyIInv
  BY DEF RetiredIInv
<1>2. launch[l].retired \subseteq Retired'
  BY <1>1, RetiredStaysSo DEF LaunchClear
<1>3. ASSUME launch[l].at = "item", launch[l].seen \in launch[l].retired
      PROVE  \A v \in {table', copy'} : ItemDead(v, launch[l].seen)
  <2>1. launch[l].seen \in MintedKeys
    BY <1>1, <1>3, LaunchOf DEF KeyIInv
  <2>2. ItemDead(table, launch[l].seen) /\ ItemDead(copy, launch[l].seen)
    BY <1>1, <1>3 DEF LaunchClear, Views
  <2> QED BY <2>1, <2>2 DEF TableStep, ItemDead
<1> QED BY <1>1, <1>2, <1>3 DEF LaunchClear, Views, ItemDead

(* The step moves this launch.                                              *)
LEMMA MovedStaysClear ==
  ASSUME RetiredIInv, TableStep, NEW l \in Launches, launch'[l].retired \in {launch[l].retired, Retired},
         launch'[l].at = "item" /\ launch'[l].seen \in launch'[l].retired =>
           launch'[l].seen \in MintedKeys /\ \A v \in Views : ItemDead(v, launch'[l].seen),
         launch'[l].at \in {"post", "point", "write"} => launch'[l].key \notin launch'[l].retired,
         sealed'[l] \notin launch'[l].retired
  PROVE  LaunchClear(l)'
<1>1. LaunchClear(l) /\ KeyIInv
  BY DEF RetiredIInv
<1>2. launch'[l].retired \subseteq Retired'
  BY <1>1, RetiredStaysSo DEF LaunchClear
<1>3. ASSUME launch'[l].at = "item", launch'[l].seen \in launch'[l].retired
      PROVE  \A v \in {table', copy'} : ItemDead(v, launch'[l].seen)
  BY <1>3 DEF TableStep, ItemDead, Views
<1> QED BY <1>2, <1>3 DEF LaunchClear, Views, ItemDead

LEMMA LaunchesStayClear ==
  ASSUME RetiredIInv, TableStep, NEW l \in Launches,
         \/ StartEnsure(l) \/ StatusPointer(l) \/ StatusItem(l) \/ StatusRefused(l)
         \/ \E k \in MintedKeys : MintKey(l, k)
         \/ PutKeyItem(l) \/ PutPointer(l) \/ WriteFile(l) \/ EnsureFails(l)
  PROVE  \A m \in Launches : LaunchClear(m)'
<1> USE KTempAssumption
<1> DEFINE rest == [AtRest EXCEPT !.retired = launch[l].retired]
<1>1. KeyIInv /\ KeyTypeOK /\ LaunchClear(l)
  BY DEF RetiredIInv, KeyIInv
<1>2. launch[l].retired \subseteq Retired /\ launch[l].retired \subseteq MintedKeys /\ Retired \subseteq MintedKeys
  BY <1>1, LaunchOf DEF LaunchClear, Retired
<1>3. rest \in LaunchRow /\ rest.at = "rest" /\ rest.retired = launch[l].retired
  BY <1>1, LaunchRows
<1>4. sealed \in [Launches -> MintedKeys \union {NoneKey}] /\ NoneKey \notin MintedKeys
  BY <1>1 DEF KeyTypeOK
<1> HIDE DEF rest
<1>5. SUFFICES \E r \in LaunchRow :
        /\ launch' = [launch EXCEPT ![l] = r]
        /\ \A m \in Launches \ {l} : sealed'[m] = sealed[m]
        /\ r.retired \in {launch[l].retired, Retired}
        /\ r.at = "item" /\ r.seen \in r.retired =>
             r.seen \in MintedKeys /\ \A v \in Views : ItemDead(v, r.seen)
        /\ r.at \in {"post", "point", "write"} => r.key \notin r.retired
        /\ sealed'[l] \notin r.retired
  <2>1. PICK r \in LaunchRow :
          /\ launch' = [launch EXCEPT ![l] = r]
          /\ \A m \in Launches \ {l} : sealed'[m] = sealed[m]
          /\ r.retired \in {launch[l].retired, Retired}
          /\ r.at = "item" /\ r.seen \in r.retired =>
               r.seen \in MintedKeys /\ \A v \in Views : ItemDead(v, r.seen)
          /\ r.at \in {"post", "point", "write"} => r.key \notin r.retired
          /\ sealed'[l] \notin r.retired
    BY <1>5
  <2>2. launch'[l] = r /\ \A m \in Launches \ {l} : launch'[m] = launch[m]
    BY <1>1, <2>1, LaunchMoves
  <2>3. LaunchClear(l)'
    BY <2>1, <2>2, MovedStaysClear
  <2> QED BY <2>1, <2>2, <2>3, OthersStayClear
<1>6. CASE StartEnsure(l)
  <2> DEFINE k == file[MachineOf[l]]
             r == [at |-> IF k = NoneKey THEN "mint" ELSE "status", key |-> k, seen |-> NoneKey,
                   retired |-> Retired]
  <2>1. r \in LaunchRow /\ r.at \in {"mint", "status"} /\ r.retired = Retired
    BY <1>1, <1>2 DEF LaunchRow, KeyTypeOK
  <2>2. launch' = [launch EXCEPT ![l] = r] /\ sealed' = [sealed EXCEPT ![l] = NoneKey]
    BY <1>6 DEF StartEnsure
  <2>3. sealed'[l] = NoneKey /\ \A m \in Launches \ {l} : sealed'[m] = sealed[m]
    BY <1>4, <2>2
  <2> HIDE DEF r
  <2> QED BY <1>2, <1>4, <2>1, <2>2, <2>3
<1>7. CASE StatusPointer(l)
  <2>1. PICK r \in LaunchRow : /\ launch' = [launch EXCEPT ![l] = r]
                               /\ r.at = "item" /\ r.retired = launch[l].retired
                               /\ \E v \in Views : r.seen = v.pointer
    BY <1>1, <1>7, AskedRow
  <2>2. sealed' = sealed
    BY <1>7 DEF StatusPointer
  <2>3. r.seen \in r.retired => r.seen \in MintedKeys /\ \A v \in Views : ItemDead(v, r.seen)
    BY <1>2, <2>1 DEF Retired, ItemDead
  <2> QED BY <1>1, <2>1, <2>2, <2>3 DEF LaunchClear
<1>8. ASSUME launch' = [launch EXCEPT ![l].at = "mint"], sealed' = sealed
       PROVE  \E r \in LaunchRow :
                /\ launch' = [launch EXCEPT ![l] = r]
                /\ r.retired = launch[l].retired /\ r.at = "mint" /\ sealed'[l] \notin r.retired
  <2> DEFINE r == [launch[l] EXCEPT !.at = "mint"]
  <2>1. r \in LaunchRow /\ r.at = "mint" /\ r.retired = launch[l].retired
        /\ [launch EXCEPT ![l].at = "mint"] = [launch EXCEPT ![l] = r]
    BY <1>1, LaunchRows
  <2> HIDE DEF r
  <2> QED BY <1>1, <1>8, <2>1 DEF LaunchClear
<1>9. CASE StatusRefused(l)
  <2>1. launch' = [launch EXCEPT ![l].at = "mint"] /\ sealed' = sealed
    BY <1>9 DEF StatusRefused
  <2> QED BY <1>8, <2>1
<1>10. CASE StatusItem(l)
  <2>1. PICK v \in Views :
          IF StillActive(l, v)
            THEN /\ sealed' = [sealed EXCEPT ![l] = launch[l].key] /\ launch' = [launch EXCEPT ![l] = rest]
            ELSE /\ launch' = [launch EXCEPT ![l].at = "mint"] /\ sealed' = sealed
    BY <1>10 DEF StatusItem, rest
  <2>2. CASE StillActive(l, v)
    <3>1. sealed'[l] = launch[l].key /\ \A m \in Launches \ {l} : sealed'[m] = sealed[m]
      BY <1>4, <2>1, <2>2
    <3>2. launch[l].key \notin launch[l].retired
      BY <1>1, <1>10, <2>2 DEF StillActive, StatusItem, LaunchClear, ItemDead
    <3> QED BY <1>3, <2>1, <2>2, <3>1, <3>2
  <2>3. CASE ~StillActive(l, v)
    BY <1>8, <2>1, <2>3
  <2> QED BY <2>2, <2>3
<1>11. ASSUME NEW k \in MintedKeys, MintKey(l, k)
      PROVE  \E r \in LaunchRow :
               /\ launch' = [launch EXCEPT ![l] = r] /\ sealed' = sealed
               /\ r.retired = launch[l].retired /\ r.at = "post" /\ r.key \notin r.retired
  <2>1. PICK r \in LaunchRow : /\ launch' = [launch EXCEPT ![l] = r]
                               /\ r.at = "post" /\ r.key = k /\ r.retired = launch[l].retired
    BY <1>1, <1>11, MintedRow
  <2>2. k \notin Retired /\ sealed' = sealed
    BY <1>11 DEF MintKey, Fresh, Retired, Views
  <2> QED BY <1>2, <2>1, <2>2
<1>12. CASE PutKeyItem(l)
  <2> DEFINE r == [launch[l] EXCEPT !.at = "point"]
  <2>1. r \in LaunchRow /\ r.at = "point" /\ r.key = launch[l].key /\ r.retired = launch[l].retired
        /\ [launch EXCEPT ![l].at = "point"] = [launch EXCEPT ![l] = r]
    BY <1>1, LaunchRows
  <2>2. launch' = [launch EXCEPT ![l] = r] /\ sealed' = sealed /\ launch[l].at = "post"
    BY <1>12, <2>1 DEF PutKeyItem
  <2> HIDE DEF r
  <2> QED BY <1>1, <2>1, <2>2 DEF LaunchClear
<1>13. CASE PutPointer(l)
  <2> DEFINE r == [launch[l] EXCEPT !.at = "write"]
  <2>1. r \in LaunchRow /\ r.at = "write" /\ r.key = launch[l].key /\ r.retired = launch[l].retired
        /\ [launch EXCEPT ![l].at = "write"] = [launch EXCEPT ![l] = r]
    BY <1>1, LaunchRows
  <2>2. launch' = [launch EXCEPT ![l] = r] /\ sealed' = sealed /\ launch[l].at = "point"
    BY <1>13, <2>1 DEF PutPointer
  <2> HIDE DEF r
  <2> QED BY <1>1, <2>1, <2>2 DEF LaunchClear
<1>14. CASE WriteFile(l)
  <2>1. /\ launch' = [launch EXCEPT ![l] = rest] /\ launch[l].at = "write"
        /\ sealed' = [sealed EXCEPT ![l] = launch[l].key]
    BY <1>14 DEF WriteFile, rest
  <2>2. sealed'[l] = launch[l].key /\ \A m \in Launches \ {l} : sealed'[m] = sealed[m]
    BY <1>4, <2>1
  <2> QED BY <1>1, <1>3, <2>1, <2>2 DEF LaunchClear
<1>15. CASE EnsureFails(l)
  <2>1. launch' = [launch EXCEPT ![l] = rest] /\ sealed' = sealed
    BY <1>15 DEF EnsureFails, rest
  <2> QED BY <1>1, <1>3, <2>1 DEF LaunchClear
<1>16. CASE \E k \in MintedKeys : MintKey(l, k)
  BY <1>1, <1>11, <1>16 DEF LaunchClear
<1> QED BY <1>6, <1>7, <1>9, <1>10, <1>12, <1>13, <1>14, <1>15, <1>16

LEMMA StayClear ==
  ASSUME RetiredIInv, KeyNext
  PROVE  RetiredIInv'
<1>1. KeyIInv' /\ TableStep
  BY KeyStep DEF RetiredIInv
<1>2. CASE \/ CatchUp
           \/ \E k \in MintedKeys : KeyExpires(k) \/ TtlDeletes(k)
           \/ \E c \in Callers :
                \/ GetActive(c) \/ FetchItem(c) \/ Revoke(c) \/ WipeReads(c)
                \/ DeleteItem(c) \/ DeletePointer(c) \/ CallerStops(c)
  <2>1. launch' = launch /\ sealed' = sealed
    BY <1>2 DEF CatchUp, KeyExpires, TtlDeletes, GetActive, FetchItem, Revoke, WipeReads, DeleteItem,
      DeletePointer, CallerStops
  <2> QED BY <1>1, <2>1, OthersStayClear DEF RetiredIInv
<1>3. CASE \E l \in Launches :
             \/ StartEnsure(l) \/ StatusPointer(l) \/ StatusItem(l) \/ StatusRefused(l)
             \/ \E k \in MintedKeys : MintKey(l, k)
             \/ PutKeyItem(l) \/ PutPointer(l) \/ WriteFile(l) \/ EnsureFails(l)
  BY <1>1, <1>3, LaunchesStayClear DEF RetiredIInv
<1> QED BY <1>2, <1>3 DEF KeyNext

(* _ensure_k_temp seals with no key that had been replaced, wiped or set    *)
(* aside before it asked, whatever other launches do to the file meanwhile. *)
THEOREM RetiredKeysUnused == KeySpec => []NoRetiredKey
<1>1. KeyInit => RetiredIInv
  BY KeyInitial DEF KeyInit, RetiredIInv, LaunchClear, AtRest
<1>2. RetiredIInv /\ UNCHANGED keyVars => RetiredIInv'
  <2> SUFFICES ASSUME RetiredIInv, UNCHANGED keyVars PROVE RetiredIInv'
    OBVIOUS
  <2>1. KeyIInv'
    BY KeyIdle DEF RetiredIInv
  <2>2. Retired' = Retired
    BY DEF Retired, Views, keyVars
  <2> QED BY <2>1, <2>2 DEF RetiredIInv, LaunchClear, Views, ItemDead, keyVars
<1>3. RetiredIInv /\ [KeyNext]_keyVars => RetiredIInv'
  BY <1>2, StayClear
<1>4. RetiredIInv => NoRetiredKey
  BY DEF RetiredIInv, LaunchClear, NoRetiredKey
<1> QED BY <1>1, <1>3, <1>4, PTL DEF KeySpec

-----------------------------------------------------------------------------
(* The handshake                                                            *)

USE DEF Roles, Keys, Peer

Issuance ==
  /\ wipe.at # "none" => wipe.role \in Roles
  /\ \A p \in Posts :
       /\ post[p].at # "none" => post[p].role \in Roles
       /\ post[p].at = "reply" => post[p].bearer \in Bearers /\ session[post[p].bearer].role = post[p].role
  /\ \A r \in Roles : bearerFile[r] # 0 => session[bearerFile[r]].role = r /\ ownKey[r] # 0

(* A bearer without a key that has not escaped is one the DELETE will come to. *)
Revocation ==
  /\ wipe.todo \subseteq disturbed
  /\ \A b \in Bearers : session[b].live =>
       /\ session[b].role \in Roles
       /\ pubkey[session[b].role] = 0 /\ b \notin missed =>
            wipe.role = session[b].role /\ (wipe.at = "scan" \/ b \in wipe.todo)

OnePair ==
  /\ \A r \in Roles : /\ pubkey[r] \in {0, ownKey[r]} /\ peerKey[r] \in {0, ownKey[Peer(r)]}
                      /\ script[r].at = "post" => ownKey[r] # 0
  /\ \A p \in Posts : post[p].at # "none" => post[p].key # 0 /\ post[p].key = ownKey[post[p].role]
  /\ keyRead \in {0, ownKey["operator"]}
  /\ \A e \in envelopes : \A r \in Roles : e[r] # 0 /\ e[r] = ownKey[r]

Registration ==
  /\ \A p \in Posts :
       /\ post[p].at = "session" /\ ~post[p].wiped => pubkey[post[p].role] = ownKey[post[p].role]
       /\ post[p].at = "reply" /\ post[p].bearer \notin disturbed =>
            session[post[p].bearer].live /\ pubkey[post[p].role] = ownKey[post[p].role]
  /\ \A r \in Roles : bearerFile[r] # 0 /\ bearerFile[r] \notin disturbed =>
       session[bearerFile[r]].live /\ pubkey[r] = ownKey[r]

HandIInv == HandTypeOK /\ Issuance /\ Revocation /\ OnePair /\ Registration

LEMMA HandInitial ==
  ASSUME HandInit
  PROVE  HandIInv
BY HandshakeAssumption
DEF HandInit, HandIInv, HandTypeOK, Issuance, Revocation, OnePair, Registration,
    NoPost, NoWipe, PostRow, WipeRow, ScriptRow, SessionRow

-----------------------------------------------------------------------------
(* The script                                                               *)

LEMMA StartKeeps ==
  ASSUME HandIInv, NEW r \in Roles, StartScript(r)
  PROVE  HandIInv'
<1>1. /\ UNCHANGED <<cloudVars, post, peerKey, bearerFile, sealVars, disturbed>>
      /\ ownKey' = [ownKey EXCEPT ![r] = OwnPair(@)]
      /\ script' = [script EXCEPT ![r].at = "post"]
  BY DEF StartScript
<1>2. /\ ownKey' \in [Roles -> Keys] /\ ownKey'[r] # 0
      /\ \A x \in Roles : ownKey[x] # 0 => ownKey'[x] = ownKey[x]
  BY <1>1 DEF OwnPair, HandIInv, HandTypeOK
<1>3. /\ script' \in [Roles -> ScriptRow]
      /\ \A x \in Roles : x # r => script'[x] = script[x]
  BY <1>1 DEF HandIInv, HandTypeOK, ScriptRow
<1>4. HandTypeOK'
  BY <1>1, <1>2, <1>3 DEF HandIInv, HandTypeOK, cloudVars, sealVars
<1>5. Issuance' /\ Revocation'
  BY <1>1, <1>2 DEF HandIInv, Issuance, Revocation, cloudVars
<1>6. OnePair'
  <2>1. \A x \in Roles : /\ pubkey[x] \in {0, ownKey'[x]} /\ peerKey[x] \in {0, ownKey'[Peer(x)]}
                         /\ script'[x].at = "post" => ownKey'[x] # 0
    BY <1>2, <1>3 DEF HandIInv, OnePair
  <2>2. \A p \in Posts : post[p].at # "none" => post[p].key # 0 /\ post[p].key = ownKey'[post[p].role]
    BY <1>2 DEF HandIInv, OnePair, Issuance
  <2>3. keyRead \in {0, ownKey'["operator"]}
    BY <1>2 DEF HandIInv, OnePair
  <2>4. \A e \in envelopes : \A x \in Roles : e[x] # 0 /\ e[x] = ownKey'[x]
    BY <1>2 DEF HandIInv, OnePair
  <2> QED BY <1>1, <2>1, <2>2, <2>3, <2>4 DEF OnePair, cloudVars, sealVars
<1>7. Registration'
  <2>1. \A p \in Posts : post[p].at # "none" => ownKey'[post[p].role] = ownKey[post[p].role]
    BY <1>2 DEF HandIInv, OnePair, Issuance
  <2>2. \A x \in Roles : bearerFile[x] # 0 => ownKey'[x] = ownKey[x]
    BY <1>2 DEF HandIInv, Issuance
  <2> QED BY <1>1, <2>1, <2>2 DEF HandIInv, Registration, cloudVars
<1> QED BY <1>4, <1>5, <1>6, <1>7 DEF HandIInv

LEMMA SendKeeps ==
  ASSUME HandIInv, NEW r \in Roles, NEW p \in Posts, SendPost(r, p)
  PROVE  HandIInv'
<1>1. UNCHANGED <<cloudVars, terminalVars, sealVars, disturbed>>
  BY DEF SendPost
<1>2. /\ post'[p] = [role |-> r, key |-> ownKey[r], at |-> "check", bearer |-> 0, wiped |-> FALSE]
      /\ \A q \in Posts : q # p => post'[q] = post[q]
      /\ post' \in [Posts -> PostRow]
  BY DEF SendPost, NoPost, HandIInv, HandTypeOK, PostRow
<1>3. /\ script' \in [Roles -> ScriptRow]
      /\ \A x \in Roles : script'[x].at = "post" => script[x].at = "post"
      /\ script[r].at = "post"
  BY DEF SendPost, HandIInv, HandTypeOK, ScriptRow
<1>4. HandTypeOK'
  BY <1>1, <1>2, <1>3 DEF HandIInv, HandTypeOK, cloudVars, sealVars, terminalVars
<1>5. Issuance' /\ Revocation'
  BY <1>1, <1>2 DEF HandIInv, Issuance, Revocation, cloudVars, terminalVars
<1>6. OnePair'
  BY <1>1, <1>2, <1>3 DEF HandIInv, OnePair, cloudVars, sealVars, terminalVars
<1>7. Registration'
  BY <1>1, <1>2 DEF HandIInv, Registration, cloudVars, terminalVars
<1> QED BY <1>4, <1>5, <1>6, <1>7 DEF HandIInv

(* Stopping, and taking the other terminal's key.                           *)
LEMMA EndScriptKeeps ==
  ASSUME HandIInv, NEW r \in Roles, StopScript(r) \/ StorePeer(r)
  PROVE  HandIInv'
<1>1. /\ UNCHANGED <<pubkey, session, wipe, wipes, missed, post, ownKey, bearerFile, sealVars, disturbed>>
      /\ script' = [script EXCEPT ![r] = [at |-> "none", post |-> 0]]
      /\ upsets' \in 0..MaxUpsets
      /\ peerKey' = peerKey \/ peerKey' = [peerKey EXCEPT ![r] = ownKey[Peer(r)]]
  BY HandshakeAssumption DEF StopScript, StorePeer, Upset, cloudVars, terminalVars, HandIInv, HandTypeOK
<1>2. /\ script' \in [Roles -> ScriptRow]
      /\ \A x \in Roles : script'[x].at = "post" => script[x].at = "post"
  BY <1>1 DEF HandIInv, HandTypeOK, ScriptRow
<1>3. /\ peerKey' \in [Roles -> Keys]
      /\ \A x \in Roles : peerKey'[x] \in {0, ownKey[Peer(x)]}
  BY <1>1 DEF HandIInv, HandTypeOK, OnePair
<1>4. HandTypeOK'
  BY <1>1, <1>2, <1>3 DEF HandIInv, HandTypeOK, sealVars
<1>5. Issuance' /\ Revocation' /\ Registration'
  BY <1>1 DEF HandIInv, Issuance, Revocation, Registration
<1>6. OnePair'
  BY <1>1, <1>2, <1>3 DEF HandIInv, OnePair, sealVars
<1> QED BY <1>4, <1>5, <1>6 DEF HandIInv

-----------------------------------------------------------------------------
(* The handler of POST                                                      *)

(* Only a script that waits goes on, and no further than the peer's key.    *)
LEMMA ResumeType ==
  ASSUME HandTypeOK, NEW p \in Posts, NEW to \in {"none", "peer"}, script' = Resume(p, to)
  PROVE  /\ script' \in [Roles -> ScriptRow]
         /\ \A x \in Roles : script'[x].at = "post" => script[x].at = "post"
<1>1. post[p].role \in Roles \/ post[p].role = "none"
  BY DEF HandTypeOK, PostRow
<1>2. [at |-> to, post |-> 0] \in ScriptRow
  BY DEF ScriptRow
<1> QED BY <1>1, <1>2 DEF Resume, HandTypeOK

(* A request that is refused, fails or is answered is gone.                 *)
LEMMA PostEnds ==
  ASSUME HandIInv, NEW p \in Posts, NEW to \in {"none", "peer"},
         script' = Resume(p, to), post' = [post EXCEPT ![p] = NoPost],
         upsets' \in 0..MaxUpsets,
         UNCHANGED <<pubkey, session, wipe, wipes, missed, ownKey, peerKey, sealVars, disturbed>>,
         bearerFile' = bearerFile \/ /\ post[p].at = "reply"
                                     /\ bearerFile' = [bearerFile EXCEPT ![post[p].role] = post[p].bearer]
  PROVE  HandIInv'
<1>1. /\ script' \in [Roles -> ScriptRow]
      /\ \A x \in Roles : script'[x].at = "post" => script[x].at = "post"
  BY ResumeType DEF HandIInv
<1>2. /\ post'[p].at = "none" /\ \A q \in Posts : q # p => post'[q] = post[q]
      /\ post' \in [Posts -> PostRow]
  BY DEF NoPost, PostRow, HandIInv, HandTypeOK
<1>3. /\ bearerFile' \in [Roles -> Bearers \union {0}]
      /\ \A r \in Roles : \/ bearerFile'[r] = bearerFile[r]
                          \/ post[p].at = "reply" /\ post[p].role = r /\ bearerFile'[r] = post[p].bearer
  BY DEF HandIInv, HandTypeOK, PostRow
<1>4. HandTypeOK'
  BY <1>1, <1>2, <1>3 DEF HandIInv, HandTypeOK, sealVars
<1>5. Issuance'
  <2>1. post[p].at = "reply" => ownKey[post[p].role] # 0 /\ session[post[p].bearer].role = post[p].role
    BY DEF HandIInv, OnePair, Issuance
  <2> QED BY <1>2, <1>3, <2>1 DEF HandIInv, Issuance
<1>6. Revocation'
  BY DEF HandIInv, Revocation
<1>7. OnePair'
  BY <1>1, <1>2 DEF HandIInv, OnePair, sealVars
<1>8. Registration'
  BY <1>2, <1>3 DEF HandIInv, Registration
<1> QED BY <1>4, <1>5, <1>6, <1>7, <1>8 DEF HandIInv

LEMMA EndPostKeeps ==
  ASSUME HandIInv, NEW p \in Posts, ReplyBearer(p) \/ PostFails(p)
  PROVE  HandIInv'
<1>1. CASE ReplyBearer(p)
  BY <1>1, PostEnds, HandshakeAssumption DEF ReplyBearer, cloudVars, HandIInv, HandTypeOK
<1>2. CASE PostFails(p)
  <2>1. upsets' \in 0..MaxUpsets
    BY <1>2, HandshakeAssumption DEF PostFails, Upset, HandIInv, HandTypeOK
  <2> QED BY <1>2, <2>1, PostEnds DEF PostFails, terminalVars
<1> QED BY <1>1, <1>2

LEMMA CheckKeeps ==
  ASSUME HandIInv, NEW p \in Posts, CheckRole(p)
  PROVE  HandIInv'
<1>1. UNCHANGED <<cloudVars, terminalVars, sealVars, disturbed>>
  BY DEF CheckRole
<1>2. CASE post' = [post EXCEPT ![p].at = "key"] /\ UNCHANGED script
  <2>1. /\ post' \in [Posts -> PostRow]
        /\ post'[p].at = "key" /\ post'[p].role = post[p].role /\ post'[p].key = post[p].key
        /\ \A q \in Posts : q # p => post'[q] = post[q]
        /\ post[p].at = "check"
    BY <1>2 DEF CheckRole, HandIInv, HandTypeOK, PostRow
  <2>2. HandTypeOK'
    BY <1>1, <1>2, <2>1 DEF HandIInv, HandTypeOK, cloudVars, terminalVars, sealVars
  <2>3. Issuance' /\ Revocation' /\ OnePair'
    BY <1>1, <1>2, <2>1 DEF HandIInv, Issuance, Revocation, OnePair, cloudVars, terminalVars, sealVars
  <2>4. Registration'
    BY <1>1, <2>1 DEF HandIInv, Registration, cloudVars, terminalVars
  <2> QED BY <2>2, <2>3, <2>4 DEF HandIInv
<1>3. CASE script' = Resume(p, "none") /\ post' = [post EXCEPT ![p] = NoPost]
  BY <1>1, <1>3, PostEnds DEF cloudVars, terminalVars, HandIInv, HandTypeOK
<1> QED BY <1>2, <1>3 DEF CheckRole

LEMMA PutPubkeyKeeps ==
  ASSUME HandIInv, NEW p \in Posts, PutPubkey(p)
  PROVE  HandIInv'
<1>1. /\ UNCHANGED <<session, wipe, wipes, upsets, missed, terminalVars, script, sealVars, disturbed>>
      /\ post[p].at = "key"
  BY DEF PutPubkey
<1>2. /\ post' \in [Posts -> PostRow]
      /\ post'[p].at = "session" /\ post'[p].role = post[p].role /\ post'[p].key = post[p].key
      /\ \A q \in Posts : q # p => post'[q] = post[q]
  BY DEF PutPubkey, HandIInv, HandTypeOK, PostRow
<1>3. post[p].role \in Roles /\ post[p].key = ownKey[post[p].role] /\ post[p].key \in Keys \ {0}
  BY <1>1 DEF HandIInv, HandTypeOK, PostRow, Issuance, OnePair
<1>4. /\ pubkey' \in [Roles -> Keys]
      /\ pubkey'[post[p].role] = ownKey[post[p].role]
      /\ \A x \in Roles : pubkey'[x] = pubkey[x] \/ pubkey'[x] = ownKey[x]
      /\ \A x \in Roles : pubkey'[x] = 0 => pubkey[x] = 0
  BY <1>3 DEF PutPubkey, HandIInv, HandTypeOK
<1>5. HandTypeOK'
  BY <1>1, <1>2, <1>4 DEF HandIInv, HandTypeOK, terminalVars, sealVars
<1>6. Issuance' /\ Revocation'
  <2>1. Issuance'
    BY <1>1, <1>2 DEF HandIInv, Issuance, terminalVars
  <2>2. Revocation'
    BY <1>1, <1>4 DEF HandIInv, Revocation
  <2> QED BY <2>1, <2>2
<1>7. OnePair'
  BY <1>1, <1>2, <1>4 DEF HandIInv, OnePair, terminalVars, sealVars
<1>8. Registration'
  BY <1>1, <1>2, <1>4 DEF HandIInv, Registration, Issuance, terminalVars
<1> QED BY <1>5, <1>6, <1>7, <1>8 DEF HandIInv

(* A bearer that is issued is new: in no file, no answer, no revocation.    *)
LEMMA PutSessionKeeps ==
  ASSUME HandIInv, NEW p \in Posts, PutSession(p)
  PROVE  HandIInv'
<1>1. PICK b \in Unissued :
        /\ session' = [session EXCEPT ![b] = [role |-> post[p].role, live |-> TRUE]]
        /\ post' = [post EXCEPT ![p].at = "reply", ![p].bearer = b]
        /\ disturbed' = IF post[p].wiped THEN disturbed \union {b} ELSE disturbed
        /\ missed' = IF WrittenBehind(post[p].role) THEN missed \union {b} ELSE missed
  BY DEF PutSession
<1>2. /\ UNCHANGED <<pubkey, wipe, wipes, upsets, terminalVars, script, sealVars>>
      /\ post[p].at = "session"
  BY DEF PutSession
<1>3. b \in Bearers /\ session[b].role = "none" /\ post[p].role \in Roles
  BY <1>2 DEF Unissued, HandIInv, Issuance
<1>4. /\ session'[b].role = post[p].role /\ session'[b].live
      /\ \A c \in Bearers : c # b => session'[c] = session[c]
      /\ session' \in [Bearers -> SessionRow]
  BY <1>1, <1>3 DEF HandIInv, HandTypeOK, SessionRow
<1>5. /\ post'[p].at = "reply" /\ post'[p].bearer = b /\ post'[p].role = post[p].role
      /\ post'[p].key = post[p].key
      /\ \A q \in Posts : q # p => post'[q] = post[q]
      /\ post' \in [Posts -> PostRow]
  <2> DEFINE row == [post[p] EXCEPT !.at = "reply", !.bearer = b]
  <2>1. post[p] \in PostRow /\ post' = [post EXCEPT ![p] = row]
    BY <1>1 DEF HandIInv, HandTypeOK
  <2>2. /\ row \in PostRow /\ row.at = "reply" /\ row.bearer = b
        /\ row.role = post[p].role /\ row.key = post[p].key
    BY <1>3, <2>1 DEF PostRow
  <2> HIDE DEF row
  <2> QED BY <2>1, <2>2 DEF HandIInv, HandTypeOK
<1>6. HandTypeOK'
  BY <1>1, <1>2, <1>3, <1>4, <1>5 DEF HandIInv, HandTypeOK, terminalVars, sealVars
<1>7. /\ \A r \in Roles : bearerFile[r] # 0 => bearerFile[r] \in Bearers /\ bearerFile[r] # b
      /\ \A q \in Posts : post[q].at = "reply" => post[q].bearer \in Bearers /\ post[q].bearer # b
  <2>1. \A r \in Roles : bearerFile[r] # 0 => bearerFile[r] \in Bearers /\ bearerFile[r] # b
    BY <1>3 DEF HandIInv, HandTypeOK, Issuance
  <2>2. \A q \in Posts : post[q].at = "reply" => post[q].bearer \in Bearers /\ post[q].bearer # b
    BY <1>3 DEF HandIInv, Issuance
  <2> QED BY <2>1, <2>2
<1>8. Issuance'
  BY <1>2, <1>3, <1>4, <1>5, <1>7 DEF HandIInv, Issuance, terminalVars
<1>9. Revocation'
  <2>1. wipe'.todo \subseteq disturbed'
    BY <1>1, <1>2 DEF HandIInv, Revocation
  <2>2. missed \subseteq missed' /\ UNCHANGED <<pubkey, wipe>>
    BY <1>1, <1>2
  <2>3. pubkey[post[p].role] = 0 /\ b \notin missed' => wipe.role = post[p].role /\ wipe.at = "scan"
    BY <1>1 DEF WrittenBehind
  <2>4. ASSUME NEW c \in Bearers, session'[c].live
        PROVE  /\ session'[c].role \in Roles
               /\ pubkey'[session'[c].role] = 0 /\ c \notin missed' =>
                    wipe'.role = session'[c].role /\ (wipe'.at = "scan" \/ c \in wipe'.todo)
    <3>1. CASE c = b
      BY <1>3, <1>4, <2>2, <2>3, <3>1
    <3>2. CASE c # b
      BY <1>4, <2>2, <2>4, <3>2 DEF HandIInv, Revocation
    <3> QED BY <3>1, <3>2
  <2> QED BY <2>1, <2>4 DEF Revocation
<1>10. OnePair'
  BY <1>2, <1>5 DEF HandIInv, OnePair, terminalVars, sealVars
<1>11. Registration'
  BY <1>1, <1>2, <1>4, <1>5, <1>7 DEF HandIInv, Registration, terminalVars
<1> QED BY <1>6, <1>8, <1>9, <1>10, <1>11 DEF HandIInv

-----------------------------------------------------------------------------
(* The handler of DELETE                                                    *)

(* Both of its first steps mark what there is of the role: bearers issued,  *)
(* and requests under way.                                                  *)
LEMMA Marked ==
  ASSUME HandIInv, NEW r \in Roles,
         disturbed' = disturbed \union Issued(r),
         post' = [p \in Posts |-> IF post[p].role = r THEN [post[p] EXCEPT !.wiped = TRUE] ELSE post[p]]
  PROVE  /\ disturbed' \subseteq Bearers /\ disturbed \subseteq disturbed'
         /\ post' \in [Posts -> PostRow]
         /\ \A p \in Posts : /\ post'[p].at = post[p].at /\ post'[p].role = post[p].role
                             /\ post'[p].key = post[p].key /\ post'[p].bearer = post[p].bearer
                             /\ post'[p].wiped = IF post[p].role = r THEN TRUE ELSE post[p].wiped
<1>1. disturbed' \subseteq Bearers
  BY DEF HandIInv, HandTypeOK, Issued
<1>2. ASSUME NEW p \in Posts
      PROVE  /\ post'[p] \in PostRow
             /\ post'[p].at = post[p].at /\ post'[p].role = post[p].role
             /\ post'[p].key = post[p].key /\ post'[p].bearer = post[p].bearer
             /\ post'[p].wiped = IF post[p].role = r THEN TRUE ELSE post[p].wiped
  <2>1. post[p] \in PostRow
    BY DEF HandIInv, HandTypeOK
  <2> QED BY <2>1 DEF PostRow
<1> QED BY <1>1, <1>2

LEMMA MarkedIssuance ==
  ASSUME Issuance, UNCHANGED <<session, ownKey, bearerFile>>, wipe'.role \in Roles,
         \A p \in Posts : post'[p].at = post[p].at /\ post'[p].role = post[p].role
                         /\ post'[p].bearer = post[p].bearer
  PROVE  Issuance'
<1>1. \A p \in Posts :
        /\ post'[p].at # "none" => post'[p].role \in Roles
        /\ post'[p].at = "reply" => post'[p].bearer \in Bearers /\ session'[post'[p].bearer].role = post'[p].role
  BY DEF Issuance
<1>2. \A r \in Roles : bearerFile'[r] # 0 => session'[bearerFile'[r]].role = r /\ ownKey'[r] # 0
  BY DEF Issuance
<1> QED BY <1>1, <1>2 DEF Issuance

LEMMA DeleteKeeps ==
  ASSUME HandIInv, NEW r \in Roles, DeletePubkey(r)
  PROVE  HandIInv'
<1>1. /\ UNCHANGED <<session, upsets, terminalVars, script, sealVars, missed>>
      /\ wipes' \in 0..MaxWipes
      /\ wipe' = [role |-> r, at |-> "scan", todo |-> {}]
      /\ pubkey' = [pubkey EXCEPT ![r] = 0]
  <2>1. wipe' = [role |-> r, at |-> "scan", todo |-> {}]
    BY DEF DeletePubkey, NoWipe
  <2>2. wipes' \in 0..MaxWipes
    BY HandshakeAssumption DEF DeletePubkey, HandIInv, HandTypeOK
  <2> QED BY <2>1, <2>2 DEF DeletePubkey
<1>2. /\ disturbed' \subseteq Bearers /\ disturbed \subseteq disturbed' /\ Issued(r) \subseteq disturbed'
      /\ post' \in [Posts -> PostRow]
      /\ \A p \in Posts : /\ post'[p].at = post[p].at /\ post'[p].role = post[p].role
                          /\ post'[p].key = post[p].key /\ post'[p].bearer = post[p].bearer
                          /\ post'[p].wiped = IF post[p].role = r THEN TRUE ELSE post[p].wiped
  BY Marked DEF DeletePubkey
<1>3. /\ pubkey' \in [Roles -> Keys] /\ pubkey'[r] = 0
      /\ \A x \in Roles : x # r => pubkey'[x] = pubkey[x]
  BY <1>1 DEF HandIInv, HandTypeOK
<1>4. HandTypeOK'
  BY <1>1, <1>2, <1>3 DEF HandIInv, HandTypeOK, WipeRow, terminalVars, sealVars
<1>5. Issuance'
  <2>1. wipe'.role \in Roles
    BY <1>1
  <2> QED BY <1>1, <1>2, <2>1, MarkedIssuance DEF HandIInv, terminalVars
<1>8. Revocation'
  <2>1. wipe'.todo = {} /\ wipe'.role = r /\ wipe'.at = "scan" /\ UNCHANGED <<session, missed>>
    BY <1>1
  <2>2. wipe.role \notin Roles
    BY DEF DeletePubkey, NoWipe
  <2>3. ASSUME NEW b \in Bearers, session[b].live
        PROVE  /\ session[b].role \in Roles
               /\ pubkey'[session[b].role] = 0 /\ b \notin missed => session[b].role = r
    BY <1>3, <2>2, <2>3 DEF HandIInv, Revocation
  <2> QED BY <2>1, <2>3 DEF Revocation
<1>6. OnePair'
  <2>1. UNCHANGED <<ownKey, peerKey, script, keyRead, envelopes>>
    BY <1>1 DEF terminalVars, sealVars
  <2>2. \A x \in Roles : pubkey'[x] \in {0, ownKey[x]}
    BY <1>3 DEF HandIInv, OnePair
  <2>3. \A p \in Posts : post'[p].at # "none" => post'[p].key # 0 /\ post'[p].key = ownKey[post'[p].role]
    BY <1>2 DEF HandIInv, OnePair
  <2> QED BY <2>1, <2>2, <2>3 DEF HandIInv, OnePair
<1>7. Registration'
  <2>1. \A p \in Posts : post[p].at = "reply" /\ post[p].role = r => post[p].bearer \in disturbed'
    BY <1>2 DEF HandIInv, Issuance, Issued
  <2>2. bearerFile[r] # 0 => bearerFile[r] \in disturbed'
    BY <1>2 DEF HandIInv, HandTypeOK, Issuance, Issued
  <2>3. \A p \in Posts : post[p].at # "none" => post[p].role \in Roles
    BY DEF HandIInv, Issuance
  <2>4. ASSUME NEW p \in Posts
        PROVE  /\ post'[p].at = "session" /\ ~post'[p].wiped => pubkey'[post'[p].role] = ownKey'[post'[p].role]
               /\ post'[p].at = "reply" /\ post'[p].bearer \notin disturbed' =>
                    session'[post'[p].bearer].live /\ pubkey'[post'[p].role] = ownKey'[post'[p].role]
    <3>1. CASE post[p].role = r
      BY <1>2, <2>1, <3>1
    <3>2. CASE post[p].role # r
      <4>1. post'[p].wiped = post[p].wiped
        BY <1>2, <3>2
      <4>2. post[p].at # "none" => pubkey'[post[p].role] = pubkey[post[p].role]
        BY <1>3, <2>3, <3>2
      <4> QED BY <1>1, <1>2, <4>1, <4>2 DEF HandIInv, Registration, terminalVars
    <3> QED BY <3>1, <3>2
  <2>5. \A x \in Roles : bearerFile'[x] # 0 /\ bearerFile'[x] \notin disturbed' =>
          session'[bearerFile'[x]].live /\ pubkey'[x] = ownKey'[x]
    BY <1>1, <1>2, <1>3, <2>2 DEF HandIInv, Registration, terminalVars
  <2> QED BY <2>4, <2>5 DEF Registration
<1> QED BY <1>4, <1>5, <1>6, <1>7, <1>8 DEF HandIInv

LEMMA ScanKeeps ==
  ASSUME HandIInv, ScanSessions
  PROVE  HandIInv'
<1> DEFINE r == wipe.role
<1>1. r \in Roles
  BY DEF ScanSessions, HandIInv, Issuance
<1>2. UNCHANGED <<pubkey, session, wipes, upsets, terminalVars, script, sealVars>>
  BY DEF ScanSessions
<1>3. PICK page \in SUBSET OfActor(r) :
        /\ wipe' = [role |-> r, at |-> "revoke", todo |-> page]
        /\ missed' = missed \union (OfActor(r) \ page)
  BY DEF ScanSessions, HandIInv, HandTypeOK, WipeRow
<1>4. /\ disturbed' \subseteq Bearers /\ disturbed \subseteq disturbed' /\ Issued(r) \subseteq disturbed'
      /\ post' \in [Posts -> PostRow]
      /\ \A p \in Posts : /\ post'[p].at = post[p].at /\ post'[p].role = post[p].role
                          /\ post'[p].key = post[p].key /\ post'[p].bearer = post[p].bearer
                          /\ post'[p].wiped = IF post[p].role = r THEN TRUE ELSE post[p].wiped
  BY <1>1, Marked DEF ScanSessions
<1>5. /\ Issued(r) \subseteq Bearers /\ OfActor(r) \subseteq Issued(r)
      /\ \A b \in Bearers : session[b].live /\ session[b].role = r => b \in OfActor(r)
  BY <1>1 DEF Issued, OfActor, LiveSessions, Accepted
<1>6. HandTypeOK'
  BY <1>1, <1>2, <1>3, <1>4, <1>5 DEF HandIInv, HandTypeOK, WipeRow, terminalVars, sealVars
<1>7. Issuance'
  <2>1. wipe'.role \in Roles
    BY <1>1, <1>3
  <2> QED BY <1>2, <1>4, <2>1, MarkedIssuance DEF HandIInv, terminalVars
<1>8. Revocation'
  <2>1. wipe'.todo = page /\ page \subseteq disturbed' /\ wipe'.role = r
    BY <1>3, <1>4, <1>5
  <2>2. ASSUME NEW b \in Bearers, session[b].live
        PROVE  /\ session[b].role \in Roles
               /\ pubkey[session[b].role] = 0 /\ b \notin missed' => session[b].role = r /\ b \in page
    <3>1. CASE session[b].role = r
      BY <1>1, <1>3, <1>5, <2>2, <3>1
    <3>2. CASE session[b].role # r
      BY <1>3, <2>2, <3>2 DEF HandIInv, Revocation
    <3> QED BY <3>1, <3>2
  <2> QED BY <1>2, <2>1, <2>2 DEF Revocation
<1>9. OnePair'
  BY <1>2, <1>4 DEF HandIInv, OnePair, terminalVars, sealVars
<1>10. Registration'
  BY <1>2, <1>4 DEF HandIInv, Registration, terminalVars
<1> QED BY <1>6, <1>7, <1>8, <1>9, <1>10 DEF HandIInv

LEMMA RevokeKeeps ==
  ASSUME HandIInv, RevokeSession
  PROVE  HandIInv'
<1>1. UNCHANGED <<pubkey, post, wipes, upsets, terminalVars, script, sealVars, missed, disturbed>>
  BY DEF RevokeSession
<1>2. wipe \in WipeRow /\ wipe.at = "revoke"
  BY DEF RevokeSession, HandIInv, HandTypeOK
<1>3. CASE wipe.todo = {}
  <2>1. wipe' = NoWipe /\ UNCHANGED session
    BY <1>3 DEF RevokeSession, AllDone
  <2>2. HandTypeOK'
    BY <1>1, <1>2, <2>1 DEF HandIInv, HandTypeOK, WipeRow, NoWipe, terminalVars, sealVars
  <2>3. Issuance' /\ Revocation'
    BY <1>1, <1>2, <1>3, <2>1 DEF HandIInv, Issuance, Revocation, NoWipe, terminalVars
  <2>4. OnePair' /\ Registration'
    BY <1>1, <2>1 DEF HandIInv, OnePair, Registration, terminalVars, sealVars
  <2> QED BY <2>2, <2>3, <2>4 DEF HandIInv
<1>4. CASE wipe.todo # {}
  <2>1. PICK b \in wipe.todo : /\ session' = [session EXCEPT ![b].live = FALSE]
                               /\ wipe' = [wipe EXCEPT !.todo = @ \ {b}]
    BY <1>4 DEF RevokeSession, AllDone
  <2>2. b \in Bearers /\ b \in disturbed
    BY <1>2 DEF HandIInv, Revocation, WipeRow
  <2>3. /\ session' \in [Bearers -> SessionRow]
        /\ ~session'[b].live /\ \A c \in Bearers : session'[c].role = session[c].role
        /\ \A c \in Bearers : c # b => session'[c] = session[c]
    BY <2>1, <2>2 DEF HandIInv, HandTypeOK, SessionRow
  <2>4. /\ wipe' \in WipeRow /\ wipe'.at = wipe.at /\ wipe'.role = wipe.role
        /\ wipe'.todo = wipe.todo \ {b}
    BY <1>2, <2>1 DEF WipeRow
  <2>5. HandTypeOK'
    BY <1>1, <2>1, <2>3, <2>4 DEF HandIInv, HandTypeOK, terminalVars, sealVars
  <2>6. Issuance'
    BY <1>1, <2>3, <2>4 DEF HandIInv, HandTypeOK, Issuance, terminalVars
  <2>7. Revocation'
    <3>1. ASSUME NEW c \in Bearers, session'[c].live
          PROVE  c # b /\ session'[c] = session[c] /\ session[c].live
      BY <2>3, <3>1
    <3> QED BY <1>1, <2>4, <3>1 DEF HandIInv, Revocation
  <2>8. OnePair'
    BY <1>1 DEF HandIInv, OnePair, terminalVars, sealVars
  <2>9. Registration'
    BY <1>1, <2>2, <2>3 DEF HandIInv, HandTypeOK, Issuance, Registration, terminalVars
  <2> QED BY <2>5, <2>6, <2>7, <2>8, <2>9 DEF HandIInv
<1> QED BY <1>3, <1>4

LEMMA WipeFailsKeeps ==
  ASSUME HandIInv, WipeFails
  PROVE  HandIInv'
<1>1. /\ UNCHANGED <<pubkey, session, post, wipes, terminalVars, script, sealVars, disturbed>>
      /\ wipe' = NoWipe /\ upsets' \in 0..MaxUpsets
  BY HandshakeAssumption DEF WipeFails, Upset, HandIInv, HandTypeOK
<1>2. /\ missed \subseteq missed' /\ missed' \subseteq missed \union Bearers
      /\ \A b \in Bearers : session[b].live /\ wipe.role = session[b].role
           /\ (wipe.at = "scan" \/ b \in wipe.todo) => b \in missed'
  <2>1. wipe.todo \subseteq Bearers /\ OfActor(wipe.role) \subseteq Bearers
    BY DEF HandIInv, HandTypeOK, WipeRow, OfActor, LiveSessions
  <2> QED BY <2>1 DEF WipeFails, OfActor, LiveSessions, Accepted
<1>3. HandTypeOK'
  <2>1. missed' \subseteq Bearers
    BY <1>2 DEF HandIInv, HandTypeOK
  <2> QED BY <1>1, <2>1 DEF HandIInv, HandTypeOK, NoWipe, WipeRow, terminalVars, sealVars
<1>4. Issuance' /\ Revocation'
  <2>1. Issuance'
    BY <1>1 DEF HandIInv, Issuance, NoWipe, terminalVars
  <2>2. ASSUME NEW b \in Bearers, session[b].live
        PROVE  session[b].role \in Roles /\ (pubkey[session[b].role] = 0 => b \in missed')
    BY <1>2, <2>2 DEF HandIInv, Revocation
  <2>3. Revocation'
    BY <1>1, <2>2 DEF Revocation, NoWipe
  <2> QED BY <2>1, <2>3
<1>5. OnePair' /\ Registration'
  BY <1>1 DEF HandIInv, OnePair, Registration, terminalVars, sealVars
<1> QED BY <1>3, <1>4, <1>5 DEF HandIInv

-----------------------------------------------------------------------------
(* Sealing                                                                  *)

LEMMA SealKeeps ==
  ASSUME HandIInv, ReadOperatorKey \/ SealInCloud \/ \E r \in Roles : SealOnTerminal(r)
  PROVE  HandIInv'
<1>1. UNCHANGED <<cloudVars, post, terminalVars, script, disturbed>>
  BY DEF ReadOperatorKey, SealInCloud, SealOnTerminal
<1>2. keyRead' \in Keys /\ keyRead' \in {0, ownKey["operator"]}
  BY DEF ReadOperatorKey, SealInCloud, SealOnTerminal, HandIInv, HandTypeOK, OnePair
<1>3. ASSUME NEW e \in envelopes'
      PROVE  e \in [Roles -> Keys] /\ \A r \in Roles : e[r] # 0 /\ e[r] = ownKey[r]
  <2>1. CASE e \in envelopes
    BY <2>1 DEF HandIInv, HandTypeOK, OnePair
  <2>2. CASE e \notin envelopes /\ SealInCloud
    <3>1. /\ e = [r \in Roles |-> IF r = "operator" THEN keyRead ELSE pubkey["client"]]
          /\ keyRead # 0 /\ pubkey["client"] # 0
      BY <1>3, <2>2 DEF SealInCloud
    <3> QED BY <3>1 DEF HandIInv, HandTypeOK, OnePair
  <2>3. CASE e \notin envelopes /\ \E r \in Roles : SealOnTerminal(r)
    <3>1. PICK r \in Roles : SealOnTerminal(r)
      BY <2>3
    <3>2. e = KeyBundle(r) /\ \A x \in Roles : KeyBundle(r)[x] # 0
      BY <1>3, <2>3, <3>1 DEF SealOnTerminal
    <3>3. \A x \in Roles : x # r => x = Peer(r)
      OBVIOUS
    <3> QED BY <3>2, <3>3 DEF KeyBundle, HandIInv, HandTypeOK, OnePair
  <2> QED BY <1>3, <2>1, <2>2, <2>3 DEF ReadOperatorKey
<1>4. HandTypeOK'
  BY <1>1, <1>2, <1>3 DEF HandIInv, HandTypeOK, cloudVars, terminalVars
<1>5. Issuance' /\ Revocation' /\ Registration'
  BY <1>1 DEF HandIInv, Issuance, Revocation, Registration, cloudVars, terminalVars
<1>6. OnePair'
  BY <1>1, <1>2, <1>3 DEF HandIInv, OnePair, cloudVars, terminalVars
<1> QED BY <1>4, <1>5, <1>6 DEF HandIInv

-----------------------------------------------------------------------------
LEMMA HandStep ==
  ASSUME HandIInv, [HandNext]_handVars
  PROVE  HandIInv'
<1>1. CASE UNCHANGED handVars
  BY <1>1 DEF handVars, HandIInv, HandTypeOK, Issuance, Revocation, OnePair, Registration
<1>2. CASE \E r \in Roles :
             \/ StartScript(r) \/ (\E p \in Posts : SendPost(r, p)) \/ StopScript(r) \/ StorePeer(r)
             \/ DeletePubkey(r) \/ SealOnTerminal(r)
  BY <1>2, StartKeeps, SendKeeps, EndScriptKeeps, DeleteKeeps, SealKeeps
<1>3. CASE \E p \in Posts :
             CheckRole(p) \/ PutPubkey(p) \/ PutSession(p) \/ ReplyBearer(p) \/ PostFails(p)
  BY <1>3, CheckKeeps, PutPubkeyKeeps, PutSessionKeeps, EndPostKeeps
<1>4. CASE ScanSessions \/ RevokeSession \/ WipeFails \/ ReadOperatorKey \/ SealInCloud
  BY <1>4, ScanKeeps, RevokeKeeps, WipeFailsKeeps, SealKeeps
<1> QED BY <1>1, <1>2, <1>3, <1>4 DEF HandNext

LEMMA HandInvariance == HandSpec => []HandIInv
<1>1. HandInit => HandIInv
  BY HandInitial
<1>2. HandIInv /\ [HandNext]_handVars => HandIInv'
  BY HandStep
<1> QED BY <1>1, <1>2, PTL DEF HandSpec

(* A DELETE that has answered leaves no bearer of a role without a key      *)
(* accepted, however many registrations and revocations overlap and fail,   *)
(* but those its page did not show, those it did not reach, and those a     *)
(* registration under way wrote behind its scan.                            *)
THEOREM WipedRolesAreShut == HandSpec => []NoBearerWithoutKey
<1>1. HandIInv => NoBearerWithoutKey
  BY DEF HandIInv, Revocation, NoBearerWithoutKey, LiveSessions, Accepted
<1> QED BY <1>1, HandInvariance, PTL

(* A bearer a terminal stored is accepted, and the cloud holds the          *)
(* terminal's key, unless a DELETE of its role ran while the bearer was     *)
(* issued or later.                                                         *)
THEOREM StoredBearerWorks == HandSpec => []BearerWorks
<1>1. HandIInv => BearerWorks
  BY DEF HandIInv, Registration, BearerWorks, Accepted
<1> QED BY <1>1, HandInvariance, PTL

(* What the cloud or a terminal has sealed for both, both can open, through *)
(* every recovery.                                                          *)
THEOREM SealedOpens == HandSpec => []EnvelopesOpen
<1>1. HandIInv => EnvelopesOpen
  BY DEF HandIInv, OnePair, EnvelopesOpen, Opens
<1> QED BY <1>1, HandInvariance, PTL
=============================================================================
