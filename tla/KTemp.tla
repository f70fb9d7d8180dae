------------------------------- MODULE KTemp --------------------------------
(***************************************************************************)
(* The life of K_temp, the key that packs are sealed with.                 *)
(*                                                                         *)
(* In the cloud a key is an item with an expiry time and the active key is *)
(* named by a pointer item.  Setting, reading and wiping it each take      *)
(* several calls, and a read that finds the key expired goes on to wipe,   *)
(* which reads the pointer again.  Reads may return an older copy of the   *)
(* table.  A terminal keeps its key in a file: every launch asks the cloud *)
(* whether that key is still active and mints a new one when it is not.    *)
(* Several launches, on one terminal or on two, may be at this at once.    *)
(***************************************************************************)
EXTENDS Integers, FiniteSets

CONSTANTS
  MintedKeys,     \* bound: keys that may be minted, numbered in that order
  NoneKey,
  Machines,       \* terminals
  Launches,       \* calls of _ensure_k_temp, numbered; a launch runs on MachineOf
  MachineOf,
  Callers,        \* dispatchers that read the key, operators that revoke it
  MaxCalls        \* bound: calls that launches, dispatchers and operators begin

ASSUME KTempAssumption ==
  /\ MintedKeys \subseteq Nat /\ NoneKey \notin MintedKeys
  /\ MaxCalls \in Nat
  /\ MachineOf \in [Launches -> Machines]

VARIABLES
  table,     \* [pointer, item]: KTEMP_ACTIVE and the KTEMP items
  copy,      \* the copy of the table a read may see instead
  file,      \* k_temp.bin of a terminal
  launch,    \* where a launch is, the key it holds, what it has read
  caller,    \* where a reader or a wipe is, and the key it has read
  sealed,    \* the key a call of _ensure_k_temp gave its launch to seal packs with
  latest,    \* the last key the pointer was set to
  calls,
  excused    \* keys that a revocation, or a reader of an older key, may have taken

keyVars == <<table, copy, file, launch, caller, sealed, latest, calls, excused>>

\* An item deleted while it could still be used is told from the others.
ItemState == {"unset", "live", "expired", "deleted", "wiped"}
Table     == [pointer : MintedKeys \union {NoneKey}, item : [MintedKeys -> ItemState]]
AtRest    == [at |-> "rest", key |-> NoneKey, seen |-> NoneKey, retired |-> {}]
NotCalled == [at |-> "rest", key |-> NoneKey]

KeyTypeOK ==
  /\ table \in Table /\ copy \in Table
  /\ file \in [Machines -> MintedKeys \union {NoneKey}]
  /\ launch \in [Launches -> [at : {"rest", "status", "item", "mint", "post", "point", "write"},
                              key : MintedKeys \union {NoneKey},
                              seen : MintedKeys \union {NoneKey},
                              retired : SUBSET MintedKeys]]
  /\ caller \in [Callers -> [at : {"rest", "item", "wipe", "delItem", "delPointer"},
                             key : MintedKeys \union {NoneKey}]]
  /\ sealed \in [Launches -> MintedKeys \union {NoneKey}]
  /\ latest \in MintedKeys \union {NoneKey}
  /\ calls \in 0..MaxCalls
  /\ excused \subseteq MintedKeys

KeyInit ==
  /\ table = [pointer |-> NoneKey, item |-> [k \in MintedKeys |-> "unset"]]
  /\ copy = table
  /\ file = [m \in Machines |-> NoneKey]
  /\ launch = [l \in Launches |-> AtRest]
  /\ caller = [c \in Callers |-> NotCalled]
  /\ sealed = [l \in Launches |-> NoneKey]
  /\ latest = NoneKey
  /\ calls = 0
  /\ excused = {}

Begin == calls < MaxCalls /\ calls' = calls + 1

\* What a read may see.
Views == {table, copy}

CatchUp ==
  /\ copy' = table
  /\ UNCHANGED <<table, file, launch, caller, sealed, latest, calls, excused>>

\* The expiry time passes; later DynamoDB drops the item.
KeyExpires(k) ==
  /\ table.item[k] = "live"
  /\ table' = [table EXCEPT !.item[k] = "expired"]
  /\ copy' = [copy EXCEPT !.item[k] = IF @ = "live" THEN "expired" ELSE @]
  /\ UNCHANGED <<file, launch, caller, sealed, latest, calls, excused>>

TtlDeletes(k) ==
  /\ table.item[k] = "expired"
  /\ table' = [table EXCEPT !.item[k] = "deleted"]
  /\ UNCHANGED <<copy, file, launch, caller, sealed, latest, calls, excused>>

-----------------------------------------------------------------------------
(* get_active_k_temp and wipe_k_temp                                       *)

Wiping == {c \in Callers : caller[c].at \in {"wipe", "delItem", "delPointer"}}

GetActive(c) ==
  /\ caller[c].at = "rest"
  /\ Begin
  /\ \E v \in Views :
       /\ v.pointer # NoneKey
       /\ caller' = [caller EXCEPT ![c] = [at |-> "item", key |-> v.pointer]]
  /\ UNCHANGED <<table, copy, file, launch, sealed, latest, excused>>

AnyAge == {"live", "expired"}  \* mutant: the age of the item is not looked at
Outdated   == {"expired"}

\* The item is expired and another key has been set, after this reader's look at
\* the pointer or before a look at an older copy: its wipe takes that one, live
\* or not, and so it does with a key that is set before the wipe is done.
FetchItem(c) ==
  /\ caller[c].at = "item"
  /\ \E v \in Views :
       IF v.item[caller[c].key] \in Outdated
         THEN /\ caller' = [caller EXCEPT ![c].at = "wipe"]
              /\ excused' = excused \union ({latest} \ {NoneKey, caller[c].key})
         ELSE /\ caller' = [caller EXCEPT ![c] = NotCalled]
              /\ UNCHANGED excused
  /\ UNCHANGED <<table, copy, file, launch, sealed, latest, calls>>

\* DELETE /key/temp
Revoke(c) ==
  /\ caller[c].at = "rest"
  /\ Begin
  /\ caller' = [caller EXCEPT ![c].at = "wipe"]
  /\ excused' = excused \union ({latest} \ {NoneKey})
  /\ UNCHANGED <<table, copy, file, launch, sealed, latest>>

WipeReads(c) ==
  /\ caller[c].at = "wipe"
  /\ \E v \in Views :
       caller' = [caller EXCEPT ![c] =
         [at |-> IF v.pointer = NoneKey THEN "delPointer" ELSE "delItem", key |-> v.pointer]]
  /\ UNCHANGED <<table, copy, file, launch, sealed, latest, calls, excused>>

\* A delete that fails is passed over.
DeleteItem(c) ==
  /\ caller[c].at = "delItem"
  /\ table' \in {table, [table EXCEPT !.item[caller[c].key] = IF @ = "live" THEN "wiped" ELSE "deleted"]}
  /\ caller' = [caller EXCEPT ![c].at = "delPointer"]
  /\ UNCHANGED <<copy, file, launch, sealed, latest, calls, excused>>

DeletePointer(c) ==
  /\ caller[c].at = "delPointer"
  /\ table' \in {table, [table EXCEPT !.pointer = NoneKey]}
  /\ caller' = [caller EXCEPT ![c] = NotCalled]
  /\ UNCHANGED <<copy, file, launch, sealed, latest, calls, excused>>

\* The caller stops between two of its calls.
CallerStops(c) ==
  /\ caller[c].at # "rest"
  /\ caller' = [caller EXCEPT ![c] = NotCalled]
  /\ UNCHANGED <<table, copy, file, launch, sealed, latest, calls, excused>>

-----------------------------------------------------------------------------
(* _ensure_k_temp, with /key/temp/status and POST /key/temp                *)

\* Keys that are past use wherever one looks: replaced, wiped or expired.
Retired ==
  {k \in MintedKeys :
     \/ \A v \in Views : v.item[k] \in {"expired", "deleted", "wiped"}
     \/ /\ table.item[k] # "unset"
        /\ \A v \in Views : v.pointer # k
        /\ \A l \in Launches : ~(launch[l].at = "point" /\ launch[l].key = k)}

StartEnsure(l) ==
  LET k == file[MachineOf[l]]
  IN  /\ launch[l].at = "rest"
      /\ Begin
      /\ launch' = [launch EXCEPT ![l] =
           [at |-> IF k = NoneKey THEN "mint" ELSE "status", key |-> k, seen |-> NoneKey,
            retired |-> Retired]]
      /\ sealed' = [sealed EXCEPT ![l] = NoneKey]
      /\ UNCHANGED <<table, copy, file, caller, latest, excused>>

StatusPointer(l) ==
  /\ launch[l].at = "status"
  /\ \E v \in Views : launch' = [launch EXCEPT ![l].at = "item", ![l].seen = v.pointer]
  /\ UNCHANGED <<table, copy, file, caller, sealed, latest, calls, excused>>

AnyPresent(l, v) ==  \* mutant: which key the cloud has is not compared
  launch[l].seen # NoneKey /\ v.item[launch[l].seen] = "live"
StillActive(l, v) ==
  /\ launch[l].seen # NoneKey /\ v.item[launch[l].seen] = "live"
  /\ launch[l].seen = launch[l].key

\* The key is kept, or the file is removed and a new one minted.
StatusItem(l) ==
  /\ launch[l].at = "item"
  /\ \E v \in Views :
       IF StillActive(l, v)
         THEN /\ sealed' = [sealed EXCEPT ![l] = launch[l].key]
              /\ launch' = [launch EXCEPT ![l] = [AtRest EXCEPT !.retired = launch[l].retired]]
              /\ UNCHANGED file
         ELSE /\ file' = [file EXCEPT ![MachineOf[l]] = NoneKey]
              /\ launch' = [launch EXCEPT ![l].at = "mint"]
              /\ UNCHANGED sealed
  /\ UNCHANGED <<table, copy, caller, latest, calls, excused>>

\* Any answer but 200 counts as "no key".
StatusRefused(l) ==
  /\ launch[l].at \in {"status", "item"}
  /\ file' = [file EXCEPT ![MachineOf[l]] = NoneKey]
  /\ launch' = [launch EXCEPT ![l].at = "mint"]
  /\ UNCHANGED <<table, copy, caller, sealed, latest, calls, excused>>

Fresh == {k \in MintedKeys : table.item[k] = "unset" /\ \A m \in Launches : launch[m].key # k}

MintKey(l, k) ==
  /\ launch[l].at = "mint"
  /\ k \in Fresh /\ \A j \in Fresh : k <= j
  /\ launch' = [launch EXCEPT ![l].at = "post", ![l].key = k]
  /\ UNCHANGED <<table, copy, file, caller, sealed, latest, calls, excused>>

PutKeyItem(l) ==
  /\ launch[l].at = "post"
  /\ table' = [table EXCEPT !.item[launch[l].key] = "live"]
  /\ launch' = [launch EXCEPT ![l].at = "point"]
  /\ UNCHANGED <<copy, file, caller, sealed, latest, calls, excused>>

PutPointer(l) ==
  /\ launch[l].at = "point"
  /\ table' = [table EXCEPT !.pointer = launch[l].key]
  /\ latest' = launch[l].key
  /\ excused' = IF Wiping = {} THEN excused ELSE excused \union {launch[l].key}
  /\ launch' = [launch EXCEPT ![l].at = "write"]
  /\ UNCHANGED <<copy, file, caller, sealed, calls>>

WriteFile(l) ==
  /\ launch[l].at = "write"
  /\ file' = [file EXCEPT ![MachineOf[l]] = launch[l].key]
  /\ sealed' = [sealed EXCEPT ![l] = launch[l].key]
  /\ launch' = [launch EXCEPT ![l] = [AtRest EXCEPT !.retired = launch[l].retired]]
  /\ UNCHANGED <<table, copy, caller, latest, calls, excused>>

\* The request fails, its answer is lost, or the terminal stops.
EnsureFails(l) ==
  /\ launch[l].at # "rest"
  /\ launch' = [launch EXCEPT ![l] = [AtRest EXCEPT !.retired = launch[l].retired]]
  /\ UNCHANGED <<table, copy, file, caller, sealed, latest, calls, excused>>

-----------------------------------------------------------------------------
KeyNext ==
  \/ CatchUp
  \/ \E k \in MintedKeys : KeyExpires(k) \/ TtlDeletes(k)
  \/ \E c \in Callers :
       \/ GetActive(c) \/ FetchItem(c) \/ Revoke(c) \/ WipeReads(c)
       \/ DeleteItem(c) \/ DeletePointer(c) \/ CallerStops(c)
  \/ \E l \in Launches :
       \/ StartEnsure(l) \/ StatusPointer(l) \/ StatusItem(l) \/ StatusRefused(l)
       \/ \E k \in MintedKeys : MintKey(l, k)
       \/ PutKeyItem(l) \/ PutPointer(l) \/ WriteFile(l) \/ EnsureFails(l)

KeySpec == KeyInit /\ [][KeyNext]_keyVars

-----------------------------------------------------------------------------
\* The key set last stays the active one until it expires or an operator
\* revokes it, with one exception, which the code has.  A reader that looked up
\* an older key, before the new one was set or in an older copy of the pointer,
\* and finds that key expired goes on to wipe: it reads the pointer again and
\* deletes whichever key it names, live or not.  A key set by the time that
\* wipe is over is in excused, and nothing is claimed of it.  No other reader
\* costs a live key: none that finds its key in use, none that began with the
\* latest key, and none whose wipe had ended when the key was set.
LatestKeyActive ==
  latest # NoneKey /\ latest \notin excused =>
    /\ table.item[latest] # "wiped"
    /\ table.item[latest] = "live" => table.pointer = latest

\* A launch seals no pack with a key that had been replaced, wiped or set
\* aside everywhere before the launch began, whatever other launches do to the
\* file and the pointer meanwhile: the file is trusted only after asking.
NoRetiredKey ==
  \A l \in Launches : sealed[l] \notin launch[l].retired
=============================================================================
