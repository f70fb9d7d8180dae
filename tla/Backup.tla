------------------------------- MODULE Backup -------------------------------
(***************************************************************************)
(* scripts/_backup.py: one backup of the terminal's database, its keys and *)
(* the cloud's table, taken while the terminal and the cloud go on         *)
(* working.  Of the data only the events of the log matter: which are in   *)
(* the table, and which the terminal's database knows (it has pulled them, *)
(* or has marked its own rows as pushed).                                  *)
(***************************************************************************)
EXTENDS Naturals, Sequences

CONSTANTS
  MaxEvents,  \* bound: events of the log
  Nothing     \* a part that is empty, missing or failed

Events == 1..MaxEvents
Parts == [db : (SUBSET Events) \cup {Nothing}, keys : {{}, Nothing}, dynamo : (SUBSET Events) \cup {Nothing}]
Archives == [parts : Parts, sound : BOOLEAN]

ASSUME BackupAssumption ==
  /\ MaxEvents \in Nat
  /\ \A S \in SUBSET Events : Nothing # S
  /\ \A a \in Archives : Nothing # a

VARIABLES
  stored,     \* events in the table
  known,      \* events the database knows
  place,      \* which step of main is next
  gaps,       \* checks that count as covered
  copies,     \* what has been read: the database, the keys, the table
  owed,       \* events that were in the table when the scan began, or Nothing
  archive,    \* what is under the backup's name
  report      \* what main has said

backupVars == <<stored, known, place, gaps, copies, owed, archive, report>>
made == <<stored, known>>

Checks == {"sqs_state_recorded", "secret_sync_checked", "inbox_unmaterialised_warn"}

ScanFirst == <<"inbox", "secrets", "dynamo", "db", "keys", "sqs", "write", "verify">>  \* mutant: the table, then the database
Order == <<"inbox", "secrets", "db", "keys", "dynamo", "sqs", "write", "verify">>

BackupInit ==
  /\ stored = {} /\ known = {}
  /\ place = 1 /\ gaps = {} /\ owed = Nothing
  /\ copies = [db |-> Nothing, keys |-> Nothing, dynamo |-> Nothing]
  /\ archive = Nothing /\ report = "none"

-----------------------------------------------------------------------------
(* Meanwhile: the cloud stores events, the terminal learns of them.         *)
Meanwhile ==
  /\ \/ \E e \in Events \ stored : stored' = stored \cup {e} /\ UNCHANGED known
     \/ \E e \in stored \ known : known' = known \cup {e} /\ UNCHANGED stored
  /\ UNCHANGED <<place, gaps, copies, owed, archive, report>>

-----------------------------------------------------------------------------
(* main, step by step.                                                      *)
At(step) == report = "none" /\ place \in DOMAIN Order /\ Order[place] = step
Proceed == place' = place + 1 /\ UNCHANGED <<made, archive, report>>

(* The check of the inbox counts as covered when nothing is waiting to be   *)
(* materialised, and when the check itself failed.                          *)
CheckInbox ==
  /\ At("inbox") /\ Proceed
  /\ gaps' \in {gaps, gaps \cup {"inbox_unmaterialised_warn"}}
  /\ UNCHANGED <<copies, owed>>

CheckSecrets ==
  /\ At("secrets") /\ Proceed
  /\ gaps' \in {gaps, gaps \cup {"secret_sync_checked"}}
  /\ UNCHANGED <<copies, owed>>

(* SQLite's backup is a snapshot; there may be no database. *)
SnapshotDb ==
  /\ At("db") /\ Proceed
  /\ \/ copies' = [copies EXCEPT !.db = known]
     \/ UNCHANGED copies
  /\ UNCHANGED <<gaps, owed>>

SnapshotKeys ==
  /\ At("keys") /\ Proceed
  /\ \/ copies' = [copies EXCEPT !.keys = {}]
     \/ UNCHANGED copies
  /\ UNCHANGED <<gaps, owed>>

StartScan ==
  /\ At("dynamo") /\ owed = Nothing
  /\ owed' = stored
  /\ UNCHANGED <<made, place, gaps, copies, archive, report>>

(* A scan reads page after page: what was there from the start is in it,    *)
(* what is written meanwhile may be.                                        *)
EndScan ==
  /\ At("dynamo") /\ owed # Nothing /\ Proceed
  /\ \E late \in SUBSET (stored \ owed) : copies' = [copies EXCEPT !.dynamo = owed \cup late]
  /\ UNCHANGED <<gaps, owed>>

(* --skip-dynamo, no table named, or a page that cannot be read: what had   *)
(* been read of it is dropped.                                              *)
NoScan ==
  /\ At("dynamo") /\ Proceed
  /\ UNCHANGED <<gaps, copies, owed>>

CountQueue ==
  /\ At("sqs") /\ Proceed
  /\ gaps' \in {gaps, gaps \cup {"sqs_state_recorded"}}
  /\ UNCHANGED <<copies, owed>>

(* The archive is written under another name and then renamed; a byte may   *)
(* be wrong in what the disk has.                                           *)
WriteZip ==
  /\ At("write")
  /\ \/ /\ archive' \in {[parts |-> copies, sound |-> TRUE], [parts |-> copies, sound |-> FALSE]}
        /\ place' = place + 1 /\ UNCHANGED report
     \/ report' = "failed" /\ UNCHANGED <<archive, place>>
  /\ UNCHANGED <<made, gaps, copies, owed>>

(* gaps_covered: the three checks, and no part is empty. *)
AllCovered == gaps = Checks /\ \A part \in DOMAIN copies : copies[part] # Nothing

(* The archive is read back, decrypted and compared with its checksums      *)
(* before main says whether it is complete.                                 *)
Verify ==
  /\ At("verify")
  /\ report' = IF ~archive.sound THEN "failed" ELSE IF AllCovered THEN "complete" ELSE "partial"
  /\ place' = place + 1
  /\ UNCHANGED <<made, gaps, copies, owed, archive>>

(* main raises, or is stopped. *)
StopBackup ==
  /\ report = "none"
  /\ report' = "stopped"
  /\ UNCHANGED <<made, place, gaps, copies, owed, archive>>

BackupNext ==
  \/ Meanwhile
  \/ CheckInbox \/ CheckSecrets \/ SnapshotDb \/ SnapshotKeys
  \/ StartScan \/ EndScan \/ NoScan \/ CountQueue
  \/ WriteZip \/ Verify \/ StopBackup

BackupSpec == BackupInit /\ [][BackupNext]_backupVars

-----------------------------------------------------------------------------
BackupTypeOK ==
  /\ stored \subseteq Events /\ known \subseteq stored
  /\ place \in 1..9
  /\ gaps \subseteq Checks
  /\ copies \in Parts
  /\ owed \in (SUBSET stored) \cup {Nothing}
  /\ archive \in Archives \cup {Nothing}
  /\ report \in {"none", "complete", "partial", "failed", "stopped"}

(* An archive that was reported COMPLETE has all three parts, can be read,  *)
(* and its table holds every event its database knows: a terminal restored  *)
(* from it resumes its pull at a cursor that the restored log has reached,  *)
(* however much was written while the backup ran.                           *)
CompleteIsWhole ==
  report = "complete" =>
    /\ archive # Nothing /\ archive.sound
    /\ archive.parts.db # Nothing /\ archive.parts.keys # Nothing /\ archive.parts.dynamo # Nothing
    /\ archive.parts.db \subseteq archive.parts.dynamo
=============================================================================
