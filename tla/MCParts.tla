------------------------------ MODULE MCParts -------------------------------
(***************************************************************************)
(* Seven components that share no state, on small instances: the push side *)
(* of the event log (SyncPush), K_temp (KTemp), the handshake (Handshake), *)
(* contacts and recipients (AddressBook), the gate of a launch (TestGate), *)
(* the send times (SendSchedule) and the backup (Backup).  part says which *)
(* of them a behaviour is about; the others stay in their initial states.  *)
(***************************************************************************)
EXTENDS SyncPush, KTemp, Handshake, AddressBook, TestGate, SendSchedule, Backup, TLC

VARIABLE part

partVars == <<pushVars, keyVars, handVars, bookVars, gateVars, scheduleVars, backupVars>>
vars == <<part, partVars>>

OneEach == 1 :> "m1" @@ 2 :> "m1"
Lag == 1 :> 0 @@ 2 :> 1 @@ 3 :> 2
Tagged == {<<"a", "ab">>}

\* The arguments of compute_send_ats are chosen only where they are used.
Quiet == /\ ask = [n |-> 0, cap |-> 0, startAfter |-> 0]
         /\ sender = [s \in Cursors |-> FirstSend(s, 0)]
         /\ sendAts = <<>> /\ guard = 0 /\ ended = FALSE

PartsInit ==
  /\ PushInit /\ KeyInit /\ HandInit /\ BookInit /\ GateInit /\ BackupInit
  /\ \/ part \in {"push", "key", "handshake", "book", "gate", "backup"} /\ Quiet
     \/ part = "schedule" /\ ScheduleInit

LaterVars == <<bookVars, gateVars, scheduleVars, backupVars>>
SyncVars == <<pushVars, keyVars, handVars>>

\* Of two presses, at most one neither marks a test nor is a first launch.
OneBystander ==
  Cardinality({p \in Presses : \/ presses'[p].at \in {"schedule", "status"}
                               \/ presses'[p].at \in {"template", "key"} /\ presses'[p].kind # "launch"}) <= 1

PartsNext ==
  /\ UNCHANGED part
  /\ \/ part = "push" /\ PushNext /\ UNCHANGED <<keyVars, handVars, LaterVars>>
     \/ part = "key" /\ KeyNext /\ UNCHANGED <<pushVars, handVars, LaterVars>>
     \/ part = "handshake" /\ HandNext /\ UNCHANGED <<pushVars, keyVars, LaterVars>>
     \/ part = "book" /\ BookNext /\ UNCHANGED <<SyncVars, gateVars, scheduleVars, backupVars>>
     \/ part = "gate" /\ GateNext /\ OneBystander /\ UNCHANGED <<SyncVars, bookVars, scheduleVars, backupVars>>
     \/ part = "schedule" /\ ScheduleNext /\ UNCHANGED <<SyncVars, bookVars, gateVars, backupVars>>
     \/ part = "backup" /\ BackupNext /\ UNCHANGED <<SyncVars, bookVars, gateVars, scheduleVars>>

PartsSpec == PartsInit /\ [][PartsNext]_vars

\* What a template says is only compared.
PartsSymmetry == Permutations(Contents)

\* The types, and what makes the parts' invariants inductive: of the log, that ids
\* are unique and pages leave no gap; of the address book, that recipients exist and
\* are counted; of the gate, that a hash is one a test of its campaign recorded.
PartsInv ==
  /\ part = "push" => PushTypeOK /\ LogInv
  /\ part = "key" => KeyTypeOK
  /\ part = "handshake" => HandTypeOK
  /\ part = "book" => BookInv
  /\ part = "gate" => GateInv
  /\ part = "schedule" => ScheduleInv
  /\ part = "backup" => BackupTypeOK
=============================================================================
