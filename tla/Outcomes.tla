------------------------------ MODULE Outcomes ------------------------------
(***************************************************************************)
(* The outcome cursor: GET /packs/status and the terminal's outcomes loop. *)
(*                                                                         *)
(* A pack is resolved with a time in whole seconds; the status index shows *)
(* it a little later.  A poll lists, in the order of time and pack id, the *)
(* outcomes after the terminal's cursor, holding back the newest Settle    *)
(* seconds; the terminal applies the page one by one and then moves its    *)
(* cursor to the last.  A claim that was expired as unknown may still be   *)
(* finished by its dispatcher, which resolves the pack a second time.      *)
(*                                                                         *)
(* A pack's number gives its place by pack id and by send_at.              *)
(***************************************************************************)
EXTENDS Integers, FiniteSets

CONSTANTS
  OutPacks,
  Settle,      \* RESOLVED_SETTLE_S (10)
  MaxLag,      \* seconds an outcome may take to be listed by the index
  OutLimit,    \* outcomes of one answer (200)
  WorkCap,     \* index entries read of each status: max(4 * limit, 2000)
  Horizon,     \* bound: seconds
  MaxDrops     \* bound: polls that fail, terminals that stop

ASSUME OutcomesAssumption ==
  /\ OutPacks \subseteq Nat
  /\ Settle \in Nat /\ MaxLag \in Nat /\ MaxLag < Settle
  /\ OutLimit \in Nat \ {0} /\ WorkCap \in Nat /\ Horizon \in Nat /\ MaxDrops \in Nat

VARIABLES
  now,
  outcome,     \* the PACK items: status and resolved_at
  index,       \* status-index, the copy of outcome that is listed
  outCursor,   \* sync_state last_outcome_enqueued_at: <<second, pack>>
  outPage,     \* the answer being applied: outcomes in it, the cursor after it
  applied,     \* the outcome of a pack the terminal applied last
  drops

outVars == <<now, outcome, index, outCursor, outPage, applied, drops>>

Resolved  == {"sent", "failed", "unknown"}
Pending   == [status |-> "pending", at |-> 0]
Outcome   == [status : Resolved, at : Nat]
NoAnswer  == [open |-> FALSE, rows |-> {}, upto |-> <<0, 0>>]
Row       == [pack : OutPacks, out : Outcome]

OutTypeOK ==
  /\ now \in 0..Horizon
  /\ outcome \in [OutPacks -> Outcome \union {Pending}]
  /\ index \in [OutPacks -> Outcome \union {Pending}]
  /\ outCursor \in Int \X Nat
  /\ outPage \in [open : BOOLEAN, rows : SUBSET Row, upto : Int \X Nat]
  /\ applied \in [OutPacks -> Resolved \union {"none"}]
  /\ drops \in 0..MaxDrops

OutInit ==
  /\ now = 0
  /\ outcome = [p \in OutPacks |-> Pending]
  /\ index = [p \in OutPacks |-> Pending]
  /\ outCursor = <<-1, 0>>
  /\ outPage = NoAnswer
  /\ applied = [p \in OutPacks |-> "none"]
  /\ drops = 0

-----------------------------------------------------------------------------
(* The cloud                                                               *)

\* _stamp_resolved.  Nothing is resolved so late that the clock would end
\* before it has settled.
Resolve(p, s) ==
  /\ outcome[p].status \in {"pending", "unknown"} /\ s # outcome[p].status
  /\ now + Settle <= Horizon
  /\ outcome' = [outcome EXCEPT ![p] = [status |-> s, at |-> now]]
  /\ UNCHANGED <<now, index, outCursor, outPage, applied, drops>>

Reindex(p) ==
  /\ index[p] # outcome[p]
  /\ index' = [index EXCEPT ![p] = outcome[p]]
  /\ UNCHANGED <<now, outcome, outCursor, outPage, applied, drops>>

TickSecond ==
  /\ now < Horizon
  /\ \A p \in OutPacks : index[p] # outcome[p] => now - outcome[p].at < MaxLag
  /\ now' = now + 1
  /\ UNCHANGED <<outcome, index, outCursor, outPage, applied, drops>>

OutKey(r) == <<r.out.at, r.pack>>

\* Keys compare as pairs.
Later(k, l) == k[1] > l[1] \/ (k[1] = l[1] /\ k[2] > l[2])

TimeOnly(k, c) == k[1] > c[1]  \* mutant: the cursor is the second alone
AfterCursor(k, c) == Later(k, c)

AnyTime(k) == TRUE  \* mutant: nothing is held back
Settled(k) == k[1] <= now - Settle

\* The index entries of a status that are read: the first by send_at.
Read(s) ==
  LET of == {p \in OutPacks : index[p].status = s}
  IN  {p \in of : Cardinality({q \in of : q < p}) < WorkCap}

\* list_resolved_packs
Listed ==
  LET rows == {r \in {[pack |-> p, out |-> index[p]] : p \in UNION {Read(s) : s \in Resolved}} :
                 AfterCursor(OutKey(r), outCursor) /\ Settled(OutKey(r))}
  IN  {r \in rows : Cardinality({q \in rows : Later(OutKey(r), OutKey(q))}) < OutLimit}

-----------------------------------------------------------------------------
(* The terminal: outcomes_loop                                             *)

Poll ==
  /\ ~outPage.open
  /\ \E last \in {outCursor} \union {OutKey(r) : r \in Listed} :
       /\ \A r \in Listed : ~Later(OutKey(r), last)
       /\ outPage' = [open |-> TRUE, rows |-> Listed, upto |-> last]
  /\ UNCHANGED <<now, outcome, index, outCursor, applied, drops>>

ApplyOutcome ==
  /\ outPage.open
  /\ \E r \in outPage.rows :
       /\ \A q \in outPage.rows : ~Later(OutKey(r), OutKey(q))
       /\ applied' = [applied EXCEPT ![r.pack] = r.out.status]
       /\ outPage' = [outPage EXCEPT !.rows = @ \ {r}]
  /\ UNCHANGED <<now, outcome, index, outCursor, drops>>

SetOutcomeCursor ==
  /\ outPage.open
  /\ outPage.rows = {}
  /\ outCursor' = outPage.upto
  /\ outPage' = NoAnswer
  /\ UNCHANGED <<now, outcome, index, applied, drops>>

\* The poll fails or the terminal stops before the cursor has moved.
DropAnswer ==
  /\ outPage.open
  /\ drops < MaxDrops
  /\ drops' = drops + 1
  /\ outPage' = NoAnswer
  /\ UNCHANGED <<now, outcome, index, outCursor, applied>>

-----------------------------------------------------------------------------
OutNext ==
  \/ \E p \in OutPacks : (\E s \in Resolved : Resolve(p, s)) \/ Reindex(p)
  \/ TickSecond
  \/ Poll \/ ApplyOutcome \/ SetOutcomeCursor \/ DropAnswer

OutSpec == OutInit /\ [][OutNext]_outVars

\* Time passes, the index catches up and the loop runs for ever.
OutFairness ==
  /\ WF_outVars(TickSecond)
  /\ \A p \in OutPacks : WF_outVars(Reindex(p))
  /\ WF_outVars(Poll \/ ApplyOutcome \/ SetOutcomeCursor)

OutFairSpec == OutSpec /\ OutFairness

-----------------------------------------------------------------------------
\* The cursor passes no outcome that the terminal has not applied: not one of
\* the same second as the last of a page, not one the index listed late, not
\* the second outcome of a pack that was unknown first.  _after_cursor,
\* RESOLVED_SETTLE_S and the order of outcomes_loop together have to see to it.
NoOutcomePassed ==
  \A p \in OutPacks :
    outcome[p].status # "pending" =>
      \/ Later(<<outcome[p].at, p>>, outCursor)
      \/ applied[p] = outcome[p].status

\* Every outcome reaches the terminal, the second of a pack included:
\* list_resolved_packs returns it at some poll, whatever polls fail.
EveryOutcomeApplied ==
  \A p \in OutPacks :
    outcome[p].status # "pending" ~> applied[p] = outcome[p].status
=============================================================================
