------------------------------ MODULE Feedback ------------------------------
(***************************************************************************)
(* How what recipients do comes back: provider webhooks and unsubscribes,  *)
(* through the cloud, to a terminal's recipients and suppression list.     *)
(*                                                                         *)
(* A webhook is appended to the event log, a bounce, complaint or          *)
(* unsubscribe also as a suppression event, and recorded under its svix    *)
(* id last; the provider repeats it until it is acknowledged.  An          *)
(* unsubscribe at the public page writes a cache row and then a log row    *)
(* keyed by second and hash.  A pull returns both; events go to the inbox, *)
(* unsubscribes are merged at once, and the materialiser works through the *)
(* inbox.  Every one of these may break between any two calls.             *)
(*                                                                         *)
(* A person is one recipient of one campaign and one e-mail hash.          *)
(***************************************************************************)
EXTENDS EventLog

CONSTANTS
  People,        \* numbered, in the order of their hashes
  Hooks,         \* webhooks by svix id: [type, who]
  Askers,        \* unsubscribe requests in progress
  UnsubLimit,    \* unsubscribes of one pull (1000)
  BatchLimit,    \* inbox rows of one materialiser batch (50)
  MaxTime,       \* bound: seconds
  MaxAsks,       \* bound: unsubscribe requests
  MaxFaults,     \* bound: broken requests and pulls, failed rows, lost marks
  None

ASSUME FeedbackAssumption ==
  /\ People \subseteq Nat
  /\ Hooks \subseteq [type : {"clicked", "bounced", "complained", "unsubscribed"}, who : People]
  /\ UnsubLimit \in Nat \ {0} /\ BatchLimit \in Nat \ {0}
  /\ MaxTime \in Nat /\ MaxAsks \in Nat /\ MaxFaults \in Nat

VARIABLES
  registered,    \* both public keys are registered
  delivery,      \* webhook requests: the hook and what is still to be written
  raw,           \* WEBHOOK rows, by svix id
  answered,      \* hooks the provider has been told 200 for
  rawOnly,       \* of those, the ones kept as a raw row only
  unsub,         \* UNSUB cache rows: the scope
  unsubLog,      \* UNSUB_LOG rows, [at, who, scope], at most one per at and who
  ask,           \* unsubscribe requests: what is still to be logged
  accepted,      \* <<person, scope>> the page has confirmed
  asks,
  clock,         \* seconds
  unsubCursor,   \* sync_state last_pulled_unsub_at: <<second, person>>
  unsubPage,     \* the unsubscribes of the pull being applied
  missed,        \* <<reader, row>>: row was written when the cursor was at or past its key
  known,         \* people whose message id the terminal has
  status,        \* campaign_recipients.status
  supp,          \* suppression_hashes: "none", an unsubscribe's scope, or "blocked"
  done,          \* materialised inbox rows
  skipped,       \* inbox rows that failed in the current batch
  faults

hookVars  == <<registered, delivery, raw, answered, rawOnly>>
unsubVars == <<unsub, unsubLog, ask, accepted, asks, clock, missed>>
localVars == <<unsubCursor, unsubPage, known, status, supp, done, skipped>>
feedVars  == <<logVars, hookVars, unsubVars, localVars, faults>>

Scopes == {"promotional", "all"}
Free   == [hook |-> None, todo |-> "none"]

\* The constant Items of this instance of the log: revision 0 always.
EventItem(h) == [row |-> <<"webhook_event", h>>, rev |-> 0, hook |-> h]
SuppItem(h)  == [row |-> <<"suppression", h.who>>, rev |-> 0, hook |-> h]
FeedItems    == {EventItem(h) : h \in Hooks} \union {SuppItem(h) : h \in Hooks}

ASSUME ItemsAssumption == Items = FeedItems

UnsubRow == [at : 0..MaxTime, who : People, scope : Scopes]

\* A row of the suppression list: the scope of an unsubscribe, or another reason.
Suppression == Scopes \union {"none", "blocked"}

FeedTypeOK ==
  /\ LogTypeOK
  /\ registered \in BOOLEAN
  /\ delivery \in [Appenders -> [hook : Hooks \union {None}, todo : {"none", "event", "suppression", "raw"}]]
  /\ raw \subseteq Hooks /\ answered \subseteq Hooks /\ rawOnly \subseteq answered
  /\ unsub \in [People -> Scopes \union {"none"}]
  /\ unsubLog \subseteq UnsubRow
  /\ \A r, s \in unsubLog : r.at = s.at /\ r.who = s.who => r = s
  /\ ask \in [Askers -> UnsubRow \union {None}]
  /\ accepted \subseteq People \X Scopes
  /\ asks \in 0..MaxAsks /\ clock \in 0..MaxTime
  /\ \A t \in Readers :
       /\ unsubCursor[t] \in {<<-1, -1>>} \union ((0..MaxTime) \X People)
       /\ unsubPage[t].phase \in {"none", "merge", "cursor"}
       /\ unsubPage[t].rows \subseteq UnsubRow
       /\ status[t] \in [People -> {"sent", "clicked", "bounced", "complained"}]
       /\ supp[t] \in [People -> Suppression]
       /\ known[t] \subseteq People
       /\ done[t] \subseteq inbox[t] /\ skipped[t] \subseteq inbox[t]
  /\ missed \subseteq Readers \X UnsubRow
  /\ faults \in 0..MaxFaults

NoUnsubs == [phase |-> "none", rows |-> {}]

FeedInit ==
  /\ LogInit
  /\ registered = FALSE
  /\ delivery = [a \in Appenders |-> Free]
  /\ raw = {} /\ answered = {} /\ rawOnly = {}
  /\ unsub = [c \in People |-> "none"]
  /\ unsubLog = {} /\ accepted = {} /\ missed = {}
  /\ ask = [u \in Askers |-> None]
  /\ asks = 0 /\ clock = 0 /\ faults = 0
  /\ unsubCursor = [t \in Readers |-> <<-1, -1>>]
  /\ unsubPage = [t \in Readers |-> NoUnsubs]
  /\ known = [t \in Readers |-> {}]
  /\ status = [t \in Readers |-> [c \in People |-> "sent"]]
  /\ supp = [t \in Readers |-> [c \in People |-> "none"]]
  /\ done = [t \in Readers |-> {}]
  /\ skipped = [t \in Readers |-> {}]

Fault == faults < MaxFaults /\ faults' = faults + 1

-----------------------------------------------------------------------------
(* POST /webhooks/resend                                                   *)

Register ==
  /\ ~registered
  /\ registered' = TRUE
  /\ UNCHANGED <<logVars, delivery, raw, answered, rawOnly, unsubVars, localVars, faults>>

Suppressing(h) == h.type # "clicked"

\* The checks at the start: a known svix id is a duplicate; without both
\* public keys only the raw row is kept.  Either way the provider is told 200.
Duplicate(h) ==
  /\ h \in raw
  /\ answered' = answered \union {h}
  /\ UNCHANGED <<delivery, raw, rawOnly>>

KeepRawOnly(h) ==
  /\ h \notin raw
  /\ ~registered
  /\ raw' = raw \union {h}
  /\ answered' = answered \union {h}
  /\ rawOnly' = rawOnly \union {h}
  /\ UNCHANGED delivery

Accept(a, h) ==
  /\ h \notin raw
  /\ registered
  /\ delivery[a] = Free
  /\ delivery' = [delivery EXCEPT ![a] = [hook |-> h, todo |-> "event"]]
  /\ UNCHANGED <<raw, answered, rawOnly>>

Deliver(a, h) ==
  /\ h \notin answered
  /\ Duplicate(h) \/ KeepRawOnly(h) \/ Accept(a, h)
  /\ UNCHANGED <<logVars, registered, unsubVars, localVars, faults>>

\* The writes of an accepted hook, in order.
RawFirst(h)   == "raw"  \* mutant: the suppression event is forgotten
AfterEvent(h) == IF Suppressing(h) THEN "suppression" ELSE "raw"

HookNextId(a) ==
  /\ delivery[a].todo \in {"event", "suppression"}
  /\ NextId(a)
  /\ UNCHANGED <<hookVars, unsubVars, localVars, faults>>

HookPutItem(a) ==
  LET h == delivery[a].hook
  IN  /\ \/ /\ delivery[a].todo = "event"
            /\ PutItem(a, EventItem(h))
            /\ delivery' = [delivery EXCEPT ![a].todo = AfterEvent(h)]
         \/ /\ delivery[a].todo = "suppression"
            /\ PutItem(a, SuppItem(h))
            /\ delivery' = [delivery EXCEPT ![a].todo = "raw"]
      /\ UNCHANGED <<registered, raw, answered, rawOnly, unsubVars, localVars, faults>>

PutRaw(a) ==
  /\ delivery[a].todo = "raw"
  /\ raw' = raw \union {delivery[a].hook}
  /\ answered' = answered \union {delivery[a].hook}
  /\ delivery' = [delivery EXCEPT ![a] = Free]
  /\ UNCHANGED <<logVars, registered, rawOnly, unsubVars, localVars, faults>>

\* The request breaks, or works to the end unheard: the provider repeats it.
BreakHook(a) ==
  /\ delivery[a] # Free
  /\ Fault
  /\ Abandon(a)
  /\ delivery' = [delivery EXCEPT ![a] = Free]
  /\ raw' \in {raw} \union (IF delivery[a].todo = "raw" THEN {raw \union {delivery[a].hook}} ELSE {})
  /\ UNCHANGED <<registered, answered, rawOnly, unsubVars, localVars>>

Hook(a) == HookNextId(a) \/ HookPutItem(a) \/ PutRaw(a)

-----------------------------------------------------------------------------
(* POST /u/{token} and put_unsub                                           *)

NewOnly(c, scope) == unsub[c] = "none"  \* mutant: an upgrade is not logged
Logged(c, scope)  == unsub[c] = "none" \/ scope = "all"

\* The cache row: written if new, its scope raised if not.  A promotional
\* request for a known person changes nothing and is not logged.
Ask(u, c, scope) ==
  /\ ask[u] = None
  /\ asks < MaxAsks
  /\ asks' = asks + 1
  /\ unsub' = [unsub EXCEPT ![c] = IF @ = "none" \/ scope = "all" THEN scope ELSE @]
  /\ IF Logged(c, scope)
       THEN /\ ask' = [ask EXCEPT ![u] = [at |-> clock, who |-> c, scope |-> scope]]
            /\ UNCHANGED accepted
       ELSE /\ accepted' = accepted \union {<<c, scope>>}
            /\ UNCHANGED ask
  /\ UNCHANGED <<logVars, hookVars, unsubLog, missed, clock, localVars, faults>>

Key(row) == <<row.at, row.who>>

Past(k, cursor_) == k[1] > cursor_[1] \/ (k[1] = cursor_[1] /\ k[2] > cursor_[2])

KeepBoth(row) == unsubLog  \* mutant: the row of a key is not replaced
Others(row)   == {r \in unsubLog : Key(r) # Key(row)}

\* The log row, which replaces one of the same second and person.
LogUnsub(u) ==
  LET row == ask[u]
      \* the rows already given to t, by its cursor or in its open page
      given(t) == ~Past(Key(row), unsubCursor[t])
                  \/ \E r \in unsubPage[t].rows : ~Past(Key(row), Key(r))
  IN  /\ row # None
      /\ unsubLog' = Others(row) \union {row}
      /\ missed' = missed \union {<<t, row>> : t \in {v \in Readers : given(v)}}
      /\ accepted' = accepted \union {<<row.who, row.scope>>}
      /\ ask' = [ask EXCEPT ![u] = None]
      /\ UNCHANGED <<logVars, hookVars, unsub, asks, clock, localVars, faults>>

BreakAsk(u) ==
  /\ ask[u] # None
  /\ Fault
  /\ ask' = [ask EXCEPT ![u] = None]
  /\ UNCHANGED <<logVars, hookVars, unsub, unsubLog, accepted, asks, clock, missed, localVars>>

Tick ==
  /\ clock < MaxTime
  /\ clock' = clock + 1
  /\ UNCHANGED <<logVars, hookVars, unsub, unsubLog, ask, accepted, asks, missed, localVars, faults>>

-----------------------------------------------------------------------------
(* The terminal: the pull loop                                             *)

UnsubsSince(cursor_) ==
  LET later == {r \in unsubLog : Past(Key(r), cursor_)}
  IN  {r \in later : Cardinality({s \in later : Past(Key(r), Key(s))}) < UnsubLimit}

Pull(t) ==
  /\ unsubPage[t] = NoUnsubs
  /\ PullEvents(t)
  /\ unsubPage' = [unsubPage EXCEPT ![t] =
                    [phase |-> "merge", rows |-> UnsubsSince(unsubCursor[t])]]
  /\ UNCHANGED <<hookVars, unsubVars, unsubCursor, known, status, supp, done, skipped, faults>>

PullStep(t) ==
  /\ ApplyEvent(t) \/ SetCursor(t)
  /\ UNCHANGED <<hookVars, unsubVars, localVars, faults>>

MergedLast(old, scope) == scope  \* mutant: the last one merged wins
KeptFirst(old, scope)  == IF old = "none" THEN scope ELSE old  \* mutant: no upgrade
Merged(old, scope) ==
  IF old = "none" \/ (scope = "all" /\ old = "promotional") THEN scope ELSE old

\* The rows of one page that concern a person, the last of them by key last.
MergeUnsubs(t) ==
  LET scopes(c) == {r.scope : r \in {s \in unsubPage[t].rows : s.who = c}}
      after(c)  == IF scopes(c) = {} THEN supp[t][c]
                   ELSE IF "all" \in scopes(c) THEN Merged(supp[t][c], "all")
                   ELSE Merged(supp[t][c], "promotional")
  IN  /\ ~page[t].open
      /\ unsubPage[t].phase = "merge"
      /\ supp' = [supp EXCEPT ![t] = [c \in People |-> after(c)]]
      /\ unsubPage' = [unsubPage EXCEPT ![t].phase = "cursor"]
      /\ UNCHANGED <<logVars, hookVars, unsubVars, unsubCursor, known, status, done, skipped, faults>>

SetUnsubCursor(t) ==
  /\ unsubPage[t].phase = "cursor"
  /\ \/ unsubPage[t].rows = {} /\ UNCHANGED unsubCursor
     \/ \E last \in unsubPage[t].rows :
          /\ \A r \in unsubPage[t].rows : ~Past(Key(r), Key(last))
          /\ unsubCursor' = [unsubCursor EXCEPT ![t] = Key(last)]
  /\ unsubPage' = [unsubPage EXCEPT ![t] = NoUnsubs]
  /\ UNCHANGED <<logVars, hookVars, unsubVars, known, status, supp, done, skipped, faults>>

\* The pull breaks, or the terminal restarts.
LosePull(t) ==
  /\ Fault
  /\ \/ BreakPull(t)
     \/ ~page[t].open /\ unsubPage[t] # NoUnsubs /\ UNCHANGED logVars
  /\ unsubPage' = [unsubPage EXCEPT ![t] = NoUnsubs]
  /\ UNCHANGED <<hookVars, unsubVars, unsubCursor, known, status, supp, done, skipped>>

-----------------------------------------------------------------------------
(* The terminal: outcomes, materialiser and operator                       *)

\* The outcomes loop stores the message id of a sent mail.
LearnMessage(t, c) ==
  /\ c \notin known[t]
  /\ known' = [known EXCEPT ![t] = @ \union {c}]
  /\ UNCHANGED <<logVars, hookVars, unsubVars, unsubCursor, unsubPage, status, supp, done, skipped, faults>>

\* INSERT OR IGNORE: an existing row is left as it is.
Inserted(old, reason) == IF old = "none" THEN reason ELSE old

StatusAfter(old, type) ==
  IF type = "unsubscribed" \/ (old \in {"bounced", "complained"} /\ type = "clicked")
  THEN old ELSE type

Effect(t, e) ==
  LET h == e.item.hook
  IN  IF e.item = SuppItem(h)
        THEN /\ supp' = [supp EXCEPT ![t][h.who] =
                          Inserted(@, IF h.type = "unsubscribed" THEN "all" ELSE "blocked")]
             /\ UNCHANGED status
      ELSE IF h.who \in known[t]
        THEN /\ status' = [status EXCEPT ![t][h.who] = StatusAfter(@, h.type)]
             /\ supp' = IF h.type = "bounced" THEN [supp EXCEPT ![t][h.who] = Inserted(@, "blocked")]
                                              ELSE supp
      ELSE UNCHANGED <<status, supp>>

\* The oldest inbox rows not materialised, up to the batch limit.
Batch(t) ==
  LET new == inbox[t] \ done[t]
  IN  {e \in new : Cardinality({f \in new : f.id < e.id}) < BatchLimit}

NextOf(t) == {e \in Batch(t) \ skipped[t] : \A f \in Batch(t) \ skipped[t] : e.id <= f.id}

\* One row: its effect is committed, then its mark; a crash may part them.
Materialise(t) ==
  /\ \E e \in NextOf(t) :
       /\ Effect(t, e)
       /\ \/ done' = [done EXCEPT ![t] = @ \union {e}] /\ UNCHANGED faults
          \/ Fault /\ UNCHANGED done
  /\ UNCHANGED <<logVars, hookVars, unsubVars, unsubCursor, unsubPage, known, skipped>>

\* A row that cannot be opened is left for the next batch.
FailRow(t) ==
  /\ Fault
  /\ \E e \in NextOf(t) : skipped' = [skipped EXCEPT ![t] = @ \union {e}]
  /\ UNCHANGED <<logVars, hookVars, unsubVars, unsubCursor, unsubPage, known, status, supp, done>>

NextBatch(t) ==
  /\ skipped[t] # {}
  /\ NextOf(t) = {}
  /\ skipped' = [skipped EXCEPT ![t] = {}]
  /\ UNCHANGED <<logVars, hookVars, unsubVars, unsubCursor, unsubPage, known, status, supp, done, faults>>

SuppressByHand(t, c) ==
  /\ asks < MaxAsks
  /\ asks' = asks + 1
  /\ supp' = [supp EXCEPT ![t][c] = Inserted(@, "blocked")]
  /\ UNCHANGED <<logVars, hookVars, unsub, unsubLog, ask, accepted, clock, missed,
                 unsubCursor, unsubPage, known, status, done, skipped, faults>>

-----------------------------------------------------------------------------
PullLoop(t)    == Pull(t) \/ PullStep(t) \/ MergeUnsubs(t) \/ SetUnsubCursor(t)
Materialiser(t) == Materialise(t) \/ NextBatch(t)

FeedNext ==
  \/ Register
  \/ \E a \in Appenders : (\E h \in Hooks : Deliver(a, h)) \/ Hook(a) \/ BreakHook(a)
  \/ \E u \in Askers :
       \/ \E c \in People, scope \in Scopes : Ask(u, c, scope)
       \/ LogUnsub(u) \/ BreakAsk(u)
  \/ Tick
  \/ \E t \in Readers :
       \/ PullLoop(t) \/ LosePull(t)
       \/ Materialiser(t) \/ FailRow(t)
       \/ \E c \in People : LearnMessage(t, c) \/ SuppressByHand(t, c)

FeedSpec == FeedInit /\ [][FeedNext]_feedVars

\* The terminal's loops run for ever; faults are finitely many.
FeedFairness ==
  \A t \in Readers : WF_feedVars(PullLoop(t)) /\ WF_feedVars(Materialiser(t))

FeedFairSpec == FeedSpec /\ FeedFairness

-----------------------------------------------------------------------------
\* A webhook the provider was told is accepted is in the event log, and so is
\* the suppression it calls for, unless it came before both keys were
\* registered.  The svix id is recorded last, so a request that breaks is
\* repeated rather than taken for a duplicate.
AckedIsLogged ==
  \A h \in answered \ rawOnly :
    /\ \E e \in log : e.item = EventItem(h)
    /\ Suppressing(h) => \E e \in log : e.item.row = <<"suppression", h.who>>

\* The kinds of mail a suppression row stops.
Blocks(s) ==
  CASE s = "none" -> {}
    [] s = "promotional" -> {"promotional"}
    [] OTHER -> {"promotional", "transactional"}

\* No step, replay or late page ever lets mail through again that was stopped.
SuppressionOnlyGrows ==
  [][\A t \in Readers, c \in People : Blocks(supp[t][c]) \subseteq Blocks(supp'[t][c])]_feedVars

\* Every unsubscribe the cursor has passed is honoured, unless its row was
\* written at or before a key the terminal had already read.
UnsubHonoured ==
  \A t \in Readers : \A r \in unsubLog :
    ~Past(Key(r), unsubCursor[t]) =>
      Blocks(r.scope) \subseteq Blocks(supp[t][r.who]) \/ <<t, r>> \in missed

\* An unsubscribe from everything that the page confirmed stops all mail at
\* every terminal in the end, with the same exception.
UnsubReachesTerminal ==
  \A t \in Readers, c \in People :
    <<c, "all">> \in accepted ~>
      \/ Blocks(supp[t][c]) = {"promotional", "transactional"}
      \/ \E r \in unsubLog : r.who = c /\ <<t, r>> \in missed

\* A bounce, complaint or unsubscribe of which the provider was told 200 ends
\* in the suppression list of every terminal: through the log, the pull, the
\* inbox and the materialiser, whatever breaks on the way.  Exceptions: a hook
\* kept as a raw row only, and an event written behind a pull.
HookReachesTerminal ==
  \A t \in Readers, h \in {g \in Hooks : Suppressing(g)} :
    h \in answered \ rawOnly ~>
      \/ supp[t][h.who] # "none"
      \/ \E e \in log : e.item.row = <<"suppression", h.who>> /\ <<t, e.id>> \in overtaken
=============================================================================
