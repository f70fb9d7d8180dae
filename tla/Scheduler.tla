----------------------------- MODULE Scheduler ------------------------------
(***************************************************************************)
(* The scheduler of a terminal (sync_client.py) and the contact lock       *)
(* (campaign_lock.py), with the parts of launch.py and of the operator's   *)
(* routes that change what they read.                                      *)
(*                                                                         *)
(* A tick confirms elapsed locks, lists the due campaigns, launches them   *)
(* one by one, cancels the stages of closed campaigns, lists and launches  *)
(* the due stages, and fails what has an unreadable time.  Each launch     *)
(* waits for the key and then for the push, and operators go on pressing   *)
(* buttons meanwhile: what a tick has listed may have changed when it is   *)
(* reached.  A launch is two steps here, as far as the key and as far as   *)
(* the push; what it sends is the subject of SendPath.                     *)
(***************************************************************************)
EXTENDS Integers, FiniteSets

CONSTANTS
  Campaigns, Stages,   \* by number
  CampaignOf,          \* the campaign of a stage
  Recipients,          \* the contacts of a campaign
  Initial,             \* campaigns as they may be at first
  InitialStage,        \* and stages
  MaxPresses,          \* bound: buttons pressed
  MaxClicks,           \* bound: clicks
  MaxStops             \* bound: restarts, launches without bearer

Status   == {"draft", "tested", "scheduled", "dispatched", "failed", "paused", "cancelled", "archived"}
Times    == {"none", "later", "past", "unreadable"}
Campaign == [status : Status, due : Times, test : {"none", "good", "edited"}, edit : Nat]
Stage    == [status : {"none", "pending", "dispatched", "failed", "cancelled", "deleted"},
             due : Times, sent : BOOLEAN]

ASSUME SchedulerAssumption ==
  /\ Campaigns \subseteq Nat \ {0} /\ Stages \subseteq Nat \ {0}
  /\ CampaignOf \in [Stages -> Campaigns]
  /\ Initial \subseteq Campaign /\ InitialStage \subseteq Stage
  /\ MaxPresses \in Nat /\ MaxClicks \in Nat /\ MaxStops \in Nat

VARIABLES
  camp,       \* campaigns: status, scheduled_for, test, updated_at
  stage,      \* campaign_stages: status, scheduled_for
  lock,       \* lock_until and unsubs_confirmed_at
  pulled,     \* unconfirmed campaigns dispatched before the last good pull
  clicked,    \* recipients with clicked_at
  marker,     \* campaigns with an unfinished send
  streak,     \* the newest audit row with a streak_start
  tick,       \* where the scheduler is, and what it has listed
  launch,     \* the scheduler's launch and an operator's
  presses, stops,
  calm,       \* campaigns nobody has changed for a day
  mailed,     \* stages whose push has begun
  cut,        \* stages whose push a restart cut off
  raced       \* pairs of campaigns whose launches ran side by side

schedVars == <<camp, stage, lock, pulled, clicked, marker, streak, tick, launch,
               presses, stops, calm, mailed, cut, raced>>
ghosts    == <<calm, mailed, cut, raced>>
lockVars  == <<lock, pulled, clicked>>

Actors   == {"scheduler", "operator"}
AnyEdit  == -1

NoLaunch == [at |-> "rest", c |-> 0, s |-> 0, from |-> "draft", due |-> "none"]
AtRest   == [at |-> "rest", todo |-> {}, c |-> 0, error |-> "none", since |-> AnyEdit]

SchedTypeOK ==
  /\ camp \in [Campaigns -> Campaign]
  /\ stage \in [Stages -> Stage]
  /\ lock \in [Campaigns -> {"none", "running", "elapsed", "confirmed"}]
  /\ pulled \subseteq Campaigns /\ marker \subseteq Campaigns /\ calm \subseteq Campaigns
  /\ \A x \in clicked : x[1] \in Campaigns /\ x[2] \in Recipients[x[1]]
  /\ streak \in [Campaigns -> [edit : Nat \union {AnyEdit}, old : BOOLEAN]]
  /\ tick \in [at : {"rest", "campaigns", "judge", "refuse", "closed", "stages", "unreadable"},
               todo : SUBSET (Campaigns \union Stages), c : Campaigns \union {0},
               error : {"none", "final", "retry", "unexpected"}, since : Nat \union {AnyEdit}]
  /\ launch \in [Actors -> [at : {"rest", "key", "push"}, c : Campaigns \union {0},
                            s : Stages \union {0}, from : Status, due : Times]]
  /\ presses \in 0..MaxPresses /\ stops \in 0..MaxStops
  /\ mailed \subseteq Stages /\ cut \subseteq Stages
  /\ raced \subseteq SUBSET Campaigns

SchedInit ==
  /\ camp \in [Campaigns -> Initial]
  /\ stage \in [Stages -> InitialStage]
  /\ lock = [c \in Campaigns |-> "none"]
  /\ pulled = {} /\ clicked = {} /\ marker = {}
  /\ streak = [c \in Campaigns |-> [edit |-> AnyEdit, old |-> FALSE]]
  /\ tick = AtRest
  /\ launch = [a \in Actors |-> NoLaunch]
  /\ presses = 0 /\ stops = 0
  /\ calm = {} /\ mailed = {} /\ cut = {} /\ raced = {}

Closed   == {"archived", "cancelled"}
Inactive == Closed \union {"paused", "draft"}
StatusOf(s) == camp[CampaignOf[s]].status

\* A write to a campaign that sets updated_at.
Write(c, new) ==
  /\ camp' = [camp EXCEPT ![c] = [new EXCEPT !.edit = camp[c].edit + 1]]
  /\ calm' = calm \ {c}

-----------------------------------------------------------------------------
(* Time, pulls, clicks                                                     *)

ComesDue(c) ==
  /\ camp[c].due = "later"
  /\ camp' = [camp EXCEPT ![c].due = "past"]
  /\ UNCHANGED <<stage, lockVars, marker, streak, tick, launch, presses, stops, ghosts>>

StageComesDue(s) ==
  /\ stage[s].due = "later"
  /\ stage' = [stage EXCEPT ![s].due = "past"]
  /\ UNCHANGED <<camp, lockVars, marker, streak, tick, launch, presses, stops, ghosts>>

\* 24 hours, _RETRY_GIVE_UP_S.
DayPasses ==
  /\ streak' = [c \in Campaigns |-> [streak[c] EXCEPT !.old = streak[c].edit # AnyEdit]]
  /\ calm' = Campaigns
  /\ UNCHANGED <<camp, stage, lockVars, marker, tick, launch, presses, stops, mailed, cut, raced>>

LockElapses(c) ==
  /\ lock[c] = "running"
  /\ lock' = [lock EXCEPT ![c] = "elapsed"]
  /\ UNCHANGED <<camp, stage, pulled, clicked, marker, streak, tick, launch, presses, stops, ghosts>>

GoodPull ==
  /\ pulled' = {c \in Campaigns : lock[c] \in {"running", "elapsed"}}
  /\ UNCHANGED <<camp, stage, lock, clicked, marker, streak, tick, launch, presses, stops, ghosts>>

Click(c, r) ==
  /\ lock[c] # "none" /\ Cardinality(clicked) < MaxClicks
  /\ clicked' = clicked \union {<<c, r>>}
  /\ UNCHANGED <<camp, stage, lock, pulled, marker, streak, tick, launch, presses, stops, ghosts>>

-----------------------------------------------------------------------------
(* The operator                                                            *)

Press == presses < MaxPresses /\ presses' = presses + 1

Pushing(c) == \E a \in Actors : launch[a].at = "push" /\ launch[a].c = c /\ launch[a].s = 0

MarkTested(c) == Write(c, [camp[c] EXCEPT !.test = "good",
                             !.status = IF @ = "scheduled" THEN @ ELSE "tested"])
Schedule(c) ==
  /\ camp[c].status = "tested" /\ camp[c].test = "good" /\ c \notin marker
  /\ Write(c, [camp[c] EXCEPT !.status = "scheduled", !.due = "later"])
Pause(c) ==
  /\ camp[c].status \in {"scheduled", "dispatched", "tested"}
  /\ Write(c, [camp[c] EXCEPT !.status = "paused"])
Resume(c) ==
  /\ camp[c].status = "paused"
  /\ Write(c, [camp[c] EXCEPT !.status = IF camp[c].test = "none" THEN "draft" ELSE "tested"])
EditCampaign(c) ==
  \E due \in {camp[c].due, "later", "past"} : Write(c, [camp[c] EXCEPT !.due = due])
\* It resets failed recipients, if there are any, whatever the status.
RetryFailed(c) == lock[c] # "none" /\ Write(c, [camp[c] EXCEPT !.status = "tested"])
Archive(c) == Write(c, [camp[c] EXCEPT !.status = "archived"])
Cancel(c)  == Write(c, [camp[c] EXCEPT !.status = "cancelled"])

PressCampaign(c) ==
  /\ Press
  /\ \/ /\ MarkTested(c) \/ Schedule(c) \/ Pause(c) \/ Resume(c) \/ EditCampaign(c) \/ RetryFailed(c)
        /\ UNCHANGED marker
     \/ /\ Archive(c) \/ Cancel(c)
        /\ marker' = marker \/ (~Pushing(c) /\ marker' = marker \ {c})
  /\ UNCHANGED <<stage, lockVars, streak, tick, launch, stops, mailed, cut, raced>>

EditTemplate(c) ==
  /\ Press
  /\ camp[c].test = "good"
  /\ camp' = [camp EXCEPT ![c].test = "edited"]
  /\ UNCHANGED <<stage, lockVars, marker, streak, tick, launch, stops, ghosts>>

AddStage(s) ==
  /\ stage[s].status = "none"
  /\ \E due \in {"later", "past"} :
       stage' = [stage EXCEPT ![s].status = "pending", ![s].due = due]
UpdateStage(s) ==
  /\ stage[s].status \notin {"none", "deleted"}
  /\ \E due \in {"later", "past"} : stage' = [stage EXCEPT ![s].due = due]
DeleteStage(s) ==
  /\ stage[s].status \notin {"none", "deleted"}
  /\ stage' = [stage EXCEPT ![s].status = "deleted"]

PressStage(s) ==
  /\ Press
  /\ AddStage(s) \/ UpdateStage(s) \/ DeleteStage(s)
  /\ UNCHANGED <<camp, lockVars, marker, streak, tick, launch, stops, ghosts>>

-----------------------------------------------------------------------------
(* launch_campaign                                                         *)

ClickedOf(c) == {x[2] : x \in {y \in clicked : y[1] = c}}

DispatchedOnly(c) ==  \* mutant: a paused campaign holds no lock
  IF lock[c] = "running" /\ camp[c].status = "dispatched" THEN Recipients[c] \ ClickedOf(c) ELSE {}
\* locked_contacts and find_conflicts
LockedBy(c) == IF lock[c] = "running" THEN Recipients[c] \ ClickedOf(c) ELSE {}
Conflict(c) == \E d \in Campaigns \ {c} : LockedBy(d) \intersect Recipients[c] # {}

Stop == stops < MaxStops /\ stops' = stops + 1

\* What launch_campaign may raise before it waits for the key.
RaisesAtOnce(c, s, error) ==
  \/ error = "retry" /\ s # 0 /\ StatusOf(s) \in Closed /\ UNCHANGED stops
  \/ error = "retry" /\ Stop
  \/ error = "final" /\ UNCHANGED stops
  \/ error = "retry" /\ s = 0 /\ Conflict(c) /\ UNCHANGED stops

\* Nothing is in the way: the launch waits for the key.
BeginLaunch(a, c, s) ==
  /\ IF s = 0 THEN /\ camp[c].status \in {"tested", "scheduled"} /\ camp[c].test = "good"
                   /\ ~Conflict(c)
              ELSE StatusOf(s) \notin Closed
  /\ launch' = [launch EXCEPT ![a] =
       [at |-> "key", c |-> c, s |-> s, from |-> camp[c].status,
        due |-> IF s = 0 THEN camp[c].due ELSE stage[s].due]]

\* The key is there.  The status is not read again.
HasKey(a) ==
  LET c == launch[a].c  s == launch[a].s
  IN  /\ launch[a].at = "key"
      /\ launch' = [launch EXCEPT ![a].at = "push"]
      /\ IF s = 0
           THEN /\ Write(c, [camp[c] EXCEPT !.status = "dispatched"])
                /\ lock' = [lock EXCEPT ![c] = "running"]
                /\ pulled' = pulled \ {c}
                /\ marker' = marker \union {c}
                /\ raced' = raced \union {{c, launch[b].c} : b \in {b \in Actors \ {a} :
                              launch[b].at # "rest" /\ launch[b].s = 0}}
                /\ UNCHANGED mailed
           ELSE /\ mailed' = mailed \union {s}
                /\ UNCHANGED <<camp, calm, lock, pulled, marker, raced>>
      /\ UNCHANGED <<stage, clicked, streak, tick, presses, stops, cut>>

\* The push is acknowledged and recorded.
Pushed(a) ==
  LET c == launch[a].c  s == launch[a].s
  IN  /\ launch[a].at = "push"
      /\ launch' = [launch EXCEPT ![a] = NoLaunch]
      /\ IF s = 0 THEN marker' = marker \ {c} /\ UNCHANGED stage
                  ELSE /\ stage' = IF stage[s].status = "deleted" THEN stage
                                   ELSE [stage EXCEPT ![s].status = "dispatched"]
                       /\ UNCHANGED marker
      /\ UNCHANGED <<camp, lockVars, streak, tick, presses, stops, ghosts>>

OperatorLaunch(c) ==
  /\ launch["operator"] = NoLaunch
  /\ Press
  /\ BeginLaunch("operator", c, 0)
  /\ UNCHANGED <<camp, stage, lockVars, marker, streak, tick, stops, ghosts>>

OperatorFails ==
  /\ launch["operator"] # NoLaunch
  /\ launch' = [launch EXCEPT !["operator"] = NoLaunch]
  /\ UNCHANGED <<camp, stage, lockVars, marker, streak, tick, presses, stops, ghosts>>

-----------------------------------------------------------------------------
(* scheduler_tick: campaigns                                               *)

Idle == launch["scheduler"] = NoLaunch

\* A lock is confirmed when it has elapsed and a pull has succeeded since the dispatch.
Confirmed == {c \in pulled : lock[c] = "elapsed"}

\* confirm_elapsed_locks, and the list of due campaigns.
Due(c) == camp[c].status = "scheduled" /\ camp[c].due = "past"

StartTick ==
  /\ tick = AtRest
  /\ lock' = [c \in Campaigns |-> IF c \in Confirmed THEN "confirmed" ELSE lock[c]]
  /\ pulled' = pulled \ Confirmed
  /\ tick' = [AtRest EXCEPT !.at = "campaigns", !.todo = {c \in Campaigns : Due(c)}]
  /\ UNCHANGED <<camp, stage, clicked, marker, streak, launch, presses, stops, ghosts>>

LaunchCampaign(c) ==
  /\ tick.at = "campaigns" /\ Idle
  /\ c \in tick.todo /\ \A d \in tick.todo : c <= d
  /\ \/ /\ BeginLaunch("scheduler", c, 0)
        /\ tick' = [tick EXCEPT !.todo = @ \ {c}]
        /\ UNCHANGED stops
     \/ \E error \in {"final", "retry"} :
          /\ RaisesAtOnce(c, 0, error)
          /\ tick' = [tick EXCEPT !.at = "judge", !.todo = @ \ {c}, !.c = c, !.error = error]
          /\ UNCHANGED launch
  /\ UNCHANGED <<camp, stage, lockVars, marker, streak, presses, ghosts>>

\* The key cannot be had, or the push or its recording fails.
CampaignFails ==
  LET l == launch["scheduler"]
  IN  /\ ~Idle /\ l.s = 0
      /\ \E error \in {"unexpected", "final"} :
           tick' = [tick EXCEPT !.at = "judge", !.c = l.c, !.error = error]
      /\ launch' = [launch EXCEPT !["scheduler"] = NoLaunch]
      /\ UNCHANGED <<camp, stage, lockVars, marker, streak, presses, stops, ghosts>>

AnyStreak(c) == streak[c].edit # AnyEdit  \* mutant: an older streak goes on after a change
NoStreak(c)  == FALSE                     \* mutant: every error starts a new streak
\* _streak: the newest row counts as long as updated_at is the one it was written with.
SameStreak(c) == streak[c].edit = camp[c].edit

NextCampaign == [AtRest EXCEPT !.at = "campaigns", !.todo = tick.todo]

\* What the scheduler makes of an error: try again at the next tick, or refuse.
Judge ==
  LET c == tick.c
      retry == tick.error # "final" /\ camp[c].status = "scheduled"
      old   == SameStreak(c) /\ streak[c].old
  IN  /\ tick.at = "judge"
      /\ \/ /\ ~retry
            /\ tick' = [tick EXCEPT !.at = "refuse"] /\ UNCHANGED streak
         \/ /\ retry /\ tick.error = "retry"
            /\ tick' = NextCampaign /\ UNCHANGED streak
         \/ /\ retry /\ tick.error = "unexpected" /\ old
            /\ tick' = [tick EXCEPT !.at = "refuse", !.since = camp[c].edit] /\ UNCHANGED streak
         \/ /\ retry /\ tick.error = "unexpected" /\ ~old
            /\ streak' = [streak EXCEPT ![c] = [edit |-> camp[c].edit, old |-> FALSE]]
            /\ tick' = NextCampaign
      /\ UNCHANGED <<camp, stage, lockVars, marker, launch, presses, stops, ghosts>>

Error   == "error"  \* mutant: a status the table does not allow
Refused == "failed"

\* _refuse_campaign
Refuse ==
  LET c == tick.c
  IN  /\ tick.at = "refuse"
      /\ IF Due(c) /\ tick.since \in {AnyEdit, camp[c].edit}
           THEN Write(c, [camp[c] EXCEPT !.status = Refused])
           ELSE UNCHANGED <<camp, calm>>
      /\ tick' = NextCampaign
      /\ UNCHANGED <<stage, lockVars, marker, streak, launch, presses, stops, mailed, cut, raced>>

-----------------------------------------------------------------------------
(* scheduler_tick: stages, unreadable times                                *)

DueStage(s) ==
  /\ stage[s].status = "pending" /\ stage[s].due = "past"
  /\ StatusOf(s) \notin Inactive /\ camp[CampaignOf[s]].test # "none"

ArchivedOnly(s) == StatusOf(s) = "archived"  \* mutant: stages of cancelled campaigns are forgotten
ToCancel(s)     == StatusOf(s) \in Closed

\* Stages of closed campaigns are listed and cancelled one by one, each if it
\* is still pending and the campaign still closed; then due stages are listed.
CancelStages ==
  /\ tick.at = "campaigns" /\ tick.todo = {} /\ Idle
  /\ stage' = [s \in Stages |-> IF stage[s].status = "pending" /\ ToCancel(s)
                                  THEN [stage[s] EXCEPT !.status = "cancelled"] ELSE stage[s]]
  /\ tick' = [tick EXCEPT !.at = "closed"]
  /\ UNCHANGED <<camp, lockVars, marker, streak, launch, presses, stops, ghosts>>

ListStages ==
  /\ tick.at = "closed"
  /\ tick' = [tick EXCEPT !.at = "stages", !.todo = {s \in Stages : DueStage(s)}]
  /\ UNCHANGED <<camp, stage, lockVars, marker, streak, launch, presses, stops, ghosts>>

TrustList(s) == TRUE  \* mutant: a listed stage is launched without looking again
\* _stage_still_due
StillDue(s) == stage[s].status = "pending" /\ StatusOf(s) \notin Inactive

FailStage(s, possiblySent) ==
  stage' = IF stage[s].status = "pending"
             THEN [stage EXCEPT ![s].status = "failed", ![s].sent = possiblySent] ELSE stage

LaunchStage(s) ==
  /\ tick.at = "stages" /\ Idle
  /\ s \in tick.todo
  /\ tick' = [tick EXCEPT !.todo = @ \ {s}]
  /\ \/ ~StillDue(s) /\ UNCHANGED <<launch, stage, stops>>
     \/ StillDue(s) /\ BeginLaunch("scheduler", CampaignOf[s], s) /\ UNCHANGED <<stage, stops>>
     \/ StillDue(s) /\ RaisesAtOnce(0, s, "retry") /\ UNCHANGED <<launch, stage>>
     \/ StillDue(s) /\ RaisesAtOnce(0, s, "final") /\ FailStage(s, FALSE) /\ UNCHANGED launch
  /\ UNCHANGED <<camp, lockVars, marker, streak, presses, ghosts>>

OnlyUnexpected(l) == FALSE  \* mutant: a push that fails counts as nothing sent
PossiblySent(l) == l.at = "push"

\* A failure of the key is an unexpected error, so possibly_sent is set; a
\* LaunchError after the key is not, unless the push has begun.
StageFails ==
  LET l == launch["scheduler"]
  IN  /\ ~Idle /\ l.s # 0
      /\ \E sent \in {PossiblySent(l), TRUE} : FailStage(l.s, sent)
      /\ launch' = [launch EXCEPT !["scheduler"] = NoLaunch]
      /\ UNCHANGED <<camp, lockVars, marker, streak, tick, presses, stops, ghosts>>

\* A time SQLite cannot read never comes due.
FailUnreadable ==
  LET bad       == {c \in Campaigns : camp[c].status = "scheduled" /\ camp[c].due = "unreadable"}
      badStages == {s \in Stages : /\ stage[s].status = "pending" /\ stage[s].due = "unreadable"
                                   /\ StatusOf(s) \notin Inactive /\ camp[CampaignOf[s]].test # "none"}
  IN  /\ tick.at = "stages" /\ tick.todo = {} /\ Idle
      /\ camp' = [c \in Campaigns |->
           IF c \in bad THEN [camp[c] EXCEPT !.status = "failed", !.edit = @ + 1] ELSE camp[c]]
      /\ calm' = calm \ bad
      /\ stage' = [s \in Stages |-> IF s \in badStages THEN [stage[s] EXCEPT !.status = "failed"] ELSE stage[s]]
      /\ tick' = AtRest
      /\ UNCHANGED <<lockVars, marker, streak, launch, presses, stops, mailed, cut, raced>>

\* The terminal stops and starts again.
Restart ==
  /\ Stop
  /\ tick' = AtRest
  /\ launch' = [a \in Actors |-> NoLaunch]
  /\ LET l == launch["scheduler"]
     IN  cut' = IF l.at = "push" /\ l.s # 0 THEN cut \union {l.s} ELSE cut
  /\ UNCHANGED <<camp, stage, lockVars, marker, streak, presses, calm, mailed, raced>>

-----------------------------------------------------------------------------
TickStep ==
  \/ StartTick
  \/ \E c \in Campaigns : LaunchCampaign(c)
  \/ CampaignFails \/ Judge \/ Refuse
  \/ CancelStages \/ ListStages
  \/ \E s \in Stages : LaunchStage(s)
  \/ StageFails \/ FailUnreadable
  \/ HasKey("scheduler") \/ Pushed("scheduler")

OperatorStep ==
  \/ \E c \in Campaigns : PressCampaign(c) \/ EditTemplate(c) \/ OperatorLaunch(c)
  \/ \E s \in Stages : PressStage(s)
  \/ HasKey("operator") \/ Pushed("operator") \/ OperatorFails

Elapse ==
  \/ \E c \in Campaigns : ComesDue(c) \/ LockElapses(c)
  \/ \E s \in Stages : StageComesDue(s)
  \/ DayPasses

SchedNext ==
  \/ TickStep \/ OperatorStep \/ Elapse \/ Restart \/ GoodPull
  \/ \E c \in Campaigns : \E r \in Recipients[c] : Click(c, r)

SchedSpec == SchedInit /\ [][SchedNext]_schedVars

\* The loop goes on, a key or a push is answered or fails, and time passes.
\* Nothing is assumed of operators, of pulls, or that any launch succeeds.
SchedFairness ==
  /\ WF_schedVars(TickStep)
  /\ WF_schedVars(DayPasses)
  /\ \A c \in Campaigns : WF_schedVars(LockElapses(c))

SchedFairSpec == SchedSpec /\ SchedFairness

-----------------------------------------------------------------------------
\* A campaign is given up for unexpected errors only if nobody has changed it
\* for a day: an edit, a pause, a launch in between ends the streak, whether
\* it comes between two errors or between the last error and the refusal.
RefusedAfterQuietDay ==
  [][\A c \in Campaigns :
       tick.at = "refuse" /\ tick.since # AnyEdit
         /\ camp[c].status = "scheduled" /\ camp'[c].status = "failed" => c \in calm]_schedVars

\* A stage's launch begins only while its campaign is neither closed nor
\* paused, however long ago the tick listed it.
StopWins == launch["scheduler"].s # 0 => launch["scheduler"].from \notin Inactive

\* What the audit trail says of a stage that was not sent is true: a cancelled
\* stage, or a failed one not marked possibly_sent, has pushed nothing, unless
\* a restart cut its push off.
StageWordTrue ==
  \A s \in mailed \ cut :
    stage[s].status # "cancelled" /\ (stage[s].status = "failed" => stage[s].sent)

\* Two running campaigns hold the same contact only if their launches ran side
\* by side: the lock is looked up before the key is awaited, and taken after.
LockExclusive ==
  \A c, d \in Campaigns : \A r \in Recipients[c] \intersect Recipients[d] :
    /\ c # d /\ lock[c] = "running" /\ lock[d] = "running"
    /\ {<<c, r>>, <<d, r>>} \intersect clicked = {}
    => {c, d} \in raced

\* A campaign does not stay due: it is launched or refused, or an operator
\* changes it, though every launch may fail.
DueCampaignEnds == \A c \in Campaigns : Due(c) ~> ~Due(c)

\* Nor does a stage that is due, or that belongs to a closed campaign, stay pending.
OwedStage(s) ==
  \/ DueStage(s)
  \/ stage[s].status = "pending" /\ StatusOf(s) \in Closed
OwedStageEnds == \A s \in Stages : OwedStage(s) ~> ~OwedStage(s)

\* "Fire scheduled campaigns + pending stages when their time has passed":
\* the scheduler launches nothing whose time has not.
NothingEarly == launch["scheduler"].at # "rest" => launch["scheduler"].due = "past"

\* "It locks its contacts until BOTH: its confirmation window has elapsed AND
\* an unsub pull has completed after the dispatch"; or until they click.
\* It is claimed of launches that did not run side by side.
LockedUntilPulled ==
  [][\A c, d \in Campaigns :
       /\ c # d /\ lock[c] # "running" /\ lock'[c] = "running" /\ lock[d] \in {"running", "elapsed"}
       /\ d \notin pulled
       /\ {c, d} \notin raced'
       => Recipients[c] \intersect Recipients[d] \subseteq ClickedOf(d)]_schedVars
=============================================================================
