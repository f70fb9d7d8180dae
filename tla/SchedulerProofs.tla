-------------------------- MODULE SchedulerProofs --------------------------
(***************************************************************************)
(* What the scheduler promises beside its operator, for any campaigns,     *)
(* stages, contacts, presses, clicks and restarts.                         *)
(*                                                                         *)
(* Three groups of facts, about parts of the state that hardly meet, carry *)
(* the four results.  StagesInv: a stage that is being launched is pending *)
(* or deleted, and one whose mail has begun is never pending otherwise.    *)
(* LocksInv: a launch that waits overlaps no running campaign but those    *)
(* whose launch ran beside it.  StreaksInv: a streak of errors that is     *)
(* still valid and a day old is of a campaign nobody changed for a day.    *)
(***************************************************************************)
EXTENDS Scheduler, TLAPS

USE DEF Actors

(* A launch or an error that is waiting names its campaign.                 *)
Named ==
  /\ \A a \in Actors : launch[a] = NoLaunch \/ (launch[a].at # "rest" /\ launch[a].c \in Campaigns)
  /\ tick.at \in {"judge", "refuse"} => tick.c \in Campaigns

Shape == SchedTypeOK /\ Named

StageLaunch == launch["scheduler"]

MailedStages ==
  \A s \in mailed \ cut :
    \/ stage[s].status \in {"dispatched", "deleted"}
    \/ stage[s].status = "failed" /\ stage[s].sent
    \/ stage[s].status = "pending" /\ StageLaunch.s = s /\ StageLaunch.at = "push"

StagesInv ==
  /\ launch["operator"].s = 0
  /\ StopWins
  /\ StageLaunch.s # 0 => stage[StageLaunch.s].status \in {"pending", "deleted"}
  /\ MailedStages

LaunchesFree ==
  \A a \in Actors : launch[a].at # "rest" /\ launch[a].s = 0 =>
    \A d \in Campaigns : d # launch[a].c /\ lock[d] = "running" =>
      \A r \in Recipients[d] \intersect Recipients[launch[a].c] :
        <<d, r>> \in clicked \/ {launch[a].c, d} \in raced

LocksInv == LaunchesFree /\ LockExclusive /\ \A x \in clicked : x = <<x[1], x[2]>>

(* The tick stands still while its launch waits, and holds an edit to give  *)
(* up only on the way to the refusal.                                       *)
StreaksInv ==
  /\ launch["scheduler"] # NoLaunch => tick.at \in {"campaigns", "stages"}
  /\ tick.at # "refuse" => tick.since = AnyEdit
  /\ \A c \in Campaigns :
       /\ streak[c].edit <= camp[c].edit
       /\ streak[c].edit = camp[c].edit /\ streak[c].old => c \in calm
  /\ tick.at = "refuse" /\ tick.since # AnyEdit =>
       /\ tick.since <= camp[tick.c].edit
       /\ tick.since = camp[tick.c].edit => tick.c \in calm

SchedIInv == Shape /\ StagesInv /\ LocksInv /\ StreaksInv

LaunchRow == [at : {"rest", "key", "push"}, c : Campaigns \union {0},
              s : Stages \union {0}, from : Status, due : Times]
TickRow   == [at : {"rest", "campaigns", "judge", "refuse", "closed", "stages", "unreadable"},
              todo : SUBSET (Campaigns \union Stages), c : Campaigns \union {0},
              error : {"none", "final", "retry", "unexpected"}, since : Nat \union {AnyEdit}]

LEMMA Types ==
  ASSUME SchedTypeOK
  PROVE  /\ \A c \in Campaigns : camp[c] \in Campaign
         /\ \A s \in Stages : stage[s] \in Stage /\ CampaignOf[s] \in Campaigns /\ s # 0
         /\ \A c \in Campaigns : c # 0
         /\ \A a \in Actors : launch[a] \in LaunchRow
         /\ tick \in TickRow
         /\ \A c \in Campaigns : streak[c] \in [edit : Nat \union {AnyEdit}, old : BOOLEAN]
BY SchedulerAssumption DEF SchedTypeOK, LaunchRow, TickRow

LEMMA SchedInitial ==
  ASSUME SchedInit
  PROVE  SchedIInv
<1>1. /\ \A c \in Campaigns : camp[c] \in Campaign
      /\ \A s \in Stages : stage[s] \in Stage
      /\ camp \in [Campaigns -> Campaign] /\ stage \in [Stages -> Stage]
  BY SchedulerAssumption DEF SchedInit
<1>2. SchedTypeOK
  BY <1>1, SchedulerAssumption DEF SchedInit, SchedTypeOK, AtRest, NoLaunch, AnyEdit, Status, Times
<1>3. StagesInv /\ LocksInv
  BY DEF SchedInit, StagesInv, StopWins, StageLaunch, MailedStages, LocksInv, LaunchesFree,
         LockExclusive, NoLaunch
<1>4. StreaksInv
  BY <1>1 DEF SchedInit, StreaksInv, AtRest, AnyEdit, Campaign
<1>5. Named
  <2>1. \A a \in Actors : launch[a] = NoLaunch
    BY DEF SchedInit
  <2>2. tick.at = "rest"
    <3>1. tick = AtRest
      BY DEF SchedInit
    <3>2. AtRest.at = "rest"
      BY DEF AtRest
    <3> QED BY <3>1, <3>2
  <2> QED BY <2>1, <2>2 DEF Named
<1> QED BY <1>2, <1>3, <1>4, <1>5 DEF SchedIInv, Shape

-----------------------------------------------------------------------------
(* Types                                                                    *)

LEMMA WriteType ==
  ASSUME SchedTypeOK, NEW c \in Campaigns, NEW new \in Campaign, Write(c, new)
  PROVE  camp' \in [Campaigns -> Campaign] /\ calm' \subseteq Campaigns
<1>1. [new EXCEPT !.edit = camp[c].edit + 1] \in Campaign
  BY Types DEF Campaign
<1> QED BY <1>1 DEF Write, SchedTypeOK

LEMMA FailType ==
  ASSUME SchedTypeOK, NEW s \in Stages, NEW sent \in BOOLEAN, FailStage(s, sent)
  PROVE  stage' \in [Stages -> Stage]
<1>1. [stage[s] EXCEPT !.status = "failed", !.sent = sent] \in Stage
  BY Types DEF Stage
<1> QED BY <1>1 DEF FailStage, SchedTypeOK

LEMMA LaunchTypes ==
  ASSUME Shape, NEW a \in Actors, HasKey(a) \/ Pushed(a)
  PROVE  SchedTypeOK'
<1> USE DEF Shape
<1> DEFINE c == launch[a].c
           s == launch[a].s
<1>1. launch[a] \in LaunchRow /\ launch \in [Actors -> LaunchRow]
  BY Types DEF SchedTypeOK, LaunchRow
<1>2. launch' \in [Actors -> LaunchRow]
  BY <1>1 DEF HasKey, Pushed, LaunchRow, NoLaunch, Status, Times
<1>3. CASE HasKey(a) /\ s = 0 /\ c \in Campaigns
  <2>1. [camp[c] EXCEPT !.status = "dispatched"] \in Campaign
    BY <1>3, Types DEF Campaign, Status
  <2>2. /\ Write(c, [camp[c] EXCEPT !.status = "dispatched"])
        /\ lock' = [lock EXCEPT ![c] = "running"]
        /\ pulled' = pulled \ {c} /\ marker' = marker \union {c}
        /\ raced' = raced \union {{c, launch[b].c} : b \in {b \in Actors \ {a} :
                      launch[b].at # "rest" /\ launch[b].s = 0}}
        /\ UNCHANGED <<mailed, stage, clicked, streak, tick, presses, stops, cut>>
    BY <1>3 DEF HasKey
  <2>3. camp' \in [Campaigns -> Campaign] /\ calm' \subseteq Campaigns
    BY <1>3, <2>1, <2>2, WriteType
  <2>4. raced' \subseteq SUBSET Campaigns
    <3>1. \A b \in Actors : launch[b].at # "rest" => launch[b].c \in Campaigns
      BY DEF Shape, Named, NoLaunch
    <3> QED BY <1>3, <2>2, <3>1 DEF SchedTypeOK
  <2> QED BY <1>2, <1>3, <2>2, <2>3, <2>4 DEF SchedTypeOK, LaunchRow
<1>4. CASE HasKey(a) /\ s # 0
  <2>1. UNCHANGED <<camp, calm, lock, pulled, marker, raced, stage, clicked, streak, tick, presses, stops, cut>>
        /\ mailed' = mailed \union {s}
    BY <1>4 DEF HasKey
  <2>2. s \in Stages
    BY <1>1, <1>4 DEF LaunchRow
  <2> QED BY <1>2, <2>1, <2>2 DEF SchedTypeOK, LaunchRow
<1>5. CASE Pushed(a)
  <2>1. /\ marker' \subseteq Campaigns
        /\ UNCHANGED <<camp, lockVars, streak, tick, presses, stops, ghosts>>
    BY <1>5 DEF Pushed, SchedTypeOK
  <2>2. stage' \in [Stages -> Stage]
    <3>1. CASE s = 0 \/ stage[s].status = "deleted"
      BY <1>5, <3>1 DEF Pushed, SchedTypeOK
    <3>2. CASE s # 0 /\ stage[s].status # "deleted"
      <4>1. s \in Stages /\ stage' = [stage EXCEPT ![s].status = "dispatched"]
        BY <1>1, <1>5, <3>2 DEF Pushed, LaunchRow
      <4>2. [stage[s] EXCEPT !.status = "dispatched"] \in Stage
        BY <4>1, Types DEF Stage
      <4> QED BY <4>1, <4>2 DEF SchedTypeOK
    <3> QED BY <3>1, <3>2
  <2> QED BY <1>2, <2>1, <2>2 DEF SchedTypeOK, lockVars, ghosts, LaunchRow
<1> QED BY <1>1, <1>3, <1>4, <1>5 DEF LaunchRow, Shape, Named, HasKey, Pushed, NoLaunch

LEMMA PressTypes ==
  ASSUME Shape, OperatorStep
  PROVE  SchedTypeOK'
<1> USE DEF Shape
<1>1. ASSUME NEW c \in Campaigns, PressCampaign(c) PROVE SchedTypeOK'
  <2>1. camp[c] \in Campaign
    BY Types
  <2>2. PICK new \in Campaign : Write(c, new)
    <3>1. \A st \in Status, t \in Times, q \in {"none", "good", "edited"} :
            [camp[c] EXCEPT !.status = st] \in Campaign /\ [camp[c] EXCEPT !.due = t] \in Campaign
            /\ [camp[c] EXCEPT !.test = q, !.status = st] \in Campaign
            /\ [camp[c] EXCEPT !.status = st, !.due = t] \in Campaign
      BY <2>1 DEF Campaign
    <3>2. camp[c].due \in Times /\ camp[c].status \in Status
      BY <2>1 DEF Campaign
    <3>3. CASE MarkTested(c)
      BY <3>1, <3>2, <3>3 DEF MarkTested, Status
    <3>4. CASE Schedule(c) \/ Pause(c) \/ Resume(c) \/ RetryFailed(c) \/ Archive(c) \/ Cancel(c)
      BY <3>1, <3>2, <3>4 DEF Schedule, Pause, Resume, RetryFailed, Archive, Cancel, Status, Times
    <3>5. CASE EditCampaign(c)
      BY <3>1, <3>2, <3>5 DEF EditCampaign, Times
    <3> QED BY <1>1, <3>3, <3>4, <3>5 DEF PressCampaign
  <2>3. /\ marker' \subseteq Campaigns /\ presses' \in 0..MaxPresses
        /\ UNCHANGED <<stage, lockVars, streak, tick, launch, stops, mailed, cut, raced>>
    <3>1. marker \subseteq Campaigns /\ presses \in 0..MaxPresses /\ MaxPresses \in Nat
      BY SchedulerAssumption DEF SchedTypeOK
    <3>2. marker' = marker \/ marker' = marker \ {c}
      BY <1>1 DEF PressCampaign
    <3>3. presses < MaxPresses /\ presses' = presses + 1
      BY <1>1 DEF PressCampaign, Press
    <3> QED BY <1>1, <3>1, <3>2, <3>3 DEF PressCampaign
  <2> QED BY <2>2, <2>3, WriteType DEF SchedTypeOK, lockVars
<1>2. ASSUME NEW c \in Campaigns, EditTemplate(c) PROVE SchedTypeOK'
  <2>1. [camp[c] EXCEPT !.test = "edited"] \in Campaign
    BY Types DEF Campaign
  <2>2. camp' \in [Campaigns -> Campaign] /\ presses' \in 0..MaxPresses
    BY <1>2, <2>1, SchedulerAssumption DEF EditTemplate, Press, SchedTypeOK
  <2> QED BY <1>2, <2>2 DEF EditTemplate, SchedTypeOK, lockVars, ghosts
<1>3. ASSUME NEW c \in Campaigns, OperatorLaunch(c) PROVE SchedTypeOK'
  <2>1. presses' \in 0..MaxPresses /\ launch' \in [Actors -> LaunchRow]
    BY <1>3, Types, SchedulerAssumption DEF OperatorLaunch, Press, BeginLaunch, SchedTypeOK, LaunchRow, Campaign
  <2> QED BY <1>3, <2>1 DEF OperatorLaunch, SchedTypeOK, lockVars, ghosts, LaunchRow
<1>4. ASSUME NEW s \in Stages, PressStage(s) PROVE SchedTypeOK'
  <2>1. \A st \in {"pending", "deleted"}, t \in Times :
          /\ [stage[s] EXCEPT !.status = st] \in Stage /\ [stage[s] EXCEPT !.due = t] \in Stage
          /\ [stage[s] EXCEPT !.status = st, !.due = t] \in Stage
    BY Types DEF Stage
  <2>2. PICK row \in Stage : stage' = [stage EXCEPT ![s] = row]
    <3>1. CASE AddStage(s)
      <4>1. PICK due \in Times : stage' = [stage EXCEPT ![s].status = "pending", ![s].due = due]
        BY <3>1 DEF AddStage, Times
      <4> QED BY <2>1, <4>1 DEF SchedTypeOK
    <3>2. CASE UpdateStage(s)
      <4>1. PICK due \in Times : stage' = [stage EXCEPT ![s].due = due]
        BY <3>2 DEF UpdateStage, Times
      <4> QED BY <2>1, <4>1 DEF SchedTypeOK
    <3>3. CASE DeleteStage(s)
      BY <2>1, <3>3 DEF DeleteStage, SchedTypeOK
    <3> QED BY <1>4, <3>1, <3>2, <3>3 DEF PressStage
  <2>3. presses' \in 0..MaxPresses
    BY <1>4, SchedulerAssumption DEF PressStage, Press, SchedTypeOK
  <2>4. stage' \in [Stages -> Stage]
    BY <2>2 DEF SchedTypeOK
  <2> QED BY <1>4, <2>3, <2>4 DEF PressStage, SchedTypeOK, lockVars, ghosts
<1>5. CASE OperatorFails
  <2>1. launch' \in [Actors -> LaunchRow]
    BY <1>5, Types DEF OperatorFails, SchedTypeOK, LaunchRow, NoLaunch, Status, Times
  <2> QED BY <1>5, <2>1 DEF OperatorFails, SchedTypeOK, lockVars, ghosts, LaunchRow
<1> QED BY <1>1, <1>2, <1>3, <1>4, <1>5, LaunchTypes DEF OperatorStep

LEMMA TickTypes ==
  ASSUME Shape, TickStep
  PROVE  SchedTypeOK'
<1> USE DEF Shape
<1>0. tick \in TickRow /\ launch \in [Actors -> LaunchRow] /\ launch["scheduler"] \in LaunchRow
  BY Types DEF SchedTypeOK, LaunchRow
<1>1. CASE StartTick
  <2>1. tick' \in TickRow
    BY <1>1, <1>0 DEF StartTick, TickRow, AtRest
  <2> QED BY <1>1, <2>1 DEF StartTick, SchedTypeOK, ghosts, TickRow
<1>2. ASSUME NEW c \in Campaigns, LaunchCampaign(c) PROVE SchedTypeOK'
  <2>1. tick' \in TickRow
    <3> DEFINE todo == tick.todo \ {c}
    <3>1. \/ tick' = [tick EXCEPT !.todo = todo]
          \/ \E error \in {"final", "retry"} :
               tick' = [tick EXCEPT !.at = "judge", !.todo = todo, !.c = c, !.error = error]
      BY <1>2 DEF LaunchCampaign
    <3>2. todo \in SUBSET (Campaigns \union Stages)
      BY <1>0 DEF TickRow
    <3> HIDE DEF todo
    <3>3. CASE tick' = [tick EXCEPT !.todo = todo]
      BY <1>0, <3>2, <3>3 DEF TickRow
    <3>4. ASSUME NEW error \in {"final", "retry"},
                 tick' = [tick EXCEPT !.at = "judge", !.todo = todo, !.c = c, !.error = error]
          PROVE  tick' \in TickRow
      BY <1>0, <3>2, <3>4 DEF TickRow
    <3> QED BY <3>1, <3>3, <3>4
  <2>2. launch' \in [Actors -> LaunchRow]
    BY <1>2, <1>0, Types DEF LaunchCampaign, BeginLaunch, LaunchRow, Campaign
  <2>3. stops' \in 0..MaxStops
    BY <1>2, SchedulerAssumption DEF LaunchCampaign, RaisesAtOnce, Stop, SchedTypeOK
  <2> QED BY <1>2, <2>1, <2>2, <2>3 DEF LaunchCampaign, SchedTypeOK, lockVars, ghosts, TickRow, LaunchRow
<1>3. CASE CampaignFails
  <2>1. tick' \in TickRow
    BY <1>3, <1>0 DEF CampaignFails, TickRow, LaunchRow
  <2>2. launch' \in [Actors -> LaunchRow]
    BY <1>3, <1>0 DEF CampaignFails, LaunchRow, NoLaunch, Status, Times
  <2> QED BY <1>3, <2>1, <2>2 DEF CampaignFails, SchedTypeOK, lockVars, ghosts, TickRow, LaunchRow
<1>4. CASE Judge
  <2>1. tick.c \in Campaigns /\ camp[tick.c].edit \in Nat
    BY <1>4, Types DEF Judge, Named, Campaign
  <2>2. tick' \in TickRow
    BY <1>4, <1>0, <2>1 DEF Judge, NextCampaign, AtRest, TickRow
  <2>3. streak' \in [Campaigns -> [edit : Nat \union {AnyEdit}, old : BOOLEAN]]
    <3>1. streak' = streak \/ streak' = [streak EXCEPT ![tick.c] = [edit |-> camp[tick.c].edit, old |-> FALSE]]
      BY <1>4 DEF Judge
    <3>2. [edit |-> camp[tick.c].edit, old |-> FALSE] \in [edit : Nat \union {AnyEdit}, old : BOOLEAN]
      BY <2>1
    <3> QED BY <2>1, <3>1, <3>2 DEF SchedTypeOK
  <2> QED BY <1>4, <2>2, <2>3 DEF Judge, SchedTypeOK, lockVars, ghosts, TickRow
<1>5. CASE Refuse
  <2>1. tick.c \in Campaigns
    BY <1>5 DEF Refuse, Named
  <2>2. [camp[tick.c] EXCEPT !.status = Refused] \in Campaign
    BY <2>1, Types DEF Campaign, Refused, Status
  <2>3. camp' \in [Campaigns -> Campaign] /\ calm' \subseteq Campaigns
    <3>1. CASE Write(tick.c, [camp[tick.c] EXCEPT !.status = Refused])
      BY <2>1, <2>2, <3>1, WriteType
    <3>2. CASE UNCHANGED <<camp, calm>>
      BY <3>2 DEF SchedTypeOK
    <3> QED BY <1>5, <3>1, <3>2 DEF Refuse
  <2>4. tick' \in TickRow
    BY <1>5, <1>0 DEF Refuse, NextCampaign, AtRest, TickRow
  <2> QED BY <1>5, <2>3, <2>4 DEF Refuse, SchedTypeOK, lockVars, TickRow
<1>6. CASE CancelStages
  <2>1. \A s \in Stages : [stage[s] EXCEPT !.status = "cancelled"] \in Stage
    BY Types DEF Stage
  <2>2. stage' \in [Stages -> Stage]
    BY <1>6, <2>1, Types DEF CancelStages
  <2>3. tick' \in TickRow
    BY <1>6, <1>0 DEF CancelStages, TickRow
  <2> QED BY <1>6, <2>2, <2>3 DEF CancelStages, SchedTypeOK, lockVars, ghosts, TickRow
<1>7. CASE ListStages
  <2>1. tick' \in TickRow
    BY <1>7, <1>0 DEF ListStages, TickRow
  <2> QED BY <1>7, <2>1 DEF ListStages, SchedTypeOK, lockVars, ghosts, TickRow
<1>8. ASSUME NEW s \in Stages, LaunchStage(s) PROVE SchedTypeOK'
  <2>1. tick' \in TickRow
    BY <1>8, <1>0 DEF LaunchStage, TickRow
  <2>2. launch' \in [Actors -> LaunchRow]
    <3>1. CASE BeginLaunch("scheduler", CampaignOf[s], s)
      BY <1>0, <3>1, Types DEF BeginLaunch, LaunchRow, Campaign, Stage
    <3> QED BY <1>0, <1>8, <3>1 DEF LaunchStage
  <2>3. stops' \in 0..MaxStops
    <3>1. stops' = stops \/ Stop
      BY <1>8 DEF LaunchStage, RaisesAtOnce
    <3> QED BY <3>1, SchedulerAssumption DEF Stop, SchedTypeOK
  <2>4. stage' \in [Stages -> Stage]
    <3>1. CASE FailStage(s, FALSE)
      BY <3>1, FailType
    <3>2. CASE UNCHANGED stage
      BY <3>2 DEF SchedTypeOK
    <3> QED BY <1>8, <3>1, <3>2 DEF LaunchStage
  <2> QED BY <1>8, <2>1, <2>2, <2>3, <2>4 DEF LaunchStage, SchedTypeOK, lockVars, ghosts, TickRow, LaunchRow
<1>9. CASE StageFails
  <2>1. launch["scheduler"].s \in Stages
    BY <1>9, <1>0 DEF StageFails, LaunchRow
  <2>2. stage' \in [Stages -> Stage]
    <3>1. PICK sent \in BOOLEAN : FailStage(launch["scheduler"].s, sent)
      BY <1>9 DEF StageFails, PossiblySent
    <3> QED BY <2>1, <3>1, FailType
  <2>3. launch' \in [Actors -> LaunchRow]
    BY <1>9, <1>0 DEF StageFails, LaunchRow, NoLaunch, Status, Times
  <2> QED BY <1>9, <2>2, <2>3 DEF StageFails, SchedTypeOK, lockVars, ghosts, LaunchRow
<1>10. CASE FailUnreadable
  <2>0. ASSUME NEW row \in Campaign PROVE [row EXCEPT !.status = "failed", !.edit = @ + 1] \in Campaign
    <3>1. [row EXCEPT !.status = "failed"] \in Campaign
      BY DEF Campaign, Status
    <3>2. \A x \in Campaign : [x EXCEPT !.edit = @ + 1] \in Campaign
      BY DEF Campaign
    <3>3. [row EXCEPT !.status = "failed", !.edit = @ + 1] = [[row EXCEPT !.status = "failed"] EXCEPT !.edit = @ + 1]
      OBVIOUS
    <3> QED BY <3>1, <3>2, <3>3
  <2>1. /\ \A c \in Campaigns : [camp[c] EXCEPT !.status = "failed", !.edit = @ + 1] \in Campaign
        /\ \A s \in Stages : [stage[s] EXCEPT !.status = "failed"] \in Stage
    <3>1. \A s \in Stages : [stage[s] EXCEPT !.status = "failed"] \in Stage
      BY Types DEF Stage
    <3> QED BY <2>0, <3>1, Types
  <2>2. camp' \in [Campaigns -> Campaign] /\ stage' \in [Stages -> Stage] /\ calm' \subseteq Campaigns
    BY <1>10, <2>1, Types DEF FailUnreadable, SchedTypeOK
  <2>3. tick' \in TickRow
    BY <1>10 DEF FailUnreadable, TickRow, AtRest
  <2> QED BY <1>10, <2>2, <2>3 DEF FailUnreadable, SchedTypeOK, lockVars, TickRow
<1> QED BY <1>1, <1>2, <1>3, <1>4, <1>5, <1>6, <1>7, <1>8, <1>9, <1>10, LaunchTypes DEF TickStep

LEMMA OtherTypes ==
  ASSUME Shape, Elapse \/ Restart \/ GoodPull \/ (\E c \in Campaigns : \E r \in Recipients[c] : Click(c, r))
  PROVE  SchedTypeOK'
<1> USE DEF Shape
<1>1. ASSUME NEW c \in Campaigns, ComesDue(c) PROVE SchedTypeOK'
  <2>1. [camp[c] EXCEPT !.due = "past"] \in Campaign
    BY Types DEF Campaign, Times
  <2> QED BY <1>1, <2>1 DEF ComesDue, SchedTypeOK, lockVars, ghosts
<1>2. ASSUME NEW s \in Stages, StageComesDue(s) PROVE SchedTypeOK'
  <2>1. [stage[s] EXCEPT !.due = "past"] \in Stage
    BY Types DEF Stage, Times
  <2> QED BY <1>2, <2>1 DEF StageComesDue, SchedTypeOK, lockVars, ghosts
<1>3. CASE DayPasses
  <2>1. streak' \in [Campaigns -> [edit : Nat \union {AnyEdit}, old : BOOLEAN]]
    BY <1>3, Types DEF DayPasses
  <2> QED BY <1>3, <2>1 DEF DayPasses, SchedTypeOK, lockVars
<1>4. ASSUME NEW c \in Campaigns, LockElapses(c) PROVE SchedTypeOK'
  BY <1>4 DEF LockElapses, SchedTypeOK, ghosts
<1>5. CASE Restart
  <2>1. launch' \in [Actors -> LaunchRow] /\ tick' \in TickRow
    BY <1>5 DEF Restart, LaunchRow, TickRow, NoLaunch, AtRest, Status, Times
  <2>2. cut' \subseteq Stages
    BY <1>5, Types DEF Restart, LaunchRow, SchedTypeOK
  <2>3. stops' \in 0..MaxStops
    BY <1>5, SchedulerAssumption DEF Restart, Stop, SchedTypeOK
  <2> QED BY <1>5, <2>1, <2>2, <2>3 DEF Restart, SchedTypeOK, lockVars, LaunchRow, TickRow
<1>6. CASE GoodPull
  BY <1>6 DEF GoodPull, SchedTypeOK, ghosts
<1>7. ASSUME NEW c \in Campaigns, NEW r \in Recipients[c], Click(c, r) PROVE SchedTypeOK'
  BY <1>7 DEF Click, SchedTypeOK, ghosts
<1> QED BY <1>1, <1>2, <1>3, <1>4, <1>5, <1>6, <1>7 DEF Elapse

LEMMA TypeStep ==
  ASSUME Shape, [SchedNext]_schedVars
  PROVE  SchedTypeOK'
<1>1. CASE UNCHANGED schedVars
  BY <1>1 DEF schedVars, Shape, SchedTypeOK
<1> QED BY <1>1, TickTypes, PressTypes, OtherTypes DEF SchedNext

(* What a pass waits for is named in the steps that begin it.               *)
LEMMA NamedStep ==
  ASSUME Shape, [SchedNext]_schedVars
  PROVE  Named'
<1> USE DEF Shape
<1>0. /\ launch \in [Actors -> LaunchRow] /\ tick \in TickRow
      /\ \A s \in Stages : CampaignOf[s] \in Campaigns
  BY Types DEF SchedTypeOK, LaunchRow
<1>1. \A a \in Actors : launch'[a] = NoLaunch \/ (launch'[a].at # "rest" /\ launch'[a].c \in Campaigns)
  <2>1. ASSUME NEW a \in Actors, NEW c \in Campaigns, NEW s, BeginLaunch(a, c, s)
        PROVE  \A b \in Actors : launch'[b] = NoLaunch \/ (launch'[b].at # "rest" /\ launch'[b].c \in Campaigns)
    BY <1>0, <2>1 DEF BeginLaunch, Named
  <2>2. ASSUME NEW a \in Actors, HasKey(a) \/ Pushed(a)
        PROVE  \A b \in Actors : launch'[b] = NoLaunch \/ (launch'[b].at # "rest" /\ launch'[b].c \in Campaigns)
    <3>1. CASE HasKey(a)
      <4>1. launch[a].at = "key" /\ launch' = [launch EXCEPT ![a].at = "push"]
        BY <3>1 DEF HasKey
      <4>2. launch[a].c \in Campaigns
        BY <4>1 DEF Named, NoLaunch
      <4> QED BY <1>0, <4>1, <4>2 DEF Named, LaunchRow
    <3>2. CASE Pushed(a)
      BY <1>0, <3>2 DEF Pushed, Named
    <3> QED BY <2>2, <3>1, <3>2
  <2>3. CASE UNCHANGED launch
    BY <2>3 DEF Named
  <2>4. ASSUME NEW a \in Actors, launch' = [launch EXCEPT ![a] = NoLaunch] \/ launch' = [b \in Actors |-> NoLaunch]
        PROVE  \A b \in Actors : launch'[b] = NoLaunch \/ (launch'[b].at # "rest" /\ launch'[b].c \in Campaigns)
    BY <1>0, <2>4 DEF Named
  <2>5. CASE TickStep
    BY <1>0, <2>1, <2>2, <2>3, <2>4, <2>5
    DEF TickStep, StartTick, LaunchCampaign, CampaignFails, Judge, Refuse, CancelStages, ListStages,
        LaunchStage, StageFails, FailUnreadable
  <2>6. CASE OperatorStep
    BY <2>1, <2>2, <2>3, <2>4, <2>6
    DEF OperatorStep, PressCampaign, EditTemplate, OperatorLaunch, PressStage, OperatorFails
  <2>7. CASE Elapse \/ Restart \/ GoodPull \/ (\E c \in Campaigns : \E r \in Recipients[c] : Click(c, r))
    BY <2>3, <2>4, <2>7 DEF Elapse, ComesDue, StageComesDue, DayPasses, LockElapses, Restart, GoodPull, Click
  <2> QED BY <2>3, <2>5, <2>6, <2>7 DEF SchedNext, schedVars
<1>2. tick'.at \in {"judge", "refuse"} => tick'.c \in Campaigns
  <2>1. CASE UNCHANGED tick
    BY <2>1 DEF Named
  <2>2. CASE TickStep
    <3>1. CASE CampaignFails
      BY <1>0, <3>1 DEF CampaignFails, Named, Idle, TickRow
    <3>2. CASE Judge \/ Refuse
      BY <1>0, <3>2 DEF Judge, Refuse, NextCampaign, AtRest, Named, TickRow
    <3>3. ASSUME NEW c \in Campaigns, LaunchCampaign(c) PROVE tick'.at \in {"judge", "refuse"} => tick'.c \in Campaigns
      BY <1>0, <3>3 DEF LaunchCampaign, TickRow
    <3>4. CASE StartTick \/ CancelStages \/ ListStages \/ FailUnreadable
      <4>1. CASE CancelStages \/ ListStages
        BY <1>0, <4>1 DEF CancelStages, ListStages, TickRow
      <4>2. CASE StartTick
        BY <4>2 DEF StartTick, AtRest
      <4>3. CASE FailUnreadable
        BY <4>3 DEF FailUnreadable, AtRest
      <4> QED BY <3>4, <4>1, <4>2, <4>3
    <3>5. ASSUME NEW s \in Stages, LaunchStage(s) PROVE tick'.at \in {"judge", "refuse"} => tick'.c \in Campaigns
      BY <1>0, <3>5 DEF LaunchStage, TickRow
    <3> QED BY <2>1, <2>2, <3>1, <3>2, <3>3, <3>4, <3>5 DEF TickStep, StageFails, HasKey, Pushed
  <2>3. CASE OperatorStep
    BY <2>1, <2>3 DEF OperatorStep, PressCampaign, EditTemplate, OperatorLaunch, PressStage, OperatorFails, HasKey, Pushed
  <2>4. CASE Elapse \/ Restart \/ GoodPull \/ (\E c \in Campaigns : \E r \in Recipients[c] : Click(c, r))
    <3>1. CASE Restart
      BY <3>1 DEF Restart, AtRest
    <3> QED BY <2>1, <2>4, <3>1 DEF Elapse, ComesDue, StageComesDue, DayPasses, LockElapses, GoodPull, Click
  <2>5. CASE UNCHANGED schedVars
    BY <2>1, <2>5 DEF schedVars
  <2> QED BY <2>2, <2>3, <2>4, <2>5 DEF SchedNext
<1> QED BY <1>1, <1>2 DEF Named

-----------------------------------------------------------------------------
(* Stages                                                                   *)

(* Steps of others than the scheduler, as its stages see them: a stage may  *)
(* be added or deleted, and the scheduler's launch goes on.                 *)
LEMMA StageFrame ==
  ASSUME Shape, StagesInv,
         launch'["operator"].s = 0, launch'["scheduler"] = launch["scheduler"],
         mailed' = mailed, cut' = cut,
         \A s \in Stages : \/ stage'[s].status = stage[s].status /\ stage'[s].sent = stage[s].sent
                           \/ stage'[s].status = "deleted"
                           \/ stage[s].status = "none"
  PROVE  StagesInv'
<1>0. /\ mailed \subseteq Stages /\ launch["scheduler"] \in LaunchRow
      /\ \A s \in Stages : s # 0
  BY Types DEF Shape, SchedTypeOK
<1>1. MailedStages'
  BY <1>0 DEF StagesInv, MailedStages, StageLaunch
<1>2. StageLaunch'.s # 0 => stage'[StageLaunch'.s].status \in {"pending", "deleted"}
  <2>1. StageLaunch' = launch["scheduler"]
    BY DEF StageLaunch
  <2> QED BY <1>0, <2>1 DEF StagesInv, StageLaunch, LaunchRow
<1> QED BY <1>1, <1>2 DEF StagesInv, StopWins, StageLaunch

LEMMA StagesStep ==
  ASSUME Shape, StagesInv, [SchedNext]_schedVars
  PROVE  StagesInv'
<1> DEFINE l == launch["scheduler"]
           Same == \A s \in Stages : stage'[s].status = stage[s].status /\ stage'[s].sent = stage[s].sent
<1>0. /\ launch \in [Actors -> LaunchRow] /\ l \in LaunchRow /\ mailed \subseteq Stages
      /\ stage \in [Stages -> Stage] /\ \A s \in Stages : s # 0
      /\ l = NoLaunch \/ l.at # "rest"
      /\ l.s # 0 => l.s \in Stages /\ stage[l.s].status \in {"pending", "deleted"}
      /\ launch["operator"].s = 0
  BY Types DEF Shape, SchedTypeOK, LaunchRow, Named, StagesInv, StageLaunch
<1>1. Idle => \A s \in mailed \ cut : stage[s].status # "pending"
  BY <1>0 DEF Idle, NoLaunch, StagesInv, MailedStages, StageLaunch
<1>2. CASE UNCHANGED <<launch, stage, mailed, cut>>
  BY <1>0, <1>2, StageFrame
<1>3. CASE OperatorStep
  <2>1. mailed' = mailed /\ cut' = cut
    BY <1>0, <1>3 DEF OperatorStep, PressCampaign, EditTemplate, OperatorLaunch, PressStage, OperatorFails,
          HasKey, Pushed, ghosts
  <2>2. launch'["operator"].s = 0 /\ launch'["scheduler"] = launch["scheduler"]
    BY <1>0, <1>3 DEF OperatorStep, PressCampaign, EditTemplate, OperatorLaunch, PressStage, OperatorFails,
          HasKey, Pushed, BeginLaunch, NoLaunch, LaunchRow
  <2>3. \A s \in Stages : \/ stage'[s].status = stage[s].status /\ stage'[s].sent = stage[s].sent
                          \/ stage'[s].status = "deleted"
                          \/ stage[s].status = "none"
    <3>1. ASSUME NEW t \in Stages, PressStage(t)
          PROVE  \A s \in Stages : \/ stage'[s].status = stage[s].status /\ stage'[s].sent = stage[s].sent
                                   \/ stage'[s].status = "deleted"
                                   \/ stage[s].status = "none"
      <4>1. CASE AddStage(t)
        BY <1>0, <4>1 DEF AddStage
      <4>2. CASE UpdateStage(t)
        BY <1>0, <4>2 DEF UpdateStage, Stage
      <4>3. CASE DeleteStage(t)
        BY <1>0, <4>3 DEF DeleteStage, Stage
      <4> QED BY <3>1, <4>1, <4>2, <4>3 DEF PressStage
    <3>2. UNCHANGED stage \/ \E t \in Stages : PressStage(t)
      BY <1>0, <1>3 DEF OperatorStep, PressCampaign, EditTemplate, OperatorLaunch, OperatorFails, HasKey, Pushed
    <3> QED BY <3>1, <3>2
  <2> QED BY <2>1, <2>2, <2>3, StageFrame
<1>4. ASSUME NEW s \in Stages, StageComesDue(s) PROVE StagesInv'
  <2>1. Same
    BY <1>0, <1>4 DEF StageComesDue, Stage
  <2> QED BY <1>0, <1>4, <2>1, StageFrame DEF StageComesDue, ghosts
<1>5. CASE Restart
  <2>1. launch'["operator"] = NoLaunch /\ launch'["scheduler"] = NoLaunch
    BY <1>5 DEF Restart
  <2>2. mailed' = mailed /\ stage' = stage /\ cut \subseteq cut' /\ (l.at = "push" /\ l.s # 0 => l.s \in cut')
    BY <1>5 DEF Restart
  <2>3. MailedStages'
    BY <1>0, <2>2 DEF StagesInv, MailedStages, StageLaunch
  <2> QED BY <2>1, <2>3 DEF StagesInv, StopWins, StageLaunch, NoLaunch
<1>6. ASSUME NEW c \in Campaigns, LaunchCampaign(c) PROVE StagesInv'
  <2>1. launch'["operator"] = launch["operator"] /\ launch'["scheduler"].s = 0
    BY <1>0, <1>6 DEF LaunchCampaign, BeginLaunch, Idle, NoLaunch
  <2>2. UNCHANGED <<stage, mailed, cut>> /\ Idle
    BY <1>6 DEF LaunchCampaign, ghosts
  <2>3. MailedStages'
    BY <1>1, <2>2 DEF StagesInv, MailedStages
  <2> QED BY <1>0, <2>1, <2>3 DEF StagesInv, StopWins, StageLaunch
<1>7. CASE CampaignFails
  <2>1. launch'["operator"] = launch["operator"] /\ launch'["scheduler"].s = 0 /\ l.s = 0
    BY <1>0, <1>7 DEF CampaignFails, NoLaunch
  <2>2. UNCHANGED <<stage, mailed, cut>>
    BY <1>7 DEF CampaignFails, ghosts
  <2>3. MailedStages'
    BY <1>0, <2>1, <2>2 DEF StagesInv, MailedStages, StageLaunch
  <2> QED BY <1>0, <2>1, <2>3 DEF StagesInv, StopWins, StageLaunch
<1>8. CASE CancelStages \/ FailUnreadable
  <2>1. Idle /\ UNCHANGED <<launch, mailed, cut>>
    BY <1>8 DEF CancelStages, FailUnreadable, ghosts
  <2>2. \A s \in Stages : stage[s].status # "pending" => stage'[s] = stage[s]
    BY <1>8 DEF CancelStages, FailUnreadable
  <2>3. MailedStages'
    BY <1>0, <1>1, <2>1, <2>2 DEF StagesInv, MailedStages
  <2> QED BY <1>0, <2>1, <2>3 DEF StagesInv, StopWins, StageLaunch, Idle, NoLaunch
<1>9. ASSUME NEW s \in Stages, LaunchStage(s) PROVE StagesInv'
  <2>1. Idle /\ UNCHANGED <<mailed, cut>>
    BY <1>9 DEF LaunchStage, ghosts
  <2>2. \A t \in Stages : stage[t].status # "pending" => stage'[t] = stage[t]
    BY <1>0, <1>9 DEF LaunchStage, FailStage
  <2>3. MailedStages'
    BY <1>0, <1>1, <2>1, <2>2 DEF StagesInv, MailedStages
  <2>4. CASE UNCHANGED launch
    BY <1>0, <2>1, <2>3, <2>4 DEF StagesInv, StopWins, StageLaunch, Idle, NoLaunch
  <2>5. CASE StillDue(s) /\ BeginLaunch("scheduler", CampaignOf[s], s) /\ UNCHANGED stage
    <3>1. launch'["operator"] = launch["operator"] /\ launch'["scheduler"].s = s
          /\ launch'["scheduler"].from = camp[CampaignOf[s]].status
      BY <1>0, <2>5 DEF BeginLaunch
    <3> QED BY <1>0, <2>3, <2>5, <3>1 DEF StagesInv, StopWins, StageLaunch, StillDue, StatusOf
  <2> QED BY <1>9, <2>4, <2>5 DEF LaunchStage
<1>10. CASE StageFails
  <2>1. launch'["operator"] = launch["operator"] /\ launch'["scheduler"] = NoLaunch
        /\ UNCHANGED <<mailed, cut>> /\ l.s \in Stages
    BY <1>0, <1>10 DEF StageFails, ghosts
  <2>2. PICK sent \in {PossiblySent(l), TRUE} : FailStage(l.s, sent)
    BY <1>10 DEF StageFails
  <2>3. MailedStages'
    <3> SUFFICES ASSUME NEW s \in mailed \ cut
                 PROVE  \/ stage'[s].status \in {"dispatched", "deleted"}
                        \/ stage'[s].status = "failed" /\ stage'[s].sent
      BY <2>1 DEF MailedStages
    <3>1. CASE stage[s].status = "pending"
      <4>1. s = l.s /\ l.at = "push"
        BY <3>1 DEF StagesInv, MailedStages, StageLaunch
      <4>2. sent = TRUE
        BY <4>1, <2>2 DEF PossiblySent
      <4>3. stage' = [stage EXCEPT ![s].status = "failed", ![s].sent = TRUE]
        BY <4>1, <4>2, <2>2, <3>1 DEF FailStage
      <4> QED BY <1>0, <4>3 DEF Stage
    <3>2. CASE stage[s].status # "pending"
      <4>1. stage'[s] = stage[s]
        BY <1>0, <2>2, <3>2 DEF FailStage
      <4> QED BY <3>2, <4>1 DEF StagesInv, MailedStages
    <3> QED BY <3>1, <3>2
  <2> QED BY <1>0, <2>1, <2>3 DEF StagesInv, StopWins, StageLaunch, NoLaunch
<1>11. CASE HasKey("scheduler")
  <2>1. /\ l.at = "key" /\ UNCHANGED <<stage, cut>>
        /\ launch' = [launch EXCEPT !["scheduler"].at = "push"]
        /\ mailed' = mailed \/ (l.s # 0 /\ mailed' = mailed \union {l.s})
    BY <1>11 DEF HasKey
  <2>2. /\ launch'["operator"] = launch["operator"] /\ launch'["scheduler"].at = "push"
        /\ launch'["scheduler"].s = l.s /\ launch'["scheduler"].from = l.from
    BY <1>0, <2>1 DEF LaunchRow
  <2>3. MailedStages'
    BY <1>0, <2>1, <2>2 DEF StagesInv, MailedStages, StageLaunch
  <2> QED BY <1>0, <2>1, <2>2, <2>3 DEF StagesInv, StopWins, StageLaunch
<1>12. CASE Pushed("scheduler")
  <2>1. /\ UNCHANGED <<mailed, cut>> /\ launch'["operator"] = launch["operator"] /\ launch'["scheduler"] = NoLaunch
        /\ IF l.s = 0 THEN stage' = stage
           ELSE stage' = IF stage[l.s].status = "deleted" THEN stage
                         ELSE [stage EXCEPT ![l.s].status = "dispatched"]
    BY <1>0, <1>12 DEF Pushed, ghosts
  <2>2. \A s \in Stages : stage'[s] = stage[s] \/ (s = l.s /\ stage'[s].status = "dispatched")
    BY <1>0, <2>1 DEF Stage
  <2>3. l.s # 0 => stage'[l.s].status \in {"dispatched", "deleted"}
    BY <1>0, <2>1 DEF Stage
  <2>4. MailedStages'
    BY <1>0, <2>1, <2>2, <2>3 DEF StagesInv, MailedStages, StageLaunch
  <2> QED BY <1>0, <2>1, <2>4 DEF StagesInv, StopWins, StageLaunch, NoLaunch
<1>13. CASE TickStep
  BY <1>13, <1>2, <1>6, <1>7, <1>8, <1>9, <1>10, <1>11, <1>12
  DEF TickStep, StartTick, Judge, Refuse, ListStages, ghosts
<1>14. CASE Elapse \/ GoodPull \/ (\E c \in Campaigns : \E r \in Recipients[c] : Click(c, r)) \/ UNCHANGED schedVars
  BY <1>14, <1>2, <1>4 DEF Elapse, ComesDue, DayPasses, LockElapses, GoodPull, Click, ghosts, schedVars
<1> QED BY <1>3, <1>5, <1>13, <1>14 DEF SchedNext

-----------------------------------------------------------------------------
(* Locks                                                                    *)

(* A launch that finds nothing in its way shares no contact with a lock.    *)
LEMMA NoConflict ==
  ASSUME LocksInv, NEW c \in Campaigns, ~Conflict(c), NEW d \in Campaigns, d # c, lock[d] = "running",
         NEW r \in Recipients[d] \intersect Recipients[c]
  PROVE  <<d, r>> \in clicked
<1>1. r \notin LockedBy(d)
  BY DEF Conflict
<1>2. PICK x \in clicked : x[1] = d /\ r = x[2]
  BY <1>1 DEF LockedBy, ClickedOf
<1> QED BY <1>2 DEF LocksInv

(* Steps that take no lock and begin no launch of a campaign.               *)
LEMMA LocksFrame ==
  ASSUME LocksInv,
         \A c \in Campaigns : lock'[c] = "running" => lock[c] = "running",
         clicked' = clicked \/ (\E c, r : clicked' = clicked \union {<<c, r>>}), raced \subseteq raced',
         \A a \in Actors : launch'[a].at # "rest" /\ launch'[a].s = 0 =>
           launch[a].at # "rest" /\ launch[a].s = 0 /\ launch'[a].c = launch[a].c
  PROVE  LocksInv'
<1>1. clicked \subseteq clicked' /\ \A x \in clicked' : x = <<x[1], x[2]>>
  BY DEF LocksInv
<1>2. LaunchesFree'
  BY <1>1 DEF LocksInv, LaunchesFree
<1>3. LockExclusive'
  BY <1>1 DEF LocksInv, LockExclusive
<1> QED BY <1>1, <1>2, <1>3 DEF LocksInv

LEMMA LocksBegin ==
  ASSUME Shape, LocksInv, NEW a \in Actors, NEW c \in Campaigns, BeginLaunch(a, c, 0),
         UNCHANGED <<lock, clicked, raced>>
  PROVE  LocksInv'
<1>1. ~Conflict(c)
  BY DEF BeginLaunch
<1>2. launch \in [Actors -> LaunchRow]
  BY DEF Shape, SchedTypeOK, LaunchRow
<1>3. \A b \in Actors : launch'[b] = launch[b] \/ launch'[b].c = c
  BY <1>2 DEF BeginLaunch
<1>4. LaunchesFree'
  BY <1>1, <1>3, NoConflict DEF LocksInv, LaunchesFree
<1> QED BY <1>4 DEF LocksInv, LockExclusive

(* The lock is taken: a launch that waits beside it is recorded.            *)
LEMMA LocksTaken ==
  ASSUME Shape, LocksInv, NEW a \in Actors, HasKey(a)
  PROVE  LocksInv'
<1> DEFINE c == launch[a].c
<1>1. /\ launch \in [Actors -> LaunchRow] /\ lock \in [Campaigns -> {"none", "running", "elapsed", "confirmed"}]
      /\ launch' = [launch EXCEPT ![a].at = "push"] /\ launch[a].at = "key" /\ clicked' = clicked
  BY DEF Shape, SchedTypeOK, LaunchRow, HasKey
<1>2. c \in Campaigns
  BY <1>1 DEF Shape, Named, NoLaunch
<1>3. \A b \in Actors : /\ launch'[b].s = launch[b].s /\ launch'[b].c = launch[b].c
                        /\ launch'[b].at # "rest" => launch[b].at # "rest"
  BY <1>1 DEF LaunchRow
<1>4. CASE launch[a].s # 0
  <2>1. UNCHANGED <<lock, clicked, raced>>
    BY <1>4 DEF HasKey
  <2> QED BY <1>3, <2>1, LocksFrame
<1>5. CASE launch[a].s = 0
  <2>1. /\ lock' = [lock EXCEPT ![c] = "running"]
        /\ raced' = raced \union {{c, launch[b].c} : b \in {b \in Actors \ {a} :
                                  launch[b].at # "rest" /\ launch[b].s = 0}}
    BY <1>5 DEF HasKey
  <2>2. \A d \in Campaigns : lock'[d] = "running" => d = c \/ lock[d] = "running"
    BY <1>1, <1>2, <2>1
  <2>3. LaunchesFree'
    <3> SUFFICES ASSUME NEW b \in Actors, launch'[b].at # "rest", launch'[b].s = 0,
                        NEW d \in Campaigns, d # launch'[b].c, lock'[d] = "running",
                        NEW r \in Recipients[d] \intersect Recipients[launch'[b].c]
                 PROVE  <<d, r>> \in clicked' \/ {launch'[b].c, d} \in raced'
      BY DEF LaunchesFree
    <3>1. CASE lock[d] = "running"
      BY <1>1, <1>3, <2>1, <3>1 DEF LocksInv, LaunchesFree
    <3>2. CASE d = c /\ b # a
      <4>1. {c, launch[b].c} \in raced'
        BY <1>3, <2>1, <3>2
      <4>2. {c, launch[b].c} = {launch[b].c, c}
        OBVIOUS
      <4> QED BY <1>3, <3>2, <4>1, <4>2
    <3> QED BY <1>3, <2>2, <3>1, <3>2
  <2>4. \A d \in Campaigns : d # c /\ lock[d] = "running" => \A r \in Recipients[d] \intersect Recipients[c] :
          <<d, r>> \in clicked \/ {c, d} \in raced
    BY <1>1, <1>5 DEF LocksInv, LaunchesFree
  <2>5. LockExclusive'
    <3> SUFFICES ASSUME NEW e \in Campaigns, NEW d \in Campaigns, e # d, lock'[e] = "running", lock'[d] = "running",
                        NEW r \in Recipients[e] \intersect Recipients[d],
                        {<<e, r>>, <<d, r>>} \intersect clicked' = {}
                 PROVE  {e, d} \in raced'
      BY DEF LockExclusive
    <3>1. CASE e # c /\ d # c
      BY <1>1, <2>1, <2>2, <3>1 DEF LocksInv, LockExclusive
    <3>2. CASE e = c
      BY <1>1, <2>1, <2>2, <2>4, <3>2
    <3>3. CASE d = c
      <4>1. lock[e] = "running" /\ {c, e} = {e, d}
        BY <2>2, <3>3
      <4> QED BY <1>1, <2>1, <2>4, <3>3, <4>1
    <3> QED BY <3>1, <3>2, <3>3
  <2> QED BY <1>1, <2>3, <2>5 DEF LocksInv
<1> QED BY <1>4, <1>5

LEMMA LocksStep ==
  ASSUME Shape, LocksInv, [SchedNext]_schedVars
  PROVE  LocksInv'
<1>0. /\ launch \in [Actors -> LaunchRow] /\ lock \in [Campaigns -> {"none", "running", "elapsed", "confirmed"}]
      /\ NoLaunch.at = "rest" /\ \A s \in Stages : s # 0
  BY Types DEF Shape, SchedTypeOK, LaunchRow, NoLaunch
<1>1. CASE UNCHANGED <<lock, clicked, raced, launch>>
  BY <1>1, LocksFrame
<1>2. ASSUME NEW a \in Actors, launch' = [launch EXCEPT ![a] = NoLaunch], UNCHANGED <<lock, clicked, raced>>
      PROVE  LocksInv'
  BY <1>0, <1>2, LocksFrame
<1>3. CASE StartTick
  BY <1>0, <1>3, LocksFrame DEF StartTick, ghosts
<1>4. ASSUME NEW c \in Campaigns, LaunchCampaign(c) \/ OperatorLaunch(c) PROVE LocksInv'
  <2>1. UNCHANGED <<lock, clicked, raced>>
    BY <1>4 DEF LaunchCampaign, OperatorLaunch, lockVars, ghosts
  <2>2. UNCHANGED launch \/ \E a \in Actors : BeginLaunch(a, c, 0)
    BY <1>4 DEF LaunchCampaign, OperatorLaunch
  <2> QED BY <1>1, <2>1, <2>2, LocksBegin
<1>5. ASSUME NEW s \in Stages, LaunchStage(s) PROVE LocksInv'
  <2>1. UNCHANGED <<lock, clicked, raced>>
    BY <1>5 DEF LaunchStage, lockVars, ghosts
  <2>2. CASE BeginLaunch("scheduler", CampaignOf[s], s)
    <3>1. launch'["operator"] = launch["operator"] /\ launch'["scheduler"].s = s
      BY <1>0, <2>2 DEF BeginLaunch
    <3> QED BY <1>0, <2>1, <3>1, LocksFrame
  <2> QED BY <1>1, <1>5, <2>1, <2>2 DEF LaunchStage
<1>6. ASSUME NEW a \in Actors, HasKey(a) \/ Pushed(a) PROVE LocksInv'
  <2>1. CASE Pushed(a)
    BY <1>2, <2>1 DEF Pushed, lockVars, ghosts
  <2> QED BY <1>6, <2>1, LocksTaken
<1>7. CASE CampaignFails \/ StageFails \/ OperatorFails
  BY <1>2, <1>7 DEF CampaignFails, StageFails, OperatorFails, lockVars, ghosts
<1>8. CASE Judge \/ Refuse \/ CancelStages \/ ListStages \/ FailUnreadable
  BY <1>1, <1>8 DEF Judge, Refuse, CancelStages, ListStages, FailUnreadable, lockVars, ghosts
<1>9. ASSUME NEW c \in Campaigns, PressCampaign(c) \/ EditTemplate(c) \/ ComesDue(c) PROVE LocksInv'
  BY <1>1, <1>9 DEF PressCampaign, EditTemplate, ComesDue, lockVars, ghosts
<1>10. ASSUME NEW s \in Stages, PressStage(s) \/ StageComesDue(s) PROVE LocksInv'
  BY <1>1, <1>10 DEF PressStage, StageComesDue, lockVars, ghosts
<1>11. CASE DayPasses \/ GoodPull \/ UNCHANGED schedVars
  BY <1>1, <1>11 DEF DayPasses, GoodPull, schedVars, lockVars, ghosts
<1>12. ASSUME NEW c \in Campaigns, LockElapses(c) PROVE LocksInv'
  BY <1>0, <1>12, LocksFrame DEF LockElapses, ghosts
<1>13. ASSUME NEW c \in Campaigns, NEW r \in Recipients[c], Click(c, r) PROVE LocksInv'
  BY <1>13, LocksFrame DEF Click, ghosts
<1>14. CASE Restart
  BY <1>0, <1>14, LocksFrame DEF Restart, lockVars
<1> QED BY <1>3, <1>4, <1>5, <1>6, <1>7, <1>8, <1>9, <1>10, <1>11, <1>12, <1>13, <1>14
    DEF SchedNext, TickStep, OperatorStep, Elapse

-----------------------------------------------------------------------------
(* Streaks                                                                  *)

LEMMA Written ==
  ASSUME Shape, NEW c \in Campaigns, NEW new \in Campaign, Write(c, new)
  PROVE  \A d \in Campaigns :
           \/ camp'[d] = camp[d] /\ (d \in calm => d \in calm')
           \/ d = c /\ camp'[d].edit > camp[d].edit /\ camp'[d].status = new.status
<1>1. camp \in [Campaigns -> Campaign] /\ camp[c].edit \in Nat
  BY Types DEF Shape, SchedTypeOK, Campaign
<1>2. camp'[c] = [new EXCEPT !.edit = camp[c].edit + 1] /\ \A d \in Campaigns \ {c} : camp'[d] = camp[d]
  BY <1>1 DEF Write
<1>3. camp'[c].edit = camp[c].edit + 1 /\ camp'[c].status = new.status
  BY <1>2 DEF Campaign
<1>4. \A d \in Campaigns \ {c} : d \in calm => d \in calm'
  BY DEF Write
<1>5. camp'[c].edit > camp[c].edit
  BY <1>1, <1>3
<1> QED BY <1>2, <1>3, <1>4, <1>5

(* Whoever changes a campaign raises its edit; a step that does not leaves  *)
(* it calm if it was; and only a refusal makes a scheduled campaign failed, *)
(* but for the one whose time cannot be read.                               *)
Edited(c)    == camp'[c].edit > camp[c].edit
Untouched(c) == camp'[c].edit = camp[c].edit /\ (c \in calm => c \in calm')
Failing(c)   == camp[c].status = "scheduled" /\ camp'[c].status = "failed"

LEMMA EditOrCalm ==
  ASSUME Shape, [SchedNext]_schedVars, NEW c \in Campaigns
  PROVE  /\ Edited(c) \/ Untouched(c)
         /\ Failing(c) => \/ Refuse /\ c = tick.c /\ tick.since \in {AnyEdit, camp[c].edit}
                          \/ FailUnreadable
<1> DEFINE Goal == (Edited(c) \/ Untouched(c)) /\ ~Failing(c)
<1>0. /\ camp \in [Campaigns -> Campaign] /\ \A d \in Campaigns : camp[d] \in Campaign /\ camp[d].edit \in Nat
      /\ launch \in [Actors -> LaunchRow]
  BY Types DEF Shape, SchedTypeOK, Campaign, LaunchRow
<1>1. CASE UNCHANGED <<camp, calm>>
  BY <1>0, <1>1 DEF Untouched, Failing
<1>2. ASSUME NEW d \in Campaigns, NEW new \in Campaign, Write(d, new), new.status # "failed" \/ camp[d].status # "scheduled"
      PROVE  Goal
  BY <1>0, <1>2, Written DEF Edited, Untouched, Failing
<1>3. ASSUME NEW a \in Actors, HasKey(a) PROVE Goal
  <2>1. CASE launch[a].s # 0
    BY <1>1, <1>3, <2>1 DEF HasKey, Failing
  <2>2. CASE launch[a].s = 0
    <3>1. launch[a].c \in Campaigns
      BY <1>3 DEF HasKey, Shape, Named, NoLaunch
    <3>2. PICK new \in Campaign : Write(launch[a].c, new) /\ new.status = "dispatched"
      <4>1. Write(launch[a].c, [camp[launch[a].c] EXCEPT !.status = "dispatched"])
        BY <1>3, <2>2 DEF HasKey
      <4>2. /\ [camp[launch[a].c] EXCEPT !.status = "dispatched"] \in Campaign
            /\ [camp[launch[a].c] EXCEPT !.status = "dispatched"].status = "dispatched"
        BY <1>0, <3>1 DEF Campaign, Status
      <4> QED BY <4>1, <4>2
    <3> QED BY <1>2, <3>1, <3>2
  <2> QED BY <2>1, <2>2
<1>4. ASSUME NEW d \in Campaigns, PressCampaign(d) PROVE Goal
  <2> DEFINE row == camp[d]
  <2>1. /\ row \in [status : Status, due : Times, test : {"none", "good", "edited"}, edit : Nat]
        /\ row.status \in Status /\ row.due \in Times
    BY <1>0 DEF Campaign
  <2>2. \A st \in Status, q \in {"none", "good", "edited"}, t \in Times :
          /\ [row EXCEPT !.status = st] \in Campaign /\ [row EXCEPT !.status = st].status = st
          /\ [row EXCEPT !.test = q, !.status = st] \in Campaign /\ [row EXCEPT !.test = q, !.status = st].status = st
          /\ [row EXCEPT !.status = st, !.due = t] \in Campaign /\ [row EXCEPT !.status = st, !.due = t].status = st
          /\ [row EXCEPT !.due = t] \in Campaign /\ [row EXCEPT !.due = t].status = row.status
    BY <2>1 DEF Campaign
  <2>3. CASE MarkTested(d)
    <3>1. PICK st \in Status \ {"failed"} : Write(d, [row EXCEPT !.test = "good", !.status = st])
      BY <2>1, <2>3 DEF MarkTested, Status
    <3>2. /\ [row EXCEPT !.test = "good", !.status = st] \in Campaign
          /\ [row EXCEPT !.test = "good", !.status = st].status # "failed"
      BY <2>1 DEF Campaign
    <3> QED BY <1>2, <3>1, <3>2
  <2>4. CASE Schedule(d)
    <3>1. Write(d, [row EXCEPT !.status = "scheduled", !.due = "later"])
      BY <2>4 DEF Schedule
    <3> QED BY <1>2, <2>2, <3>1 DEF Status, Times
  <2>5. CASE Pause(d) \/ Resume(d) \/ RetryFailed(d) \/ Archive(d) \/ Cancel(d)
    <3>1. PICK st \in Status \ {"failed"} : Write(d, [row EXCEPT !.status = st])
      BY <2>5 DEF Pause, Resume, RetryFailed, Archive, Cancel, Status
    <3>2. [row EXCEPT !.status = st] \in Campaign /\ [row EXCEPT !.status = st].status # "failed"
      BY <2>1 DEF Campaign
    <3> QED BY <1>2, <3>1, <3>2
  <2>6. CASE EditCampaign(d)
    <3>1. PICK t \in Times : Write(d, [row EXCEPT !.due = t])
      BY <2>1, <2>6 DEF EditCampaign, Times
    <3>2. /\ [row EXCEPT !.due = t] \in Campaign
          /\ [row EXCEPT !.due = t].status # "failed" \/ camp[d].status # "scheduled"
      BY <2>1, <2>2
    <3> QED BY <1>2, <3>1, <3>2
  <2> QED BY <1>4, <2>3, <2>4, <2>5, <2>6 DEF PressCampaign
<1>5. ASSUME NEW d \in Campaigns, EditTemplate(d) \/ ComesDue(d) PROVE Goal
  <2>1. camp'[c].edit = camp[c].edit /\ camp'[c].status = camp[c].status /\ calm' = calm
    BY <1>0, <1>5 DEF EditTemplate, ComesDue, ghosts, Campaign
  <2> QED BY <2>1 DEF Untouched, Failing
<1>6. CASE DayPasses
  BY <1>6 DEF DayPasses, Untouched, Failing
<1>7. CASE Refuse
  <2>1. tick.c \in Campaigns
    BY <1>7 DEF Refuse, Shape, Named
  <2>2. [camp[tick.c] EXCEPT !.status = Refused] \in Campaign
    BY <1>0, <2>1 DEF Campaign, Refused, Status
  <2>3. CASE Write(tick.c, [camp[tick.c] EXCEPT !.status = Refused]) /\ tick.since \in {AnyEdit, camp[tick.c].edit}
    BY <1>0, <1>7, <2>1, <2>2, <2>3, Written DEF Edited, Untouched, Failing
  <2> QED BY <1>1, <1>7, <2>3 DEF Refuse
<1>8. CASE FailUnreadable
  <2>1. PICK bad \in SUBSET Campaigns :
          /\ camp' = [d \in Campaigns |->
               IF d \in bad THEN [camp[d] EXCEPT !.status = "failed", !.edit = @ + 1] ELSE camp[d]]
          /\ calm' = calm \ bad
    BY <1>8 DEF FailUnreadable
  <2>2. CASE c \in bad
    <3>1. camp'[c] = [camp[c] EXCEPT !.status = "failed", !.edit = camp[c].edit + 1]
      BY <2>1, <2>2
    <3>2. camp'[c].edit = camp[c].edit + 1
      BY <1>0, <3>1 DEF Campaign
    <3> QED BY <1>0, <1>8, <3>2 DEF Edited
  <2>3. CASE c \notin bad
    BY <1>8, <2>1, <2>3 DEF Untouched
  <2> QED BY <2>2, <2>3
<1>9. CASE TickStep
  BY <1>1, <1>3, <1>7, <1>8, <1>9
  DEF TickStep, StartTick, LaunchCampaign, CampaignFails, Judge, CancelStages, ListStages, LaunchStage,
      StageFails, Pushed, ghosts
<1>10. CASE OperatorStep
  BY <1>1, <1>3, <1>4, <1>5, <1>10 DEF OperatorStep, OperatorLaunch, PressStage, OperatorFails, Pushed, ghosts
<1>11. CASE Elapse
  BY <1>1, <1>5, <1>6, <1>11 DEF Elapse, LockElapses, StageComesDue, ghosts
<1>12. CASE Restart \/ GoodPull \/ (\E d \in Campaigns : \E r \in Recipients[d] : Click(d, r)) \/ UNCHANGED schedVars
  BY <1>1, <1>12 DEF Restart, GoodPull, Click, ghosts, schedVars
<1> QED BY <1>9, <1>10, <1>11, <1>12 DEF SchedNext

(* Steps that leave the audit trail and the tick's list of errors alone.    *)
LEMMA StreaksFrame ==
  ASSUME Shape, StreaksInv, [SchedNext]_schedVars, streak' = streak,
         launch'["scheduler"] # NoLaunch => tick'.at \in {"campaigns", "stages"},
         tick' = tick \/ (tick'.at # "refuse" /\ tick'.since = AnyEdit)
  PROVE  StreaksInv'
<1>0. /\ \A c \in Campaigns : camp[c].edit \in Nat /\ camp'[c].edit \in Nat
      /\ \A c \in Campaigns : streak[c].edit \in Int
      /\ tick.since \in Int
  <2>1. SchedTypeOK'
    BY TypeStep
  <2>2. \A c \in Campaigns : camp'[c] \in Campaign
    BY <2>1 DEF SchedTypeOK
  <2> QED BY <2>2, Types DEF Shape, Campaign, AnyEdit, TickRow
<1>1. \A c \in Campaigns :
        /\ streak'[c].edit <= camp'[c].edit
        /\ streak'[c].edit = camp'[c].edit /\ streak'[c].old => c \in calm'
  <2> SUFFICES ASSUME NEW c \in Campaigns
               PROVE  /\ streak[c].edit <= camp'[c].edit
                      /\ streak[c].edit = camp'[c].edit /\ streak[c].old => c \in calm'
    OBVIOUS
  <2>1. streak[c].edit <= camp[c].edit /\ (streak[c].edit = camp[c].edit /\ streak[c].old => c \in calm)
    BY DEF StreaksInv
  <2> QED BY <1>0, <2>1, EditOrCalm DEF Edited, Untouched
<1>2. CASE tick' = tick /\ tick.at = "refuse" /\ tick.since # AnyEdit
  <2>1. tick.c \in Campaigns
    BY <1>2 DEF Shape, Named
  <2>2. tick.since <= camp[tick.c].edit /\ (tick.since = camp[tick.c].edit => tick.c \in calm)
    BY <1>2 DEF StreaksInv
  <2>3. tick.since <= camp'[tick.c].edit /\ (tick.since = camp'[tick.c].edit => tick.c \in calm')
    BY <1>0, <2>1, <2>2, EditOrCalm DEF Edited, Untouched
  <2> QED BY <1>1, <1>2, <2>3 DEF StreaksInv
<1>3. CASE tick' = tick /\ ~(tick.at = "refuse" /\ tick.since # AnyEdit)
  BY <1>1, <1>3 DEF StreaksInv
<1>4. CASE tick'.at # "refuse" /\ tick'.since = AnyEdit
  BY <1>1, <1>4 DEF StreaksInv
<1> QED BY <1>2, <1>3, <1>4

LEMMA StreaksStep ==
  ASSUME Shape, StreaksInv, [SchedNext]_schedVars
  PROVE  StreaksInv'
<1>0. /\ launch \in [Actors -> LaunchRow] /\ tick \in TickRow
      /\ camp \in [Campaigns -> Campaign]
      /\ streak \in [Campaigns -> [edit : Nat \union {AnyEdit}, old : BOOLEAN]]
      /\ \A c \in Campaigns : camp[c].edit \in Nat
      /\ launch["scheduler"] # NoLaunch => tick.at \in {"campaigns", "stages"}
      /\ tick.at # "refuse" => tick.since = AnyEdit
  BY Types DEF Shape, SchedTypeOK, LaunchRow, Campaign, StreaksInv
<1>1. CASE UNCHANGED <<streak, tick>> /\ launch'["scheduler"] \in {launch["scheduler"], NoLaunch}
  BY <1>0, <1>1, StreaksFrame
<1>2. CASE StartTick
  <2>1. tick'.at = "campaigns" /\ tick'.since = AnyEdit /\ streak' = streak
    BY <1>2 DEF StartTick, AtRest
  <2> QED BY <2>1, StreaksFrame
<1>3. ASSUME NEW c \in Campaigns, LaunchCampaign(c) PROVE StreaksInv'
  <2>1. tick.at = "campaigns" /\ tick.since = AnyEdit /\ streak' = streak /\ Idle
    BY <1>0, <1>3 DEF LaunchCampaign
  <2>2. \/ tick'.at = "campaigns" /\ tick'.since = AnyEdit
        \/ tick'.at = "judge" /\ tick'.since = AnyEdit /\ launch' = launch
    BY <1>0, <1>3, <2>1 DEF LaunchCampaign, TickRow
  <2> QED BY <2>1, <2>2, StreaksFrame DEF Idle
<1>4. CASE CampaignFails
  <2>1. tick.since = AnyEdit
    BY <1>0, <1>4 DEF CampaignFails, Idle
  <2>2. tick'.at = "judge" /\ tick'.since = AnyEdit /\ streak' = streak /\ launch'["scheduler"] = NoLaunch
    BY <1>0, <1>4, <2>1 DEF CampaignFails, TickRow
  <2> QED BY <2>2, StreaksFrame
<1>5. CASE Judge
  <2> DEFINE c == tick.c
  <2>1. /\ c \in Campaigns /\ tick.since = AnyEdit /\ launch["scheduler"] = NoLaunch
        /\ UNCHANGED <<camp, calm, launch>>
    BY <1>0, <1>5 DEF Judge, Shape, Named, ghosts
  <2>2. CASE streak' = streak /\ tick' = NextCampaign
    <3>1. tick'.at # "refuse" /\ tick'.since = AnyEdit
      BY <2>2 DEF NextCampaign, AtRest
    <3> QED BY <2>1, <2>2, <3>1, StreaksFrame
  <2>3. CASE streak' = streak /\ tick' = [tick EXCEPT !.at = "refuse"]
    <3>1. tick'.at = "refuse" /\ tick'.since = AnyEdit
      BY <1>0, <2>1, <2>3 DEF TickRow
    <3> QED BY <2>1, <2>3, <3>1 DEF StreaksInv
  <2>4. CASE streak' = streak /\ SameStreak(c) /\ streak[c].old
             /\ tick' = [tick EXCEPT !.at = "refuse", !.since = camp[c].edit]
    <3>1. tick'.at = "refuse" /\ tick'.since = camp[c].edit /\ tick'.c = c
      BY <1>0, <2>4 DEF TickRow
    <3>2. c \in calm
      BY <2>1, <2>4 DEF StreaksInv, SameStreak
    <3> QED BY <1>0, <2>1, <2>4, <3>1, <3>2 DEF StreaksInv
  <2>5. CASE tick' = NextCampaign /\ streak' = [streak EXCEPT ![c] = [edit |-> camp[c].edit, old |-> FALSE]]
    <3>1. tick'.at = "campaigns" /\ tick'.since = AnyEdit
      BY <2>5 DEF NextCampaign, AtRest
    <3>2. streak'[c].edit = camp[c].edit /\ ~streak'[c].old /\ \A d \in Campaigns \ {c} : streak'[d] = streak[d]
      BY <1>0, <2>1, <2>5
    <3> QED BY <1>0, <2>1, <3>1, <3>2 DEF StreaksInv
  <2> QED BY <1>5, <2>2, <2>3, <2>4, <2>5 DEF Judge
<1>6. CASE Refuse
  <2>1. tick'.at # "refuse" /\ tick'.since = AnyEdit /\ streak' = streak /\ launch' = launch /\ launch["scheduler"] = NoLaunch
    BY <1>0, <1>6 DEF Refuse, NextCampaign, AtRest
  <2> QED BY <2>1, StreaksFrame
<1>7. CASE CancelStages \/ ListStages
  <2>1. tick'.at \in {"closed", "stages"} /\ tick'.since = tick.since /\ tick.at # "refuse" /\ streak' = streak
        /\ launch' = launch /\ launch["scheduler"] = NoLaunch
    BY <1>0, <1>7 DEF CancelStages, ListStages, TickRow, Idle
  <2> QED BY <1>0, <2>1, StreaksFrame
<1>8. ASSUME NEW s \in Stages, LaunchStage(s) PROVE StreaksInv'
  <2>1. tick'.at = "stages" /\ tick'.since = AnyEdit /\ streak' = streak
    BY <1>0, <1>8 DEF LaunchStage, TickRow
  <2> QED BY <2>1, StreaksFrame
<1>9. CASE FailUnreadable \/ Restart
  <2>1. tick'.at = "rest" /\ tick'.since = AnyEdit /\ streak' = streak
    <3>1. AtRest.at = "rest" /\ AtRest.since = AnyEdit
      BY DEF AtRest
    <3>2. tick' = AtRest /\ streak' = streak
      BY <1>9 DEF FailUnreadable, Restart
    <3> QED BY <3>1, <3>2
  <2>2. launch'["scheduler"] = NoLaunch
    BY <1>9 DEF FailUnreadable, Restart, Idle
  <2> QED BY <2>1, <2>2, StreaksFrame
<1>10. CASE StageFails \/ Pushed("scheduler")
  BY <1>0, <1>1, <1>10 DEF StageFails, Pushed
<1>11. CASE HasKey("scheduler")
  <2>1. UNCHANGED <<streak, tick>> /\ launch["scheduler"] # NoLaunch
    BY <1>11 DEF HasKey, NoLaunch
  <2> QED BY <1>0, <2>1, StreaksFrame
<1>12. CASE OperatorStep
  <2>1. UNCHANGED <<streak, tick>> /\ launch'["scheduler"] = launch["scheduler"]
    BY <1>0, <1>12 DEF OperatorStep, PressCampaign, EditTemplate, OperatorLaunch, BeginLaunch, PressStage,
          OperatorFails, HasKey, Pushed
  <2> QED BY <1>1, <2>1
<1>13. CASE DayPasses
  <2>1. /\ UNCHANGED <<camp, tick, launch>> /\ calm' = Campaigns
        /\ \A c \in Campaigns : streak'[c].edit = streak[c].edit
    BY <1>0, <1>13 DEF DayPasses
  <2> QED BY <1>0, <2>1 DEF StreaksInv, Shape, Named
<1>14. CASE UNCHANGED <<streak, tick, launch>>
  BY <1>1, <1>14
<1> QED BY <1>2, <1>3, <1>4, <1>5, <1>6, <1>7, <1>8, <1>9, <1>10, <1>11, <1>12, <1>13, <1>14
    DEF SchedNext, TickStep, Elapse, ComesDue, LockElapses, StageComesDue, GoodPull, Click, schedVars

-----------------------------------------------------------------------------
(* Results                                                                  *)

\* The conjunction is inductive.
THEOREM SchedulerInvariant == SchedSpec => []SchedIInv
<1>1. SchedInit => SchedIInv
  BY SchedInitial
<1>2. SchedIInv /\ [SchedNext]_schedVars => SchedIInv'
  BY TypeStep, NamedStep, StagesStep, LocksStep, StreaksStep DEF SchedIInv, Shape
<1> QED BY <1>1, <1>2, PTL DEF SchedSpec

\* The state keeps its shape in every interleaving of tick, presses and restarts.
THEOREM SchedulerTypes == SchedSpec => []SchedTypeOK
<1>1. SchedIInv => SchedTypeOK
  BY DEF SchedIInv, Shape
<1> QED BY <1>1, SchedulerInvariant, PTL

\* A stage that was listed before its campaign was paused or closed is not
\* launched afterwards, whatever is pressed while the tick works through its list.
THEOREM NoLaunchOfStoppedStage == SchedSpec => []StopWins
<1>1. SchedIInv => StopWins
  BY DEF SchedIInv, StagesInv
<1> QED BY <1>1, SchedulerInvariant, PTL

\* A stage that is cancelled, or failed and not marked possibly_sent, has sent
\* nothing, restarts in mid-push excepted.
THEOREM StageWordsAreTrue == SchedSpec => []StageWordTrue
<1>1. SchedIInv => StageWordTrue
  BY DEF SchedIInv, StagesInv, MailedStages, StageWordTrue
<1> QED BY <1>1, SchedulerInvariant, PTL

\* No contact is held by two running locks, but for launches that ran side by side.
THEOREM ContactLockExclusive == SchedSpec => []LockExclusive
<1>1. SchedIInv => LockExclusive
  BY DEF SchedIInv, LocksInv
<1> QED BY <1>1, SchedulerInvariant, PTL

\* A campaign is given up for unexpected errors only after a day without a change.
THEOREM GivenUpAfterQuietDay == SchedSpec => RefusedAfterQuietDay
<1> DEFINE Given == \A c \in Campaigns :
             tick.at = "refuse" /\ tick.since # AnyEdit
               /\ camp[c].status = "scheduled" /\ camp'[c].status = "failed" => c \in calm
<1>1. SchedIInv /\ [SchedNext]_schedVars => [Given]_schedVars
  <2> SUFFICES ASSUME SchedIInv, [SchedNext]_schedVars, NEW c \in Campaigns,
                      tick.at = "refuse", tick.since # AnyEdit, Failing(c)
               PROVE  c \in calm
    BY DEF Failing
  <2>1. Refuse /\ c = tick.c /\ tick.since \in {AnyEdit, camp[c].edit}
    BY EditOrCalm DEF SchedIInv, FailUnreadable
  <2> QED BY <2>1 DEF SchedIInv, StreaksInv
<1> QED BY <1>1, SchedulerInvariant, PTL DEF SchedSpec, RefusedAfterQuietDay
=============================================================================
