----------------------------- MODULE MCSchedule -----------------------------
(***************************************************************************)
(* Scheduler on small instances: scope says which part of it a behaviour   *)
(* is about.                                                               *)
(*   campaigns   two scheduled campaigns with a contact in common          *)
(*   stages      two stages of the first campaign; the second is a draft;  *)
(*               two presses, or one and a restart                         *)
(*   locks       launches by the scheduler and by an operator at once, and *)
(*               clicks and pulls; no error but a refusal                  *)
(***************************************************************************)
EXTENDS Scheduler, TLC

CONSTANT Scopes

VARIABLE scope

FirstCampaign == [s \in Stages |-> 1]
SameContact   == [c \in Campaigns |-> {1}]

New(status, due, test) == [status |-> status, due |-> due, test |-> test, edit |-> 0]
InitialCampaigns ==
  {New("scheduled", "past", "good"), New("scheduled", "unreadable", "good"),
   New("tested", "none", "good"), New("draft", "none", "none")}
InitialStages ==
  {[status |-> status, due |-> due, sent |-> FALSE] :
     status \in {"none", "pending"}, due \in {"none", "past", "unreadable"}}

ScheduleInit ==
  /\ scope \in Scopes
  /\ SchedInit
  /\ IF scope = "stages"
       THEN /\ \A c \in Campaigns : camp[c].status = IF c = 1 THEN "tested" ELSE "draft"
            /\ \A s \in Stages : (stage[s].status = "none") = (stage[s].due = "none")
       ELSE /\ \A c \in Campaigns : camp[c].status = "scheduled"
            /\ \A s \in Stages : stage[s].status = "none" /\ stage[s].due = "none"
  /\ scope = "locks" => \A c \in Campaigns : camp[c].due = "past"

CampaignsStep ==
  \/ \E c \in Campaigns : PressCampaign(c) \/ EditTemplate(c) \/ ComesDue(c) \/ LockElapses(c)
  \/ DayPasses

StagesStep ==
  \/ PressCampaign(1)
  \/ \E s \in Stages : PressStage(s) \/ StageComesDue(s)
  \/ DayPasses \/ Restart

LocksStep ==
  \/ \E c \in Campaigns : OperatorLaunch(c) \/ LockElapses(c) \/ (\E r \in Recipients[c] : Click(c, r))
  \/ HasKey("operator") \/ Pushed("operator") \/ OperatorFails \/ GoodPull

Other ==
  /\ \/ scope = "campaigns" /\ CampaignsStep /\ presses' <= 1
     \/ scope = "stages" /\ StagesStep /\ presses' + stops' <= 2
     \/ scope = "locks" /\ LocksStep /\ presses' <= 1
  /\ UNCHANGED scope

scheduleVars == <<scope, schedVars>>
Loop == TickStep /\ (scope = "locks" => tick'.error # "unexpected") /\ UNCHANGED scope

ScheduleSpec == ScheduleInit /\ [][Loop \/ Other]_scheduleVars

\* SchedFairness
ScheduleFairSpec ==
  /\ ScheduleSpec
  /\ WF_scheduleVars(Loop)
  /\ WF_scheduleVars(scope # "locks" /\ DayPasses /\ UNCHANGED scope)
  /\ \A c \in Campaigns : WF_scheduleVars(scope # "stages" /\ LockElapses(c) /\ UNCHANGED scope)
=============================================================================
