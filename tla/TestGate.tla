------------------------------ MODULE TestGate ------------------------------
(***************************************************************************)
(* Templates, companies and campaigns in the terminal's SQLite             *)
(* (routes_admin.py), and the gate a launch passes (launch.py): a campaign *)
(* is launched only with the template the operator marked as tested.       *)
(*                                                                         *)
(* The routes run in threads, a launch on the event loop, which it leaves  *)
(* to others while it waits for K_temp.  Reads are no part of a            *)
(* transaction, so what a press has read may have changed when it writes;  *)
(* presses holds what each has read.  A route whose reads only ask whether *)
(* rows are there, with a foreign key behind them, is one step.            *)
(***************************************************************************)
EXTENDS FiniteSets

CONSTANTS
  Templates, Companies, Campaigns,
  Contents,     \* what a template says: subject, sender's name and HTML, by hash
  Presses,      \* requests and launches at a time
  Absent, None

Kinds == {"launch", "stage", "again"}   \* "again": a Re-launch, or a batch after the first
Statuses == {"draft", "tested", "scheduled", "dispatched", "cancelled", "paused", "archived"}
TemplateRow == Contents \cup {Absent}
CompanyRow == {"absent", "keyless", "keyed"}
CampaignRow == [template : Templates, company : Companies \cup {None}, status : Statuses,
                hash : Contents \cup {None}]

ASSUME GateAssumption == None \notin Contents \cup Companies /\ Absent \notin Contents \cup CampaignRow

VARIABLES
  templates,    \* the hash of a template, or Absent
  companies,    \* whether a company is there, and has a key
  campaigns,    \* the campaign rows, or Absent
  presses,
  tested,       \* hashes a mark-tested of a campaign has recorded
  mailed,       \* campaigns some mail of which may have failed
  pushed        \* the latest mail that was pushed, or None

gateRows == <<templates, companies, campaigns>>
gateVars == <<gateRows, presses, tested, mailed, pushed>>

Present(S) == {x \in DOMAIN S : S[x] # Absent}
NoPress == [at |-> "idle"]

PressTypes ==
  [at : {"idle"}]
    \cup [at : {"mark"}, campaign : Campaigns, hash : Contents]
    \cup [at : {"schedule"}, campaign : Campaigns, hash : Contents]
    \cup [at : {"status"}, campaign : Campaigns, status : Statuses]
    \cup [at : {"template"}, kind : Kinds, campaign : Campaigns, template : Templates,
          company : Companies \cup {None}, hash : Contents \cup {None}]
    \cup [at : {"key"}, kind : Kinds, campaign : Campaigns, template : Templates, content : Contents]

GateInit ==
  /\ templates = [t \in Templates |-> Absent]
  /\ companies = [k \in Companies |-> "absent"]
  /\ campaigns = [c \in Campaigns |-> Absent]
  /\ mailed = {} /\ pushed = None
  /\ presses = [p \in Presses |-> NoPress]
  /\ tested = [c \in Campaigns |-> {}]

BeginPress(p, press) == presses[p] = NoPress /\ presses' = [presses EXCEPT ![p] = press]
EndPress(p) == presses' = [presses EXCEPT ![p] = NoPress]
Same(changed) == UNCHANGED <<tested, mailed, pushed>> /\ UNCHANGED changed

-----------------------------------------------------------------------------
(* Templates and companies.                                                 *)

CreateTemplate(t, h) ==
  /\ templates[t] = Absent
  /\ templates' = [templates EXCEPT ![t] = h]
  /\ Same(<<companies, campaigns, presses>>)

UpdateTemplate(t, h) ==
  /\ templates[t] # Absent
  /\ templates' = [templates EXCEPT ![t] = h]
  /\ Same(<<companies, campaigns, presses>>)

(* A template in use is a 409. *)
Used(t) == \E c \in Present(campaigns) : campaigns[c].template = t

DeleteTemplate(t) ==
  /\ templates[t] # Absent /\ ~Used(t)
  /\ templates' = [templates EXCEPT ![t] = Absent]
  /\ Same(<<companies, campaigns, presses>>)

CreateCompany(k) ==
  /\ companies[k] = "absent"
  /\ companies' = [companies EXCEPT ![k] = "keyless"]
  /\ Same(<<templates, campaigns, presses>>)

SetKey(k) ==
  /\ companies[k] # "absent"
  /\ \E state \in {"keyed", "keyless"} : companies' = [companies EXCEPT ![k] = state]
  /\ Same(<<templates, campaigns, presses>>)

(* Its campaigns stay, without a company. *)
DeleteCompany(k) ==
  /\ companies[k] # "absent"
  /\ companies' = [companies EXCEPT ![k] = "absent"]
  /\ campaigns' = [c \in Campaigns |->
       IF campaigns[c] # Absent /\ campaigns[c].company = k
       THEN [campaigns[c] EXCEPT !.company = None] ELSE campaigns[c]]
  /\ Same(<<templates, presses>>)

-----------------------------------------------------------------------------
(* Campaigns.                                                               *)

Company(k) == k \in {None} \cup {x \in Companies : companies[x] # "absent"}

NewCampaign(c, row) ==
  /\ campaigns[c] = Absent
  /\ campaigns' = [campaigns EXCEPT ![c] = row]
  /\ Same(<<templates, companies, presses>>)

(* One that is created with a time is on the schedule, tested or not. *)
CreateCampaign(c, t, k, status) ==
  /\ templates[t] # Absent /\ Company(k) /\ status \in {"draft", "scheduled"}
  /\ NewCampaign(c, [template |-> t, company |-> k, status |-> status, hash |-> None])

CloneCampaign(c, from) ==
  NewCampaign(c, [campaigns[from] EXCEPT !.status = "draft", !.hash = None])

SetRow(c, row) == campaigns' = [campaigns EXCEPT ![c] = row]

EditCompany(c, k) ==
  /\ Company(k) /\ k # None
  /\ SetRow(c, [campaigns[c] EXCEPT !.company = k])
  /\ Same(<<templates, companies, presses>>)

(* Retry puts failed recipients back and the campaign to 'tested'.          *)
RetryFailed(c) ==
  /\ c \in mailed
  /\ SetRow(c, [campaigns[c] EXCEPT !.status = "tested"])
  /\ Same(<<templates, companies, presses>>)

(* mark_tested records the hash the template has when the button is         *)
(* pressed.                                                                 *)
PressMarkTested(p, c) ==
  /\ BeginPress(p, [at |-> "mark", campaign |-> c, hash |-> templates[campaigns[c].template]])
  /\ Same(gateRows)

MarkTested(p) ==
  LET c == presses[p].campaign IN
  /\ presses[p].at = "mark"
  /\ SetRow(c, [campaigns[c] EXCEPT !.hash = presses[p].hash,
                  !.status = IF @ = "scheduled" THEN "scheduled" ELSE "tested"])
  /\ tested' = [tested EXCEPT ![c] = @ \cup {presses[p].hash}]
  /\ EndPress(p)
  /\ UNCHANGED <<templates, companies, mailed, pushed>>

PressSchedule(p, c) ==
  /\ campaigns[c].status = "tested" /\ campaigns[c].hash = templates[campaigns[c].template]
  /\ BeginPress(p, [at |-> "schedule", campaign |-> c, hash |-> campaigns[c].hash])
  /\ Same(gateRows)

(* The UPDATE asks again for the status and the hash. *)
Schedule(p) ==
  LET c == presses[p].campaign IN
  /\ presses[p].at = "schedule"
  /\ IF campaigns[c].status = "tested" /\ campaigns[c].hash = presses[p].hash
     THEN SetRow(c, [campaigns[c] EXCEPT !.status = "scheduled"]) ELSE UNCHANGED campaigns
  /\ EndPress(p)
  /\ Same(<<templates, companies>>)

(* Pause, resume, cancel and archive choose the status when they read the   *)
(* campaign, and write it whatever the campaign has become.                 *)
NextStatus(row) ==
  {"cancelled", "archived"}
    \cup (IF row.status \in {"scheduled", "dispatched", "tested"} THEN {"paused"} ELSE {})
    \cup (IF row.status = "paused" THEN {IF row.hash # None THEN "tested" ELSE "draft"} ELSE {})

PressStatus(p, c) ==
  /\ \E status \in NextStatus(campaigns[c]) :
       BeginPress(p, [at |-> "status", campaign |-> c, status |-> status])
  /\ Same(gateRows)

SetStatus(p) ==
  LET c == presses[p].campaign IN
  /\ presses[p].at = "status"
  /\ SetRow(c, [campaigns[c] EXCEPT !.status = presses[p].status])
  /\ EndPress(p)
  /\ Same(<<templates, companies>>)

-----------------------------------------------------------------------------
(* Launches.  Only a launch asks for the status and the test; a stage, a    *)
(* Re-launch and a later batch send what the template says.  A stage may    *)
(* have any template (Scheduler has the stages).                            *)

Allowed(kind, row) ==
  CASE kind = "launch" -> row.status \in {"tested", "scheduled"} /\ row.hash # None
    [] kind = "stage"  -> row.status \notin {"archived", "cancelled"}
    [] kind = "again"  -> row.status # "archived"

PressLaunch(p, kind, c) ==
  /\ Allowed(kind, campaigns[c])
  /\ \E t \in IF kind = "stage" THEN Templates ELSE {campaigns[c].template} :
       BeginPress(p, [at |-> "template", kind |-> kind, campaign |-> c, template |-> t,
                      company |-> campaigns[c].company, hash |-> campaigns[c].hash])
  /\ Same(gateRows)

(* The template as it is now, for a launch with the hash of the test; then  *)
(* the company, which must still be there and have a key.                   *)
PassGate(press, h) == press.kind # "launch" \/ press.hash = h

Sendable(k) == k \in {None} \cup {x \in Companies : companies[x] = "keyed"}

ReadTemplate(p) ==
  LET press == presses[p] IN
  /\ press.at = "template"
  /\ templates[press.template] # Absent
  /\ PassGate(press, templates[press.template])
  /\ Sendable(press.company)
  /\ presses' = [presses EXCEPT ![p] =
       [at |-> "key", kind |-> press.kind, campaign |-> press.campaign,
        template |-> press.template, content |-> templates[press.template]]]
  /\ Same(gateRows)

RereadContent(press) == templates[press.template]            \* mutant: builds from the row again

(* _build_pack renders the template the gate has read. *)
SentContent(press) == press.content

(* The key is there: a launch sets its campaign 'dispatched', whatever the  *)
(* campaign has become meanwhile, and the mail is pushed.                   *)
PushMail(p) ==
  LET press == presses[p] IN
  /\ press.at = "key"
  /\ campaigns' = IF press.kind = "launch" THEN [campaigns EXCEPT ![press.campaign].status = "dispatched"] ELSE campaigns
  /\ pushed' = [kind |-> press.kind, campaign |-> press.campaign, content |-> SentContent(press)]
  /\ mailed' = mailed \cup {press.campaign}
  /\ EndPress(p)
  /\ UNCHANGED <<templates, companies, tested>>

(* A check that fails, a conflict, a key that cannot be had. *)
RefuseLaunch(p) ==
  /\ presses[p].at \in {"template", "key"}
  /\ EndPress(p)
  /\ Same(gateRows)

-----------------------------------------------------------------------------
GateNext ==
  \/ \E t \in Templates : \/ \E h \in Contents : CreateTemplate(t, h) \/ UpdateTemplate(t, h)
                          \/ DeleteTemplate(t)
  \/ \E k \in Companies : CreateCompany(k) \/ SetKey(k) \/ DeleteCompany(k)
  \/ \E c \in Campaigns, t \in Templates, k \in Companies \cup {None}, status \in Statuses :
       CreateCampaign(c, t, k, status)
  \/ \E c \in Campaigns, from \in Present(campaigns) : CloneCampaign(c, from)
  \/ \E c \in Present(campaigns) :
       \/ \E k \in Companies : EditCompany(c, k)
       \/ RetryFailed(c)
       \/ \E p \in Presses : \/ PressMarkTested(p, c) \/ PressSchedule(p, c) \/ PressStatus(p, c)
                             \/ \E kind \in Kinds : PressLaunch(p, kind, c)
  \/ \E p \in Presses : \/ MarkTested(p) \/ Schedule(p) \/ SetStatus(p)
                        \/ ReadTemplate(p) \/ PushMail(p) \/ RefuseLaunch(p)

GateSpec == GateInit /\ [][GateNext]_gateVars

-----------------------------------------------------------------------------
Pushed == [kind : Kinds, campaign : Campaigns, content : Contents]

GateTypeOK ==
  /\ templates \in [Templates -> TemplateRow]
  /\ companies \in [Companies -> CompanyRow]
  /\ campaigns \in [Campaigns -> CampaignRow \cup {Absent}]
  /\ presses \in [Presses -> PressTypes]
  /\ tested \in [Campaigns -> SUBSET Contents]
  /\ mailed \subseteq Campaigns
  /\ pushed \in Pushed \cup {None}

(* Every reference of a campaign is to a row that is there, and its hash is *)
(* one that a mark-tested of its own recorded.                              *)
CampaignsWhole ==
  /\ \A c \in Present(campaigns) :
       /\ templates[campaigns[c].template] # Absent
       /\ Company(campaigns[c].company)
       /\ campaigns[c].hash = None \/ campaigns[c].hash \in tested[c]

(* So does what a press has read. *)
PressWhole(press) ==
  /\ press.at # "idle" => campaigns[press.campaign] # Absent
  /\ press.at = "template" /\ press.kind = "launch" => press.hash \in tested[press.campaign]
  /\ press.at = "key" /\ press.kind = "launch" => press.content \in tested[press.campaign]
PressesWhole == \A p \in Presses : PressWhole(presses[p])

GateInv == GateTypeOK /\ CampaignsWhole /\ PressesWhole

(* A launch sends what a test of this campaign was marked for, however the  *)
(* template, the campaign and its company are edited while the launch waits *)
(* for the key: the gate's comparison and the packs are about one reading.  *)
LaunchedWasTested ==
  pushed # None /\ pushed.kind = "launch" => pushed.content \in tested[pushed.campaign]
=============================================================================
