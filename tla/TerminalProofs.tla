--------------------------- MODULE TerminalProofs ----------------------------
(***************************************************************************)
(* The terminal's own tables and files, for any number of rows, requests and*)
(* events.                                                                 *)
(*                                                                         *)
(* The gate.  A launch sends a content its campaign was tested with: GateInv,*)
(* together with LaunchedWasTested, is inductive.  Three things change: rows*)
(* (OneRow and RowsKept say that the rows stay whole), what a press has read*)
(* (NewPress, PressesKept), and the two histories, of which tested only grows.*)
(*                                                                         *)
(* The backup.  One that was reported COMPLETE is whole.  CompleteIsWhole  *)
(* says nothing of a backup that is still running.  CopiedInOrder does: the*)
(* database is copied before the scan begins, so that what it knows is in the*)
(* table by then (KnownIsOwed), and a scan that ends has read what was in the*)
(* table when it began (OwedIsRead).                                       *)
(*                                                                         *)
(* The address book.  BookInv needs one thing more: a request that renames or*)
(* removes a tag holds at most one row of a contact (RowsReadOnce).        *)
(*                                                                         *)
(* The send times.  The search for the next free day ends before its guard.*)
(* Every pass either books a send or leaves a full window behind, and a cursor*)
(* meets no window twice (Left, RollsCounted), so that the number of passes is*)
(* bounded by what has been booked.                                        *)
(*                                                                         *)
(* The parts share no variable: PartsHold puts these invariants and those of*)
(* SyncPushProofs and KeysProofs together.                                 *)
(***************************************************************************)
EXTENDS MCParts, SyncPushProofs, KeysProofs

-----------------------------------------------------------------------------
(* The gate of a launch                                                     *)

(* What the three kinds of row are is used everywhere.                      *)
USE DEF TemplateRow, CompanyRow

GateIInv == GateInv /\ LaunchedWasTested

(* A campaign that is there is a row.                                       *)
LEMMA RowThere ==
  ASSUME GateTypeOK, NEW c \in Campaigns, campaigns[c] # Absent
  PROVE  campaigns[c] \in CampaignRow
  BY DEF GateTypeOK

(* The fields of a press, by the place it has reached.                      *)
LEMMA PressFields ==
  ASSUME NEW press \in PressTypes
  PROVE  /\ press.at # "idle" => press.campaign \in Campaigns
         /\ press.at \in {"mark", "schedule"} => press.hash \in Contents
         /\ press.at = "status" => press.status \in Statuses
         /\ press.at = "template" => /\ press.kind \in Kinds /\ press.template \in Templates
                                     /\ press.company \in Companies \cup {None}
                                     /\ press.hash \in Contents \cup {None}
         /\ press.at = "key" => /\ press.kind \in Kinds /\ press.template \in Templates
                                /\ press.content \in Contents
  BY DEF PressTypes

(* PressWhole after the step, of a press that may be a new one.             *)
WholeAfter(press) ==
  /\ press.at # "idle" => campaigns'[press.campaign] # Absent
  /\ press.at = "template" /\ press.kind = "launch" => press.hash \in tested'[press.campaign]
  /\ press.at = "key" /\ press.kind = "launch" => press.content \in tested'[press.campaign]

(* Rows nobody deletes and histories that only grow keep a press whole.     *)
LEMMA PressKept ==
  ASSUME \A c \in Campaigns : campaigns[c] # Absent => campaigns'[c] # Absent,
         \A c \in Campaigns : tested[c] \subseteq tested'[c],
         NEW press \in PressTypes, PressWhole(press)
  PROVE  WholeAfter(press)
<1>1. press.at # "idle" => press.campaign \in Campaigns
  BY PressFields
<1> QED BY <1>1 DEF PressWhole, WholeAfter

LEMMA PressesKept ==
  ASSUME presses \in [Presses -> PressTypes], PressesWhole,
         \A c \in Campaigns : campaigns[c] # Absent => campaigns'[c] # Absent,
         \A c \in Campaigns : tested[c] \subseteq tested'[c],
         UNCHANGED presses \/ \E p \in Presses : EndPress(p)
  PROVE  presses' \in [Presses -> PressTypes] /\ PressesWhole'
<1>1. /\ presses' \in [Presses -> PressTypes]
      /\ \A p \in Presses : presses'[p] = presses[p] \/ presses'[p] = NoPress
  BY DEF EndPress, NoPress, PressTypes
<1>2. ASSUME NEW p \in Presses PROVE WholeAfter(presses'[p])
  <2>1. WholeAfter(presses[p])
    BY PressKept DEF PressesWhole
  <2>2. WholeAfter(NoPress)
    BY DEF NoPress, WholeAfter
  <2> QED BY <1>1, <2>1, <2>2
<1> QED BY <1>1, <1>2 DEF PressesWhole, PressWhole, WholeAfter

LEMMA NewPress ==
  ASSUME presses \in [Presses -> PressTypes], PressesWhole,
         \A c \in Campaigns : campaigns[c] # Absent => campaigns'[c] # Absent,
         \A c \in Campaigns : tested[c] \subseteq tested'[c],
         NEW p \in Presses, NEW press \in PressTypes, PressWhole(press),
         presses' = [presses EXCEPT ![p] = press]
  PROVE  presses' \in [Presses -> PressTypes] /\ PressesWhole'
<1>1. ASSUME NEW q \in Presses PROVE WholeAfter(presses'[q])
  <2>1. WholeAfter(presses[q]) /\ WholeAfter(press)
    BY PressKept DEF PressesWhole
  <2> QED BY <2>1
<1> QED BY <1>1 DEF PressesWhole, PressWhole, WholeAfter

(* A campaign's row is written: the others stay, and so do the rows all of  *)
(* them refer to.                                                           *)
LEMMA OneRow ==
  ASSUME GateAssumption, GateTypeOK, CampaignsWhole, UNCHANGED <<templates, companies>>,
         NEW c \in Campaigns, NEW row \in CampaignRow, SetRow(c, row),
         templates[row.template] # Absent, Company(row.company),
         row.hash = None \/ row.hash \in tested'[c],
         \A d \in Campaigns : tested[d] \subseteq tested'[d]
  PROVE  /\ campaigns' \in [Campaigns -> CampaignRow \cup {Absent}]
         /\ CampaignsWhole'
         /\ \A d \in Campaigns : campaigns[d] # Absent => campaigns'[d] # Absent
<1>1. /\ campaigns' \in [Campaigns -> CampaignRow \cup {Absent}]
      /\ campaigns'[c] = row
      /\ \A d \in Campaigns : d # c => campaigns'[d] = campaigns[d]
  BY DEF GateTypeOK, SetRow
<1>2. ASSUME NEW d \in Campaigns, campaigns'[d] # Absent
      PROVE  /\ templates'[campaigns'[d].template] # Absent
             /\ Company(campaigns'[d].company)
             /\ campaigns'[d].hash = None \/ campaigns'[d].hash \in tested'[d]
  <2>1. CASE d = c
    BY <1>1, <2>1 DEF Company
  <2>2. CASE d # c
    BY <1>1, <1>2, <2>2 DEF CampaignsWhole, Present, Company, GateTypeOK
  <2> QED BY <2>1, <2>2
<1>3. \A d \in Campaigns : campaigns[d] # Absent => campaigns'[d] # Absent
  BY <1>1 DEF GateAssumption
<1> QED BY <1>1, <1>2, <1>3 DEF CampaignsWhole, Present, Company

-----------------------------------------------------------------------------
(* The steps.                                                               *)

(* Templates and companies: rows nobody refers to are deleted, and a        *)
(* deleted company is taken from the campaigns that had it.                 *)
LEMMA TemplateStep ==
  ASSUME GateAssumption, GateIInv, NEW t \in Templates,
         (\E h \in Contents : CreateTemplate(t, h) \/ UpdateTemplate(t, h)) \/ DeleteTemplate(t)
  PROVE  GateIInv'
<1>1. /\ templates' \in [Templates -> Contents \cup {Absent}]
      /\ \A c \in Present(campaigns) : templates'[campaigns[c].template] # Absent
  <2>1. \A c \in Present(campaigns) : c \in Campaigns /\ campaigns[c] \in CampaignRow
    BY DEF GateIInv, GateInv, GateTypeOK, Present
  <2> QED BY <2>1 DEF GateIInv, GateInv, GateTypeOK, GateAssumption, CampaignsWhole,
            CreateTemplate, UpdateTemplate, DeleteTemplate, Used, CampaignRow
<1>2. UNCHANGED <<companies, campaigns, presses, tested, mailed, pushed>>
  BY DEF CreateTemplate, UpdateTemplate, DeleteTemplate, Same
<1>3. CampaignsWhole'
  BY <1>1, <1>2 DEF GateIInv, GateInv, CampaignsWhole, Present, Company
<1>4. PressesWhole'
  BY <1>2 DEF GateIInv, GateInv, PressesWhole, PressWhole
<1> QED BY <1>1, <1>2, <1>3, <1>4 DEF GateIInv, GateInv, GateTypeOK, LaunchedWasTested

LEMMA CompanyStep ==
  ASSUME GateAssumption, GateIInv, NEW k \in Companies,
         CreateCompany(k) \/ SetKey(k) \/ DeleteCompany(k)
  PROVE  GateIInv'
<1>1. CASE CreateCompany(k) \/ SetKey(k)
  <2>1. /\ companies' \in [Companies -> {"absent", "keyless", "keyed"}]
        /\ \A x \in Companies : companies[x] # "absent" => companies'[x] # "absent"
    BY <1>1 DEF GateIInv, GateInv, GateTypeOK, CreateCompany, SetKey
  <2>2. UNCHANGED <<templates, campaigns, presses, tested, mailed, pushed>>
    BY <1>1 DEF CreateCompany, SetKey, Same
  <2>3. CampaignsWhole'
    BY <2>1, <2>2 DEF GateIInv, GateInv, CampaignsWhole, Present, Company
  <2>4. PressesWhole'
    BY <2>2 DEF GateIInv, GateInv, PressesWhole, PressWhole
  <2> QED BY <2>1, <2>2, <2>3, <2>4 DEF GateIInv, GateInv, GateTypeOK, LaunchedWasTested
<1>2. CASE DeleteCompany(k)
  <2>1. UNCHANGED <<templates, presses, tested, mailed, pushed>>
    BY <1>2 DEF DeleteCompany, Same
  <2>2. companies' = [companies EXCEPT ![k] = "absent"]
    BY <1>2 DEF DeleteCompany
  <2>3. ASSUME NEW c \in Campaigns
        PROVE  \/ campaigns'[c] = campaigns[c] /\ (campaigns[c] # Absent => campaigns[c].company # k)
               \/ /\ campaigns[c] # Absent
                  /\ campaigns'[c] = [campaigns[c] EXCEPT !.company = None]
    BY <1>2 DEF DeleteCompany
  <2>4. ASSUME NEW c \in Campaigns
        PROVE  /\ campaigns'[c] \in CampaignRow \cup {Absent}
               /\ campaigns[c] # Absent => campaigns'[c] # Absent
               /\ campaigns'[c] # Absent =>
                    /\ campaigns[c] # Absent
                    /\ templates[campaigns'[c].template] # Absent
                    /\ campaigns'[c].company \in {None} \cup {x \in Companies : companies'[x] # "absent"}
                    /\ campaigns'[c].hash = None \/ campaigns'[c].hash \in tested[c]
    <3>1. CASE campaigns[c] = Absent
      BY <2>3, <3>1
    <3>2. CASE campaigns[c] # Absent
      <4>1. /\ campaigns[c] \in CampaignRow /\ campaigns[c].company \in Companies \cup {None}
            /\ templates[campaigns[c].template] # Absent
            /\ campaigns[c].company \in {None} \cup {x \in Companies : companies[x] # "absent"}
            /\ campaigns[c].hash = None \/ campaigns[c].hash \in tested[c]
        BY <3>2, RowThere DEF GateIInv, GateInv, GateTypeOK, CampaignsWhole, Company, Present, CampaignRow
      <4>2. CASE campaigns'[c] = campaigns[c] /\ campaigns[c].company # k
        BY <2>2, <3>2, <4>1, <4>2 DEF GateIInv, GateInv, GateTypeOK
      <4>3. CASE campaigns'[c] = [campaigns[c] EXCEPT !.company = None]
        BY <2>2, <3>2, <4>1, <4>3 DEF CampaignRow, GateAssumption
      <4> QED BY <2>3, <3>2, <4>2, <4>3
    <3> QED BY <3>1, <3>2
  <2>5. campaigns' \in [Campaigns -> CampaignRow \cup {Absent}]
    <3>1. DOMAIN campaigns' = Campaigns /\ campaigns' = [c \in Campaigns |-> campaigns'[c]]
      BY <1>2 DEF DeleteCompany
    <3> QED BY <3>1, <2>4
  <2>6. CampaignsWhole'
    BY <2>1, <2>4, <2>5 DEF CampaignsWhole, Present, Company
  <2>7. PressesWhole'
    BY <2>1, <2>4, PressesKept DEF GateIInv, GateInv, GateTypeOK
  <2> QED BY <2>1, <2>2, <2>5, <2>6, <2>7 DEF GateIInv, GateInv, GateTypeOK, LaunchedWasTested
<1> QED BY <1>1, <1>2

(* A step that only writes the row of a campaign that is there, and may end *)
(* the press that made it.                                                  *)
LEMMA RowStep ==
  ASSUME GateAssumption, GateIInv,
         NEW c \in Campaigns, NEW row \in CampaignRow, SetRow(c, row),
         templates[row.template] # Absent, Company(row.company),
         row.hash = None \/ row.hash \in tested'[c],
         tested' \in [Campaigns -> SUBSET Contents],
         \A d \in Campaigns : tested[d] \subseteq tested'[d],
         UNCHANGED presses \/ \E p \in Presses : EndPress(p),
         UNCHANGED <<templates, companies, mailed, pushed>>
  PROVE  GateIInv'
<1>1. /\ campaigns' \in [Campaigns -> CampaignRow \cup {Absent}]
      /\ CampaignsWhole'
      /\ \A d \in Campaigns : campaigns[d] # Absent => campaigns'[d] # Absent
  BY OneRow DEF GateIInv, GateInv
<1>2. presses' \in [Presses -> PressTypes] /\ PressesWhole'
  BY <1>1, PressesKept DEF GateIInv, GateInv, GateTypeOK
<1>3. LaunchedWasTested'
  BY DEF GateIInv, GateInv, GateTypeOK, LaunchedWasTested, Pushed
<1> QED BY <1>1, <1>2, <1>3 DEF GateIInv, GateInv, GateTypeOK

(* What a row refers to, for a campaign that is there.                      *)
LEMMA RowWhole ==
  ASSUME GateInv, NEW c \in Campaigns, campaigns[c] # Absent
  PROVE  /\ campaigns[c] \in CampaignRow
         /\ campaigns[c].template \in Templates
         /\ templates[campaigns[c].template] \in Contents
         /\ templates[campaigns[c].template] # Absent
         /\ Company(campaigns[c].company)
         /\ campaigns[c].hash = None \/ campaigns[c].hash \in tested[c]
  BY DEF GateInv, GateTypeOK, CampaignsWhole, Present, CampaignRow

(* Routes on a campaign that are one step.                                  *)
LEMMA RouteStep ==
  ASSUME GateAssumption, GateIInv, NEW c \in Campaigns,
         \/ \E t \in Templates, k \in Companies \cup {None}, status \in Statuses :
              CreateCampaign(c, t, k, status)
         \/ \E from \in Present(campaigns) : CloneCampaign(c, from)
         \/ /\ c \in Present(campaigns)
            /\ (\E k \in Companies : EditCompany(c, k)) \/ RetryFailed(c)
  PROVE  GateIInv'
<1> USE DEF GateIInv
<1>1. /\ UNCHANGED <<templates, companies, presses, tested, mailed, pushed>>
      /\ tested \in [Campaigns -> SUBSET Contents]
  BY DEF CreateCampaign, CloneCampaign, NewCampaign, EditCompany, RetryFailed, Same, GateInv, GateTypeOK
<1>2. ASSUME NEW row \in CampaignRow, SetRow(c, row), templates[row.template] # Absent,
             Company(row.company), row.hash = None \/ row.hash \in tested[c]
      PROVE  GateIInv'
  BY <1>1, <1>2, RowStep
<1>3. CASE \E t \in Templates, k \in Companies \cup {None}, status \in Statuses :
              CreateCampaign(c, t, k, status)
  <2>1. PICK t \in Templates, k \in Companies \cup {None}, status \in Statuses :
           CreateCampaign(c, t, k, status)
    BY <1>3
  <2> DEFINE row == [template |-> t, company |-> k, status |-> status, hash |-> None]
  <2>2. row \in CampaignRow /\ SetRow(c, row) /\ templates[t] # Absent /\ Company(k)
    BY <2>1 DEF CreateCampaign, NewCampaign, SetRow, CampaignRow
  <2> QED BY <2>2, <1>2
<1>4. CASE \E from \in Present(campaigns) : CloneCampaign(c, from)
  <2>1. PICK from \in Present(campaigns) : CloneCampaign(c, from)
    BY <1>4
  <2>2. from \in Campaigns /\ campaigns[from] # Absent
    BY <2>1 DEF Present, GateInv, GateTypeOK
  <2> DEFINE row == [campaigns[from] EXCEPT !.status = "draft", !.hash = None]
  <2>3. row \in CampaignRow /\ row.template = campaigns[from].template
          /\ row.company = campaigns[from].company /\ row.hash = None
    <3>1. campaigns[from] \in CampaignRow
      BY <2>2, RowWhole
    <3> QED BY <3>1 DEF CampaignRow, Statuses
  <2>4. SetRow(c, row)
    BY <2>1 DEF CloneCampaign, NewCampaign, SetRow
  <2> QED BY <2>2, <2>3, <2>4, <1>2, RowWhole
<1>5. CASE /\ c \in Present(campaigns)
           /\ (\E k \in Companies : EditCompany(c, k)) \/ RetryFailed(c)
  <2>1. campaigns[c] # Absent
    BY <1>5 DEF Present
  <2>2. CASE RetryFailed(c)
    <3> DEFINE row == [campaigns[c] EXCEPT !.status = "tested"]
    <3>1. row \in CampaignRow /\ row.template = campaigns[c].template
            /\ row.company = campaigns[c].company /\ row.hash = campaigns[c].hash
      BY <2>1, RowWhole DEF CampaignRow, Statuses
    <3>2. SetRow(c, row)
      BY <2>2 DEF RetryFailed
    <3> QED BY <2>1, <3>1, <3>2, <1>2, RowWhole
  <2>3. CASE \E k \in Companies : EditCompany(c, k)
    <3>1. PICK k \in Companies : EditCompany(c, k)
      BY <2>3
    <3> DEFINE row == [campaigns[c] EXCEPT !.company = k]
    <3>2. row \in CampaignRow /\ row.template = campaigns[c].template
            /\ row.company = k /\ row.hash = campaigns[c].hash
      BY <2>1, RowWhole DEF CampaignRow
    <3>3. SetRow(c, row) /\ Company(k)
      BY <3>1 DEF EditCompany
    <3> QED BY <2>1, <3>2, <3>3, <1>2, RowWhole
  <2> QED BY <1>5, <2>2, <2>3
<1> QED BY <1>3, <1>4, <1>5

-----------------------------------------------------------------------------
(* Presses: a press reads, and writes from what it has read.                *)

(* The first step of a press changes nothing but what the press holds.      *)
LEMMA PressStep ==
  ASSUME GateAssumption, GateIInv, NEW p \in Presses, NEW c \in Present(campaigns),
         \/ PressMarkTested(p, c) \/ PressSchedule(p, c) \/ PressStatus(p, c)
         \/ \E kind \in Kinds : PressLaunch(p, kind, c)
  PROVE  GateIInv'
<1> USE DEF GateIInv
<1>1. /\ c \in Campaigns /\ campaigns[c] # Absent
      /\ UNCHANGED <<templates, companies, campaigns, tested, mailed, pushed>>
  BY DEF Present, GateInv, GateTypeOK, PressMarkTested, PressSchedule, PressStatus, PressLaunch,
         Same, gateRows
<1>2. ASSUME NEW press \in PressTypes, PressWhole(press),
             presses' = [presses EXCEPT ![p] = press]
      PROVE  GateIInv'
  <2>1. presses' \in [Presses -> PressTypes] /\ PressesWhole'
    BY <1>1, <1>2, NewPress DEF GateInv, GateTypeOK
  <2> QED BY <1>1, <2>1 DEF GateInv, GateTypeOK, CampaignsWhole, Present, Company, LaunchedWasTested
<1>3. /\ campaigns[c] \in CampaignRow
      /\ campaigns[c].template \in Templates /\ campaigns[c].company \in Companies \cup {None}
      /\ campaigns[c].hash \in Contents \cup {None}
      /\ templates[campaigns[c].template] \in Contents
      /\ campaigns[c].hash = None \/ campaigns[c].hash \in tested[c]
  BY <1>1, RowWhole DEF CampaignRow
<1>4. CASE PressMarkTested(p, c)
  <2> DEFINE press == [at |-> "mark", campaign |-> c, hash |-> templates[campaigns[c].template]]
  <2>1. press \in PressTypes /\ PressWhole(press)
    BY <1>1, <1>3 DEF PressTypes, PressWhole
  <2> QED BY <1>2, <1>4, <2>1 DEF PressMarkTested, BeginPress
<1>5. CASE PressSchedule(p, c)
  <2> DEFINE press == [at |-> "schedule", campaign |-> c, hash |-> campaigns[c].hash]
  <2>1. press \in PressTypes /\ PressWhole(press)
    BY <1>1, <1>3, <1>5 DEF PressTypes, PressWhole, PressSchedule
  <2> QED BY <1>2, <1>5, <2>1 DEF PressSchedule, BeginPress
<1>6. CASE PressStatus(p, c)
  <2>1. PICK status \in NextStatus(campaigns[c]) :
          presses' = [presses EXCEPT ![p] = [at |-> "status", campaign |-> c, status |-> status]]
    BY <1>6 DEF PressStatus, BeginPress
  <2> DEFINE press == [at |-> "status", campaign |-> c, status |-> status]
  <2>2. status \in Statuses
    BY <2>1 DEF NextStatus, Statuses
  <2>3. press \in PressTypes /\ PressWhole(press)
    BY <1>1, <2>2 DEF PressTypes, PressWhole
  <2> QED BY <1>2, <2>1, <2>3
<1>7. CASE \E kind \in Kinds : PressLaunch(p, kind, c)
  <2>1. PICK kind \in Kinds : PressLaunch(p, kind, c)
    BY <1>7
  <2>2. PICK t \in IF kind = "stage" THEN Templates ELSE {campaigns[c].template} :
          presses' = [presses EXCEPT ![p] =
            [at |-> "template", kind |-> kind, campaign |-> c, template |-> t,
             company |-> campaigns[c].company, hash |-> campaigns[c].hash]]
    BY <2>1 DEF PressLaunch, BeginPress
  <2> DEFINE press == [at |-> "template", kind |-> kind, campaign |-> c, template |-> t,
                       company |-> campaigns[c].company, hash |-> campaigns[c].hash]
  <2>3. kind = "launch" => campaigns[c].hash \in tested[c]
    BY <1>3, <2>1 DEF PressLaunch, Allowed, Kinds
  <2>4. t \in Templates
    BY <1>3, <2>2
  <2>5. press \in PressTypes /\ PressWhole(press)
    BY <1>1, <1>3, <2>1, <2>3, <2>4 DEF PressTypes, PressWhole
  <2> QED BY <1>2, <2>2, <2>5
<1> QED BY <1>4, <1>5, <1>6, <1>7

(* The routes that write from what they have read: the hash of the press is *)
(* recorded with it, and the others leave the hash as it is.                *)
LEMMA WriteStep ==
  ASSUME GateAssumption, GateIInv, NEW p \in Presses,
         MarkTested(p) \/ Schedule(p) \/ SetStatus(p)
  PROVE  GateIInv'
<1> USE DEF GateIInv
<1> DEFINE press == presses[p]
           c == press.campaign
<1>1. /\ press \in PressTypes /\ press.at \in {"mark", "schedule", "status"}
      /\ EndPress(p) /\ UNCHANGED <<templates, companies, mailed, pushed>>
  BY DEF GateInv, GateTypeOK, MarkTested, Schedule, SetStatus, Same
<1>2. c \in Campaigns /\ campaigns[c] # Absent
  BY <1>1, PressFields DEF GateInv, PressesWhole, PressWhole
<1>3. /\ campaigns[c] \in CampaignRow
      /\ templates[campaigns[c].template] # Absent /\ Company(campaigns[c].company)
      /\ campaigns[c].hash = None \/ campaigns[c].hash \in tested[c]
  BY <1>2, RowWhole
<1>4. tested \in [Campaigns -> SUBSET Contents]
  BY DEF GateInv, GateTypeOK
<1>5. CASE MarkTested(p)
  <2> DEFINE row == [campaigns[c] EXCEPT !.hash = press.hash,
                       !.status = IF @ = "scheduled" THEN "scheduled" ELSE "tested"]
  <2>1. press.hash \in Contents
    BY <1>1, <1>5, PressFields DEF MarkTested
  <2>2. row \in CampaignRow /\ row.template = campaigns[c].template
          /\ row.company = campaigns[c].company /\ row.hash = press.hash
    BY <1>3, <2>1 DEF CampaignRow, Statuses
  <2>3. SetRow(c, row) /\ tested' = [tested EXCEPT ![c] = @ \cup {press.hash}]
    BY <1>5 DEF MarkTested
  <2>4. /\ tested' \in [Campaigns -> SUBSET Contents]
        /\ press.hash \in tested'[c]
        /\ \A d \in Campaigns : tested[d] \subseteq tested'[d]
    BY <1>2, <1>4, <2>1, <2>3
  <2> HIDE DEF row
  <2> QED BY <1>1, <1>2, <1>3, <2>2, <2>3, <2>4, RowStep
<1>6. ASSUME NEW status \in Statuses, UNCHANGED tested,
             SetRow(c, [campaigns[c] EXCEPT !.status = status])
      PROVE  GateIInv'
  <2> DEFINE row == [campaigns[c] EXCEPT !.status = status]
  <2>1. row \in CampaignRow /\ row.template = campaigns[c].template
          /\ row.company = campaigns[c].company /\ row.hash = campaigns[c].hash
    BY <1>3 DEF CampaignRow
  <2>2. SetRow(c, row)
    BY <1>6
  <2>3. row.hash = None \/ row.hash \in tested'[c]
    BY <1>3, <1>6, <2>1
  <2> HIDE DEF row
  <2> QED BY <1>1, <1>2, <1>3, <1>4, <1>6, <2>1, <2>2, <2>3, RowStep
<1>7. CASE SetStatus(p)
  <2>1. press.status \in Statuses
    BY <1>1, <1>7, PressFields DEF SetStatus
  <2> QED BY <1>6, <1>7, <2>1 DEF SetStatus, Same
<1>8. CASE Schedule(p)
  <2>1. CASE SetRow(c, [campaigns[c] EXCEPT !.status = "scheduled"])
    BY <1>6, <1>8, <2>1 DEF Schedule, Same, Statuses
  <2>2. CASE UNCHANGED campaigns
    <3>1. UNCHANGED <<templates, companies, campaigns, tested, mailed, pushed>>
      BY <1>8, <2>2 DEF Schedule, Same
    <3>2. presses' \in [Presses -> PressTypes] /\ PressesWhole'
      BY <1>1, <3>1, PressesKept DEF GateInv, GateTypeOK
    <3> QED BY <3>1, <3>2 DEF GateInv, GateTypeOK, CampaignsWhole, Present, Company, LaunchedWasTested
  <2> QED BY <1>8, <2>1, <2>2 DEF Schedule
<1> QED BY <1>5, <1>7, <1>8

(* A launch: what passes the gate is the content that was tested, and that  *)
(* is what is pushed.                                                       *)
LEMMA LaunchStep ==
  ASSUME GateAssumption, GateIInv, NEW p \in Presses,
         ReadTemplate(p) \/ PushMail(p) \/ RefuseLaunch(p)
  PROVE  GateIInv'
<1> USE DEF GateIInv
<1> DEFINE press == presses[p]
<1>1. /\ press \in PressTypes /\ press.at \in {"template", "key"} /\ PressWhole(press)
      /\ UNCHANGED <<templates, companies, tested>>
  BY DEF GateInv, GateTypeOK, PressesWhole, ReadTemplate, PushMail, RefuseLaunch, Same, gateRows
<1>2. press.campaign \in Campaigns /\ campaigns[press.campaign] # Absent
  BY <1>1, PressFields DEF PressWhole
<1>3. CASE ReadTemplate(p)
  <2> DEFINE next == [at |-> "key", kind |-> press.kind, campaign |-> press.campaign,
                      template |-> press.template, content |-> templates[press.template]]
  <2>1. /\ press.at = "template" /\ templates[press.template] # Absent
        /\ PassGate(press, templates[press.template])
        /\ presses' = [presses EXCEPT ![p] = next]
        /\ UNCHANGED <<campaigns, mailed, pushed>>
    BY <1>3 DEF ReadTemplate, Same, gateRows
  <2>2. press.kind \in Kinds /\ press.template \in Templates
          /\ templates[press.template] \in Contents
    BY <1>1, <2>1, PressFields DEF GateInv, GateTypeOK
  <2>3. next \in PressTypes
    BY <1>2, <2>2 DEF PressTypes
  <2>4. PressWhole(next)
    BY <1>1, <1>2, <2>1 DEF PressWhole, PassGate
  <2> HIDE DEF next
  <2>5. presses' \in [Presses -> PressTypes] /\ PressesWhole'
    BY <1>1, <2>1, <2>3, <2>4, NewPress DEF GateInv, GateTypeOK
  <2> QED BY <1>1, <2>1, <2>5 DEF GateInv, GateTypeOK, CampaignsWhole, Present, Company, LaunchedWasTested
<1>4. CASE PushMail(p)
  <2>1. /\ press.at = "key" /\ EndPress(p)
        /\ pushed' = [kind |-> press.kind, campaign |-> press.campaign, content |-> press.content]
        /\ mailed' = mailed \cup {press.campaign}
    BY <1>4 DEF PushMail, SentContent
  <2>2. press.kind \in Kinds /\ press.content \in Contents
    BY <1>1, <2>1, PressFields
  <2>3. pushed' \in Pushed /\ mailed' \subseteq Campaigns
    BY <1>2, <2>1, <2>2 DEF Pushed, GateInv, GateTypeOK
  <2>4. LaunchedWasTested'
    BY <1>1, <2>1 DEF LaunchedWasTested, PressWhole
  <2>5. /\ campaigns' \in [Campaigns -> CampaignRow \cup {Absent}]
        /\ CampaignsWhole'
        /\ \A d \in Campaigns : campaigns[d] # Absent => campaigns'[d] # Absent
    <3>1. CASE UNCHANGED campaigns
      BY <1>1, <3>1 DEF GateInv, GateTypeOK, CampaignsWhole, Present, Company
    <3>2. CASE campaigns' = [campaigns EXCEPT ![press.campaign].status = "dispatched"]
      <4> DEFINE c == press.campaign
                 row == [campaigns[c] EXCEPT !.status = "dispatched"]
      <4>1. /\ campaigns[c] \in CampaignRow
            /\ templates[campaigns[c].template] # Absent /\ Company(campaigns[c].company)
            /\ campaigns[c].hash = None \/ campaigns[c].hash \in tested[c]
        BY <1>2, RowWhole
      <4>2. row \in CampaignRow /\ row.template = campaigns[c].template
              /\ row.company = campaigns[c].company /\ row.hash = campaigns[c].hash
        BY <4>1 DEF CampaignRow, Statuses
      <4>3. SetRow(c, row)
        BY <3>2 DEF SetRow
      <4> HIDE DEF row
      <4> QED BY <1>1, <1>2, <4>1, <4>2, <4>3, OneRow DEF GateInv
    <3> QED BY <1>4, <3>1, <3>2 DEF PushMail
  <2>6. presses' \in [Presses -> PressTypes] /\ PressesWhole'
    BY <1>1, <2>1, <2>5, PressesKept DEF GateInv, GateTypeOK
  <2> QED BY <1>1, <2>3, <2>4, <2>5, <2>6 DEF GateInv, GateTypeOK
<1>5. CASE RefuseLaunch(p)
  <2>1. EndPress(p) /\ UNCHANGED <<campaigns, mailed, pushed>>
    BY <1>5 DEF RefuseLaunch, Same, gateRows
  <2>2. presses' \in [Presses -> PressTypes] /\ PressesWhole'
    BY <1>1, <2>1, PressesKept DEF GateInv, GateTypeOK
  <2> QED BY <1>1, <2>1, <2>2 DEF GateInv, GateTypeOK, CampaignsWhole, Present, Company, LaunchedWasTested
<1> QED BY <1>3, <1>4, <1>5

-----------------------------------------------------------------------------
LEMMA GateInitial ==
  ASSUME GateAssumption, GateInit
  PROVE  GateIInv
BY DEF GateInit, GateIInv, GateInv, GateTypeOK, CampaignsWhole, PressesWhole, PressWhole, NoPress,
       PressTypes, Present, LaunchedWasTested

LEMMA GateStep ==
  ASSUME GateAssumption, GateIInv, [GateNext]_gateVars
  PROVE  GateIInv'
<1>1. CASE UNCHANGED gateVars
  BY <1>1 DEF gateVars, gateRows, GateIInv, GateInv, GateTypeOK, CampaignsWhole, PressesWhole,
              PressWhole, Present, Company, LaunchedWasTested
<1>2. CASE \E t \in Templates : (\E h \in Contents : CreateTemplate(t, h) \/ UpdateTemplate(t, h))
                               \/ DeleteTemplate(t)
  BY <1>2, TemplateStep
<1>3. CASE \E k \in Companies : CreateCompany(k) \/ SetKey(k) \/ DeleteCompany(k)
  BY <1>3, CompanyStep
<1>4. CASE \E c \in Campaigns, t \in Templates, k \in Companies \cup {None}, status \in Statuses :
             CreateCampaign(c, t, k, status)
  BY <1>4, RouteStep
<1>5. CASE \E c \in Campaigns, from \in Present(campaigns) : CloneCampaign(c, from)
  BY <1>5, RouteStep
<1>6. CASE \E c \in Present(campaigns) :
             \/ \E k \in Companies : EditCompany(c, k)
             \/ RetryFailed(c)
             \/ \E p \in Presses : \/ PressMarkTested(p, c) \/ PressSchedule(p, c) \/ PressStatus(p, c)
                                   \/ \E kind \in Kinds : PressLaunch(p, kind, c)
  <2>1. Present(campaigns) \subseteq Campaigns
    BY DEF GateIInv, GateInv, GateTypeOK, Present
  <2> QED BY <1>6, <2>1, RouteStep, PressStep
<1>7. CASE \E p \in Presses : \/ MarkTested(p) \/ Schedule(p) \/ SetStatus(p)
                              \/ ReadTemplate(p) \/ PushMail(p) \/ RefuseLaunch(p)
  BY <1>7, WriteStep, LaunchStep
<1> QED BY <1>1, <1>2, <1>3, <1>4, <1>5, <1>6, <1>7 DEF GateNext

(* Every row a campaign refers to is there, and the hash it carries, like   *)
(* the one a launch has read, was recorded by a mark-tested of its own.     *)
THEOREM GateInvariant == GateSpec => []GateInv
<1>1. GateInit => GateIInv
  BY GateAssumption, GateInitial
<1>2. GateIInv /\ [GateNext]_gateVars => GateIInv'
  BY GateAssumption, GateStep
<1>3. GateIInv => GateInv
  BY DEF GateIInv
<1> QED BY <1>1, <1>2, <1>3, PTL DEF GateSpec

(* A launch sends what a test of this campaign was marked for, however many *)
(* presses overlap and whatever is edited meanwhile.                        *)
THEOREM LaunchesWereTested == GateSpec => []LaunchedWasTested
<1>1. GateInit => GateIInv
  BY GateAssumption, GateInitial
<1>2. GateIInv /\ [GateNext]_gateVars => GateIInv'
  BY GateAssumption, GateStep
<1>3. GateIInv => LaunchedWasTested
  BY DEF GateIInv
<1> QED BY <1>1, <1>2, <1>3, PTL DEF GateSpec

-----------------------------------------------------------------------------
(* The backup                                                               *)

CopiedInOrder ==
  /\ place <= 3 => copies.db = Nothing
  /\ place <= 5 => copies.dynamo = Nothing
  /\ place < 5 => owed = Nothing
  /\ place < 8 => archive = Nothing
  /\ place >= 8 => archive # Nothing /\ archive.parts = copies

KnownIsOwed ==
  copies.db # Nothing => copies.db \subseteq known /\ (owed # Nothing => copies.db \subseteq owed)
OwedIsRead == copies.dynamo # Nothing => owed # Nothing /\ owed \subseteq copies.dynamo

Verified ==
  report = "complete" =>
    /\ archive # Nothing /\ archive.sound
    /\ \A c \in DOMAIN copies : copies[c] # Nothing

BackupIInv == BackupTypeOK /\ CopiedInOrder /\ KnownIsOwed /\ OwedIsRead /\ Verified

(* The steps of main have the places that Order gives them.                 *)
LEMMA PlacesInOrder ==
  ASSUME NEW step, At(step)
  PROVE  /\ step = "inbox" => place = 1
         /\ step = "secrets" => place = 2
         /\ step = "db" => place = 3
         /\ step = "keys" => place = 4
         /\ step = "dynamo" => place = 5
         /\ step = "sqs" => place = 6
         /\ step = "write" => place = 7
         /\ step = "verify" => place = 8
         /\ report = "none"
BY DEF At, Order

LEMMA BackupInitial ==
  ASSUME BackupInit
  PROVE  BackupIInv
BY DEF BackupInit, BackupIInv, BackupTypeOK, CopiedInOrder, KnownIsOwed, OwedIsRead, Verified,
       Parts, Events, Checks

LEMMA MeanwhileKeeps ==
  ASSUME BackupIInv, Meanwhile
  PROVE  BackupIInv'
<1>1. stored \subseteq stored' /\ known \subseteq known' /\ known' \subseteq stored' /\ stored' \subseteq Events
  BY DEF Meanwhile, BackupIInv, BackupTypeOK
<1>2. UNCHANGED <<place, gaps, copies, owed, archive, report>>
  BY DEF Meanwhile
<1>3. BackupTypeOK'
  BY <1>1, <1>2 DEF BackupIInv, BackupTypeOK
<1>4. KnownIsOwed'
  BY <1>1, <1>2 DEF BackupIInv, KnownIsOwed
<1> QED BY <1>2, <1>3, <1>4 DEF BackupIInv, CopiedInOrder, OwedIsRead, Verified

(* The three checks change nothing but what is covered.                     *)
LEMMA ChecksKeep ==
  ASSUME BackupIInv, CheckInbox \/ CheckSecrets \/ CountQueue
  PROVE  BackupIInv'
<1>1. /\ UNCHANGED <<stored, known, copies, owed, archive, report>>
      /\ gaps' \subseteq Checks
      /\ place \in {1, 2, 6} /\ place' = place + 1 /\ report = "none"
  BY PlacesInOrder DEF CheckInbox, CheckSecrets, CountQueue, Proceed, made, BackupIInv, BackupTypeOK, Checks
<1>2. BackupTypeOK'
  BY <1>1 DEF BackupIInv, BackupTypeOK
<1>3. CopiedInOrder'
  BY <1>1 DEF BackupIInv, CopiedInOrder
<1> QED BY <1>1, <1>2, <1>3 DEF BackupIInv, KnownIsOwed, OwedIsRead, Verified

LEMMA SnapshotsKeep ==
  ASSUME BackupIInv, SnapshotDb \/ SnapshotKeys
  PROVE  BackupIInv'
<1>1. /\ UNCHANGED <<stored, known, gaps, owed, archive, report>>
      /\ place' = place + 1 /\ place \in {3, 4} /\ report = "none"
      /\ archive = Nothing /\ owed = Nothing /\ copies.dynamo = Nothing
  BY PlacesInOrder DEF SnapshotDb, SnapshotKeys, Proceed, made, BackupIInv, CopiedInOrder
<1>2. /\ copies' \in Parts
      /\ copies'.dynamo = Nothing
      /\ copies'.db # Nothing => copies'.db \subseteq known
  BY <1>1 DEF SnapshotDb, SnapshotKeys, BackupIInv, BackupTypeOK, KnownIsOwed, Parts
<1>3. BackupTypeOK'
  BY <1>1, <1>2 DEF BackupIInv, BackupTypeOK
<1>4. CopiedInOrder' /\ KnownIsOwed' /\ OwedIsRead'
  BY <1>1, <1>2 DEF CopiedInOrder, KnownIsOwed, OwedIsRead
<1> QED BY <1>1, <1>3, <1>4 DEF BackupIInv, Verified

(* A scan owes what is in the table when it begins, which the database has  *)
(* been copied before.                                                      *)
LEMMA TableScanKeeps ==
  ASSUME BackupIInv, StartScan \/ EndScan \/ NoScan
  PROVE  BackupIInv'
<1>1. /\ UNCHANGED <<stored, known, gaps, archive, report>>
      /\ place = 5 /\ report = "none" /\ archive = Nothing /\ copies.dynamo = Nothing
      /\ copies \in Parts /\ known \subseteq stored
  BY PlacesInOrder DEF StartScan, EndScan, NoScan, Proceed, made, BackupIInv, BackupTypeOK, CopiedInOrder
<1>2. CASE StartScan
  <2>1. owed' = stored /\ UNCHANGED <<place, copies>>
    BY <1>2 DEF StartScan
  <2>2. BackupTypeOK'
    BY <1>1, <2>1 DEF BackupIInv, BackupTypeOK
  <2>3. KnownIsOwed'
    BY <1>1, <2>1 DEF BackupIInv, KnownIsOwed
  <2> QED BY <1>1, <2>1, <2>2, <2>3 DEF BackupIInv, CopiedInOrder, OwedIsRead, Verified
<1>3. CASE EndScan
  <2>1. PICK late \in SUBSET (stored \ owed) : copies' = [copies EXCEPT !.dynamo = owed \cup late]
    BY <1>3 DEF EndScan
  <2>2. owed # Nothing /\ owed' = owed /\ place' = 6 /\ owed \subseteq stored
    BY <1>1, <1>3 DEF EndScan, Proceed, BackupIInv, BackupTypeOK
  <2>3. copies'.db = copies.db /\ copies'.dynamo = owed \cup late /\ copies' \in Parts
    BY <1>1, <2>1, <2>2 DEF Parts, BackupIInv, BackupTypeOK
  <2>4. BackupTypeOK'
    BY <1>1, <2>2, <2>3 DEF BackupIInv, BackupTypeOK
  <2>5. CopiedInOrder' /\ KnownIsOwed' /\ OwedIsRead'
    BY <1>1, <2>2, <2>3 DEF BackupIInv, CopiedInOrder, KnownIsOwed, OwedIsRead
  <2> QED BY <1>1, <2>4, <2>5 DEF BackupIInv, Verified
<1>4. CASE NoScan
  <2>1. place' = 6 /\ UNCHANGED <<copies, owed>>
    BY <1>1, <1>4 DEF NoScan, Proceed
  <2> QED BY <1>1, <2>1 DEF BackupIInv, BackupTypeOK, CopiedInOrder, KnownIsOwed, OwedIsRead, Verified
<1> QED BY <1>2, <1>3, <1>4

LEMMA ArchiveKeeps ==
  ASSUME BackupIInv, WriteZip \/ Verify \/ StopBackup
  PROVE  BackupIInv'
<1>1. UNCHANGED <<stored, known, gaps, copies, owed>>
  BY DEF WriteZip, Verify, StopBackup, made
<1>2. CASE WriteZip
  <2>1. place = 7 /\ report = "none" /\ archive = Nothing /\ copies \in Parts
    BY <1>2, PlacesInOrder DEF WriteZip, BackupIInv, BackupTypeOK, CopiedInOrder
  <2>2. CASE UNCHANGED <<archive, place>> /\ report' = "failed"
    BY <1>1, <2>1, <2>2 DEF BackupIInv, BackupTypeOK, CopiedInOrder, KnownIsOwed, OwedIsRead, Verified
  <2>3. CASE archive' \in {[parts |-> copies, sound |-> TRUE], [parts |-> copies, sound |-> FALSE]}
             /\ place' = 8 /\ report' = "none"
    <3>1. archive' \in Archives /\ archive'.parts = copies
      <4>1. PICK sound \in BOOLEAN : archive' = [parts |-> copies, sound |-> sound]
        BY <2>3
      <4> QED BY <2>1, <4>1 DEF Archives
    <3>2. archive' # Nothing
      BY <3>1, BackupAssumption
    <3> QED BY <1>1, <2>1, <2>3, <3>1, <3>2
            DEF BackupIInv, BackupTypeOK, CopiedInOrder, KnownIsOwed, OwedIsRead, Verified
  <2> QED BY <1>2, <2>1, <2>2, <2>3 DEF WriteZip
<1>3. CASE Verify
  <2>1. place = 8 /\ place' = 9 /\ archive' = archive
    BY <1>3, PlacesInOrder DEF Verify
  <2>2. /\ report' \in {"complete", "partial", "failed"}
        /\ report' = "complete" => archive.sound /\ AllCovered
    BY <1>3 DEF Verify
  <2>3. BackupTypeOK' /\ CopiedInOrder'
    BY <1>1, <2>1, <2>2 DEF BackupIInv, BackupTypeOK, CopiedInOrder
  <2>4. archive # Nothing
    BY <2>1 DEF BackupIInv, CopiedInOrder
  <2> QED BY <1>1, <2>1, <2>2, <2>3, <2>4 DEF BackupIInv, KnownIsOwed, OwedIsRead, Verified, AllCovered
<1>4. CASE StopBackup
  BY <1>1, <1>4 DEF StopBackup, BackupIInv, BackupTypeOK, CopiedInOrder, KnownIsOwed, OwedIsRead, Verified
<1> QED BY <1>2, <1>3, <1>4

LEMMA BackupStep ==
  ASSUME BackupIInv, [BackupNext]_backupVars
  PROVE  BackupIInv'
<1>1. CASE UNCHANGED backupVars
  BY <1>1 DEF backupVars, BackupIInv, BackupTypeOK, CopiedInOrder, KnownIsOwed, OwedIsRead, Verified
<1> QED BY <1>1, MeanwhileKeeps, ChecksKeep, SnapshotsKeep, TableScanKeeps, ArchiveKeeps DEF BackupNext

(* A backup reported COMPLETE can be read and has all its parts, and its    *)
(* table holds every event its database knows, however much is written      *)
(* while the backup runs.                                                   *)
THEOREM CompleteBackupIsWhole == BackupSpec => []CompleteIsWhole
<1>1. BackupInit => BackupIInv
  BY BackupInitial
<1>2. BackupIInv /\ [BackupNext]_backupVars => BackupIInv'
  BY BackupStep
<1>3. BackupIInv => CompleteIsWhole
  <2> SUFFICES ASSUME BackupIInv, report = "complete" PROVE CompleteIsWhole
    BY DEF CompleteIsWhole
  <2>1. archive # Nothing /\ archive.sound /\ archive.parts = copies
    BY DEF BackupIInv, BackupTypeOK, Verified, CopiedInOrder
  <2>2. copies.db # Nothing /\ copies.keys # Nothing /\ copies.dynamo # Nothing
    BY DEF BackupIInv, Verified, BackupTypeOK, Parts
  <2>3. copies.db \subseteq copies.dynamo
    BY <2>2 DEF BackupIInv, KnownIsOwed, OwedIsRead
  <2> QED BY <2>1, <2>2, <2>3 DEF CompleteIsWhole
<1> QED BY <1>1, <1>2, <1>3, PTL DEF BackupSpec

-----------------------------------------------------------------------------
(* Contacts and recipients                                                  *)

(* A request holds at most one row of a contact.                            *)
RowsReadOnce ==
  \A r \in BookCalls : requests[r].step \in {"rename", "untag"} =>
    \A a, b \in requests[r].rows : a.id = b.id => a = b

BookIInv == BookInv /\ RowsReadOnce

TagRow == [id : 1..MaxIds, tags : SUBSET Tags]

LEMMA CallTypes ==
  ASSUME BookTypeOK, NEW r \in BookCalls
  PROVE  /\ requests[r].step = "insert" =>
              requests[r].emails \subseteq Emails /\ requests[r].tags \subseteq Tags
         /\ requests[r].step \in {"rename", "untag"} => requests[r].rows \subseteq TagRow
         /\ requests[r].step = "rename" => requests[r].new \in Tags
         /\ requests[r].step = "recipients" =>
              requests[r].campaign \in BookCampaigns /\ requests[r].ids \subseteq 1..MaxIds
<1>1. requests[r] \in Steps
  BY DEF BookTypeOK
<1> QED BY <1>1 DEF Steps, TagRow

LEMMA CallEnds ==
  ASSUME BookIInv, NEW r \in BookCalls, EndCall(r)
  PROVE  requests' \in [BookCalls -> Steps] /\ RowsReadOnce'
<1>1. requests' = [requests EXCEPT ![r] = NoCall] /\ requests \in [BookCalls -> Steps]
  BY DEF EndCall, BookIInv, BookInv, BookTypeOK
<1>2. NoCall \in Steps /\ NoCall.step = "idle"
  BY DEF NoCall, Steps
<1>3. requests'[r] = NoCall /\ \A q \in BookCalls : q # r => requests'[q] = requests[q]
  BY <1>1
<1> QED BY <1>1, <1>2, <1>3 DEF BookIInv, RowsReadOnce

LEMMA CallBegins ==
  ASSUME BookIInv, NEW r \in BookCalls, NEW call \in Steps, BeginCall(r, call),
         call.step \in {"rename", "untag"} => \A a, b \in call.rows : a.id = b.id => a = b
  PROVE  requests' \in [BookCalls -> Steps] /\ RowsReadOnce'
<1>1. requests' = [requests EXCEPT ![r] = call] /\ requests \in [BookCalls -> Steps]
  BY DEF BeginCall, BookIInv, BookInv, BookTypeOK
<1>2. requests'[r] = call /\ \A q \in BookCalls : q # r => requests'[q] = requests[q]
  BY <1>1
<1> QED BY <1>1, <1>2 DEF BookIInv, RowsReadOnce

(* The tables stay as they are.                                             *)
LEMMA TablesStay ==
  ASSUME BookIInv, UNCHANGED <<contacts, lastId, recipients, recipientCount>>,
         suppressed' \subseteq Emails, requests' \in [BookCalls -> Steps], RowsReadOnce'
  PROVE  BookIInv'
<1>1. BookTypeOK'
  BY DEF BookIInv, BookInv, BookTypeOK
<1>2. RowsHold' /\ CountTrue'
  BY DEF BookIInv, BookInv, RowsHold, ContactIds, CountTrue
<1> QED BY <1>1, <1>2 DEF BookIInv, BookInv

(* Contacts change, recipients do not.                                      *)
LEMMA ContactsChange ==
  ASSUME BookIInv, UNCHANGED <<suppressed, recipients, recipientCount>>,
         contacts' \subseteq ContactRow, lastId' \in 0..MaxIds,
         requests' \in [BookCalls -> Steps], RowsReadOnce',
         \A x, y \in contacts' : x.id = y.id \/ x.email = y.email => x = y,
         \A x \in contacts' : x.id <= lastId',
         \A p \in recipients : p[2] \in ContactIds'
  PROVE  BookIInv'
<1>1. BookTypeOK'
  BY DEF BookIInv, BookInv, BookTypeOK
<1>2. RowsHold' /\ CountTrue'
  BY DEF BookIInv, BookInv, RowsHold, CountTrue
<1> QED BY <1>1, <1>2 DEF BookIInv, BookInv

LEMMA ReadSuppressionKeeps ==
  ASSUME BookIInv, NEW r \in BookCalls, ReadSuppression(r)
  PROVE  BookIInv'
<1>1. PICK wanted \in {{e} : e \in Emails} \cup {Cleaned(emails) : emails \in SUBSET Emails},
           tags \in SUBSET Tags :
        BeginCall(r, [step |-> "insert", emails |-> wanted \ suppressed, tags |-> tags])
  BY DEF ReadSuppression
<1> DEFINE call == [step |-> "insert", emails |-> wanted \ suppressed, tags |-> tags]
<1>2. wanted \subseteq Emails
  BY BookAssumption DEF Cleaned
<1>3. call \in Steps
  BY <1>2 DEF Steps
<1>4. requests' \in [BookCalls -> Steps] /\ RowsReadOnce'
  BY <1>1, <1>3, CallBegins
<1> QED BY <1>4, TablesStay DEF ReadSuppression, BookIInv, BookInv, BookTypeOK

LEMMA ReadTagsKeeps ==
  ASSUME BookIInv, NEW r \in BookCalls, ReadTags(r)
  PROVE  BookIInv'
<1>1. ASSUME NEW old \in Tags
      PROVE  /\ Found(old) \subseteq TagRow
             /\ \A a, b \in Found(old) : a.id = b.id => a = b
  <2>1. contacts \subseteq ContactRow /\ \A x, y \in contacts : x.id = y.id => x = y
    BY DEF BookIInv, BookInv, BookTypeOK, RowsHold
  <2>2. \A a \in Found(old) : \E x \in contacts : a = [id |-> x.id, tags |-> x.tags]
    BY DEF Found
  <2> QED BY <2>1, <2>2 DEF ContactRow, TagRow
<1>2. PICK old \in Tags, new \in Tags :
        \/ BeginCall(r, [step |-> "rename", rows |-> Found(old), old |-> old, new |-> new])
        \/ BeginCall(r, [step |-> "untag", rows |-> Found(old), old |-> old])
  BY DEF ReadTags
<1>3. requests' \in [BookCalls -> Steps] /\ RowsReadOnce'
  <2>1. CASE BeginCall(r, [step |-> "rename", rows |-> Found(old), old |-> old, new |-> new])
    <3>1. [step |-> "rename", rows |-> Found(old), old |-> old, new |-> new] \in Steps
      BY <1>1 DEF Steps, TagRow
    <3> QED BY <1>1, <2>1, <3>1, CallBegins
  <2>2. CASE BeginCall(r, [step |-> "untag", rows |-> Found(old), old |-> old])
    <3>1. [step |-> "untag", rows |-> Found(old), old |-> old] \in Steps
      BY <1>1 DEF Steps, TagRow
    <3> QED BY <1>1, <2>2, <3>1, CallBegins
  <2> QED BY <1>2, <2>1, <2>2
<1> QED BY <1>3, TablesStay DEF ReadTags, BookIInv, BookInv, BookTypeOK

LEMMA ReadTaggedKeeps ==
  ASSUME BookIInv, NEW r \in BookCalls, ReadTagged(r)
  PROVE  BookIInv'
<1>1. PICK c \in BookCampaigns, posted \in SUBSET (1..lastId), tag \in Tags :
        \/ BeginCall(r, [step |-> "recipients", campaign |-> c, ids |-> posted])
        \/ BeginCall(r, [step |-> "recipients", campaign |-> c,
                     ids |-> posted \cup {x.id : x \in {y \in contacts : tag \in y.tags}}])
  BY DEF ReadTagged
<1>2. lastId \in 0..MaxIds /\ MaxIds \in Nat /\ contacts \subseteq ContactRow
  BY BookAssumption DEF BookIInv, BookInv, BookTypeOK
<1>3. 1..lastId \subseteq 1..MaxIds
  BY <1>2
<1>4. PICK ids \in SUBSET (1..MaxIds) :
        BeginCall(r, [step |-> "recipients", campaign |-> c, ids |-> ids])
  BY <1>1, <1>2, <1>3 DEF ContactRow
<1>5. [step |-> "recipients", campaign |-> c, ids |-> ids] \in Steps
  BY DEF Steps
<1>6. requests' \in [BookCalls -> Steps] /\ RowsReadOnce'
  BY <1>4, <1>5, CallBegins
<1> QED BY <1>6, TablesStay DEF ReadTagged, BookIInv, BookInv, BookTypeOK

LEMMA InsertContactsKeeps ==
  ASSUME BookIInv, NEW r \in BookCalls, InsertContacts(r)
  PROVE  BookIInv'
<1> DEFINE fresh == requests[r].emails \ {x.email : x \in contacts}
           last  == lastId + Cardinality(fresh)
           tags  == requests[r].tags
<1>1. /\ requests[r].step = "insert" /\ last <= MaxIds /\ lastId' = last /\ EndCall(r)
      /\ UNCHANGED <<suppressed, recipients, recipientCount>>
  BY DEF InsertContacts
<1>2. PICK idOf \in [fresh -> (lastId + 1)..last] :
        /\ \A e, f \in fresh : idOf[e] = idOf[f] => e = f
        /\ contacts' = contacts \cup {[id |-> idOf[e], email |-> e, tags |-> tags] : e \in fresh}
  BY DEF InsertContacts
<1>3. fresh \subseteq Emails /\ tags \in SUBSET Tags
  BY <1>1, CallTypes DEF BookIInv, BookInv
<1>4. Cardinality(fresh) \in Nat
  BY <1>3, BookAssumption, FS_Subset, FS_CardinalityType
<1>5. /\ lastId \in Nat /\ MaxIds \in Nat /\ contacts \subseteq ContactRow
      /\ \A x \in contacts : x.id <= lastId
      /\ \A x, y \in contacts : x.id = y.id \/ x.email = y.email => x = y
      /\ \A p \in recipients : p[2] \in ContactIds
  BY BookAssumption DEF BookIInv, BookInv, BookTypeOK, RowsHold
<1>6. \A e \in fresh : \A x \in contacts : x.email # e
  OBVIOUS
<1> HIDE DEF fresh, tags
<1>7. last \in Nat /\ last \in 0..MaxIds /\ lastId <= last
  BY <1>1, <1>4, <1>5
<1> HIDE DEF last
<1>8. \A e \in fresh : idOf[e] \in 1..MaxIds /\ idOf[e] > lastId /\ idOf[e] <= last
  BY <1>2, <1>5, <1>7
<1>9. ASSUME NEW x \in contacts'
      PROVE  x \in contacts \/ \E e \in fresh : x = [id |-> idOf[e], email |-> e, tags |-> tags]
  BY <1>2, <1>9
<1>10. contacts' \subseteq ContactRow
  BY <1>3, <1>5, <1>8, <1>9 DEF ContactRow
<1>11. \A x \in contacts' : x.id <= last
  <2> SUFFICES ASSUME NEW x \in contacts'
               PROVE  x.id <= last
    OBVIOUS
  <2>1. CASE x \in contacts
    <3>1. x.id \in Nat /\ x.id <= lastId
      BY <1>5, <2>1 DEF ContactRow
    <3> QED BY <1>5, <1>7, <3>1
  <2>2. CASE \E e \in fresh : x = [id |-> idOf[e], email |-> e, tags |-> tags]
    BY <1>8, <2>2
  <2> QED BY <1>9, <2>1, <2>2
<1>12. ASSUME NEW x \in contacts, NEW e \in fresh
       PROVE  x.id # idOf[e] /\ x.email # e
  <2>1. x.id \in Nat /\ x.id <= lastId
    BY <1>5 DEF ContactRow
  <2> QED BY <1>5, <1>6, <1>8, <2>1
<1>13. \A x, y \in contacts' : x.id = y.id \/ x.email = y.email => x = y
  BY <1>2, <1>5, <1>9, <1>12
<1>14. \A p \in recipients : p[2] \in ContactIds'
  BY <1>2, <1>5 DEF ContactIds
<1>15. requests' \in [BookCalls -> Steps] /\ RowsReadOnce'
  BY <1>1, CallEnds
<1> QED BY <1>1, <1>7, <1>10, <1>11, <1>13, <1>14, <1>15, ContactsChange

LEMMA EditTagsKeeps ==
  ASSUME BookIInv, NEW x \in contacts, NEW tags \in SUBSET Tags, EditTags(x, tags)
  PROVE  BookIInv'
<1> DEFINE y == [x EXCEPT !.tags = tags]
<1>1. /\ contacts' = (contacts \ {x}) \cup {y}
      /\ UNCHANGED <<lastId, suppressed, recipients, recipientCount, requests>>
  BY DEF EditTags
<1>2. /\ contacts \subseteq ContactRow /\ lastId \in 0..MaxIds
      /\ requests \in [BookCalls -> Steps] /\ RowsReadOnce
      /\ \A u \in contacts : u.id <= lastId
      /\ \A u, v \in contacts : u.id = v.id \/ u.email = v.email => u = v
      /\ \A p \in recipients : p[2] \in ContactIds
  BY DEF BookIInv, BookInv, BookTypeOK, RowsHold
<1>3. y \in ContactRow /\ y.id = x.id /\ y.email = x.email
  BY <1>2 DEF ContactRow
<1> HIDE DEF y
<1>4. contacts' \subseteq ContactRow /\ \A u \in contacts' : u.id <= lastId'
  BY <1>1, <1>2, <1>3
<1>5. \A u, v \in contacts' : u.id = v.id \/ u.email = v.email => u = v
  BY <1>1, <1>2, <1>3
<1>6. \A p \in recipients : p[2] \in ContactIds'
  <2>1. \A u \in contacts : \E v \in contacts' : v.id = u.id
    BY <1>1, <1>3
  <2> QED BY <1>2, <2>1 DEF ContactIds
<1>7. requests' \in [BookCalls -> Steps] /\ RowsReadOnce'
  BY <1>1, <1>2 DEF RowsReadOnce
<1> QED BY <1>1, <1>2, <1>4, <1>5, <1>6, <1>7, ContactsChange

LEMMA DeleteContactsKeeps ==
  ASSUME BookIInv, NEW ids, DeleteContacts(ids)
  PROVE  BookIInv'
<1>1. /\ contacts' = {x \in contacts : x.id \notin ids}
      /\ \A id \in ids : \A p \in recipients : p[2] # id
      /\ UNCHANGED <<lastId, suppressed, recipients, recipientCount, requests>>
  BY DEF DeleteContacts, InUse
<1>2. /\ contacts \subseteq ContactRow /\ lastId \in 0..MaxIds
      /\ requests \in [BookCalls -> Steps] /\ RowsReadOnce
      /\ \A u \in contacts : u.id <= lastId
      /\ \A u, v \in contacts : u.id = v.id \/ u.email = v.email => u = v
      /\ \A p \in recipients : p[2] \in ContactIds
  BY DEF BookIInv, BookInv, BookTypeOK, RowsHold
<1>3. \A p \in recipients : p[2] \in ContactIds'
  BY <1>1, <1>2 DEF ContactIds
<1>4. requests' \in [BookCalls -> Steps] /\ RowsReadOnce'
  BY <1>1, <1>2 DEF RowsReadOnce
<1> QED BY <1>1, <1>2, <1>3, <1>4, ContactsChange

(* However old the rows a request writes from, they name no contact twice.  *)
LEMMA WriteTagsKeeps ==
  ASSUME BookIInv, NEW r \in BookCalls, WriteTags(r)
  PROVE  BookIInv'
<1> DEFINE call == requests[r]
           kept == {x \in contacts : \A row \in RowsToWrite(call) : row.id # x.id}
           Rewritten(x, row) == [x EXCEPT !.tags = NewTags(call, row.tags)]
<1>1. /\ call.step \in {"rename", "untag"} /\ EndCall(r)
      /\ contacts' = kept \cup {Rewritten(p[1], p[2]) :
           p \in {q \in contacts \X RowsToWrite(call) : q[1].id = q[2].id}}
      /\ UNCHANGED <<lastId, suppressed, recipients, recipientCount>>
  BY DEF WriteTags
<1>2. /\ contacts \subseteq ContactRow /\ lastId \in 0..MaxIds
      /\ \A u \in contacts : u.id <= lastId
      /\ \A u, v \in contacts : u.id = v.id \/ u.email = v.email => u = v
      /\ \A p \in recipients : p[2] \in ContactIds
  BY DEF BookIInv, BookInv, BookTypeOK, RowsHold
<1>3. /\ RowsToWrite(call) \subseteq TagRow
      /\ \A a, b \in RowsToWrite(call) : a.id = b.id => a = b
  BY <1>1, CallTypes DEF BookIInv, BookInv, RowsReadOnce, RowsToWrite
<1>4. ASSUME NEW x \in contacts, NEW row \in RowsToWrite(call)
      PROVE  /\ Rewritten(x, row) \in ContactRow
             /\ Rewritten(x, row).id = x.id /\ Rewritten(x, row).email = x.email
  <2>1. NewTags(call, row.tags) \in SUBSET Tags
    BY <1>1, <1>3, CallTypes DEF BookIInv, BookInv, NewTags, TagRow
  <2> QED BY <1>2, <2>1 DEF ContactRow
<1>5. ASSUME NEW y
      PROVE  y \in contacts' <=>
               \/ y \in kept
               \/ \E x \in contacts, row \in RowsToWrite(call) : x.id = row.id /\ y = Rewritten(x, row)
  <2> DEFINE pairs == {q \in contacts \X RowsToWrite(call) : q[1].id = q[2].id}
  <2>1. contacts' = kept \cup {Rewritten(p[1], p[2]) : p \in pairs}
    BY <1>1
  <2>2. ASSUME NEW x \in contacts, NEW row \in RowsToWrite(call), x.id = row.id
        PROVE  <<x, row>> \in pairs /\ Rewritten(<<x, row>>[1], <<x, row>>[2]) = Rewritten(x, row)
    BY <2>2
  <2>3. \A p \in pairs : p[1] \in contacts /\ p[2] \in RowsToWrite(call) /\ p[1].id = p[2].id
    OBVIOUS
  <2> HIDE DEF pairs, Rewritten, kept, call
  <2>4. ASSUME y \in contacts', y \notin kept
        PROVE  \E x \in contacts, row \in RowsToWrite(call) : x.id = row.id /\ y = Rewritten(x, row)
    <3>1. PICK p \in pairs : y = Rewritten(p[1], p[2])
      BY <2>1, <2>4
    <3> QED BY <2>3, <3>1
  <2>5. ASSUME NEW x \in contacts, NEW row \in RowsToWrite(call), x.id = row.id, y = Rewritten(x, row)
        PROVE  y \in contacts'
    <3>1. Rewritten(<<x, row>>[1], <<x, row>>[2]) \in {Rewritten(p[1], p[2]) : p \in pairs}
      BY <2>2, <2>5
    <3> QED BY <2>1, <2>2, <2>5, <3>1
  <2> QED BY <2>1, <2>4, <2>5
<1> HIDE DEF Rewritten, call
<1>6. ASSUME NEW y \in contacts'
      PROVE  \E x \in contacts : x.id = y.id /\ x.email = y.email /\ y \in ContactRow
  BY <1>2, <1>4, <1>5
<1>7. contacts' \subseteq ContactRow /\ \A u \in contacts' : u.id <= lastId'
  BY <1>1, <1>2, <1>6
<1>8. ASSUME NEW x \in contacts
      PROVE  \A u, v \in contacts' : u.id = x.id /\ v.id = x.id => u = v
  <2> SUFFICES ASSUME NEW u \in contacts', NEW v \in contacts', u.id = x.id, v.id = x.id
               PROVE  u = v
    OBVIOUS
  <2>1. CASE x \in kept
    <3>1. ASSUME NEW y \in contacts', y.id = x.id
          PROVE  y = x
      BY <1>2, <1>4, <1>5, <2>1, <3>1
    <3> QED BY <3>1
  <2>2. CASE x \notin kept
    <3>1. PICK row \in RowsToWrite(call) : row.id = x.id
      BY <2>2
    <3>2. ASSUME NEW y \in contacts', y.id = x.id
          PROVE  y = Rewritten(x, row)
      <4>1. CASE y \in kept
        BY <1>2, <2>2, <3>2, <4>1
      <4>2. CASE \E z \in contacts, other \in RowsToWrite(call) : z.id = other.id /\ y = Rewritten(z, other)
        <5>1. PICK z \in contacts, other \in RowsToWrite(call) : z.id = other.id /\ y = Rewritten(z, other)
          BY <4>2
        <5>2. z = x
          BY <1>2, <1>4, <3>2, <5>1
        <5>3. other = row
          BY <1>3, <3>1, <5>1, <5>2
        <5> QED BY <5>1, <5>2, <5>3
      <4> QED BY <1>5, <4>1, <4>2
    <3> QED BY <3>2
  <2> QED BY <2>1, <2>2
<1>9. \A u, v \in contacts' : u.id = v.id \/ u.email = v.email => u = v
  BY <1>2, <1>6, <1>8
<1>10. \A x \in contacts : \E y \in contacts' : y.id = x.id
  BY <1>4, <1>5
<1>11. \A p \in recipients : p[2] \in ContactIds'
  BY <1>2, <1>10 DEF ContactIds
<1>12. requests' \in [BookCalls -> Steps] /\ RowsReadOnce'
  BY <1>1, CallEnds
<1> QED BY <1>1, <1>2, <1>7, <1>9, <1>11, <1>12, ContactsChange

(* recipient_count is counted again in the transaction of the insert.       *)
LEMMA InsertKeeps ==
  ASSUME BookIInv, NEW c \in BookCampaigns, NEW ids, ids \subseteq ContactIds, Insert(c, ids),
         UNCHANGED <<contacts, lastId, suppressed>>,
         requests' \in [BookCalls -> Steps], RowsReadOnce'
  PROVE  BookIInv'
<1>1. /\ recipients' = recipients \cup ({c} \X ids)
      /\ recipientCount' = [recipientCount EXCEPT ![c] = CountAfter(c, ids)]
  BY DEF Insert
<1>2. /\ contacts \subseteq ContactRow /\ recipients \subseteq RecipientRow
      /\ recipientCount \in [BookCampaigns -> Nat] /\ MaxIds \in Nat
  BY BookAssumption DEF BookIInv, BookInv, BookTypeOK
<1>3. ids \subseteq 1..MaxIds
  BY <1>2 DEF ContactIds, ContactRow
<1>4. recipients' \subseteq RecipientRow
  BY <1>1, <1>2, <1>3 DEF RecipientRow
<1>5. CountAfter(c, ids) = Cardinality({p \in recipients' : p[1] = c})
  BY <1>1 DEF CountAfter
<1>6. IsFiniteSet({p \in recipients' : p[1] = c})
  <2>1. IsFiniteSet({c}) /\ IsFiniteSet(1..MaxIds)
    <3>1. 1 \in Int /\ MaxIds \in Int
      BY <1>2
    <3> QED BY <3>1, FS_Singleton, FS_Interval
  <2>2. IsFiniteSet({c} \X (1..MaxIds))
    BY <2>1, FS_Product
  <2>3. {p \in recipients' : p[1] = c} \subseteq {c} \X (1..MaxIds)
    BY <1>4 DEF RecipientRow
  <2> QED BY <2>2, <2>3, FS_Subset
<1>7. CountAfter(c, ids) \in Nat
  BY <1>5, <1>6, FS_CardinalityType
<1>8. /\ recipientCount' \in [BookCampaigns -> Nat]
      /\ recipientCount'[c] = CountAfter(c, ids)
      /\ \A d \in BookCampaigns : d # c => recipientCount'[d] = recipientCount[d]
  BY <1>1, <1>2, <1>7
<1>9. BookTypeOK'
  BY <1>4, <1>8 DEF BookIInv, BookInv, BookTypeOK
<1>10. RowsHold'
  BY <1>1 DEF BookIInv, BookInv, RowsHold, ContactIds
<1>11. CountTrue'
  <2> SUFFICES ASSUME NEW d \in BookCampaigns
               PROVE  recipientCount'[d] = Cardinality({p \in recipients' : p[1] = d})
    BY DEF CountTrue
  <2>1. CASE d = c
    BY <1>5, <1>8, <2>1
  <2>2. CASE d # c
    <3>1. {p \in recipients' : p[1] = d} = {p \in recipients : p[1] = d}
      BY <1>1, <2>2
    <3> QED BY <1>8, <2>2, <3>1 DEF BookIInv, BookInv, CountTrue
  <2> QED BY <2>1, <2>2
<1> QED BY <1>9, <1>10, <1>11 DEF BookIInv, BookInv

LEMMA AddRecipientsKeeps ==
  ASSUME BookIInv, NEW r \in BookCalls, AddRecipients(r)
  PROVE  BookIInv'
<1>1. /\ requests[r].step = "recipients" /\ EndCall(r) /\ UNCHANGED <<contacts, lastId, suppressed>>
      /\ \/ requests[r].ids \subseteq ContactIds /\ Insert(requests[r].campaign, requests[r].ids)
         \/ UNCHANGED <<recipients, recipientCount>>
  BY DEF AddRecipients
<1>2. requests' \in [BookCalls -> Steps] /\ RowsReadOnce'
  BY <1>1, CallEnds
<1>3. requests[r].campaign \in BookCampaigns
  BY <1>1, CallTypes DEF BookIInv, BookInv
<1>4. suppressed \subseteq Emails
  BY DEF BookIInv, BookInv, BookTypeOK
<1> QED BY <1>1, <1>2, <1>3, <1>4, InsertKeeps, TablesStay

LEMMA BookInitial ==
  ASSUME BookInit
  PROVE  BookIInv
<1>1. MaxIds \in Nat
  BY BookAssumption
<1>2. BookTypeOK
  BY <1>1 DEF BookInit, BookTypeOK, NoCall, Steps
<1>3. \A c \in BookCampaigns : {p \in recipients : p[1] = c} = {}
  BY DEF BookInit
<1>4. CountTrue
  BY <1>3, FS_EmptySet DEF BookInit, CountTrue
<1> QED BY <1>2, <1>4 DEF BookInit, BookIInv, BookInv, RowsHold, RowsReadOnce, NoCall

LEMMA BookStep ==
  ASSUME BookIInv, [BookNext]_bookVars
  PROVE  BookIInv'
<1>1. CASE UNCHANGED bookVars
  BY <1>1, TablesStay DEF bookVars, BookIInv, BookInv, BookTypeOK, RowsReadOnce
<1>2. ASSUME NEW e \in Emails, AddSuppression(e)
      PROVE  BookIInv'
  BY <1>2, TablesStay DEF AddSuppression, BookIInv, BookInv, BookTypeOK, RowsReadOnce
<1>3. ASSUME NEW c \in BookCampaigns, NEW ids \in SUBSET ContactIds, AddContactsToCampaign(c, ids)
      PROVE  BookIInv'
  <2>1. requests' \in [BookCalls -> Steps] /\ RowsReadOnce'
    BY <1>3 DEF AddContactsToCampaign, BookIInv, BookInv, BookTypeOK, RowsReadOnce
  <2> QED BY <1>3, <2>1, InsertKeeps DEF AddContactsToCampaign
<1> QED BY <1>1, <1>2, <1>3, ReadSuppressionKeeps, InsertContactsKeeps, ReadTagsKeeps, WriteTagsKeeps,
           ReadTaggedKeeps, AddRecipientsKeeps, EditTagsKeeps, DeleteContactsKeeps DEF BookNext

(* A contact keeps its id and e-mail however old the rows a rename or an    *)
(* untag writes from, a recipient's contact exists, and recipient_count is  *)
(* the number of the campaign's recipients.                                 *)
THEOREM BookIsSound == BookSpec => []BookInv
<1>1. BookIInv => BookInv
  BY DEF BookIInv
<1> QED BY <1>1, BookInitial, BookStep, PTL DEF BookSpec

-----------------------------------------------------------------------------
(* The send times                                                           *)

LEMMA ScheduleNumbers ==
  /\ DayLength \in Nat /\ DayLength > 0
  /\ WindowStart \in Nat /\ WindowStart < DayLength
  /\ WindowLength \in Nat /\ WindowLength > 0 /\ WindowLength <= DayLength
<1>1. DayLength \in Nat \ {0} /\ WindowStart \in 0..(DayLength - 1) /\ WindowLength \in 1..DayLength
  BY ScheduleAssumption
<1> QED BY <1>1

LEMMA DateIsNear ==
  ASSUME NEW t \in Nat
  PROVE  /\ DateOf(t) \in Nat
         /\ DateOf(t) * DayLength <= t /\ t < DateOf(t) * DayLength + DayLength
<1> DEFINE D == DayLength
<1>1. D \in Nat /\ D > 0
  BY ScheduleNumbers
<1> HIDE DEF D
<1>2. t \div D \in Nat /\ (t \div D) * D <= t /\ t < (t \div D) * D + D
  BY <1>1
<1> QED BY <1>2 DEF D, DateOf

LEMMA DaysAreApart ==
  ASSUME NEW a \in Nat, NEW b \in Nat, a < b
  PROVE  a * DayLength + DayLength <= b * DayLength
<1>1. PICK k \in Nat : b = a + 1 + k
  <2>1. b = a + 1 + (b - a - 1) /\ b - a - 1 \in Nat
    OBVIOUS
  <2> QED BY <2>1
<1>2. DayLength \in Nat
  BY ScheduleNumbers
<1>3. b * DayLength = a * DayLength + DayLength + k * DayLength
  BY <1>1, <1>2
<1>4. k * DayLength \in Nat /\ a * DayLength \in Nat
  BY <1>2
<1> QED BY <1>2, <1>3, <1>4

LEMMA WindowNumbers ==
  ASSUME NEW d \in Nat
  PROVE  /\ d * DayLength \in Nat /\ (d + 1) * DayLength = d * DayLength + DayLength
         /\ Open(d) = d * DayLength + WindowStart
         /\ Close(d) = d * DayLength + WindowStart + WindowLength
         /\ Open(d) \in Nat /\ Close(d) \in Nat
BY ScheduleNumbers DEF Open, Close

(* Windows are apart from each other, and close in the order they open.     *)
LEMMA WindowsAreApart ==
  ASSUME NEW a \in Nat, NEW b \in Nat
  PROVE  (a < b <=> Close(a) < Close(b)) /\ (a < b => Close(a) <= Open(b))
<1> DEFINE A == a * DayLength
           B == b * DayLength
<1>1. /\ A \in Nat /\ B \in Nat
      /\ Close(a) = A + WindowStart + WindowLength /\ Close(b) = B + WindowStart + WindowLength
      /\ Open(b) = B + WindowStart
  BY WindowNumbers
<1>2. (a < b => A + DayLength <= B) /\ (b < a => B + DayLength <= A)
  BY DaysAreApart
<1> HIDE DEF A, B
<1>3. CASE a < b
  BY <1>1, <1>2, <1>3, ScheduleNumbers
<1>4. CASE b < a
  BY <1>1, <1>2, <1>4, ScheduleNumbers
<1>5. CASE a = b
  BY <1>1, <1>5, ScheduleNumbers
<1> QED BY <1>3, <1>4, <1>5

(* What is sent in window d is of date d, or of the next if the window      *)
(* crosses midnight.                                                        *)
OverMidnight == WindowStart + WindowLength > DayLength

LEMMA DatesOfWindow ==
  ASSUME NEW d \in Nat, NEW t \in Nat, Open(d) <= t, t < Close(d)
  PROVE  DateOf(t) = d \/ (OverMidnight /\ DateOf(t) = d + 1)
<1> DEFINE e == DateOf(t)
           D == d * DayLength
           E == e * DayLength
<1>1. e \in Nat /\ E <= t /\ t < E + DayLength
  BY DateIsNear
<1>2. /\ D \in Nat /\ E \in Nat /\ (d + 1) * DayLength = D + DayLength
      /\ D + WindowStart <= t /\ t < D + WindowStart + WindowLength
  BY <1>1, WindowNumbers
<1>3. (e < d => E + DayLength <= D)
  BY <1>1, DaysAreApart
<1>4. (d < e => D + DayLength <= E)
  BY <1>1, DaysAreApart
<1>4a. d + 1 \in Nat
  OBVIOUS
<1>5. (d + 1 < e => (d + 1) * DayLength + DayLength <= E)
  BY <1>1, <1>4a, DaysAreApart
<1> HIDE DEF e, D, E
<1>6. ~(e < d)
  BY <1>1, <1>2, <1>3, ScheduleNumbers
<1>7. ~(d + 1 < e)
  BY <1>1, <1>2, <1>5, ScheduleNumbers
<1>8. d < e => OverMidnight
  BY <1>1, <1>2, <1>4, ScheduleNumbers DEF OverMidnight
<1> QED BY <1>1, <1>6, <1>7, <1>8 DEF e

Inside(w, from) ==
  \E d \in Nat : w.close = Close(d) /\ Open(d) <= w.at /\ w.at < w.close /\ from <= w.at

Place == [close : Nat, at : Nat]

LEMMA WindowFromIsInside ==
  ASSUME NEW t \in Nat
  PROVE  WindowFrom(t) \in Place /\ Inside(WindowFrom(t), t) /\ WindowFrom(t).close > t
<1> DEFINE e == DateOf(t)
           d == IF Close(e) > t THEN e ELSE e + 1
<1>1. e \in Nat /\ e * DayLength <= t /\ t < e * DayLength + DayLength
  BY DateIsNear
<1>2. d \in Nat
  BY <1>1
<1>3. /\ Open(d) \in Nat /\ Close(d) \in Nat /\ Open(d) < Close(d)
      /\ Open(e) \in Nat /\ Close(e) \in Nat
      /\ Open(e + 1) = e * DayLength + DayLength + WindowStart
  <2>1. ASSUME NEW f \in Nat
        PROVE  Open(f) \in Nat /\ Close(f) \in Nat /\ Open(f) < Close(f)
    BY WindowNumbers, ScheduleNumbers
  <2>2. e + 1 \in Nat
    BY <1>1
  <2>3. Open(e + 1) = (e + 1) * DayLength + WindowStart
    BY <2>2, WindowNumbers
  <2>4. (e + 1) * DayLength = e * DayLength + DayLength
    BY <1>1, WindowNumbers
  <2> HIDE DEF d, e
  <2> QED BY <1>1, <1>2, <2>1, <2>3, <2>4
<1>4. Close(d) > t
  <2>1. CASE Close(e) > t
    BY <2>1
  <2>2. CASE ~(Close(e) > t)
    <3>1. d = e + 1
      BY <2>2
    <3>2. e * DayLength \in Nat
      BY <1>1, WindowNumbers
    <3>3. Open(e + 1) > t
      BY <1>1, <1>3, <3>2, ScheduleNumbers
    <3>4. Open(d) > t
      BY <3>1, <3>3
    <3> QED BY <1>3, <3>4
  <2> QED BY <2>1, <2>2
<1>5. WindowFrom(t) = [close |-> Close(d), at |-> IF Open(d) > t THEN Open(d) ELSE t]
  BY DEF WindowFrom
<1> HIDE DEF d
<1> QED BY <1>2, <1>3, <1>4, <1>5 DEF Inside, Place

LEMMA LaterInside ==
  ASSUME NEW w \in Place, NEW from \in Nat, NEW t \in Nat, Inside(w, from), NEW lag \in Nat,
         NEW x, x = IF w.at + lag >= w.close THEN WindowFrom(w.close) ELSE [w EXCEPT !.at = w.at + lag]
  PROVE  x \in Place /\ Inside(x, from) /\ w.close <= x.close
<1>1. PICK d \in Nat : w.close = Close(d) /\ Open(d) <= w.at /\ w.at < w.close /\ from <= w.at
  BY DEF Inside
<1>1a. Open(d) \in Nat /\ Close(d) \in Nat /\ w.at \in Nat /\ w.close \in Nat
  BY WindowNumbers DEF Place
<1>2. CASE w.at + lag >= w.close
  <2>1. x \in Place /\ Inside(x, w.close) /\ x.close > w.close
    BY <1>1a, <1>2, WindowFromIsInside
  <2>2. PICK e \in Nat : x.close = Close(e) /\ Open(e) <= x.at /\ x.at < x.close /\ w.close <= x.at
    BY <2>1 DEF Inside
  <2>3. x.at \in Nat /\ x.close \in Nat
    BY <2>1 DEF Place
  <2>4. from <= x.at
    BY <1>1, <1>1a, <2>2, <2>3
  <2> QED BY <1>1a, <2>1, <2>2, <2>3, <2>4 DEF Inside
<1>3. CASE ~(w.at + lag >= w.close)
  <2>1. x = [w EXCEPT !.at = w.at + lag]
    BY <1>3
  <2>2. x \in Place /\ x.close = w.close /\ x.at = w.at + lag
    BY <1>1a, <2>1 DEF Place
  <2> QED BY <1>1, <1>1a, <1>3, <2>2 DEF Inside
<1> QED BY <1>2, <1>3

LEMMA InsideIsInWindow ==
  ASSUME NEW w \in Place, NEW from \in Nat, Inside(w, from)
  PROVE  InWindow(w.at) /\ from <= w.at
<1>1. PICK d \in Nat : w.close = Close(d) /\ Open(d) <= w.at /\ w.at < w.close /\ from <= w.at
  BY DEF Inside
<1>2. w.at \in Nat
  BY DEF Place
<1>3. DateOf(w.at) = d \/ DateOf(w.at) = d + 1
  BY <1>1, <1>2, DatesOfWindow
<1>4. d \in {DateOf(w.at) - 1, DateOf(w.at)} /\ d >= 0
  BY <1>3
<1> QED BY <1>1, <1>4 DEF InWindow

-----------------------------------------------------------------------------
(* What is sent of a date                                                   *)

On(ats, d) == Cardinality({i \in DOMAIN ats : DateOf(ats[i]) = d})

LEMMA OnIsNumber ==
  ASSUME NEW ats \in Seq(Nat), NEW d
  PROVE  On(ats, d) \in Nat /\ IsFiniteSet({i \in DOMAIN ats : DateOf(ats[i]) = d})
<1>1. DOMAIN ats = 1..Len(ats) /\ Len(ats) \in Nat
  OBVIOUS
<1>2. IsFiniteSet(DOMAIN ats)
  BY <1>1, FS_Interval
<1>3. IsFiniteSet({i \in DOMAIN ats : DateOf(ats[i]) = d})
  BY <1>2, FS_Subset
<1> QED BY <1>3, FS_CardinalityType DEF On

LEMMA OneMoreOn ==
  ASSUME NEW ats \in Seq(Nat), NEW t \in Nat, NEW d
  PROVE  On(Append(ats, t), d) = On(ats, d) + (IF DateOf(t) = d THEN 1 ELSE 0)
<1> DEFINE more == Append(ats, t)
           old  == {i \in DOMAIN ats : DateOf(ats[i]) = d}
           new  == {i \in DOMAIN more : DateOf(more[i]) = d}
           n    == Len(ats) + 1
<1>1. /\ Len(ats) \in Nat /\ DOMAIN ats = 1..Len(ats) /\ DOMAIN more = 1..n
      /\ more[n] = t /\ \A i \in DOMAIN ats : more[i] = ats[i]
  OBVIOUS
<1>2. n \notin old /\ \A i \in DOMAIN more : i \in DOMAIN ats \/ i = n
  BY <1>1
<1>3. IsFiniteSet(old) /\ Cardinality(old) \in Nat
  BY OnIsNumber DEF On
<1>4. CASE DateOf(t) = d
  <2>1. new = old \union {n}
    BY <1>1, <1>2, <1>4
  <2>2. Cardinality(new) = Cardinality(old) + 1
    BY <1>2, <1>3, <2>1, FS_AddElement
  <2> QED BY <1>4, <2>2 DEF On
<1>5. CASE DateOf(t) # d
  <2>1. new = old
    BY <1>1, <1>2, <1>5
  <2> HIDE DEF new, old
  <2>2. Cardinality(new) = Cardinality(old) + 0
    BY <1>3, <2>1
  <2>3. On(more, d) = Cardinality(new) /\ On(ats, d) = Cardinality(old)
    BY DEF On, new, old
  <2> QED BY <1>5, <2>2, <2>3
<1> QED BY <1>4, <1>5

(* The full dates are dates of sends, so there are no more of them.         *)
FullDates == {d \in Nat : Full(d)}

LEMMA FullDatesAreFew ==
  ASSUME ScheduleTypeOK
  PROVE  IsFiniteSet(FullDates) /\ Cardinality(FullDates) <= Len(sendAts)
<1> DEFINE dates == {DateOf(sendAts[i]) : i \in DOMAIN sendAts}
           f == [i \in DOMAIN sendAts |-> DateOf(sendAts[i])]
<1>1. sendAts \in Seq(Nat) /\ ask.cap \in Nat
  BY ScheduleAssumption DEF ScheduleTypeOK
<1>2. DOMAIN sendAts = 1..Len(sendAts) /\ Len(sendAts) \in Nat
  BY <1>1
<1>3. IsFiniteSet(DOMAIN sendAts) /\ Cardinality(DOMAIN sendAts) = Len(sendAts)
  <2>1. /\ IsFiniteSet(1..Len(sendAts))
        /\ Cardinality(1..Len(sendAts)) = IF 1 > Len(sendAts) THEN 0 ELSE Len(sendAts) - 1 + 1
    BY <1>2, FS_Interval
  <2> QED BY <1>2, <2>1
<1>4. f \in Surjection(DOMAIN sendAts, dates)
  BY DEF Surjection
<1>5. IsFiniteSet(dates) /\ Cardinality(dates) <= Len(sendAts)
  BY <1>3, <1>4, FS_Surjection
<1>6. FullDates \subseteq dates
  <2> SUFFICES ASSUME NEW d \in FullDates, d \notin dates
               PROVE  FALSE
    OBVIOUS
  <2>1. OnDate(d) >= ask.cap /\ ask.cap > 0
    BY <1>1 DEF FullDates, Full
  <2>2. {i \in DOMAIN sendAts : DateOf(sendAts[i]) = d} = {}
    OBVIOUS
  <2>3. OnDate(d) = 0
    BY <2>2, FS_EmptySet DEF OnDate
  <2> QED BY <1>1, <2>1, <2>3
<1>7. IsFiniteSet(FullDates) /\ Cardinality(FullDates) <= Cardinality(dates)
  BY <1>5, <1>6, FS_Subset
<1>8. Cardinality(FullDates) \in Nat /\ Cardinality(dates) \in Nat
  BY <1>5, <1>7, FS_CardinalityType
<1> QED BY <1>2, <1>5, <1>7, <1>8

-----------------------------------------------------------------------------
(* The invariant                                                            *)

CursorsAreInside ==
  \A s \in Cursors : Inside(sender[s], ask.startAfter)

SendsAreInside ==
  \A i \in DOMAIN sendAts : InWindow(sendAts[i]) /\ ask.startAfter <= sendAts[i]

CapKept == ask.cap # 0 => \A d \in Nat : OnDate(d) <= ask.cap

(* A window in which a cursor may have found its date full.                 *)
MayRoll(d) == Full(d) \/ (OverMidnight /\ Full(d + 1))

(* The windows each cursor has left that may have been full: an iteration   *)
(* that sends nothing takes its cursor past one more of them.               *)
Left == {p \in Cursors \X Nat : MayRoll(p[2]) /\ Close(p[2]) < sender[p[1]].close}

RollsCounted == guard <= Len(sendAts) + Cardinality(Left)

Ends ==
  /\ Len(sendAts) <= ask.n
  /\ ended => Len(sendAts) = ask.n \/ guard = GuardOf(ask.n)

ScheduleIInv ==
  /\ ScheduleTypeOK /\ CursorsAreInside /\ SendsAreInside /\ CapKept /\ Ends

LEMMA LeftIsSmall ==
  ASSUME ScheduleTypeOK, IsFiniteSet(Cursors)
  PROVE  /\ IsFiniteSet(Left)
         /\ ~OverMidnight => Cardinality(Left) <= Cardinality(Cursors) * Len(sendAts)
         /\ Cardinality(Left) <= Cardinality(Cursors) * (2 * Len(sendAts))
<1> DEFINE before == {d \in Nat : d + 1 \in FullDates}
           windows == FullDates \union (IF OverMidnight THEN before ELSE {})
           C == Cardinality(Cursors)
           W == Cardinality(windows)
           n == Len(sendAts)
<1>1. IsFiniteSet(FullDates) /\ Cardinality(FullDates) <= n /\ n \in Nat
  BY FullDatesAreFew DEF ScheduleTypeOK
<1>2. IsFiniteSet(before) /\ Cardinality(before) <= Cardinality(FullDates)
  <2> DEFINE f == [d \in before |-> d + 1]
  <2>1. f \in [before -> FullDates] /\ \A a, b \in before : f[a] = f[b] => a = b
    OBVIOUS
  <2>2. f \in Injection(before, FullDates)
    BY <2>1 DEF Injection, IsInjective
  <2> QED BY <1>1, <2>2, FS_Injection
<1>3. Cardinality(FullDates) \in Nat /\ Cardinality(before) \in Nat
  BY <1>1, <1>2, FS_CardinalityType
<1>4. IsFiniteSet(windows) /\ (~OverMidnight => W <= n) /\ W <= 2 * n
  <2>1. CASE ~OverMidnight
    <3>1. windows = FullDates
      BY <2>1
    <3> HIDE DEF windows
    <3> QED BY <1>1, <1>3, <3>1
  <2>2. CASE OverMidnight
    <3>1. windows = FullDates \union before
      BY <2>2
    <3>2. /\ IsFiniteSet(FullDates \union before)
          /\ Cardinality(FullDates \union before) =
               Cardinality(FullDates) + Cardinality(before) - Cardinality(FullDates \intersect before)
      BY <1>1, <1>2, FS_Union
    <3>3. Cardinality(FullDates \intersect before) \in Nat
      BY <1>1, FS_Subset, FS_CardinalityType
    <3> HIDE DEF windows, before
    <3>4. W <= 2 * n
      BY <1>1, <1>2, <1>3, <3>1, <3>2, <3>3
    <3> QED BY <2>2, <3>1, <3>2, <3>4
  <2> QED BY <2>1, <2>2
<1>5. Left \subseteq Cursors \X windows
  BY DEF Left, MayRoll, FullDates
<1>6. IsFiniteSet(Cursors \X windows) /\ Cardinality(Cursors \X windows) = C * W
  BY <1>4, FS_Product
<1>7. IsFiniteSet(Left) /\ Cardinality(Left) <= C * W
  BY <1>5, <1>6, FS_Subset
<1>8. C \in Nat /\ W \in Nat /\ Cardinality(Left) \in Nat
  BY <1>4, <1>7, FS_CardinalityType
<1> HIDE DEF C, W, n, windows
<1>9. ASSUME NEW m \in Nat, W <= m
      PROVE  Cardinality(Left) <= C * m
  <2>1. C * W <= C * m
    BY <1>8, <1>9
  <2>2. C * W \in Nat /\ C * m \in Nat
    BY <1>8
  <2> QED BY <1>7, <1>8, <2>1, <2>2
<1>10. 2 * n \in Nat
  BY <1>1
<1> QED BY <1>1, <1>4, <1>7, <1>9, <1>10 DEF C, n

LEMMA ScheduleInitial ==
  ASSUME ScheduleInit
  PROVE  ScheduleIInv
<1>1. ask \in [n : Counts, cap : Caps, startAfter : Starts]
  BY DEF ScheduleInit
<1>2. ask.n \in Nat /\ ask.cap \in Nat /\ ask.startAfter \in Nat
  BY <1>1, ScheduleAssumption
<1>3. ASSUME NEW s \in Cursors
      PROVE  sender[s] \in Place /\ Inside(sender[s], ask.startAfter)
  <2> DEFINE w == WindowFrom(ask.startAfter)
  <2>1. w \in Place /\ Inside(w, ask.startAfter) /\ Stagger[s] \in Nat
    BY <1>2, WindowFromIsInside, ScheduleAssumption
  <2>2. sender[s] = IF w.at + Stagger[s] >= w.close THEN WindowFrom(w.close)
                    ELSE [w EXCEPT !.at = w.at + Stagger[s]]
    BY DEF ScheduleInit, FirstSend
  <2> HIDE DEF w
  <2> QED BY <1>2, <2>1, <2>2, LaterInside
<1>4. sender \in [Cursors -> [close : Nat, at : Nat]]
  BY <1>3 DEF ScheduleInit, Place
<1>5. sendAts = <<>> /\ guard = 0 /\ ended = FALSE
  BY DEF ScheduleInit
<1>6. ScheduleTypeOK
  <2>1. Slack \in Nat
    BY ScheduleAssumption
  <2>2. GuardOf(ask.n) \in Nat /\ 0 \in 0..GuardOf(ask.n)
    BY <1>2, <2>1 DEF GuardOf
  <2>3. <<>> \in Seq(Nat)
    OBVIOUS
  <2> QED BY <1>1, <1>4, <1>5, <2>2, <2>3 DEF ScheduleTypeOK
<1>7. SendsAreInside
  BY <1>5 DEF SendsAreInside
<1>8. CapKept
  <2> SUFFICES ASSUME NEW d \in Nat
               PROVE  OnDate(d) <= ask.cap
    BY DEF CapKept
  <2>1. {i \in DOMAIN sendAts : DateOf(sendAts[i]) = d} = {}
    BY <1>5
  <2>2. OnDate(d) = 0
    BY <2>1, FS_EmptySet DEF OnDate
  <2> QED BY <1>2, <2>2
<1>9. Ends
  BY <1>2, <1>5 DEF Ends
<1> QED BY <1>3, <1>6, <1>7, <1>8, <1>9 DEF ScheduleIInv, CursorsAreInside

LEMMA ScheduleIsTyped ==
  ASSUME ScheduleTypeOK
  PROVE  /\ ask.n \in Nat /\ ask.cap \in Nat /\ ask.startAfter \in Nat
         /\ guard \in Nat /\ GuardOf(ask.n) \in Nat /\ GuardOf(ask.n) = 8 * ask.n + Slack
         /\ Slack \in Nat /\ sendAts \in Seq(Nat) /\ Len(sendAts) \in Nat
         /\ sender \in [Cursors -> Place]
         /\ \A s \in Cursors : /\ sender[s] \in Place
                               /\ sender[s].at \in Nat /\ sender[s].close \in Nat
<1>1. ask.n \in Nat /\ ask.cap \in Nat /\ ask.startAfter \in Nat
  BY ScheduleAssumption DEF ScheduleTypeOK
<1>2. Slack \in Nat
  BY ScheduleAssumption
<1>3. GuardOf(ask.n) = 8 * ask.n + Slack
  BY DEF GuardOf
<1>4. guard \in 0..GuardOf(ask.n)
  BY DEF ScheduleTypeOK
<1> QED BY <1>1, <1>2, <1>3, <1>4 DEF ScheduleTypeOK, Place

(* A cursor that has moved on is inside a window again.                     *)
LEMMA CursorMoves ==
  ASSUME ScheduleIInv, NEW s \in Cursors, NEW w \in Place, Inside(w, ask.startAfter),
         sender[s].close <= w.close, sender' = [sender EXCEPT ![s] = w], ask' = ask
  PROVE  /\ sender' \in [Cursors -> [close : Nat, at : Nat]]
         /\ CursorsAreInside'
         /\ \A o \in Cursors : sender[o].close <= sender'[o].close
<1>1. /\ sender'[s] = w /\ \A o \in Cursors : o # s => sender'[o] = sender[o]
      /\ sender' \in [Cursors -> Place]
  BY ScheduleIsTyped DEF ScheduleIInv
<1>2. \A o \in Cursors : sender[o].close \in Nat
  BY ScheduleIsTyped DEF ScheduleIInv
<1>3. CursorsAreInside'
  <2> SUFFICES ASSUME NEW o \in Cursors
               PROVE  Inside(sender'[o], ask.startAfter)
    BY DEF CursorsAreInside, Inside
  <2> QED BY <1>1 DEF ScheduleIInv, CursorsAreInside
<1> QED BY <1>1, <1>2, <1>3 DEF Place

LEMMA RollKeeps ==
  ASSUME ScheduleIInv, NEW s \in Cursors, RollCursor(s)
  PROVE  ScheduleIInv'
<1>1. /\ sender' = [sender EXCEPT ![s] = WindowFrom(sender[s].close)]
      /\ guard' = guard + 1 /\ UNCHANGED <<ask, sendAts, ended>>
      /\ ~ended /\ guard < GuardOf(ask.n)
  BY DEF RollCursor, Iterating
<1> DEFINE w == WindowFrom(sender[s].close)
<1>2. w \in Place /\ Inside(w, ask.startAfter) /\ sender[s].close <= w.close
  <2>1. Inside(sender[s], ask.startAfter) /\ sender[s] \in Place /\ ask.startAfter \in Nat
    BY ScheduleIsTyped DEF ScheduleIInv, CursorsAreInside
  <2>2. sender[s].close \in Nat /\ sender[s].at \in Nat
    BY <2>1 DEF Place
  <2>3. sender[s].at + sender[s].close >= sender[s].close
    BY <2>2
  <2> QED BY <2>1, <2>2, <2>3, LaterInside
<1> HIDE DEF w
<1>3. sender' = [sender EXCEPT ![s] = w]
  BY <1>1 DEF w
<1>4. sender' \in [Cursors -> [close : Nat, at : Nat]] /\ CursorsAreInside'
  BY <1>1, <1>2, <1>3, CursorMoves
<1>5. guard' \in 0..GuardOf(ask.n)
  BY <1>1, ScheduleIsTyped DEF ScheduleIInv
<1>6. ScheduleTypeOK'
  BY <1>1, <1>4, <1>5 DEF ScheduleIInv, ScheduleTypeOK, GuardOf
<1>7. SendsAreInside' /\ CapKept' /\ Ends'
  BY <1>1 DEF ScheduleIInv, SendsAreInside, CapKept, OnDate, Ends
<1> QED BY <1>4, <1>6, <1>7 DEF ScheduleIInv

LEMMA EmitKeeps ==
  ASSUME ScheduleIInv, NEW s \in Cursors, Emit(s)
  PROVE  ScheduleIInv'
<1> DEFINE w == sender[s]
<1>1. /\ sendAts' = Append(sendAts, w.at)
      /\ guard' = guard + 1 /\ UNCHANGED <<ask, ended>>
      /\ ~ended /\ guard < GuardOf(ask.n) /\ Len(sendAts) < ask.n
      /\ ~Full(DateOf(w.at))
  BY DEF Emit, Iterating
<1>2. PICK gap \in IF w.at >= w.close - RushTail THEN RushGaps ELSE Gaps :
        sender' = [sender EXCEPT ![s] = AfterGap(w, gap)]
  BY DEF Emit
<1>3. gap \in Nat
  BY ScheduleAssumption
<1>4. w \in Place /\ Inside(w, ask.startAfter) /\ ask.startAfter \in Nat
      /\ sendAts \in Seq(Nat) /\ w.at \in Nat /\ ask.cap \in Nat /\ ask.n \in Nat
  BY ScheduleIsTyped DEF ScheduleIInv, CursorsAreInside
<1> DEFINE x == AfterGap(w, gap)
<1>5. x \in Place /\ Inside(x, ask.startAfter) /\ w.close <= x.close
  <2>1. x = IF w.at + gap >= w.close THEN WindowFrom(w.close) ELSE [w EXCEPT !.at = w.at + gap]
    BY DEF AfterGap
  <2> HIDE DEF x, w
  <2> QED BY <1>3, <1>4, <2>1, LaterInside
<1>6. sender' = [sender EXCEPT ![s] = x]
  BY <1>2
<1> HIDE DEF x
<1>7. sender' \in [Cursors -> [close : Nat, at : Nat]] /\ CursorsAreInside'
  BY <1>1, <1>5, <1>6, CursorMoves
<1>8. guard' \in 0..GuardOf(ask.n)
  BY <1>1, ScheduleIsTyped DEF ScheduleIInv
<1>9. InWindow(w.at) /\ ask.startAfter <= w.at
  BY <1>4, InsideIsInWindow
<1> HIDE DEF w
<1>10. /\ sendAts' \in Seq(Nat) /\ Len(sendAts') = Len(sendAts) + 1
       /\ \A i \in DOMAIN sendAts' : sendAts'[i] = w.at \/ (i \in DOMAIN sendAts /\ sendAts'[i] = sendAts[i])
  BY <1>1, <1>4
<1>11. ScheduleTypeOK'
  BY <1>1, <1>7, <1>8, <1>10 DEF ScheduleIInv, ScheduleTypeOK, GuardOf
<1>12. SendsAreInside'
  BY <1>1, <1>9, <1>10 DEF ScheduleIInv, SendsAreInside
<1>13. CapKept'
  <2> SUFFICES ASSUME NEW d \in Nat, ask.cap # 0
               PROVE  On(sendAts', d) <= ask.cap
    BY <1>1 DEF CapKept, OnDate, On
  <2>1. On(sendAts', d) = On(sendAts, d) + (IF DateOf(w.at) = d THEN 1 ELSE 0)
    BY <1>1, <1>4, OneMoreOn
  <2>2. On(sendAts, d) \in Nat /\ On(sendAts, d) <= ask.cap
    BY <1>4, OnIsNumber DEF ScheduleIInv, CapKept, OnDate, On
  <2>3. DateOf(w.at) = d => On(sendAts, d) < ask.cap
    BY <1>1, <1>4, <2>2 DEF Full, OnDate, On
  <2> QED BY <1>4, <2>1, <2>2, <2>3
<1>14. Ends'
  <2>1. Len(sendAts) \in Nat
    BY <1>4
  <2> QED BY <1>1, <1>4, <1>10, <2>1 DEF Ends
<1> QED BY <1>7, <1>11, <1>12, <1>13, <1>14 DEF ScheduleIInv

LEMMA ReturnKeeps ==
  ASSUME ScheduleIInv, Return
  PROVE  ScheduleIInv'
<1>1. ~ended /\ ~Iterating /\ ended' = TRUE /\ UNCHANGED <<ask, sender, sendAts, guard>>
  BY DEF Return
<1>2. /\ Len(sendAts) <= ask.n /\ guard \in 0..GuardOf(ask.n)
      /\ ask.n \in Nat /\ Len(sendAts) \in Nat /\ GuardOf(ask.n) \in Nat
  BY ScheduleIsTyped DEF ScheduleIInv, Ends, ScheduleTypeOK
<1>3. Len(sendAts) = ask.n \/ guard = GuardOf(ask.n)
  BY <1>1, <1>2 DEF Iterating
<1>4. Ends'
  BY <1>1, <1>2, <1>3 DEF Ends, GuardOf
<1>5. ScheduleTypeOK'
  BY <1>1 DEF ScheduleIInv, ScheduleTypeOK, GuardOf
<1>6. CursorsAreInside' /\ SendsAreInside' /\ CapKept'
  BY <1>1 DEF ScheduleIInv, CursorsAreInside, Inside, SendsAreInside, CapKept, OnDate
<1> QED BY <1>4, <1>5, <1>6 DEF ScheduleIInv

LEMMA ScheduleStep ==
  ASSUME ScheduleIInv, [ScheduleNext]_scheduleVars
  PROVE  ScheduleIInv'
<1>1. CASE UNCHANGED scheduleVars
  BY <1>1 DEF scheduleVars, ScheduleIInv, ScheduleTypeOK, CursorsAreInside, Inside, SendsAreInside,
              CapKept, OnDate, Ends, GuardOf
<1> QED BY <1>1, RollKeeps, EmitKeeps, ReturnKeeps DEF ScheduleNext

-----------------------------------------------------------------------------
(* The guard                                                                *)

LeftFinite == IsFiniteSet(Left)

(* An iteration that sends is one more send, and full days stay full.       *)
LEMMA EmitCounts ==
  ASSUME ScheduleIInv, RollsCounted, LeftFinite, LeftFinite', NEW s \in Cursors, Emit(s)
  PROVE  RollsCounted'
<1> DEFINE w == sender[s]
<1>1. /\ sendAts' = Append(sendAts, w.at) /\ guard' = guard + 1 /\ ask' = ask
      /\ sender \in [Cursors -> Place] /\ w \in Place
      /\ sendAts \in Seq(Nat) /\ w.at \in Nat /\ w.close \in Nat /\ guard \in Nat /\ ask.cap \in Nat
      /\ Inside(w, ask.startAfter) /\ ask.startAfter \in Nat
  BY ScheduleIsTyped DEF Emit, ScheduleIInv, CursorsAreInside
<1>2. PICK gap \in Nat : sender' = [sender EXCEPT ![s] = AfterGap(w, gap)]
  BY ScheduleAssumption DEF Emit
<1> DEFINE x == AfterGap(w, gap)
<1>3. x \in Place /\ Inside(x, ask.startAfter) /\ w.close <= x.close
  <2>1. x = IF w.at + gap >= w.close THEN WindowFrom(w.close) ELSE [w EXCEPT !.at = w.at + gap]
    BY DEF AfterGap
  <2> HIDE DEF x, w
  <2> QED BY <1>1, <2>1, LaterInside
<1> HIDE DEF x
<1>4. \A o \in Cursors : sender[o].close <= sender'[o].close
  BY <1>1, <1>2, <1>3, CursorMoves DEF x
<1>5. ASSUME NEW d \in Nat, Full(d)
      PROVE  Full(d)'
  <2>1. On(sendAts', d) = On(sendAts, d) + (IF DateOf(w.at) = d THEN 1 ELSE 0)
    BY <1>1, OneMoreOn
  <2>2. On(sendAts, d) \in Nat
    BY <1>1, OnIsNumber
  <2>3. On(sendAts', d) >= On(sendAts, d)
    BY <2>1, <2>2
  <2>4. On(sendAts', d) \in Nat
    BY <2>1, <2>2
  <2>5. ask.cap # 0 /\ On(sendAts, d) >= ask.cap
    BY <1>5 DEF Full, OnDate, On
  <2>6. On(sendAts', d) >= ask.cap
    BY <1>1, <2>2, <2>3, <2>4, <2>5
  <2> QED BY <1>1, <2>5, <2>6 DEF Full, OnDate, On
<1>6. Left \subseteq Left'
  <2> SUFFICES ASSUME NEW o \in Cursors, NEW d \in Nat, MayRoll(d), Close(d) < sender[o].close
               PROVE  MayRoll(d)' /\ Close(d) < sender'[o].close
    BY DEF Left
  <2>1. MayRoll(d)'
    BY <1>5 DEF MayRoll, OverMidnight
  <2>2. Close(d) \in Nat /\ sender[o].close \in Nat
    BY <1>1, WindowNumbers DEF Place
  <2>3. sender'[o].close \in Nat
    BY <1>1, <1>2, <1>3 DEF Place, x
  <2> QED BY <1>4, <2>1, <2>2, <2>3
<1>7. Cardinality(Left) <= Cardinality(Left')
  BY <1>6, FS_Subset DEF LeftFinite
<1>8. Cardinality(Left) \in Nat /\ Cardinality(Left') \in Nat
  BY FS_CardinalityType DEF LeftFinite
<1>9. Len(sendAts') = Len(sendAts) + 1 /\ Len(sendAts) \in Nat
  BY <1>1
<1>10. guard <= Len(sendAts) + Cardinality(Left)
  BY DEF RollsCounted
<1>11. guard' <= Len(sendAts') + Cardinality(Left')
  BY <1>1, <1>7, <1>8, <1>9, <1>10
<1> QED BY <1>11 DEF RollsCounted

(* One that does not takes its cursor past a window it was never past.      *)
LEMMA RollCounts ==
  ASSUME ScheduleIInv, RollsCounted, LeftFinite, LeftFinite', NEW s \in Cursors, RollCursor(s)
  PROVE  RollsCounted'
<1> DEFINE w == sender[s]
           x == WindowFrom(w.close)
<1>1. /\ sender' = [sender EXCEPT ![s] = x] /\ guard' = guard + 1 /\ UNCHANGED <<ask, sendAts>>
      /\ Full(DateOf(w.at))
  BY DEF RollCursor
<1>2. /\ sender \in [Cursors -> Place] /\ w \in Place /\ w.at \in Nat /\ w.close \in Nat
      /\ sendAts \in Seq(Nat) /\ guard \in Nat /\ Inside(w, ask.startAfter)
  BY ScheduleIsTyped DEF ScheduleIInv, CursorsAreInside
<1>3. x \in Place /\ x.close > w.close
  BY <1>2, WindowFromIsInside
<1>4. PICK d \in Nat : w.close = Close(d) /\ Open(d) <= w.at /\ w.at < w.close
  BY <1>2 DEF Inside
<1>5. MayRoll(d)
  <2>1. DateOf(w.at) = d \/ (OverMidnight /\ DateOf(w.at) = d + 1)
    BY <1>2, <1>4, DatesOfWindow
  <2> QED BY <1>1, <2>1 DEF MayRoll
<1> HIDE DEF x, w
<1>6. sender'[s] = x /\ \A o \in Cursors : o # s => sender'[o] = sender[o]
  BY <1>1, <1>2
<1>7. \A c : MayRoll(c) => MayRoll(c)'
  BY <1>1 DEF MayRoll, Full, OnDate
<1>8. \A o \in Cursors, c \in Nat : Close(c) < sender[o].close => Close(c) < sender'[o].close
  <2> SUFFICES ASSUME NEW o \in Cursors, NEW c \in Nat, Close(c) < sender[o].close
               PROVE  Close(c) < sender'[o].close
    OBVIOUS
  <2>1. Close(c) \in Nat /\ x.close \in Nat
    BY <1>3, WindowNumbers DEF Place
  <2>2. CASE o = s
    BY <1>2, <1>3, <1>6, <2>1, <2>2 DEF w
  <2>3. CASE o # s
    BY <1>6, <2>3
  <2> QED BY <2>2, <2>3
<1>9. Left \union {<<s, d>>} \subseteq Left'
  <2>1. Left \subseteq Left'
    BY <1>7, <1>8 DEF Left
  <2>2. Close(d) < sender'[s].close
    BY <1>3, <1>4, <1>6
  <2>3. <<s, d>> \in Left'
    BY <1>5, <1>7, <2>2 DEF Left
  <2> QED BY <2>1, <2>3
<1>10. <<s, d>> \notin Left
  <2>1. ~(Close(d) < sender[s].close)
    BY <1>2, <1>4 DEF w
  <2> QED BY <2>1 DEF Left
<1>11. /\ IsFiniteSet(Left \union {<<s, d>>})
       /\ Cardinality(Left \union {<<s, d>>}) = Cardinality(Left) + 1
  BY <1>10, FS_AddElement DEF LeftFinite
<1>12. Cardinality(Left) + 1 <= Cardinality(Left')
  BY <1>9, <1>11, FS_Subset DEF LeftFinite
<1>13. Cardinality(Left) \in Nat /\ Cardinality(Left') \in Nat /\ Len(sendAts) \in Nat
  BY <1>2, FS_CardinalityType DEF LeftFinite
<1>14. guard <= Len(sendAts) + Cardinality(Left)
  BY DEF RollsCounted
<1>15. guard' <= Len(sendAts) + Cardinality(Left')
  BY <1>1, <1>2, <1>12, <1>13, <1>14
<1> QED BY <1>1, <1>15 DEF RollsCounted

(* The guard is not met, for few cursors: 8 iterations for a send are       *)
(* enough.  A window that crosses midnight may be found full on either of   *)
(* its two dates.                                                           *)
FewCursors ==
  /\ IsFiniteSet(Cursors)
  /\ Cardinality(Cursors) <= 3 \/ (~OverMidnight /\ Cardinality(Cursors) <= 7)

LEMMA GuardIsEnough ==
  ASSUME ScheduleIInv, RollsCounted, FewCursors
  PROVE  guard <= 8 * Len(sendAts)
<1> DEFINE C == Cardinality(Cursors)
           L == Cardinality(Left)
           n == Len(sendAts)
<1>1. IsFiniteSet(Left) /\ (~OverMidnight => L <= C * n) /\ L <= C * (2 * n)
  BY LeftIsSmall DEF ScheduleIInv, FewCursors
<1>2. C \in Nat /\ L \in Nat /\ n \in Nat /\ guard \in Nat
  BY <1>1, FS_CardinalityType, ScheduleIsTyped DEF FewCursors, ScheduleIInv
<1>3. guard <= n + L
  BY DEF RollsCounted
<1>4. C <= 3 \/ (~OverMidnight /\ C <= 7)
  BY DEF FewCursors
<1> HIDE DEF C, L, n
<1>5. CASE C <= 3
  <2>1. C * (2 * n) <= 3 * (2 * n)
    BY <1>2, <1>5
  <2>2. C * (2 * n) \in Nat
    BY <1>2
  <2> QED BY <1>1, <1>2, <1>3, <2>1, <2>2 DEF n
<1>6. CASE ~OverMidnight /\ C <= 7
  <2>1. C * n <= 7 * n
    BY <1>2, <1>6
  <2>2. C * n \in Nat
    BY <1>2
  <2> QED BY <1>1, <1>2, <1>3, <1>6, <2>1, <2>2 DEF n
<1> QED BY <1>4, <1>5, <1>6

LEMMA ScheduleInvariance == ScheduleSpec => []ScheduleIInv
<1>1. ScheduleInit => ScheduleIInv
  BY ScheduleInitial
<1>2. ScheduleIInv /\ [ScheduleNext]_scheduleVars => ScheduleIInv'
  BY ScheduleStep
<1> QED BY <1>1, <1>2, PTL DEF ScheduleSpec

(* Every send time of compute_send_ats lies in a window, not before the     *)
(* call, no date has more of them than the cap, and there is one for each   *)
(* recipient: the loop's guard does not cut the schedule off.  For any      *)
(* windows, gaps, caps and counts, if there are at most three cursors, the  *)
(* default, or at most seven and the window ends before midnight.           *)
THEOREM SchedulesAreHonoured ==
  ASSUME FewCursors
  PROVE  ScheduleSpec => []ScheduleHonoured
<1>1. ScheduleIInv => LeftFinite
  BY LeftIsSmall DEF ScheduleIInv, FewCursors, LeftFinite
<1>2. ScheduleInit => RollsCounted
  <2> SUFFICES ASSUME ScheduleInit
               PROVE  RollsCounted
    OBVIOUS
  <2>1. guard = 0 /\ Len(sendAts) = 0
    BY DEF ScheduleInit
  <2>2. Cardinality(Left) \in Nat
    BY <1>1, ScheduleInitial, FS_CardinalityType DEF LeftFinite
  <2> QED BY <2>1, <2>2 DEF RollsCounted
<1>3. /\ ScheduleIInv /\ LeftFinite /\ LeftFinite' /\ RollsCounted /\ [ScheduleNext]_scheduleVars
      => RollsCounted'
  <2> SUFFICES ASSUME ScheduleIInv, LeftFinite, LeftFinite', RollsCounted, [ScheduleNext]_scheduleVars
               PROVE  RollsCounted'
    OBVIOUS
  <2>1. CASE UNCHANGED <<ask, sender, sendAts, guard>>
    BY <2>1 DEF RollsCounted, Left, MayRoll, Full, OnDate
  <2> QED BY <2>1, RollCounts, EmitCounts DEF ScheduleNext, scheduleVars, Return
<1>4. ScheduleIInv /\ RollsCounted => ScheduleHonoured
  <2> SUFFICES ASSUME ScheduleIInv, RollsCounted
               PROVE  ScheduleHonoured
    OBVIOUS
  <2>1. guard <= 8 * Len(sendAts)
    BY GuardIsEnough
  <2>2. ask.cap # 0 => \A i \in DOMAIN sendAts : OnDate(DateOf(sendAts[i])) <= ask.cap
    <3> SUFFICES ASSUME ask.cap # 0, NEW i \in DOMAIN sendAts
                 PROVE  OnDate(DateOf(sendAts[i])) <= ask.cap
      OBVIOUS
    <3>1. sendAts[i] \in Nat
      BY ScheduleIsTyped DEF ScheduleIInv
    <3> QED BY <3>1, DateIsNear DEF ScheduleIInv, CapKept
  <2>3. ASSUME ended
        PROVE  Len(sendAts) = ask.n
    <3>1. Len(sendAts) <= ask.n /\ (Len(sendAts) = ask.n \/ guard = 8 * ask.n + Slack)
      BY <2>3, ScheduleIsTyped DEF ScheduleIInv, Ends
    <3>2. Len(sendAts) \in Nat /\ ask.n \in Nat /\ Slack \in Nat
      BY ScheduleIsTyped DEF ScheduleIInv
    <3> QED BY <2>1, <3>1, <3>2
  <2> QED BY <2>2, <2>3 DEF ScheduleHonoured, ScheduleIInv, SendsAreInside
<1> QED BY <1>1, <1>2, <1>3, <1>4, ScheduleInvariance, PTL DEF ScheduleSpec

(* Every cursor stands inside a window, after the time of the call.         *)
LEMMA CursorsStayInside ==
  ASSUME ScheduleIInv
  PROVE  ScheduleInv
<1>1. \A s \in Cursors : /\ ask.startAfter <= sender[s].at /\ InWindow(sender[s].at)
                         /\ sender[s].at < sender[s].close
  BY InsideIsInWindow, ScheduleIsTyped DEF ScheduleIInv, CursorsAreInside, Inside
<1> QED BY <1>1 DEF ScheduleInv, CursorsInside, ScheduleIInv

-----------------------------------------------------------------------------
(* The parts together                                                       *)

(* Of the send times only where they are computed: elsewhere nothing is asked.*)
PartsIInv ==
  /\ PushIInv /\ PushHolds /\ CheckedIsStored
  /\ KeyIInv /\ HandIInv
  /\ BookIInv /\ GateIInv /\ BackupIInv
  /\ part = "schedule" => ScheduleIInv

(* A step of one part is a step, or none, of each.                          *)
LEMMA EachPartSteps ==
  ASSUME [PartsNext]_vars
  PROVE  /\ [PushNext]_pushVars /\ [KeyNext]_keyVars /\ [HandNext]_handVars
         /\ [BookNext]_bookVars /\ [GateNext]_gateVars /\ [BackupNext]_backupVars
         /\ part' = part /\ (part = "schedule" => [ScheduleNext]_scheduleVars)
<1>1. CASE UNCHANGED vars
  BY <1>1 DEF vars, partVars
<1>2. CASE PartsNext
  BY <1>2 DEF PartsNext, LaterVars, SyncVars
<1> QED BY <1>1, <1>2

LEMMA PartsInitial ==
  ASSUME PartsInit
  PROVE  PartsIInv
<1>1. /\ PushInit /\ KeyInit /\ HandInit /\ BookInit /\ GateInit /\ BackupInit
      /\ part = "schedule" => ScheduleInit
  BY DEF PartsInit
<1> QED BY <1>1, PushInitial, PushHoldsInitial, KeyInitial, HandInitial, BookInitial, GateInitial,
           GateAssumption, BackupInitial, ScheduleInitial DEF PartsIInv

LEMMA PartsStep ==
  ASSUME PartsIInv, [PartsNext]_vars
  PROVE  PartsIInv'
<1>1. PushIInv' /\ PushHolds' /\ CheckedIsStored'
  BY EachPartSteps, PushStep, PushHoldsStep, CheckedStep DEF PartsIInv
<1>2. KeyIInv'
  BY EachPartSteps, KeyStep, KeyIdle DEF PartsIInv
<1>3. HandIInv'
  BY EachPartSteps, HandStep DEF PartsIInv
<1>4. BookIInv' /\ GateIInv' /\ BackupIInv'
  BY EachPartSteps, BookStep, GateStep, GateAssumption, BackupStep DEF PartsIInv
<1>5. part' = "schedule" => ScheduleIInv'
  BY EachPartSteps, ScheduleStep DEF PartsIInv
<1> QED BY <1>1, <1>2, <1>3, <1>4, <1>5 DEF PartsIInv

(* Each part's tables, files, requests and log entries have their types, and*)
(* it keeps what its own invariants rest on: unique ids and pages without   *)
(* gaps in the log, recipients that exist and are counted, hashes a test    *)
(* recorded, and cursors inside their windows.                              *)
THEOREM PartsHold == PartsSpec => []PartsInv
<1>1. PartsIInv => PartsInv
  BY PushTyped, CursorsStayInside DEF PartsIInv, PartsInv, KeyIInv, HandIInv, BookIInv, GateIInv, BackupIInv
<1>2. PartsIInv /\ [PartsNext]_vars => PartsIInv'
  BY PartsStep
<1> QED BY PartsInitial, <1>1, <1>2, PTL DEF PartsSpec
=============================================================================
