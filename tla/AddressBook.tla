---------------------------- MODULE AddressBook ----------------------------
(***************************************************************************)
(* Contacts, their tags, the suppression list and the recipients of        *)
(* campaigns in the terminal's SQLite (routes_admin.py).                   *)
(*                                                                         *)
(* The routes run in threads.  A request first reads outside of any        *)
(* transaction and then writes everything in one, so another request may   *)
(* have written in between; such a route is two steps here, and requests      *)
(* holds what it has read.  A route whose read only asks whether the row   *)
(* it updates is there is one step.                                        *)
(***************************************************************************)
EXTENDS Integers, FiniteSets

CONSTANTS
  Emails, Tags,
  Importable,   \* addresses email_clean lets through: no role or throw-away account
  PartOf,       \* <<s, t>>: tag s is a proper part of the text of tag t
  BookCampaigns,
  BookCalls,    \* requests at a time
  MaxIds        \* contacts ever inserted (ids are AUTOINCREMENT)

ASSUME BookAssumption ==
  MaxIds \in Nat /\ IsFiniteSet(Emails) /\ Importable \subseteq Emails /\ PartOf \subseteq Tags \X Tags

VARIABLES contacts, lastId, suppressed, recipients, recipientCount, requests
bookVars == <<contacts, lastId, suppressed, recipients, recipientCount, requests>>

ContactRow == [id : 1..MaxIds, email : Emails, tags : SUBSET Tags]
RecipientRow == BookCampaigns \X (1..MaxIds)
ContactIds == {x.id : x \in contacts}
NoCall == [step |-> "idle"]
Steps == [step : {"idle"}]
           \cup [step : {"insert"}, emails : SUBSET Emails, tags : SUBSET Tags]
           \cup [step : {"rename"}, rows : SUBSET [id : 1..MaxIds, tags : SUBSET Tags], old : Tags, new : Tags]
           \cup [step : {"untag"}, rows : SUBSET [id : 1..MaxIds, tags : SUBSET Tags], old : Tags]
           \cup [step : {"recipients"}, campaign : BookCampaigns, ids : SUBSET (1..MaxIds)]

BookInit ==
  /\ contacts = {} /\ lastId = 0 /\ suppressed = {} /\ recipients = {}
  /\ recipientCount = [c \in BookCampaigns |-> 0]
  /\ requests = [r \in BookCalls |-> NoCall]

BeginCall(r, call) == requests[r] = NoCall /\ requests' = [requests EXCEPT ![r] = call]
EndCall(r) == requests' = [requests EXCEPT ![r] = NoCall]

-----------------------------------------------------------------------------
(* Contacts.                                                                *)

(* An e-mail stands for all its spellings, which the cleaner makes one.     *)
Cleaned(emails) == emails \cap Importable

(* create_contact and csv_import leave out who is on the suppression list   *)
(* when they look; only the import cleans.                                  *)
ReadSuppression(r) ==
  /\ \E wanted \in {{e} : e \in Emails} \cup {Cleaned(emails) : emails \in SUBSET Emails},
        tags \in SUBSET Tags :
       BeginCall(r, [step |-> "insert", emails |-> wanted \ suppressed, tags |-> tags])
  /\ UNCHANGED <<contacts, lastId, suppressed, recipients, recipientCount>>

(* An e-mail that is there already is a 409, or ignored by the import.      *)
InsertContacts(r) ==
  LET fresh == requests[r].emails \ {x.email : x \in contacts}
      last  == lastId + Cardinality(fresh) IN
  /\ requests[r].step = "insert" /\ last <= MaxIds
  /\ \E idOf \in [fresh -> (lastId + 1)..last] :
       /\ \A e, f \in fresh : idOf[e] = idOf[f] => e = f
       /\ contacts' = contacts \cup
            {[id |-> idOf[e], email |-> e, tags |-> requests[r].tags] : e \in fresh}
  /\ lastId' = last
  /\ EndCall(r)
  /\ UNCHANGED <<suppressed, recipients, recipientCount>>

EditTags(x, tags) ==
  /\ contacts' = (contacts \ {x}) \cup {[x EXCEPT !.tags = tags]}
  /\ UNCHANGED <<lastId, suppressed, recipients, recipientCount, requests>>

(* delete_contact, bulk_delete_contacts: one transaction, and a foreign key *)
(* refuses all of it when one of them is a recipient.                       *)
InUse(id) == \E p \in recipients : p[2] = id

DeleteContacts(ids) ==
  /\ ids # {} /\ \A id \in ids : ~InUse(id)
  /\ contacts' = {x \in contacts : x.id \notin ids}
  /\ UNCHANGED <<lastId, suppressed, recipients, recipientCount, requests>>

AddSuppression(e) ==
  /\ suppressed' = suppressed \cup {e}
  /\ UNCHANGED <<contacts, lastId, recipients, recipientCount, requests>>

-----------------------------------------------------------------------------
(* Tags.                                                                    *)

(* The rows a LIKE '%tag%' finds. *)
Found(tag) == {[id |-> x.id, tags |-> x.tags] :
                 x \in {y \in contacts : \E t \in y.tags : t = tag \/ <<tag, t>> \in PartOf}}

ReadTags(r) ==
  /\ \E old, new \in Tags :
       \/ BeginCall(r, [step |-> "rename", rows |-> Found(old), old |-> old, new |-> new])
       \/ BeginCall(r, [step |-> "untag", rows |-> Found(old), old |-> old])
  /\ UNCHANGED <<contacts, lastId, suppressed, recipients, recipientCount>>

(* The tags to write are computed from the rows read: a rename writes those *)
(* it changes, a deletion all of them.                                      *)
NewTags(call, tags) ==
  IF call.step = "untag" THEN tags \ {call.old}
  ELSE IF call.old \in tags THEN (tags \ {call.old}) \cup {call.new} ELSE tags

RowsToWrite(call) == {row \in call.rows : call.step = "untag" \/ NewTags(call, row.tags) # row.tags}

WriteTags(r) ==
  /\ requests[r].step \in {"rename", "untag"}
  /\ contacts' = {x \in contacts : \A row \in RowsToWrite(requests[r]) : row.id # x.id} \cup
       {[p[1] EXCEPT !.tags = NewTags(requests[r], p[2].tags)] :
          p \in {q \in contacts \X RowsToWrite(requests[r]) : q[1].id = q[2].id}}
  /\ EndCall(r)
  /\ UNCHANGED <<lastId, suppressed, recipients, recipientCount>>

-----------------------------------------------------------------------------
(* Recipients.                                                              *)

CountUp(c, added) == recipientCount[c] + Cardinality(added)  \* mutant: adds who is there already

(* recipient_count is counted again, in the transaction of the inserts.     *)
CountAfter(c, added) == Cardinality({p \in recipients \cup ({c} \X added) : p[1] = c})

Insert(c, ids) ==
  /\ recipients' = recipients \cup ({c} \X ids)
  /\ recipientCount' = [recipientCount EXCEPT ![c] = CountAfter(c, ids)]

(* add_recipients: the ids posted and those the tag has now.                *)
ReadTagged(r) ==
  /\ \E c \in BookCampaigns, posted \in SUBSET (1..lastId), tag \in Tags :
       \/ BeginCall(r, [step |-> "recipients", campaign |-> c, ids |-> posted])
       \/ BeginCall(r, [step |-> "recipients", campaign |-> c,
                    ids |-> posted \cup {x.id : x \in {y \in contacts : tag \in y.tags}}])
  /\ UNCHANGED <<contacts, lastId, suppressed, recipients, recipientCount>>

(* A contact that is gone is a foreign key error: nothing is added.         *)
AddRecipients(r) ==
  /\ requests[r].step = "recipients"
  /\ \/ requests[r].ids \subseteq ContactIds /\ Insert(requests[r].campaign, requests[r].ids)
     \/ ~(requests[r].ids \subseteq ContactIds) /\ UNCHANGED <<recipients, recipientCount>>
  /\ EndCall(r)
  /\ UNCHANGED <<contacts, lastId, suppressed>>

(* add_contacts_to_campaign has nothing to read first. *)
AddContactsToCampaign(c, ids) ==
  /\ ids \subseteq ContactIds
  /\ Insert(c, ids)
  /\ UNCHANGED <<contacts, lastId, suppressed, requests>>

-----------------------------------------------------------------------------
BookNext ==
  \/ \E r \in BookCalls : \/ ReadSuppression(r) \/ InsertContacts(r) \/ ReadTags(r) \/ WriteTags(r)
                          \/ ReadTagged(r) \/ AddRecipients(r)
  \/ \E x \in contacts, tags \in SUBSET Tags : EditTags(x, tags)
  \/ \E ids \in SUBSET ContactIds : DeleteContacts(ids)
  \/ \E e \in Emails : AddSuppression(e)
  \/ \E c \in BookCampaigns, ids \in SUBSET ContactIds : AddContactsToCampaign(c, ids)

BookSpec == BookInit /\ [][BookNext]_bookVars

-----------------------------------------------------------------------------
(* The inductive invariant.                                                 *)

BookTypeOK ==
  /\ contacts \subseteq ContactRow
  /\ lastId \in 0..MaxIds /\ suppressed \subseteq Emails
  /\ recipients \subseteq RecipientRow
  /\ recipientCount \in [BookCampaigns -> Nat]
  /\ requests \in [BookCalls -> Steps]

(* However stale the rows a request writes from, a contact keeps its id and *)
(* its e-mail, ids are never given twice, and a recipient's contact exists. *)
RowsHold ==
  /\ \A x, y \in contacts : x.id = y.id \/ x.email = y.email => x = y
  /\ \A x \in contacts : x.id <= lastId
  /\ \A p \in recipients : p[2] \in ContactIds

(* recipient_count is the number of the campaign's recipients, whoever adds *)
(* whom twice, and whatever is deleted or rolled back.                      *)
CountTrue == \A c \in BookCampaigns : recipientCount[c] = Cardinality({p \in recipients : p[1] = c})

BookInv == BookTypeOK /\ RowsHold /\ CountTrue
=============================================================================
