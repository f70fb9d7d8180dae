---------------------------- MODULE OneShotSend ----------------------------
(***************************************************************************)
(* What the cloud promises for a pack that a terminal has pushed to it,    *)
(* without workers, queues, sweeps or keys: one recipient's mail is        *)
(* offered to the provider at most once, only while its outcome is open,   *)
(* and the outcome that the terminal reads afterwards is final and says    *)
(* nothing false about the mail.  Dispatch is shown to implement it.       *)
(***************************************************************************)
CONSTANT Packs

VARIABLES
  outcome,   \* what GET /packs/status tells of the pack ("open": nothing yet)
  mail       \* what became of the one request to the provider

vars == <<outcome, mail>>

Outcomes == {"sent", "failed", "stuck_no_key", "cancelled", "unknown"}
MailStates == {"none", "inflight", "accepted", "refused"}

TypeOK ==
  /\ outcome \in [Packs -> Outcomes \cup {"open"}]
  /\ mail \in [Packs -> MailStates]

Init ==
  /\ outcome = [p \in Packs |-> "open"]
  /\ mail = [p \in Packs |-> "none"]

(* The request leaves once, and never for a pack that has an outcome. *)
Offer(p) ==
  /\ outcome[p] = "open"
  /\ mail[p] = "none"
  /\ mail' = [mail EXCEPT ![p] = "inflight"]
  /\ UNCHANGED outcome

(* The provider may answer late, after the outcome became "unknown". *)
Answer(p) ==
  /\ mail[p] = "inflight"
  /\ \E answer \in {"accepted", "refused"} : mail' = [mail EXCEPT ![p] = answer]
  /\ UNCHANGED outcome

(* An outcome may only say what is certain; "unknown" is always allowed. *)
Certain(s, m) ==
  \/ s = "unknown"
  \/ s = "sent" /\ m = "accepted"
  \/ s = "failed" /\ m \in {"none", "refused"}
  \/ s \in {"stuck_no_key", "cancelled"} /\ m = "none"

Resolve(p) ==
  /\ outcome[p] = "open"
  /\ \E s \in Outcomes :
       /\ Certain(s, mail[p])
       /\ outcome' = [outcome EXCEPT ![p] = s]
  /\ UNCHANGED mail

Next == \E p \in Packs : Offer(p) \/ Answer(p) \/ Resolve(p)

Spec == Init /\ [][Next]_vars
=============================================================================
