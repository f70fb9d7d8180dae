----------------------------- MODULE MCReturns -----------------------------
(***************************************************************************)
(* What comes back to a terminal: webhooks and unsubscribes (Feedback) and *)
(* the outcomes of its packs (Outcomes), on small instances.  The two      *)
(* share no state, so one run checks them side by side: part says which of *)
(* them a behaviour is about, and the other stays in its initial state.    *)
(***************************************************************************)
EXTENDS Feedback, Outcomes

VARIABLE part

SmallHooks == {[type |-> "bounced", who |-> 1]}

vars == <<part, feedVars, outVars>>

Init == part \in {"feedback", "outcomes"} /\ FeedInit /\ OutInit

\* Two unsubscribes, or one and a fault.
FeedStep(A) ==
  part = "feedback" /\ A /\ asks' + faults' <= 2 /\ UNCHANGED <<part, outVars>>
OutStep(A)  == part = "outcomes" /\ A /\ UNCHANGED <<part, feedVars>>

Next == FeedStep(FeedNext) \/ OutStep(OutNext)

\* FeedFairness and OutFairness, each in its own behaviours.
Spec ==
  /\ Init /\ [][Next]_vars
  /\ \A t \in Readers : WF_vars(FeedStep(PullLoop(t))) /\ WF_vars(FeedStep(Materialiser(t)))
  /\ WF_vars(OutStep(TickSecond))
  /\ \A p \in OutPacks : WF_vars(OutStep(Reindex(p)))
  /\ WF_vars(OutStep(Poll \/ ApplyOutcome \/ SetOutcomeCursor))

\* The types, and that an event the receiver has answered 200 for is in the log.
ReturnsInv == FeedTypeOK /\ AckedIsLogged /\ OutTypeOK
=============================================================================
