----------------------------- MODULE MCSendPath -----------------------------
(* SendPath for TLC: requests are interchangeable.                          *)
EXTENDS SendPath, TLC

Symmetry == Permutations(Handlers)

\* Behaviours in which the cloud decides one pack only, which fails: the
\* launch's for contact 2.  The others wait for their send_at.
OnlySecondFails ==
  \A id \in Ids : outcome'[id] # "open" => id = <<0, 2, 0>> /\ outcome'[id] = "failed"

RetrySpec == Init /\ [][Next /\ OnlySecondFails]_vars
=============================================================================
