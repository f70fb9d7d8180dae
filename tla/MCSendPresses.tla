--------------------------- MODULE MCSendPresses ----------------------------
(***************************************************************************)
(* What operators do to a campaign, from three sides that would be too     *)
(* much together; scope says which a behaviour is about.                   *)
(*   serial    one request after another, for two contacts in two batches; *)
(*             two presses, and a retry, a fault or a suppression          *)
(*   overlap   Re-launches that overlap, of two contacts; three, or two    *)
(*             and a fault                                                 *)
(*   cancel    every button, for one contact (the other was cancelled);    *)
(*             three presses, or two and a fault                           *)
(* Requests are interchangeable.                                           *)
(***************************************************************************)
EXTENDS SendPath, TLC

VARIABLE scope

Symmetry == Permutations(Handlers)

PressesInit ==
  /\ scope \in {"serial", "overlap", "cancel"}
  /\ Start([c \in Contacts |-> IF scope = "cancel" /\ c # 1 THEN "cancelled" ELSE "queued"])

\* What is left out in each scope.
Within ==
  /\ scope = "serial" =>
       /\ SerialStep /\ presses' <= 2 /\ retries' + faults' + Cardinality(blocked') <= 1
       /\ cstat' \in {"tested", "dispatched"}
  /\ scope = "overlap" =>
       /\ cstat' = "tested" /\ blocked' = {}
       /\ presses' + faults' <= 3
       /\ \A h \in Handlers : pc'[h] # "idle" => button'[h] \in {"relaunch", "finish"}
  /\ scope = "cancel" =>
       /\ presses' + faults' <= 3 /\ blocked' = {}
       /\ cstat' = "paused" => presses' <= 1

PressesNext == Next /\ Within /\ UNCHANGED scope

PressesSpec == PressesInit /\ [][PressesNext]_<<vars, scope>>

\* InterruptedSendFound, which is about one request at a time and no retry.
InterruptedSendFoundAlone == scope = "serial" /\ retries = 0 => InterruptedSendFound
=============================================================================
