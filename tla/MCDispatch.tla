----------------------------- MODULE MCDispatch -----------------------------
(***************************************************************************)
(* Dispatch on small instances: each MCDispatch_*.cfg gives the constants  *)
(* of one run.  Workers are interchangeable: no definition of Dispatch     *)
(* orders them or singles one out.  The liveness run uses no symmetry.     *)
(***************************************************************************)
EXTENDS DispatchInvariant, TLC

WorkerSymmetry == Permutations(Workers)
=============================================================================
