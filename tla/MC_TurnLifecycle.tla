-------------------------- MODULE MC_TurnLifecycle --------------------------
(***************************************************************************)
(* TurnLifecycle on a small instance.  The messages are alike, and no      *)
(* liveness is checked, so their permutations are a symmetry.              *)
(***************************************************************************)
EXTENDS TurnLifecycle, TLC

AnyMessage == Permutations(Msgs)

\* Bound: with a rerun, one switch to another chat instead of two.
SwitchesOrRerun == spent.nav + spent.rerun <= 2
=============================================================================
