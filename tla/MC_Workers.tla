----------------------------- MODULE MC_Workers -----------------------------
(***************************************************************************)
(* Workers on a small instance.                                            *)
(***************************************************************************)
EXTENDS Workers, TLC

\* The workers are alike.
AnyWorker == Permutations(Ids)
=============================================================================
