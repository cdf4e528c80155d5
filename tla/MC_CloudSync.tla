---------------------------- MODULE MC_CloudSync ----------------------------
(***************************************************************************)
(* CloudSync on a small instance.                                          *)
(***************************************************************************)
EXTENDS CloudSync, TLC

\* The devices are alike.
AnyDevice == Permutations(Devices)

\* exposed only grows: where it has every edit, nothing is claimed any more.
Claimed == (1..MaxEdits) \ exposed # {}
=============================================================================
