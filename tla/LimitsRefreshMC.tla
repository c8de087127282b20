--------------------------- MODULE LimitsRefreshMC ---------------------------
(***************************************************************************)
(* LimitsRefresh for TLC.  Nothing tells two accounts apart but what was   *)
(* done with them, so they are checked up to renaming.                     *)
(***************************************************************************)
EXTENDS LimitsRefresh, TLC

Renaming == Permutations(Account)
==============================================================================
