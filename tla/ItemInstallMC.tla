---------------------------- MODULE ItemInstallMC ----------------------------
(* ItemInstall for TLC: all places have the same file name, as a skill of   *)
(* one name has in the scopes of a provider.                                *)
EXTENDS ItemInstall

SameName == [p \in Place |-> "item"]
=============================================================================
