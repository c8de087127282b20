-------------------------- MODULE AccountSwitchMC --------------------------
(* AccountSwitch on two accounts in two workspaces, of two users or of one.  *)
EXTENDS AccountSwitch, TLC

OwnWorkspace == [a \in Account |-> a]
OwnUser      == [a \in Account |-> a]
OneUser      == [a \in Account |-> 0]
Symmetry     == Permutations(Account)
=============================================================================
