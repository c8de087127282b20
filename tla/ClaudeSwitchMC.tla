---------------------------- MODULE ClaudeSwitchMC ----------------------------
(* AccountSwitch and the locks a change of Claude's login takes, for TLC:   *)
(* they share no state here, so each is explored while the other stays at   *)
(* its start.                                                               *)
EXTENDS AccountSwitchMC, ClaudeLocks

VARIABLE part  \* the component explored

ClaudeInit == /\ Init /\ LocksInit /\ part \in {"switch", "locks"}
              /\ part # "switch" => tok = NoToken
              /\ part # "locks" => stores.key = Missing

ClaudeNext == /\ part' = part
              /\ \/ part = "switch" /\ Next /\ UNCHANGED lockVars
                 \/ part = "locks" /\ LocksNext /\ UNCHANGED vars

ClaudeSpec == ClaudeInit /\ [][ClaudeNext]_<<part, vars, lockVars>>

ClaudeSymmetry == Symmetry \cup Permutations(Writer)
===============================================================================
