---------------------------- MODULE AccountFilesMC ----------------------------
(* AccountSwitch, ConfigChange and ItemInstall for TLC: they share no state *)
(* here, so each is explored while the others stay at their start.          *)
EXTENDS AccountSwitchMC, ConfigChange, ItemInstallMC

VARIABLE part  \* the component explored

FilesInit == /\ Init /\ ConfigInit /\ ItemInit
             /\ part \in {"switch", "config", "items"}
             /\ part # "switch" => tok = NoToken
             /\ part # "config" => file = Absent
             /\ part # "items" => wrote = {}

FilesNext ==
  /\ part' = part
  /\ \/ part = "switch" /\ Next /\ UNCHANGED <<configVars, itemVars>>
     \/ part = "config" /\ ConfigNext /\ UNCHANGED <<vars, itemVars>>
     \/ part = "items" /\ ItemNext /\ UNCHANGED <<vars, configVars>>

FilesSpec == FilesInit /\ [][FilesNext]_<<part, vars, configVars, itemVars>>

FilesSymmetry == UNION {Permutations(Account), Permutations(Worker), Permutations(Place)}
===============================================================================
