--------------------------- MODULE UsageAccountsMC ---------------------------
(* UsageFiles, SignIns and AccountHomes for TLC: they share no state, so    *)
(* each is explored while the others stay at their start.                   *)
EXTENDS UsageFiles, SignIns, AccountHomes, TLC

VARIABLE part  \* the component explored

Init == /\ UsageInit /\ SignInsInit /\ HomesInit /\ part \in {"usage", "sign-ins", "homes"}
        /\ part # "sign-ins" => again = {} /\ enrolled

Next == /\ part' = part
        /\ \/ part = "usage" /\ UsageNext /\ UNCHANGED <<signVars, homesVars>>
           \/ part = "sign-ins" /\ SignInsNext /\ UNCHANGED <<usageVars, homesVars>>
           \/ part = "homes" /\ HomesNext /\ UNCHANGED <<usageVars, signVars>>

Spec == Init /\ [][Next]_<<part, usageVars, signVars, homesVars>>

TypeOK == /\ part = "usage" => UsageTypeOK
          /\ part = "sign-ins" => SignInsTypeOK
          /\ part = "homes" => HomesTypeOK

Symmetry == Permutations(File) \cup Permutations(HomeId)
==============================================================================
