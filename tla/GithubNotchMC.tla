--------------------------- MODULE GithubNotchMC ---------------------------
(* GithubReads, GithubMonitor and NotchHost for TLC: they share no state, so*)
(* each is explored while the others stay at their start.                   *)
EXTENDS GithubReads, GithubMonitor, NotchHost, TLC

VARIABLE part  \* the component explored

Init == /\ ReadsInit /\ MonitorInit /\ NotchInit /\ part \in {"reads", "monitor", "notch"}
        /\ part # "notch" => config.enabled

Next == /\ part' = part
        /\ \/ part = "reads" /\ ReadsNext /\ UNCHANGED <<monitorVars, notchVars>>
           \/ part = "monitor" /\ MonitorNext /\ UNCHANGED <<readsVars, notchVars>>
           \/ part = "notch" /\ NotchNext /\ UNCHANGED <<readsVars, monitorVars>>

Spec == Init /\ [][Next]_<<part, readsVars, monitorVars, notchVars>>

TypeOK == ReadsTypeOK /\ MonitorTypeOK /\ NotchTypeOK

Symmetry == Permutations(Viewer)
==============================================================================
