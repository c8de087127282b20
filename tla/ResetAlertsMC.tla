---------------------------- MODULE ResetAlertsMC ----------------------------
(***************************************************************************)
(* ResetAlerts for TLC: at first either the notifications or an alert is   *)
(* on, so that a small bound on what the user does is enough; the user may *)
(* turn the other on.                                                      *)
(***************************************************************************)
EXTENDS ResetAlerts

MCInit == Init /\ (notify <=> \A a \in Account : alerts[a] = "off")

MCSpec == MCInit /\ [][Next]_vars /\ WF_vars(Loop) /\ WF_vars(Tick)
==============================================================================
