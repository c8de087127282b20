------------------------- MODULE ActivitySessionMC -------------------------
(* AccountActivity, JsonLineSession and PrivateRenewal for TLC: they share  *)
(* no state here, so each is explored while the others stay at their start, *)
(* where fairness asks them for nothing.  Only a session that is done stops.*)
EXTENDS AccountActivity, JsonLineSession, PrivateRenewal

VARIABLE part  \* the component explored

allVars == <<vars, sessionVars, renewalVars>>

MCInit == /\ Init /\ SessionInit /\ RenewalInit
          /\ part \in {"activity", "session", "renewal"}
          /\ part # "renewal" => profile.owned

MCNext ==
  /\ part' = part
  /\ \/ part = "activity" /\ Next /\ UNCHANGED <<sessionVars, renewalVars>>
     \/ part = "session" /\ SessionNext /\ UNCHANGED <<vars, renewalVars>>
     \/ part = "session" /\ caller = "done" /\ UNCHANGED allVars
     \/ part = "renewal" /\ RenewalNext /\ UNCHANGED <<vars, sessionVars>>

MCFairness ==
  /\ Fairness /\ SessionFairness
  /\ \A a \in Instance : /\ WF_renewalVars(part = "renewal" /\ Poll(a))
                         /\ WF_renewalVars(part = "renewal" /\ ContinuePoll(a))

MCSpec == MCInit /\ [][MCNext]_<<part, allVars>> /\ MCFairness
=============================================================================
