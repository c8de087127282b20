---------------------------- MODULE NativeAccess ----------------------------
(***************************************************************************)
(* What accounts/activity.rs promises its callers of one provider's native *)
(* login, with no counter, flag, lease or instance in it: those who hold a *)
(* Read guard share it, and whoever holds a Change guard has it alone.     *)
(* AccountActivity implements this.                                        *)
(***************************************************************************)
CONSTANT Thread

VARIABLES readers,  \* the holders of a Read guard
          changers  \* the holders of a Change guard

access == <<readers, changers>>

Init == readers = {} /\ changers = {}

(* read gives a guard only while nobody changes the login.                  *)
StartRead(t) ==
  /\ changers = {}
  /\ readers' = readers \cup {t} /\ UNCHANGED changers

(* change gives one only while nobody uses it at all.                       *)
StartChange(t) ==
  /\ readers = {} /\ changers = {}
  /\ changers' = {t} /\ UNCHANGED readers

(* A guard is dropped, or an instance dies with all of its guards.          *)
Finish == readers' \in SUBSET readers /\ changers' \in SUBSET changers

Next == Finish \/ \E t \in Thread : StartRead(t) \/ StartChange(t)

Spec == Init /\ [][Next]_access
=============================================================================
