-------------------------- MODULE AccountActivity --------------------------
(***************************************************************************)
(* accounts/activity.rs for one provider: who may read the provider's      *)
(* native login and who may change it.  Inside one app instance a counter  *)
(* of reads and a "switching" flag decide; between instances a file lease  *)
(* does, shared for a read and exclusive for a change.  The two are taken  *)
(* and given back in separate steps, so the module keeps every point where *)
(* another thread or another instance can run in between.                  *)
(*                                                                         *)
(* A definition placed just before the one whose name it extends is that   *)
(* one with a mistake in it; nothing uses it.  It stands for the bug one of*)
(* the properties rules out: with it in place, that property fails.        *)
(***************************************************************************)
EXTENDS Naturals, FiniteSets

CONSTANTS App,      \* running instances of the desktop app
          Worker    \* threads of one instance that read or change accounts

ASSUME WorkerAssumption == IsFiniteSet(Worker)

Thread == App \X Worker

VARIABLES pc,         \* what each thread is doing with the guard
          count,      \* ACTIVITY: reads counted by each instance
          switching,  \* SWITCHING: the change flag of each instance
          shared,     \* threads whose file description holds the lease shared
          exclusive   \* threads whose file description holds it exclusively

vars == <<pc, count, switching, shared, exclusive>>

\* "counted"/"flagged" have passed the in-process test and hold no lease yet;
\* "uncounted"/"unflagged" have run the guard's Drop and still hold the lease.
Stage == {"idle", "counted", "reading", "uncounted",
          "flagged", "changing", "unflagged"}

TypeOK == /\ pc \in [Thread -> Stage]
          /\ count \in [App -> Nat]
          /\ switching \in [App -> BOOLEAN]
          /\ shared \subseteq Thread
          /\ exclusive \subseteq Thread

Init == /\ pc = [t \in Thread |-> "idle"]
        /\ count = [a \in App |-> 0]
        /\ switching = [a \in App |-> FALSE]
        /\ shared = {}
        /\ exclusive = {}

-----------------------------------------------------------------------------
(* The lease: an OS file lock owned by the open file, so two descriptions   *)
(* of one process conflict exactly as two processes do.                     *)
SharedFree    == exclusive = {}
ExclusiveFree == exclusive = {} /\ shared = {}

(* read: under the ACTIVITY mutex, refuse while this instance switches and  *)
(* count the read otherwise.                                                *)
CountRead(t) ==
  /\ pc[t] = "idle"
  /\ ~switching[t[1]]
  /\ count' = [count EXCEPT ![t[1]] = @ + 1]
  /\ pc' = [pc EXCEPT ![t] = "counted"]
  /\ UNCHANGED <<switching, shared, exclusive>>

LeaseRead(t) ==
  /\ pc[t] = "counted"
  /\ SharedFree
  /\ shared' = shared \cup {t}
  /\ pc' = [pc EXCEPT ![t] = "reading"]
  /\ UNCHANGED <<count, switching, exclusive>>

(* The lease is refused: the half-built guard is dropped, which counts the  *)
(* read back.                                                               *)
RefuseReadCounted(t) ==
  /\ pc[t] = "counted"
  /\ ~SharedFree
  /\ pc' = [pc EXCEPT ![t] = "idle"]
  /\ UNCHANGED <<count, switching, shared, exclusive>>

RefuseRead(t) ==
  /\ pc[t] = "counted"
  /\ ~SharedFree
  /\ count' = [count EXCEPT ![t[1]] = @ - 1]
  /\ pc' = [pc EXCEPT ![t] = "idle"]
  /\ UNCHANGED <<switching, shared, exclusive>>

(* Drop for Read counts the read back first; its lease field goes after.    *)
DropRead(t) ==
  /\ pc[t] = "reading"
  /\ count' = [count EXCEPT ![t[1]] = @ - 1]
  /\ pc' = [pc EXCEPT ![t] = "uncounted"]
  /\ UNCHANGED <<switching, shared, exclusive>>

UnleaseReadRecount(t) ==
  /\ pc[t] = "uncounted"
  /\ count' = [count EXCEPT ![t[1]] = @ - 1]
  /\ shared' = shared \ {t}
  /\ pc' = [pc EXCEPT ![t] = "idle"]
  /\ UNCHANGED <<switching, exclusive>>

UnleaseRead(t) ==
  /\ pc[t] = "uncounted"
  /\ shared' = shared \ {t}
  /\ pc' = [pc EXCEPT ![t] = "idle"]
  /\ UNCHANGED <<count, switching, exclusive>>

-----------------------------------------------------------------------------
(* change: under the ACTIVITY mutex, refuse while a read is counted or a    *)
(* change runs, and raise the flag otherwise.                               *)
FlagChangeUncounted(t) ==
  /\ pc[t] = "idle"
  /\ ~switching[t[1]]
  /\ switching' = [switching EXCEPT ![t[1]] = TRUE]
  /\ pc' = [pc EXCEPT ![t] = "flagged"]
  /\ UNCHANGED <<count, shared, exclusive>>

FlagChange(t) ==
  /\ pc[t] = "idle"
  /\ count[t[1]] = 0
  /\ ~switching[t[1]]
  /\ switching' = [switching EXCEPT ![t[1]] = TRUE]
  /\ pc' = [pc EXCEPT ![t] = "flagged"]
  /\ UNCHANGED <<count, shared, exclusive>>

LeaseChangeShared(t) ==
  /\ pc[t] = "flagged"
  /\ SharedFree
  /\ exclusive' = exclusive \cup {t}
  /\ pc' = [pc EXCEPT ![t] = "changing"]
  /\ UNCHANGED <<count, switching, shared>>

LeaseChange(t) ==
  /\ pc[t] = "flagged"
  /\ ExclusiveFree
  /\ exclusive' = exclusive \cup {t}
  /\ pc' = [pc EXCEPT ![t] = "changing"]
  /\ UNCHANGED <<count, switching, shared>>

(* The lease is refused: dropping the half-built guard lowers the flag.     *)
RefuseChangeFlagged(t) ==
  /\ pc[t] = "flagged"
  /\ ~ExclusiveFree
  /\ pc' = [pc EXCEPT ![t] = "idle"]
  /\ UNCHANGED <<count, switching, shared, exclusive>>

RefuseChange(t) ==
  /\ pc[t] = "flagged"
  /\ ~ExclusiveFree
  /\ switching' = [switching EXCEPT ![t[1]] = FALSE]
  /\ pc' = [pc EXCEPT ![t] = "idle"]
  /\ UNCHANGED <<count, shared, exclusive>>

(* Drop for Change lowers the flag first; its lease field goes after.       *)
DropChange(t) ==
  /\ pc[t] = "changing"
  /\ switching' = [switching EXCEPT ![t[1]] = FALSE]
  /\ pc' = [pc EXCEPT ![t] = "unflagged"]
  /\ UNCHANGED <<count, shared, exclusive>>

UnleaseChange(t) ==
  /\ pc[t] = "unflagged"
  /\ exclusive' = exclusive \ {t}
  /\ pc' = [pc EXCEPT ![t] = "idle"]
  /\ UNCHANGED <<count, switching, shared>>

-----------------------------------------------------------------------------
(* An instance dies and is started again: its statics start from zero and   *)
(* the OS gives back every lock its descriptors held.                       *)
Crash(a) ==
  /\ pc' = [t \in Thread |-> IF t[1] = a THEN "idle" ELSE pc[t]]
  /\ count' = [count EXCEPT ![a] = 0]
  /\ switching' = [switching EXCEPT ![a] = FALSE]
  /\ shared' = {t \in shared : t[1] # a}
  /\ exclusive' = {t \in exclusive : t[1] # a}

(* What follows once the guard was asked for; starting is the user's or the *)
(* timer's choice, finishing is not.                                        *)
Continue(t) == \/ LeaseRead(t) \/ RefuseRead(t) \/ DropRead(t) \/ UnleaseRead(t)
               \/ LeaseChange(t) \/ RefuseChange(t) \/ DropChange(t)
               \/ UnleaseChange(t)

Next == \/ \E t \in Thread : CountRead(t) \/ FlagChange(t) \/ Continue(t)
        \/ \E a \in App : Crash(a)

Spec == Init /\ [][Next]_vars

(* Every guard is a local of a function that returns, so each thread that   *)
(* has one goes on; nothing is assumed of when a read or a change starts.   *)
Fairness == \A t \in Thread : WF_vars(Continue(t))

FairSpec == Spec /\ Fairness

-----------------------------------------------------------------------------
Reads(a)   == {w \in Worker : pc[<<a, w>>] \in {"counted", "reading"}}
Changes(a) == {w \in Worker : pc[<<a, w>>] \in {"flagged", "changing"}}

(* What is promised, with a guard held from when it is given to its caller  *)
(* until its drop begins.                                                   *)
Access == INSTANCE NativeAccess
            WITH readers  <- {t \in Thread : pc[t] = "reading"},
                 changers <- {t \in Thread : pc[t] = "changing"}

(* Every instance and thread together, with refusals, drops in two steps and*)
(* crashes, keep that promise: no guard is given while one it excludes is   *)
(* held anywhere.                                                           *)
PromiseKept == Access!Spec

(* The counter is exactly the reads this instance has open and the flag is  *)
(* up exactly while one of its threads has a change, through every refusal  *)
(* and every drop: a read left counted, or a flag left up, would refuse the *)
(* account changes that follow until the app is restarted.                  *)
GuardsExact ==
  \A a \in App : /\ count[a] = Cardinality(Reads(a))
                 /\ switching[a] <=> Changes(a) # {}
                 /\ \A v, w \in Changes(a) : v = w

(* In one instance the flag and the counter alone already keep a change     *)
(* apart from reads, whatever the file lease does (a home on a file system  *)
(* without locks, the test build).                                          *)
InProcessExclusion ==
  \A a \in App : Changes(a) # {} => Reads(a) = {}

(* A change that was refused or has finished frees its instance: an         *)
(* instance never stays switching.                                          *)
SwitchingEnds == \A a \in App : switching[a] ~> ~switching[a]
=============================================================================
