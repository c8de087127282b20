----------------------- MODULE ActivitySessionProofs -----------------------
(***************************************************************************)
(* Proofs about AccountActivity, for any number of instances and any finite*)
(* number of threads, about JsonLineSession, for any number of requests and*)
(* lines and any room in the queue and the pipe, and about PrivateRenewal, *)
(* for any number of instances, refresh tokens and faults.                 *)
(*                                                                         *)
(* Exclusion is not inductive: that a thread which changes is alone needs  *)
(* the exact holders of the lease, and that the counter stays a natural    *)
(* number needs the exact number of open reads, so the invariant proved is *)
(* the conjunction of the three.                                           *)
(*                                                                         *)
(* Nor is it inductive that a request found the CLI closed only if it was  *)
(* never answered: while a request waits, an answer the CLI gave must be   *)
(* somewhere on its way, in the pipe, in the reading thread's hand or in   *)
(* the queue; and that thread ends before the caller stops listening only  *)
(* once the CLI is gone and its pipe is empty.                             *)
(*                                                                         *)
(* That a token is spent once rests on the journal naming the login the    *)
(* vault holds whenever that login is spent.  Only the instance with the   *)
(* renewal lease writes the journal, so what has to be followed is what    *)
(* the vault may hold while it works: the login it renews, or one that was *)
(* never asked with.                                                       *)
(***************************************************************************)
EXTENDS AccountActivity, JsonLineSession, PrivateRenewal, FiniteSetTheorems, TLAPS

(* The lease is held by exactly the threads between taking it and giving it *)
(* back, by one of them alone when it is held exclusively.                  *)
LeaseExact ==
  /\ shared = {t \in Thread : pc[t] \in {"reading", "uncounted"}}
  /\ exclusive = {t \in Thread : pc[t] \in {"changing", "unflagged"}}
  /\ exclusive # {} => shared = {}
  /\ \A t, u \in exclusive : t = u

(* While one thread changes the provider's login, no thread of any instance *)
(* reads it and no other one changes it: the reason a switch may move the   *)
(* native login without the Limits reads, the saved accounts' homes or a    *)
(* second instance seeing it half done.                                     *)
Exclusion ==
  \A t, u \in Thread :
    pc[t] = "changing" /\ u # t => pc[u] \notin {"reading", "changing"}

ActivityInv == TypeOK /\ LeaseExact /\ GuardsExact

ReadStages   == {"counted", "reading"}
ChangeStages == {"flagged", "changing"}

(* A thread of an instance is a pair, so naming the pair names the thread.  *)
LEMMA ThreadPair ==
  ASSUME NEW t \in Thread
  PROVE  t[1] \in App /\ t[2] \in Worker /\ t = <<t[1], t[2]>>
BY DEF Thread

(* The open reads and changes of an instance are finitely many.             *)
LEMMA GuardsFinite ==
  ASSUME NEW a \in App
  PROVE  /\ IsFiniteSet(Reads(a)) /\ IsFiniteSet(Changes(a))
         /\ Cardinality(Reads(a)) \in Nat
<1>1. Reads(a) \in SUBSET Worker /\ Changes(a) \in SUBSET Worker
  BY DEF Reads, Changes
<1>2. IsFiniteSet(Reads(a)) /\ IsFiniteSet(Changes(a))
  BY <1>1, FS_Subset, WorkerAssumption
<1>3. QED BY <1>2, FS_CardinalityType

(* When one thread moves to another stage, the open reads and changes of    *)
(* its instance gain or lose that thread, and no other instance's change.   *)
LEMMA StageChange ==
  ASSUME TypeOK, NEW t \in Thread, NEW s \in Stage, pc' = [pc EXCEPT ![t] = s],
         NEW a \in App
  PROVE  /\ Reads(a)' = IF a # t[1] THEN Reads(a)
                        ELSE IF s \in ReadStages THEN Reads(a) \cup {t[2]}
                        ELSE Reads(a) \ {t[2]}
         /\ Changes(a)' = IF a # t[1] THEN Changes(a)
                          ELSE IF s \in ChangeStages THEN Changes(a) \cup {t[2]}
                          ELSE Changes(a) \ {t[2]}
         /\ t[2] \in Reads(t[1]) <=> pc[t] \in ReadStages
         /\ t[2] \in Changes(t[1]) <=> pc[t] \in ChangeStages
<1>1. t[1] \in App /\ t[2] \in Worker /\ t = <<t[1], t[2]>>
  BY ThreadPair
<1>2. \A w \in Worker : <<a, w>> \in Thread /\ (<<a, w>> = t <=> a = t[1] /\ w = t[2])
  BY <1>1 DEF Thread
<1>3. \A w \in Worker : pc'[<<a, w>>] = IF a = t[1] /\ w = t[2] THEN s ELSE pc[<<a, w>>]
  BY <1>2 DEF TypeOK
<1>4. QED BY <1>1, <1>3 DEF Reads, Changes, ReadStages, ChangeStages

LEMMA InitInductive == Init => ActivityInv
<1> SUFFICES ASSUME Init PROVE ActivityInv
  OBVIOUS
<1>1. TypeOK
  BY DEF Init, TypeOK, Stage
<1>2. LeaseExact
  BY DEF Init, LeaseExact
<1>3. \A a \in App : Reads(a) = {} /\ Changes(a) = {}
  BY DEF Init, Reads, Changes, Thread
<1>4. GuardsExact
  BY <1>3, FS_EmptySet DEF Init, GuardsExact
<1>5. QED BY <1>1, <1>2, <1>4 DEF ActivityInv

(* The threads and the lease: every stage a thread moves to keeps the two   *)
(* in step, because taking and giving back the lease are the only steps     *)
(* that move a thread into or out of the stages that hold it.               *)
LEMMA LeaseStep ==
  ASSUME ActivityInv, NEW t \in Thread, CountRead(t) \/ FlagChange(t) \/ Continue(t)
  PROVE  /\ pc' \in [Thread -> Stage]
         /\ switching' \in [App -> BOOLEAN]
         /\ shared' \subseteq Thread
         /\ exclusive' \subseteq Thread
         /\ LeaseExact'
<1> USE DEF ActivityInv, TypeOK, LeaseExact, Stage
<1>0. t[1] \in App
  BY ThreadPair
<1>1. CASE CountRead(t)      BY <1>0, <1>1 DEF CountRead
<1>2. CASE LeaseRead(t)      BY <1>2 DEF LeaseRead, SharedFree
<1>3. CASE RefuseRead(t)     BY <1>3 DEF RefuseRead
<1>4. CASE DropRead(t)       BY <1>4 DEF DropRead
<1>5. CASE UnleaseRead(t)    BY <1>5 DEF UnleaseRead
<1>6. CASE FlagChange(t)     BY <1>0, <1>6 DEF FlagChange
<1>7. CASE LeaseChange(t)    BY <1>7 DEF LeaseChange, ExclusiveFree
<1>8. CASE RefuseChange(t)   BY <1>0, <1>8 DEF RefuseChange
<1>9. CASE DropChange(t)     BY <1>0, <1>9 DEF DropChange
<1>10. CASE UnleaseChange(t) BY <1>10 DEF UnleaseChange
<1>11. QED
  BY <1>1, <1>2, <1>3, <1>4, <1>5, <1>6, <1>7, <1>8, <1>9, <1>10 DEF Continue

(* The counter and the flag of an instance stay exact when they follow the  *)
(* one thread that moves: the counter with the reads it opens or closes,    *)
(* the flag with the change it opens, alone, or closes.                     *)
LEMMA GuardMove ==
  ASSUME ActivityInv, NEW t \in Thread, NEW s \in Stage, pc' = [pc EXCEPT ![t] = s],
         count' = [count EXCEPT ![t[1]] =
                     IF s \in ReadStages /\ pc[t] \notin ReadStages THEN @ + 1
                     ELSE IF s \notin ReadStages /\ pc[t] \in ReadStages THEN @ - 1
                     ELSE @],
         switching' = [switching EXCEPT ![t[1]] =
                         IF s \in ChangeStages THEN TRUE
                         ELSE IF pc[t] \in ChangeStages THEN FALSE ELSE @],
         s \in ChangeStages /\ pc[t] \notin ChangeStages => Changes(t[1]) = {}
  PROVE  count' \in [App -> Nat] /\ GuardsExact'
<1>0. TypeOK /\ t[1] \in App /\ t[2] \in Worker
  BY ThreadPair DEF ActivityInv
<1>1. ASSUME NEW a \in App, a # t[1]
      PROVE  /\ count'[a] \in Nat /\ count'[a] = Cardinality(Reads(a)')
             /\ switching'[a] <=> Changes(a)' # {}
             /\ \A v, w \in Changes(a)' : v = w
  <2>1. Reads(a)' = Reads(a) /\ Changes(a)' = Changes(a)
    BY <1>0, <1>1, StageChange
  <2>2. count'[a] = count[a] /\ switching'[a] = switching[a]
    BY <1>0, <1>1 DEF TypeOK
  <2>3. /\ count[a] \in Nat /\ count[a] = Cardinality(Reads(a))
        /\ switching[a] <=> Changes(a) # {}
        /\ \A v, w \in Changes(a) : v = w
    BY <1>0 DEF ActivityInv, TypeOK, GuardsExact
  <2>4. QED BY <2>1, <2>2, <2>3, Zenon
<1> DEFINE a == t[1]
<1>2. /\ Reads(a)' = IF s \in ReadStages THEN Reads(a) \cup {t[2]} ELSE Reads(a) \ {t[2]}
      /\ Changes(a)' = IF s \in ChangeStages THEN Changes(a) \cup {t[2]}
                       ELSE Changes(a) \ {t[2]}
      /\ t[2] \in Reads(a) <=> pc[t] \in ReadStages
      /\ t[2] \in Changes(a) <=> pc[t] \in ChangeStages
  BY <1>0, StageChange
<1>3. /\ count[a] = Cardinality(Reads(a)) /\ count[a] \in Nat
      /\ switching[a] <=> Changes(a) # {}
      /\ \A v, w \in Changes(a) : v = w
  BY <1>0 DEF ActivityInv, TypeOK, GuardsExact
<1>4. count'[a] \in Nat /\ count'[a] = Cardinality(Reads(a)')
  <2>1. IsFiniteSet(Reads(a))
    BY <1>0, GuardsFinite
  <2>2. count'[a] = IF s \in ReadStages /\ pc[t] \notin ReadStages THEN count[a] + 1
                    ELSE IF s \notin ReadStages /\ pc[t] \in ReadStages THEN count[a] - 1
                    ELSE count[a]
    BY <1>0 DEF TypeOK
  <2>3. Cardinality(Reads(a) \cup {t[2]}) =
          IF t[2] \in Reads(a) THEN Cardinality(Reads(a)) ELSE Cardinality(Reads(a)) + 1
    BY <2>1, FS_AddElement
  <2>4. Cardinality(Reads(a) \ {t[2]}) =
          IF t[2] \in Reads(a) THEN Cardinality(Reads(a)) - 1 ELSE Cardinality(Reads(a))
    BY <2>1, FS_RemoveElement
  <2>5. t[2] \in Reads(a) => Cardinality(Reads(a)) # 0
    BY <2>1, FS_EmptySet
  <2>6. QED BY <1>2, <1>3, <2>2, <2>3, <2>4, <2>5
<1>5. switching'[a] <=> Changes(a)' # {}
  <2>1. switching'[a] = IF s \in ChangeStages THEN TRUE
                        ELSE IF pc[t] \in ChangeStages THEN FALSE ELSE switching[a]
    BY <1>0 DEF TypeOK
  <2>2. CASE s \in ChangeStages
    BY <2>1, <2>2, <1>2
  <2>3. CASE s \notin ChangeStages /\ pc[t] \in ChangeStages
    BY <2>1, <2>3, <1>2, <1>3
  <2>4. CASE s \notin ChangeStages /\ pc[t] \notin ChangeStages
    BY <2>1, <2>4, <1>2, <1>3
  <2>5. QED BY <2>2, <2>3, <2>4
<1>6. \A v, w \in Changes(a)' : v = w
  BY <1>2, <1>3
<1>7. \A c \in App : count'[c] \in Nat
  BY <1>1, <1>4
<1>8. count' \in [App -> Nat]
  BY <1>7, <1>0 DEF TypeOK
<1>9. GuardsExact'
  BY <1>1, <1>4, <1>5, <1>6 DEF GuardsExact
<1>10. QED BY <1>8, <1>9

LEMMA GuardsStep ==
  ASSUME ActivityInv, NEW t \in Thread, CountRead(t) \/ FlagChange(t) \/ Continue(t)
  PROVE  count' \in [App -> Nat] /\ GuardsExact'
<1>0. t[1] \in App /\ count \in [App -> Nat] /\ switching \in [App -> BOOLEAN]
  BY ThreadPair DEF ActivityInv, TypeOK
<1>1. ~switching[t[1]] => Changes(t[1]) = {}
  BY <1>0 DEF ActivityInv, GuardsExact
<1>2. pc[t] \in ChangeStages => switching[t[1]] = TRUE
  <2>1. pc[t] \in ChangeStages => t[2] \in Changes(t[1])
    BY ThreadPair DEF Changes, ChangeStages
  <2>2. QED BY <2>1, <1>0 DEF ActivityInv, GuardsExact
<1> USE DEF Stage, ReadStages, ChangeStages
<1>3. CASE CountRead(t)
  BY <1>3, <1>0, <1>1, GuardMove DEF CountRead
<1>4. CASE LeaseRead(t)
  BY <1>4, <1>0, GuardMove DEF LeaseRead
<1>5. CASE RefuseRead(t)
  BY <1>5, <1>0, GuardMove DEF RefuseRead
<1>6. CASE DropRead(t)
  BY <1>6, <1>0, GuardMove DEF DropRead
<1>7. CASE UnleaseRead(t)
  BY <1>7, <1>0, GuardMove DEF UnleaseRead
<1>8. CASE FlagChange(t)
  BY <1>8, <1>0, <1>1, GuardMove DEF FlagChange
<1>9. CASE LeaseChange(t)
  <2>1. /\ pc[t] \in ChangeStages /\ pc[t] \notin ReadStages
        /\ pc' = [pc EXCEPT ![t] = "changing"]
        /\ count' = count /\ switching' = switching
    BY <1>9 DEF LeaseChange
  <2>2. switching' = [switching EXCEPT ![t[1]] = TRUE]
    BY <2>1, <1>0, <1>2
  <2>3. QED BY <2>1, <2>2, <1>0, GuardMove
<1>10. CASE RefuseChange(t)
  BY <1>10, <1>0, GuardMove DEF RefuseChange
<1>11. CASE DropChange(t)
  BY <1>11, <1>0, GuardMove DEF DropChange
<1>12. CASE UnleaseChange(t)
  BY <1>12, <1>0, GuardMove DEF UnleaseChange
<1>13. QED
  BY <1>3, <1>4, <1>5, <1>6, <1>7, <1>8, <1>9, <1>10, <1>11, <1>12 DEF Continue

(* A crash empties the instance's guards and gives back its leases, and     *)
(* leaves every other instance as it was.                                   *)
LEMMA CrashStep ==
  ASSUME ActivityInv, NEW c \in App, Crash(c)
  PROVE  ActivityInv'
<1>1. TypeOK'
  BY DEF ActivityInv, TypeOK, Stage, Crash
<1>2. LeaseExact'
  BY DEF ActivityInv, TypeOK, LeaseExact, Crash
<1>3. \A a \in App : /\ Reads(a)' = IF a = c THEN {} ELSE Reads(a)
                     /\ Changes(a)' = IF a = c THEN {} ELSE Changes(a)
  BY DEF Crash, Reads, Changes, Thread
<1>4. GuardsExact'
  <2> SUFFICES ASSUME NEW a \in App
               PROVE  /\ count'[a] = Cardinality(Reads(a)')
                      /\ switching'[a] <=> Changes(a)' # {}
                      /\ \A v, w \in Changes(a)' : v = w
    BY DEF GuardsExact
  <2>1. CASE a = c
    <3>1. Reads(a)' = {} /\ Changes(a)' = {}
      BY <1>3, <2>1
    <3>2. count'[a] = 0 /\ switching'[a] = FALSE
      BY <2>1 DEF ActivityInv, TypeOK, Crash
    <3>3. QED BY <3>1, <3>2, FS_EmptySet
  <2>2. CASE a # c
    <3>1. Reads(a)' = Reads(a) /\ Changes(a)' = Changes(a)
      BY <1>3, <2>2
    <3>2. count'[a] = count[a] /\ switching'[a] = switching[a]
      BY <2>2 DEF ActivityInv, TypeOK, Crash
    <3>3. /\ count[a] = Cardinality(Reads(a))
          /\ switching[a] <=> Changes(a) # {}
          /\ \A v, w \in Changes(a) : v = w
      BY DEF ActivityInv, GuardsExact
    <3>4. QED BY <3>1, <3>2, <3>3
  <2>3. QED BY <2>1, <2>2
<1>5. QED BY <1>1, <1>2, <1>4 DEF ActivityInv

LEMMA StepInductive == ActivityInv /\ [Next]_vars => ActivityInv'
<1> SUFFICES ASSUME ActivityInv, [Next]_vars PROVE ActivityInv'
  OBVIOUS
<1>1. ASSUME NEW t \in Thread, CountRead(t) \/ FlagChange(t) \/ Continue(t)
      PROVE  ActivityInv'
  BY <1>1, LeaseStep, GuardsStep DEF ActivityInv, TypeOK
<1>2. ASSUME NEW a \in App, Crash(a)
      PROVE  ActivityInv'
  BY <1>2, CrashStep
<1>3. CASE UNCHANGED vars
  BY <1>3 DEF ActivityInv, TypeOK, LeaseExact, GuardsExact, Reads, Changes, vars
<1>4. QED BY <1>1, <1>2, <1>3 DEF Next

(* The counter, the flag and the lease always agree with what the threads   *)
(* of every instance are doing.                                             *)
THEOREM Inductive == Spec => []ActivityInv
<1>1. QED BY InitInductive, StepInductive, PTL DEF Spec

(* The counters stay counts and the leases stay held by threads that exist: *)
(* no drop of a guard takes a counter below zero.                           *)
THEOREM TypeCorrect == Spec => []TypeOK
<1>1. ActivityInv => TypeOK
  BY DEF ActivityInv
<1>2. QED BY <1>1, Inductive, PTL

(* No refusal, drop or crash leaves a read counted or a flag raised.        *)
THEOREM GuardsAreExact == Spec => []GuardsExact
<1>1. ActivityInv => GuardsExact
  BY DEF ActivityInv
<1>2. QED BY <1>1, Inductive, PTL

(* However many instances run, a change of the native login is alone.       *)
THEOREM ChangeIsAlone == Spec => []Exclusion
<1>1. ActivityInv => Exclusion
  <2> SUFFICES ASSUME ActivityInv, NEW t \in Thread, NEW u \in Thread,
                      pc[t] = "changing", u # t
               PROVE  pc[u] \notin {"reading", "changing"}
    BY DEF Exclusion
  <2>1. t \in exclusive /\ exclusive # {}
    BY DEF ActivityInv, LeaseExact
  <2>2. shared = {} /\ u \notin exclusive
    BY <2>1 DEF ActivityInv, LeaseExact
  <2>3. QED BY <2>2 DEF ActivityInv, LeaseExact
<1>2. QED BY <1>1, Inductive, PTL

(* Every step keeps the reads and the changes of one instance apart: a read *)
(* is counted only while no change is flagged, a change flagged only while  *)
(* no read is counted, and a crash ends both.                               *)
LEMMA ApartStep == ActivityInv /\ InProcessExclusion /\ [Next]_vars => InProcessExclusion'
<1> SUFFICES ASSUME ActivityInv, InProcessExclusion, [Next]_vars PROVE InProcessExclusion'
  OBVIOUS
<1>1. ASSUME NEW t \in Thread, CountRead(t) \/ FlagChange(t) \/ Continue(t)
      PROVE  InProcessExclusion'
  <2> USE DEF InProcessExclusion, ReadStages, ChangeStages, Stage
  <2>0. TypeOK /\ t[1] \in App
    BY ThreadPair DEF ActivityInv
  <2>c. \A a \in App : /\ count[a] = 0 => Reads(a) = {}
                       /\ ~switching[a] => Changes(a) = {}
    BY GuardsFinite, FS_EmptySet DEF ActivityInv, GuardsExact
  <2>s. \A s \in Stage : pc' = [pc EXCEPT ![t] = s] =>
          \A a \in App :
            /\ Reads(a)' = IF a # t[1] THEN Reads(a)
                           ELSE IF s \in ReadStages THEN Reads(a) \cup {t[2]}
                           ELSE Reads(a) \ {t[2]}
            /\ Changes(a)' = IF a # t[1] THEN Changes(a)
                             ELSE IF s \in ChangeStages THEN Changes(a) \cup {t[2]}
                             ELSE Changes(a) \ {t[2]}
            /\ t[2] \in Reads(t[1]) <=> pc[t] \in ReadStages
            /\ t[2] \in Changes(t[1]) <=> pc[t] \in ChangeStages
    BY <2>0, StageChange
  <2>1. CASE CountRead(t)     BY <2>1, <2>0, <2>c, <2>s DEF CountRead
  <2>2. CASE LeaseRead(t)     BY <2>2, <2>0, <2>s DEF LeaseRead
  <2>3. CASE RefuseRead(t)    BY <2>3, <2>0, <2>s DEF RefuseRead
  <2>4. CASE DropRead(t)      BY <2>4, <2>0, <2>s DEF DropRead
  <2>5. CASE UnleaseRead(t)   BY <2>5, <2>0, <2>s DEF UnleaseRead
  <2>6. CASE FlagChange(t)    BY <2>6, <2>0, <2>c, <2>s DEF FlagChange
  <2>7. CASE LeaseChange(t)   BY <2>7, <2>0, <2>s DEF LeaseChange
  <2>8. CASE RefuseChange(t)  BY <2>8, <2>0, <2>s DEF RefuseChange
  <2>9. CASE DropChange(t)    BY <2>9, <2>0, <2>s DEF DropChange
  <2>10. CASE UnleaseChange(t) BY <2>10, <2>0, <2>s DEF UnleaseChange
  <2>11. QED
    BY <1>1, <2>1, <2>2, <2>3, <2>4, <2>5, <2>6, <2>7, <2>8, <2>9, <2>10 DEF Continue
<1>2. ASSUME NEW c \in App, Crash(c)
      PROVE  InProcessExclusion'
  BY <1>2 DEF InProcessExclusion, Crash, Reads, Changes, Thread
<1>3. CASE UNCHANGED vars
  BY <1>3 DEF InProcessExclusion, Reads, Changes, vars
<1>4. QED BY <1>1, <1>2, <1>3 DEF Next

(* Inside one instance the counter and the flag keep reads and changes      *)
(* apart on their own, whatever the file lease does.  Not implied by        *)
(* GuardsExact: it needs the test and the mark to be one step.              *)
THEOREM GuardsKeepApart == Spec => []InProcessExclusion
<1>1. Init => InProcessExclusion
  BY DEF Init, InProcessExclusion, Reads, Changes, Thread
<1>2. QED BY <1>1, ApartStep, Inductive, PTL DEF Spec

(* Every behaviour of the guards is one of the promise: a guard starts only *)
(* when the lease it takes shows that nobody holds one it excludes.         *)
THEOREM PromiseIsKept == Spec => PromiseKept
<1> DEFINE readers == {t \in Thread : pc[t] = "reading"}
           changers == {t \in Thread : pc[t] = "changing"}
<1>1. Init => Access!Init
  BY DEF Init, Access!Init
<1>2. ActivityInv /\ [Next]_vars => [Access!Next]_(Access!access)
  <2> SUFFICES ASSUME ActivityInv, [Next]_vars PROVE [Access!Next]_(Access!access)
    OBVIOUS
  <2>0. /\ pc \in [Thread -> Stage]
        /\ readers \subseteq shared /\ changers \subseteq exclusive
    BY DEF ActivityInv, TypeOK, LeaseExact
  <2>1. CASE UNCHANGED vars
    BY <2>1 DEF vars, Access!access
  <2>2. ASSUME NEW t \in Thread, LeaseRead(t)
        PROVE  Access!StartRead(t)
    <3>1. changers = {}
      BY <2>0, <2>2 DEF LeaseRead, SharedFree
    <3>2. readers' = readers \cup {t} /\ changers' = changers
      BY <2>0, <2>2 DEF LeaseRead
    <3>3. QED BY <3>1, <3>2 DEF Access!StartRead
  <2>3. ASSUME NEW t \in Thread, LeaseChange(t)
        PROVE  Access!StartChange(t)
    <3>1. changers = {} /\ readers = {}
      BY <2>0, <2>3 DEF LeaseChange, ExclusiveFree
    <3>2. changers' = {t} /\ readers' = readers
      BY <2>0, <2>3, <3>1 DEF LeaseChange
    <3>3. QED BY <3>1, <3>2 DEF Access!StartChange
  <2>4. ASSUME NEW t \in Thread,
               \/ CountRead(t) \/ RefuseRead(t) \/ DropRead(t) \/ UnleaseRead(t)
               \/ FlagChange(t) \/ RefuseChange(t) \/ DropChange(t) \/ UnleaseChange(t)
        PROVE  Access!Finish
    <3>1. readers' \subseteq readers /\ changers' \subseteq changers
      BY <2>0, <2>4 DEF CountRead, RefuseRead, DropRead, UnleaseRead, FlagChange, RefuseChange,
                        DropChange, UnleaseChange
    <3>2. QED BY <3>1 DEF Access!Finish
  <2>5. ASSUME NEW a \in App, Crash(a)
        PROVE  Access!Finish
    <3>1. readers' \subseteq readers /\ changers' \subseteq changers
      BY <2>0, <2>5 DEF Crash
    <3>2. QED BY <3>1 DEF Access!Finish
  <2>6. QED BY <2>1, <2>2, <2>3, <2>4, <2>5 DEF Next, Continue, Access!Next
<1>3. QED BY <1>1, <1>2, Inductive, PTL DEF Spec, PromiseKept, Access!Spec

-----------------------------------------------------------------------------
(* Sessions.                                                                *)
Elements(s) == {s[i] : i \in 1..Len(s)}

InTransit == Elements(output) \cup Elements(queue)
               \cup (IF reader = "handing" THEN {inHand} ELSE {})

Listens == caller \notin {"exiting", "joining", "done"}

(* The requests the CLI may have read: all that were written.               *)
Written == {r \in Id : r < asked \/ (r = asked /\ caller \notin {"unstarted", "sending"})}

AnswersHeard == said \subseteq heard /\ heard \cup Elements(unread) \subseteq Written

OnItsWay == /\ InTransit \cap Id \subseteq said
            /\ caller \in {"receiving", "waiting"} /\ asked \in said => asked \in InTransit

EndsLast == /\ Listens => receiving
            /\ reader = "ended" /\ receiving => cli = "gone" /\ output = <<>>
            /\ cli # "gone" => Len(output) <= PipeLimit
            /\ caller = "unstarted" => cli = "none"
            /\ caller = "opening" => asked < Requests

ClosedIsGone == \A r \in Id : outcome[r] = "closed" => cli = "gone"

SessionInv == /\ SessionTypeOK /\ AnswersHeard /\ OnItsWay /\ EndsLast /\ ClosedIsGone
        /\ AnswersReachTheirRequest

-----------------------------------------------------------------------------
LEMMA AppendElements ==
  ASSUME NEW S, NEW s \in Seq(S), NEW x \in S
  PROVE  /\ Elements(Append(s, x)) = Elements(s) \cup {x}
         /\ Append(s, x) \in Seq(S) /\ Len(s) \in Nat /\ Len(Append(s, x)) = Len(s) + 1
<1> DEFINE t == Append(s, x)
<1>1. /\ Len(s) \in Nat /\ Len(t) = Len(s) + 1 /\ t[Len(s) + 1] = x /\ t \in Seq(S)
      /\ \A i \in 1..Len(s) : t[i] = s[i]
  OBVIOUS
<1>2. 1..Len(t) = (1..Len(s)) \cup {Len(s) + 1}
  BY <1>1
<1> HIDE DEF t
<1>3. Elements(t) = Elements(s) \cup {x}
  BY <1>1, <1>2 DEF Elements
<1>4. QED BY <1>1, <1>3 DEF t

LEMMA HeadAndTail ==
  ASSUME NEW S, NEW s \in Seq(S), s # <<>>
  PROVE  /\ Elements(s) = {Head(s)} \cup Elements(Tail(s)) /\ Head(s) \in S
         /\ Tail(s) \in Seq(S) /\ Len(s) \in Nat /\ Len(Tail(s)) = Len(s) - 1
<1> DEFINE t == Tail(s)
<1>1. /\ Len(s) \in Nat \ {0} /\ Len(t) = Len(s) - 1 /\ Head(s) = s[1]
      /\ t \in Seq(S) /\ Head(s) \in S /\ \A i \in 1..Len(t) : t[i] = s[i + 1]
  OBVIOUS
<1> HIDE DEF t
<1>2. \A i \in 2..Len(s) : i - 1 \in 1..Len(t) /\ t[i - 1] = s[i]
  BY <1>1
<1>3. Elements(t) \subseteq Elements(s)
  BY <1>1 DEF Elements
<1>4. \A i \in 1..Len(s) : i = 1 \/ i \in 2..Len(s)
  BY <1>1
<1>5. Elements(s) \subseteq {Head(s)} \cup Elements(t)
  <2> SUFFICES ASSUME NEW i \in 1..Len(s) PROVE s[i] \in {Head(s)} \cup Elements(t)
    BY DEF Elements
  <2>1. CASE i = 1
    BY <1>1, <2>1
  <2>2. CASE i \in 2..Len(s)
    BY <1>2, <2>2 DEF Elements
  <2>3. QED BY <1>4, <2>1, <2>2
<1>6. Head(s) \in Elements(s)
  BY <1>1 DEF Elements
<1>7. QED BY <1>1, <1>3, <1>5, <1>6 DEF t

LEMMA NoElements == Elements(<<>>) = {}
BY DEF Elements

LEMMA SessionInitInductive == SessionInit => SessionInv
<1> SUFFICES ASSUME SessionInit PROVE SessionInv
  OBVIOUS
<1> USE SessionAssumption DEF SessionInit
<1>0. /\ 1 \in Id /\ Other \in Line /\ 0 \in 0..MaxLines /\ 0 <= PipeLimit + 1 /\ 0 <= QueueLimit
      /\ \A S : <<>> \in Seq(S) /\ Len(<<>>) = 0
  BY DEF Line, Id
<1>1. SessionTypeOK
  BY <1>0 DEF SessionTypeOK
<1>2. AnswersHeard /\ OnItsWay
  BY NoElements DEF AnswersHeard, OnItsWay, InTransit, Id
<1>3. EndsLast /\ ClosedIsGone /\ AnswersReachTheirRequest
  BY DEF EndsLast, Listens, ClosedIsGone, AnswersReachTheirRequest, Id
<1>4. QED BY <1>1, <1>2, <1>3 DEF SessionInv

-----------------------------------------------------------------------------
(* Steps of the caller alone, in which nothing moves between the pipe, the  *)
(* reading thread and the queue.                                            *)
LEMMA StartKeeps == ASSUME SessionInv, Start PROVE SessionInv'
<1> USE DEF SessionInv, Start, Goto, readerVars
<1>1. SessionTypeOK'
  BY DEF SessionTypeOK
<1>2. AnswersHeard'
  BY DEF AnswersHeard, Written
<1>3. OnItsWay' /\ EndsLast'
  BY DEF OnItsWay, InTransit, EndsLast, Listens, SessionTypeOK
<1>4. ClosedIsGone' /\ AnswersReachTheirRequest'
  BY DEF ClosedIsGone, AnswersReachTheirRequest, EndsLast
<1>5. QED BY <1>1, <1>2, <1>3, <1>4

LEMMA SendKeeps == ASSUME SessionInv, Send PROVE SessionInv'
<1> USE DEF SessionInv, Send, Goto, readerVars
<1>1. SessionTypeOK'
  BY DEF SessionTypeOK
<1>2. Elements(unread') = Elements(unread) \cup {asked}
  BY AppendElements DEF SessionTypeOK
<1>3. AnswersHeard'
  BY <1>2 DEF AnswersHeard, Written, SessionTypeOK
<1>4. asked \notin said
  BY SessionAssumption DEF AnswersHeard, Written, SessionTypeOK, Id
<1>5. OnItsWay' /\ EndsLast'
  BY <1>4 DEF OnItsWay, InTransit, EndsLast, Listens
<1>6. ClosedIsGone' /\ AnswersReachTheirRequest'
  BY DEF ClosedIsGone, AnswersReachTheirRequest
<1>7. QED BY <1>1, <1>3, <1>5, <1>6

(* The session is given up, or done with, at the request it is at.          *)
LEMMA EndsKeeps ==
  ASSUME SessionInv, caller \in {"sending", "receiving", "waiting"},
         queue' = queue \/ (queue # <<>> /\ queue' = Tail(queue))
  PROVE  /\ Ends("answer") /\ asked \in said => SessionInv'
         /\ Ends("closed") /\ asked \notin said /\ cli = "gone" => SessionInv'
         /\ Ends("failed") => SessionInv'
<1> SUFFICES ASSUME NEW how \in {"answer", "closed", "failed"}, Ends(how),
                    how = "answer" => asked \in said,
                    how = "closed" => asked \notin said /\ cli = "gone"
             PROVE  SessionInv'
  OBVIOUS
<1> USE DEF SessionInv, Ends, Goto, cliVars, readerVars
<1>0. queue' \in Seq(Line) /\ Len(queue') <= QueueLimit
  <2>1. QueueLimit \in Nat /\ queue \in Seq(Line) /\ Len(queue) <= QueueLimit
    BY SessionAssumption DEF SessionTypeOK
  <2>2. CASE queue' = queue
    BY <2>1, <2>2
  <2>3. CASE queue # <<>> /\ queue' = Tail(queue)
    BY <2>1, <2>3, HeadAndTail
  <2>4. QED BY <2>2, <2>3
<1>1. SessionTypeOK'
  BY <1>0 DEF SessionTypeOK
<1>2. Elements(queue') \subseteq Elements(queue)
  BY HeadAndTail DEF SessionTypeOK
<1>3. AnswersHeard'
  BY DEF AnswersHeard, Written
<1>4. OnItsWay' /\ EndsLast'
  BY <1>2 DEF OnItsWay, InTransit, EndsLast, Listens
<1>5. ClosedIsGone' /\ AnswersReachTheirRequest'
  BY DEF ClosedIsGone, AnswersReachTheirRequest, SessionTypeOK
<1>6. QED BY <1>1, <1>3, <1>4, <1>5

LEMMA SendBrokenKeeps == ASSUME SessionInv, SendBroken PROVE SessionInv'
<1>0. caller \in {"sending", "receiving", "waiting"} /\ cli = "gone" /\ queue' = queue
  BY DEF SendBroken
<1>1. asked \notin said
  BY SessionAssumption DEF SessionInv, SendBroken, AnswersHeard, Written, SessionTypeOK, Id
<1>2. CASE Ends("closed")
  BY <1>0, <1>1, <1>2, EndsKeeps
<1>3. CASE Ends("failed")
  BY <1>0, <1>3, EndsKeeps
<1>4. QED BY <1>2, <1>3 DEF SendBroken

LEMMA AwaitKeeps == ASSUME SessionInv, Await PROVE SessionInv'
<1> USE DEF SessionInv, Await, Goto, cliVars, readerVars
<1>1. SessionTypeOK' /\ AnswersHeard'
  BY DEF SessionTypeOK, AnswersHeard, Written
<1>2. OnItsWay' /\ EndsLast'
  BY DEF OnItsWay, InTransit, EndsLast, Listens
<1>3. ClosedIsGone' /\ AnswersReachTheirRequest'
  BY DEF ClosedIsGone, AnswersReachTheirRequest
<1>4. QED BY <1>1, <1>2, <1>3

LEMMA TimedOutKeeps == ASSUME SessionInv, TimedOut PROVE SessionInv'
<1>1. Ends("failed") /\ caller \in {"sending", "receiving", "waiting"} /\ queue' = queue
  BY DEF TimedOut
<1>2. QED BY <1>1, EndsKeeps

(* Nothing is on its way any more, so nothing was ever said.                *)
LEMMA DisconnectedKeeps == ASSUME SessionInv, Disconnected PROVE SessionInv'
<1>1. cli = "gone" /\ output = <<>>
  BY DEF SessionInv, Disconnected, EndsLast, Listens
<1>2. InTransit = {}
  BY <1>1, NoElements DEF InTransit, Disconnected
<1>3. asked \notin said
  BY <1>2 DEF SessionInv, OnItsWay, Disconnected
<1>4. QED BY <1>1, <1>3, EndsKeeps DEF Disconnected

LEMMA ReceiveKeeps == ASSUME SessionInv, Receive PROVE SessionInv'
<1> USE DEF SessionInv
<1>1. Elements(queue) = {Head(queue)} \cup Elements(Tail(queue)) /\ Head(queue) \in Line
  BY HeadAndTail DEF SessionTypeOK, Receive
<1>2. Head(queue) = asked => asked \in said
  BY <1>1 DEF OnItsWay, InTransit, SessionTypeOK
<1>7. queue' \in Seq(Line) /\ Len(queue') <= QueueLimit
  BY SessionAssumption, HeadAndTail DEF SessionTypeOK, Receive
<1>3. CASE \E how \in {"answer", "failed"} : Ends(how) /\ (how = "answer" => Head(queue) = asked)
  BY <1>2, <1>3, EndsKeeps DEF Receive
<1>4. CASE /\ Head(queue) \notin {asked, Bad} /\ Goto("receiving")
           /\ UNCHANGED <<asked, outcome, late, cliVars, output, readerVars, receiving>>
  <2> USE <1>4 DEF Goto, cliVars, readerVars
  <2>1. SessionTypeOK'
    BY <1>7 DEF SessionTypeOK, Receive
  <2>2. AnswersHeard'
    BY DEF AnswersHeard, Written, Receive
  <2>3. OnItsWay'
    BY <1>1 DEF OnItsWay, InTransit, Receive
  <2>4. EndsLast' /\ ClosedIsGone' /\ AnswersReachTheirRequest'
    BY DEF EndsLast, Listens, ClosedIsGone, AnswersReachTheirRequest, Receive
  <2>5. QED BY <2>1, <2>2, <2>3, <2>4
<1>5. CASE /\ Head(queue) = asked /\ asked < Requests
           /\ outcome' = [outcome EXCEPT ![asked] = "answer"]
           /\ IF asked = 1 THEN Goto("opening") /\ UNCHANGED asked
                           ELSE Goto("sending") /\ asked' = asked + 1
           /\ UNCHANGED <<late, cliVars, output, readerVars, receiving>>
  <2> USE <1>5 DEF Goto, cliVars, readerVars
  <2>1. SessionTypeOK'
    BY <1>7, SessionAssumption DEF SessionTypeOK, Receive, Id
  <2>2. Written \subseteq Written'
    BY SessionAssumption DEF Written, Receive, SessionTypeOK, Id
  <2>3. AnswersHeard'
    BY <2>2 DEF AnswersHeard
  <2>4. OnItsWay'
    BY <1>1 DEF OnItsWay, InTransit, Receive
  <2>5. EndsLast'
    BY DEF EndsLast, Listens, Receive
  <2>6. ClosedIsGone' /\ AnswersReachTheirRequest'
    BY <1>2 DEF ClosedIsGone, AnswersReachTheirRequest, SessionTypeOK
  <2>7. QED BY <2>1, <2>3, <2>4, <2>5, <2>6
<1>6. QED BY <1>3, <1>4, <1>5 DEF Receive

LEMMA OpenKeeps == ASSUME SessionInv, Open PROVE SessionInv'
<1> USE DEF SessionInv, Open, Goto, cliVars, readerVars
<1>1. SessionTypeOK'
  <2>1. asked \in Id /\ asked' \in Id
    BY SessionAssumption DEF SessionTypeOK, EndsLast, Id
  <2>2. QED BY <2>1 DEF SessionTypeOK
<1>2. Written \subseteq Written'
  BY SessionAssumption DEF Written, SessionTypeOK, Id
<1>3. AnswersHeard'
  BY <1>2 DEF AnswersHeard
<1>4. OnItsWay' /\ EndsLast'
  BY DEF OnItsWay, InTransit, EndsLast, Listens
<1>5. ClosedIsGone' /\ AnswersReachTheirRequest'
  BY DEF ClosedIsGone, AnswersReachTheirRequest
<1>6. QED BY <1>1, <1>3, <1>4, <1>5

(* Once the caller has stopped listening, only the types matter.            *)
LEMMA EndingKeeps == ASSUME SessionInv, Finish \/ Exited \/ Kill \/ Join PROVE SessionInv'
<1> USE DEF SessionInv, Finish, Exited, Kill, Join, Goto, cliVars, readerVars
<1>0. queue' \in Seq(Line) /\ Len(queue') <= QueueLimit
  <2>1. QueueLimit \in Nat /\ <<>> \in Seq(Line) /\ Len(<<>>) = 0
    BY SessionAssumption
  <2>2. CASE Finish
    BY <2>1, <2>2
  <2>3. CASE Exited \/ Kill \/ Join
    BY <2>3 DEF SessionTypeOK
  <2>4. QED BY <2>2, <2>3
<1>1. SessionTypeOK'
  BY <1>0 DEF SessionTypeOK
<1>2. AnswersHeard'
  BY DEF AnswersHeard, Written
<1>3. Elements(queue') \subseteq Elements(queue)
  BY NoElements
<1>4. OnItsWay' /\ EndsLast'
  BY <1>3 DEF OnItsWay, InTransit, EndsLast, Listens
<1>5. ClosedIsGone' /\ AnswersReachTheirRequest'
  BY DEF ClosedIsGone, AnswersReachTheirRequest
<1>6. QED BY <1>1, <1>2, <1>4, <1>5

-----------------------------------------------------------------------------
(* Steps of the reading thread: a line moves on and none is lost while the  *)
(* caller listens.                                                          *)
LEMMA ReadLineKeeps == ASSUME SessionInv, ReadLine PROVE SessionInv'
<1> USE DEF SessionInv, ReadLine, cliVars
<1>1. Elements(output) = {Head(output)} \cup Elements(output') /\ Head(output) \in Line
  BY HeadAndTail DEF SessionTypeOK
<1>2. SessionTypeOK'
  <2>1. output' \in Seq(Line) /\ Len(output') <= PipeLimit + 1
    BY SessionAssumption, HeadAndTail DEF SessionTypeOK
  <2>2. QED BY <1>1, <2>1 DEF SessionTypeOK
<1>3. AnswersHeard'
  BY DEF AnswersHeard, Written
<1>4. InTransit' = InTransit
  BY <1>1 DEF InTransit
<1>5. OnItsWay'
  BY <1>4 DEF OnItsWay
<1>6. Len(output') < Len(output) /\ Len(output) \in Nat /\ Len(output') \in Nat
  BY HeadAndTail DEF SessionTypeOK
<1>7. EndsLast'
  BY <1>6, SessionAssumption DEF EndsLast, Listens
<1>8. ClosedIsGone' /\ AnswersReachTheirRequest'
  BY DEF ClosedIsGone, AnswersReachTheirRequest
<1>9. QED BY <1>2, <1>3, <1>5, <1>7, <1>8

LEMMA HandOverKeeps == ASSUME SessionInv, HandOver PROVE SessionInv'
<1> USE DEF SessionInv, HandOver, cliVars
<1>0. receiving => /\ queue' \in Seq(Line) /\ Len(queue') <= QueueLimit
                   /\ Elements(queue') = Elements(queue) \cup {inHand}
  <2>1. QueueLimit \in Nat /\ queue \in Seq(Line) /\ inHand \in Line /\ Len(queue) \in Nat
    BY SessionAssumption DEF SessionTypeOK
  <2>2. /\ Append(queue, inHand) \in Seq(Line) /\ Len(Append(queue, inHand)) = Len(queue) + 1
        /\ Elements(Append(queue, inHand)) = Elements(queue) \cup {inHand}
    BY <2>1, AppendElements
  <2>3. receiving => Len(queue) < QueueLimit /\ queue' = Append(queue, inHand)
    OBVIOUS
  <2>4. Len(queue) < QueueLimit => Len(queue) + 1 <= QueueLimit
    BY <2>1
  <2> HIDE DEF HandOver
  <2>5. QED BY <2>2, <2>3, <2>4
<1>1. SessionTypeOK'
  BY <1>0 DEF SessionTypeOK
<1>2. AnswersHeard'
  BY DEF AnswersHeard, Written
<1>3. receiving => InTransit' = InTransit
  BY <1>0 DEF InTransit
<1>4. ~receiving => InTransit' \subseteq InTransit /\ ~Listens
  BY DEF InTransit, EndsLast
<1>5. OnItsWay'
  BY <1>3, <1>4 DEF OnItsWay, Listens, SessionTypeOK
<1>6. EndsLast' /\ ClosedIsGone' /\ AnswersReachTheirRequest'
  BY DEF EndsLast, Listens, ClosedIsGone, AnswersReachTheirRequest
<1>7. QED BY <1>1, <1>2, <1>5, <1>6

LEMMA ReadEndKeeps == ASSUME SessionInv, ReadEnd PROVE SessionInv'
<1> USE DEF SessionInv, ReadEnd, cliVars
<1>1. SessionTypeOK' /\ AnswersHeard'
  BY DEF SessionTypeOK, AnswersHeard, Written
<1>2. OnItsWay' /\ EndsLast'
  BY DEF OnItsWay, InTransit, EndsLast, Listens
<1>3. ClosedIsGone' /\ AnswersReachTheirRequest'
  BY DEF ClosedIsGone, AnswersReachTheirRequest
<1>4. QED BY <1>1, <1>2, <1>3

-----------------------------------------------------------------------------
(* Steps of the CLI and of the clock.                                       *)
LEMMA HearKeeps == ASSUME SessionInv, Hear PROVE SessionInv'
<1> USE DEF SessionInv, Hear, readerVars
<1>1. Elements(unread) = {Head(unread)} \cup Elements(unread') /\ Head(unread) \in Id
  BY HeadAndTail DEF SessionTypeOK
<1>2. SessionTypeOK'
  BY <1>1 DEF SessionTypeOK
<1>3. AnswersHeard'
  BY <1>1 DEF AnswersHeard, Written
<1>4. OnItsWay' /\ EndsLast'
  BY DEF OnItsWay, InTransit, EndsLast, Listens
<1>5. ClosedIsGone' /\ AnswersReachTheirRequest'
  BY DEF ClosedIsGone, AnswersReachTheirRequest
<1>6. QED BY <1>2, <1>3, <1>4, <1>5

LEMMA SayKeeps == ASSUME SessionInv, NEW line \in Line, Say(line) PROVE SessionInv'
<1> USE DEF SessionInv, Say, readerVars
<1>1. Elements(output') = Elements(output) \cup {line}
  BY AppendElements DEF SessionTypeOK
<1>2. SessionTypeOK'
  BY SessionAssumption DEF SessionTypeOK
<1>3. AnswersHeard'
  <2>1. {line} \cap Id \subseteq heard
    BY SessionAssumption DEF Id
  <2>2. QED BY <2>1 DEF AnswersHeard, Written
<1>4. OnItsWay'
  BY <1>1 DEF OnItsWay, InTransit, Line
<1>5. EndsLast'
  BY SessionAssumption DEF EndsLast, Listens, SessionTypeOK
<1>6. ClosedIsGone' /\ AnswersReachTheirRequest'
  BY DEF ClosedIsGone, AnswersReachTheirRequest
<1>7. QED BY <1>2, <1>3, <1>4, <1>5, <1>6

LEMMA ExitKeeps == ASSUME SessionInv, Exit PROVE SessionInv'
<1> USE DEF SessionInv, Exit, readerVars
<1>1. Bad \in Line /\ Bad \notin Id
  BY SessionAssumption DEF Line, Id
<1>2. Elements(output') \in {Elements(output), Elements(output) \cup {Bad}}
  BY <1>1, AppendElements DEF SessionTypeOK
<1>3. SessionTypeOK'
  <2>1. /\ PipeLimit \in Nat /\ output \in Seq(Line) /\ Len(output) \in Nat
        /\ Len(output) <= PipeLimit
    BY SessionAssumption DEF SessionTypeOK, EndsLast
  <2>2. Append(output, Bad) \in Seq(Line) /\ Len(Append(output, Bad)) = Len(output) + 1
    BY <1>1, <2>1, AppendElements
  <2>3. output' \in Seq(Line) /\ Len(output') <= PipeLimit + 1
    BY <2>1, <2>2
  <2>4. QED BY <2>3 DEF SessionTypeOK
<1>4. AnswersHeard'
  BY DEF AnswersHeard, Written
<1>5. OnItsWay'
  BY <1>1, <1>2 DEF OnItsWay, InTransit
<1>6. EndsLast' /\ ClosedIsGone' /\ AnswersReachTheirRequest'
  BY DEF EndsLast, Listens, ClosedIsGone, AnswersReachTheirRequest
<1>7. QED BY <1>3, <1>4, <1>5, <1>6

LEMMA DeadlineKeeps == ASSUME SessionInv, Deadline \/ UNCHANGED sessionVars PROVE SessionInv'
<1> USE DEF SessionInv, Deadline, sessionVars, cliVars, readerVars
<1>1. SessionTypeOK' /\ AnswersHeard'
  BY DEF SessionTypeOK, AnswersHeard, Written
<1>2. OnItsWay' /\ EndsLast'
  BY DEF OnItsWay, InTransit, EndsLast, Listens
<1>3. ClosedIsGone' /\ AnswersReachTheirRequest'
  BY DEF ClosedIsGone, AnswersReachTheirRequest
<1>4. QED BY <1>1, <1>2, <1>3

(* Every step keeps the invariant.                                          *)
LEMMA SessionStepInductive == SessionInv /\ [SessionNext]_sessionVars => SessionInv'
BY StartKeeps, SendKeeps, SendBrokenKeeps, AwaitKeeps, TimedOutKeeps, DisconnectedKeeps,
   ReceiveKeeps, OpenKeeps, EndingKeeps, ReadLineKeeps, HandOverKeeps, ReadEndKeeps,
   HearKeeps, SayKeeps, ExitKeeps, DeadlineKeeps
DEF SessionNext, CallerSteps, ReaderSteps

-----------------------------------------------------------------------------
(* The variables of a session keep their types: the queue never outgrows    *)
(* MESSAGE_QUEUE_LIMIT (json_line_session.rs spawn).                        *)
THEOREM SessionTypeCorrect == SessionSpec => []SessionTypeOK
<1>1. SessionInv => SessionTypeOK
  BY DEF SessionInv
<1>2. QED BY <1>1, SessionInitInductive, SessionStepInductive, PTL DEF SessionSpec

(* No answer is lost on its way and none is taken for another request's,    *)
(* whenever the CLI writes it, exits, or the deadline passes                *)
(* (json_line_session.rs request, receive, spawn).                          *)
THEOREM AnswersAlwaysReach == SessionSpec => []AnswersReachTheirRequest
<1>1. SessionInv => AnswersReachTheirRequest
  BY DEF SessionInv
<1>2. QED BY <1>1, SessionInitInductive, SessionStepInductive, PTL DEF SessionSpec

-----------------------------------------------------------------------------
(* Private renewal.                                                         *)
Holding == {"leased", "intended", "answered", "replied", "published"}

(* A token nobody was given and nobody asked with.                          *)
Fresh(t) == /\ t \in 1..minted
            /\ t \notin handed
            /\ sent[t] = 0

Unspent == profile.login # NoToken => sent[profile.login] = 0

(* The journal and the lease belong to one poll at a time.                  *)
OneLease == \A a \in Instance : polling[a] \in Holding <=> lease = a

(* An account change meets no poll and a login that is the client's to      *)
(* spend from now on.                                                       *)
Changing == change # "idle" =>
              /\ \A a \in Instance : polling[a] = "idle"
              /\ recovering = "own"
              /\ ~profile.owned
              /\ profile.login # NoToken
              /\ Unspent

(* Nothing has a token before it is given out.                              *)
GivenOut == /\ profile.login <= minted
            /\ \A t \in handed : t <= minted
            /\ \A t \in Token : sent[t] > 0 => t <= minted

Private == profile.owned => profile.login \notin handed

(* A spent login in the vault is named by the journal.                      *)
Explained == Unspent \/ (journal # NoJournal /\ journal.of = profile.login)

(* A whole reply stays usable for as long as a poll may still take it.      *)
Takeable == \/ profile.login = journal.of
            \/ \E a \in Instance : lease = a /\ source[a] = journal.of

ReplyUsable == Finished => /\ sent[journal.of] > 0
                           /\ Takeable => Fresh(journal.next)

(* What a poll knows of the login it was given, by how far it is.           *)
SourceSound(a) ==
  polling[a] # "idle" => /\ source[a] \in 1..minted
                    /\ source[a] \notin handed

Working(a) ==
  /\ polling[a] \in Holding \ {"published"} => Unspent \/ profile.login = source[a]
  /\ polling[a] = "leased"    => Begun(a) \/ sent[source[a]] = 0
  /\ polling[a] \in {"intended", "answered"} => journal = [of |-> source[a], next |-> NoToken]
  /\ polling[a] = "intended"  => sent[source[a]] = 0
  /\ polling[a] = "answered"  => sent[source[a]] > 0
  /\ polling[a] \in {"replied", "published"} => journal = [of |-> source[a], next |-> reply[a]]
  /\ polling[a] \in {"answered", "replied", "published"} => Fresh(reply[a])
  /\ polling[a] = "published" => Unspent

Journalled == /\ Explained /\ ReplyUsable
              /\ \A a \in Instance : SourceSound(a) /\ Working(a)

Tokens == GivenOut /\ Private /\ SpentOnce /\ SpentIsPrivate

RenewalInv == RenewalTypeOK /\ OneLease /\ Changing /\ Tokens /\ Journalled

USE RenewalAssumption, JournalAssumption
    DEF RenewalInv, Token, NoToken, MaybeToken, Profile, Journal, PollStage, Holding,
        vault, poll, world, To, Journalled

-----------------------------------------------------------------------------
(* Nothing was asked or journalled yet.                                     *)
LEMMA RenewalInitSound == RenewalInit => RenewalInv
<1>1. SUFFICES ASSUME RenewalInit PROVE RenewalInv
  OBVIOUS
<1>2. PICK own \in BOOLEAN :
        /\ profile = [saved |-> TRUE, login |-> 1, owned |-> own, pending |-> own]
        /\ handed = IF own THEN {} ELSE {1}
  BY <1>1 DEF RenewalInit
<1>3. /\ recovering = "none" /\ journal = NoJournal /\ lease = NoInstance
      /\ polling = [a \in Instance |-> "idle"]
      /\ source = [a \in Instance |-> NoToken] /\ reply = [a \in Instance |-> NoToken]
      /\ change = "idle" /\ signedIn = FALSE
      /\ sent = [t \in Token |-> 0] /\ minted = 1 /\ faults = 0
  BY <1>1 DEF RenewalInit
<1>4. RenewalTypeOK
  <2>1. profile \in Profile /\ handed \subseteq Token /\ 1 \in Token
    BY <1>2
  <2>2. polling \in [Instance -> PollStage] /\ source \in [Instance -> MaybeToken]
        /\ reply \in [Instance -> MaybeToken] /\ sent \in [Token -> Nat]
    BY <1>3
  <2>3. minted \in 0..MaxGen /\ faults \in Nat
    BY <1>3
  <2> HIDE DEF Profile, Journal, PollStage, Token, MaybeToken
  <2>4. signedIn \in BOOLEAN
    BY <1>3
  <2>5. QED
    BY <1>3, <2>1, <2>2, <2>3, <2>4 DEF RenewalTypeOK
<1>5. OneLease /\ Changing /\ Unspent
  BY <1>2, <1>3 DEF OneLease, Changing, Unspent
<1>6. Tokens
  BY <1>2, <1>3 DEF Tokens, GivenOut, Private, SpentOnce, SpentIsPrivate
<1>7. Journalled
  BY <1>3, <1>5 DEF Explained, ReplyUsable, Finished, SourceSound, Working
<1>8. QED
  BY <1>4, <1>5, <1>6, <1>7

(* A poll that returns early, or dies, changes nothing but itself.          *)
LEMMA LeaveKeeps ==
  ASSUME RenewalInv, NEW a \in Instance, polling[a] # "idle", Leave(a),
         UNCHANGED <<vault, journal, change, world, sent>>, faults' \in Nat
  PROVE  RenewalInv'
<1>1. RenewalTypeOK'
  BY DEF RenewalTypeOK, Leave
<1>2. OneLease'
  BY DEF RenewalTypeOK, OneLease, Leave
<1>3. Changing'
  BY DEF RenewalTypeOK, Changing, Unspent, Leave
<1>4. Tokens'
  BY DEF RenewalTypeOK, Tokens, GivenOut, Private, SpentOnce, SpentIsPrivate, Leave
<1>5. Explained'
  BY DEF RenewalTypeOK, Explained, Unspent, Leave
<1>6. ReplyUsable'
  BY DEF RenewalTypeOK, ReplyUsable, Finished, Takeable, Fresh, Leave
<1>7. (\A b \in Instance : SourceSound(b))'
  BY DEF RenewalTypeOK, SourceSound, Leave
<1>8. (\A b \in Instance : Working(b))'
  BY DEF RenewalTypeOK, OneLease, Working, Unspent, Begun, Fresh, Leave
<1>9. QED
  BY <1>1, <1>2, <1>3, <1>4, <1>5, <1>6, <1>7, <1>8

(* Steps that move neither a token, nor the journal, nor a poll.            *)
LEMMA BystanderKeeps ==
  ASSUME RenewalInv, RenewalTypeOK', Changing',
         UNCHANGED <<journal, poll, handed, sent, minted>>,
         profile'.login = profile.login, profile'.owned = profile.owned
  PROVE  RenewalInv'
<1>1. OneLease'
  BY DEF OneLease
<1>2. Tokens'
  BY DEF Tokens, GivenOut, Private, SpentOnce, SpentIsPrivate
<1>3. Unspent' = Unspent
  BY DEF Unspent
<1>4. Explained'
  BY <1>3 DEF Explained
<1>5. ReplyUsable'
  BY DEF ReplyUsable, Finished, Takeable, Fresh
<1>6. (\A b \in Instance : SourceSound(b))'
  BY DEF SourceSound
<1>7. (\A b \in Instance : Working(b))'
  BY <1>3 DEF Working, Begun, Fresh
<1>8. QED
  BY <1>1, <1>2, <1>4, <1>5, <1>6, <1>7

(* A poll starts with the login the vault holds, which is private.          *)
LEMMA PollKeeps ==
  ASSUME RenewalInv, NEW a \in Instance, Poll(a)
  PROVE  RenewalInv'
<1>1. RenewalTypeOK'
  BY DEF RenewalTypeOK, Poll
<1>2. OneLease'
  BY DEF OneLease, Poll
<1>3. Changing'
  BY DEF RenewalTypeOK, Changing, Unspent, Poll
<1>4. Tokens'
  BY DEF RenewalTypeOK, Tokens, GivenOut, Private, SpentOnce, SpentIsPrivate, Poll
<1>5. Explained'
  BY DEF RenewalTypeOK, Explained, Unspent, Poll
<1>6. ReplyUsable'
  BY DEF RenewalTypeOK, ReplyUsable, Finished, Takeable, Fresh, Poll
<1>7. (\A b \in Instance : SourceSound(b))'
  BY DEF RenewalTypeOK, Tokens, GivenOut, Private, SpentOnce, SpentIsPrivate,
         SourceSound, Poll
<1>8. (\A b \in Instance : Working(b))'
  BY DEF RenewalTypeOK, OneLease, Working, Unspent, Begun, Fresh, Poll
<1>9. QED
  BY <1>1, <1>2, <1>3, <1>4, <1>5, <1>6, <1>7, <1>8

(* The ticket says the login is still the vault's: spent only if the        *)
(* journal says so.                                                         *)
LEMMA LeaseKeeps ==
  ASSUME RenewalInv, NEW a \in Instance, Lease(a)
  PROVE  RenewalInv'
<1>1. RenewalTypeOK'
  BY DEF RenewalTypeOK, Lease, Ticket
<1>2. OneLease'
  BY DEF RenewalTypeOK, OneLease, Lease, Ticket
<1>3. Changing'
  BY DEF RenewalTypeOK, Changing, Unspent, Lease, Ticket
<1>4. Tokens'
  BY DEF RenewalTypeOK, Tokens, GivenOut, Private, SpentOnce, SpentIsPrivate, Lease,
         Ticket
<1>5. Explained'
  BY DEF RenewalTypeOK, Explained, Unspent, Lease, Ticket
<1>6. ReplyUsable'
  BY DEF RenewalTypeOK, ReplyUsable, Finished, Takeable, Fresh, Lease, Ticket
<1>7. (\A b \in Instance : SourceSound(b))'
  BY DEF RenewalTypeOK, SourceSound, Lease, Ticket
<1>8. (\A b \in Instance : Working(b))'
  BY DEF RenewalTypeOK, OneLease, Tokens, GivenOut, Private, SpentOnce,
         SpentIsPrivate, Explained, Working, Unspent, Begun, Fresh,
         ReplyUsable, Finished, Takeable, SourceSound, Lease, Ticket
<1>9. QED
  BY <1>1, <1>2, <1>3, <1>4, <1>5, <1>6, <1>7, <1>8

(* The reply taken from the journal is of this login, so still fresh.       *)
LEMMA AdoptKeeps ==
  ASSUME RenewalInv, NEW a \in Instance, Adopt(a)
  PROVE  RenewalInv'
<1>1. RenewalTypeOK'
  BY DEF RenewalTypeOK, Adopt, Begun
<1>2. OneLease'
  BY DEF OneLease, Adopt, Begun
<1>3. Changing'
  BY DEF RenewalTypeOK, Changing, Unspent, Adopt, Begun
<1>4. Tokens'
  BY DEF RenewalTypeOK, Tokens, GivenOut, Private, SpentOnce, SpentIsPrivate, Adopt,
         Begun
<1>5. Explained'
  BY DEF RenewalTypeOK, Explained, Unspent, Adopt, Begun
<1>6. ReplyUsable'
  BY DEF RenewalTypeOK, ReplyUsable, Finished, Takeable, Fresh, Adopt, Begun
<1>7. (\A b \in Instance : SourceSound(b))'
  BY DEF RenewalTypeOK, SourceSound, Adopt, Begun
<1>8. (\A b \in Instance : Working(b))'
  BY DEF RenewalTypeOK, OneLease, Tokens, GivenOut, Private, SpentOnce,
         SpentIsPrivate, Explained, Working, Unspent, Begun, Fresh,
         ReplyUsable, Finished, Takeable, SourceSound, Adopt
<1>9. QED
  BY <1>1, <1>2, <1>3, <1>4, <1>5, <1>6, <1>7, <1>8

(* Only the lease holder overwrites the journal, and not of a spent login.  *)
LEMMA IntendKeeps ==
  ASSUME RenewalInv, NEW a \in Instance, Intend(a)
  PROVE  RenewalInv'
<1>1. RenewalTypeOK'
  BY DEF RenewalTypeOK, OneLease, Changing, Tokens, GivenOut, Private, SpentOnce,
         SpentIsPrivate, Explained, ReplyUsable, SourceSound, Working,
         Unspent, Finished, Takeable, Fresh, Begun, Intend
<1>2. OneLease'
  BY DEF OneLease, Intend, Begun
<1>3. Changing'
  BY DEF RenewalTypeOK, Changing, Unspent, Intend, Begun
<1>4. Tokens'
  BY DEF RenewalTypeOK, Tokens, GivenOut, Private, SpentOnce, SpentIsPrivate, Intend,
         Begun
<1>5. Explained'
  BY DEF RenewalTypeOK, Tokens, GivenOut, Private, SpentOnce, SpentIsPrivate,
         Explained, Unspent, Working, Fresh, Intend, Begun
<1>6. ReplyUsable'
  BY DEF RenewalTypeOK, ReplyUsable, Finished, Takeable, Fresh, Intend, Begun
<1>7. (\A b \in Instance : SourceSound(b))'
  BY DEF RenewalTypeOK, SourceSound, Intend, Begun
<1>8. (\A b \in Instance : Working(b))'
  BY DEF RenewalTypeOK, OneLease, Working, Unspent, Begun, Fresh, Intend
<1>9. QED
  BY <1>1, <1>2, <1>3, <1>4, <1>5, <1>6, <1>7, <1>8

(* The token asked with was not asked with before; the answer is new.       *)
LEMMA RequestKeeps ==
  ASSUME RenewalInv, NEW a \in Instance, Request(a)
  PROVE  RenewalInv'
<1>1. RenewalTypeOK'
  BY DEF RenewalTypeOK, OneLease, Changing, Tokens, GivenOut, Private, SpentOnce,
         SpentIsPrivate, Explained, ReplyUsable, SourceSound, Working,
         Unspent, Finished, Takeable, Fresh, Begun, Request, Ask, Given, Next1
<1>2. OneLease'
  BY DEF OneLease, Request, Ask, Given, Next1
<1>3. Changing'
  BY DEF RenewalTypeOK, Changing, Unspent, Request, Ask, Given, Next1
<1>4. Tokens'
  BY DEF RenewalTypeOK, Tokens, GivenOut, Private, SpentOnce, SpentIsPrivate,
         SourceSound, Working, Fresh, Request, Ask, Given, Next1
<1>5. Explained'
  BY DEF RenewalTypeOK, Tokens, GivenOut, Private, SpentOnce, SpentIsPrivate,
         Explained, Unspent, Working, Fresh, Request, Ask, Given, Next1
<1>6. ReplyUsable'
  BY DEF RenewalTypeOK, OneLease, Tokens, GivenOut, Private, SpentOnce,
         SpentIsPrivate, ReplyUsable, Finished, Takeable, Fresh, SourceSound,
         Working, Request, Ask, Given, Next1
<1>7. (\A b \in Instance : SourceSound(b))'
  BY DEF RenewalTypeOK, SourceSound, Request, Ask, Given, Next1
<1>8. (\A b \in Instance : Working(b))'
  BY DEF RenewalTypeOK, OneLease, Tokens, GivenOut, Private, SpentOnce,
         SpentIsPrivate, Explained, Working, Unspent, Begun, Fresh,
         ReplyUsable, Finished, Takeable, SourceSound, Request, Ask, Given,
         Next1
<1>9. QED
  BY <1>1, <1>2, <1>3, <1>4, <1>5, <1>6, <1>7, <1>8

(* The token may be spent, and the journal names it.                        *)
LEMMA LoseRequestKeeps ==
  ASSUME RenewalInv, NEW a \in Instance, LoseRequest(a)
  PROVE  RenewalInv'
<1>1. RenewalTypeOK'
  BY DEF RenewalTypeOK, OneLease, Changing, Tokens, GivenOut, Private, SpentOnce,
         SpentIsPrivate, Explained, ReplyUsable, SourceSound, Working,
         Unspent, Finished, Takeable, Fresh, Begun, LoseRequest, Leave, Ask
<1>2. OneLease'
  BY DEF RenewalTypeOK, OneLease, LoseRequest, Leave, Ask
<1>3. Changing'
  BY DEF RenewalTypeOK, Changing, Unspent, LoseRequest, Leave, Ask
<1>4. Tokens'
  BY DEF RenewalTypeOK, Tokens, GivenOut, Private, SpentOnce, SpentIsPrivate,
         SourceSound, Working, Fresh, LoseRequest, Leave, Ask
<1>5. Explained'
  BY DEF RenewalTypeOK, Tokens, GivenOut, Private, SpentOnce, SpentIsPrivate,
         Explained, Unspent, Working, Fresh, LoseRequest, Leave, Ask
<1>6. ReplyUsable'
  BY DEF RenewalTypeOK, OneLease, Tokens, GivenOut, Private, SpentOnce,
         SpentIsPrivate, ReplyUsable, Finished, Takeable, Fresh, SourceSound,
         Working, LoseRequest, Leave, Ask
<1>7. (\A b \in Instance : SourceSound(b))'
  BY DEF RenewalTypeOK, SourceSound, LoseRequest, Leave, Ask
<1>8. (\A b \in Instance : Working(b))'
  BY DEF RenewalTypeOK, OneLease, Working, Unspent, Begun, Fresh, LoseRequest, Leave,
         Ask
<1>9. QED
  BY <1>1, <1>2, <1>3, <1>4, <1>5, <1>6, <1>7, <1>8

(* The journal now holds the whole reply.                                   *)
LEMMA SaveReplyKeeps ==
  ASSUME RenewalInv, NEW a \in Instance, SaveReply(a)
  PROVE  RenewalInv'
<1>1. RenewalTypeOK'
  BY DEF RenewalTypeOK, OneLease, Changing, Tokens, GivenOut, Private, SpentOnce,
         SpentIsPrivate, Explained, ReplyUsable, SourceSound, Working,
         Unspent, Finished, Takeable, Fresh, Begun, SaveReply
<1>2. OneLease'
  BY DEF OneLease, SaveReply
<1>3. Changing'
  BY DEF RenewalTypeOK, Changing, Unspent, SaveReply
<1>4. Tokens'
  BY DEF RenewalTypeOK, Tokens, GivenOut, Private, SpentOnce, SpentIsPrivate,
         SaveReply
<1>5. Explained'
  BY DEF RenewalTypeOK, Tokens, GivenOut, Private, SpentOnce, SpentIsPrivate,
         Explained, Unspent, Working, Fresh, SaveReply
<1>6. ReplyUsable'
  BY DEF RenewalTypeOK, OneLease, Tokens, GivenOut, Private, SpentOnce,
         SpentIsPrivate, ReplyUsable, Finished, Takeable, Fresh, SourceSound,
         Working, SaveReply
<1>7. (\A b \in Instance : SourceSound(b))'
  BY DEF RenewalTypeOK, SourceSound, SaveReply
<1>8. (\A b \in Instance : Working(b))'
  BY DEF RenewalTypeOK, OneLease, Working, Unspent, Begun, Fresh, SaveReply
<1>9. QED
  BY <1>1, <1>2, <1>3, <1>4, <1>5, <1>6, <1>7, <1>8

(* The reply replaces the login it renews.                                  *)
LEMMA PublishKeeps ==
  ASSUME RenewalInv, NEW a \in Instance, Publish(a)
  PROVE  RenewalInv'
<1>1. RenewalTypeOK'
  BY DEF RenewalTypeOK, Publish, Ticket
<1>2. OneLease'
  BY DEF OneLease, Publish, Ticket
<1>3. Changing'
  BY DEF RenewalTypeOK, Changing, Unspent, Publish, Ticket
<1>4. Tokens'
  BY DEF RenewalTypeOK, Tokens, GivenOut, Private, SpentOnce, SpentIsPrivate,
         SourceSound, Working, Fresh, Publish, Ticket
<1>5. Explained'
  BY DEF RenewalTypeOK, Tokens, GivenOut, Private, SpentOnce, SpentIsPrivate,
         Explained, Unspent, Working, Fresh, Publish, Ticket
<1>6. ReplyUsable'
  BY DEF RenewalTypeOK, OneLease, Tokens, GivenOut, Private, SpentOnce,
         SpentIsPrivate, ReplyUsable, Finished, Takeable, Fresh, SourceSound,
         Working, Publish, Ticket
<1>7. (\A b \in Instance : SourceSound(b))'
  BY DEF RenewalTypeOK, SourceSound, Publish, Ticket
<1>8. (\A b \in Instance : Working(b))'
  BY DEF RenewalTypeOK, OneLease, Working, Unspent, Begun, Fresh, Publish, Ticket
<1>9. QED
  BY <1>1, <1>2, <1>3, <1>4, <1>5, <1>6, <1>7, <1>8

(* The journal goes once the vault's login is not spent.                    *)
LEMMA ForgetKeeps ==
  ASSUME RenewalInv, NEW a \in Instance, Forget(a)
  PROVE  RenewalInv'
<1>1. RenewalTypeOK'
  BY DEF RenewalTypeOK, Forget, Leave
<1>2. OneLease'
  BY DEF RenewalTypeOK, OneLease, Forget, Leave
<1>3. Changing'
  BY DEF RenewalTypeOK, Changing, Unspent, Forget, Leave
<1>4. Tokens'
  BY DEF RenewalTypeOK, Tokens, GivenOut, Private, SpentOnce, SpentIsPrivate, Forget,
         Leave
<1>5. Explained'
  BY DEF RenewalTypeOK, Tokens, GivenOut, Private, SpentOnce, SpentIsPrivate,
         Explained, Unspent, Working, Fresh, Forget, Leave
<1>6. ReplyUsable'
  BY DEF RenewalTypeOK, ReplyUsable, Finished, Takeable, Fresh, Forget, Leave
<1>7. (\A b \in Instance : SourceSound(b))'
  BY DEF RenewalTypeOK, SourceSound, Forget, Leave
<1>8. (\A b \in Instance : Working(b))'
  BY DEF RenewalTypeOK, OneLease, Working, Unspent, Begun, Fresh, Forget, Leave
<1>9. QED
  BY <1>1, <1>2, <1>3, <1>4, <1>5, <1>6, <1>7, <1>8

(* A switch starts only with an unspent login: no poll runs, the journal    *)
(* does not name it.                                                        *)
LEMMA BeginSwitchKeeps ==
  ASSUME RenewalInv, BeginSwitch
  PROVE  RenewalInv'
<1>1. RenewalTypeOK'
  BY DEF RenewalTypeOK, BeginSwitch, Ready
<1>2. OneLease'
  BY DEF OneLease, BeginSwitch, Ready
<1>3. Changing'
  BY DEF RenewalTypeOK, OneLease, Changing, Tokens, GivenOut, Private, SpentOnce,
         SpentIsPrivate, Explained, ReplyUsable, SourceSound, Working,
         Unspent, Finished, Takeable, Fresh, Begun, BeginSwitch, Ready
<1>4. Tokens'
  BY DEF RenewalTypeOK, Tokens, GivenOut, Private, SpentOnce, SpentIsPrivate,
         BeginSwitch, Ready
<1>5. Explained'
  BY DEF RenewalTypeOK, Explained, Unspent, BeginSwitch, Ready
<1>6. ReplyUsable'
  BY DEF RenewalTypeOK, ReplyUsable, Finished, Takeable, Fresh, BeginSwitch, Ready
<1>7. (\A b \in Instance : SourceSound(b))'
  BY DEF RenewalTypeOK, SourceSound, BeginSwitch, Ready
<1>8. (\A b \in Instance : Working(b))'
  BY DEF RenewalTypeOK, OneLease, Working, Unspent, Begun, Fresh, BeginSwitch, Ready
<1>9. QED
  BY <1>1, <1>2, <1>3, <1>4, <1>5, <1>6, <1>7, <1>8

(* The login becomes the client's, unspent.                                 *)
LEMMA WriteNativeKeeps ==
  ASSUME RenewalInv, WriteNative
  PROVE  RenewalInv'
<1>1. RenewalTypeOK'
  BY DEF RenewalTypeOK, OneLease, Changing, Tokens, GivenOut, Private, SpentOnce,
         SpentIsPrivate, Explained, ReplyUsable, SourceSound, Working,
         Unspent, Finished, Takeable, Fresh, Begun, WriteNative
<1>2. OneLease'
  BY DEF OneLease, WriteNative
<1>3. Changing'
  BY DEF RenewalTypeOK, Changing, Unspent, WriteNative
<1>4. Tokens'
  BY DEF RenewalTypeOK, Tokens, GivenOut, Private, SpentOnce, SpentIsPrivate,
         Changing, Unspent, WriteNative
<1>5. Explained'
  BY DEF RenewalTypeOK, Explained, Unspent, WriteNative
<1>6. ReplyUsable'
  BY DEF RenewalTypeOK, OneLease, Changing, Tokens, GivenOut, Private, SpentOnce,
         SpentIsPrivate, Explained, ReplyUsable, SourceSound, Working,
         Unspent, Finished, Takeable, Fresh, Begun, WriteNative
<1>7. (\A b \in Instance : SourceSound(b))'
  BY DEF RenewalTypeOK, Tokens, GivenOut, Private, SpentOnce, SpentIsPrivate,
         SourceSound, Changing, WriteNative
<1>8. (\A b \in Instance : Working(b))'
  BY DEF RenewalTypeOK, OneLease, Tokens, GivenOut, Private, SpentOnce,
         SpentIsPrivate, Explained, Working, Unspent, Begun, Fresh, Changing,
         WriteNative
<1>9. QED
  BY <1>1, <1>2, <1>3, <1>4, <1>5, <1>6, <1>7, <1>8

(* The profile loses its login.                                             *)
LEMMA SignOutKeeps ==
  ASSUME RenewalInv, SignOut
  PROVE  RenewalInv'
<1>1. RenewalTypeOK'
  BY DEF RenewalTypeOK, SignOut
<1>2. OneLease'
  BY DEF OneLease, SignOut
<1>3. Changing'
  BY DEF RenewalTypeOK, Changing, Unspent, SignOut
<1>4. Tokens'
  BY DEF RenewalTypeOK, Tokens, GivenOut, Private, SpentOnce, SpentIsPrivate, SignOut
<1>5. Explained'
  BY DEF RenewalTypeOK, Explained, Unspent, SignOut
<1>6. ReplyUsable'
  BY DEF RenewalTypeOK, ReplyUsable, Finished, Takeable, Fresh, SignOut
<1>7. (\A b \in Instance : SourceSound(b))'
  BY DEF RenewalTypeOK, SourceSound, SignOut
<1>8. (\A b \in Instance : Working(b))'
  BY DEF RenewalTypeOK, OneLease, Working, Unspent, Begun, Fresh, SignOut
<1>9. QED
  BY <1>1, <1>2, <1>3, <1>4, <1>5, <1>6, <1>7, <1>8

(* The vault gets a login that is new.                                      *)
LEMMA SignInKeeps ==
  ASSUME RenewalInv, SignIn
  PROVE  RenewalInv'
<1>1. RenewalTypeOK'
  <2>1. profile \in Profile /\ Next1 \in MaybeToken /\ minted' \in 0..MaxGen
    BY DEF RenewalTypeOK, SignIn, Given, Next1
  <2>2. profile' \in Profile
    BY <2>1 DEF SignIn
  <2> HIDE DEF Profile, Journal
  <2>3. QED
    BY <2>1, <2>2 DEF RenewalTypeOK, SignIn
<1>2. OneLease'
  BY DEF OneLease, SignIn, Given, Next1, Quiet
<1>3. Changing'
  BY DEF RenewalTypeOK, Changing, Unspent, SignIn, Given, Next1, Quiet
<1>4. Tokens'
  BY DEF RenewalTypeOK, Tokens, GivenOut, Private, SpentOnce, SpentIsPrivate, SignIn,
         Given, Next1, Quiet
<1>5. Explained'
  BY DEF RenewalTypeOK, Tokens, GivenOut, Private, SpentOnce, SpentIsPrivate,
         Explained, Unspent, SignIn, Given, Next1, Quiet
<1>6. ReplyUsable'
  BY DEF RenewalTypeOK, OneLease, Tokens, GivenOut, Private, SpentOnce,
         SpentIsPrivate, ReplyUsable, Finished, Takeable, Fresh, SignIn,
         Given, Next1, Quiet
<1>7. (\A b \in Instance : SourceSound(b))'
  BY DEF RenewalTypeOK, SourceSound, SignIn, Given, Next1, Quiet
<1>8. (\A b \in Instance : Working(b))'
  BY DEF RenewalTypeOK, OneLease, Tokens, GivenOut, Private, SpentOnce,
         SpentIsPrivate, Working, Unspent, Begun, Fresh, SignIn, Given, Next1,
         Quiet
<1>9. QED
  BY <1>1, <1>2, <1>3, <1>4, <1>5, <1>6, <1>7, <1>8

(* The profile is gone, what a poll holds is not.                           *)
LEMMA RemoveKeeps ==
  ASSUME RenewalInv, Remove
  PROVE  RenewalInv'
<1>1. RenewalTypeOK'
  BY DEF RenewalTypeOK, Remove, Quiet
<1>2. OneLease'
  BY DEF OneLease, Remove, Quiet
<1>3. Changing'
  BY DEF RenewalTypeOK, Changing, Unspent, Remove, Quiet
<1>4. Tokens'
  BY DEF RenewalTypeOK, Tokens, GivenOut, Private, SpentOnce, SpentIsPrivate, Remove,
         Quiet
<1>5. Explained'
  BY DEF RenewalTypeOK, Explained, Unspent, Remove, Quiet
<1>6. ReplyUsable'
  BY DEF RenewalTypeOK, ReplyUsable, Finished, Takeable, Fresh, Remove, Quiet
<1>7. (\A b \in Instance : SourceSound(b))'
  BY DEF RenewalTypeOK, SourceSound, Remove, Quiet
<1>8. (\A b \in Instance : Working(b))'
  BY DEF RenewalTypeOK, OneLease, Working, Unspent, Begun, Fresh, Remove, Quiet
<1>9. QED
  BY <1>1, <1>2, <1>3, <1>4, <1>5, <1>6, <1>7, <1>8

(* The vault gets a login of a client's, and it is not the app's any more.  *)
LEMMA ClientSaves ==
  ASSUME RenewalInv, NEW t \in Token, ClientToken(t), SaveOver(t),
         UNCHANGED <<journal, poll, sent>>, change' = "idle",
         recovering' \in {"none", "own", "other"}, signedIn' \in BOOLEAN, faults' \in Nat
  PROVE  RenewalInv'
<1> DEFINE login == profile'.login
<1>1. profile' \in Profile /\ ~profile'.owned /\ login = t
  BY DEF SaveOver, RenewalTypeOK
<1>2. /\ t \in handed' /\ handed' \subseteq Token
      /\ minted' \in 0..MaxGen /\ minted <= minted'
      /\ handed \subseteq handed'
      /\ \A u \in handed' : u \in handed \/ (u = minted + 1 /\ minted' = minted + 1)
  <2>1. handed \subseteq Token /\ minted \in 0..MaxGen
    BY DEF RenewalTypeOK
  <2>2. CASE t \in handed /\ UNCHANGED <<handed, minted>>
    BY <2>1, <2>2
  <2>3. CASE Given /\ t = Next1 /\ handed' = handed \cup {t}
    BY <2>1, <2>3 DEF Given, Next1
  <2>4. QED
    BY <2>2, <2>3 DEF ClientToken
<1>3. \A u \in Token : u > minted => sent[u] = 0
  BY DEF Tokens, GivenOut, RenewalTypeOK
<1>4. SpentIsPrivate'
  BY <1>2, <1>3 DEF Tokens, SpentIsPrivate, RenewalTypeOK
<1>5. Unspent' /\ sent[login] = 0
  BY <1>1, <1>2, <1>4 DEF SpentIsPrivate, Unspent, RenewalTypeOK
<1> HIDE DEF login
<1>6. RenewalTypeOK'
  BY <1>1, <1>2 DEF RenewalTypeOK
<1>7. OneLease' /\ Changing'
  BY DEF OneLease, Changing
<1>8. Tokens'
  <2>1. handed' \subseteq 1..minted' /\ login <= minted'
    <3>1. \A u \in handed : u \in Nat /\ u >= 1 /\ u <= minted
      BY DEF Tokens, GivenOut, RenewalTypeOK
    <3>2. handed' \subseteq 1..minted'
      BY <1>2, <3>1 DEF RenewalTypeOK
    <3> QED
      BY <1>1, <1>2, <3>2 DEF login
  <2>2. \A u \in Token : sent'[u] > 0 => u <= minted'
    BY <1>2 DEF Tokens, GivenOut, RenewalTypeOK
  <2>3. SpentOnce'
    BY DEF Tokens, SpentOnce
  <2>4. QED
    BY <1>1, <1>4, <2>1, <2>2, <2>3 DEF Tokens, GivenOut, Private, login
<1>9. Explained'
  BY <1>5 DEF Explained
<1>10. \A u \in Token : Fresh(u) => Fresh(u)'
  BY <1>2 DEF Fresh, RenewalTypeOK
<1>11. ReplyUsable'
  BY <1>5, <1>10 DEF ReplyUsable, Takeable, Finished, RenewalTypeOK, login
<1>12. (\A b \in Instance : SourceSound(b))'
  BY <1>2 DEF SourceSound, RenewalTypeOK
<1>13. (\A b \in Instance : Working(b))'
  <2>1. SUFFICES ASSUME NEW b \in Instance
                 PROVE  Working(b)'
    OBVIOUS
  <2>2. Working(b) /\ (Fresh(reply[b]) => Fresh(reply[b])')
    BY <1>10 DEF Fresh, RenewalTypeOK
  <2>3. QED
    BY <1>5, <2>2 DEF Working, Begun
<1>14. QED
  BY <1>6, <1>7, <1>8, <1>9, <1>11, <1>12, <1>13

-----------------------------------------------------------------------------
(* Every step of a poll.                                                    *)
LEMMA PollStepKeeps ==
  ASSUME RenewalInv, NEW a \in Instance, Poll(a) \/ ContinuePoll(a) \/ Interrupt(a)
  PROVE  RenewalInv'
<1>1. CASE RefuseLease(a)
  BY <1>1, LeaveKeeps DEF RefuseLease, RenewalTypeOK
<1>2. CASE RefuseUnfinished(a)
  BY <1>2, LeaveKeeps DEF RefuseUnfinished, RenewalTypeOK
<1>3. CASE RefusePublish(a)
  BY <1>3, LeaveKeeps DEF RefusePublish, RenewalTypeOK
<1>4. CASE Interrupt(a)
  <2>1. /\ polling[a] # "idle" /\ Leave(a)
        /\ UNCHANGED <<vault, journal, change, world, sent>>
    BY <1>4 DEF Interrupt
  <2>2. faults' \in Nat
    BY <1>4 DEF Interrupt, Fault, RenewalTypeOK
  <2> QED
    BY <2>1, <2>2, LeaveKeeps
<1>5. QED
  BY <1>1, <1>2, <1>3, <1>4, PollKeeps, LeaseKeeps, AdoptKeeps, IntendKeeps,
     RequestKeeps, LoseRequestKeeps, SaveReplyKeeps, PublishKeeps, ForgetKeeps
  DEF ContinuePoll

(* Every step of a switch.                                                  *)
LEMMA SwitchKeeps ==
  ASSUME RenewalInv, Switch
  PROVE  RenewalInv'
<1>1. CASE FinishSwitch
  BY <1>1, ClientSaves DEF FinishSwitch, RenewalTypeOK
<1>2. CASE FailSwitch
  <2>1. RenewalTypeOK'
    BY <1>2 DEF FailSwitch, Fault, RenewalTypeOK
  <2>2. QED
    BY <1>2, <2>1, BystanderKeeps DEF FailSwitch, Changing
<1>3. CASE RecoverSwitch
  <2>1. CASE UNCHANGED <<profile, handed, minted>>
    <3>1. RenewalTypeOK' /\ Changing'
      BY <1>3, <2>1 DEF RecoverSwitch, RenewalTypeOK, Changing
    <3>2. QED
      BY <1>3, <2>1, <3>1, BystanderKeeps DEF RecoverSwitch
  <2>2. CASE \E t \in Token : ClientToken(t) /\ SaveOver(t)
    BY <1>3, <2>2, ClientSaves DEF RecoverSwitch, RenewalTypeOK
  <2>3. QED
    BY <1>3, <2>1, <2>2 DEF RecoverSwitch
<1>4. QED
  BY <1>1, <1>2, <1>3, BeginSwitchKeeps, WriteNativeKeeps DEF Switch

(* Every step beside them.                                                  *)
LEMMA OthersKeep ==
  ASSUME RenewalInv, Others
  PROVE  RenewalInv'
<1>1. CASE OtherBegins
  <2>1. RenewalTypeOK' /\ Changing'
    BY <1>1 DEF OtherBegins, RenewalTypeOK, Changing
  <2>2. QED
    BY <1>1, <2>1, BystanderKeeps DEF OtherBegins
<1>2. CASE OtherEnds
  <2>1. RenewalTypeOK' /\ Changing'
    BY <1>2 DEF OtherEnds, RenewalTypeOK, Changing
  <2>2. QED
    BY <1>2, <2>1, BystanderKeeps DEF OtherEnds
<1>3. CASE UserSigns
  <2>1. RenewalTypeOK' /\ Changing'
    BY <1>3 DEF UserSigns, RenewalTypeOK, Changing, Unspent
  <2>2. QED
    BY <1>3, <2>1, BystanderKeeps DEF UserSigns
<1>4. CASE SaveNative
  BY <1>4, ClientSaves DEF SaveNative, RenewalTypeOK
<1>5. QED
  BY <1>1, <1>2, <1>3, <1>4, SignOutKeeps, SignInKeeps, RemoveKeeps DEF Others

(* The invariant is inductive.                                              *)
LEMMA RenewalStepKeeps == RenewalInv /\ [RenewalNext]_renewalVars => RenewalInv'
<1>1. SUFFICES ASSUME RenewalInv, [RenewalNext]_renewalVars PROVE RenewalInv'
  OBVIOUS
<1>2. CASE UNCHANGED renewalVars
  <2>1. /\ profile' = profile /\ recovering' = recovering /\ journal' = journal
        /\ lease' = lease /\ polling' = polling /\ source' = source /\ reply' = reply
        /\ change' = change /\ signedIn' = signedIn /\ handed' = handed
        /\ sent' = sent /\ minted' = minted /\ faults' = faults
    BY <1>2 DEF renewalVars
  <2>2. RenewalTypeOK'
    <3> HIDE DEF Profile, Journal, PollStage, Token, MaybeToken
    <3>1. QED
      BY <1>1, <2>1 DEF RenewalTypeOK
  <2>3. Changing'
    BY <1>1, <2>1 DEF Changing, Unspent
  <2>4. QED
    BY <1>1, <2>1, <2>2, <2>3, BystanderKeeps
<1>3. QED
  BY <1>1, <1>2, PollStepKeeps, SwitchKeeps, OthersKeep DEF RenewalNext

(* The inductive invariant holds of every reachable state.                  *)
THEOREM RenewalInvariant == RenewalSpec => []RenewalInv
<1> HIDE DEF RenewalInv
<1>1. QED
  BY RenewalInitSound, RenewalStepKeeps, PTL DEF RenewalSpec

-----------------------------------------------------------------------------
(* The variables keep their types.                                          *)
THEOREM RenewalTyped == RenewalSpec => []RenewalTypeOK
<1>1. RenewalInv => RenewalTypeOK
  OBVIOUS
<1> HIDE DEF RenewalInv
<1>2. QED
  BY RenewalInvariant, <1>1, PTL

(* Whatever dies, fails or polls beside it, renew_owned asks the issuer with*)
(* a refresh token at most once.                                            *)
THEOREM AskedOnce == RenewalSpec => []SpentOnce
<1>1. RenewalInv => SpentOnce
  BY DEF Tokens
<1> HIDE DEF RenewalInv
<1>2. QED
  BY RenewalInvariant, <1>1, PTL

(* No native client is ever given a token the app has asked with.           *)
THEOREM NeverGivenSpent == RenewalSpec => []SpentIsPrivate
<1>1. RenewalInv => SpentIsPrivate
  BY DEF Tokens
<1> HIDE DEF RenewalInv
<1>2. QED
  BY RenewalInvariant, <1>1, PTL

(* A whole reply leaves the journal only when the vault holds another login *)
(* than the one it renews: only the lease holder writes the journal, and it *)
(* does so for another login or after it published.                         *)
THEOREM ReplyIsKept == RenewalSpec => ReplyKept
<1>1. ASSUME RenewalInv, RenewalNext, Finished, journal' # journal
      PROVE  profile.login # journal.of
  <2>1. sent[journal.of] > 0
    BY <1>1 DEF ReplyUsable
  <2>2. PICK a \in Instance : Intend(a) \/ SaveReply(a) \/ Forget(a)
    BY <1>1 DEF RenewalNext, ContinuePoll, Switch, Others, Poll, Lease, RefuseLease, Adopt,
       RefuseUnfinished, Request, LoseRequest, Publish, RefusePublish, Interrupt,
       BeginSwitch, WriteNative, FinishSwitch, FailSwitch, RecoverSwitch,
       SignOut, SignIn, Remove, SaveNative, OtherBegins, OtherEnds, UserSigns
  <2>3. CASE Intend(a)
    BY <1>1, <2>1, <2>3 DEF Intend, Begun, Finished, Working, Unspent, RenewalTypeOK
  <2>4. CASE SaveReply(a)
    BY <1>1, <2>4 DEF SaveReply, Finished, Working
  <2>5. CASE Forget(a)
    BY <1>1, <2>1, <2>5 DEF Forget, Finished, Working, Unspent, RenewalTypeOK
  <2>6. QED
    BY <2>2, <2>3, <2>4, <2>5
<1>2. RenewalInv /\ [RenewalNext]_renewalVars
        => [Finished /\ journal' # journal => profile.login # journal.of]_renewalVars
  BY <1>1
<1> HIDE DEF RenewalInv
<1>3. QED
  BY RenewalInvariant, <1>2, PTL DEF RenewalSpec, ReplyKept
=============================================================================
