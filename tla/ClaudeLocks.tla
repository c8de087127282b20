----------------------------- MODULE ClaudeLocks -----------------------------
(***************************************************************************)
(* accounts/claude_store.rs, accounts/keychain.rs and ClaudeNative::publish*)
(* in accounts/claude.rs: the app and Claude Code change one credential    *)
(* document under lock directories both take.  A directory's age is the    *)
(* time since it was touched; one older than its staleness is broken.  The *)
(* document is the Keychain's when there is an item, else the file's.      *)
(* Time is counted in steps of several heartbeats: a holder that is running*)
(* touches its directories at least once in each.                          *)
(*                                                                         *)
(* A definition placed just before the one whose name it extends is that   *)
(* one with a mistake in it; nothing uses it.                              *)
(***************************************************************************)
EXTENDS Naturals, Sequences

CONSTANTS Writer,      \* the app and Claude Code
          Missing,     \* no directory, no item, no file
          RefreshStale, StorageStale, \* LOCK_STALE, STORAGE_WRITE_STALE in steps
          MaxWrites,   \* bound: changes begun
          MaxCrashes, MaxDenials

(* LockScope::paths, the refresh locks and the configuration file's as one. *)
Path  == {"refresh", "storage"}
Stale == [refresh |-> RefreshStale, storage |-> StorageStale]
Plans == {<<"refresh", "storage">>, <<"storage">>}
Age   == 0 .. RefreshStale + StorageStale + 1

Edit   == 1..MaxWrites
Document == SUBSET Edit \* the changes it holds

ASSUME LocksAssumption ==
  /\ {RefreshStale, StorageStale, MaxWrites, MaxCrashes, MaxDenials} \subseteq Nat
  /\ \A value \in Age \cup Document : value # Missing

VARIABLES dir,      \* each lock directory's age, or Missing
          holder,   \* what each writer is doing, and what it took
          lost,     \* the flag its heartbeat sets
          stores,    \* the Keychain's item and the file
          denied,   \* the Keychain cannot be read
          used,     \* what is used of each bound
          kept,     \* ghost: changes answered done
          doubly    \* ghost: a directory that was not stale was ever broken

lockVars == <<dir, holder, lost, stores, denied, used, kept, doubly>>

Away == [step |-> "away"]

LocksInit ==
  /\ dir = [p \in Path |-> Missing]
  /\ holder = [w \in Writer |-> Away]
  /\ lost = [w \in Writer |-> FALSE]
  /\ stores \in {[key |-> Missing, file |-> {}], [key |-> {}, file |-> Missing],
                [key |-> {}, file |-> {}]}
  /\ denied = FALSE
  /\ used = [writes |-> 0, crashes |-> 0, denials |-> 0]
  /\ kept = {}
  /\ doubly = FALSE

Once(kind, bound) == used[kind] < bound /\ used' = [used EXCEPT ![kind] = @ + 1]
AtStep(w, step) == holder[w].step = step
GoOn(w, step) == holder' = [holder EXCEPT ![w].step = step]
NextLock(w)    == holder[w].plan[Len(holder[w].held) + 1] \* the lock to take now

BeginWrite(w) ==
  /\ AtStep(w, "away") /\ Once("writes", MaxWrites)
  /\ \E plan \in Plans :
       holder' = [holder EXCEPT ![w] = [step |-> "take", plan |-> plan, held |-> <<>>,
                                        id |-> used'.writes, read |-> {}, target |-> "none"]]
  /\ lost' = [lost EXCEPT ![w] = FALSE]
  /\ UNCHANGED <<dir, stores, denied, kept, doubly>>

(* The directory is this writer's; with the last one the store is read.     *)
Took(w) ==
  LET h == holder[w] IN
  /\ dir' = [dir EXCEPT ![NextLock(w)] = 0]
  /\ holder' = [holder EXCEPT
       ![w].held = Append(h.held, NextLock(w)),
       ![w].step = IF Len(h.held) + 1 = Len(h.plan) THEN "read" ELSE "take"]

(* take: made when there is none, busy when it is fresh, else broken.       *)
Take(w) ==
  /\ AtStep(w, "take")
  /\ LET p == NextLock(w) IN
     \/ dir[p] = Missing /\ Took(w)
     \/ dir[p] # Missing /\ dir[p] <= Stale[p] /\ GoOn(w, "release") /\ UNCHANGED dir
     \/ dir[p] # Missing /\ dir[p] > Stale[p] /\ GoOn(w, "break") /\ UNCHANGED dir
  /\ UNCHANGED <<lost, stores, denied, used, kept, doubly>>

Break(w) ==
  /\ AtStep(w, "break")
  /\ LET p == NextLock(w) IN
     /\ doubly' = (doubly \/ (dir[p] # Missing /\ dir[p] <= Stale[p]))
     /\ dir' = [dir EXCEPT ![p] = Missing]
  /\ GoOn(w, "retake")
  /\ UNCHANGED <<lost, stores, denied, used, kept>>

Retake(w) ==
  /\ AtStep(w, "retake")
  /\ IF dir[NextLock(w)] = Missing THEN Took(w) ELSE GoOn(w, "release") /\ UNCHANGED dir
  /\ UNCHANGED <<lost, stores, denied, used, kept, doubly>>

(* begin and prove: the store is read under its lock; a Keychain that       *)
(* cannot be read leaves unknown which store counts, and nothing is written.*)
ReadStoreAnyway(w) ==
  /\ AtStep(w, "read")
  /\ IF stores.key # Missing /\ ~denied
     THEN holder' = [holder EXCEPT ![w].step = "check", ![w].read = stores.key,
                                   ![w].target = "key"]
     ELSE holder' = [holder EXCEPT ![w].step = "check", ![w].target = "file",
                       ![w].read = IF stores.file = Missing THEN {} ELSE stores.file]
  /\ UNCHANGED <<dir, lost, stores, denied, used, kept, doubly>>

ReadStore(w) ==
  /\ AtStep(w, "read")
  /\ IF denied
     THEN GoOn(w, "release")
     ELSE IF stores.key # Missing
     THEN holder' = [holder EXCEPT ![w].step = "check", ![w].read = stores.key,
                                   ![w].target = "key"]
     ELSE holder' = [holder EXCEPT ![w].step = "check", ![w].target = "file",
                       ![w].read = IF stores.file = Missing THEN {} ELSE stores.file]
  /\ UNCHANGED <<dir, lost, stores, denied, used, kept, doubly>>

CheckLost(w) ==
  /\ AtStep(w, "check")
  /\ GoOn(w, IF lost[w] THEN "release" ELSE "commit")
  /\ UNCHANGED <<dir, lost, stores, denied, used, kept, doubly>>

CommitDocument(w) ==
  /\ AtStep(w, "commit")
  /\ LET h == holder[w] IN
     /\ stores' = [stores EXCEPT ![h.target] = h.read \cup {h.id}]
     /\ kept' \in {kept, kept \cup {h.id}} \* a write not answered in time may be done
  /\ GoOn(w, "release")
  /\ UNCHANGED <<dir, lost, denied, used, doubly>>

CommitDocumentFails(w) ==
  /\ AtStep(w, "commit") /\ GoOn(w, "release")
  /\ UNCHANGED <<dir, lost, stores, denied, used, kept, doubly>>

(* Drop: the directories go in reverse, whoever made what is there now.     *)
Release(w) ==
  /\ AtStep(w, "release")
  /\ LET held == holder[w].held IN
     IF held = <<>>
     THEN holder' = [holder EXCEPT ![w] = Away] /\ UNCHANGED dir
     ELSE /\ dir' = [dir EXCEPT ![held[Len(held)]] = Missing]
          /\ holder' = [holder EXCEPT ![w].held = SubSeq(held, 1, Len(held) - 1)]
  /\ UNCHANGED <<lost, stores, denied, used, kept, doubly>>

(* A heartbeat that misses a directory sets the flag and touches no more.   *)
Beating(w) == holder[w].step \in {"read", "check", "commit"} /\ ~lost[w]
HeldBy(w)  == IF holder[w].step = "away" THEN {}
              ELSE {holder[w].held[i] : i \in DOMAIN holder[w].held}

Older(p) == IF dir[p] = Missing \/ dir[p] + 1 \notin Age THEN dir[p] ELSE dir[p] + 1

(* Time passes: the holders that run touch their directories, whoever made  *)
(* them, and see one that is gone.  Locks are taken and left in no time.    *)
TickUntouched ==
  /\ \A w \in Writer : holder[w].step \notin {"take", "break", "retake", "release"}
  /\ dir' = [p \in Path |-> Older(p)]
  /\ lost' = [w \in Writer |-> lost[w] \/ (Beating(w) /\ \E p \in HeldBy(w) : dir[p] = Missing)]
  /\ UNCHANGED <<holder, stores, denied, used, kept, doubly>>

Tick ==
  /\ \A w \in Writer : holder[w].step \notin {"take", "break", "retake", "release"}
  /\ dir' = [p \in Path |-> IF dir[p] # Missing /\ \E w \in Writer : Beating(w) /\ p \in HeldBy(w)
                            THEN 0 ELSE Older(p)]
  /\ lost' = [w \in Writer |-> lost[w] \/ (Beating(w) /\ \E p \in HeldBy(w) : dir[p] = Missing)]
  /\ UNCHANGED <<holder, stores, denied, used, kept, doubly>>

(* A process ends anywhere; what it held is left behind.                    *)
Die(w) ==
  /\ holder[w].step # "away" /\ Once("crashes", MaxCrashes)
  /\ holder' = [holder EXCEPT ![w] = Away]
  /\ UNCHANGED <<dir, lost, stores, denied, kept, doubly>>

(* The Keychain stops answering, and answers again.                         *)
Deny ==
  /\ Once("denials", MaxDenials) /\ denied' = ~denied
  /\ UNCHANGED <<dir, holder, lost, stores, kept, doubly>>

LocksNext ==
  \/ \E w \in Writer :
       \/ BeginWrite(w) \/ Take(w) \/ Break(w) \/ Retake(w) \/ ReadStore(w) \/ CheckLost(w)
       \/ CommitDocument(w) \/ CommitDocumentFails(w) \/ Release(w) \/ Die(w)
  \/ Tick \/ Deny

LocksSpec == LocksInit /\ [][LocksNext]_lockVars

---------------------------------------------------------------------------
LocksTypeOK ==
  /\ dir \in [Path -> Age \cup {Missing}]
  /\ lost \in [Writer -> BOOLEAN]
  /\ stores \in [{"key", "file"} -> Document \cup {Missing}]
  /\ kept \subseteq Edit

(* The document Claude Code reads.                                          *)
Seen == IF stores.key # Missing THEN stores.key ELSE stores.file

(* A change answered done is in the document that is read from then on,     *)
(* unless two writers broke one stale lock: each write is a change of the   *)
(* document read under the lock, held as long as the write takes            *)
(* (claude_store::begin, Heartbeat).                                        *)
ChangesKept == ~doubly => kept = {} \/ kept \subseteq Seen

(* The same though a lock was left behind: the two take turns.              *)
TurnsTaken == kept = {} \/ kept \subseteq Seen
=============================================================================
