----------------------------- MODULE ItemInstall -----------------------------
(***************************************************************************)
(* item_install/: skills and subagents installed one by one from GitHub    *)
(* repositories.  Each place an item can be written to is one file or      *)
(* folder on disk and at most one entry in the registry, a single file that*)
(* is loaded, changed and saved under a lock.  What a repository holds is  *)
(* remembered in memory (Memo): the commit its ref was last seen at, and   *)
(* the last few tarballs.  Downloads and lookups run outside the lock.     *)
(*                                                                         *)
(* A definition placed just before the one whose name it extends is that   *)
(* one with a mistake in it; nothing uses it.                              *)
(***************************************************************************)
EXTENDS Naturals, Sequences

CONSTANTS Worker, NoWorker, \* calls of the service under way
          Place,            \* where items are written to
          FileName,         \* file names, of one provider each
          NameOf,           \* the file name of each place
          Repo,             \* repositories, each with an item for every place
          Nothing,          \* no item, no entry, no tarball
          Mine,             \* what the user wrote there
          Unsaid,           \* no answer about a place yet
          MaxCommit,        \* bound: commits of a repository
          MaxTarballs,      \* MAX_MEMO_TARBALLS
          Keep,             \* KEEP: the backups of a file name that are kept
          MaxCalls,         \* bound: calls of the service
          MaxMishaps        \* bound: failed steps, and exits of the app

Sha     == 1..MaxCommit
Tarball == Repo \X Sha          \* what a repository holds at a commit
Stored  == Tarball \cup {Mine, Nothing}

(* A backup in items/ of what was at a place, Nothing when it is not whole. *)
Copy == [of : Place, content : Stored]

(* registry.rs InstalledItem: where it came from, the commit recorded, the  *)
(* hashes of the files written, the commit the user does not want.          *)
Entry == [repo : Repo, sha : Sha, files : Tarball, dismissed : Sha \cup {0}]

ASSUME ItemAssumption ==
  /\ {MaxCommit, MaxTarballs, Keep} \subseteq Nat \ {0}
  /\ NameOf \in [Place -> FileName]
  /\ {MaxCalls, MaxMishaps} \subseteq Nat
  /\ NoWorker \notin Worker /\ Nothing \notin Entry /\ Mine # Nothing

Asked == {"install", "overwrite", "dismiss", "remove", "look", "none"}

(* A call: its step, what it was asked, what it has read.                   *)
Call == [step : {"idle", "ask", "told", "snapshot", "download", "remember",
                 "lock", "check", "place", "swap", "fill", "save"},
         op : Asked, place : Place \cup {Nothing}, repo : Repo \cup {Nothing},
         sha : 0..MaxCommit, over : BOOLEAN, tar : Tarball \cup {Nothing},
         loaded : [Place -> Entry \cup {Nothing}] \cup {Nothing}]

VARIABLES head,     \* the commit each repository's ref is at
          placed,   \* what is at each place
          aside,    \* what was moved away from it
          copies,   \* the backups of each file name, oldest first
          registry, \* the saved registry
          lock,     \* registry_lock
          shas,     \* Memo.shas, 0 when unknown
          tarballs, \* Memo.tarballs in Memo.order
          work,     \* the calls
          calls, mishaps,
          wrote,    \* ghost: places the user wrote to
          depth,    \* ghost: which backup of its name, newest first, is that of what
                    \* the user wrote at a place; 0 before there is one
          answered  \* ghost: what the last answer said of each place

memo     == <<shas, tarballs>>
onDisk   == <<placed, aside, copies, depth>>
itemVars == <<head, onDisk, registry, lock, memo, work, calls, mishaps, wrote, answered>>

Resting == [step |-> "idle", op |-> "none", place |-> Nothing, repo |-> Nothing, sha |-> 0,
            over |-> FALSE, tar |-> Nothing, loaded |-> Nothing]

ItemInit ==
  /\ head = [r \in Repo |-> 1]
  /\ placed \in [Place -> {Mine, Nothing}]
  /\ aside = [p \in Place |-> Nothing]
  /\ copies = [n \in FileName |-> <<>>]
  /\ depth = [p \in Place |-> 0]
  /\ registry = [p \in Place |-> Nothing]
  /\ lock = NoWorker
  /\ shas = [r \in Repo |-> 0]
  /\ tarballs = <<>>
  /\ work = [w \in Worker |-> Resting]
  /\ calls = 0 /\ mishaps = 0
  /\ wrote = {p \in Place : placed[p] = Mine}
  /\ answered = [p \in Place |-> Unsaid]

Go(w, step) == work' = [work EXCEPT ![w].step = step]
Rest(w)     == work' = [work EXCEPT ![w] = Resting]
At(w, step) == work[w].step = step
Mishap      == mishaps < MaxMishaps /\ mishaps' = mishaps + 1
NewCall(w)  == At(w, "idle") /\ calls < MaxCalls /\ calls' = calls + 1

---------------------------------------------------------------------------
(* install_items, with the commit the user was shown.                       *)
InstallItems(w) ==
  /\ NewCall(w)
  /\ \E p \in Place, r \in Repo, over \in BOOLEAN : \E c \in 1..head[r] :
       work' = [work EXCEPT ![w] = [Resting EXCEPT !.step = "snapshot", !.op = "install",
                    !.place = p, !.repo = r, !.sha = c, !.over = over]]
  /\ UNCHANGED <<head, onDisk, registry, lock, memo, mishaps, wrote, answered>>

(* update_item reads the entry before the lock; the commit comes from memory*)
(* when it is there.                                                        *)
UpdateItem(w) ==
  /\ NewCall(w)
  /\ \E p \in Place, op \in {"overwrite", "dismiss"} :
       /\ registry[p] # Nothing
       /\ LET r == registry[p].repo IN
          work' = [work EXCEPT ![w] = [Resting EXCEPT
                     !.step = IF shas[r] = 0 THEN "ask"
                              ELSE IF op = "dismiss" THEN "lock" ELSE "snapshot",
                     !.op = op, !.place = p, !.repo = r, !.sha = shas[r]]]
  /\ UNCHANGED <<head, onDisk, registry, lock, memo, mishaps, wrote, answered>>

RemoveItem(w) ==
  /\ NewCall(w)
  /\ \E p \in Place :
       work' = [work EXCEPT ![w] =
                    [Resting EXCEPT !.step = "lock", !.op = "remove", !.place = p]]
  /\ UNCHANGED <<head, onDisk, registry, lock, memo, mishaps, wrote, answered>>

(* inspect_marketplace, and item_update_status of an entry of the repository*)
(* (a forced one asks again; compare_upstream needs the tarball).           *)
LookUp(w) ==
  /\ NewCall(w)
  /\ \E r \in Repo, force \in BOOLEAN :
       work' = [work EXCEPT ![w] = [Resting EXCEPT
                    !.step = IF force \/ shas[r] = 0 THEN "ask" ELSE "snapshot",
                    !.op = "look", !.repo = r, !.sha = shas[r]]]
  /\ UNCHANGED <<head, onDisk, registry, lock, memo, mishaps, wrote, answered>>

---------------------------------------------------------------------------
(* upstream_sha: the answer is remembered when it arrives.                  *)
AskCommit(w) ==
  /\ At(w, "ask")
  /\ work' = [work EXCEPT ![w].step = "told", ![w].sha = head[work[w].repo]]
  /\ UNCHANGED <<head, onDisk, registry, lock, memo, calls, mishaps, wrote, answered>>

Told(w) ==
  /\ At(w, "told")
  /\ shas' = [shas EXCEPT ![work[w].repo] = work[w].sha]
  /\ Go(w, IF work[w].op = "dismiss" THEN "lock" ELSE "snapshot")
  /\ UNCHANGED <<head, onDisk, registry, lock, tarballs, calls, mishaps, wrote, answered>>

Unheard(w) ==
  /\ At(w, "ask") /\ Mishap
  /\ IF work[w].op = "look" THEN Go(w, "snapshot") ELSE Rest(w)
  /\ UNCHANGED <<head, onDisk, registry, lock, memo, calls, wrote, answered>>

HeldTarballs == {tarballs[i] : i \in DOMAIN tarballs}

(* snapshot_at: the tarball of that commit, else of the commit last seen,   *)
(* else a download of the ref.                                              *)
Snapshot(w) ==
  /\ At(w, "snapshot")
  /\ LET r == work[w].repo
         held == {t \in {<<r, work[w].sha>>, <<r, shas[r]>>} : t \in HeldTarballs}
         found == IF <<r, work[w].sha>> \in HeldTarballs THEN <<r, work[w].sha>> ELSE <<r, shas[r]>>
     IN IF held = {} THEN Go(w, "download")
        ELSE IF work[w].op = "look" THEN Rest(w)
        ELSE work' = [work EXCEPT ![w].step = "lock", ![w].tar = found]
  /\ UNCHANGED <<head, onDisk, registry, lock, memo, calls, mishaps, wrote, answered>>

Download(w) ==
  /\ At(w, "download")
  /\ work' = [work EXCEPT ![w].step = "remember",
                            ![w].tar = <<work[w].repo, head[work[w].repo]>>]
  /\ UNCHANGED <<head, onDisk, registry, lock, memo, calls, mishaps, wrote, answered>>

DownloadFails(w) ==
  /\ At(w, "download") /\ Mishap /\ Rest(w)
  /\ UNCHANGED <<head, onDisk, registry, lock, memo, calls, wrote, answered>>

(* Memo::remember: the tarball is held, the oldest is let go.               *)
RememberTarball(w) ==
  /\ At(w, "remember")
  /\ LET t == work[w].tar
         all == IF t \in HeldTarballs THEN tarballs ELSE Append(tarballs, t)
     IN /\ shas' = [shas EXCEPT ![t[1]] = t[2]]
        /\ tarballs' = IF Len(all) > MaxTarballs THEN Tail(all) ELSE all
  /\ IF work[w].op = "look" THEN Rest(w) ELSE Go(w, "lock")
  /\ UNCHANGED <<head, onDisk, registry, lock, calls, mishaps, wrote, answered>>

---------------------------------------------------------------------------
(* with_registry: the file is loaded, changed and saved under the lock.     *)
TakeRegistryTogether(w) ==
  /\ At(w, "lock")
  /\ lock' = w
  /\ work' = [work EXCEPT ![w].step = "check", ![w].loaded = registry]
  /\ UNCHANGED <<head, onDisk, registry, memo, calls, mishaps, wrote, answered>>

TakeRegistry(w) ==
  /\ At(w, "lock") /\ lock = NoWorker
  /\ lock' = w
  /\ work' = [work EXCEPT ![w].step = "check", ![w].loaded = registry]
  /\ UNCHANGED <<head, onDisk, registry, memo, calls, mishaps, wrote, answered>>

Exists(w) == placed[work[w].place] # Nothing
HasEntry(w) == work[w].loaded[work[w].place] # Nothing

(* Not there to change, or there and not the app's to replace.              *)
Unfit(w) ==
  \/ work[w].op # "install" /\ ~HasEntry(w)
  \/ work[w].op = "install" /\ Exists(w) /\ ~HasEntry(w) /\ ~work[w].over

Conflict(w) ==
  /\ At(w, "check") /\ Unfit(w)
  /\ Rest(w) /\ lock' = NoWorker
  /\ UNCHANGED <<head, onDisk, registry, memo, calls, mishaps, wrote, answered>>

(* BackupStore::snapshot: a copy is added to those of the file name, which  *)
(* the places of that name share, and all but the newest Keep go.  When it  *)
(* is cut short the copy stays, whole or not, and none goes then.           *)
Pruned(s) == IF Len(s) > Keep THEN SubSeq(s, Len(s) - Keep + 1, Len(s)) ELSE s

BacksUp(w) == At(w, "check") /\ ~Unfit(w) /\ Exists(w) /\ work[w].op # "dismiss"

Added(p, content) == Append(copies[NameOf[p]], [of |-> p, content |-> content])

Deepened(p, content) ==
  [q \in Place |-> IF q = p /\ content = Mine THEN 1
                   ELSE IF NameOf[q] = NameOf[p] /\ depth[q] # 0 THEN depth[q] + 1
                   ELSE depth[q]]

CopyTaken(w) ==
  LET p == work[w].place
  IN  /\ copies' = [copies EXCEPT ![NameOf[p]] = Pruned(Added(p, placed[p]))]
      /\ depth' = Deepened(p, placed[p])

CopyCutShort(w) ==
  LET p == work[w].place
  IN  \E content \in {placed[p], Nothing} :
        /\ copies' = [copies EXCEPT ![NameOf[p]] = Added(p, content)]
        /\ depth' = Deepened(p, content)

(* What is there is copied before it is replaced or removed.                *)
BackUpItemOthers(w) ==
  /\ At(w, "check") /\ ~Unfit(w)
  /\ IF BacksUp(w) /\ ~HasEntry(w) THEN CopyTaken(w) ELSE UNCHANGED <<copies, depth>>
  /\ Go(w, IF work[w].op = "dismiss" THEN "save" ELSE "place")
  /\ UNCHANGED <<head, placed, aside, registry, lock, memo, calls, mishaps, wrote, answered>>

BackUpItem(w) ==
  /\ At(w, "check") /\ ~Unfit(w)
  /\ IF BacksUp(w) THEN CopyTaken(w) ELSE UNCHANGED <<copies, depth>>
  /\ Go(w, IF work[w].op = "dismiss" THEN "save" ELSE "place")
  /\ UNCHANGED <<head, placed, aside, registry, lock, memo, calls, mishaps, wrote, answered>>

(* A copy that fails, or after which the others cannot be listed, ends the  *)
(* call; so does a file operation that fails.  Once something was moved     *)
(* aside it is put back, if that does not fail as well.                     *)
CopyFails(w) ==
  /\ BacksUp(w) /\ Mishap /\ Rest(w) /\ lock' = NoWorker
  /\ \/ UNCHANGED <<copies, depth>>
     \/ CopyCutShort(w)
  /\ UNCHANGED <<head, placed, aside, registry, memo, calls, wrote, answered>>

PlaceFails(w) ==
  /\ work[w].step \in {"place", "swap", "fill"} /\ Mishap /\ Rest(w) /\ lock' = NoWorker
  /\ LET p == work[w].place
     IN  \/ /\ At(w, "swap")
            /\ placed' = [placed EXCEPT ![p] = aside[p]]
            /\ aside' = [aside EXCEPT ![p] = Nothing]
         \/ UNCHANGED <<placed, aside>>
  /\ UNCHANGED <<head, copies, depth, registry, memo, calls, wrote, answered>>

(* remove_item deletes, if there is something; swap_in moves what is there  *)
(* aside, then the staged files into its place.                             *)
Delete(w) ==
  /\ At(w, "place") /\ work[w].op = "remove"
  /\ placed' = [placed EXCEPT ![work[w].place] = Nothing]
  /\ Go(w, "save")
  /\ UNCHANGED <<head, aside, copies, depth, registry, lock, memo, calls, mishaps, wrote, answered>>

MoveAside(w) ==
  /\ At(w, "place") /\ work[w].op # "remove"
  /\ LET p == work[w].place IN
     IF Exists(w)
     THEN aside' = [aside EXCEPT ![p] = placed[p]] /\ placed' = [placed EXCEPT ![p] = Nothing]
     ELSE UNCHANGED <<placed, aside>>
  /\ Go(w, IF Exists(w) THEN "swap" ELSE "fill")
  /\ UNCHANGED <<head, copies, depth, registry, lock, memo, calls, mishaps, wrote, answered>>

SwapIn(w) ==
  /\ work[w].step \in {"swap", "fill"}
  /\ placed' = [placed EXCEPT ![work[w].place] = work[w].tar]
  /\ aside' = IF At(w, "swap") THEN [aside EXCEPT ![work[w].place] = Nothing] ELSE aside
  /\ Go(w, "save")
  /\ UNCHANGED <<head, copies, depth, registry, lock, memo, calls, mishaps, wrote, answered>>

(* The entry after the call: an update keeps where the item came from.      *)
NewEntry(w) ==
  LET old == work[w].loaded[work[w].place] IN
  CASE work[w].op = "remove"    -> Nothing
    [] work[w].op = "dismiss"   -> [old EXCEPT !.dismissed = work[w].sha]
    [] work[w].op = "overwrite" -> [old EXCEPT !.sha = work[w].tar[2], !.files = work[w].tar,
                                               !.dismissed = 0]
    [] work[w].op = "install"   -> [repo |-> work[w].repo, sha |-> work[w].tar[2],
                                    files |-> work[w].tar, dismissed |-> 0]

SaveRegistry(w) ==
  /\ At(w, "save")
  /\ registry' = [work[w].loaded EXCEPT ![work[w].place] = NewEntry(w)]
  /\ answered' = [answered EXCEPT ![work[w].place] = NewEntry(w)]
  /\ Rest(w) /\ lock' = NoWorker
  /\ UNCHANGED <<head, onDisk, memo, calls, mishaps, wrote>>

SaveRegistryFails(w) ==
  /\ At(w, "save") /\ Mishap
  /\ Rest(w) /\ lock' = NoWorker
  /\ UNCHANGED <<head, onDisk, registry, memo, calls, wrote, answered>>

---------------------------------------------------------------------------
Push ==
  /\ \E r \in Repo : head[r] < MaxCommit /\ head' = [head EXCEPT ![r] = @ + 1]
  /\ UNCHANGED <<onDisk, registry, lock, memo, work, calls, mishaps, wrote, answered>>

AtPlace    == {"place", "swap", "fill"}
Placing(p) == \E w \in Worker : work[w].step \in AtPlace /\ work[w].place = p

(* The user writes at a place, though not between its copy and its change.  *)
UserWrites ==
  /\ \E p \in Place \ wrote :
       /\ ~Placing(p)
       /\ placed' = [placed EXCEPT ![p] = Mine]
       /\ wrote' = wrote \cup {p}
  /\ UNCHANGED <<head, aside, copies, depth, registry, lock, memo, work, calls, mishaps, answered>>

ServiceEnds ==
  /\ Mishap /\ (\E w \in Worker : ~At(w, "idle"))
  /\ \/ UNCHANGED <<copies, depth>>
     \/ \E w \in Worker : BacksUp(w) /\ CopyCutShort(w)
  /\ work' = [w \in Worker |-> Resting]
  /\ lock' = NoWorker
  /\ shas' = [r \in Repo |-> 0] /\ tarballs' = <<>>
  /\ UNCHANGED <<head, placed, aside, registry, calls, wrote, answered>>

ItemNext ==
  \/ \E w \in Worker :
       \/ InstallItems(w) \/ UpdateItem(w) \/ RemoveItem(w) \/ LookUp(w)
       \/ AskCommit(w) \/ Told(w) \/ Unheard(w)
       \/ Snapshot(w) \/ Download(w) \/ DownloadFails(w) \/ RememberTarball(w)
       \/ TakeRegistry(w) \/ Conflict(w) \/ BackUpItem(w) \/ CopyFails(w) \/ PlaceFails(w)
       \/ Delete(w) \/ MoveAside(w) \/ SwapIn(w) \/ SaveRegistry(w) \/ SaveRegistryFails(w)
  \/ Push \/ UserWrites \/ ServiceEnds

ItemSpec == ItemInit /\ [][ItemNext]_itemVars

---------------------------------------------------------------------------
ItemTypeOK ==
  /\ head \in [Repo -> Sha]
  /\ placed \in [Place -> Stored] /\ aside \in [Place -> Stored]
  /\ copies \in [FileName -> Seq(Copy)] /\ depth \in [Place -> Nat]
  /\ registry \in [Place -> Entry \cup {Nothing}]
  /\ lock \in Worker \cup {NoWorker}
  /\ shas \in [Repo -> 0..MaxCommit]
  /\ tarballs \in Seq(Tarball) /\ Len(tarballs) <= MaxTarballs
  /\ work \in [Worker -> Call]
  /\ answered \in [Place -> Entry \cup {Nothing, Unsaid}]

(* What the user wrote at a place is still there, set aside or in a backup, *)
(* whatever is installed over it, fails or is cut short (install_one,       *)
(* update_item and remove_item: backup_item before place and remove_any),   *)
(* until Keep copies of the same file name have been taken after its own.   *)
InBackup(p) == \E i \in DOMAIN copies[NameOf[p]] :
                 copies[NameOf[p]][i] = [of |-> p, content |-> Mine]

OwnFilesKept ==
  \A p \in wrote : Mine \in {placed[p], aside[p]} \/ InBackup(p) \/ depth[p] > Keep

(* The registry says what the last call answered of each place, whatever    *)
(* other calls, failures and exits came after it (with_registry).           *)
AnswersRecorded ==
  \A p \in Place : answered[p] \in {Unsaid, registry[p]}

(* What is recorded as installed came from where the entry says it did.     *)
SourceTruthful ==
  \A p \in Place : registry[p] # Nothing => registry[p].files[1] = registry[p].repo
=============================================================================
