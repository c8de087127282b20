--------------------------- MODULE FileChangesProofs ---------------------------
(***************************************************************************)
(* Theorems about the two components that write the files of the agents:   *)
(* about ItemInstall, for any number of calls, places, repositories and    *)
(* commits, that what a call answered of a place stays in the registry and *)
(* that what the user wrote is not lost; about ConfigChange, for any number*)
(* of callers, items and failures, that what was answered done stands and  *)
(* that the content of the file survives.                                  *)
(***************************************************************************)
EXTENDS ConfigChange, ItemInstall, SequenceTheorems, TLAPS

-----------------------------------------------------------------------------
(* Items.                                                                   *)
Registered == {"check", "place", "swap", "fill", "save"}
Looking    == {"ask", "told", "snapshot", "download", "remember"}

(* What a call has read by each step, and which calls reach it.             *)
CallFits(c) ==
  /\ c \in Call
  /\ c.step \in Looking => c.op \in Asked \ {"remove", "none"} /\ c.repo \in Repo
  /\ c.step \in Looking /\ c.op # "look" => c.place \in Place
  /\ c.step \in {"snapshot", "download", "remember"} => c.op # "dismiss"
  /\ c.step = "remember" => c.tar \in Tarball
  /\ c.step \in Registered \cup {"lock"} =>
       /\ c.op \in Asked \ {"look", "none"} /\ c.place \in Place
       /\ c.op = "install" => c.repo \in Repo
       /\ c.op \in {"install", "overwrite"} => c.tar \in Tarball
       /\ c.op = "dismiss" => c.sha \in Sha \cup {0}
  /\ c.step \in Registered => c.loaded \in [Place -> Entry \cup {Nothing}]
  /\ c.step \in Registered \ {"check"} /\ c.op # "install" => c.loaded[c.place] # Nothing
  /\ c.step = "place" => c.op # "dismiss"
  /\ c.step \in {"swap", "fill"} => c.op \in {"install", "overwrite"}

CallsFit == work \in [Worker -> Call] /\ \A w \in Worker : CallFits(work[w])

DiskTyped ==
  /\ placed \in [Place -> Stored] /\ aside \in [Place -> Stored]
  /\ copies \in [FileName -> Seq(Copy)] /\ depth \in [Place -> Nat]

MemoTyped ==
  /\ head \in [Repo -> Sha]
  /\ shas \in [Repo -> 0..MaxCommit]
  /\ tarballs \in Seq(Tarball) /\ Len(tarballs) <= MaxTarballs

RegistryTyped ==
  /\ registry \in [Place -> Entry \cup {Nothing}]
  /\ lock \in Worker \cup {NoWorker}
  /\ answered \in [Place -> Entry \cup {Nothing, Unsaid}]

(* A call between loading the registry and saving it holds the lock, and    *)
(* what it loaded is still what is saved: nobody else saves meanwhile.      *)
LoadedIsSaved ==
  \A w \in Worker : work[w].step \in Registered => lock = w /\ work[w].loaded = registry

ItemInv == /\ DiskTyped /\ MemoTyped /\ RegistryTyped
           /\ CallsFit /\ LoadedIsSaved /\ AnswersRecorded

LEMMA RestingFits == Resting \in Call /\ CallFits(Resting) /\ Resting.step = "idle"
BY ItemAssumption DEF Resting, Call, CallFits, Asked, Looking, Registered

LEMMA ItemInvInit == ItemInit => ItemInv
<1> SUFFICES ASSUME ItemInit PROVE ItemInv
  OBVIOUS
<1> USE ItemAssumption DEF ItemInit
<1>1. DiskTyped
  BY DEF DiskTyped, Stored
<1>2. MemoTyped
  BY DEF MemoTyped, Sha
<1>3. RegistryTyped /\ AnswersRecorded
  BY DEF RegistryTyped, AnswersRecorded
<1>4. CallsFit /\ LoadedIsSaved
  BY RestingFits DEF CallsFit, LoadedIsSaved, Registered
<1> QED BY <1>1, <1>2, <1>3, <1>4 DEF ItemInv

(* A step of a call that leaves the registry alone: outside the lock, out of*)
(* it, or from one step under it to the next.                               *)
LEMMA CallMoves ==
  ASSUME ItemInv, NEW w \in Worker, NEW c, CallFits(c),
         work' = [work EXCEPT ![w] = c], UNCHANGED <<registry, answered>>,
         \/ c.step \notin Registered /\ (lock' = lock \/ (lock = w /\ lock' = NoWorker))
         \/ /\ c.step \in Registered /\ work[w].step \in Registered
            /\ c.loaded = work[w].loaded /\ lock' = lock
  PROVE  RegistryTyped' /\ CallsFit' /\ LoadedIsSaved' /\ AnswersRecorded'
<1>1. CallsFit'
  BY DEF ItemInv, CallsFit, CallFits
<1>2. LoadedIsSaved'
  BY DEF ItemInv, CallsFit, LoadedIsSaved
<1> QED BY <1>1, <1>2 DEF ItemInv, RegistryTyped, AnswersRecorded

(* What SaveRegistry writes is an entry, or none.                           *)
LEMMA NewEntryTyped ==
  ASSUME ItemInv, NEW w \in Worker, work[w].step = "save"
  PROVE  NewEntry(w) \in Entry \cup {Nothing}
<1> DEFINE c == work[w]
           old == c.loaded[c.place]
<1>1. CallFits(c) /\ c \in Call /\ c.step = "save"
  BY DEF ItemInv, CallsFit
<1>2. /\ c.op \in {"install", "overwrite", "dismiss", "remove"}
      /\ c.op = "install" => c.repo \in Repo
      /\ c.op \in {"install", "overwrite"} => c.tar \in Tarball
      /\ c.op = "dismiss" => c.sha \in Sha \cup {0}
      /\ c.op # "install" => old \in Entry
  BY <1>1 DEF CallFits, Registered, Asked
<1>3. c.tar \in Tarball => c.tar[2] \in Sha
  BY DEF Tarball
<1>4. CASE c.op = "install"
  BY <1>2, <1>3, <1>4 DEF NewEntry, Entry
<1>5. CASE c.op = "overwrite"
  BY <1>2, <1>3, <1>5 DEF NewEntry, Entry
<1>6. CASE c.op = "dismiss"
  BY <1>2, <1>6 DEF NewEntry, Entry
<1>7. CASE c.op = "remove"
  BY <1>7 DEF NewEntry
<1> QED BY <1>2, <1>4, <1>5, <1>6, <1>7

(* The steps outside the lock.                                              *)
LEMMA LookingSteps ==
  ASSUME ItemInv, NEW w \in Worker,
         \/ InstallItems(w) \/ UpdateItem(w) \/ RemoveItem(w) \/ LookUp(w)
         \/ AskCommit(w) \/ Told(w) \/ Unheard(w)
         \/ Snapshot(w) \/ Download(w) \/ DownloadFails(w) \/ RememberTarball(w)
  PROVE  ItemInv' /\ \E c : c.step \notin Registered /\ work' = [work EXCEPT ![w] = c]
<1>0. /\ work[w] \in Call /\ CallFits(work[w]) /\ work \in [Worker -> Call]
      /\ MemoTyped /\ RegistryTyped
      /\ Resting \in Call /\ CallFits(Resting) /\ Resting.step = "idle"
  BY RestingFits DEF ItemInv, CallsFit
<1> USE DEF At, NewCall, Mishap, onDisk, memo
<1>1. MemoTyped'
  <2>1. CASE Told(w)
    BY <1>0, <2>1 DEF Told, MemoTyped, Call
  <2>2. CASE RememberTarball(w)
    <3> DEFINE t == work[w].tar
               all == IF t \in HeldTarballs THEN tarballs ELSE Append(tarballs, t)
    <3>1. t \in Tarball /\ t[1] \in Repo /\ t[2] \in Sha
      BY <1>0, <2>2 DEF RememberTarball, CallFits, Tarball
    <3>2. all \in Seq(Tarball) /\ Len(all) <= MaxTarballs + 1
      BY <1>0, <3>1, ItemAssumption DEF MemoTyped
    <3>3. tarballs' = IF Len(all) > MaxTarballs THEN Tail(all) ELSE all
      BY <2>2 DEF RememberTarball
    <3> HIDE DEF all
    <3>4. tarballs' \in Seq(Tarball) /\ Len(tarballs') <= MaxTarballs
      BY <3>2, <3>3, ItemAssumption
    <3>5. shas' = [shas EXCEPT ![t[1]] = t[2]] /\ head' = head
      BY <2>2 DEF RememberTarball
    <3> HIDE DEF t
    <3>6. shas' \in [Repo -> 0..MaxCommit]
      BY <1>0, <3>1, <3>5 DEF MemoTyped, Sha
    <3> QED BY <1>0, <3>4, <3>5, <3>6 DEF MemoTyped
  <2>3. CASE /\ ~Told(w) /\ ~RememberTarball(w)
    BY <1>0, <2>3 DEF InstallItems, UpdateItem, RemoveItem, LookUp, AskCommit, Unheard,
      Snapshot, Download, DownloadFails, MemoTyped
  <2> QED BY <2>1, <2>2, <2>3
<1>2. UNCHANGED <<placed, aside, copies, depth, registry, lock, answered>>
  BY DEF InstallItems, UpdateItem, RemoveItem, LookUp, AskCommit, Told, Unheard,
    Snapshot, Download, DownloadFails, RememberTarball
<1>3. \E c : CallFits(c) /\ c.step \notin Registered /\ work' = [work EXCEPT ![w] = c]
  <2> USE ItemAssumption DEF CallFits, Call, Asked, Looking, Registered
  <2>1. CASE InstallItems(w)
    <3>1. PICK p \in Place, r \in Repo, over \in BOOLEAN : \E k \in 1..head[r] :
            work' = [work EXCEPT ![w] = [Resting EXCEPT !.step = "snapshot", !.op = "install",
                       !.place = p, !.repo = r, !.sha = k, !.over = over]]
      BY <2>1 DEF InstallItems
    <3>2. PICK k \in 1..head[r] :
            work' = [work EXCEPT ![w] = [Resting EXCEPT !.step = "snapshot", !.op = "install",
                       !.place = p, !.repo = r, !.sha = k, !.over = over]]
      BY <3>1
    <3>3. k \in 0..MaxCommit
      BY <1>0 DEF MemoTyped, Sha
    <3> DEFINE c == [Resting EXCEPT !.step = "snapshot", !.op = "install",
                       !.place = p, !.repo = r, !.sha = k, !.over = over]
    <3>4. c \in Call /\ c.step = "snapshot" /\ c.op = "install" /\ c.place = p /\ c.repo = r
      BY <1>0, <3>3, ZenonT(40)
    <3>5. work' = [work EXCEPT ![w] = c]
      BY <3>2
    <3> HIDE DEF c
    <3>6. CallFits(c) /\ c.step \notin Registered
      BY <3>4
    <3> QED BY <3>5, <3>6
  <2>2. CASE UpdateItem(w)
    <3>1. PICK p \in Place, op \in {"overwrite", "dismiss"} :
            /\ registry[p] # Nothing
            /\ LET r == registry[p].repo IN
               work' = [work EXCEPT ![w] = [Resting EXCEPT
                          !.step = IF shas[r] = 0 THEN "ask"
                                   ELSE IF op = "dismiss" THEN "lock" ELSE "snapshot",
                          !.op = op, !.place = p, !.repo = r, !.sha = shas[r]]]
      BY <2>2 DEF UpdateItem
    <3> DEFINE r == registry[p].repo
               step == IF shas[r] = 0 THEN "ask"
                       ELSE IF op = "dismiss" THEN "lock" ELSE "snapshot"
               c == [Resting EXCEPT !.step = step, !.op = op, !.place = p, !.repo = r,
                                    !.sha = shas[r]]
    <3>2. r \in Repo /\ shas[r] \in Sha \cup {0} /\ shas[r] \in 0..MaxCommit
      BY <1>0, <3>1 DEF RegistryTyped, Entry, MemoTyped, Sha
    <3>3. work' = [work EXCEPT ![w] = c]
      BY <3>1
    <3> HIDE DEF r
    <3>4. /\ step \in {"ask", "lock", "snapshot"}
          /\ step = "lock" => op = "dismiss"
          /\ step = "snapshot" => op # "dismiss"
      OBVIOUS
    <3> HIDE DEF step
    <3>5. c \in Call
      BY <1>0, <3>1, <3>2, <3>4, ZenonT(40)
    <3>7. /\ c.step = step /\ c.op = op /\ c.place = p /\ c.repo = r
          /\ c.sha = shas[r]
      BY <1>0
    <3> HIDE DEF c
    <3>6. CallFits(c) /\ c.step \notin Registered
      BY <3>1, <3>2, <3>4, <3>5, <3>7
    <3> QED BY <3>3, <3>6
  <2>3. CASE RemoveItem(w)
    <3>1. PICK p \in Place : work' = [work EXCEPT ![w] =
                               [Resting EXCEPT !.step = "lock", !.op = "remove", !.place = p]]
      BY <2>3 DEF RemoveItem
    <3> DEFINE c == [Resting EXCEPT !.step = "lock", !.op = "remove", !.place = p]
    <3>2. c \in Call
      BY <1>0
    <3>3. c.step = "lock" /\ c.op = "remove" /\ c.place = p
      BY <1>0
    <3>4. work' = [work EXCEPT ![w] = c]
      BY <3>1
    <3> HIDE DEF c
    <3>5. CallFits(c) /\ c.step \notin Registered
      BY <3>2, <3>3
    <3> QED BY <3>4, <3>5
  <2>4. CASE LookUp(w)
    <3>1. PICK r \in Repo, step \in {"ask", "snapshot"} : work' = [work EXCEPT ![w] =
            [Resting EXCEPT !.step = step, !.op = "look", !.repo = r, !.sha = shas[r]]]
      BY <2>4 DEF LookUp
    <3>2. shas[r] \in 0..MaxCommit
      BY <1>0 DEF MemoTyped
    <3> DEFINE c == [Resting EXCEPT !.step = step, !.op = "look", !.repo = r, !.sha = shas[r]]
    <3>3. c \in Call
      BY <1>0, <3>2
    <3>4. c.step = step /\ c.op = "look" /\ c.repo = r
      BY <1>0
    <3>5. work' = [work EXCEPT ![w] = c]
      BY <3>1
    <3> HIDE DEF c
    <3>6. CallFits(c) /\ c.step \notin Registered
      BY <3>3, <3>4
    <3> QED BY <3>5, <3>6
  <2>5. CASE AskCommit(w)
    <3> DEFINE c == [work[w] EXCEPT !.step = "told", !.sha = head[work[w].repo]]
    <3>1. work[w].repo \in Repo /\ work[w].step = "ask"
      BY <1>0, <2>5 DEF AskCommit
    <3>2. head[work[w].repo] \in Sha /\ head[work[w].repo] \in 0..MaxCommit
      BY <1>0, <3>1 DEF MemoTyped, Sha
    <3>3. work' = [work EXCEPT ![w] = c]
      BY <1>0, <2>5 DEF AskCommit
    <3>4. CallFits(c) /\ c.step \notin Registered
      BY <1>0, <3>1, <3>2
    <3> QED BY <3>3, <3>4
  <2>6. CASE Told(w)
    <3> DEFINE step == IF work[w].op = "dismiss" THEN "lock" ELSE "snapshot"
               c == [work[w] EXCEPT !.step = step]
    <3>1. work' = [work EXCEPT ![w] = c]
      BY <1>0, <2>6 DEF Told, Go
    <3>2. work[w].step = "told" /\ work[w].sha \in Sha \cup {0}
      BY <1>0, <2>6 DEF Told, Sha
    <3>3. CallFits(c) /\ c.step \notin Registered
      BY <1>0, <3>2
    <3> QED BY <3>1, <3>3
  <2>7. CASE Unheard(w)
    BY <1>0, <2>7 DEF Unheard, Go, Rest
  <2>8. CASE Snapshot(w)
    <3> DEFINE r == work[w].repo
               found == IF <<r, work[w].sha>> \in HeldTarballs
                        THEN <<r, work[w].sha>> ELSE <<r, shas[r]>>
    <3>0. work[w].step = "snapshot"
      BY <2>8 DEF Snapshot
    <3>1. CASE work' = [work EXCEPT ![w].step = "download"] \/ work' = [work EXCEPT ![w] = Resting]
      BY <1>0, <3>0, <3>1
    <3>2. CASE /\ found \in HeldTarballs /\ work[w].op # "look"
               /\ work' = [work EXCEPT ![w].step = "lock", ![w].tar = found]
      <4>1. HeldTarballs \subseteq Tarball
        BY <1>0 DEF HeldTarballs, MemoTyped
      <4>0. found \in Tarball
        BY <3>2, <4>1
      <4> HIDE DEF found
      <4> DEFINE c == [work[w] EXCEPT !.step = "lock", !.tar = found]
      <4>2. work' = [work EXCEPT ![w] = c]
        BY <1>0, <3>2
      <4>3. CallFits(c) /\ c.step \notin Registered
        BY <1>0, <3>0, <3>2, <4>0
      <4> HIDE DEF c
      <4> QED BY <4>2, <4>3
    <3> QED BY <2>8, <3>1, <3>2 DEF Snapshot, Go, Rest
  <2>9. CASE Download(w)
    <3> DEFINE t == <<work[w].repo, head[work[w].repo]>>
               c == [work[w] EXCEPT !.step = "remember", !.tar = t]
    <3>1. work[w].step = "download" /\ t \in Tarball
      BY <1>0, <2>9 DEF Download, MemoTyped, Tarball
    <3>2. work' = [work EXCEPT ![w] = c]
      BY <1>0, <2>9 DEF Download
    <3> HIDE DEF t
    <3>3. CallFits(c) /\ c.step \notin Registered
      BY <1>0, <3>1
    <3> QED BY <3>2, <3>3
  <2>10. CASE DownloadFails(w)
    BY <1>0, <2>10 DEF DownloadFails, Rest
  <2>11. CASE RememberTarball(w)
    BY <1>0, <2>11, SMTT(30) DEF RememberTarball, Go, Rest
  <2> QED BY <2>1, <2>2, <2>3, <2>4, <2>5, <2>6, <2>7, <2>8, <2>9, <2>10, <2>11
<1>4. RegistryTyped' /\ CallsFit' /\ LoadedIsSaved' /\ AnswersRecorded'
  BY <1>2, <1>3, CallMoves
<1> QED BY <1>1, <1>2, <1>3, <1>4 DEF ItemInv, DiskTyped

(* What a copy does to those of its name: one that was the k-th newest is   *)
(* the one after it, unless Keep newer ones have pushed it out.             *)
NthNewest(s, k, c) == k <= Len(s) /\ s[Len(s) + 1 - k] = c

LEMMA PrunedKeeps ==
  ASSUME NEW s \in Seq(Copy)
  PROVE  /\ Pruned(s) \in Seq(Copy)
         /\ \A k \in 1..Keep, c \in Copy : NthNewest(s, k, c) => NthNewest(Pruned(s), k, c)
<1>0. Keep \in Nat \ {0} /\ Len(s) \in Nat
  BY ItemAssumption
<1>1. CASE Len(s) > Keep
  <2> DEFINE m == Len(s) - Keep + 1
             t == SubSeq(s, m, Len(s))
  <2>1. m \in 1..Len(s) /\ Len(s) - m + 1 = Keep
    BY <1>0, <1>1
  <2>2. \A i \in m..Len(s) : s[i] \in Copy
    BY <1>0, <2>1
  <2>3. Pruned(s) = t
    BY <1>1 DEF Pruned
  <2>4. /\ t \in Seq(Copy) /\ Len(t) = Keep
        /\ \A i \in 1..Keep : t[i] = s[m + i - 1]
    <3> HIDE DEF m
    <3> QED BY <1>0, <2>1, <2>2, SubSeqProperties
  <2> HIDE DEF t
  <2>5. \A k \in 1..Keep : t[Keep + 1 - k] = s[Len(s) + 1 - k]
    BY <1>0, <2>4
  <2> HIDE DEF m
  <2> QED BY <1>0, <1>1, <2>3, <2>4, <2>5 DEF NthNewest
<1>2. CASE ~(Len(s) > Keep)
  BY <1>2 DEF Pruned
<1> QED BY <1>1, <1>2

LEMMA AppendDeepens ==
  ASSUME NEW s \in Seq(Copy), NEW new \in Copy
  PROVE  /\ Append(s, new) \in Seq(Copy)
         /\ NthNewest(Append(s, new), 1, new)
         /\ \A k \in Nat \ {0}, c \in Copy :
              NthNewest(s, k, c) => NthNewest(Append(s, new), k + 1, c)
BY DEF NthNewest

OwnCopy(p) == [of |-> p, content |-> Mine]

LEMMA OwnCopyTyped == \A p \in Place : OwnCopy(p) \in Copy
BY DEF OwnCopy, Copy, Stored

(* What depth says: which copy of its name the user's own is, while it is   *)
(* among those that are kept.                                               *)
DepthFits ==
  \A p \in Place : depth[p] \in 1..Keep => NthNewest(copies[NameOf[p]], depth[p], OwnCopy(p))

LEMMA CopyMade ==
  ASSUME DiskTyped, NEW w \in Worker, work[w].place \in Place,
         CopyTaken(w) \/ CopyCutShort(w)
  PROVE  /\ copies' \in [FileName -> Seq(Copy)] /\ depth' \in [Place -> Nat]
         /\ DepthFits => DepthFits'
         /\ \A q \in Place : depth[q] # 0 => depth'[q] # 0
         /\ CopyTaken(w) /\ placed[work[w].place] = Mine => depth'[work[w].place] # 0
<1> USE ItemAssumption
<1> DEFINE p == work[w].place
           n == NameOf[p]
<1>1. /\ n \in FileName /\ copies[n] \in Seq(Copy) /\ placed[p] \in Stored
      /\ copies \in [FileName -> Seq(Copy)] /\ depth \in [Place -> Nat]
  BY DEF DiskTyped
<1>2. PICK content \in Stored :
        /\ \/ copies' = [copies EXCEPT ![n] = Pruned(Added(p, content))]
           \/ copies' = [copies EXCEPT ![n] = Added(p, content)]
        /\ depth' = Deepened(p, content)
        /\ CopyTaken(w) => content = placed[p]
  <2>1. CASE CopyTaken(w)
    BY <1>1, <2>1 DEF CopyTaken
  <2>2. CASE CopyCutShort(w) /\ ~CopyTaken(w)
    BY <1>1, <2>2 DEF CopyCutShort, Stored
  <2> QED BY <2>1, <2>2
<1> DEFINE new == [of |-> p, content |-> content]
<1>3. new \in Copy /\ Added(p, content) = Append(copies[n], new)
  BY DEF Copy, Added
<1>4. depth' \in [Place -> Nat]
  BY <1>1, <1>2 DEF Deepened
<1>5. \A q \in Place : depth'[q] = IF q = p /\ content = Mine THEN 1
                                  ELSE IF NameOf[q] = n /\ depth[q] # 0 THEN depth[q] + 1
                                  ELSE depth[q]
  BY <1>2 DEF Deepened
<1>6. \A q \in Place : depth[q] # 0 => depth'[q] # 0
  BY <1>1, <1>5
<1>7. CopyTaken(w) /\ placed[p] = Mine => depth'[p] # 0
  BY <1>2, <1>5
<1> HIDE DEF new, p
<1>8. /\ copies'[n] \in Seq(Copy)
      /\ \A k \in 1..Keep, c \in Copy :
           NthNewest(Append(copies[n], new), k, c) => NthNewest(copies'[n], k, c)
  <2>1. Append(copies[n], new) \in Seq(Copy)
    BY <1>1, <1>3
  <2>2. copies'[n] \in {Pruned(Append(copies[n], new)), Append(copies[n], new)}
    BY <1>1, <1>2, <1>3
  <2> QED BY <2>1, <2>2, PrunedKeeps
<1>9. \A m \in FileName \ {n} : copies'[m] = copies[m]
  BY <1>1, <1>2
<1>10. copies' \in [FileName -> Seq(Copy)]
  <2>1. copies' \in {[copies EXCEPT ![n] = copies'[n]]}
    BY <1>1, <1>2
  <2> QED BY <1>1, <1>8, <2>1
<1>11. ASSUME DepthFits PROVE DepthFits'
  <2> SUFFICES ASSUME NEW q \in Place, depth'[q] \in 1..Keep
               PROVE  NthNewest(copies'[NameOf[q]], depth'[q], OwnCopy(q))
    BY DEF DepthFits
  <2>0. NameOf[q] \in FileName /\ depth[q] \in Nat /\ OwnCopy(q) \in Copy
    BY <1>1, OwnCopyTyped
  <2>1. CASE q = p /\ content = Mine
    <3>1. new = OwnCopy(q) /\ depth'[q] = 1 /\ NameOf[q] = n
      BY <1>5, <2>1 DEF new, OwnCopy
    <3>2. NthNewest(Append(copies[n], new), 1, OwnCopy(q))
      BY <1>1, <1>3, <3>1, AppendDeepens
    <3> QED BY <1>8, <2>0, <3>1, <3>2
  <2>2. CASE ~(q = p /\ content = Mine) /\ NameOf[q] = n /\ depth[q] # 0
    <3>1. depth'[q] = depth[q] + 1 /\ depth[q] \in 1..Keep
      BY <1>5, <2>0, <2>2
    <3>2. NthNewest(copies[n], depth[q], OwnCopy(q))
      BY <1>11, <2>2, <3>1 DEF DepthFits
    <3>3. NthNewest(Append(copies[n], new), depth'[q], OwnCopy(q))
      BY <1>1, <1>3, <2>0, <3>1, <3>2, AppendDeepens
    <3> QED BY <1>8, <2>0, <2>2, <3>3
  <2>3. CASE ~(q = p /\ content = Mine) /\ ~(NameOf[q] = n /\ depth[q] # 0)
    <3>1. depth'[q] = depth[q] /\ NameOf[q] # n
      BY <1>5, <2>0, <2>3
    <3> QED BY <1>9, <1>11, <2>0, <3>1 DEF DepthFits
  <2> QED BY <2>1, <2>2, <2>3
<1> QED BY <1>4, <1>6, <1>7, <1>10, <1>11 DEF p

(* The steps under the lock, but for the save.                              *)
LEMMA PlacingSteps ==
  ASSUME ItemInv, NEW w \in Worker,
         \/ Conflict(w) \/ BackUpItem(w) \/ CopyFails(w) \/ PlaceFails(w)
         \/ Delete(w) \/ MoveAside(w) \/ SwapIn(w) \/ SaveRegistryFails(w)
  PROVE  ItemInv'
<1>0. /\ work[w] \in Call /\ CallFits(work[w]) /\ work \in [Worker -> Call]
      /\ MemoTyped /\ DiskTyped
      /\ Resting \in Call /\ CallFits(Resting) /\ Resting.step = "idle"
  BY RestingFits DEF ItemInv, CallsFit
<1> USE DEF At, Mishap, onDisk, memo
<1>1. work[w].step \in Registered /\ work[w].place \in Place
  BY <1>0 DEF Conflict, BackUpItem, CopyFails, BacksUp, PlaceFails, Delete, MoveAside, SwapIn,
    SaveRegistryFails, Registered, CallFits
<1>2. lock = w
  BY <1>1 DEF ItemInv, LoadedIsSaved
<1>3. UNCHANGED <<head, shas, tarballs, registry, answered>>
  BY DEF Conflict, BackUpItem, CopyFails, PlaceFails, Delete, MoveAside, SwapIn,
    SaveRegistryFails
<1>4. DiskTyped'
  <2>1. CASE BackUpItem(w) \/ CopyFails(w)
    <3>1. /\ UNCHANGED <<placed, aside>>
          /\ CopyTaken(w) \/ CopyCutShort(w) \/ UNCHANGED <<copies, depth>>
      BY <2>1 DEF BackUpItem, CopyFails
    <3> QED BY <1>0, <1>1, <3>1, CopyMade DEF DiskTyped
  <2>2. CASE PlaceFails(w)
    BY <1>0, <1>1, <2>2 DEF PlaceFails, DiskTyped, Stored
  <2>3. CASE Delete(w)
    BY <1>0, <1>1, <2>3 DEF Delete, DiskTyped, Stored
  <2>4. CASE MoveAside(w)
    BY <1>0, <1>1, <2>4 DEF MoveAside, DiskTyped, Stored
  <2>5. CASE SwapIn(w)
    <3>1. work[w].tar \in Stored
      BY <1>0, <2>5 DEF SwapIn, CallFits, Registered, Stored
    <3> QED BY <1>0, <1>1, <2>5, <3>1 DEF SwapIn, DiskTyped, Stored
  <2>6. CASE Conflict(w) \/ SaveRegistryFails(w)
    BY <1>0, <2>6 DEF Conflict, SaveRegistryFails, DiskTyped
  <2> QED BY <2>1, <2>2, <2>3, <2>4, <2>5, <2>6
<1>5. RegistryTyped' /\ CallsFit' /\ LoadedIsSaved' /\ AnswersRecorded'
  <2>1. CASE Conflict(w) \/ CopyFails(w) \/ PlaceFails(w) \/ SaveRegistryFails(w)
    <3>1. work' = [work EXCEPT ![w] = Resting] /\ lock' = NoWorker
      BY <2>1 DEF Conflict, CopyFails, PlaceFails, SaveRegistryFails, Rest
    <3>2. Resting.step \notin Registered
      BY <1>0 DEF Registered
    <3> QED BY <1>0, <1>2, <1>3, <3>1, <3>2, CallMoves
  <2>2. CASE BackUpItem(w) \/ Delete(w) \/ MoveAside(w) \/ SwapIn(w)
    <3>1. \E c : /\ CallFits(c) /\ c.step \in Registered /\ c.loaded = work[w].loaded
                 /\ work' = [work EXCEPT ![w] = c]
      <4> USE DEF CallFits, Call, Asked, Looking, Registered
      <4>1. CASE BackUpItem(w)
        BY <1>0, <4>1 DEF BackUpItem, Go, Unfit, HasEntry
      <4>2. CASE Delete(w)
        BY <1>0, <4>2 DEF Delete, Go
      <4>3. CASE MoveAside(w)
        BY <1>0, <4>3 DEF MoveAside, Go
      <4>4. CASE SwapIn(w)
        BY <1>0, <4>4 DEF SwapIn, Go
      <4> QED BY <2>2, <4>1, <4>2, <4>3, <4>4
    <3>2. lock' = lock
      BY <2>2 DEF BackUpItem, Delete, MoveAside, SwapIn
    <3> QED BY <1>1, <1>3, <3>1, <3>2, CallMoves
  <2> QED BY <2>1, <2>2
<1> QED BY <1>0, <1>3, <1>4, <1>5 DEF ItemInv, MemoTyped

(* ItemInv is inductive.  Only TakeRegistry enters the registry and only    *)
(* SaveRegistry writes it.                                                  *)
LEMMA ItemInvNext == ItemInv /\ [ItemNext]_itemVars => ItemInv'
<1> SUFFICES ASSUME ItemInv, [ItemNext]_itemVars PROVE ItemInv'
  OBVIOUS
<1> USE DEF onDisk, memo
<1>1. CASE UNCHANGED itemVars
  BY <1>1 DEF itemVars, ItemInv, DiskTyped, MemoTyped, RegistryTyped, CallsFit, CallFits,
    LoadedIsSaved, AnswersRecorded
<1>2. ASSUME NEW w \in Worker, TakeRegistry(w) PROVE ItemInv'
  <2> USE <1>2 DEF TakeRegistry, At
  <2> DEFINE c == [work[w] EXCEPT !.step = "check", !.loaded = registry]
  <2>0. work[w] \in Call /\ CallFits(work[w]) /\ work \in [Worker -> Call] /\ RegistryTyped
    BY DEF ItemInv, CallsFit
  <2>1. work' = [work EXCEPT ![w] = c]
    BY <2>0 DEF Call
  <2>2. CallFits(c) /\ c.step = "check" /\ c.loaded = registry
    BY <2>0 DEF CallFits, Call, Registered, Looking, RegistryTyped
  <2>3. c \in Call
    BY <2>2 DEF CallFits
  <2> HIDE DEF c
  <2>4. CallsFit'
    <3>1. work' \in [Worker -> Call]
      BY <2>0, <2>1, <2>3
    <3>2. ASSUME NEW v \in Worker PROVE CallFits(work'[v])
      BY <2>0, <2>1, <2>2 DEF ItemInv, CallsFit
    <3> QED BY <3>1, <3>2 DEF CallsFit, CallFits
  <2>5. LoadedIsSaved'
    BY <2>0, <2>1, <2>2, ItemAssumption DEF ItemInv, LoadedIsSaved
  <2> QED BY <2>4, <2>5 DEF ItemInv, DiskTyped, MemoTyped, RegistryTyped, AnswersRecorded
<1>3. ASSUME NEW w \in Worker, SaveRegistry(w) PROVE ItemInv'
  <2> USE <1>3 DEF SaveRegistry, At, Rest
  <2> DEFINE e == NewEntry(w)
             x == work[w].place
  <2>0. work \in [Worker -> Call] /\ RegistryTyped /\ e \in Entry \cup {Nothing}
    BY NewEntryTyped DEF ItemInv, CallsFit
  <2>1. lock = w /\ work[w].loaded = registry
    BY DEF ItemInv, LoadedIsSaved, Registered
  <2>2. registry' = [registry EXCEPT ![x] = e] /\ answered' = [answered EXCEPT ![x] = e]
    BY <2>1
  <2> HIDE DEF e, x
  <2>3. RegistryTyped'
    BY <2>0, <2>2, ZenonT(40) DEF RegistryTyped
  <2>4. CallsFit'
    BY <2>0, RestingFits DEF ItemInv, CallsFit, CallFits
  <2>5. LoadedIsSaved'
    BY <2>0, <2>1, RestingFits DEF ItemInv, LoadedIsSaved, Registered
  <2>6. AnswersRecorded'
    BY <2>0, <2>2 DEF ItemInv, RegistryTyped, AnswersRecorded
  <2> QED BY <2>3, <2>4, <2>5, <2>6 DEF ItemInv, DiskTyped, MemoTyped
<1>4. ASSUME ServiceEnds PROVE ItemInv'
  <2>1. CallsFit' /\ LoadedIsSaved'
    BY <1>4, RestingFits DEF ServiceEnds, CallsFit, CallFits, LoadedIsSaved, Registered
  <2>2. MemoTyped'
    BY <1>4, ItemAssumption DEF ServiceEnds, ItemInv, MemoTyped
  <2>3. DiskTyped'
    <3>1. \A w \in Worker : BacksUp(w) => work[w].place \in Place
      BY DEF BacksUp, At, ItemInv, CallsFit, CallFits, Registered
    <3> QED BY <1>4, <3>1, CopyMade DEF ServiceEnds, ItemInv, DiskTyped
  <2> QED BY <1>4, <2>1, <2>2, <2>3 DEF ServiceEnds, ItemInv, RegistryTyped, AnswersRecorded
<1>5. ASSUME Push PROVE ItemInv'
  <2>1. head' \in [Repo -> Sha]
    BY <1>5, ItemAssumption DEF Push, ItemInv, MemoTyped, Sha
  <2> QED BY <1>5, <2>1 DEF Push, ItemInv, DiskTyped, MemoTyped, RegistryTyped, CallsFit,
    CallFits, LoadedIsSaved, AnswersRecorded
<1>6. ASSUME UserWrites PROVE ItemInv'
  BY <1>6 DEF UserWrites, ItemInv, DiskTyped, Stored, MemoTyped, RegistryTyped, CallsFit,
    CallFits, LoadedIsSaved, AnswersRecorded
<1> QED BY <1>1, <1>2, <1>3, <1>4, <1>5, <1>6, LookingSteps, PlacingSteps DEF ItemNext

(* Every value has its type.                                                *)
THEOREM ItemTyped == ItemSpec => []ItemTypeOK
<1>1. ItemInv => ItemTypeOK
  BY DEF ItemInv, DiskTyped, MemoTyped, RegistryTyped, CallsFit, ItemTypeOK
<1> QED BY ItemInvInit, ItemInvNext, <1>1, PTL DEF ItemSpec

(* What the last call answered of a place is what the registry says of it,  *)
(* whatever other calls, failures and exits of the app came in between      *)
(* (item_install/registry.rs with_registry).                                *)
THEOREM AnswersStand == ItemSpec => []AnswersRecorded
<1>1. ItemInv => AnswersRecorded
  BY DEF ItemInv
<1> QED BY ItemInvInit, ItemInvNext, <1>1, PTL DEF ItemSpec

---------------------------------------------------------------------------
(* What the user wrote at a place is copied before a call may move it: so a *)
(* call that is about to, or did, and failed or died, lost nothing.         *)
CopiedBeforeGone ==
  /\ \A p \in Place : aside[p] = Mine => depth[p] # 0
  /\ \A p \in wrote : placed[p] = Mine \/ depth[p] # 0
  /\ \A w \in Worker : work[w].step \in AtPlace /\ placed[work[w].place] = Mine =>
       depth[work[w].place] # 0

OwnInv == ItemInv /\ wrote \subseteq Place /\ DepthFits /\ CopiedBeforeGone

LEMMA OwnInvInit == ItemInit => OwnInv
<1> SUFFICES ASSUME ItemInit PROVE OwnInv
  OBVIOUS
<1>1. ItemInv
  BY ItemInvInit
<1>2. CopiedBeforeGone
  BY ItemAssumption DEF ItemInit, CopiedBeforeGone, Resting, AtPlace
<1>3. wrote \subseteq Place /\ DepthFits
  BY ItemAssumption DEF ItemInit, DepthFits
<1> QED BY <1>1, <1>2, <1>3 DEF OwnInv

(* A step that leaves the disk alone and takes no call to its place.        *)
LEMMA OwnUntouched ==
  ASSUME OwnInv, UNCHANGED <<placed, aside, copies, depth, wrote>>,
         \A v \in Worker : work'[v] = work[v] \/ work'[v].step \notin AtPlace
  PROVE  (wrote \subseteq Place)' /\ DepthFits' /\ CopiedBeforeGone'
BY DEF OwnInv, DepthFits, CopiedBeforeGone, NthNewest, OwnCopy, AtPlace

(* A copy that is taken, whole or not, before anything is moved.            *)
LEMMA OwnCopied ==
  ASSUME OwnInv, NEW w \in Worker, work[w].place \in Place,
         CopyTaken(w) \/ CopyCutShort(w), UNCHANGED <<placed, aside, wrote>>,
         \A v \in Worker : \/ work'[v] = work[v] \/ work'[v].step \notin AtPlace
                           \/ v = w /\ CopyTaken(w) /\ work'[w].place = work[w].place
  PROVE  (wrote \subseteq Place)' /\ DepthFits' /\ CopiedBeforeGone'
<1>1. /\ DepthFits' /\ \A q \in Place : depth[q] # 0 => depth'[q] # 0
      /\ CopyTaken(w) /\ placed[work[w].place] = Mine => depth'[work[w].place] # 0
  BY CopyMade DEF OwnInv, ItemInv
<1>2. \A v \in Worker : work[v].step \in AtPlace => work[v].place \in Place
  BY DEF OwnInv, ItemInv, CallsFit, CallFits, Registered, AtPlace
<1> QED BY <1>1, <1>2 DEF OwnInv, CopiedBeforeGone

LEMMA OwnPlacing ==
  ASSUME OwnInv, NEW w \in Worker,
         BackUpItem(w) \/ CopyFails(w) \/ PlaceFails(w) \/ Delete(w) \/ MoveAside(w) \/ SwapIn(w)
  PROVE  (wrote \subseteq Place)' /\ DepthFits' /\ CopiedBeforeGone'
<1> DEFINE p == work[w].place
<1>0. /\ work \in [Worker -> Call] /\ DiskTyped /\ p \in Place /\ work[w].step \in Registered
      /\ wrote' = wrote /\ wrote \subseteq Place /\ ItemInv /\ DepthFits
  BY DEF OwnInv, ItemInv, CallsFit, CallFits, BackUpItem, CopyFails, BacksUp, PlaceFails, Delete,
    MoveAside, SwapIn, At, Registered
(* The lock is this call's: no other is under it.                           *)
<1>1. \A v \in Worker \ {w} : work[v].step \notin AtPlace
  BY <1>0 DEF ItemInv, LoadedIsSaved, Registered, AtPlace
<1>2. \A v \in Worker \ {w} : work'[v] = work[v]
  BY <1>0 DEF BackUpItem, CopyFails, PlaceFails, Delete, MoveAside, SwapIn, Go, Rest
<1>3. /\ \A q \in Place : aside[q] = Mine => depth[q] # 0
      /\ work[w].step \in AtPlace /\ placed[p] = Mine => depth[p] # 0
      /\ \A q \in wrote : placed[q] = Mine \/ depth[q] # 0
  BY DEF OwnInv, CopiedBeforeGone
<1> USE DEF At, onDisk
<1>4. CASE BackUpItem(w)
  <2>1. /\ placed' = placed /\ aside' = aside /\ work'[w].place = p
        /\ work'[w].step = IF work[w].op = "dismiss" THEN "save" ELSE "place"
    BY <1>0, <1>4 DEF BackUpItem, Go, Call
  <2>2. CASE BacksUp(w)
    <3>1. CopyTaken(w)
      BY <1>4, <2>2 DEF BackUpItem
    <3> QED BY <1>0, <1>2, <2>1, <3>1, OwnCopied
  <2>3. CASE ~BacksUp(w)
    <3>1. UNCHANGED <<copies, depth>>
      BY <1>4, <2>3 DEF BackUpItem
    <3>2. work'[w].step \in AtPlace => placed[p] # Mine
      BY <1>4, <2>1, <2>3, ItemAssumption DEF BackUpItem, BacksUp, Exists, AtPlace
    <3> QED BY <1>0, <1>1, <1>2, <1>3, <2>1, <3>1, <3>2
            DEF DepthFits, NthNewest, OwnCopy, CopiedBeforeGone, AtPlace
  <2> QED BY <2>2, <2>3
<1>5. CASE CopyFails(w)
  <2>1. /\ UNCHANGED <<placed, aside>> /\ work'[w].step \notin AtPlace
        /\ CopyCutShort(w) \/ UNCHANGED <<copies, depth>>
    BY <1>0, <1>5, RestingFits DEF CopyFails, Rest, AtPlace
  <2> QED BY <1>0, <1>2, <2>1, OwnCopied, OwnUntouched
<1>6. CASE PlaceFails(w) \/ Delete(w) \/ MoveAside(w) \/ SwapIn(w)
  <2>1. UNCHANGED <<copies, depth>>
    BY <1>6 DEF PlaceFails, Delete, MoveAside, SwapIn
  <2>2. DepthFits'
    BY <1>0, <2>1 DEF DepthFits, NthNewest, OwnCopy
  <2>3. CASE PlaceFails(w)
    <3>1. work'[w].step \notin AtPlace
      BY <1>0, <2>3, RestingFits DEF PlaceFails, Rest, AtPlace
    <3>2. \/ placed' = placed /\ aside' = aside
          \/ /\ placed' = [placed EXCEPT ![p] = aside[p]]
             /\ aside' = [aside EXCEPT ![p] = Nothing]
             /\ work[w].step = "swap"
      BY <2>3 DEF PlaceFails
    <3> HIDE DEF p
    <3> QED BY <1>0, <1>1, <1>2, <1>3, <2>1, <2>2, <3>1, <3>2, ItemAssumption
            DEF CopiedBeforeGone, DiskTyped, AtPlace
  <2>4. CASE Delete(w)
    <3>1. /\ aside' = aside /\ placed' = [placed EXCEPT ![p] = Nothing]
          /\ work[w].step = "place" /\ work'[w].step \notin AtPlace
      BY <1>0, <2>4 DEF Delete, Go, AtPlace
    <3> HIDE DEF p
    <3> QED BY <1>0, <1>1, <1>2, <1>3, <2>1, <2>2, <3>1, ItemAssumption
            DEF CopiedBeforeGone, DiskTyped, AtPlace
  <2>5. CASE MoveAside(w)
    <3>1. /\ work[w].step = "place" /\ work'[w].place = p
          /\ \/ placed' = placed /\ aside' = aside
             \/ /\ placed' = [placed EXCEPT ![p] = Nothing]
                /\ aside' = [aside EXCEPT ![p] = placed[p]]
      BY <1>0, <2>5 DEF MoveAside, Go, Exists
    <3> HIDE DEF p
    <3>2. depth[p] # 0 \/ placed[p] # Mine
      BY <1>3, <3>1 DEF AtPlace
    <3>3. /\ \A q \in Place \ {p} : placed'[q] = placed[q] /\ aside'[q] = aside[q]
          /\ placed'[p] \in {placed[p], Nothing} /\ aside'[p] \in {aside[p], placed[p]}
          /\ placed'[p] = Mine => placed[p] = Mine
      BY <1>0, <3>1, ItemAssumption DEF DiskTyped
    <3>4. \A q \in Place : aside'[q] = Mine => depth[q] # 0
      BY <1>3, <3>2, <3>3
    <3>5. \A q \in wrote : placed'[q] = Mine \/ depth[q] # 0
      BY <1>0, <1>3, <3>1, <3>2, <3>3
    <3>6. \A v \in Worker : work'[v].step \in AtPlace => work'[v].place = p
      BY <1>1, <1>2, <3>1
    <3> QED BY <1>0, <2>1, <2>2, <3>2, <3>3, <3>4, <3>5, <3>6 DEF CopiedBeforeGone
  <2>6. CASE SwapIn(w)
    <3>1. /\ aside' \in {aside, [aside EXCEPT ![p] = Nothing]}
          /\ \A q \in Place \ {p} : placed'[q] = placed[q]
          /\ work'[w].step \notin AtPlace
      BY <1>0, <2>6 DEF SwapIn, Go, DiskTyped, AtPlace
    <3> HIDE DEF p
    <3>2. depth[p] # 0 \/ p \notin wrote
      BY <1>0, <1>3, <2>6 DEF SwapIn, AtPlace
    <3> QED BY <1>0, <1>1, <1>2, <1>3, <2>1, <2>2, <3>1, <3>2, ItemAssumption
            DEF CopiedBeforeGone, DiskTyped, AtPlace
  <2> QED BY <1>0, <1>6, <2>2, <2>3, <2>4, <2>5, <2>6
<1> QED BY <1>4, <1>5, <1>6

LEMMA OwnInvNext == OwnInv /\ [ItemNext]_itemVars => OwnInv'
<1> SUFFICES ASSUME OwnInv, [ItemNext]_itemVars PROVE OwnInv'
  OBVIOUS
<1>0. ItemInv /\ ItemInv' /\ work \in [Worker -> Call]
  BY ItemInvNext DEF OwnInv, ItemInv, CallsFit
<1> USE DEF onDisk
<1>1. CASE UNCHANGED itemVars
  BY <1>0, <1>1, OwnUntouched DEF itemVars, OwnInv
<1>2. ASSUME NEW w \in Worker,
             \/ InstallItems(w) \/ UpdateItem(w) \/ RemoveItem(w) \/ LookUp(w)
             \/ AskCommit(w) \/ Told(w) \/ Unheard(w)
             \/ Snapshot(w) \/ Download(w) \/ DownloadFails(w) \/ RememberTarball(w)
      PROVE  OwnInv'
  <2>1. UNCHANGED <<placed, aside, copies, depth, wrote>>
    BY <1>2 DEF InstallItems, UpdateItem, RemoveItem, LookUp, AskCommit, Told, Unheard,
      Snapshot, Download, DownloadFails, RememberTarball
  <2>2. \A v \in Worker : work'[v] = work[v] \/ work'[v].step \notin AtPlace
    BY <1>0, <1>2, LookingSteps DEF Registered, AtPlace
  <2> QED BY <1>0, <2>1, <2>2, OwnUntouched DEF OwnInv
<1>3. ASSUME NEW w \in Worker,
             TakeRegistry(w) \/ Conflict(w) \/ SaveRegistry(w) \/ SaveRegistryFails(w)
      PROVE  OwnInv'
  <2>1. UNCHANGED <<placed, aside, copies, depth, wrote>>
    BY <1>3 DEF TakeRegistry, Conflict, SaveRegistry, SaveRegistryFails
  <2>2. \A v \in Worker : work'[v] = work[v] \/ work'[v].step \notin AtPlace
    BY <1>0, <1>3, RestingFits DEF TakeRegistry, Conflict, SaveRegistry, SaveRegistryFails, Rest,
      Call, AtPlace
  <2> QED BY <1>0, <2>1, <2>2, OwnUntouched DEF OwnInv
<1>4. ASSUME NEW w \in Worker, \/ BackUpItem(w) \/ CopyFails(w) \/ PlaceFails(w)
                               \/ Delete(w) \/ MoveAside(w) \/ SwapIn(w)
      PROVE  OwnInv'
  BY <1>0, <1>4, OwnPlacing DEF OwnInv
<1>5. CASE Push
  BY <1>0, <1>5, OwnUntouched DEF Push, OwnInv
<1>6. CASE ServiceEnds
  <2>1. /\ UNCHANGED <<placed, aside, wrote>>
        /\ \/ UNCHANGED <<copies, depth>>
           \/ \E w \in Worker : BacksUp(w) /\ CopyCutShort(w)
        /\ \A v \in Worker : work'[v].step \notin AtPlace
    BY <1>6, RestingFits DEF ServiceEnds, AtPlace
  <2>2. \A w \in Worker : BacksUp(w) => work[w].place \in Place
    BY DEF BacksUp, At, OwnInv, ItemInv, CallsFit, CallFits, Registered
  <2> QED BY <1>0, <2>1, <2>2, OwnCopied, OwnUntouched DEF OwnInv
<1>7. CASE UserWrites
  <2>1. PICK p \in Place \ wrote : /\ ~Placing(p) /\ placed' = [placed EXCEPT ![p] = Mine]
                                   /\ wrote' = wrote \cup {p}
    BY <1>7 DEF UserWrites
  <2>2. UNCHANGED <<aside, copies, depth, work>> /\ placed \in [Place -> Stored]
    BY <1>0, <1>7 DEF UserWrites, ItemInv, DiskTyped
  <2>3. \A v \in Worker : work[v].step \in AtPlace =>
          work[v].place # p /\ work[v].place \in Place
    BY <1>0, <2>1 DEF Placing, ItemInv, CallsFit, CallFits, Registered, AtPlace
  <2>4. DepthFits'
    BY <2>2 DEF OwnInv, DepthFits, NthNewest, OwnCopy
  <2> QED BY <1>0, <2>1, <2>2, <2>3, <2>4 DEF OwnInv, CopiedBeforeGone, AtPlace
<1> QED BY <1>1, <1>2, <1>3, <1>4, <1>5, <1>6, <1>7 DEF ItemNext

(* OwnFilesKept: what the user wrote at a place is still there, set aside or*)
(* in a backup, whatever is installed over it, updated, removed, fails or   *)
(* dies (backup_item before place and remove_any), until Keep copies of the *)
(* same file name have been taken after its own (prune).                    *)
THEOREM UsersFilesKept == ItemSpec => []OwnFilesKept
<1>1. OwnInv => OwnFilesKept
  <2> SUFFICES ASSUME OwnInv, NEW p \in wrote, placed[p] # Mine, ~(depth[p] > Keep)
               PROVE  InBackup(p)
    BY DEF OwnFilesKept
  <2>1. p \in Place /\ depth[p] \in 1..Keep /\ copies[NameOf[p]] \in Seq(Copy)
    BY ItemAssumption DEF OwnInv, CopiedBeforeGone, ItemInv, DiskTyped
  <2>2. NthNewest(copies[NameOf[p]], depth[p], OwnCopy(p))
    BY <2>1 DEF OwnInv, DepthFits
  <2> QED BY <2>1, <2>2, ItemAssumption DEF NthNewest, OwnCopy, InBackup
<1> QED BY OwnInvInit, OwnInvNext, <1>1, PTL DEF ItemSpec

-----------------------------------------------------------------------------
(* Configuration files.                                                     *)
Stage  == {"idle", "asked", "refused", "checked"} \cup Window
Having == {"read", "removed", "replaced", "failed", "restoring"} \* the text it edits

Publishing == [step : {"write", "check", "restore"}, read : Doc, write : Doc]
Left == [asked : 0..MaxSwitches, published : 0..MaxPublished, writing : 0..MaxOutside,
         slips : 0..MaxSlips]

ConfigTyped ==
  /\ ConfigTypeOK
  /\ doing \in [Caller -> Stage]
  /\ publisher = NoPublisher \/ publisher \in Publishing
  /\ left \in Left
  /\ made \in [Item -> {"on", "off", None}]
  /\ named \in Name \cup {None}
  /\ raced \in BOOLEAN /\ overlapped \in BOOLEAN

(* A change has the provider's turn from its check to its answer, and has   *)
(* at each stage what the earlier ones put down.                            *)
Turns ==
  \A c \in Caller :
    /\ doing[c] \notin {"idle", "asked"} <=> turn = c
    /\ doing[c] # "idle" => request[c] \in Request
    /\ doing[c] \in Window => backup[c] \in Content
    /\ doing[c] \in Having => original[c] \in Doc \cup {Absent}
    /\ doing[c] = "cli" => request[c].item \in Plugin
    /\ doing[c] = "restoring" => backup[c] # Absent

(* The provider's programs and an account change take turns too.            *)
OneWriter ==
  /\ writing # None => publisher = NoPublisher
  /\ ~overlapped /\ Within => publisher = NoPublisher

ConfigInv == ConfigTyped /\ Turns /\ OneWriter

LEMMA ContentsDiffer ==
  /\ Absent \notin Doc /\ Torn \notin Doc /\ Absent # Torn
  /\ None \notin Doc /\ None # Absent /\ None # Torn /\ None \notin Request
  /\ Absent \in Content /\ Torn \in Content
BY ConfigAssumption DEF Content

LEMMA BaseIsDoc ==
  ASSUME NEW content \in Content, content # Torn
  PROVE  Base(content) \in Doc /\ (content \in Doc => Base(content) = content)
<1>1. Empty \in Doc
  BY ConfigAssumption DEF Empty, Doc, Name
<1> QED BY <1>1, ContentsDiffer DEF Base, Content

LEMMA EditedIsDoc ==
  ASSUME NEW d \in Doc, NEW r \in Request
  PROVE  /\ Edited(d, r) \in Doc
         /\ Edited(d, r).items[r.item] = r.to /\ r.item \in Item
         /\ \A i \in Item \ {r.item} : Edited(d, r).items[i] = d.items[i]
         /\ Edited(d, r).name = d.name
BY DEF Edited, Doc, Request

LEMMA Holder ==
  ASSUME ConfigInv, NEW c \in Caller, doing[c] \notin {"idle", "asked"}
  PROVE  turn = c /\ \A d \in Caller \ {c} : doing[d] \in {"idle", "asked"}
BY DEF ConfigInv, Turns

(* What the two ways on do: the next stage, or the answer.                  *)
LEMMA WentTo ==
  ASSUME ConfigInv, NEW c \in Caller, NEW step \in Stage \ {"idle", "asked"}, To(c, step),
         doing[c] \notin {"idle", "asked"}
  PROVE  /\ doing' \in [Caller -> Stage] /\ doing'[c] = step
         /\ \A d \in Caller \ {c} : doing'[d] = doing[d] /\ doing[d] \in {"idle", "asked"}
         /\ UNCHANGED <<turn, request, backup>> /\ turn = c
         /\ Within' <=> step \in Window
<1>1. /\ doing' \in [Caller -> Stage] /\ doing'[c] = step
      /\ \A d \in Caller \ {c} : doing'[d] = doing[d] /\ doing[d] \in {"idle", "asked"}
      /\ UNCHANGED <<turn, request, backup>> /\ turn = c
  BY Holder DEF To, ConfigInv, ConfigTyped
<1>2. Within' <=> step \in Window
  BY <1>1 DEF Within, Window
<1> QED BY <1>1, <1>2

LEMMA Left_ ==
  ASSUME ConfigInv, NEW c \in Caller, Leave(c), doing[c] \notin {"idle", "asked"}
  PROVE  /\ doing' \in [Caller -> Stage] /\ doing'[c] = "idle"
         /\ \A d \in Caller : doing'[d] \in {"idle", "asked"}
         /\ \A d \in Caller \ {c} : doing'[d] = doing[d] /\ request'[d] = request[d]
         /\ turn' = NoCaller /\ ~Within'
         /\ request' \in [Caller -> Request \cup {None}]
         /\ backup' \in [Caller -> Content \cup {None}]
         /\ original' \in [Caller -> Content \cup {None}]
         /\ Turns'
<1>1. /\ doing' \in [Caller -> Stage] /\ doing'[c] = "idle"
      /\ \A d \in Caller : doing'[d] \in {"idle", "asked"}
      /\ \A d \in Caller \ {c} : doing'[d] = doing[d] /\ request'[d] = request[d]
      /\ turn' = NoCaller
      /\ request' \in [Caller -> Request \cup {None}]
      /\ backup' \in [Caller -> Content \cup {None}]
      /\ original' \in [Caller -> Content \cup {None}]
  BY Holder DEF Leave, ConfigInv, ConfigTyped, ConfigTypeOK, Stage
<1>2. ~Within'
  BY <1>1 DEF Within, Window
<1>3. Turns'
  BY <1>1, ConfigAssumption DEF Turns, ConfigInv, Window, Having
<1> QED BY <1>1, <1>2, <1>3

LEMMA TakenOff ==
  ASSUME ConfigInv, NEW kind \in {"asked", "published", "writing", "slips"}, May(kind),
         TakeOff(kind)
  PROVE  left' \in Left
BY ConfigAssumption DEF ConfigInv, ConfigTyped, May, TakeOff, Left

LEMMA ConfigInvInit == ConfigInit => ConfigInv
<1> SUFFICES ASSUME ConfigInit PROVE ConfigInv
  OBVIOUS
<1>1. file \in Content
  <2>1. Empty \in Doc /\ [Empty EXCEPT !.items = [i \in Item |-> "on"]] \in Doc
    BY ConfigAssumption DEF Empty, Doc, Name
  <2> QED BY <2>1 DEF ConfigInit, Content
<1>2. left \in Left
  BY ConfigAssumption DEF ConfigInit, Left
<1>3. ConfigTyped
  BY <1>1, <1>2 DEF ConfigInit, ConfigTyped, ConfigTypeOK, Stage
<1>4. Turns
  BY ConfigAssumption DEF ConfigInit, Turns, Window, Having
<1>5. OneWriter
  BY DEF ConfigInit, OneWriter
<1> QED BY <1>3, <1>4, <1>5 DEF ConfigInv

(* Asking and taking the turn.                                              *)
LEMMA AskTyped == ASSUME ConfigInv, NEW c \in Caller, Ask(c) PROVE ConfigInv'
<1>1. left' \in Left
  BY TakenOff DEF Ask
<1>2. PICK r \in Request : request' = [request EXCEPT ![c] = r]
  BY DEF Ask
<1>3. ConfigTyped'
  BY <1>1, <1>2 DEF Ask, ConfigInv, ConfigTyped, ConfigTypeOK, Stage, ghosts
<1>4. Turns'
  BY <1>2 DEF Ask, ConfigInv, ConfigTyped, ConfigTypeOK, Turns, Window, Having
<1>5. OneWriter'
  <2>1. Within' => Within
    BY DEF Ask, ConfigInv, ConfigTyped, Within, Window
  <2> QED BY <2>1 DEF Ask, ConfigInv, OneWriter, ghosts
<1> QED BY <1>3, <1>4, <1>5 DEF ConfigInv

LEMMA TakeTurnTyped == ASSUME ConfigInv, NEW c \in Caller, TakeTurn(c) PROVE ConfigInv'
<1>1. PICK step \in {"refused", "checked"} : doing' = [doing EXCEPT ![c] = step]
  BY DEF TakeTurn
<1>2. ConfigTyped'
  BY <1>1 DEF TakeTurn, ConfigInv, ConfigTyped, ConfigTypeOK, Stage, ghosts
<1>3. Turns'
  <2>1. /\ doing[c] = "asked" /\ doing'[c] = step /\ turn' = c
        /\ \A d \in Caller \ {c} : doing'[d] = doing[d]
        /\ UNCHANGED <<request, backup, original>>
    BY <1>1 DEF TakeTurn, ConfigInv, ConfigTyped
  <2>2. \A d \in Caller : doing[d] \in {"idle", "asked"}
    BY ConfigAssumption DEF TakeTurn, ConfigInv, Turns
  <2>3. step # "idle" /\ step # "asked" /\ step \notin Window \cup Having
    BY DEF Window, Having
  <2>4. step # "cli" /\ step # "restoring"
    BY DEF Window
  <2> QED BY <2>1, <2>2, <2>3, <2>4 DEF ConfigInv, Turns, Window, Having
<1>4. OneWriter'
  <2>1. Within' => Within
    BY <1>1 DEF ConfigInv, ConfigTyped, Within, Window
  <2> QED BY <2>1 DEF TakeTurn, ConfigInv, OneWriter, ghosts
<1> QED BY <1>2, <1>3, <1>4 DEF ConfigInv

LEMMA RefusedTyped ==
  ASSUME ConfigInv, NEW c \in Caller, Refused(c) \/ BackUpFails(c)
  PROVE  ConfigInv'
<1>1. Leave(c) /\ doing[c] \notin {"idle", "asked"}
  BY DEF Refused, BackUpFails
<1>2. left' \in Left
  BY TakenOff DEF Refused, BackUpFails, ConfigInv, ConfigTyped
<1>3. ConfigTyped'
  BY <1>1, <1>2, Left_
     DEF Refused, BackUpFails, ConfigInv, ConfigTyped, ConfigTypeOK, ghosts
<1>4. OneWriter'
  BY <1>1, Left_ DEF Refused, BackUpFails, ConfigInv, OneWriter, ghosts
<1> QED BY <1>1, <1>3, <1>4, Left_ DEF ConfigInv

LEMMA BackUpTyped == ASSUME ConfigInv, NEW c \in Caller, BackUp(c) PROVE ConfigInv'
<1>1. PICK step \in {"cli", "backed"} :
        doing' = [doing EXCEPT ![c] = step] /\ (step = "cli" => request[c].item \in Plugin)
  BY DEF BackUp
<1>2. turn = c
  BY Holder DEF BackUp
<1>3. ConfigTyped'
  BY <1>1 DEF BackUp, ConfigInv, ConfigTyped, ConfigTypeOK, Stage, Window
<1>4. Turns'
  BY <1>1, <1>2 DEF BackUp, ConfigInv, ConfigTyped, ConfigTypeOK, Turns, Window, Having
<1>5. OneWriter'
  BY DEF BackUp, ConfigInv, OneWriter
<1> QED BY <1>3, <1>4, <1>5 DEF ConfigInv

LEMMA ReadDocumentTyped == ASSUME ConfigInv, NEW c \in Caller, ReadDocument(c) PROVE ConfigInv'
<1>1. CASE Refuses(file, request[c])
  <2>1. Leave(c) /\ doing[c] \notin {"idle", "asked"}
    BY <1>1 DEF ReadDocument
  <2>2. ConfigTyped' /\ OneWriter'
    BY <2>1, Left_ DEF ReadDocument, ConfigInv, ConfigTyped, ConfigTypeOK, OneWriter, ghosts
  <2> QED BY <2>1, <2>2, Left_ DEF ConfigInv
<1>2. CASE ~Refuses(file, request[c])
  <2>1. To(c, "read") /\ original' = [original EXCEPT ![c] = file] /\ doing[c] = "backed"
    BY <1>2 DEF ReadDocument
  <2>2. file \in Doc \cup {Absent}
    BY <1>2 DEF Refuses, ConfigInv, ConfigTyped, ConfigTypeOK, Content
  <2>3. "read" \in Stage \ {"idle", "asked"} /\ "read" \in Window
    BY DEF Stage, Window
  <2>4. ConfigTyped'
    BY <2>1, <2>3, WentTo
       DEF ReadDocument, ConfigInv, ConfigTyped, ConfigTypeOK, ghosts
  <2>5. Turns'
    BY <2>1, <2>2, <2>3, WentTo
       DEF ConfigInv, ConfigTyped, ConfigTypeOK, Turns, Window, Having
  <2>6. Within
    BY <2>1 DEF Within, Window
  <2>7. OneWriter'
    BY <2>6 DEF ReadDocument, ConfigInv, OneWriter, ghosts
  <2> QED BY <2>4, <2>5, <2>7 DEF ConfigInv
<1> QED BY <1>1, <1>2

(* A change goes on within its window with the text it read.                *)
LEMMA GoesOnTyped ==
  ASSUME ConfigInv, NEW c \in Caller, NEW step \in Having, To(c, step), doing[c] \in Having,
         step = "restoring" => backup[c] # Absent,
         UNCHANGED <<original, publisher, made, named, stored, accepted, raced, overlapped>>,
         file' \in Content, writing' \in {writing, Absent}, writing = None => writing' = None,
         left' \in Left
  PROVE  ConfigInv'
<1>1. /\ step \in Stage \ {"idle", "asked"} /\ step \in Window
      /\ doing[c] \notin {"idle", "asked"} /\ doing[c] \in Window
  BY DEF Having, Stage, Window
<1>2. ConfigTyped'
  BY <1>1, WentTo DEF ConfigInv, ConfigTyped, ConfigTypeOK
<1>3. Turns'
  BY <1>1, WentTo DEF ConfigInv, ConfigTyped, ConfigTypeOK, Turns, Window, Having
<1>4. OneWriter'
  BY <1>1, WentTo DEF ConfigInv, OneWriter, Within
<1> QED BY <1>2, <1>3, <1>4 DEF ConfigInv

LEMMA Unlinked ==
  ASSUME Unlinks
  PROVE  writing' \in {writing, Absent} /\ (writing = None <=> writing' = None)
BY ContentsDiffer DEF Unlinks

LEMMA WriteStepsTyped ==
  ASSUME ConfigInv, NEW c \in Caller,
         WriteFails(c) \/ RemoveOld(c) \/ Rename(c) \/ ReadBackFails(c)
  PROVE  ConfigInv'
<1>1. /\ doing[c] \in Having
      /\ {"failed", "removed", "replaced"} \subseteq Having
  BY DEF WriteFails, RemoveOld, Rename, ReadBackFails, Having
<1>2. CASE WriteFails(c) \/ ReadBackFails(c)
  <2>1. left' \in Left
    BY <1>2, TakenOff DEF WriteFails, ReadBackFails
  <2>2. file' \in Content
    BY <1>2 DEF WriteFails, ReadBackFails, ConfigInv, ConfigTyped, ConfigTypeOK
  <2> QED BY <1>1, <1>2, <2>1, <2>2, GoesOnTyped DEF WriteFails, ReadBackFails, ghosts
<1>3. CASE RemoveOld(c)
  BY <1>1, <1>3, Unlinked, ContentsDiffer, GoesOnTyped
     DEF RemoveOld, ghosts, ConfigInv, ConfigTyped
<1>4. CASE Rename(c)
  <2>1. file' \in Content
    <3>1. original[c] \in Content /\ original[c] # Torn /\ request[c] \in Request
      BY <1>1, ContentsDiffer DEF ConfigInv, Turns, Content, Having
    <3> QED BY <1>4, <3>1, BaseIsDoc, EditedIsDoc DEF Rename, Content
  <2> QED BY <1>1, <1>4, <2>1, Unlinked, GoesOnTyped
         DEF Rename, ghosts, ConfigInv, ConfigTyped
<1> QED BY <1>2, <1>3, <1>4

LEMMA ReadBackFileTyped == ASSUME ConfigInv, NEW c \in Caller, ReadBackFile(c) PROVE ConfigInv'
<1>1. CASE file \in Doc
  <2>1. Leave(c) /\ doing[c] \notin {"idle", "asked"}
    BY <1>1 DEF ReadBackFile
  <2>2. request[c] \in Request
    BY DEF ReadBackFile, ConfigInv, Turns
  <2>3. accepted' \in Content /\ made' \in [Item -> {"on", "off", None}]
    BY <1>1, <2>2 DEF ReadBackFile, ConfigInv, ConfigTyped, Content, Request
  <2>4. ConfigTyped' /\ OneWriter'
    BY <2>1, <2>3, Left_ DEF ReadBackFile, ConfigInv, ConfigTyped, ConfigTypeOK, OneWriter
  <2> QED BY <2>1, <2>4, Left_ DEF ConfigInv
<1>2. CASE file \notin Doc
  <2>1. doing[c] \in Having /\ "failed" \in Having
    BY DEF ReadBackFile, Having
  <2> QED BY <1>2, <2>1, GoesOnTyped DEF ReadBackFile, ConfigInv, ConfigTyped, ConfigTypeOK
<1> QED BY <1>1, <1>2

LEMMA RollbackTyped == ASSUME ConfigInv, NEW c \in Caller, Rollback(c) PROVE ConfigInv'
<1>1. original[c] \in Content
  BY ContentsDiffer DEF Rollback, ConfigInv, Turns, Having, Content
<1>2. CASE backup[c] = Absent
  <2>1. Leave(c) /\ doing[c] \notin {"idle", "asked"}
    BY <1>2 DEF Rollback
  <2>2. file' \in Content /\ writing' \in Doc \cup {Absent, None} /\ (writing = None => writing' = None)
    BY <1>1, <1>2, Unlinked DEF Rollback, ConfigInv, ConfigTyped, ConfigTypeOK
  <2>3. ConfigTyped' /\ OneWriter'
    BY <2>1, <2>2, Left_
       DEF Rollback, ConfigInv, ConfigTyped, ConfigTypeOK, OneWriter, ghosts
  <2> QED BY <2>1, <2>3, Left_ DEF ConfigInv
<1>3. CASE backup[c] # Absent
  <2>1. doing[c] \in Having /\ "restoring" \in Having
    BY DEF Rollback, Having
  <2> QED BY <1>3, <2>1, ContentsDiffer, GoesOnTyped
         DEF Rollback, ConfigInv, ConfigTyped, ghosts
<1> QED BY <1>2, <1>3

LEMMA RestoredTyped ==
  ASSUME ConfigInv, NEW c \in Caller, Restored(c) \/ RestoreFails(c)
  PROVE  ConfigInv'
<1>1. Leave(c) /\ doing[c] \in Window /\ doing[c] \notin {"idle", "asked"}
  BY DEF Restored, RestoreFails, Window
<1>2. file' \in Content /\ left' \in Left
  BY <1>1, TakenOff DEF Restored, RestoreFails, ConfigInv, ConfigTyped, ConfigTypeOK, Turns
<1>3. /\ accepted' \in Content /\ made' \in [Item -> {"on", "off", None}]
      /\ named' \in Name \cup {None}
  BY DEF Restored, RestoreFails, ConfigInv, ConfigTyped, ConfigTypeOK, ghosts, Content
<1>4. UNCHANGED <<publisher, writing, stored, raced, overlapped>>
  BY DEF Restored, RestoreFails, ghosts
<1>5. ConfigTyped' /\ OneWriter'
  BY <1>1, <1>2, <1>3, <1>4, Left_ DEF ConfigInv, ConfigTyped, ConfigTypeOK, OneWriter
<1> QED BY <1>1, <1>5, Left_ DEF ConfigInv

LEMMA RunCliTyped == ASSUME ConfigInv, NEW c \in Caller, RunCli(c) PROVE ConfigInv'
<1>1. Leave(c) /\ doing[c] \notin {"idle", "asked"} /\ request[c] \in Request
      /\ request[c].item \in Plugin
  BY DEF RunCli, ConfigInv, Turns
<1>2. ~Refuses(file, request[c]) => file \in Doc
  <2>1. Refuses(Absent, request[c])
    BY <1>1, ContentsDiffer, ConfigAssumption DEF Refuses, Base, Empty, Item
  <2> QED BY <2>1 DEF Refuses, ConfigInv, ConfigTyped, ConfigTypeOK, Content
<1>3. /\ file' \in Content /\ accepted' \in Content
      /\ made' \in [Item -> {"on", "off", None}]
  BY <1>1, <1>2, EditedIsDoc
     DEF RunCli, ConfigInv, ConfigTyped, ConfigTypeOK, Content, Request
<1>4. left' \in Left
  <2>1. May("slips") => left.slips - 1 \in 0..MaxSlips
    BY ConfigAssumption DEF May, ConfigInv, ConfigTyped, Left
  <2> QED BY <2>1, TakenOff DEF RunCli, ConfigInv, ConfigTyped, Left
<1>5. ConfigTyped' /\ OneWriter'
  BY <1>1, <1>3, <1>4, Left_ DEF RunCli, ConfigInv, ConfigTyped, ConfigTypeOK, OneWriter
<1> QED BY <1>1, <1>5, Left_ DEF ConfigInv

(* Steps that leave the changes alone.                                      *)
LEMMA AsideTyped ==
  ASSUME ConfigInv, UNCHANGED locals, ConfigTyped', OneWriter'
  PROVE  ConfigInv'
BY DEF ConfigInv, Turns, locals

LEMMA PublishReadTyped == ASSUME ConfigInv, PublishRead PROVE ConfigInv'
<1>1. left' \in Left
  BY TakenOff DEF PublishRead
<1>2. publisher' \in Publishing
  <2>1. Base(file) \in Doc
    BY BaseIsDoc DEF PublishRead, ConfigInv, ConfigTyped, ConfigTypeOK
  <2>2. MaxPublished - left.published + 1 \in Name
    BY ConfigAssumption DEF PublishRead, May, ConfigInv, ConfigTyped, Left, Name
  <2>3. [Base(file) EXCEPT !.name = MaxPublished - left.published + 1] \in Doc
    BY <2>1, <2>2 DEF Doc
  <2> QED BY <2>1, <2>3 DEF PublishRead, Publishing
<1>3. ConfigTyped'
  BY <1>1, <1>2 DEF PublishRead, ConfigInv, ConfigTyped, ConfigTypeOK, locals
<1>4. OneWriter'
  BY DEF PublishRead, ConfigInv, OneWriter, locals, Within
<1> QED BY <1>3, <1>4, AsideTyped DEF PublishRead

LEMMA PublishedTyped ==
  ASSUME ConfigInv, PublishWrite \/ PublishCheck \/ PublishRestore
  PROVE  ConfigInv'
<1>1. publisher \in Publishing /\ publisher.read \in Content /\ publisher.write \in Content
  BY DEF PublishWrite, PublishCheck, PublishRestore, ConfigInv, ConfigTyped, NoPublisher,
         Publishing, Content
<1>2. left' \in Left
  BY TakenOff DEF PublishWrite, PublishCheck, PublishRestore, ConfigInv, ConfigTyped
<1>3. file' \in Content /\ accepted' \in Content
  BY <1>1 DEF PublishWrite, PublishCheck, PublishRestore, ConfigInv, ConfigTyped, ConfigTypeOK
<1>4. publisher' = NoPublisher \/ publisher' \in Publishing
  BY <1>1 DEF PublishWrite, PublishCheck, PublishRestore, Publishing
<1>5. named' \in Name \cup {None} /\ raced' \in BOOLEAN
  BY <1>1 DEF PublishWrite, PublishCheck, PublishRestore, ConfigInv, ConfigTyped, Publishing, Doc
<1>6. UNCHANGED <<locals, writing, made, stored, overlapped>>
  BY DEF PublishWrite, PublishCheck, PublishRestore
<1>7. ConfigTyped'
  BY <1>2, <1>3, <1>4, <1>5, <1>6 DEF ConfigInv, ConfigTyped, ConfigTypeOK, locals
<1>8. OneWriter'
  <2>1. writing = None /\ (~overlapped => ~Within)
    BY <1>1 DEF ConfigInv, OneWriter, NoPublisher, Publishing
  <2> QED BY <1>6, <2>1 DEF OneWriter, Within, locals
<1> QED BY <1>6, <1>7, <1>8, AsideTyped

LEMMA OutsideWriteTyped == ASSUME ConfigInv, OutsideWrite PROVE ConfigInv'
<1>1. left' \in Left
  BY TakenOff DEF OutsideWrite
<1>2. PICK i \in Item, to \in {"on", "gone"} :
       LET next == [file EXCEPT !.items[i] = to] IN
       /\ made' = [made EXCEPT ![i] = None]
       /\ \/ file' = next /\ writing' = None /\ accepted' = next
          \/ file' = Torn /\ writing' = next /\ UNCHANGED accepted
  BY DEF OutsideWrite
<1>3. [file EXCEPT !.items[i] = to] \in Doc
  BY <1>2 DEF OutsideWrite, Doc
<1>4. /\ file' \in Content /\ accepted' \in Content /\ writing' \in Doc \cup {Absent, None}
      /\ made' \in [Item -> {"on", "off", None}]
  BY <1>2, <1>3 DEF ConfigInv, ConfigTyped, ConfigTypeOK, Content
<1>5. UNCHANGED <<locals, publisher, named, stored, overlapped>> /\ raced' \in BOOLEAN
      /\ publisher = NoPublisher
  BY DEF OutsideWrite, ConfigInv, ConfigTyped
<1>6. ConfigTyped' /\ OneWriter'
  BY <1>1, <1>4, <1>5 DEF ConfigInv, ConfigTyped, ConfigTypeOK, OneWriter, locals
<1> QED BY <1>5, <1>6, AsideTyped

LEMMA StillMadeIs ==
  ASSUME ConfigInv, NEW d \in Doc
  PROVE  /\ StillMade(d) \in [Item -> {"on", "off", None}]
         /\ \A i \in Item : StillMade(d)[i] \in {None, d.items[i]} /\ StillMade(d)[i] \in {None, made[i]}
BY DEF StillMade, ConfigInv, ConfigTyped

LEMMA OutsideDoneTyped == ASSUME ConfigInv, OutsideDone PROVE ConfigInv'
<1>1. /\ file' \in Content /\ accepted' \in Content /\ raced' \in BOOLEAN
      /\ made' \in [Item -> {"on", "off", None}]
  BY StillMadeIs DEF OutsideDone, ConfigInv, ConfigTyped, ConfigTypeOK, Content
<1>2. ConfigTyped' /\ OneWriter'
  BY <1>1 DEF OutsideDone, ConfigInv, ConfigTyped, ConfigTypeOK, OneWriter, locals, Within
<1> QED BY <1>2, AsideTyped DEF OutsideDone

LEMMA ExitTyped == ASSUME ConfigInv, Exit PROVE ConfigInv'
<1>1. left' \in Left
  BY TakenOff DEF Exit
<1>2. /\ accepted' \in Content /\ named' \in Name \cup {None}
      /\ made' \in [Item -> {"on", "off", None}]
  BY StillMadeIs DEF Exit, ConfigInv, ConfigTyped, ConfigTypeOK, Content
<1>3. ConfigTyped'
  BY <1>1, <1>2 DEF Exit, ConfigInv, ConfigTyped, ConfigTypeOK, Stage
<1>4. Turns'
  BY ConfigAssumption DEF Exit, Turns, Window, Having
<1>5. OneWriter'
  BY DEF Exit, OneWriter
<1> QED BY <1>3, <1>4, <1>5 DEF ConfigInv

CallerStep(c) == \/ Ask(c) \/ TakeTurn(c) \/ Refused(c) \/ BackUp(c) \/ BackUpFails(c)
                 \/ ReadDocument(c) \/ WriteFails(c) \/ RemoveOld(c) \/ Rename(c)
                 \/ ReadBackFile(c) \/ ReadBackFails(c) \/ Rollback(c) \/ Restored(c)
                 \/ RestoreFails(c) \/ RunCli(c)

LEMMA ConfigInvNext == ASSUME ConfigInv, [ConfigNext]_configVars PROVE ConfigInv'
<1>1. ASSUME NEW c \in Caller, CallerStep(c)
      PROVE  ConfigInv'
  BY <1>1, AskTyped, TakeTurnTyped, RefusedTyped, BackUpTyped, ReadDocumentTyped,
     WriteStepsTyped, ReadBackFileTyped, RollbackTyped, RestoredTyped, RunCliTyped
     DEF CallerStep
<1>2. CASE PublishRead \/ PublishWrite \/ PublishCheck \/ PublishRestore
  BY <1>2, PublishReadTyped, PublishedTyped
<1>3. CASE OutsideWrite \/ OutsideDone \/ Exit
  BY <1>3, OutsideWriteTyped, OutsideDoneTyped, ExitTyped
<1>4. CASE UNCHANGED configVars
  BY <1>4 DEF configVars, locals, ConfigInv, ConfigTyped, ConfigTypeOK, Turns, OneWriter, Within
<1> QED BY <1>1, <1>2, <1>3, <1>4 DEF ConfigNext, CallerStep

-----------------------------------------------------------------------------
(* What was answered agrees with a content: the switches of S that were     *)
(* answered done, and the name that was published.  A file that is not      *)
(* there shows everything gone, and one cut short shows nothing.            *)
MadeIn(m, d, S) == \A i \in S : m[i] \in {None, Base(d).items[i]}
NamedIn(n, d)   == n \in {None, Base(d).name}
Agrees(m, n, d) == d # Torn => MadeIn(m, d, Item) /\ NamedIn(n, d)

(* The copy and the text a change works from agree with what was answered,  *)
(* so a change and its rollback put back what was; in between, the file may *)
(* only differ in the item that is switched.                                *)
ChangeStands(c) ==
  /\ doing[c] \in Window => Agrees(made, named, backup[c])
  /\ doing[c] \in Having => Agrees(made, named, original[c])
  /\ doing[c] \in {"backed", "cli", "read"} => Agrees(made, named, file)
  /\ doing[c] \in Having /\ file \in Doc =>
       MadeIn(made, file, Item \ {request[c].item}) /\ NamedIn(named, file)

Stands ==
  ~overlapped =>
    /\ ~Within /\ publisher = NoPublisher => Agrees(made, named, file)
    /\ publisher # NoPublisher =>
         /\ file # Torn => MadeIn(made, file, Item)
         /\ MadeIn(made, publisher.write, Item)
         /\ Agrees(made, named, publisher.read)
    /\ \A c \in Caller : ChangeStands(c)
    /\ writing \in Doc => NamedIn(named, writing)

LEMMA AgreementKept ==
  ASSUME NEW m, NEW n, NEW m2, NEW n2, NEW d, NEW S,
         \A i \in S : m2[i] \in {None, m[i]}, n2 \in {None, n}
  PROVE  /\ MadeIn(m, d, S) => MadeIn(m2, d, S)
         /\ NamedIn(n, d) => NamedIn(n2, d)
BY DEF MadeIn, NamedIn

LEMMA AgreesKept ==
  ASSUME NEW m, NEW n, NEW m2, NEW n2, NEW d, Agrees(m, n, d),
         \A i \in Item : m2[i] \in {None, m[i]}, n2 \in {None, n}
  PROVE  Agrees(m2, n2, d)
BY AgreementKept DEF Agrees

(* A change that is answered: nobody is within one.                         *)
LEMMA StandsAnswered ==
  ASSUME ConfigInv, NEW c \in Caller, Leave(c), doing[c] \notin {"idle", "asked"},
         ~overlapped' => publisher' = NoPublisher,
         ~overlapped' => Agrees(made', named', file'),
         ~overlapped' /\ writing' \in Doc => NamedIn(named', writing')
  PROVE  Stands'
<1>1. \A d \in Caller : doing'[d] \notin Window \cup Having /\ doing'[d] \notin {"backed", "cli", "read"}
  BY Left_ DEF Window, Having
<1>2. \A d \in Caller : ChangeStands(d)'
  BY <1>1 DEF ChangeStands
<1> QED BY <1>2 DEF Stands

(* A change that goes on: only its own part of Stands is at stake.          *)
LEMMA StandsOn ==
  ASSUME ConfigInv, NEW c \in Caller, NEW step \in Window, doing' = [doing EXCEPT ![c] = step],
         doing[c] \notin {"idle", "asked"},
         ~overlapped' => publisher' = NoPublisher,
         ~overlapped' => ChangeStands(c)',
         ~overlapped' /\ writing' \in Doc => NamedIn(named', writing')
  PROVE  Stands'
<1>1. \A d \in Caller \ {c} : doing'[d] \in {"idle", "asked"}
  BY Holder DEF ConfigInv, ConfigTyped
<1>2. \A d \in Caller \ {c} : ChangeStands(d)'
  BY <1>1 DEF ChangeStands, Window, Having
<1>3. Within'
  BY DEF Within, ConfigInv, ConfigTyped
<1> QED BY <1>2, <1>3 DEF Stands

LEMMA StandsInit == ConfigInit => Stands
<1> SUFFICES ASSUME ConfigInit PROVE Stands
  OBVIOUS
<1>1. Agrees(made, named, file)
  BY DEF ConfigInit, Agrees, MadeIn, NamedIn
<1>2. ~Within /\ \A c \in Caller : ChangeStands(c)
  BY DEF ConfigInit, Within, Window, Having, ChangeStands
<1>3. writing \notin Doc
  BY ContentsDiffer DEF ConfigInit
<1> QED BY <1>1, <1>2, <1>3 DEF ConfigInit, Stands

(* Before the copy is taken.                                                *)
LEMMA StandsBefore ==
  ASSUME ConfigInv, Stands, NEW c \in Caller,
         Ask(c) \/ TakeTurn(c) \/ Refused(c) \/ BackUpFails(c)
  PROVE  Stands'
<1>1. /\ UNCHANGED <<file, publisher, writing, made, named, overlapped>>
      /\ doing[c] \in {"idle", "asked", "refused", "checked"}
  BY DEF Ask, TakeTurn, Refused, BackUpFails, ghosts
<1>2. PICK step \in {"idle", "asked", "refused", "checked"} :
         doing' = [doing EXCEPT ![c] = step]
  BY DEF Ask, TakeTurn, Refused, BackUpFails, Leave
<1>3. \A d \in Caller \ {c} : /\ doing'[d] = doing[d] /\ request'[d] = request[d]
                              /\ backup'[d] = backup[d] /\ original'[d] = original[d]
  BY <1>2 DEF ConfigInv, ConfigTyped, ConfigTypeOK, Ask, TakeTurn, Refused, BackUpFails, Leave
<1>4. /\ doing'[c] \notin Window /\ doing'[c] \notin Having
      /\ doing'[c] \notin {"backed", "cli", "read"} /\ doing[c] \notin Window
  BY <1>1, <1>2 DEF ConfigInv, ConfigTyped, Window, Having
<1>5. Within' <=> Within
  BY <1>3, <1>4 DEF Within
<1>6. ~overlapped => \A d \in Caller : ChangeStands(d)'
  <2> SUFFICES ASSUME ~overlapped, NEW d \in Caller PROVE ChangeStands(d)'
    OBVIOUS
  <2>1. CASE d = c
    BY <2>1, <1>4 DEF ChangeStands
  <2>2. CASE d # c
    BY <2>2, <1>1, <1>3 DEF Stands, ChangeStands
  <2> QED BY <2>1, <2>2
<1> QED BY <1>1, <1>5, <1>6 DEF Stands

LEMMA StandsBackedUp == ASSUME ConfigInv, Stands, NEW c \in Caller, BackUp(c) PROVE Stands'
<1>1. PICK step \in {"cli", "backed"} : doing' = [doing EXCEPT ![c] = step]
  BY DEF BackUp
<1>2. ~overlapped' => ~overlapped /\ publisher = NoPublisher
  BY DEF BackUp
<1>3. ~Within
  BY Holder DEF BackUp, Within, Window
<1>4. ~overlapped' => Agrees(made, named, file)
  BY <1>2, <1>3 DEF Stands
<1>5. doing'[c] = step /\ backup'[c] = file /\ UNCHANGED <<file, publisher, writing, made, named>>
  BY <1>1 DEF BackUp, ConfigInv, ConfigTyped, ConfigTypeOK
<1>6. ~overlapped' => ChangeStands(c)'
  BY <1>4, <1>5 DEF ChangeStands, Having
<1>7. step \in Window /\ doing[c] \notin {"idle", "asked"}
  BY DEF Window, BackUp
<1>8. ~overlapped' /\ writing' \in Doc => NamedIn(named', writing')
  BY <1>2, <1>5 DEF Stands
<1> QED BY <1>1, <1>2, <1>5, <1>6, <1>7, <1>8, StandsOn

(* What a step of a change may count on.                                    *)
LEMMA StandsNow ==
  ASSUME ConfigInv, Stands, NEW c \in Caller, doing[c] \in Window, ~overlapped
  PROVE  /\ publisher = NoPublisher /\ ChangeStands(c) /\ request[c] \in Request
         /\ writing \in Doc => NamedIn(named, writing)
         /\ doing[c] \notin {"idle", "asked"}
<1>1. Within /\ doing[c] \notin {"idle", "asked"}
  BY DEF Within, Window
<1> QED BY <1>1 DEF Stands, ConfigInv, Turns, OneWriter

LEMMA StandsReadDocument ==
  ASSUME ConfigInv, Stands, NEW c \in Caller, ReadDocument(c)
  PROVE  Stands'
<1>1. /\ UNCHANGED <<file, publisher, writing, made, named, overlapped>>
      /\ doing[c] = "backed" /\ doing[c] \in Window /\ doing[c] \notin {"idle", "asked"}
  BY DEF ReadDocument, ghosts, Window
<1>2. ~overlapped => Agrees(made, named, file)
  BY <1>1, StandsNow DEF ChangeStands
<1>3. CASE Refuses(file, request[c])
  <2>1. Leave(c)
    BY <1>3 DEF ReadDocument
  <2> QED BY <1>1, <1>2, <2>1, StandsNow, StandsAnswered
<1>4. CASE ~Refuses(file, request[c])
  <2>1. To(c, "read") /\ original'[c] = file
    BY <1>4 DEF ReadDocument, ConfigInv, ConfigTyped, ConfigTypeOK
  <2>2. doing' = [doing EXCEPT ![c] = "read"] /\ doing'[c] = "read" /\ "read" \in Window
        /\ UNCHANGED <<backup, request>>
    BY <2>1 DEF To, ConfigInv, ConfigTyped, Window
  <2>3. file \in Doc => file # Torn
    BY ContentsDiffer
  <2>4. ~overlapped => ChangeStands(c)'
    BY <1>1, <1>2, <2>1, <2>2, <2>3, StandsNow DEF ChangeStands, Agrees, MadeIn
  <2> QED BY <1>1, <2>2, <2>4, StandsNow, StandsOn
<1> QED BY <1>3, <1>4

(* The file is rewritten or the rewriting stops, within the change.         *)
LEMMA StandsWriting ==
  ASSUME ConfigInv, Stands, NEW c \in Caller,
         WriteFails(c) \/ RemoveOld(c) \/ Rename(c) \/ ReadBackFails(c)
  PROVE  Stands'
<1>1. /\ UNCHANGED <<publisher, original, made, named, overlapped>>
      /\ doing[c] \in Window /\ doing[c] \in Having /\ doing[c] \notin {"idle", "asked"}
  BY DEF WriteFails, RemoveOld, Rename, ReadBackFails, ghosts, Window, Having
<1>2. PICK step \in {"failed", "removed", "replaced"} : To(c, step)
  BY DEF WriteFails, RemoveOld, Rename, ReadBackFails
<1>3. doing' = [doing EXCEPT ![c] = step] /\ doing'[c] = step /\ UNCHANGED <<backup, request>>
  BY <1>2 DEF To, ConfigInv, ConfigTyped
<1>4. step \in Window /\ step \in Having /\ step \notin {"backed", "cli", "read"}
  BY DEF Window, Having
<1>5. writing' \in {writing, Absent}
  BY Unlinked DEF WriteFails, RemoveOld, Rename, ReadBackFails
<1>6. ~overlapped /\ writing' \in Doc => NamedIn(named', writing')
  BY <1>1, <1>5, ContentsDiffer, StandsNow
<1>7. ~overlapped /\ file' \in Doc =>
        MadeIn(made, file', Item \ {request[c].item}) /\ NamedIn(named, file')
  <2> SUFFICES ASSUME ~overlapped, file' \in Doc
               PROVE  MadeIn(made, file', Item \ {request[c].item}) /\ NamedIn(named, file')
    OBVIOUS
  <2>1. CASE file' \in {file, Absent}
    BY <1>1, <2>1, ContentsDiffer, StandsNow DEF ChangeStands
  <2>2. CASE Rename(c)
    <3>1. original[c] \in Content /\ original[c] # Torn /\ request[c] \in Request
      BY <1>1, ContentsDiffer DEF ConfigInv, Turns, Content, Having, Window
    <3>2. Base(original[c]) \in Doc
      BY <3>1, BaseIsDoc
    <3>3. Base(file') = Edited(Base(original[c]), request[c])
      BY <2>2, <3>1, <3>2, EditedIsDoc, ContentsDiffer DEF Rename, Base
    <3>4. MadeIn(made, original[c], Item) /\ NamedIn(named, original[c])
      BY <1>1, <3>1, StandsNow DEF ChangeStands, Agrees
    <3> QED BY <3>1, <3>2, <3>3, <3>4, EditedIsDoc DEF MadeIn, NamedIn
  <2> QED BY <2>1, <2>2 DEF WriteFails, RemoveOld, ReadBackFails
<1>8. ~overlapped => ChangeStands(c)'
  BY <1>1, <1>3, <1>4, <1>7, StandsNow DEF ChangeStands
<1> QED BY <1>1, <1>3, <1>4, <1>6, <1>8, StandsNow, StandsOn

LEMMA StandsReadBack == ASSUME ConfigInv, Stands, NEW c \in Caller, ReadBackFile(c) PROVE Stands'
<1>1. /\ UNCHANGED <<file, publisher, writing, named, overlapped>>
      /\ doing[c] = "replaced" /\ doing[c] \in Window /\ doing[c] \in Having
      /\ doing[c] \notin {"idle", "asked"}
  BY DEF ReadBackFile, Window, Having
<1>2. CASE file \in Doc
  <2>1. Leave(c) /\ made' = [made EXCEPT ![request[c].item] =
                               IF file.items[request[c].item] = request[c].to
                               THEN request[c].to ELSE None]
    BY <1>2 DEF ReadBackFile
  <2>2. ~overlapped => Agrees(made', named', file')
    <3> SUFFICES ASSUME ~overlapped PROVE Agrees(made', named, file)
      BY <1>1
    <3>1. MadeIn(made, file, Item \ {request[c].item}) /\ NamedIn(named, file)
      BY <1>1, <1>2, StandsNow DEF ChangeStands
    <3>2. request[c] \in Request /\ Base(file) = file
      BY <1>1, <1>2, StandsNow, ContentsDiffer DEF Base
    <3>3. made'[request[c].item] \in {None, file.items[request[c].item]}
      BY <2>1, <3>2 DEF ConfigInv, ConfigTyped, Request
    <3>4. \A i \in Item \ {request[c].item} : made'[i] = made[i]
      BY <2>1 DEF ConfigInv, ConfigTyped
    <3> QED BY <3>1, <3>2, <3>3, <3>4 DEF Agrees, MadeIn
  <2> QED BY <1>1, <2>1, <2>2, StandsNow, StandsAnswered
<1>3. CASE file \notin Doc
  <2>1. To(c, "failed") /\ UNCHANGED <<original, made>>
    BY <1>3 DEF ReadBackFile
  <2>2. doing' = [doing EXCEPT ![c] = "failed"] /\ doing'[c] = "failed" /\ "failed" \in Window
        /\ UNCHANGED <<backup, request>>
    BY <2>1 DEF To, ConfigInv, ConfigTyped, Window
  <2>3. ~overlapped => ChangeStands(c)'
    BY <1>1, <1>3, <2>1, <2>2, StandsNow DEF ChangeStands
  <2> QED BY <1>1, <2>1, <2>2, <2>3, StandsNow, StandsOn
<1> QED BY <1>2, <1>3

(* What the change found is put back, or what is there now is owned up to.  *)
LEMMA StandsRolledBack ==
  ASSUME ConfigInv, Stands, NEW c \in Caller, Rollback(c) \/ Restored(c) \/ RestoreFails(c)
  PROVE  Stands'
<1>1. /\ UNCHANGED <<publisher, overlapped>> /\ doing[c] \in Window /\ doing[c] \in Having
      /\ doing[c] \notin {"idle", "asked"}
  BY DEF Rollback, Restored, RestoreFails, ghosts, Window, Having
<1>2. CASE Rollback(c) /\ backup[c] = Absent
  <2>1. Leave(c) /\ file' = original[c] /\ writing' \in {writing, Absent}
        /\ UNCHANGED <<made, named>>
    BY <1>2, Unlinked DEF Rollback, ghosts
  <2>2. ~overlapped => Agrees(made', named', file')
    BY <1>1, <2>1, StandsNow DEF ChangeStands
  <2>3. ~overlapped /\ writing' \in Doc => NamedIn(named', writing')
    BY <1>1, <2>1, ContentsDiffer, StandsNow
  <2> QED BY <1>1, <2>1, <2>2, <2>3, StandsNow, StandsAnswered
<1>3. CASE Rollback(c) /\ backup[c] # Absent
  <2>1. To(c, "restoring") /\ file' = Torn /\ UNCHANGED <<original, writing, made, named>>
    BY <1>3 DEF Rollback, ghosts
  <2>2. doing' = [doing EXCEPT ![c] = "restoring"] /\ doing'[c] = "restoring"
        /\ "restoring" \in Window /\ UNCHANGED <<backup, request>>
    BY <2>1 DEF To, ConfigInv, ConfigTyped, Window
  <2>3. ~overlapped => ChangeStands(c)'
    BY <1>1, <2>1, <2>2, ContentsDiffer, StandsNow DEF ChangeStands
  <2> QED BY <1>1, <2>1, <2>2, <2>3, StandsNow, StandsOn
<1>4. CASE Restored(c)
  <2>1. Leave(c) /\ file' = backup[c] /\ UNCHANGED <<writing, made, named>>
    BY <1>4 DEF Restored, ghosts
  <2>2. ~overlapped => Agrees(made', named', file')
    BY <1>1, <2>1, StandsNow DEF ChangeStands
  <2> QED BY <1>1, <2>1, <2>2, StandsNow, StandsAnswered
<1>5. CASE RestoreFails(c)
  <2>1. Leave(c) /\ UNCHANGED <<file, writing>> /\ named' \in {None, named}
    BY <1>5 DEF RestoreFails
  <2>2. ~overlapped => Agrees(made', named', file')
    <3>1. CASE file \in Doc
      <4> SUFFICES ASSUME ~overlapped PROVE Agrees(made', named, file)
        BY <1>5, <2>1, <3>1 DEF RestoreFails
      <4>1. MadeIn(made, file, Item \ {request[c].item}) /\ NamedIn(named, file)
        BY <1>1, <3>1, StandsNow DEF ChangeStands
      <4>2. \A i \in Item : made'[i] = IF i = request[c].item THEN None ELSE made[i]
        BY <1>5, <3>1 DEF RestoreFails, ConfigInv, ConfigTyped
      <4> QED BY <4>1, <4>2 DEF Agrees, MadeIn
    <3>2. CASE file \notin Doc
      BY <1>5, <3>2 DEF RestoreFails, Agrees, MadeIn, NamedIn
    <3> QED BY <3>1, <3>2
  <2>3. ~overlapped /\ writing' \in Doc => NamedIn(named', writing')
    BY <1>1, <2>1, StandsNow DEF NamedIn
  <2> QED BY <1>1, <2>1, <2>2, <2>3, StandsNow, StandsAnswered
<1> QED BY <1>2, <1>3, <1>4, <1>5

LEMMA StandsRunCli == ASSUME ConfigInv, Stands, NEW c \in Caller, RunCli(c) PROVE Stands'
<1>1. /\ UNCHANGED <<publisher, writing, named, overlapped>> /\ Leave(c)
      /\ doing[c] = "cli" /\ doing[c] \in Window /\ doing[c] \notin {"idle", "asked"}
  BY DEF RunCli, Window
<1>2. ASSUME ~overlapped PROVE Agrees(made', named', file')
  <2>1. Agrees(made, named, file) /\ request[c] \in Request /\ request[c].item \in Plugin
    BY <1>1, <1>2, StandsNow DEF ChangeStands, ConfigInv, Turns
  <2>2. CASE UNCHANGED <<file, made>>
    BY <1>1, <2>1, <2>2
  <2>3. CASE /\ ~Refuses(file, request[c]) /\ file' = Edited(file, request[c])
             /\ \/ made' = [made EXCEPT ![request[c].item] = request[c].to]
                \/ made' = [made EXCEPT ![request[c].item] = None]
    <3>1. Refuses(Absent, request[c])
      BY <2>1, ContentsDiffer, ConfigAssumption DEF Refuses, Base, Empty, Item
    <3>2. file \in Doc
      BY <2>3, <3>1 DEF Refuses, ConfigInv, ConfigTyped, ConfigTypeOK, Content
    <3>3. file' \in Doc /\ Base(file) = file /\ Base(file') = file' /\ file # Torn
      BY <2>1, <2>3, <3>2, EditedIsDoc, ContentsDiffer DEF Base
    <3>4. \A i \in Item : made'[i] = IF i # request[c].item THEN made[i]
                                     ELSE made'[request[c].item]
      BY <2>3 DEF ConfigInv, ConfigTyped
    <3>5. made'[request[c].item] \in {None, request[c].to}
      BY <2>1, <2>3, EditedIsDoc DEF ConfigInv, ConfigTyped, Item
    <3>6. \A i \in Item : made[i] \in {None, file.items[i]}
      BY <2>1, <3>3 DEF Agrees, MadeIn
    <3>7. \A i \in Item : made'[i] \in {None, file'.items[i]}
      BY <2>1, <2>3, <3>2, <3>4, <3>5, <3>6, EditedIsDoc
    <3>8. NamedIn(named', file')
      BY <1>1, <2>1, <2>3, <3>2, <3>3, EditedIsDoc DEF Agrees, NamedIn
    <3> QED BY <3>3, <3>7, <3>8 DEF Agrees, MadeIn
  <2> QED BY <2>2, <2>3 DEF RunCli
<1> QED BY <1>1, <1>2, StandsNow, StandsAnswered

(* Steps that leave the changes alone.                                      *)
LEMMA ChangesAside ==
  ASSUME UNCHANGED locals
  PROVE  /\ Within' <=> Within
         /\ \A c \in Caller : /\ doing'[c] = doing[c] /\ request'[c] = request[c]
                              /\ backup'[c] = backup[c] /\ original'[c] = original[c]
BY DEF locals, Within

LEMMA NobodyWithin ==
  ASSUME ~Within, NEW c \in Caller
  PROVE  /\ doing[c] \notin Window /\ doing[c] \notin Having
         /\ doing[c] \notin {"backed", "cli", "read"}
BY DEF Within, Window, Having

LEMMA BasesAre ==
  ASSUME NEW d
  PROVE  d \in Doc => Base(d) = d /\ d # Torn /\ d # Absent
BY ContentsDiffer DEF Base

LEMMA StandsPublish ==
  ASSUME ConfigInv, Stands, PublishRead \/ PublishWrite \/ PublishCheck \/ PublishRestore
  PROVE  Stands'
<1> SUFFICES ASSUME ~overlapped' PROVE Stands'
  BY DEF Stands
<1>1. ~overlapped /\ ~Within /\ writing = None /\ UNCHANGED <<locals, writing, made>>
  <2>1. CASE PublishRead
    BY <2>1 DEF PublishRead
  <2>2. CASE PublishWrite \/ PublishCheck \/ PublishRestore
    <3>1. publisher # NoPublisher
      BY <2>2 DEF PublishWrite, PublishCheck, PublishRestore, NoPublisher
    <3>2. UNCHANGED <<locals, writing, made, overlapped>>
      BY <2>2 DEF PublishWrite, PublishCheck, PublishRestore
    <3> QED BY <3>1, <3>2 DEF ConfigInv, OneWriter
  <2> QED BY <2>1, <2>2
<1>2. ~Within' /\ writing' \notin Doc /\ \A c \in Caller : ChangeStands(c)'
  <2>1. ~Within' /\ writing' \notin Doc
    BY <1>1, ChangesAside, ContentsDiffer
  <2>2. \A c \in Caller : doing'[c] = doing[c]
    BY <1>1, ChangesAside
  <2> QED BY <1>1, <2>1, <2>2, NobodyWithin DEF ChangeStands
<1>3. CASE PublishRead
  <2>1. Agrees(made, named, file) /\ file # Torn
    BY <1>1, <1>3 DEF Stands, PublishRead
  <2>2. Base(file) \in Doc
    BY <2>1, BaseIsDoc DEF ConfigInv, ConfigTyped, ConfigTypeOK
  <2>3. MaxPublished - left.published + 1 \in Name
    BY <1>3, ConfigAssumption DEF PublishRead, May, ConfigInv, ConfigTyped, Left, Name
  <2>4. publisher'.write \in Doc /\ publisher'.write.items = Base(file).items
        /\ publisher'.read = Base(file)
    BY <1>3, <2>2, <2>3 DEF PublishRead, Doc
  <2>5. MadeIn(made, file, Item) /\ NamedIn(named, file)
    BY <2>1 DEF Agrees
  <2>6. MadeIn(made, publisher'.write, Item) /\ MadeIn(made, publisher'.read, Item)
        /\ NamedIn(named, publisher'.read)
    BY <2>2, <2>4, <2>5, BasesAre DEF MadeIn, NamedIn
  <2>7. publisher' # NoPublisher /\ UNCHANGED <<file, named>>
    BY <1>3 DEF PublishRead, NoPublisher
  <2> QED BY <1>1, <1>2, <2>5, <2>6, <2>7 DEF Stands, Agrees
<1>4. CASE ~PublishRead
  <2>1. publisher \in Publishing /\ publisher # NoPublisher /\ publisher.write # Torn
        /\ publisher.read \in Doc /\ publisher.write \in Doc
    BY <1>4, ContentsDiffer
       DEF PublishWrite, PublishCheck, PublishRestore, ConfigInv, ConfigTyped, NoPublisher,
           Publishing
  <2>2. /\ file # Torn => MadeIn(made, file, Item)
        /\ MadeIn(made, publisher.write, Item)
        /\ Agrees(made, named, publisher.read)
    BY <1>1, <2>1 DEF Stands
  <2>3. CASE PublishWrite
    <3>1. publisher'.write = publisher.write /\ publisher'.read = publisher.read
          /\ publisher' # NoPublisher /\ file' \in {file, publisher.write} /\ UNCHANGED named
      BY <2>1, <2>3 DEF PublishWrite, Publishing, NoPublisher
    <3> QED BY <1>1, <1>2, <2>2, <3>1 DEF Stands
  <2>4. CASE PublishCheck
    <3>1. CASE file = publisher.write
      <4>1. publisher' = NoPublisher /\ named' = file.name /\ UNCHANGED file
        BY <2>4, <3>1 DEF PublishCheck
      <4> QED BY <1>1, <1>2, <2>1, <2>2, <3>1, <4>1, BasesAre DEF Stands, Agrees, NamedIn
    <3>2. CASE file # publisher.write
      <4>1. publisher'.write = publisher.write /\ publisher'.read = publisher.read
            /\ publisher' # NoPublisher /\ UNCHANGED <<file, named>>
        BY <2>1, <2>4, <3>2 DEF PublishCheck, Publishing, NoPublisher
      <4> QED BY <1>1, <1>2, <2>2, <4>1 DEF Stands
    <3> QED BY <3>1, <3>2
  <2>5. CASE PublishRestore
    <3>1. publisher' = NoPublisher
          /\ \/ file' = publisher.read /\ named' = named
             \/ file' = file /\ named' = None
      BY <2>5 DEF PublishRestore
    <3>2. Agrees(made', named', file')
      BY <1>1, <2>2, <3>1 DEF Agrees, NamedIn
    <3> QED BY <1>1, <1>2, <3>1, <3>2 DEF Stands
  <2> QED BY <1>4, <2>3, <2>4, <2>5
<1> QED BY <1>3, <1>4

(* The provider's programs keep the name, and what they switch is no longer *)
(* what was answered.                                                       *)
LEMMA NameInFile ==
  ASSUME ConfigInv, Stands, ~overlapped, publisher = NoPublisher, file \in Doc
  PROVE  NamedIn(named, file)
<1>1. CASE ~Within
  BY <1>1, BasesAre DEF Stands, Agrees
<1>2. ASSUME NEW c \in Caller, doing[c] \in Window PROVE NamedIn(named, file)
  <2>1. doing[c] \in Having \/ doing[c] \in {"backed", "cli", "read"}
    BY <1>2 DEF Window, Having
  <2> QED BY <1>2, <2>1, BasesAre, StandsNow DEF ChangeStands, Agrees
<1> QED BY <1>1, <1>2 DEF Within

(* Whatever was answered is weakened, and the file changes to one that      *)
(* agrees as much as the one before.                                        *)
LEMMA StandsOutside ==
  ASSUME ConfigInv, Stands, UNCHANGED <<locals, overlapped, named>>,
         publisher = NoPublisher, publisher' = NoPublisher,
         \A i \in Item : made'[i] \in {None, made[i]},
         ~overlapped => \A c \in Caller : doing[c] \in Having /\ file' \in Doc =>
                           /\ MadeIn(made', file', Item \ {request[c].item})
                           /\ NamedIn(named, file'),
         ~overlapped /\ (~Within \/ \E c \in Caller : doing[c] \in {"backed", "cli", "read"}) =>
           Agrees(made', named, file'),
         ~overlapped /\ writing' \in Doc => NamedIn(named, writing')
  PROVE  Stands'
<1>1. ~overlapped => \A c \in Caller : ChangeStands(c)'
  <2> SUFFICES ASSUME ~overlapped, NEW c \in Caller PROVE ChangeStands(c)'
    OBVIOUS
  <2>1. /\ doing'[c] = doing[c] /\ request'[c] = request[c]
        /\ backup'[c] = backup[c] /\ original'[c] = original[c]
    BY ChangesAside
  <2>2. /\ doing[c] \in Window => Agrees(made', named', backup[c])
        /\ doing[c] \in Having => Agrees(made', named', original[c])
    BY AgreesKept DEF Stands, ChangeStands
  <2> QED BY <2>1, <2>2 DEF ChangeStands
<1> QED BY <1>1, ChangesAside DEF Stands

LEMMA StandsOutsideWrite == ASSUME ConfigInv, Stands, OutsideWrite PROVE Stands'
<1>1. PICK i \in Item, to \in {"on", "gone"} :
       LET next == [file EXCEPT !.items[i] = to] IN
       /\ made' = [made EXCEPT ![i] = None]
       /\ \/ file' = next /\ writing' = None /\ accepted' = next
          \/ file' = Torn /\ writing' = next /\ UNCHANGED accepted
  BY DEF OutsideWrite
<1> DEFINE next == [file EXCEPT !.items[i] = to]
<1>2. /\ UNCHANGED <<locals, overlapped, named, publisher>> /\ publisher = NoPublisher
      /\ file \in Doc
  BY DEF OutsideWrite
<1>3. next \in Doc /\ next.name = file.name /\ \A j \in Item \ {i} : next.items[j] = file.items[j]
  BY <1>2 DEF Doc
<1>4. \A j \in Item : made'[j] = IF j = i THEN None ELSE made[j]
  BY <1>1 DEF ConfigInv, ConfigTyped
<1>5. file' \in {next, Torn} /\ writing' \in {next, None}
  BY <1>1
<1>6. Base(file) = file /\ Base(next) = next /\ Base(Torn) = Torn /\ Torn \notin Doc /\ None \notin Doc
  BY <1>2, <1>3, BasesAre, ContentsDiffer DEF Base
<1>7. ~overlapped => NamedIn(named, next) /\ NamedIn(named, file)
  BY <1>2, <1>3, <1>6, NameInFile DEF NamedIn
<1>8. ASSUME NEW S \in SUBSET Item, MadeIn(made, file, S) PROVE MadeIn(made', next, S)
  BY <1>3, <1>4, <1>6, <1>8 DEF MadeIn
<1>9. ASSUME ~overlapped, NEW c \in Caller, doing[c] \in Having, file' \in Doc
      PROVE  MadeIn(made', file', Item \ {request[c].item}) /\ NamedIn(named, file')
  <2>1. MadeIn(made, file, Item \ {request[c].item})
    BY <1>2, <1>9 DEF Stands, ChangeStands
  <2>2. file' = next
    BY <1>5, <1>6, <1>9
  <2> QED BY <1>7, <1>8, <1>9, <2>1, <2>2
<1>10. ASSUME ~overlapped, ~Within \/ \E c \in Caller : doing[c] \in {"backed", "cli", "read"}
       PROVE  Agrees(made', named, file')
  <2>1. Agrees(made, named, file)
    BY <1>2, <1>10 DEF Stands, ChangeStands
  <2>2. MadeIn(made', next, Item)
    BY <1>2, <1>8, <2>1, BasesAre DEF Agrees
  <2> QED BY <1>5, <1>7, <1>10, <2>2 DEF Agrees
<1>11. \A j \in Item : made'[j] \in {None, made[j]}
  BY <1>4
<1>12. ~overlapped /\ writing' \in Doc => NamedIn(named, writing')
  BY <1>5, <1>6, <1>7
<1> QED BY <1>2, <1>9, <1>10, <1>11, <1>12, StandsOutside

LEMMA StandsOutsideDone == ASSUME ConfigInv, Stands, OutsideDone PROVE Stands'
<1>1. /\ UNCHANGED <<locals, overlapped, named, publisher>> /\ publisher = NoPublisher
      /\ writing \in Doc \cup {Absent} /\ writing' = None
  BY DEF OutsideDone, ConfigInv, ConfigTyped, ConfigTypeOK, OneWriter
<1>2. file' \in {file, writing, Torn} /\ (writing = Absent => file' = file)
      /\ \/ file' \in Doc /\ made' = StillMade(file')
         \/ (writing = Absent \/ file' \notin Doc) /\ made' = made
  BY <1>1 DEF OutsideDone
<1>3. \A j \in Item : made'[j] \in {None, made[j]}
  BY <1>2, StillMadeIs
<1>4. ASSUME ~overlapped, file' \in Doc, NEW S \in SUBSET Item,
             file' = file => MadeIn(made, file, S)
      PROVE  MadeIn(made', file', S) /\ NamedIn(named, file')
  <2>1. NamedIn(named, file')
    BY <1>1, <1>2, <1>4, ContentsDiffer, NameInFile DEF Stands, NamedIn
  <2>2. CASE made' = StillMade(file')
    BY <1>4, <2>1, <2>2, BasesAre, StillMadeIs DEF MadeIn
  <2>3. CASE made' = made /\ file' = file
    BY <1>4, <2>1, <2>3
  <2> QED BY <1>2, <1>4, <2>2, <2>3
<1>5. ASSUME ~overlapped, NEW c \in Caller, doing[c] \in Having, file' \in Doc
      PROVE  MadeIn(made', file', Item \ {request[c].item}) /\ NamedIn(named, file')
  BY <1>4, <1>5 DEF Stands, ChangeStands
<1>6. ASSUME ~overlapped, ~Within \/ \E c \in Caller : doing[c] \in {"backed", "cli", "read"}
      PROVE  Agrees(made', named, file')
  <2>1. Agrees(made, named, file)
    BY <1>1, <1>6 DEF Stands, ChangeStands
  <2>2. CASE file' \in Doc
    BY <1>4, <1>6, <2>1, <2>2, BasesAre DEF Agrees
  <2>3. CASE file' \notin Doc
    <3>1. file' = file \/ file' = Torn
      BY <1>1, <1>2, <2>3
    <3> QED BY <1>3, <2>1, <3>1, AgreesKept DEF Agrees
  <2> QED BY <2>2, <2>3
<1>7. writing' \notin Doc
  BY <1>1, ContentsDiffer
<1> QED BY <1>1, <1>3, <1>5, <1>6, <1>7, StandsOutside

LEMMA StandsExit == ASSUME ConfigInv, Stands, Exit PROVE Stands'
<1>1. /\ UNCHANGED <<file, writing, overlapped>> /\ publisher' = NoPublisher
      /\ doing' = [c \in Caller |-> "idle"]
  BY DEF Exit
<1>2. ~Within' /\ \A c \in Caller : ChangeStands(c)'
  BY <1>1 DEF Within, Window, Having, ChangeStands
<1>3. Agrees(made', named', file')
  <2>1. CASE file \in Doc
    BY <1>1, <2>1, BasesAre, StillMadeIs DEF Exit, Agrees, MadeIn, NamedIn
  <2>2. CASE file \notin Doc
    BY <1>1, <2>2 DEF Exit, Agrees, MadeIn, NamedIn
  <2> QED BY <2>1, <2>2
<1>4. ~overlapped /\ writing' \in Doc => NamedIn(named', writing')
  BY <1>1 DEF Exit, Stands, NamedIn
<1> QED BY <1>1, <1>2, <1>3, <1>4 DEF Stands

LEMMA StandsNext == ASSUME ConfigInv, Stands, [ConfigNext]_configVars PROVE Stands'
<1>1. ASSUME NEW c \in Caller, CallerStep(c)
      PROVE  Stands'
  BY <1>1, StandsBefore, StandsBackedUp, StandsReadDocument, StandsWriting, StandsReadBack,
     StandsRolledBack, StandsRunCli DEF CallerStep
<1>2. CASE PublishRead \/ PublishWrite \/ PublishCheck \/ PublishRestore
  BY <1>2, StandsPublish
<1>3. CASE OutsideWrite \/ OutsideDone \/ Exit
  BY <1>3, StandsOutsideWrite, StandsOutsideDone, StandsExit
<1>4. CASE UNCHANGED configVars
  BY <1>4 DEF configVars, locals, Stands, ChangeStands, Within
<1> QED BY <1>1, <1>2, <1>3, <1>4 DEF ConfigNext, CallerStep

LEMMA StandsThen == ConfigInv /\ Stands => NothingUndone
<1> SUFFICES ASSUME ConfigInv, Stands, file \in Doc, ~overlapped, ~Within
             PROVE  /\ \A i \in Item : made[i] \in {None, file.items[i]}
                    /\ publisher = NoPublisher => named \in {None, file.name}
  BY DEF NothingUndone
<1>1. Base(file) = file /\ file # Torn
  BY BasesAre
<1> QED BY <1>1 DEF Stands, Agrees, MadeIn, NamedIn

-----------------------------------------------------------------------------
(* While nobody else writes in the middle of a change: what last stood is   *)
(* in the file, or, where a change or what was left of one is in the way,   *)
(* in the newest backup; and the change works from that backup.             *)
ChangeKeeps(c) ==
  /\ doing[c] = "checked" /\ writing = None => file # Torn
  /\ doing[c] \in Window /\ backup[c] \in Doc => accepted = backup[c]
  /\ doing[c] \in Having => original[c] = backup[c]
  /\ doing[c] \in {"backed", "cli", "read"} => file = backup[c]

Kept ==
  ~raced =>
    /\ Within => writing = None
    /\ writing # Absent
    /\ writing \in Doc => file = Torn
    /\ ~Within /\ writing = None /\ file \in Doc => accepted = file
    /\ writing = None /\ (Within \/ file \notin Doc) => accepted \in {Absent, stored}
    /\ \A c \in Caller : ChangeKeeps(c)

LEMMA KeptInit == ConfigInit => Kept
<1> SUFFICES ASSUME ConfigInit PROVE Kept
  OBVIOUS
<1>1. ~Within /\ \A c \in Caller : ChangeKeeps(c)
  BY DEF ConfigInit, Within, Window, Having, ChangeKeeps
<1>2. [Empty EXCEPT !.items = [i \in Item |-> "on"]] \in Doc
  BY ConfigAssumption DEF Empty, Doc, Name
<1> QED BY <1>1, <1>2, ContentsDiffer DEF ConfigInit, Kept

LEMMA KeptAnswered ==
  ASSUME ConfigInv, NEW c \in Caller, Leave(c), doing[c] \notin {"idle", "asked"},
         ~raced' => writing' = None,
         ~raced' => accepted' = file' \/ (file' \notin Doc /\ accepted' \in {Absent, stored'}),
         ~raced' /\ file' \notin Doc => accepted' \in {Absent, stored'}
  PROVE  Kept'
<1>1. \A d \in Caller : /\ doing'[d] \notin Window \cup Having
                        /\ doing'[d] \notin {"backed", "cli", "read", "checked"}
  BY Left_ DEF Window, Having
<1>2. \A d \in Caller : ChangeKeeps(d)'
  BY <1>1 DEF ChangeKeeps
<1>3. ~Within'
  BY Left_
<1>4. None \notin Doc /\ None # Absent
  BY ContentsDiffer
<1> QED BY <1>2, <1>3, <1>4 DEF Kept

LEMMA KeptOn ==
  ASSUME ConfigInv, NEW c \in Caller, NEW step \in Window, doing' = [doing EXCEPT ![c] = step],
         doing[c] \notin {"idle", "asked"},
         ~raced' => writing' = None /\ ChangeKeeps(c)' /\ accepted' \in {Absent, stored'}
  PROVE  Kept'
<1>1. \A d \in Caller \ {c} : doing'[d] \in {"idle", "asked"}
  BY Holder DEF ConfigInv, ConfigTyped
<1>2. \A d \in Caller \ {c} : ChangeKeeps(d)'
  BY <1>1 DEF ChangeKeeps, Window, Having
<1>3. Within' /\ None \notin Doc /\ None # Absent
  BY ContentsDiffer DEF Within, ConfigInv, ConfigTyped
<1> QED BY <1>2, <1>3 DEF Kept

LEMMA KeptNow ==
  ASSUME ConfigInv, Kept, NEW c \in Caller, doing[c] \in Window
  PROVE  /\ ~raced => writing = None /\ ChangeKeeps(c) /\ accepted \in {Absent, stored}
         /\ doing[c] \notin {"idle", "asked"}
<1>1. Within /\ doing[c] \notin {"idle", "asked"}
  BY DEF Within, Window
<1> QED BY <1>1 DEF Kept

LEMMA KeptBefore ==
  ASSUME ConfigInv, Kept, NEW c \in Caller,
         Ask(c) \/ TakeTurn(c) \/ Refused(c) \/ BackUpFails(c)
  PROVE  Kept'
<1>1. /\ UNCHANGED <<file, writing, accepted, stored, raced>>
      /\ doing[c] \in {"idle", "asked", "refused", "checked"}
  BY DEF Ask, TakeTurn, Refused, BackUpFails, ghosts
<1>2. PICK step \in {"idle", "asked", "refused", "checked"} :
         /\ doing' = [doing EXCEPT ![c] = step]
         /\ step = "checked" => ~Refuses(file, request[c])
  BY DEF Ask, TakeTurn, Refused, BackUpFails, Leave
<1>3. \A d \in Caller \ {c} : /\ doing'[d] = doing[d] /\ request'[d] = request[d]
                              /\ backup'[d] = backup[d] /\ original'[d] = original[d]
  BY <1>2 DEF ConfigInv, ConfigTyped, ConfigTypeOK, Ask, TakeTurn, Refused, BackUpFails, Leave
<1>4. /\ doing'[c] \notin Window /\ doing'[c] \notin Having
      /\ doing'[c] \notin {"backed", "cli", "read"} /\ doing[c] \notin Window
      /\ doing'[c] = "checked" => file # Torn
  BY <1>1, <1>2 DEF ConfigInv, ConfigTyped, Window, Having, Refuses
<1>5. Within' <=> Within
  BY <1>3, <1>4 DEF Within
<1>6. ~raced => \A d \in Caller : ChangeKeeps(d)'
  <2> SUFFICES ASSUME ~raced, NEW d \in Caller PROVE ChangeKeeps(d)'
    OBVIOUS
  <2>1. CASE d = c
    BY <2>1, <1>1, <1>4 DEF ChangeKeeps
  <2>2. CASE d # c
    BY <2>2, <1>1, <1>3 DEF Kept, ChangeKeeps
  <2> QED BY <2>1, <2>2
<1> QED BY <1>1, <1>5, <1>6 DEF Kept

LEMMA KeptBackedUp == ASSUME ConfigInv, Kept, NEW c \in Caller, BackUp(c) PROVE Kept'
<1>1. PICK step \in {"cli", "backed"} : doing' = [doing EXCEPT ![c] = step]
  BY DEF BackUp
<1>2. ~Within
  BY Holder DEF BackUp, Within, Window
<1>3. ASSUME ~raced' PROVE writing = None /\ file # Torn /\ (file \in Doc => accepted = file)
                           /\ accepted' \in {Absent, stored'}
  <2>1. ~raced /\ writing = None /\ doing[c] = "checked"
    BY <1>3 DEF BackUp
  <2>2. file # Torn /\ (file \in Doc => accepted = file)
    BY <1>2, <2>1 DEF Kept, ChangeKeeps
  <2>3. file \in Doc \/ file = Absent
    BY <2>2 DEF ConfigInv, ConfigTyped, ConfigTypeOK, Content
  <2>4. CASE file \in Doc
    BY <2>1, <2>2, <2>4, ContentsDiffer DEF BackUp
  <2>5. CASE file = Absent
    BY <1>2, <2>1, <2>5, ContentsDiffer DEF BackUp, Kept
  <2> QED BY <2>1, <2>2, <2>3, <2>4, <2>5
<1>4. doing'[c] = step /\ backup'[c] = file /\ UNCHANGED <<file, writing, accepted>>
  BY <1>1 DEF BackUp, ConfigInv, ConfigTyped, ConfigTypeOK
<1>5. ~raced' => ChangeKeeps(c)'
  BY <1>3, <1>4 DEF ChangeKeeps, Having
<1>6. step \in Window /\ doing[c] \notin {"idle", "asked"}
  BY DEF Window, BackUp
<1> QED BY <1>1, <1>3, <1>4, <1>5, <1>6, KeptOn

LEMMA KeptReadDocument ==
  ASSUME ConfigInv, Kept, NEW c \in Caller, ReadDocument(c)
  PROVE  Kept'
<1>1. /\ UNCHANGED <<file, writing, accepted, stored, raced>>
      /\ doing[c] = "backed" /\ doing[c] \in Window
  BY DEF ReadDocument, ghosts, Window
<1>2. ~raced => file = backup[c] /\ (file \in Doc => accepted = file)
  BY <1>1, KeptNow DEF ChangeKeeps
<1>3. CASE Refuses(file, request[c])
  <2>1. Leave(c)
    BY <1>3 DEF ReadDocument
  <2> QED BY <1>1, <1>2, <2>1, KeptNow, KeptAnswered
<1>4. CASE ~Refuses(file, request[c])
  <2>1. To(c, "read") /\ original'[c] = file
    BY <1>4 DEF ReadDocument, ConfigInv, ConfigTyped, ConfigTypeOK
  <2>2. doing' = [doing EXCEPT ![c] = "read"] /\ doing'[c] = "read" /\ "read" \in Window
        /\ UNCHANGED <<backup, request>>
    BY <2>1 DEF To, ConfigInv, ConfigTyped, Window
  <2>3. ~raced => ChangeKeeps(c)'
    BY <1>1, <1>2, <2>1, <2>2, KeptNow DEF ChangeKeeps
  <2> QED BY <1>1, <2>2, <2>3, KeptNow, KeptOn
<1> QED BY <1>3, <1>4

LEMMA KeptGoingOn ==
  ASSUME ConfigInv, Kept, NEW c \in Caller,
         \/ WriteFails(c) \/ RemoveOld(c) \/ Rename(c) \/ ReadBackFails(c)
         \/ ReadBackFile(c) /\ file \notin Doc
         \/ Rollback(c) /\ backup[c] # Absent
  PROVE  Kept'
<1>1. /\ UNCHANGED <<original, accepted, stored, raced>>
      /\ doing[c] \in Window /\ doing[c] \in Having /\ doing[c] \notin {"idle", "asked"}
  BY DEF WriteFails, RemoveOld, Rename, ReadBackFails, ReadBackFile, Rollback, ghosts, Window,
         Having
<1>2. PICK step \in {"failed", "removed", "replaced", "restoring"} : To(c, step)
  BY DEF WriteFails, RemoveOld, Rename, ReadBackFails, ReadBackFile, Rollback
<1>3. doing' = [doing EXCEPT ![c] = step] /\ doing'[c] = step /\ UNCHANGED <<backup, request>>
  BY <1>2 DEF To, ConfigInv, ConfigTyped
<1>4. step \in Window /\ step \in Having /\ step \notin {"backed", "cli", "read", "checked"}
  BY DEF Window, Having
<1>5. writing = None => writing' = None
  BY DEF WriteFails, RemoveOld, Rename, ReadBackFails, ReadBackFile, Rollback, Unlinks
<1>6. ~raced => ChangeKeeps(c)'
  BY <1>1, <1>3, <1>4, KeptNow DEF ChangeKeeps
<1> QED BY <1>1, <1>3, <1>4, <1>5, <1>6, KeptNow, KeptOn

LEMMA KeptAnswering ==
  ASSUME ConfigInv, Kept, NEW c \in Caller,
         \/ ReadBackFile(c) /\ file \in Doc
         \/ Rollback(c) /\ backup[c] = Absent
         \/ Restored(c) \/ RestoreFails(c) \/ RunCli(c)
  PROVE  Kept'
<1>1. /\ UNCHANGED <<stored, raced>> /\ Leave(c)
      /\ doing[c] \in Window /\ doing[c] \notin {"idle", "asked"}
  BY DEF ReadBackFile, Rollback, Restored, RestoreFails, RunCli, ghosts, Window
<1>2. writing = None => writing' = None
  BY DEF ReadBackFile, Rollback, Restored, RestoreFails, RunCli, Unlinks
<1>3. ASSUME ~raced
      PROVE  /\ accepted' = file' \/ (file' \notin Doc /\ accepted' \in {Absent, stored'})
             /\ file' \notin Doc => accepted' \in {Absent, stored'}
  <2>1. ChangeKeeps(c) /\ accepted \in {Absent, stored}
    BY <1>1, <1>3, KeptNow
  <2>2. CASE ReadBackFile(c) /\ file \in Doc
    BY <2>2 DEF ReadBackFile
  <2>3. CASE Rollback(c) /\ backup[c] = Absent
    <3>1. file' = Absent /\ UNCHANGED accepted
      BY <2>1, <2>3 DEF Rollback, ChangeKeeps, Having, ghosts
    <3> QED BY <1>1, <2>1, <3>1, ContentsDiffer
  <2>4. CASE Restored(c)
    BY <1>1, <2>1, <2>4 DEF Restored, ChangeKeeps, ghosts
  <2>5. CASE RestoreFails(c)
    BY <1>1, <2>1, <2>5 DEF RestoreFails
  <2>6. CASE RunCli(c)
    <3>1. CASE UNCHANGED <<file, accepted>>
      BY <1>1, <2>1, <2>6, <3>1 DEF RunCli, ChangeKeeps
    <3>2. CASE ~Refuses(file, request[c]) /\ file' = Edited(file, request[c]) /\ accepted' = file'
      <4>1. request[c] \in Request /\ request[c].item \in Plugin
        BY <2>6 DEF RunCli, ConfigInv, Turns
      <4>2. Refuses(Absent, request[c])
        BY <4>1, ContentsDiffer, ConfigAssumption DEF Refuses, Base, Empty, Item
      <4>3. file \in Doc
        BY <3>2, <4>2 DEF Refuses, ConfigInv, ConfigTyped, ConfigTypeOK, Content
      <4> QED BY <3>2, <4>1, <4>3, EditedIsDoc
    <3> QED BY <2>6, <3>1, <3>2 DEF RunCli
  <2> QED BY <2>2, <2>3, <2>4, <2>5, <2>6
<1> QED BY <1>1, <1>2, <1>3, KeptNow, KeptAnswered

(* Others write: only while nobody is within a change.                      *)
LEMMA KeptAside ==
  ASSUME ConfigInv, Kept, UNCHANGED <<locals, stored>>, ~raced' => ~raced /\ ~Within,
         ~raced' => \/ file' \in Doc /\ accepted' = file' /\ writing' = None
                    \/ file' = Torn /\ writing' \in Doc
                    \/ UNCHANGED <<file, accepted, writing>>
  PROVE  Kept'
<1> SUFFICES ASSUME ~raced' PROVE Kept'
  BY DEF Kept
<1>1. ~raced /\ ~Within /\ ~Within' /\ \A c \in Caller : doing'[c] = doing[c]
  BY ChangesAside
<1>2. file' \in Doc => file' # Torn
  BY ContentsDiffer
<1>3. \A c \in Caller : ChangeKeeps(c)'
  BY <1>1, <1>2, NobodyWithin, ContentsDiffer DEF Kept, ChangeKeeps
<1> QED BY <1>1, <1>3, ContentsDiffer DEF Kept

LEMMA KeptPublish ==
  ASSUME ConfigInv, Kept, PublishRead \/ PublishWrite \/ PublishCheck \/ PublishRestore
  PROVE  Kept'
<1>1. CASE PublishRead \/ PublishCheck
  <2>1. UNCHANGED <<file, locals, writing, accepted, stored, raced>>
    BY <1>1 DEF PublishRead, PublishCheck
  <2> QED BY <2>1 DEF locals, Kept, ChangeKeeps, Within
<1>2. CASE PublishWrite \/ PublishRestore
  <2>1. publisher.read \in Doc /\ publisher.write \in Doc /\ publisher # NoPublisher
    BY <1>2 DEF PublishWrite, PublishRestore, ConfigInv, ConfigTyped, NoPublisher, Publishing
  <2>2. UNCHANGED <<locals, stored, writing>> /\ raced' = (raced \/ Within) /\ writing = None
    BY <1>2, <2>1 DEF PublishWrite, PublishRestore, ConfigInv, OneWriter
  <2>3. \/ file' \in Doc /\ accepted' = file'
        \/ UNCHANGED <<file, accepted>>
    BY <1>2, <2>1 DEF PublishWrite, PublishRestore
  <2> QED BY <2>2, <2>3, KeptAside
<1> QED BY <1>1, <1>2

LEMMA KeptOutside == ASSUME ConfigInv, Kept, OutsideWrite \/ OutsideDone PROVE Kept'
<1>1. CASE OutsideWrite
  <2>1. PICK i \in Item, to \in {"on", "gone"} :
         LET next == [file EXCEPT !.items[i] = to] IN
         /\ made' = [made EXCEPT ![i] = None]
         /\ \/ file' = next /\ writing' = None /\ accepted' = next
            \/ file' = Torn /\ writing' = next /\ UNCHANGED accepted
    BY <1>1 DEF OutsideWrite
  <2>2. [file EXCEPT !.items[i] = to] \in Doc
    BY <1>1 DEF OutsideWrite, Doc
  <2>3. UNCHANGED <<locals, stored>> /\ raced' = (raced \/ Within)
    BY <1>1 DEF OutsideWrite
  <2> QED BY <2>1, <2>2, <2>3, KeptAside
<1>2. CASE OutsideDone
  <2>1. CASE raced
    BY <1>2, <2>1 DEF OutsideDone, Kept
  <2>2. CASE ~raced
    <3>1. writing \in Doc /\ file = Torn
      BY <1>2, <2>2 DEF OutsideDone, Kept, ConfigInv, ConfigTyped, ConfigTypeOK
    <3>2. file' = writing /\ accepted' = writing /\ writing' = None
          /\ UNCHANGED <<locals, stored>> /\ raced' = (raced \/ Within)
      BY <1>2, <3>1, ContentsDiffer DEF OutsideDone
    <3> QED BY <3>1, <3>2, KeptAside
  <2> QED BY <2>1, <2>2
<1> QED BY <1>1, <1>2

LEMMA KeptExit == ASSUME ConfigInv, Kept, Exit PROVE Kept'
<1>1. /\ UNCHANGED <<file, writing, stored, raced>> /\ doing' = [c \in Caller |-> "idle"]
      /\ accepted' = IF file \in Doc THEN file ELSE accepted
  BY DEF Exit
<1>2. ~Within' /\ \A c \in Caller : ChangeKeeps(c)'
  BY <1>1 DEF Within, Window, Having, ChangeKeeps
<1> QED BY <1>1, <1>2 DEF Kept

LEMMA KeptNext == ASSUME ConfigInv, Kept, [ConfigNext]_configVars PROVE Kept'
<1>1. ASSUME NEW c \in Caller, CallerStep(c)
      PROVE  Kept'
  BY <1>1, KeptBefore, KeptBackedUp, KeptReadDocument, KeptGoingOn, KeptAnswering
     DEF CallerStep, Rollback
<1>2. CASE PublishRead \/ PublishWrite \/ PublishCheck \/ PublishRestore
  BY <1>2, KeptPublish
<1>3. CASE OutsideWrite \/ OutsideDone \/ Exit
  BY <1>3, KeptOutside, KeptExit
<1>4. CASE UNCHANGED configVars
  BY <1>4 DEF configVars, locals, Kept, ChangeKeeps, Within
<1> QED BY <1>1, <1>2, <1>3, <1>4 DEF ConfigNext, CallerStep

-----------------------------------------------------------------------------
(* A configuration file, the callers and an account change stay of their    *)
(* types, and a caller within a change has the provider's turn.             *)
THEOREM ConfigTypes == ConfigSpec => [](ConfigTyped /\ Turns)
<1>1. ConfigInv => ConfigTyped /\ Turns
  BY DEF ConfigInv
<1> QED BY <1>1, ConfigInvInit, ConfigInvNext, PTL DEF ConfigSpec

(* A switch answered done and a name that was published stand until a       *)
(* program of the provider changes them, whatever fails, while no account   *)
(* change runs together with a change (Changes::turn, ConfigIo::commit).    *)
THEOREM SwitchesStand == ConfigSpec => []NothingUndone
<1>1. ConfigInit => ConfigInv /\ Stands
  BY ConfigInvInit, StandsInit
<1>2. ConfigInv /\ Stands /\ [ConfigNext]_configVars => (ConfigInv /\ Stands)'
  BY ConfigInvNext, StandsNext
<1> QED BY <1>1, <1>2, StandsThen, PTL DEF ConfigSpec

(* Whatever fails and wherever the app ends in the middle of a change that  *)
(* nobody else wrote into, what last stood is in the file or in the newest  *)
(* backup (Changes::make, atomic_replace).                                  *)
THEOREM ContentIsKept == ConfigSpec => []ContentSurvives
<1>1. ConfigInit => ConfigInv /\ Kept
  BY ConfigInvInit, KeptInit
<1>2. ConfigInv /\ Kept /\ [ConfigNext]_configVars => (ConfigInv /\ Kept)'
  BY ConfigInvNext, KeptNext
<1>3. ConfigInv /\ Kept => ContentSurvives
  BY DEF Kept, ContentSurvives
<1> QED BY <1>1, <1>2, <1>3, PTL DEF ConfigSpec
================================================================================
