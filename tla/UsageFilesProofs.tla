-------------------------- MODULE UsageFilesProofs --------------------------
(***************************************************************************)
(* Proofs about UsageFiles, for any transcripts, days and faults: that no  *)
(* record is counted twice or missed, and that a summary served from the   *)
(* cache is current.                                                       *)
(*                                                                         *)
(* Both rest on what a size and a day of writing tell of a transcript that *)
(* only grows: an entry or a parse that fits it now is of the records it   *)
(* has now, and once it no longer fits it never will again.  With that, a  *)
(* fold finds every record up to yesterday in what was opened, so it counts*)
(* or passes over each; and a count is right for as long as nothing it was *)
(* taken from has changed, under the stamp of the history it was added to. *)
(***************************************************************************)
EXTENDS UsageFiles, FiniteSetTheorems, TLAPS

-----------------------------------------------------------------------------
(* Days: how many, and which is the newest.                                 *)
LEMMA DaysFinite ==
  ASSUME NEW S \in SUBSET Day
  PROVE  /\ IsFiniteSet(S) /\ Cardinality(S) \in 0..MaxDay
         /\ \A T \in SUBSET S : /\ Cardinality(T) <= Cardinality(S)
                                /\ Cardinality(T) = Cardinality(S) => T = S
<1> USE UsageFilesAssumption
<1>1. IsFiniteSet(Day) /\ Cardinality(Day) = MaxDay
  BY FS_Interval DEF Day
<1>2. IsFiniteSet(S) /\ Cardinality(S) <= MaxDay
  BY <1>1, FS_Subset
<1>3. Cardinality(S) \in Nat
  BY <1>2, FS_CardinalityType
<1>4. ASSUME NEW T \in SUBSET S
      PROVE  Cardinality(T) <= Cardinality(S) /\ (Cardinality(T) = Cardinality(S) => T = S)
  BY <1>2, FS_Subset
<1> QED
  BY <1>2, <1>3, <1>4

LEMMA NewestDay ==
  ASSUME NEW S \in SUBSET Day
  PROVE  /\ Newest(S) \in 0..MaxDay
         /\ \A d \in S : d <= Newest(S)
         /\ S # {} => Newest(S) \in S
<1> USE UsageFilesAssumption
<1>1. CASE S = {}
  BY <1>1 DEF Newest
<1>2. CASE S # {}
  <2>0. S \subseteq Nat
    BY DEF Day
  <2> DEFINE From(d) == {x \in S : d <= x}
  <2>1. \A d \in S : From(d) \in FiniteSubsetsOf(S)
    BY DaysFinite, FS_Subset DEF FiniteSubsetsOf
  <2>2. PICK A \in {From(d) : d \in S} :
               \A B \in {From(d) : d \in S} : ~(<<B, A>> \in StrictSubsetOrdering(S))
    <3> DEFINE T == {From(d) : d \in S}
    <3>1. T \subseteq FiniteSubsetsOf(S) /\ T # {}
      BY <1>2, <2>1
    <3> HIDE DEF T
    <3>2. \E A \in T : \A B \in T : ~(<<B, A>> \in StrictSubsetOrdering(S))
      BY <3>1, FS_StrictSubsetOrderingWellFounded, WFMin
    <3> QED
      BY <3>2 DEF T
  <2>3. PICK d \in S : A = From(d)
    OBVIOUS
  <2>4. ASSUME NEW e \in S, d < e PROVE FALSE
    <3>1. From(e) \subseteq From(d)
      <4> SUFFICES ASSUME NEW x \in S, e <= x PROVE d <= x
        OBVIOUS
      <4> QED
        BY <2>4, <2>0
    <3>2. d \in From(d) /\ d \notin From(e)
      BY <2>4, <2>0
    <3>3. From(e) # From(d)
      BY <3>2
    <3>4. From(e) \in SUBSET S /\ From(d) \in SUBSET S
      OBVIOUS
    <3> HIDE DEF From
    <3>5. <<From(e), From(d)>> \in StrictSubsetOrdering(S)
      BY <3>1, <3>3, <3>4 DEF StrictSubsetOrdering
    <3> QED
      BY <2>2, <2>3, <3>5
  <2>5. \E x \in S : \A y \in S : x >= y
    BY <2>0, <2>4
  <2>6. Max(S) \in S /\ \A y \in S : Max(S) >= y
    BY <2>5 DEF Max
  <2> HIDE DEF From
  <2>7. Newest(S) = Max(S)
    BY <1>2 DEF Newest
  <2>8. Newest(S) \in 1..MaxDay
    BY <2>6, <2>7 DEF Day
  <2>9. \A e \in S : e <= Newest(S)
    BY <2>0, <2>6, <2>7
  <2> QED
    BY <2>6, <2>7, <2>8, <2>9
<1> QED
  BY <1>1, <1>2

(* What is remembered of a transcript t: an entry or a parse of it as it is *)
(* now, or as it was when it held fewer records.                            *)
TrueEntry(t, e) ==
  e # NoFile =>
    /\ t # NoFile
    /\ t # Gone => /\ e.size <= Cardinality(t.records)
                   /\ Describes(e, t) /\ e.max # 0 => e.max = Newest(t.records)

TrueParse(t, p) == p # NoParse => t # NoFile /\ (t # Gone => p.records \subseteq t.records)

TrueEntries(fs, es) == \A f \in File : TrueEntry(fs[f], es[f])
TrueParses(fs, ps)  == \A f \in File : TrueParse(fs[f], ps[f])

(* How a transcript changes: it comes into being, grows, or goes for good.  *)
Grew(t, u) == \/ u = t
              \/ t = NoFile
              \/ u = Gone
              \/ /\ t \in Transcript /\ u \in Transcript
                 /\ t.records \subseteq u.records /\ t.records # u.records

Things == Transcript \cup {NoFile, Gone}
Trees  == [File -> Things]

LEMMA SizesTell ==
  ASSUME NEW t \in Transcript, NEW p \in Transcript, p.records \subseteq t.records,
         Cardinality(p.records) = Cardinality(t.records)
  PROVE  p.records = t.records
BY DaysFinite DEF Transcript

(* A transcript that has changed is not the one an entry describes.         *)
LEMMA EntryGrown ==
  ASSUME NEW t \in Things, NEW u \in Things, Grew(t, u),
         NEW e \in Entry \cup {NoFile}, TrueEntry(t, e)
  PROVE  /\ TrueEntry(u, e)
         /\ e # NoFile /\ u \notin {NoFile, Gone} /\ Describes(e, u) => u = t
<1> USE NothingApart
<1>1. CASE u = t \/ t = NoFile \/ u = Gone
  BY <1>1 DEF TrueEntry
<1>2. CASE /\ t \in Transcript /\ u \in Transcript
           /\ t.records \subseteq u.records /\ t.records # u.records
  <2>1. t.records \in SUBSET Day /\ u.records \in SUBSET Day
    BY <1>2 DEF Transcript
  <2>2. /\ Cardinality(t.records) \in Nat /\ Cardinality(u.records) \in Nat
        /\ Cardinality(t.records) < Cardinality(u.records)
    BY <1>2, <2>1, DaysFinite, UsageFilesAssumption
  <2>3. CASE e = NoFile
    BY <2>3 DEF TrueEntry
  <2>4. CASE e # NoFile
    <3>1. e.size \in Nat
      BY <2>4, UsageFilesAssumption DEF Entry
    <3>2. e.size <= Cardinality(t.records) /\ t \notin {NoFile, Gone} /\ u \notin {NoFile, Gone}
      BY <1>2, <2>4 DEF TrueEntry
    <3>3. e.size < Cardinality(u.records)
      BY <2>2, <3>1, <3>2
    <3>4. ~Describes(e, u)
      BY <2>2, <3>1, <3>3 DEF Describes
    <3> QED
      BY <2>2, <3>1, <3>2, <3>3, <3>4 DEF TrueEntry
  <2> QED
    BY <2>3, <2>4
<1> QED
  BY <1>1, <1>2 DEF Grew

LEMMA ParseGrown ==
  ASSUME NEW t \in Things, NEW u \in Things, Grew(t, u),
         NEW p \in Transcript \cup {NoParse}, TrueParse(t, p)
  PROVE  TrueParse(u, p)
BY NothingApart DEF Grew, TrueParse, Transcript

(* An entry that describes a transcript gives its newest record and the day *)
(* it was written, and a parse it describes has its records.                *)
CoveredBy(d, t, e, p) ==
  /\ e # NoFile /\ t # NoFile
  /\ d <= e.mtime
  /\ e.max # 0 => d <= e.max
  /\ p # NoParse /\ Describes(e, p) => d \in p.records
  /\ t # Gone => d \in t.records

LEMMA DescribedCovered ==
  ASSUME NEW t \in Transcript, \A d \in t.records : d <= t.mtime,
         NEW e \in Entry, Describes(e, t), TrueEntry(t, e),
         NEW p \in Transcript \cup {NoParse}, TrueParse(t, p)
  PROVE  /\ p # NoParse /\ Describes(e, p) => p.records = t.records
         /\ \A d \in t.records : CoveredBy(d, t, e, p)
<1> USE NothingApart
<1>1. t \notin {NoFile, Gone} /\ e # NoFile
  OBVIOUS
<1>2. ASSUME p # NoParse, Describes(e, p) PROVE p.records = t.records
  BY <1>1, <1>2, SizesTell DEF TrueParse, Describes
<1>3. \A d \in t.records : d <= Newest(t.records)
  BY NewestDay DEF Transcript
<1>4. \A d \in t.records : d <= e.mtime /\ (e.max # 0 => d <= e.max)
  BY <1>1, <1>3 DEF Describes, TrueEntry
<1> QED
  BY <1>1, <1>2, <1>4 DEF CoveredBy

LEMMA CoveredGrown ==
  ASSUME NEW t \in Things, NEW u \in Things, Grew(t, u), NEW d, NEW e, NEW p,
         CoveredBy(d, t, e, p)
  PROVE  CoveredBy(d, u, e, p)
BY NothingApart DEF Grew, CoveredBy, Transcript

-----------------------------------------------------------------------------
(* What a count was taken from: transcripts that have not changed since.    *)
Undisturbed(fs, es) ==
  \A f \in File : es[f] # NoFile => fs[f] \notin {NoFile, Gone} /\ Describes(es[f], fs[f])

Told(fs, es) == UNION {fs[f].records : f \in {g \in File : es[g] # NoFile}}

(* The rows of a history and the records that were not folded into them.    *)
Tally(h, days) ==
  [d \in Day |-> h.rows[d] + (IF d \in days /\ ~IsFolded(h.through, d) THEN 1 ELSE 0)]

OfStamp(s, h) == IF s = 0 THEN EmptyHistory ELSE h

(* A count c of the history h, whose file has the stamp s, or of no history,*)
(* is right while what it was taken from is undisturbed.                    *)
TrueTally(fs, s, h, c) ==
  /\ c.stamp \in {0, s} /\ OfStamp(c.stamp, h) # NoHistory /\ Undisturbed(fs, c.entries)
  => c.result = Tally(OfStamp(c.stamp, h), Told(fs, c.entries))

LEMMA UndisturbedBefore ==
  ASSUME NEW fs \in Trees, NEW gs \in Trees, \A f \in File : Grew(fs[f], gs[f]),
         NEW es \in Entries, TrueEntries(fs, es), Undisturbed(gs, es)
  PROVE  Undisturbed(fs, es) /\ Told(gs, es) = Told(fs, es)
<1>1. ASSUME NEW f \in File, es[f] # NoFile PROVE gs[f] = fs[f]
  <2>1. fs[f] \in Things /\ gs[f] \in Things /\ es[f] \in Entry \cup {NoFile}
    BY DEF Trees, Entries
  <2> QED
    BY <1>1, <2>1, EntryGrown DEF TrueEntries, Undisturbed
<1>2. Undisturbed(fs, es)
  BY <1>1 DEF Undisturbed
<1>3. \A f \in {g \in File : es[g] # NoFile} : gs[f] = fs[f]
  BY <1>1
<1>4. Told(gs, es) = Told(fs, es)
  BY <1>3 DEF Told
<1> QED
  BY <1>2, <1>4

LEMMA TallyGrown ==
  ASSUME NEW fs \in Trees, NEW gs \in Trees, \A f \in File : Grew(fs[f], gs[f]),
         NEW s, NEW h, NEW c, c.entries \in Entries, TrueEntries(fs, c.entries),
         TrueTally(fs, s, h, c)
  PROVE  TrueTally(gs, s, h, c)
BY UndisturbedBefore DEF TrueTally

-----------------------------------------------------------------------------
(* No record is younger than its transcript, and no transcript than today.  *)
Dated ==
  \A f \in Present : files[f].mtime <= today /\ \A d \in files[f].records : d <= files[f].mtime

(* A history counts each record once and none it would count again: what it *)
(* has folded of the records written it has a row for, unless a fold passed *)
(* it over.                                                                 *)
TrueHistory(h, written, past, now) ==
  h \notin {NoHistory, Damaged} =>
    /\ h.through <= now
    /\ \A d \in Day : /\ h.rows[d] \in {0, 1}
                      /\ h.rows[d] = 1 => d < h.through
                      /\ d \in written /\ d < h.through => h.rows[d] = 1 \/ d \in past

Histories ==
  /\ TrueHistory(main, Written, passed, today)
  /\ TrueHistory(bak, Written, passed, today)
  /\ main = NoHistory => bak = NoHistory

Recalled ==
  /\ index # NoIndex => TrueEntries(files, index)
  /\ TrueParses(files, scan)
  /\ summary # NoSummary => TrueEntries(files, summary.entries)
  /\ work # NoWork => TrueEntries(files, work.entries) /\ TrueParses(files, work.scan)
  /\ count # NoWork => TrueEntries(files, count.entries)

(* What the holder of the lock has opened covers all that was written until *)
(* yesterday, and a fold is due.                                            *)
WorkCovers ==
  work # NoWork =>
    /\ work.walked => \A d \in Written \ {today} :
                        \E f \in File : CoveredBy(d, files[f], work.entries[f], work.scan[f])
    /\ work.of = "fold" => Kept # NoHistory /\ Watermark < Cutoff

Tallies ==
  /\ summary # NoSummary => TrueTally(files, stamp, Kept, summary)
  /\ count # NoWork /\ count.complete /\ count.readable => TrueTally(files, stamp, Kept, count)

UsageInv ==
  UsageTypeOK /\ Dated /\ Histories /\ Recalled /\ WorkCovers /\ Tallies /\ CountedOnce /\ honest

LEMMA FilesTyped ==
  ASSUME UsageTypeOK
  PROVE  files \in Trees /\ Present \in SUBSET File /\ Written \in SUBSET Day
         /\ \A f \in File : f \in Present => files[f] \in Transcript
<1>1. files \in Trees
  BY DEF UsageTypeOK, Trees, Things
<1>2. \A f \in File : f \in Present => files[f] \in Transcript
  BY <1>1 DEF Trees, Things, Present
<1> QED
  BY <1>1, <1>2 DEF Present, Written, Transcript

LEMMA UsageInvInit == UsageInit => UsageInv
<1> SUFFICES ASSUME UsageInit PROVE UsageInv
  OBVIOUS
<1> USE UsageFilesAssumption, NothingApart DEF UsageInit
<1>1. UsageTypeOK
  BY DEF UsageTypeOK, Day, Stamp, Parses
<1>2. Present = {} /\ Written = {}
  BY DEF Present, Written
<1>3. Dated /\ Histories /\ Recalled /\ WorkCovers /\ Tallies /\ CountedOnce /\ honest
  BY <1>2 DEF Dated, Histories, TrueHistory, Recalled, TrueParses, TrueParse, WorkCovers, Tallies,
              CountedOnce
<1> QED
  BY <1>1, <1>3 DEF UsageInv

LEMMA SameFiles ==
  ASSUME files' = files
  PROVE  Present' = Present /\ Written' = Written
BY DEF Present, Written

LEMMA SameHistory ==
  ASSUME UNCHANGED <<main, bak>>
  PROVE  Kept' = Kept /\ Watermark' = Watermark
BY DEF Kept, Watermark

-----------------------------------------------------------------------------
(* The clients.                                                             *)
LEMMA FilesGrow ==
  ASSUME UsageTypeOK, Write \/ Copy \/ Delete \/ Unlock \/ Tick \/ UNCHANGED <<today, files>>
  PROVE  /\ files' \in Trees /\ \A f \in File : Grew(files[f], files'[f])
         /\ today' \in Day /\ today <= today'
         /\ Written' \subseteq Written \cup {today'}
         /\ today' # today => UNCHANGED <<files, locked>> /\ work = NoWork
         /\ \A f \in Present' : \/ f \in Present /\ files'[f] = files[f]
                              \/ /\ today' = today /\ files'[f].mtime = today
                                 /\ files'[f].records \subseteq Written \cup {today}
<1> USE UsageFilesAssumption, NothingApart
<1>1. files \in Trees /\ today \in Day /\ today \in Nat
  BY FilesTyped DEF UsageTypeOK, Day
<1>2. CASE Write
  <2>1. PICK f \in File :
           /\ files[f] # Gone
           /\ files' = [files EXCEPT ![f] =
                          [records |-> {today} \cup IF files[f] = NoFile THEN {} ELSE files[f].records,
                           mtime |-> today]]
    BY <1>2 DEF Write
  <2> DEFINE u == [records |-> {today} \cup IF files[f] = NoFile THEN {} ELSE files[f].records,
                   mtime |-> today]
  <2>2. today' = today /\ today \notin Written
    BY <1>2 DEF Write
  <2>3. /\ u \in Transcript /\ Grew(files[f], u)
        /\ \A d \in u.records : d = today \/ (f \in Present /\ d \in files[f].records)
    <3>1. CASE files[f] = NoFile
      BY <1>1, <3>1 DEF Transcript, Grew
    <3>2. CASE files[f] # NoFile
      <4>1. f \in Present /\ files[f] \in Transcript
        BY <1>1, <2>1, <3>2 DEF Present, Trees, Things
      <4>2. today \notin files[f].records
        BY <2>2, <4>1 DEF Written
      <4> QED
        BY <1>1, <3>2, <4>1, <4>2 DEF Transcript, Grew
    <3> QED
      BY <3>1, <3>2
  <2> HIDE DEF u
  <2>4. files' = [files EXCEPT ![f] = u]
    BY <2>1 DEF u
  <2>5. files' \in Trees /\ \A g \in File : Grew(files[g], files'[g])
    BY <1>1, <2>3, <2>4 DEF Trees, Things, Grew
  <2>7. ASSUME NEW g \in Present'
        PROVE  \/ g \in Present /\ files'[g] = files[g]
               \/ files'[g].mtime = today /\ files'[g].records \subseteq Written \cup {today}
    <3>1. CASE g = f
      <4>1. files'[g] = u /\ u.mtime = today
        BY <1>1, <2>4, <3>1 DEF Trees, u
      <4> QED
        BY <2>3, <4>1 DEF Written
    <3>2. CASE g # f
      BY <1>1, <2>4, <3>2 DEF Trees, Present
    <3> QED
      BY <3>1, <3>2
  <2>6. ASSUME NEW d \in Written' PROVE d = today \/ d \in Written
    <3>1. PICK g \in File : files'[g] \notin {NoFile, Gone} /\ d \in files'[g].records
      BY DEF Written, Present
    <3>2. CASE g = f
      BY <1>1, <2>3, <2>4, <3>1, <3>2 DEF Trees, Written
    <3>3. CASE g # f
      BY <1>1, <2>4, <3>1, <3>3 DEF Trees, Written, Present
    <3> QED
      BY <3>2, <3>3
  <2> QED
    BY <1>1, <2>2, <2>5, <2>6, <2>7
<1>3. CASE Copy
  <2>1. PICK f \in File, g \in Present :
           f # g /\ files[f] = NoFile
           /\ files' = [files EXCEPT ![f] = [records |-> files[g].records, mtime |-> today]]
    BY <1>3 DEF Copy
  <2> DEFINE u == [records |-> files[g].records, mtime |-> today]
  <2>2. u \in Transcript
    BY <1>1, FilesTyped DEF Transcript
  <2>3. files' = [files EXCEPT ![f] = u] /\ u.records = files[g].records /\ today' = today
    BY <1>3, <2>1 DEF Copy
  <2> HIDE DEF u
  <2>4. files' \in Trees /\ \A h \in File : Grew(files[h], files'[h])
    BY <1>1, <2>1, <2>2, <2>3 DEF Trees, Things, Grew
  <2>6. ASSUME NEW h \in Present'
        PROVE  \/ h \in Present /\ files'[h] = files[h]
               \/ files'[h].mtime = today /\ files'[h].records \subseteq Written \cup {today}
    <3>1. CASE h = f
      <4>1. files'[h] = u /\ u.mtime = today
        BY <1>1, <2>3, <3>1 DEF Trees, u
      <4> QED
        BY <2>1, <2>3, <4>1 DEF Written
    <3>2. CASE h # f
      BY <1>1, <2>3, <3>2 DEF Trees, Present
    <3> QED
      BY <3>1, <3>2
  <2>5. ASSUME NEW d \in Written' PROVE d \in Written
    <3>1. PICK h \in File : files'[h] \notin {NoFile, Gone} /\ d \in files'[h].records
      BY DEF Written, Present
    <3>2. CASE h = f
      BY <1>1, <2>1, <2>3, <3>1, <3>2 DEF Trees, Written
    <3>3. CASE h # f
      BY <1>1, <2>3, <3>1, <3>3 DEF Trees, Written, Present
    <3> QED
      BY <3>2, <3>3
  <2> QED
    BY <1>1, <2>3, <2>4, <2>5, <2>6
<1>4. CASE Delete
  <2>1. PICK f \in Present : files' = [files EXCEPT ![f] = Gone] /\ today' = today
    BY <1>4 DEF Delete
  <2>2. files' \in Trees /\ \A h \in File : Grew(files[h], files'[h])
    BY <1>1, <2>1 DEF Trees, Things, Grew
  <2>3. Written' \subseteq Written /\ \A h \in Present' : h \in Present /\ files'[h] = files[h]
    BY <1>1, <2>1 DEF Trees, Written, Present
  <2> QED
    BY <1>1, <2>1, <2>2, <2>3
<1>5. CASE Unlock \/ UNCHANGED <<today, files>>
  BY <1>1, <1>5, SameFiles DEF Unlock, Grew
<1>6. CASE Tick
  BY <1>1, <1>6, SameFiles DEF Tick, Grew, Day
<1> QED
  BY <1>2, <1>3, <1>4, <1>5, <1>6

(* What the clients write, copy and delete disturbs nothing of this, and so *)
(* does a step that leaves everything as it is.                             *)
LEMMA ClientsKeep ==
  ASSUME UsageInv,
         Write \/ Copy \/ Delete \/ Unlock \/ Tick \/ UNCHANGED <<today, files>>,
         locked' \subseteq File, faults' \in 0..MaxFaults,
         UNCHANGED <<history, caches, work, count, unread, ghosts>>
  PROVE  UsageInv'
<1> USE NothingApart
<1>1. UsageTypeOK /\ files \in Trees /\ today \in Nat /\ Written \in SUBSET Day
  BY FilesTyped, UsageFilesAssumption DEF UsageInv, UsageTypeOK, Day
<1>2. /\ files' \in Trees /\ \A f \in File : Grew(files[f], files'[f])
      /\ today' \in Day /\ today <= today'
      /\ Written' \subseteq Written \cup {today'}
      /\ today' # today => UNCHANGED <<files, locked>> /\ work = NoWork
      /\ \A f \in Present' : \/ f \in Present /\ files'[f] = files[f]
                             \/ /\ today' = today /\ files'[f].mtime = today
                                /\ files'[f].records \subseteq Written \cup {today}
  BY <1>1, FilesGrow
<1>3. /\ UNCHANGED <<main, bak, stamp, index, scan, summary, work, count, unread, passed, honest>>
      /\ Kept' = Kept /\ Watermark' = Watermark
  BY SameHistory DEF history, caches, ghosts
<1>4. UsageTypeOK'
  BY <1>1, <1>2, <1>3 DEF UsageTypeOK, Trees, Things
<1>5. \A d \in Written : d <= today
  <2> SUFFICES ASSUME NEW f \in Present, NEW d \in files[f].records PROVE d <= today
    BY DEF Written
  <2>1. files[f] \in Transcript /\ f \in File
    BY <1>1, FilesTyped
  <2> QED
    BY <1>1, <2>1, UsageFilesAssumption DEF UsageInv, Dated, Transcript, Day
<1>6. Dated'
  <2> SUFFICES ASSUME NEW f \in Present'
               PROVE  files'[f].mtime <= today' /\ \A d \in files'[f].records : d <= files'[f].mtime
    BY DEF Dated
  <2>1. CASE f \in Present /\ files'[f] = files[f]
    <3>1. files[f] \in Transcript
      BY <1>1, <2>1, FilesTyped
    <3> QED
      BY <1>1, <1>2, <2>1, <3>1 DEF UsageInv, Dated, Transcript, Day
  <2>2. CASE /\ today' = today /\ files'[f].mtime = today
             /\ files'[f].records \subseteq Written \cup {today}
    BY <1>1, <1>5, <2>2
  <2> QED
    BY <1>2, <2>1, <2>2
<1>7. ASSUME NEW h \in History \cup {NoHistory, Damaged}, TrueHistory(h, Written, passed, today)
      PROVE  TrueHistory(h, Written', passed, today')
  <2> SUFFICES ASSUME h \notin {NoHistory, Damaged}
               PROVE  TrueHistory(h, Written', passed, today')
    BY DEF TrueHistory
  <2>1. h.through \in Nat /\ h.through <= today /\ today' \in Nat
    BY <1>2, <1>7, UsageFilesAssumption DEF TrueHistory, History, Day
  <2>2. \A d \in Written' : d \in Nat /\ (d < h.through => d \in Written)
    BY <1>1, <1>2, <2>1, UsageFilesAssumption DEF Day
  <2> QED
    BY <1>1, <1>2, <1>7, <2>1, <2>2 DEF TrueHistory
<1>8. Histories'
  <2>1. main \in History \cup {NoHistory, Damaged} /\ bak \in History \cup {NoHistory, Damaged}
    BY <1>1 DEF UsageTypeOK
  <2> QED
    BY <1>3, <1>7, <2>1 DEF UsageInv, Histories
<1>9. ASSUME NEW es \in Entries, TrueEntries(files, es)
      PROVE  TrueEntries(files', es)
  <2>1. \A f \in File : /\ files[f] \in Things /\ files'[f] \in Things
                        /\ es[f] \in Entry \cup {NoFile}
    BY <1>1, <1>2 DEF Trees, Entries
  <2> QED
    BY <1>2, <1>9, <2>1, EntryGrown DEF TrueEntries
<1>10. ASSUME NEW ps \in Parses, TrueParses(files, ps)
       PROVE  TrueParses(files', ps)
  <2>1. \A f \in File : /\ files[f] \in Things /\ files'[f] \in Things
                        /\ ps[f] \in Transcript \cup {NoParse}
    BY <1>1, <1>2 DEF Trees, Parses
  <2> QED
    BY <1>2, <1>10, <2>1, ParseGrown DEF TrueParses
<1>11. /\ index # NoIndex => index \in Entries
       /\ scan \in Parses
       /\ summary # NoSummary => summary.entries \in Entries
       /\ work # NoWork => work.entries \in Entries /\ work.scan \in Parses
       /\ count # NoWork => count.entries \in Entries
  BY <1>1 DEF UsageTypeOK, Summaries, Works, Counts
<1>12. Recalled'
  BY <1>3, <1>9, <1>10, <1>11 DEF UsageInv, Recalled
<1>13. WorkCovers'
  <2> SUFFICES ASSUME work # NoWork
               PROVE  WorkCovers'
    BY <1>3 DEF WorkCovers
  <2>1. today' = today /\ Cutoff' = Cutoff
    BY <1>2 DEF Cutoff
  <2>2. ASSUME work.walked, NEW d \in Written' \ {today}
        PROVE  \E f \in File : CoveredBy(d, files'[f], work.entries[f], work.scan[f])
    <3>1. PICK f \in File : CoveredBy(d, files[f], work.entries[f], work.scan[f])
      BY <1>2, <2>1, <2>2 DEF UsageInv, WorkCovers
    <3>2. files[f] \in Things /\ files'[f] \in Things /\ Grew(files[f], files'[f])
      BY <1>1, <1>2 DEF Trees
    <3> QED
      BY <3>1, <3>2, CoveredGrown
  <2>3. work.of = "fold" => Kept # NoHistory /\ Watermark < Cutoff
    BY DEF UsageInv, WorkCovers
  <2> QED
    BY <1>3, <2>1, <2>2, <2>3 DEF WorkCovers
<1>14. Tallies'
  <2>1. summary # NoSummary => TrueTally(files', stamp, Kept, summary)
    BY <1>1, <1>2, <1>11, TallyGrown DEF UsageInv, Recalled, Tallies
  <2>2. count # NoWork /\ count.complete /\ count.readable => TrueTally(files', stamp, Kept, count)
    BY <1>1, <1>2, <1>11, TallyGrown DEF UsageInv, Recalled, Tallies
  <2> QED
    BY <1>3, <2>1, <2>2 DEF Tallies
<1>15. CountedOnce' /\ honest'
  BY <1>3 DEF UsageInv, CountedOnce
<1> QED
  BY <1>4, <1>6, <1>8, <1>12, <1>13, <1>14, <1>15 DEF UsageInv

-----------------------------------------------------------------------------
(* The sources are opened.                                                  *)
LEMMA InspectedTrue ==
  ASSUME UsageInv, NEW f \in Present
  PROVE  /\ Inspected(f).entry \in Entry /\ Inspected(f).parse \in Transcript \cup {NoParse}
         /\ Describes(Inspected(f).entry, files[f])
         /\ TrueEntry(files[f], Inspected(f).entry) /\ TrueParse(files[f], Inspected(f).parse)
<1> USE NothingApart, UsageFilesAssumption
<1>1. /\ f \in File /\ files[f] \in Transcript /\ files[f] \notin {NoFile, Gone}
      /\ scan[f] \in Transcript \cup {NoParse} /\ TrueParse(files[f], scan[f])
  BY FilesTyped DEF UsageInv, UsageTypeOK, Recalled, TrueParses, Parses, Present
<1> DEFINE t == files[f]
           i == Inspected(f)
<1>2. /\ t.records \in SUBSET Day /\ t.mtime \in Day
      /\ Cardinality(t.records) \in 0..MaxDay /\ Cardinality(t.records) <= Cardinality(t.records)
      /\ Newest(t.records) \in 0..MaxDay
  BY <1>1, DaysFinite, NewestDay DEF Transcript
<1>3. /\ i.entry.size = Cardinality(t.records) /\ i.entry.mtime = t.mtime
      /\ i.entry.max \in {0, Newest(t.records)} /\ i.parse \in {t, scan[f]}
  BY DEF Inspected
<1>4. i.entry \in Entry
  BY <1>2 DEF Inspected, Entry, HoldsOnlyFolded
<1> HIDE DEF i
<1>5. i.parse \in Transcript \cup {NoParse} /\ TrueParse(t, i.parse)
  BY <1>1, <1>3 DEF TrueParse
<1>6. Describes(i.entry, t) /\ TrueEntry(t, i.entry)
  BY <1>1, <1>2, <1>3, <1>4 DEF Describes, TrueEntry
<1> QED
  BY <1>4, <1>5, <1>6 DEF i

LEMMA ReconciledTrue ==
  ASSUME UsageInv, NEW found \in SUBSET Present, NEW f \in File
  PROVE  /\ Reconciled(f, found).entry \in Entry \cup {NoFile}
         /\ Reconciled(f, found).parse \in Transcript \cup {NoParse}
         /\ TrueEntry(files[f], Reconciled(f, found).entry)
         /\ TrueParse(files[f], Reconciled(f, found).parse)
         /\ f \in found => /\ Reconciled(f, found).entry # NoFile
                           /\ Describes(Reconciled(f, found).entry, files[f])
         /\ f \notin found /\ found = Present => Reconciled(f, found).entry = NoFile
<1> USE NothingApart
<1>1. /\ scan[f] \in Transcript \cup {NoParse} /\ TrueParse(files[f], scan[f])
      /\ index # NoIndex => index[f] \in Entry \cup {NoFile} /\ TrueEntry(files[f], index[f])
  BY DEF UsageInv, UsageTypeOK, Recalled, TrueParses, TrueEntries, Parses, Entries
<1> DEFINE r == Reconciled(f, found)
<1>2. CASE f \in found /\ Indexed(f) /\ index[f].resolved /\ Describes(index[f], files[f])
  <2>1. r = [entry |-> index[f], parse |-> scan[f]]
    BY <1>2 DEF Reconciled
  <2> QED
    BY <1>1, <1>2, <2>1 DEF Indexed
<1>3. CASE f \in found /\ ~(Indexed(f) /\ index[f].resolved /\ Describes(index[f], files[f]))
  <2>1. r = Inspected(f)
    BY <1>3 DEF Reconciled
  <2>2. r.entry # NoFile
    BY <1>3, <2>1, InspectedTrue
  <2> QED
    BY <1>3, <2>1, <2>2, InspectedTrue
<1>4. CASE f \notin found
  <2>1. r = [entry |-> IF found # Present /\ Indexed(f) THEN index[f] ELSE NoFile, parse |-> scan[f]]
    BY <1>4 DEF Reconciled
  <2>2. r.entry = (IF found # Present /\ Indexed(f) THEN index[f] ELSE NoFile) /\ r.parse = scan[f]
    BY <2>1
  <2>3. TrueEntry(files[f], NoFile)
    BY DEF TrueEntry
  <2> HIDE DEF r
  <2> QED
    BY <1>1, <1>4, <2>2, <2>3 DEF r, Indexed
<1> QED
  BY <1>2, <1>3, <1>4

(* The snapshot of the sources is right, and a walk that found every        *)
(* transcript describes each as it is.                                      *)
Snapshot(o) ==
  /\ o \in Works
  /\ TrueEntries(files, o.entries) /\ TrueParses(files, o.scan)
  /\ o.complete => o.walked
  /\ o.walked => \A f \in File :
       IF f \in Present THEN o.entries[f] # NoFile /\ Describes(o.entries[f], files[f])
                        ELSE o.entries[f] = NoFile

LEMMA OpenedTrue ==
  ASSUME UsageInv, NEW of \in {"summary", "fold"}, NEW found \in SUBSET Present
  PROVE  Snapshot(Opened(of, found)) /\ Opened(of, found).of = of
<1> DEFINE es == [f \in File |-> Reconciled(f, found).entry]
           ps == [f \in File |-> Reconciled(f, found).parse]
           o  == Opened(of, found)
<1>1. /\ o.of = of /\ o.entries = es /\ o.scan = ps /\ o.walked = (found = Present)
      /\ o.complete = (found = Present /\ \A f \in File : es[f] # NoFile => es[f].resolved)
  BY DEF Opened
<1>2. o = [of |-> o.of, entries |-> o.entries, walked |-> o.walked, complete |-> o.complete,
           scan |-> o.scan]
  BY DEF Opened
<1>3. es \in Entries /\ TrueEntries(files, es)
  BY ReconciledTrue DEF Entries, TrueEntries
<1>4. ps \in Parses /\ TrueParses(files, ps)
  BY ReconciledTrue DEF Parses, TrueParses
<1>5. ASSUME found = Present, NEW f \in File
      PROVE  IF f \in Present THEN es[f] # NoFile /\ Describes(es[f], files[f])
                              ELSE es[f] = NoFile
  BY <1>5, ReconciledTrue
<1> HIDE DEF o, es, ps
<1>6. o.complete \in BOOLEAN /\ o.walked \in BOOLEAN
  BY <1>1
<1>7. o \in Works
  BY <1>1, <1>2, <1>3, <1>4, <1>6 DEF Works
<1> QED
  BY <1>1, <1>3, <1>4, <1>5, <1>7 DEF Snapshot, o

LEMMA OpeningsTrue ==
  ASSUME UsageInv, NEW of \in {"summary", "fold"}, NEW o \in Openings(of)
  PROVE  Snapshot(o.opened) /\ o.opened.of = of /\ o.fault \in {0, 1}
BY OpenedTrue DEF Openings

LEMMA SnapshotCovers ==
  ASSUME UsageInv, NEW o, Snapshot(o), o.walked, NEW d \in Written
  PROVE  \E f \in File : CoveredBy(d, files[f], o.entries[f], o.scan[f])
<1>1. PICK f \in Present : d \in files[f].records
  BY DEF Written
<1>2. /\ f \in File /\ files[f] \in Transcript /\ \A x \in files[f].records : x <= files[f].mtime
      /\ o.entries[f] \in Entry /\ Describes(o.entries[f], files[f])
      /\ TrueEntry(files[f], o.entries[f])
      /\ o.scan[f] \in Transcript \cup {NoParse} /\ TrueParse(files[f], o.scan[f])
  BY FilesTyped DEF UsageInv, Dated, Snapshot, Works, Entries, Parses, TrueEntries, TrueParses
<1> QED
  BY <1>1, <1>2, DescribedCovered

LEMMA OpeningKeeps ==
  ASSUME UsageInv, NEW w, Snapshot(w), w.of = "fold" => Kept # NoHistory /\ Watermark < Cutoff,
         index' \in {index, w.entries}, work' \in {work, w}, honest', faults' \in 0..MaxFaults,
         UNCHANGED <<clients, history, scan, summary, count, unread, passed>>
  PROVE  UsageInv'
<1> USE NothingApart
<1>1. /\ UNCHANGED <<today, files, locked, main, bak, stamp, scan, summary, count, unread, passed>>
      /\ Kept' = Kept /\ Watermark' = Watermark /\ Present' = Present /\ Written' = Written
      /\ Cutoff' = Cutoff
  BY SameFiles, SameHistory DEF clients, history, Cutoff
<1>2. /\ w.entries \in Entries /\ w \in Works /\ w # NoWork
      /\ TrueEntries(files, w.entries) /\ TrueParses(files, w.scan)
  BY DEF Snapshot, Works
<1>3. UsageTypeOK'
  BY <1>1, <1>2 DEF UsageInv, UsageTypeOK
<1>4. Dated' /\ Histories'
  BY <1>1 DEF UsageInv, Dated, Histories
<1>5. Recalled'
  <2>1. index' # NoIndex => TrueEntries(files, index')
    BY <1>2 DEF UsageInv, Recalled
  <2>2. work' # NoWork => TrueEntries(files, work'.entries) /\ TrueParses(files, work'.scan)
    BY <1>2 DEF UsageInv, Recalled
  <2> QED
    BY <1>1, <2>1, <2>2 DEF UsageInv, Recalled
<1>6. WorkCovers'
  <2>1. CASE work' = work
    BY <1>1, <2>1 DEF UsageInv, WorkCovers
  <2>2. CASE work' = w
    <3>1. w.walked => \A d \in Written \ {today} :
                        \E f \in File : CoveredBy(d, files[f], w.entries[f], w.scan[f])
      BY SnapshotCovers
    <3> QED
      BY <1>1, <2>2, <3>1 DEF WorkCovers
  <2> QED
    BY <2>1, <2>2
<1>7. Tallies' /\ CountedOnce'
  BY <1>1 DEF UsageInv, Tallies, CountedOnce
<1> QED
  BY <1>3, <1>4, <1>5, <1>6, <1>7 DEF UsageInv

LEMMA HitIsTrue ==
  ASSUME UsageInv, NEW w, Snapshot(w), Hit(w), Kept # NoHistory
  PROVE  summary.result = Truth
<1> USE NothingApart
<1>1. /\ summary # NoSummary /\ summary.stamp = stamp /\ summary.entries = w.entries
      /\ w.walked
  BY DEF Hit, Snapshot
<1>2. OfStamp(stamp, Kept) = Kept
  BY DEF UsageInv, UsageTypeOK, OfStamp, Kept
<1>3. Undisturbed(files, w.entries)
  BY <1>1 DEF Snapshot, Undisturbed, Present
<1>4. Told(files, w.entries) = Written
  <2>1. {g \in File : w.entries[g] # NoFile} = Present
    BY <1>1 DEF Snapshot, Present
  <2> QED
    BY <2>1 DEF Told, Written
<1>5. summary.result = Tally(Kept, Written)
  BY <1>1, <1>2, <1>3, <1>4 DEF UsageInv, Tallies, TrueTally
<1>6. Watermark = Kept.through
  BY DEF Watermark
<1>7. Truth = [d \in Day |-> Kept.rows[d] + (IF d \in Written /\ ~IsFolded(Kept.through, d) THEN 1 ELSE 0)]
  BY <1>6 DEF Truth, Counted
<1> QED
  BY <1>5, <1>7 DEF Tally

LEMMA SummariseKeeps ==
  ASSUME UsageInv, Summarise
  PROVE  UsageInv'
<1>1. PICK o \in Openings("summary"), force \in BOOLEAN :
        /\ Opens(o)
        /\ IF ~force /\ Hit(o.opened)
             THEN honest' = (Kept = NoHistory \/ summary.result = Truth) /\ UNCHANGED work
             ELSE work' = o.opened /\ UNCHANGED honest
  BY DEF Summarise
<1>2. Snapshot(o.opened) /\ o.opened.of = "summary" /\ o.fault \in {0, 1}
  BY OpeningsTrue
<1>3. index' \in {index, o.opened.entries} /\ faults' \in 0..MaxFaults
  BY <1>1, <1>2, UsageFilesAssumption DEF Opens, MoreFaults, UsageInv, UsageTypeOK
<1>4. honest' /\ work' \in {work, o.opened}
  <2>1. CASE ~force /\ Hit(o.opened)
    BY <1>1, <1>2, <2>1, HitIsTrue
  <2>2. CASE ~(~force /\ Hit(o.opened))
    BY <1>1, <2>2 DEF UsageInv
  <2> QED
    BY <2>1, <2>2
<1>5. UNCHANGED <<clients, history, scan, summary, count, unread, passed>>
  BY DEF Summarise
<1> QED
  BY <1>2, <1>3, <1>4, <1>5, OpeningKeeps

LEMMA StartFoldKeeps ==
  ASSUME UsageInv, StartFold
  PROVE  UsageInv'
<1>1. PICK o \in Openings("fold") : Opens(o) /\ work' = o.opened
  BY DEF StartFold
<1>2. Snapshot(o.opened) /\ o.opened.of = "fold" /\ o.fault \in {0, 1}
  BY OpeningsTrue
<1>3. index' \in {index, o.opened.entries} /\ faults' \in 0..MaxFaults
  BY <1>1, <1>2, UsageFilesAssumption DEF Opens, MoreFaults, UsageInv, UsageTypeOK
<1>4. Kept # NoHistory /\ Watermark < Cutoff
  <2>1. Watermark \in Nat /\ Cutoff \in Nat
    BY UsageFilesAssumption DEF UsageInv, UsageTypeOK, Watermark, Kept, Cutoff, History, Day, EmptyHistory
  <2> QED
    BY <2>1 DEF StartFold
<1>5. UNCHANGED <<clients, history, scan, summary, count, unread, passed>> /\ honest'
  BY DEF StartFold, ghosts, UsageInv
<1> QED
  BY <1>1, <1>2, <1>3, <1>4, <1>5, OpeningKeeps

-----------------------------------------------------------------------------
(* The records are read.                                                    *)
LEMMA KeptTrue ==
  ASSUME UsageInv
  PROVE  /\ Kept \in History \cup {NoHistory}
         /\ Kept # NoHistory => Kept \in History /\ TrueHistory(Kept, Written, passed, today)
                                /\ Watermark = Kept.through
         /\ Kept = NoHistory => Watermark = 0
         /\ Watermark \in 0..MaxDay /\ Cutoff \in 0..MaxDay /\ Cutoff <= today
         /\ today \in Day /\ OfStamp(stamp, Kept) = Kept
<1> USE NothingApart, UsageFilesAssumption
<1>1. EmptyHistory \in History /\ TrueHistory(EmptyHistory, Written, passed, today)
  BY DEF EmptyHistory, History, Result, TrueHistory, UsageInv, UsageTypeOK, Day
<1>2. Kept \in History \cup {NoHistory} /\ (Kept # NoHistory => TrueHistory(Kept, Written, passed, today))
  BY <1>1 DEF Kept, UsageInv, UsageTypeOK, Histories
<1>3. Watermark \in 0..MaxDay
  BY <1>2 DEF Watermark, History
<1>4. today \in Day /\ Cutoff \in 0..MaxDay /\ Cutoff <= today
  BY DEF UsageInv, UsageTypeOK, Cutoff, Day
<1>5. OfStamp(stamp, Kept) = Kept
  BY DEF OfStamp, Kept, UsageInv, UsageTypeOK
<1> QED
  BY <1>2, <1>3, <1>4, <1>5 DEF Watermark

LEMMA WorkTyped ==
  ASSUME UsageInv, work # NoWork, NEW f \in File
  PROVE  /\ work \in Works /\ work.entries \in Entries /\ work.scan \in Parses
         /\ work.entries[f] \in Entry \cup {NoFile}
         /\ work.scan[f] \in Transcript \cup {NoParse}
         /\ TrueEntry(files[f], work.entries[f]) /\ TrueParse(files[f], work.scan[f])
BY DEF UsageInv, UsageTypeOK, Recalled, Works, Entries, Parses, TrueEntries, TrueParses

LEMMA PreparedDays ==
  ASSUME UsageInv, work # NoWork
  PROVE  /\ \A f \in File : Prepared(f) \in SUBSET Day
         /\ Live \in SUBSET Day /\ \A d \in Live : ~IsFolded(Watermark, d)
<1>1. ASSUME NEW f \in File PROVE Prepared(f) \in SUBSET Day
  <2>1. Readable(f) => files[f].records \in SUBSET Day
    BY FilesTyped DEF UsageInv, Readable, Transcript
  <2>2. work.scan[f] # NoParse => work.scan[f].records \in SUBSET Day
    BY WorkTyped DEF Transcript
  <2>3. CASE ~Cached(f) /\ Readable(f)
    BY <2>1, <2>3 DEF Prepared
  <2>4. CASE work.scan[f] = NoParse /\ ~Readable(f)
    BY <2>4 DEF Prepared
  <2>5. CASE ~(~Cached(f) /\ Readable(f)) /\ ~(work.scan[f] = NoParse /\ ~Readable(f))
    <3>1. Prepared(f) = work.scan[f].records
      BY <2>5 DEF Prepared
    <3>2. work.scan[f] # NoParse
      BY <2>5 DEF Cached
    <3> QED
      BY <2>2, <3>1, <3>2
  <2> QED
    BY <2>3, <2>4, <2>5
<1> QED
  BY <1>1 DEF Live, Due

(* A transcript that has not changed since it was opened is due if it holds *)
(* a record from the watermark on, and it is read as it is.                 *)
LEMMA UnchangedRead ==
  ASSUME UsageInv, work # NoWork, NEW f \in Present,
         work.entries[f] # NoFile, Describes(work.entries[f], files[f])
  PROVE  /\ Cached(f) \/ Stable(f) => Prepared(f) = files[f].records
         /\ \A d \in files[f].records : ~IsFolded(Watermark, d) => f \in Due
<1> USE NothingApart, UsageFilesAssumption
<1>1. /\ f \in File /\ files[f] \in Transcript
      /\ \A d \in files[f].records : d <= files[f].mtime
      /\ work.entries[f] \in Entry /\ work.scan[f] \in Transcript \cup {NoParse}
      /\ TrueEntry(files[f], work.entries[f]) /\ TrueParse(files[f], work.scan[f])
  BY FilesTyped, WorkTyped DEF UsageInv, Dated
<1>2. /\ work.scan[f] # NoParse /\ Describes(work.entries[f], work.scan[f])
           => work.scan[f].records = files[f].records
      /\ \A d \in files[f].records :
           CoveredBy(d, files[f], work.entries[f], work.scan[f])
  BY <1>1, DescribedCovered
<1>3. ASSUME Cached(f) PROVE Prepared(f) = files[f].records
  <2>1. Prepared(f) = work.scan[f].records
    BY <1>3 DEF Prepared, Cached
  <2> QED
    BY <1>2, <1>3, <2>1 DEF Cached
<1>4. ASSUME ~Cached(f), Stable(f) PROVE Prepared(f) = files[f].records
  BY <1>4 DEF Prepared, Stable
<1>5. ASSUME NEW d \in files[f].records, ~IsFolded(Watermark, d)
      PROVE  f \in Due
  <2>1. /\ d \in Nat /\ Watermark \in Nat /\ Watermark <= d
        /\ work.entries[f].mtime \in Nat /\ work.entries[f].max \in Nat
    BY <1>1, <1>5, KeptTrue DEF IsFolded, Transcript, Day, Entry
  <2>2. d <= work.entries[f].mtime /\ (work.entries[f].max # 0 => d <= work.entries[f].max)
    BY <1>2 DEF CoveredBy
  <2>3. ~HoldsOnlyFolded(Watermark, work.entries[f].mtime, work.entries[f].max)
    BY <2>1, <2>2 DEF HoldsOnlyFolded, IsFolded
  <2> QED
    BY <1>1, <2>3 DEF Due
<1> QED
  BY <1>3, <1>4, <1>5

LEMMA CountedIs ==
  ASSUME UsageInv, NEW days \in SUBSET Day, \A d \in days : ~IsFolded(Watermark, d)
  PROVE  /\ Counted(days) \in Result
         /\ \A d \in Day : /\ Counted(days)[d] <= 1
                           /\ d \in days => Counted(days)[d] = 1
                           /\ Kept # NoHistory => Counted(days)[d] >= Kept.rows[d]
<1> SUFFICES ASSUME NEW d \in Day
             PROVE  /\ Counted(days)[d] \in 0..1
                    /\ d \in days => Counted(days)[d] = 1
                    /\ Kept # NoHistory => Counted(days)[d] >= Kept.rows[d]
  BY DEF Counted, Result
<1>1. Counted(days)[d] = (IF Kept = NoHistory THEN 0 ELSE Kept.rows[d]) + (IF d \in days THEN 1 ELSE 0)
  BY DEF Counted
<1>2. CASE Kept = NoHistory
  BY <1>1, <1>2
<1>3. CASE Kept # NoHistory
  <2>1. /\ Kept.rows[d] \in {0, 1} /\ (Kept.rows[d] = 1 => d < Watermark)
    BY <1>3, KeptTrue, NothingApart DEF TrueHistory
  <2>2. Kept.rows[d] = 1 => d \notin days
    BY <2>1 DEF IsFolded
  <2> QED
    BY <1>1, <1>3, <2>1, <2>2
<1> QED
  BY <1>2, <1>3

(* A complete read misses nothing that the history has not, and counts what *)
(* an undisturbed tree tells.                                               *)
LEMMA NothingMissed ==
  ASSUME UsageInv, work # NoWork, ReadWhole, Kept # NoHistory,
         NEW d \in Owed \ passed
  PROVE  Counted(Live)[d] # 0
<1>1. PICK f \in Present : /\ Describes(work.entries[f], files[f]) /\ work.entries[f] # NoFile
                           /\ d \in files[f].records
  BY DEF Owed, Describes
<1>2. d \in Written /\ d \in Day
  BY <1>1, FilesTyped DEF Written, UsageInv
<1>3. CASE IsFolded(Watermark, d)
  <2>1. Kept.rows[d] = 1
    BY <1>2, <1>3, KeptTrue, NothingApart DEF TrueHistory, IsFolded
  <2>2. Counted(Live)[d] >= 1 /\ Counted(Live)[d] <= 1
    BY <1>2, <2>1, CountedIs, PreparedDays
  <2> QED
    BY <2>2
<1>4. CASE ~IsFolded(Watermark, d)
  <2>1. f \in Due /\ Prepared(f) = files[f].records
    BY <1>1, <1>4, UnchangedRead DEF ReadWhole
  <2>2. d \in Live
    BY <1>1, <1>4, <2>1 DEF Live
  <2> QED
    BY <1>2, <2>2, CountedIs, PreparedDays
<1> QED
  BY <1>3, <1>4

LEMMA CountTallies ==
  ASSUME UsageInv, work # NoWork, ReadWhole, Kept # NoHistory, Undisturbed(files, work.entries)
  PROVE  Counted(Live) = Tally(Kept, Told(files, work.entries))
<1>1. ASSUME NEW f \in File, work.entries[f] # NoFile
      PROVE  /\ f \in Present
             /\ f \in Due => Prepared(f) = files[f].records
             /\ \A d \in files[f].records : ~IsFolded(Watermark, d) => f \in Due
  <2>1. f \in Present /\ Describes(work.entries[f], files[f])
    BY <1>1 DEF Undisturbed, Present
  <2> QED
    BY <1>1, <2>1, UnchangedRead DEF ReadWhole
<1>2. Live = {d \in Told(files, work.entries) : ~IsFolded(Watermark, d)}
  <2>1. ASSUME NEW d \in Live PROVE d \in Told(files, work.entries) /\ ~IsFolded(Watermark, d)
    <3>1. PICK f \in Due : d \in Prepared(f)
      BY DEF Live
    <3> QED
      BY <1>1, <3>1 DEF Due, Told, Live
  <2>2. ASSUME NEW d \in Told(files, work.entries), ~IsFolded(Watermark, d) PROVE d \in Live
    <3>1. PICK f \in File : work.entries[f] # NoFile /\ d \in files[f].records
      BY DEF Told
    <3>2. f \in Due /\ d \in Prepared(f)
      BY <1>1, <2>2, <3>1
    <3> QED
      BY <2>2, <3>2 DEF Live
  <2> QED
    BY <2>1, <2>2
<1>3. Watermark = Kept.through
  BY KeptTrue
<1>4. \A d \in Day : d \in Live <=> d \in Told(files, work.entries) /\ ~IsFolded(Kept.through, d)
  BY <1>2, <1>3
<1>5. Counted(Live) = [d \in Day |-> Kept.rows[d] + (IF d \in Live THEN 1 ELSE 0)]
  BY DEF Counted
<1> QED
  BY <1>4, <1>5 DEF Tally

(* What is kept of the parses once the sources are closed.                  *)
LEMMA PrunedTrue ==
  ASSUME UsageInv, NEW ps \in Parses, TrueParses(files, ps), NEW w
  PROVE  Pruned(ps, w) \in Parses /\ TrueParses(files, Pruned(ps, w))
<1>1. Pruned(ps, w) \in Parses
  BY DEF Pruned, Parses
<1>2. ASSUME NEW f \in File PROVE TrueParse(files[f], Pruned(ps, w)[f])
  <2>1. Pruned(ps, w)[f] \in {ps[f], NoParse}
    BY DEF Pruned
  <2> QED
    BY <2>1 DEF TrueParses, TrueParse
<1> QED
  BY <1>1, <1>2 DEF TrueParses

LEMMA ParsedTrue ==
  ASSUME UsageInv, work # NoWork
  PROVE  Parsed \in Parses /\ TrueParses(files, Parsed)
<1>1. ASSUME NEW f \in File
      PROVE  /\ Parsed[f] \in Transcript \cup {NoParse}
             /\ TrueParse(files[f], Parsed[f])
  <2>1. CASE f \in Due /\ ~Cached(f) /\ Stable(f)
    <3>1. f \in Present /\ Parsed[f] = files[f]
      BY <2>1 DEF Parsed, Stable, Readable
    <3> QED
      BY <3>1, FilesTyped DEF TrueParse, Present, UsageInv
  <2>2. CASE ~(f \in Due /\ ~Cached(f) /\ Stable(f))
    BY <2>2, WorkTyped DEF Parsed
  <2> QED
    BY <2>1, <2>2
<1> QED
  BY <1>1 DEF Parses, TrueParses, Parsed

LEMMA ReadKeeps ==
  ASSUME UsageInv, Read
  PROVE  UsageInv'
<1> USE NothingApart
<1>1. work # NoWork /\ work' = NoWork
  BY DEF Read
<1>2. /\ UNCHANGED <<today, files, locked, main, bak, stamp, index, summary, unread, passed, honest,
                     faults>>
      /\ Kept' = Kept /\ Present' = Present /\ Written' = Written
  BY SameFiles, SameHistory DEF Read, clients, history, ghosts
<1> DEFINE c == [stamp |-> stamp, entries |-> work.entries,
                 complete |-> work.complete /\ ReadWhole, readable |-> Kept # NoHistory,
                 result |-> Counted(Live),
                 missed |-> {d \in Owed \ passed : Counted(Live)[d] = 0}]
<1>3. count' = c /\ scan' = Pruned(Parsed, Watermark)
  BY DEF Read
<1>4. /\ c.stamp = stamp /\ c.entries = work.entries /\ c.complete = (work.complete /\ ReadWhole)
      /\ c.readable = (Kept # NoHistory) /\ c.result = Counted(Live)
      /\ c.missed = {d \in Owed \ passed : Counted(Live)[d] = 0}
  OBVIOUS
<1>5. scan' \in Parses /\ TrueParses(files, scan')
  BY <1>1, <1>3, ParsedTrue, PrunedTrue
<1>6. Live \in SUBSET Day /\ Counted(Live) \in Result /\ \A d \in Day : Counted(Live)[d] <= 1
  BY <1>1, PreparedDays, CountedIs
<1>7. Owed \in SUBSET Day
  BY FilesTyped DEF Owed, Transcript, UsageInv
<1>8. work.entries \in Entries /\ work.complete \in BOOLEAN /\ stamp \in Stamp
      /\ TrueEntries(files, work.entries)
  BY <1>1 DEF UsageInv, UsageTypeOK, Works, Recalled
<1>9. c \in Counts
  <2>1. {d \in Owed \ passed : Counted(Live)[d] = 0} \in SUBSET Day
    BY <1>7
  <2>2. (work.complete /\ ReadWhole) \in BOOLEAN /\ (Kept # NoHistory) \in BOOLEAN
    OBVIOUS
  <2> QED
    BY <1>6, <1>8, <2>1, <2>2 DEF Counts
<1> HIDE DEF c
<1>10. UsageTypeOK'
  BY <1>1, <1>2, <1>3, <1>5, <1>9 DEF UsageInv, UsageTypeOK
<1>11. Dated' /\ Histories' /\ WorkCovers' /\ honest'
  BY <1>1, <1>2 DEF UsageInv, Dated, Histories, WorkCovers
<1>12. Recalled'
  BY <1>1, <1>2, <1>3, <1>4, <1>5, <1>8 DEF UsageInv, Recalled
<1>13. c.complete /\ c.readable => c.missed = {}
  BY <1>1, <1>4, NothingMissed
<1>14. CountedOnce'
  BY <1>3, <1>4, <1>6, <1>13 DEF CountedOnce
<1>15. c.complete /\ c.readable => TrueTally(files, stamp, Kept, c)
  BY <1>1, <1>4, CountTallies, KeptTrue DEF TrueTally
<1>16. Tallies'
  BY <1>2, <1>3, <1>15 DEF UsageInv, Tallies
<1> QED
  BY <1>10, <1>11, <1>12, <1>14, <1>16 DEF UsageInv

LEMMA StoreKeeps ==
  ASSUME UsageInv, Store
  PROVE  UsageInv'
<1> USE NothingApart
<1>1. /\ UNCHANGED <<today, files, locked, main, bak, stamp, index, scan, work, unread, passed,
                     honest, faults>>
      /\ Kept' = Kept /\ Watermark' = Watermark /\ Present' = Present /\ Written' = Written
      /\ Cutoff' = Cutoff
  BY SameFiles, SameHistory DEF Store, clients, history, ghosts, Cutoff
<1>2. count # NoWork /\ count' = NoWork
  BY DEF Store
<1> DEFINE s == [stamp |-> count.stamp, entries |-> count.entries, result |-> count.result]
<1>3. s.stamp = count.stamp /\ s.entries = count.entries /\ s.result = count.result
  OBVIOUS
<1>4. s \in Summaries /\ s # NoSummary
  BY <1>2 DEF UsageInv, UsageTypeOK, Counts, Summaries
<1>5. summary' = IF Current THEN s ELSE summary
  BY DEF Store
<1> HIDE DEF s
<1>6. UsageTypeOK'
  BY <1>1, <1>2, <1>4, <1>5 DEF UsageInv, UsageTypeOK
<1>7. Dated' /\ Histories' /\ WorkCovers' /\ honest' /\ CountedOnce'
  BY <1>1, <1>2 DEF UsageInv, Dated, Histories, WorkCovers, CountedOnce
<1>8. Recalled'
  BY <1>1, <1>2, <1>3, <1>5 DEF UsageInv, Recalled
<1>9. Current => TrueTally(files, stamp, Kept, s)
  BY <1>2, <1>3 DEF UsageInv, Tallies, TrueTally, Current
<1>10. Tallies'
  BY <1>1, <1>2, <1>5, <1>9 DEF UsageInv, Tallies
<1> QED
  BY <1>6, <1>7, <1>8, <1>10 DEF UsageInv

-----------------------------------------------------------------------------
(* The history changes: a stamp that nothing remembers makes no count       *)
(* current.                                                                 *)
LEMMA NewStampIsNew ==
  ASSUME UsageInv
  PROVE  /\ NewStamp \in Stamp \ {0, stamp}
         /\ summary # NoSummary => NewStamp # summary.stamp
         /\ count # NoWork => NewStamp # count.stamp
<1>1. \E s \in Stamp \ {0, stamp} : /\ summary # NoSummary => s # summary.stamp
                                    /\ count # NoWork => s # count.stamp
  BY DEF Stamp
<1> QED
  BY <1>1 DEF NewStamp

LEMMA TallyOfOther ==
  ASSUME NEW fs, NEW s, NEW h, NEW t, NEW k, NEW c, TrueTally(fs, s, h, c),
         c.stamp # t \/ t = 0 \/ (t = s /\ k \in {h, NoHistory})
  PROVE  TrueTally(fs, t, k, c)
BY DEF TrueTally, OfStamp

LEMMA HistoryForgives ==
  ASSUME NEW h, NEW written, NEW past, NEW more, past \subseteq more, NEW now,
         TrueHistory(h, written, past, now)
  PROVE  TrueHistory(h, written, more, now)
BY DEF TrueHistory

(* A fold passes over what it does not count: of a transcript that it does  *)
(* not read it has an older parse, or it waited for it and gave it up.      *)
LEMMA PassedOver ==
  ASSUME UsageInv, work # NoWork, work.walked, ~Waiting,
         NEW d \in Written, d < Cutoff, ~IsFolded(Watermark, d), d \notin Live
  PROVE  d \in Passed
<1> USE NothingApart, UsageFilesAssumption
<1>1. d \in Day /\ d # today /\ d \in Nat /\ Watermark \in Nat /\ Watermark <= d
  BY FilesTyped, KeptTrue DEF UsageInv, Day, IsFolded
<1>2. PICK f \in File : CoveredBy(d, files[f], work.entries[f], work.scan[f])
  BY <1>1 DEF UsageInv, WorkCovers
<1>3. f \in Due
  <2>1. work.entries[f] \in Entry /\ work.entries[f].mtime \in Nat /\ work.entries[f].max \in Nat
    BY <1>2, WorkTyped DEF CoveredBy, Entry, Day
  <2>2. d <= work.entries[f].mtime /\ (work.entries[f].max # 0 => d <= work.entries[f].max)
    BY <1>2 DEF CoveredBy
  <2>3. ~HoldsOnlyFolded(Watermark, work.entries[f].mtime, work.entries[f].max)
    BY <1>1, <2>1, <2>2 DEF HoldsOnlyFolded, IsFolded
  <2> QED
    BY <1>2, <2>3 DEF Due, CoveredBy
<1>4. d \notin Prepared(f)
  BY <1>3 DEF Live
<1>5. ~Cached(f)
  <2>1. SUFFICES ASSUME Cached(f) PROVE d \in Prepared(f)
    BY <1>4
  <2>2. Prepared(f) = work.scan[f].records
    BY <2>1 DEF Prepared, Cached
  <2> QED
    BY <1>2, <2>1, <2>2 DEF CoveredBy, Cached
<1>6. ~Readable(f)
  <2>1. SUFFICES ASSUME Readable(f) PROVE d \in Prepared(f)
    BY <1>4
  <2>2. Prepared(f) = files[f].records
    BY <1>5, <2>1 DEF Prepared
  <2> QED
    BY <1>2, <2>1, <2>2 DEF CoveredBy, Readable, Present
<1>7. f \in Unread => f \in unread /\ ~IsNew(f)
  BY DEF Waiting
<1>8. GaveUp
  BY <1>3, <1>5, <1>6, <1>7 DEF GaveUp
<1> QED
  BY <1>8 DEF Passed

LEMMA FoldedTrue ==
  ASSUME UsageInv, work # NoWork, work.of = "fold", work.walked, ~Waiting,
         NEW h, h = [through |-> Cutoff, rows |-> FoldedRows(Kept, Live, Cutoff)]
  PROVE  h \in History /\ TrueHistory(h, Written, passed \cup Passed, today)
<1> USE NothingApart
<1>1. Kept # NoHistory /\ Watermark < Cutoff
  BY DEF UsageInv, WorkCovers
<1>2. /\ Kept \in History /\ TrueHistory(Kept, Written, passed, today) /\ Watermark = Kept.through
      /\ Watermark \in Nat /\ Cutoff \in Nat /\ Cutoff \in 0..MaxDay /\ Cutoff <= today
  BY <1>1, KeptTrue, UsageFilesAssumption
<1>3. h.through = Cutoff /\ h.rows = FoldedRows(Kept, Live, Cutoff)
  OBVIOUS
<1>4. Min({2, 1}) = 1
  <2>1. \A x \in {2, 1} : (\A y \in {2, 1} : x =< y) <=> x = 1
    OBVIOUS
  <2> QED
    BY <2>1 DEF Min
<1>5. ASSUME NEW d \in Day
      PROVE  /\ h.rows[d] \in {0, 1} /\ (h.rows[d] = 1 => d < Cutoff)
             /\ d < Watermark /\ Kept.rows[d] = 1 => h.rows[d] = 1
             /\ d \in Live /\ d < Cutoff => h.rows[d] = 1
  <2>1. d \in Nat /\ Kept.rows[d] \in {0, 1} /\ (Kept.rows[d] = 1 => d < Watermark)
    BY <1>1, <1>2 DEF TrueHistory, Day
  <2>2. h.rows[d] = IF d \in Live /\ ~IsFolded(Watermark, d) /\ d < Cutoff
                      THEN Min({2, Kept.rows[d] + 1}) ELSE Kept.rows[d]
    BY <1>2, <1>3 DEF FoldedRows
  <2>3. d \in Live => ~IsFolded(Watermark, d)
    BY PreparedDays
  <2>4. CASE d \in Live /\ d < Cutoff
    <3>1. Kept.rows[d] = 0
      BY <2>1, <2>3, <2>4 DEF IsFolded
    <3>2. Kept.rows[d] + 1 = 1
      BY <3>1
    <3>3. h.rows[d] = Min({2, Kept.rows[d] + 1})
      BY <2>2, <2>3, <2>4
    <3>4. h.rows[d] = 1
      BY <1>4, <3>2, <3>3
    <3> QED
      BY <2>4, <3>4
  <2>5. CASE ~(d \in Live /\ d < Cutoff)
    <3>1. h.rows[d] = Kept.rows[d]
      BY <2>2, <2>5
    <3> QED
      BY <1>1, <1>2, <2>1, <2>5, <3>1
  <2> QED
    BY <2>4, <2>5
<1>6. h \in History
  <2>1. FoldedRows(Kept, Live, Cutoff) \in Result
    BY <1>3, <1>5 DEF FoldedRows, Result
  <2> QED
    BY <1>2, <2>1 DEF History
<1>7. ASSUME NEW d \in Day, d \in Written, d < Cutoff
      PROVE  h.rows[d] = 1 \/ d \in passed \cup Passed
  <2>1. CASE IsFolded(Watermark, d)
    <3>1. d < Watermark /\ Kept \notin {NoHistory, Damaged}
      BY <1>2, <2>1 DEF IsFolded
    <3>2. Kept.rows[d] = 1 \/ d \in passed
      BY <1>2, <1>7, <3>1 DEF TrueHistory
    <3> QED
      BY <1>5, <3>1, <3>2
  <2>2. CASE ~IsFolded(Watermark, d) /\ d \in Live
    BY <1>5, <1>7, <2>2
  <2>3. CASE ~IsFolded(Watermark, d) /\ d \notin Live
    BY <1>7, <2>3, PassedOver
  <2> QED
    BY <2>1, <2>2, <2>3
<1> QED
  BY <1>2, <1>3, <1>5, <1>6, <1>7 DEF TrueHistory

LEMMA FoldKeeps ==
  ASSUME UsageInv, Fold
  PROVE  UsageInv'
<1> USE NothingApart, UsageFilesAssumption
<1>1. work # NoWork /\ work.of = "fold" /\ work' = NoWork
  BY DEF Fold
<1>2. /\ UNCHANGED <<today, files, locked, index, summary, count, honest>>
      /\ Present' = Present /\ Written' = Written
  BY SameFiles DEF Fold, clients
<1>3. /\ scan' \in Parses /\ TrueParses(files, scan')
      /\ unread' \subseteq File /\ faults' \in 0..MaxFaults
  <2>1. work.scan \in Parses /\ TrueParses(files, work.scan)
    BY <1>1 DEF UsageInv, UsageTypeOK, Recalled, Works
  <2>2. scan' \in {Pruned(work.scan, Watermark), Pruned(Parsed, Watermark), Pruned(Parsed, Cutoff)}
    BY DEF Fold, NotFolded, FoldInto, FoldFails
  <2>3. unread' \in {unread, Unread} /\ unread \subseteq File /\ Unread \subseteq File
    BY DEF Fold, UsageInv, UsageTypeOK, Unread, Due
  <2>4. faults \in 0..MaxFaults /\ (NoFault \/ Fault)
    BY DEF Fold, UsageInv, UsageTypeOK
  <2>5. faults' \in 0..MaxFaults
    BY <2>4 DEF NoFault, Fault, MoreFaults
  <2> QED
    BY <1>1, <2>1, <2>2, <2>3, <2>5, PrunedTrue, ParsedTrue
<1>4. /\ main' \in History \cup {NoHistory, Damaged}
      /\ bak' \in History \cup {NoHistory}
      /\ stamp' \in Stamp /\ (stamp' = 0 <=> main' = NoHistory)
      /\ passed' \subseteq Day
      /\ Histories' /\ Tallies'
  <2>1. CASE UNCHANGED <<history, passed>>
    <3>1. UNCHANGED <<main, bak, stamp, passed>> /\ Kept' = Kept
      BY <2>1, SameHistory DEF history
    <3> QED
      BY <1>2, <3>1 DEF UsageInv, UsageTypeOK, Histories, Tallies
  <2>2. CASE FoldInto /\ work.walked /\ ~Waiting
    <3>1. /\ main' = [through |-> Cutoff, rows |-> FoldedRows(Kept, Live, Cutoff)]
          /\ bak' = Backup /\ stamp' = NewStamp /\ passed' = passed \cup Passed
      BY <2>2 DEF FoldInto
    <3>2. main' \in History /\ TrueHistory(main', Written, passed', today)
      BY <1>1, <2>2, <3>1, FoldedTrue
    <3>3. Backup \in History \cup {NoHistory} /\ TrueHistory(Backup, Written, passed', today)
      BY <3>1, HistoryForgives DEF UsageInv, UsageTypeOK, Histories, Backup
    <3>4. passed' \subseteq Day
      BY <3>1, FilesTyped DEF Passed, UsageInv, UsageTypeOK
    <3>5. Histories'
      BY <1>2, <3>1, <3>2, <3>3 DEF Histories
    <3>6. Tallies'
      BY <1>2, <3>1, NewStampIsNew, TallyOfOther DEF UsageInv, Tallies
    <3> QED
      BY <3>1, <3>2, <3>3, <3>4, <3>5, <3>6, NewStampIsNew
  <2>3. CASE FoldFails
    <3>1. bak' \in {bak, Backup} /\ UNCHANGED <<main, stamp, passed>>
      BY <2>3 DEF FoldFails
    <3>2. /\ bak' \in History \cup {NoHistory} /\ TrueHistory(bak', Written, passed, today)
          /\ main = NoHistory => bak' = NoHistory
          /\ main = Damaged => bak' = bak
      BY <3>1 DEF UsageInv, UsageTypeOK, Histories, Backup
    <3>3. Kept' = Kept
      BY <3>1, <3>2 DEF Kept
    <3> QED
      BY <1>2, <3>1, <3>2, <3>3 DEF UsageInv, UsageTypeOK, Histories, Tallies
  <2> QED
    BY <2>1, <2>2, <2>3 DEF Fold, NotFolded
<1>5. UsageTypeOK'
  BY <1>1, <1>2, <1>3, <1>4 DEF UsageInv, UsageTypeOK
<1>6. Dated' /\ WorkCovers' /\ CountedOnce' /\ honest'
  BY <1>1, <1>2 DEF UsageInv, Dated, WorkCovers, CountedOnce
<1>7. Recalled'
  BY <1>1, <1>2, <1>3 DEF UsageInv, Recalled
<1> QED
  BY <1>4, <1>5, <1>6, <1>7 DEF UsageInv

LEMMA ClearKeeps ==
  ASSUME UsageInv, Clear
  PROVE  UsageInv'
<1> USE NothingApart, UsageFilesAssumption
<1>1. /\ work = NoWork /\ main # NoHistory /\ bak' = NoHistory
      /\ UNCHANGED <<today, files, locked, index, scan, summary, work, count, unread, honest>>
      /\ Present' = Present /\ Written' = Written
      /\ faults' \in 0..MaxFaults
  BY SameFiles DEF Clear, clients, caches, Fault, MoreFaults, UsageInv, UsageTypeOK
<1>2. Dated' /\ Recalled' /\ WorkCovers' /\ CountedOnce' /\ honest'
  BY <1>1 DEF UsageInv, Dated, Recalled, WorkCovers, CountedOnce
<1>3. CASE main' = NoHistory /\ stamp' = 0 /\ passed' = {}
  <2>1. UsageTypeOK' /\ Histories'
    BY <1>1, <1>3 DEF UsageInv, UsageTypeOK, Histories, TrueHistory, Stamp
  <2>2. Tallies'
    BY <1>1, <1>3, TallyOfOther DEF UsageInv, Tallies
  <2> QED
    BY <1>2, <2>1, <2>2 DEF UsageInv
<1>4. CASE UNCHANGED <<main, stamp, passed>>
  <2>1. UsageTypeOK' /\ Histories'
    BY <1>1, <1>4 DEF UsageInv, UsageTypeOK, Histories, TrueHistory
  <2>2. Kept' \in {Kept, NoHistory}
    BY <1>1, <1>4 DEF Kept
  <2>3. Tallies'
    BY <1>1, <1>4, <2>2, TallyOfOther DEF UsageInv, Tallies
  <2> QED
    BY <1>2, <2>1, <2>3 DEF UsageInv
<1> QED
  BY <1>3, <1>4 DEF Clear

LEMMA DamageKeeps ==
  ASSUME UsageInv, Damage
  PROVE  UsageInv'
<1> USE NothingApart, UsageFilesAssumption
<1>1. /\ work = NoWork /\ main' = Damaged /\ stamp' = NewStamp
      /\ UNCHANGED <<today, files, locked, bak, index, scan, summary, work, count, unread, passed,
                     honest>>
      /\ Present' = Present /\ Written' = Written
      /\ faults' \in 0..MaxFaults
  BY SameFiles DEF Damage, clients, caches, ghosts, Fault, MoreFaults, UsageInv, UsageTypeOK
<1>2. Dated' /\ Recalled' /\ WorkCovers' /\ CountedOnce' /\ honest'
  BY <1>1 DEF UsageInv, Dated, Recalled, WorkCovers, CountedOnce
<1>3. UsageTypeOK' /\ Histories'
  BY <1>1, NewStampIsNew DEF UsageInv, UsageTypeOK, Histories, TrueHistory
<1>4. Tallies'
  BY <1>1, NewStampIsNew, TallyOfOther DEF UsageInv, Tallies
<1> QED
  BY <1>2, <1>3, <1>4 DEF UsageInv

LEMMA CrashKeeps ==
  ASSUME UsageInv, Crash
  PROVE  UsageInv'
<1> USE NothingApart, UsageFilesAssumption
<1>1. /\ work' = NoWork /\ count' = NoWork /\ unread' = {}
      /\ UNCHANGED <<today, files, locked, main, bak, stamp, index, scan, summary, passed, honest>>
      /\ Present' = Present /\ Written' = Written /\ Kept' = Kept
      /\ faults' \in 0..MaxFaults
  BY SameFiles, SameHistory
  DEF Crash, clients, history, caches, ghosts, Fault, MoreFaults, UsageInv, UsageTypeOK
<1>2. UsageTypeOK' /\ Dated' /\ Histories' /\ honest'
  BY <1>1 DEF UsageInv, UsageTypeOK, Dated, Histories
<1>3. Recalled' /\ WorkCovers' /\ Tallies' /\ CountedOnce'
  BY <1>1 DEF UsageInv, Recalled, WorkCovers, Tallies, CountedOnce
<1> QED
  BY <1>2, <1>3 DEF UsageInv

-----------------------------------------------------------------------------
LEMMA UsageStepKeeps ==
  ASSUME UsageInv, [UsageNext]_usageVars
  PROVE  UsageInv'
<1> USE UsageFilesAssumption
<1>1. locked \subseteq File /\ faults \in 0..MaxFaults
  BY DEF UsageInv, UsageTypeOK
<1>2. CASE Clients
  <2>1. locked' \subseteq File
    BY <1>1, <1>2 DEF Clients, Write, Copy, Delete, Unlock, Tick
  <2> QED
    BY <1>1, <1>2, <2>1, ClientsKeep DEF Clients
<1>3. CASE Lock
  <2>1. locked' \subseteq File
    BY <1>1, <1>3 DEF Lock, Present
  <2>2. faults' \in 0..MaxFaults
    BY <1>1, <1>3 DEF Lock, Fault, MoreFaults
  <2> QED
    BY <1>3, <2>1, <2>2, ClientsKeep DEF Lock
<1>4. CASE UNCHANGED usageVars
  BY <1>1, <1>4, ClientsKeep DEF usageVars, history, caches, ghosts
<1> QED
  BY <1>2, <1>3, <1>4, SummariseKeeps, ReadKeeps, StoreKeeps, StartFoldKeeps, FoldKeeps,
     ClearKeeps, DamageKeeps, CrashKeeps DEF UsageNext

(* All of it holds always: of the histories, of what is remembered of the   *)
(* transcripts, of what the lock's holder has opened, and of the counts.    *)
THEOREM UsageInvariant == UsageSpec => []UsageInv
<1>1. UsageInit => UsageInv
  BY UsageInvInit
<1>2. UsageInv /\ [UsageNext]_usageVars => UsageInv'
  BY UsageStepKeeps
<1> QED
  BY <1>1, <1>2, PTL DEF UsageSpec

(* The stores, the caches and what is under way have their types.           *)
THEOREM UsageTyped == UsageSpec => []UsageTypeOK
<1>1. UsageInv => UsageTypeOK
  BY DEF UsageInv
<1> QED
  BY <1>1, UsageInvariant, PTL

(* No record of the transcripts is counted twice, and a count that is final *)
(* misses none but those a fold had to pass over, whatever the clients      *)
(* write, copy and delete between the steps of UsageFiles::summary and fold.*)
THEOREM NoRecordCountedTwice == UsageSpec => []CountedOnce
<1>1. UsageInv => CountedOnce
  BY DEF UsageInv
<1> QED
  BY <1>1, UsageInvariant, PTL

(* What load_summary_hit serves is what a fresh count would say, for as long*)
(* as the history reads.                                                    *)
THEOREM ServedIsCurrent == UsageSpec => []ServedCurrent
<1>1. UsageInv => ServedCurrent
  BY DEF UsageInv, ServedCurrent
<1> QED
  BY <1>1, UsageInvariant, PTL
=============================================================================
