----------------------------- MODULE UsageFiles -----------------------------
(***************************************************************************)
(* usage/files.rs with its three stores and the transcript sources: a      *)
(* summary counts the records of the transcripts and the rows they were    *)
(* folded into, the background fold moves what is older than a week into   *)
(* the rows, and both work under one lock that a summary drops while it    *)
(* counts.  The clients write, copy and delete transcripts meanwhile.      *)
(*                                                                         *)
(* A record is the day it was written on, so at most one a day is written; *)
(* copies of it appear in other transcripts.  A transcript only grows, so  *)
(* its size is how many records it holds.  Left out: the window (it covers *)
(* every day), prices, providers, and the slots that rows are summed by.   *)
(* Nothing but the app changes the stores while the lock is held, and a    *)
(* walk sees the transcripts at one moment.  The generation of the index   *)
(* is left out: what it is compared for, its entries decide.               *)
(*                                                                         *)
(* A definition placed just before the one whose name it extends is that   *)
(* one with a mistake in it; nothing uses it.  It stands for the bug one of*)
(* the properties rules out: with it in place, that property fails.        *)
(***************************************************************************)
EXTENDS Naturals, FiniteSets, FiniteSetsExt

CONSTANTS File, NoFile, Gone, NoHistory, Damaged, NoIndex, NoParse, NoSummary, NoWork,
          FoldAfter,  \* FOLD_AFTER_DAYS, and the grace of what cannot be read
          Slack,      \* MTIME_SLACK_MS, in days
          MaxDay,     \* bound: days
          MaxRecords, \* bound: records the transcripts hold at a time
          MaxTogether,\* bound: days, records and faults together
          MaxFaults   \* bound: unreadable files, failed writes and walks, damage, clears, crashes

ASSUME UsageFilesAssumption ==
  /\ FoldAfter \in Nat /\ Slack \in Nat /\ MaxDay \in Nat \ {0} /\ MaxRecords \in Nat
  /\ MaxFaults \in Nat /\ MaxTogether \in Nat

Day    == 1..MaxDay
Stamp  == 0..4            \* the size and mtime of the history file; 0: no file
Result == [Day -> 0..2]   \* how often a record is counted; 2: twice or more

(* A transcript: the records it holds and the day it was last written; the  *)
(* CachedFile of one is the same.                                           *)
Transcript == [records : SUBSET Day, mtime : Day]

(* UsageHistory: the days before through are folded into the rows.          *)
History == [through : 0..MaxDay, rows : Result]

EmptyHistory == [through |-> 0, rows |-> [d \in Day |-> 0]]

(* SourceEntry: max is the newest record, 0 when none is known.             *)
Entry   == [size : 0..MaxDay, mtime : Day, max : 0..MaxDay, resolved : BOOLEAN]
Entries == [File -> Entry \cup {NoFile}]
Parses  == [File -> Transcript \cup {NoParse}]

(* The summary cache, the sources a summary or a fold opened, and a count   *)
(* on its way to the cache.                                                 *)
Summaries == [stamp : Stamp, entries : Entries, result : Result]
Works     == [of : {"summary", "fold"}, entries : Entries, walked : BOOLEAN,
              complete : BOOLEAN, scan : Parses]
Counts    == [stamp : Stamp, entries : Entries, complete : BOOLEAN, readable : BOOLEAN,
              result : Result, missed : SUBSET Day]

(* What stands for nothing is none of the things it may stand for.          *)
ASSUME NothingApart ==
  /\ NoFile # Gone /\ NoFile \notin Transcript \cup Entry /\ Gone \notin Transcript
  /\ NoHistory # Damaged /\ NoHistory \notin History /\ Damaged \notin History
  /\ NoParse \notin Transcript /\ NoIndex \notin Entries
  /\ NoSummary \notin Summaries /\ NoWork \notin Works \cup Counts

VARIABLES today, files,
          locked,    \* the transcripts that cannot be opened
          main, bak, \* usage-history.json and its previous version
          stamp,     \* the size and mtime of main
          index,     \* usage-source-index.json
          scan,      \* usage-scan-cache.json
          summary,   \* the entry of usage-summary-cache.json
          work,      \* the summary or the fold that holds the lock
          count,     \* the summary that counts with no lock held
          unread,    \* FoldChecks.unread_last_time
          passed,    \* the days a fold went past without reading them
          honest,    \* the last summary served from the cache was current
          faults

usageVars == <<today, files, locked, main, bak, stamp, index, scan, summary, work, count,
               unread, passed, honest, faults>>
clients == <<today, files, locked>>
history == <<main, bak, stamp>>
caches  == <<index, scan, summary>>
ghosts  == <<passed, honest>>

UsageTypeOK ==
  /\ today \in Day
  /\ files \in [File -> Transcript \cup {NoFile, Gone}] /\ locked \subseteq File
  /\ main \in History \cup {NoHistory, Damaged} /\ bak \in History \cup {NoHistory}
  /\ stamp \in Stamp /\ (stamp = 0 <=> main = NoHistory)
  /\ index \in Entries \cup {NoIndex}
  /\ scan \in Parses
  /\ summary \in Summaries \cup {NoSummary}
  /\ work \in Works \cup {NoWork}
  /\ count \in Counts \cup {NoWork}
  /\ unread \subseteq File /\ passed \subseteq Day /\ honest \in BOOLEAN
  /\ faults \in 0..MaxFaults

UsageInit ==
  /\ today = 1 /\ files = [f \in File |-> NoFile] /\ locked = {}
  /\ main = NoHistory /\ bak = NoHistory /\ stamp = 0
  /\ index = NoIndex /\ scan = [f \in File |-> NoParse] /\ summary = NoSummary
  /\ work = NoWork /\ count = NoWork /\ unread = {} /\ passed = {} /\ honest = TRUE
  /\ faults = 0

Present == {f \in File : files[f] \notin {NoFile, Gone}}
Written == UNION {files[f].records : f \in Present}

Room       == today + Cardinality(Written) + faults < MaxTogether
MoreFaults == faults < MaxFaults /\ Room
Fault      == MoreFaults /\ faults' = faults + 1
NoFault    == faults' = faults

-----------------------------------------------------------------------------
(* history.rs.  Watermark.                                                  *)
IsFolded(w, d) == d < w

HoldsOnlyFolded(w, mtime, max) == (max # 0 /\ IsFolded(w, max)) \/ mtime + Slack < w

(* load: the file, or the backup when the file is damaged.                  *)
Kept == CASE main = NoHistory -> EmptyHistory
          [] main = Damaged   -> bak
          [] OTHER            -> main

Watermark == IF Kept = NoHistory THEN 0 ELSE Kept.through

(* A size and mtime nothing remembers.                                      *)
NewStamp ==
  CHOOSE s \in Stamp \ {0, stamp} : (summary # NoSummary => s # summary.stamp)
                                  /\ (count # NoWork => s # count.stamp)

(* UsageHistory::fold, with the records a read found.                       *)
FoldedRows(h, records, cutoff) ==
  [d \in Day |-> IF d \in records /\ ~IsFolded(h.through, d) /\ d < cutoff
                   THEN Min({2, h.rows[d] + 1})
                   ELSE h.rows[d]]

(* fold_cutoff_ms.                                                          *)
Cutoff == IF today > FoldAfter THEN today - FoldAfter ELSE 0

-----------------------------------------------------------------------------
(* source_index.rs.  A walk finds the transcripts present; one that is not  *)
(* complete misses some.                                                    *)
Describes(e, t) == e # NoFile /\ e.size = Cardinality(t.records) /\ e.mtime = t.mtime

Newest(records) == IF records = {} THEN 0 ELSE Max(records)

(* inspect_changed_file: a transcript that holds only folded records, the   *)
(* parse in the scan cache, or a read that held still.                      *)
Inspected(f) ==
  LET t      == files[f]
      folded == HoldsOnlyFolded(Watermark, t.mtime, 0)
      cached == scan[f] = t
      read   == f \notin locked
  IN [entry |-> [size |-> Cardinality(t.records), mtime |-> t.mtime,
                 max |-> IF ~folded /\ (cached \/ read) THEN Newest(t.records) ELSE 0,
                 resolved |-> folded \/ cached \/ read],
      parse |-> IF ~folded /\ read THEN t ELSE scan[f]]

Indexed(f) == index # NoIndex /\ index[f] # NoFile

(* reconcile_inventory: an entry that describes its transcript stays, and   *)
(* an incomplete walk keeps the entries it missed.                          *)
Reconciled(f, found) ==
  CASE f \in found /\ Indexed(f) /\ index[f].resolved /\ Describes(index[f], files[f]) ->
         [entry |-> index[f], parse |-> scan[f]]
    [] f \in found /\ ~(Indexed(f) /\ index[f].resolved /\ Describes(index[f], files[f])) ->
         Inspected(f)
    [] f \notin found ->
         [entry |-> IF found # Present /\ Indexed(f) THEN index[f] ELSE NoFile, parse |-> scan[f]]

(* Sources::open, under the lock: the index is brought up to date; writing  *)
(* it may fail.  unchanged_snapshot is the case where nothing changed.      *)
Opened(of, found) ==
  LET r == [f \in File |-> Reconciled(f, found)]
      entries == [f \in File |-> r[f].entry]
  IN [of |-> of, entries |-> entries, walked |-> found = Present,
      complete |-> found = Present /\ \A f \in File : entries[f] # NoFile => entries[f].resolved,
      scan |-> [f \in File |-> r[f].parse]]

Openings(of) ==
       {[opened |-> Opened(of, Present), saved |-> TRUE, fault |-> 0]}
  \cup {[opened |-> Opened(of, Present), saved |-> FALSE, fault |-> 1]}
  \cup {[opened |-> Opened(of, found), saved |-> TRUE, fault |-> 1]
          : found \in SUBSET Present \ {Present}}

Opens(o) ==
  /\ o.fault = 0 \/ MoreFaults
  /\ faults' = faults + o.fault
  /\ index' = IF o.saved THEN o.opened.entries ELSE index

(* prune_and_save: the parses of deleted and of folded transcripts go.      *)
Pruned(parses, w) ==
  [f \in File |->
     IF \/ parses[f] = NoParse
        \/ work.walked /\ work.entries[f] = NoFile
        \/ HoldsOnlyFolded(w, parses[f].mtime, Newest(parses[f].records))
       THEN NoParse ELSE parses[f]]

(* prepare_sources: of each transcript that may hold a record from the      *)
(* watermark on, the cached parse, else what a read finds, else an older    *)
(* cached parse.                                                            *)
Due == {f \in File : /\ work.entries[f] # NoFile
                     /\ ~HoldsOnlyFolded(Watermark, work.entries[f].mtime, work.entries[f].max)}

Cached(f)   == work.scan[f] # NoParse /\ Describes(work.entries[f], work.scan[f])
Readable(f) == f \in Present \ locked
Stable(f)   == Readable(f) /\ Describes(work.entries[f], files[f])

Prepared(f) ==
  CASE ~Cached(f) /\ Readable(f) -> files[f].records
    [] work.scan[f] = NoParse /\ ~Readable(f) -> {}
    [] OTHER -> work.scan[f].records

Unread == {f \in Due : work.scan[f] = NoParse /\ ~Readable(f)}

ReadWhole == \A f \in Due : Cached(f) \/ Stable(f)

Parsed ==
  [f \in File |-> IF f \in Due /\ ~Cached(f) /\ Stable(f) THEN files[f] ELSE work.scan[f]]

(* richest_copies, and the watermark: a record of many transcripts is one,  *)
(* and one that was folded is none.                                         *)
LiveUnfiltered == UNION {Prepared(f) : f \in Due}

Live ==
  {d \in UNION {Prepared(f) : f \in Due} : ~IsFolded(Watermark, d)}

Counted(live) ==
  [d \in Day |-> (IF Kept = NoHistory THEN 0 ELSE Kept.rows[d]) + (IF d \in live THEN 1 ELSE 0)]

-----------------------------------------------------------------------------
(* UsageFiles::summary.  The sources are opened under the lock; unless it   *)
(* is forced, a summary counted from what they hold now is served.          *)
HitAnyHistory(opened) ==
  opened.complete /\ summary # NoSummary /\ summary.entries = opened.entries

Hit(opened) ==
  /\ opened.complete /\ summary # NoSummary
  /\ summary.stamp = stamp /\ summary.entries = opened.entries

(* What a count that reads every transcript would say.                      *)
Truth == Counted({d \in Written : ~IsFolded(Watermark, d)})

Summarise ==
  /\ work = NoWork /\ count = NoWork
  /\ \E o \in Openings("summary"), force \in BOOLEAN :
       /\ Opens(o)
       /\ IF ~force /\ Hit(o.opened)
            THEN honest' = (Kept = NoHistory \/ summary.result = Truth) /\ UNCHANGED work
            ELSE work' = o.opened /\ UNCHANGED honest
  /\ UNCHANGED <<clients, history, scan, summary, count, unread, passed>>

(* The records of the transcripts that are as they were when it opened.     *)
Owed == UNION {files[f].records : f \in {g \in Present : Describes(work.entries[g], files[g])}}

(* The records are read and the lock is dropped.                            *)
Read ==
  /\ work # NoWork /\ work.of = "summary"
  /\ count' = [stamp |-> stamp, entries |-> work.entries,
               complete |-> work.complete /\ ReadWhole, readable |-> Kept # NoHistory,
               result |-> Counted(Live),
               missed |-> {d \in Owed \ passed : Counted(Live)[d] = 0}]
  /\ scan' = Pruned(Parsed, Watermark) /\ work' = NoWork
  /\ UNCHANGED <<clients, history, index, summary, unread, ghosts, faults>>

(* is_current: nothing it was counted from has changed.                     *)
Current ==
  /\ count.complete /\ count.readable
  /\ index = count.entries /\ stamp = count.stamp
  /\ \A f \in File : IF f \in Present THEN Describes(count.entries[f], files[f])
                                      ELSE count.entries[f] = NoFile

Store ==
  /\ work = NoWork /\ count # NoWork
  /\ summary' = IF Current
                  THEN [stamp |-> count.stamp, entries |-> count.entries, result |-> count.result]
                  ELSE summary
  /\ count' = NoWork
  /\ UNCHANGED <<clients, history, index, scan, work, unread, ghosts, faults>>

-----------------------------------------------------------------------------
(* UsageFiles::fold, hourly in the background: due once a day.              *)
StartFold ==
  /\ work = NoWork
  /\ Kept # NoHistory /\ Cutoff > Watermark
  /\ \E o \in Openings("fold") : Opens(o) /\ work' = o.opened
  /\ UNCHANGED <<clients, history, scan, summary, count, unread, ghosts>>

(* FoldChecks::wait_for: a transcript that did not read holds the fold up   *)
(* the first time, and longer while it is new.                              *)
IsNew(f) == work.entries[f].mtime + FoldAfter >= Cutoff

WaitingForNew == \E f \in Unread : IsNew(f)
Waiting       == \E f \in Unread : IsNew(f) \/ f \notin unread

(* A fold that gave a transcript up, or has an older parse of one it cannot *)
(* open, goes past records it did not count.                                *)
GaveUp == \E f \in Due : ~Cached(f) /\ ~Readable(f) /\ (f \in Unread => f \in unread /\ ~IsNew(f))

Passed ==
  {d \in Written :
     GaveUp /\ d < Cutoff /\ ~IsFolded(Watermark, d) /\ d \notin Live}

(* HistoryStore::fold and save: the previous file is kept beside, unless it *)
(* is damaged; writing either may fail.                                     *)
Backup == IF main \in {NoHistory, Damaged} THEN bak ELSE main

FoldInto ==
  /\ main' = [through |-> Cutoff, rows |-> FoldedRows(Kept, Live, Cutoff)]
  /\ bak' = Backup /\ stamp' = NewStamp
  /\ passed' = passed \cup Passed
  /\ scan' = Pruned(Parsed, Cutoff)

FoldFails ==
  /\ bak' \in {bak, Backup} /\ UNCHANGED <<main, stamp, passed>>
  /\ scan' = Pruned(Parsed, Watermark)

NotFolded(parses) == scan' = Pruned(parses, Watermark) /\ UNCHANGED <<history, passed>>

Fold ==
  /\ work # NoWork /\ work.of = "fold"
  /\ \/ ~work.walked /\ NotFolded(work.scan) /\ NoFault /\ UNCHANGED unread
     \/ work.walked /\ Waiting /\ NotFolded(Parsed) /\ NoFault /\ unread' = Unread
     \/ work.walked /\ ~Waiting /\ unread' = Unread
          /\ ((FoldInto /\ NoFault) \/ (FoldFails /\ Fault))
  /\ work' = NoWork
  /\ UNCHANGED <<clients, index, summary, count, honest>>

(* UsageFiles::clear removes the copies, then the history; a removal that   *)
(* fails leaves the rest.                                                   *)
Clear ==
  /\ work = NoWork /\ main # NoHistory
  /\ bak' = NoHistory
  /\ \/ main' = NoHistory /\ stamp' = 0 /\ passed' = {}
     \/ UNCHANGED <<main, stamp, passed>>
  /\ Fault
  /\ UNCHANGED <<clients, caches, work, count, unread, honest>>

(* The history file is damaged from outside.                                *)
Damage ==
  /\ work = NoWork /\ main \notin {NoHistory, Damaged}
  /\ main' = Damaged /\ stamp' = NewStamp /\ Fault
  /\ UNCHANGED <<clients, bak, caches, work, count, unread, ghosts>>

(* The app dies: what the lock's holder parsed is lost.                     *)
Crash ==
  /\ work # NoWork \/ count # NoWork \/ unread # {}
  /\ work' = NoWork /\ count' = NoWork /\ unread' = {} /\ Fault
  /\ UNCHANGED <<clients, history, caches, ghosts>>

-----------------------------------------------------------------------------
(* The clients: a record a day, copies in a resumed session's transcript,   *)
(* and deletions; transcripts that cannot be opened for a while.            *)
Write ==
  /\ today \notin Written /\ Cardinality(Written) < MaxRecords /\ Room
  /\ \E f \in File :
       /\ files[f] # Gone
       /\ files' = [files EXCEPT ![f] = [records |-> {today} \cup IF @ = NoFile THEN {} ELSE @.records,
                                         mtime |-> today]]
  /\ UNCHANGED <<today, locked>>

Copy ==
  /\ \E f \in File, g \in Present :
       /\ f # g /\ files[f] = NoFile
       /\ files' = [files EXCEPT ![f] = [records |-> files[g].records, mtime |-> today]]
  /\ UNCHANGED <<today, locked>>

Delete ==
  /\ \E f \in Present : files' = [files EXCEPT ![f] = Gone] /\ locked' = locked \ {f}
  /\ UNCHANGED today

Unlock == \E f \in locked : locked' = locked \ {f} /\ UNCHANGED <<today, files>>

Tick == work = NoWork /\ today < MaxDay /\ Room /\ today' = today + 1 /\ UNCHANGED <<files, locked>>

Clients ==
  /\ Write \/ Copy \/ Delete \/ Unlock \/ Tick
  /\ UNCHANGED <<history, caches, work, count, unread, ghosts, faults>>

Lock ==
  /\ \E f \in Present \ locked : locked' = locked \cup {f}
  /\ Fault
  /\ UNCHANGED <<today, files, history, caches, work, count, unread, ghosts>>

UsageNext == \/ Summarise \/ Read \/ Store
             \/ StartFold \/ Fold \/ Clear \/ Damage \/ Crash
             \/ Clients \/ Lock

UsageSpec == UsageInit /\ [][UsageNext]_usageVars

-----------------------------------------------------------------------------
(* No record is counted twice, whatever copies, folds, restored backups and *)
(* rereads there are; and a count that is final misses no record of the     *)
(* transcripts but those a fold had to pass over.                           *)
CountedOnce ==
  count # NoWork =>
    /\ \A d \in Day : count.result[d] <= 1
    /\ count.complete /\ count.readable => count.missed = {}

(* A summary served from the cache is what a fresh count would say, whatever*)
(* was written, folded, restored or cleared since it was counted.  Not so   *)
(* when the history does not read: the cache knows the history by its file  *)
(* alone, so one that was counted from the backup of a damaged file is      *)
(* served still when a clear has removed the backup and not the file.       *)
ServedCurrent == honest
==============================================================================
