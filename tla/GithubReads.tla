----------------------------- MODULE GithubReads -----------------------------
(***************************************************************************)
(* github/mod.rs, merge.rs, contributions.rs, connection.rs, auth.rs and   *)
(* snapshot.rs: one read of the pull requests at a time searches GitHub,   *)
(* adds the pull requests found by the branches the viewer pushed, settles *)
(* what GitHub does not know of conflicts against what it last answered,   *)
(* and saves.  Requests fail, saves fail, the app dies, and between two    *)
(* requests GitHub moves on.                                               *)
(*                                                                         *)
(* One pull request of somebody else, on one branch the viewer pushed: the *)
(* search lists it while a review is asked for, the lookup once it is known*)
(* by its branch.  Its head is its revision.  Of a row only what is told of*)
(* conflicts is kept.  Left out: the scope (a pull request outside it is   *)
(* settled like one not verified yet), the memory of the last read that    *)
(* answers without asking, the older rows that a failed read shows, and the*)
(* pauses of the connection: a request may be refused at any time.         *)
(*                                                                         *)
(* A definition placed just before the one whose name it extends is that   *)
(* one with a mistake in it; nothing uses it.  It stands for the bug one of*)
(* the properties rules out: with it in place, that property fails.        *)
(***************************************************************************)
EXTENDS Naturals

CONSTANTS Viewer, NoViewer, NoRow, NoMemory, NoRecord,
          MaxMoves,   \* bound: heads of the pull request and pushes to the branch
          MaxMishaps, \* bound: logins, branches lost, failed saves
          MaxOverall  \* bound: all of those and the pushes that grow old

Head   == 1..(MaxMoves - 1)
Push   == 0..(MaxMoves - 1)   \* 0: none
Answer == {"clean", "conflicts", "unknown"}
Place  == {"search", "contributed"}

(* A row: the head it is of, what GitHub answered of its conflicts, whether *)
(* it shows conflicts, and whether it is the record's row of an older read. *)
Row == [head : Head, answer : Answer, conflicts : BOOLEAN, earlier : BOOLEAN]

NoRows == [p \in Place |-> NoRow]

(* KnownAnswers: one viewer and the last answer for each revision.          *)
KnownAnswers == [viewer : Viewer \cup {NoViewer}, answers : [Head -> Answer]]

NothingKnown == [h \in Head |-> "unknown"]

(* Store and Tracked: the contributions record.  The push a branch was      *)
(* remembered or dropped with stands for it.                                *)
Tracked == [verified : BOOLEAN, checked : Head \cup {0}, merged : BOOLEAN,
            head : Head, answer : Answer]

Store == [viewer : Viewer, newest : Push, branch : Push, dropped : Push,
          tracked : Tracked \cup {NoRow}]

ASSUME GithubReadsAssumption ==
  /\ NoViewer \notin Viewer /\ NoRow \notin Row \cup Tracked
  /\ NoMemory \notin KnownAnswers /\ NoRecord \notin Store
  /\ MaxMoves \in Nat \ {0, 1} /\ {MaxMishaps, MaxOverall} \subseteq Nat

NewStore(v) == [viewer |-> v, newest |-> 0, branch |-> 0, dropped |-> 0, tracked |-> NoRow]

VARIABLES pull,      \* the pull request at GitHub
          pushed,    \* the last push to its branch, and the last one too old to keep
          lost,      \* its repository is gone, or its branch is the default one
          login,     \* the login `gh` gives a token of
          reading,   \* the read under way, under READ_LOCK
          memory,    \* ReadMemoState.known_answers
          record,    \* contributions.json
          snapshot,  \* the known answers in prs.json, and whether the last read saved them
          mishaps,   \* events so far of the bounded ones
          shown,     \* the viewer of the last read shown, and its revisions with conflicts
          newest,    \* the last answers to a read for each revision
          atDrop     \* the push the branch was last dropped with

github == <<pull, pushed, lost, login>>
ghosts == <<shown, newest, atDrop>>
readsVars == <<pull, pushed, lost, login, reading, memory, record, snapshot,
               mishaps, shown, newest, atDrop>>

Idle == [at |-> "idle", viewer |-> NoViewer, rows |-> NoRows]

NothingRead == [h \in Head |-> {}]

NothingShown == [viewer |-> NoViewer, conflicts |-> {}]

ReadsTypeOK ==
  /\ pull \in [state : {"open", "merged", "closed"}, head : Head]
  /\ pushed \in [last : Push, old : Push] /\ pushed.old <= pushed.last
  /\ lost \in BOOLEAN /\ login \in Viewer
  /\ reading \in [at : {"idle", "searched", "gathered"}, viewer : Viewer \cup {NoViewer},
                  rows : [Place -> Row \cup {NoRow}]]
  /\ memory \in KnownAnswers \cup {NoMemory}
  /\ snapshot \in [known : KnownAnswers \cup {NoMemory}, current : BOOLEAN]
  /\ record \in Store \cup {NoRecord}
  /\ record # NoRecord => record.branch <= record.newest /\ record.dropped <= record.newest
  /\ mishaps \in 0..MaxMishaps
  /\ shown \in [viewer : Viewer \cup {NoViewer}, conflicts : SUBSET Head]
  /\ newest \in [Head -> SUBSET {"clean", "conflicts"}]
  /\ atDrop \in Push

ReadsInit ==
  /\ pull = [state |-> "open", head |-> 1]
  /\ pushed = [last |-> 1, old |-> 0] /\ lost = FALSE /\ login \in Viewer
  /\ reading = Idle /\ memory = NoMemory /\ record = NoRecord
  /\ snapshot = [known |-> NoMemory, current |-> TRUE]
  /\ mishaps = 0
  /\ shown = NothingShown
  /\ newest = NothingRead /\ atDrop = 0

MoreHappens == (pull.head - 1) + (pushed.last - 1) + pushed.old + mishaps < MaxOverall
Moved       == pull.head + pushed.last < MaxMoves /\ MoreHappens
Mishap      == mishaps < MaxMishaps /\ MoreHappens /\ mishaps' = mishaps + 1

-----------------------------------------------------------------------------
(* recall: with nothing saved yet, the conflicts of the record are known.   *)
Seeded ==
  [viewer  |-> IF record = NoRecord THEN NoViewer ELSE record.viewer,
   answers |-> [h \in Head |->
                  IF record # NoRecord /\ record.tracked # NoRow
                    THEN IF record.tracked.head = h /\ ~record.tracked.merged
                              /\ record.tracked.answer = "conflicts"
                         THEN "conflicts" ELSE "unknown"
                    ELSE "unknown"]]

(* read_prs_in and fetch: a read that is not held off recalls what is known *)
(* and searches; when the search fails the read ends.                       *)
Recalled ==
  CASE memory # NoMemory -> memory
    [] memory = NoMemory /\ snapshot.known # NoMemory -> snapshot.known
    [] memory = NoMemory /\ snapshot.known = NoMemory -> Seeded

Found(answer) == [head |-> pull.head, answer |-> answer, conflicts |-> FALSE, earlier |-> FALSE]

Search ==
  /\ reading.at = "idle"
  /\ memory' = Recalled
  /\ \/ \E v \in {login, NoViewer},
              row \in {NoRow} \cup (IF pull.state = "open" THEN {Found(a) : a \in Answer} ELSE {}) :
             reading' = [at |-> "searched", viewer |-> v, rows |-> [NoRows EXCEPT !["search"] = row]]
     \/ reading' = reading
  /\ UNCHANGED <<github, record, snapshot, mishaps, ghosts>>

-----------------------------------------------------------------------------
(* contributions.rs.  Store::remember: the pushes of the pages read, the    *)
(* last of them `to`; a push of the branch it dropped does not count.       *)
RememberedAgain(s, to) ==
  [s EXCEPT !.branch = IF to > @ THEN to ELSE @, !.newest = IF to > @ THEN to ELSE @]

Remembered(s, to) ==
  [s EXCEPT !.branch = IF to > s.dropped /\ to > @ THEN to ELSE @,
            !.newest = IF to > @ THEN to ELSE @]

(* Store::forget_old.                                                       *)
Kept(push) == IF push <= pushed.old THEN 0 ELSE push

Forgotten(s, mergedIsOld) ==
  [s EXCEPT !.branch = Kept(@), !.dropped = Kept(@),
            !.tracked = IF @ = NoRow \/ (@.merged /\ mergedIsOld)
                             \/ ~(@.verified \/ Kept(s.branch) # 0)
                          THEN NoRow ELSE @]

(* parse_lookup and Store::reconcile: what a lookup may make of the record, *)
(* and whether it read the tracked pull request.                            *)
Dropped(s) == IF s.branch # 0 /\ lost
                THEN [s EXCEPT !.branch = 0,
                               !.dropped = IF s.branch > @ THEN s.branch ELSE @]
                ELSE s

LookedUp(s) ==
  LET d == Dropped(s)
      read(t, a) == [tracked |-> [t EXCEPT !.head = pull.head, !.merged = pull.state = "merged",
                                           !.answer = IF pull.state = "merged" THEN "unknown" ELSE a],
                     read |-> TRUE]
      new == [verified |-> FALSE, checked |-> 0, merged |-> FALSE, head |-> pull.head,
              answer |-> "unknown"]
      results == IF s.tracked # NoRow
                   THEN IF pull.state = "closed" THEN {[tracked |-> NoRow, read |-> FALSE]}
                        ELSE {read(s.tracked, a) : a \in Answer}
                             \cup {[tracked |-> s.tracked, read |-> FALSE]}
                 ELSE IF d.branch # 0 /\ pull.state = "open"
                   THEN {read(new, a) : a \in Answer}
                 ELSE {[tracked |-> NoRow, read |-> FALSE]}
  IN {[store |-> [d EXCEPT !.tracked = r.tracked], read |-> r.read] : r \in results}

(* verify: a head not checked yet is checked for a commit of the viewer.    *)
Verified(s) ==
  {s} \cup
  IF s.tracked = NoRow \/ s.tracked.verified \/ s.tracked.head = s.tracked.checked THEN {}
  ELSE {[s EXCEPT !.tracked = [@ EXCEPT !.verified = wrote,
                                        !.checked = IF wrote THEN 0 ELSE s.tracked.head]] :
          wrote \in BOOLEAN}

Loaded(v) == IF record # NoRecord /\ record.viewer = v THEN record ELSE NewStore(v)

(* refresh: the events when they are due, the lookup, the check.  A read    *)
(* that is held off only forgets, like one whose requests fail.             *)
Looked(s) ==
  {[store |-> s, read |-> FALSE]} \cup
  IF s.branch = 0 /\ s.tracked = NoRow THEN {}
  ELSE UNION {{[store |-> v, read |-> l.read] : v \in Verified(l.store)} : l \in LookedUp(s)}

Refreshed(v, mergedIsOld) ==
  UNION {Looked(Forgotten(s, mergedIsOld)) : s \in {Loaded(v), Remembered(Loaded(v), pushed.last)}}

(* Store::shown: the row of a tracked pull request that is not merged.      *)
Contributed(s, read) ==
  IF s.tracked = NoRow \/ s.tracked.merged THEN NoRow
  ELSE [head |-> s.tracked.head, answer |-> s.tracked.answer, conflicts |-> FALSE,
        earlier |-> ~read]

(* contributions::read, which saves the record when it changed.             *)
Gather ==
  /\ reading.at = "searched"
  /\ IF reading.viewer = NoViewer
       THEN reading' = [reading EXCEPT !.at = "gathered"]
            /\ UNCHANGED <<record, mishaps, atDrop>>
       ELSE \E mergedIsOld \in BOOLEAN : \E r \in Refreshed(reading.viewer, mergedIsOld) :
              LET before == Loaded(reading.viewer)
              IN /\ reading' = [reading EXCEPT
                                  !.at = "gathered",
                                  !.rows = [@ EXCEPT !["contributed"] = Contributed(r.store, r.read)]]
                 /\ \/ /\ record' = IF r.store = before THEN record ELSE r.store
                       /\ atDrop' = IF r.store = before THEN atDrop
                                    ELSE IF r.store.dropped > before.dropped THEN r.store.dropped
                                    ELSE IF record # before THEN 0 ELSE atDrop
                       /\ mishaps' = mishaps
                    \/ /\ r.store # before /\ Mishap
                       /\ UNCHANGED <<record, atDrop>>
  /\ UNCHANGED <<github, memory, snapshot, shown, newest>>

-----------------------------------------------------------------------------
(* merge.rs.  fresh_answer.                                                 *)
Fresh(row) == row # NoRow /\ ~row.earlier /\ row.answer # "unknown"

Of(row, h) == row # NoRow /\ row.head = h

(* The answers kept for this viewer.                                        *)
Last == IF reading.viewer # NoViewer /\ memory.viewer = reading.viewer
          THEN memory.answers ELSE NothingKnown

(* this_reads_answers: what this read answered for a revision; for a row of *)
(* an earlier read the last answer kept, or its own.                        *)
AnsweredOwn(h) ==
  LET row(p) == reading.rows[p]
      fresh  == {p \in Place : Of(row(p), h) /\ Fresh(row(p))}
      old    == row("contributed")
  IN IF fresh # {} THEN row(CHOOSE p \in fresh : TRUE).answer
     ELSE IF ~Of(old, h) \/ ~old.earlier THEN "unknown"
     ELSE IF old.answer # "unknown" THEN old.answer ELSE Last[h]

Answered(h) ==
  LET row(p) == reading.rows[p]
      fresh  == {p \in Place : Of(row(p), h) /\ Fresh(row(p))}
      old    == row("contributed")
  IN IF fresh # {} THEN row(CHOOSE p \in fresh : TRUE).answer
     ELSE IF ~Of(old, h) \/ ~old.earlier THEN "unknown"
     ELSE IF Last[h] # "unknown" THEN Last[h] ELSE old.answer

(* KnownAnswers::settle: a row GitHub answered keeps its answer, any other  *)
(* takes its revision's; failing that a conflict last known is carried.     *)
Settled(row) ==
  IF row = NoRow THEN NoRow
  ELSE LET given == IF Fresh(row) \/ Answered(row.head) = "unknown" THEN row.answer
                    ELSE Answered(row.head)
           carried == given = "unknown" /\ Last[row.head] = "conflicts"
       IN [row EXCEPT !.earlier = FALSE, !.answer = given,
                       !.conflicts = given = "conflicts" \/ carried]

SettledRows == [p \in Place |-> Settled(reading.rows[p])]

(* remember: a conflict wins over an answer without one, and one that is    *)
(* carried stays.                                                           *)
KeptAnswered(h) ==
  LET rows == {SettledRows[p] : p \in {x \in Place : Of(SettledRows[x], h)}}
  IN IF \E r \in rows : r.answer = "conflicts" THEN "conflicts"
     ELSE IF \E r \in rows : r.answer = "clean" THEN "clean" ELSE "unknown"

KeptAnswer(h) ==
  LET rows == {SettledRows[p] : p \in {x \in Place : Of(SettledRows[x], h)}}
  IN IF \E r \in rows : r.conflicts THEN "conflicts"
     ELSE IF \E r \in rows : r.answer = "clean" THEN "clean" ELSE "unknown"

KeptAnswers ==
  [viewer |-> reading.viewer,
   answers |-> IF reading.viewer = NoViewer THEN NothingKnown
               ELSE [h \in Head |-> KeptAnswer(h)]]

(* What this read answered is the newest answer; a revision that shows none *)
(* is forgotten, and so is what was answered to another viewer.             *)
NewestAfter(h) ==
  LET rows  == {p \in Place : Of(reading.rows[p], h)}
      fresh == {p \in rows : Fresh(reading.rows[p])}
      known == IF memory.viewer = reading.viewer THEN newest[h] ELSE {}
  IN IF reading.viewer = NoViewer THEN {}
     ELSE IF fresh # {} THEN {reading.rows[p].answer : p \in fresh}
     ELSE IF \E p \in rows : SettledRows[p].answer # "unknown" \/ SettledRows[p].conflicts
       THEN known ELSE {}

(* The rows are settled, saved with what is known, and kept in memory.      *)
Settle ==
  /\ reading.at = "gathered"
  /\ memory' = KeptAnswers
  /\ \/ snapshot' = [known |-> KeptAnswers, current |-> TRUE] /\ mishaps' = mishaps
     \/ Mishap /\ snapshot' = [snapshot EXCEPT !.current = FALSE]
  /\ shown' = [viewer |-> reading.viewer,
               conflicts |-> {h \in Head : \E p \in Place : Of(SettledRows[p], h)
                                                         /\ SettledRows[p].conflicts}]
  /\ newest' = [h \in Head |-> NewestAfter(h)]
  /\ reading' = Idle
  /\ UNCHANGED <<github, record, atDrop>>

-----------------------------------------------------------------------------
(* GitHub: the pull request moves, the viewer pushes, pushes grow old.  What*)
(* happens after a read's last request is as if it happened after the read. *)
Asking == reading.at # "gathered"

Moves ==
  /\ Asking
  /\ \/ Moved /\ pull.state = "open" /\ pull' = [pull EXCEPT !.head = @ + 1]
     \/ pull.state = "open" /\ pull' \in {[pull EXCEPT !.state = s] : s \in {"merged", "closed"}}
  /\ UNCHANGED <<pushed, lost, login, reading, memory, record, snapshot, mishaps,
                 ghosts>>

Pushed ==
  /\ Asking
  /\ \/ Moved /\ pushed' = [pushed EXCEPT !.last = @ + 1]
     \/ pushed.old < pushed.last /\ MoreHappens /\ pushed' = [pushed EXCEPT !.old = @ + 1]
  /\ UNCHANGED <<pull, lost, login, reading, memory, record, snapshot, mishaps,
                 ghosts>>

Lost ==
  /\ Asking /\ Mishap /\ lost' = ~lost
  /\ UNCHANGED <<pull, pushed, login, reading, memory, record, snapshot, ghosts>>

Login ==
  /\ Asking /\ Mishap /\ login' \in Viewer \ {login}
  /\ UNCHANGED <<pull, pushed, lost, reading, memory, record, snapshot, ghosts>>

(* The app dies: what only memory kept is gone.                             *)
Crash ==
  /\ reading' = Idle /\ memory' = NoMemory
  /\ IF snapshot.current THEN UNCHANGED <<shown, newest>>
     ELSE shown' = NothingShown /\ newest' = NothingRead
  /\ UNCHANGED <<github, record, snapshot, mishaps, atDrop>>

ReadsNext == \/ Search \/ Gather \/ Settle
             \/ Moves \/ Pushed \/ Lost \/ Login \/ Crash

ReadsSpec == ReadsInit /\ [][ReadsNext]_readsVars

-----------------------------------------------------------------------------
(* A conflict shown for a revision stays shown, across restarts and reads   *)
(* that fail, until GitHub answers for that revision or the viewer changes. *)
ConflictKept ==
  [][\A h \in shown.conflicts :
       reading.at = "gathered" /\ reading'.at = "idle" /\ memory' # NoMemory
         /\ shown.viewer = reading.viewer /\ reading.viewer # NoViewer
         /\ (\A p \in Place : Of(reading.rows[p], h) => ~Fresh(reading.rows[p]))
         /\ (\E p \in Place : Of(reading.rows[p], h))
       => h \in shown'.conflicts]_readsVars

(* No row shows an older answer than the newest settled for its revision,   *)
(* whatever the record of an earlier read still says.                       *)
NoOlderAnswer ==
  [][\A p \in Place :
       reading.at = "gathered" /\ reading'.at = "idle" /\ memory' # NoMemory =>
         LET row == SettledRows[p]
         IN row # NoRow /\ row.answer # "unknown" /\ newest'[row.head] # {}
              => row.answer \in newest'[row.head]]_readsVars

(* A branch dropped because its repository is gone or it is the default     *)
(* branch comes back only with a newer push, however often the same page of *)
(* events is read.                                                          *)
BranchStaysDropped ==
  record # NoRecord /\ record.branch # 0 => record.branch > atDrop
==============================================================================
