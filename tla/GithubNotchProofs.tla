--------------------------- MODULE GithubNotchProofs ---------------------------
(***************************************************************************)
(* Theorems about NotchHost, GithubMonitor and GithubReads, for any bounds:*)
(* that a notch at rest shows what is newest, that no change at GitHub is  *)
(* told of twice, and what a read of the pull requests may not forget.     *)
(***************************************************************************)
EXTENDS GithubNotchMC, TLAPS

-----------------------------------------------------------------------------
(* The notch host.  Settings are told apart by their revision: any that are *)
(* around are config's, or older.                                           *)
OfConfig(s) == s.revision <= config.revision /\ (s.revision = config.revision => s = config)

(* The settings saved last are drawn or still on their way.                 *)
SettingsArrive ==
  /\ OfConfig(drawn)
  /\ saved # NoSettings => OfConfig(saved)
  /\ desired # NoSettings => OfConfig(desired)
  /\ config \in {drawn} \cup ({saved, desired} \ {NoSettings})

(* A value is of the revision its poll was read at, the frame sent last     *)
(* shows what is drawn unless the step still has to send it, and a failure  *)
(* is reported only until a frame is confirmed.                             *)
FrameShown ==
  /\ poll.value # 0 => poll.value = poll.readAt + 1
  /\ link = "none" \/ dirty \/ frame = Rail
  /\ runtimeError => link = "none" \/ dirty \/ awaiting # "nothing"
  /\ at = "desire" /\ link # "none" /\ drawn.revision = config.revision => emitted = Status

NotchInv == NotchTypeOK /\ SettingsArrive /\ FrameShown

LEMMA NotchInvInit == NotchInit => NotchInv
<1> SUFFICES ASSUME NotchInit PROVE NotchInv
  OBVIOUS
<1> USE NotchAssumption DEF NotchInit
<1>1. config \in Snapshot /\ drawn = config
  BY DEF Snapshot
<1>2. NotchTypeOK
  <2>1. /\ latest \in Revision /\ failed \in 0..MaxLost
        /\ poll \in [value : Value, readAt : Revision, reading : {"no", "yes", "overdue"}]
    BY DEF Revision, Value
  <2>2. idle \in Nat /\ asked \in Nat /\ answers \in [Revision -> Nat]
    OBVIOUS
  <2> QED BY <1>1, <2>1, <2>2 DEF NotchTypeOK
<1>3. SettingsArrive
  BY <1>1 DEF SettingsArrive, OfConfig, Snapshot
<1>4. FrameShown
  BY DEF FrameShown
<1> QED BY <1>2, <1>3, <1>4 DEF NotchInv

(* The parts of a step of the host, and what the others do between them.    *)
LEMMA NotchTypes ==
  ASSUME NotchTypeOK, [NotchNext]_notchVars
  PROVE  NotchTypeOK'
<1> USE NotchAssumption DEF NotchTypeOK
<1>0. /\ Fails \/ Succeeds => failed' \in 0..MaxLost
      /\ \A n \in Revision : n < MaxReplaced => n + 1 \in Revision
      /\ Revision \subseteq Nat
  BY DEF Revision, Fails, Succeeds
<1>1. CASE Desire
  <2>1. drawn' \in Snapshot /\ waiting' \in BOOLEAN /\ dirty' \in BOOLEAN
    BY <1>1 DEF Desire
  <2> QED BY <1>1, <2>1 DEF Desire, polled, reads
<1>2. CASE Collect
  <2> PICK r \in Revision :
             /\ answers[r] > 0
             /\ answers' = [answers EXCEPT ![r] = @ - 1] /\ idle' = idle + 1
             /\ poll' = Finished(r)
             /\ dirty' = (dirty \/ Finished(r).value # poll.value)
    BY <1>2 DEF Collect
  <2>1. Finished(r) \in [value : Value, readAt : Revision, reading : {"no", "yes", "overdue"}]
    BY DEF Finished, Revision, Value
  <2>2. answers' \in [Revision -> Nat] /\ idle' \in Nat /\ dirty' \in BOOLEAN
    OBVIOUS
  <2> QED BY <1>2, <2>1, <2>2 DEF Collect, screen, pipe
<1>3. CASE Connect
  <2> USE <1>3 DEF Connect, Close, Wait, CannotStart, Starts, Connected, Hangup, pipe
  <2>1. link' \in {"none", "open", "dead"} /\ waiting' \in BOOLEAN
    OBVIOUS
  <2>2. frame' \in Frame \cup {NoFrame} /\ awaiting' \in {"nothing", "frame", "overdue", "ack"}
    OBVIOUS
  <2>3. dirty' \in BOOLEAN /\ runtimeError' \in BOOLEAN /\ failed' \in 0..MaxLost
    BY <1>0
  <2>4. at' \in {"desire", "collect", "exchange", "start", "publish"}
    OBVIOUS
  <2> QED BY ONLY NotchTypeOK, <1>3, <2>1, <2>2, <2>3, <2>4
    DEF Connect, NotchTypeOK, polled, reads, screen
<1>4. CASE Receive
  <2> USE <1>4 DEF Receive, Confirmed, OpenPage, SetShow, ScreensChanged
  <2>1. ASSUME MoreSaves,
               config' = [revision |-> config.revision + 1, enabled |-> drawn.enabled]
        PROVE  config' \in Snapshot
    <3>1. config.revision \in Nat /\ config.revision < MaxSaves /\ drawn.enabled \in BOOLEAN
      BY <2>1 DEF MoreSaves, Snapshot
    <3> QED BY <2>1, <3>1 DEF Snapshot
  <2>2. config' \in Snapshot /\ drawn' \in Snapshot
    BY <2>1
  <2>3. awaiting' \in {"nothing", "frame", "overdue", "ack"} /\ failed' \in 0..MaxLost
    BY <1>0
  <2>4. dirty' \in BOOLEAN /\ runtimeError' \in BOOLEAN
    OBVIOUS
  <2> QED BY ONLY NotchTypeOK, <1>4, <2>2, <2>3, <2>4 DEF NotchTypeOK, Receive, polled, reads
<1>5. CASE Deliver
  <2>1. Rail \in Frame
    <3>1. drawn.revision \in 0..MaxSaves /\ poll.value \in Value
      BY DEF Snapshot
    <3> QED BY <3>1 DEF Rail, Frame
  <2> USE <1>5 DEF Deliver, GiveUp, Send, Hold, Failed, Hangup, pipe
  <2>2. link' \in {"none", "open", "dead"} /\ waiting' \in BOOLEAN
    OBVIOUS
  <2>3. frame' \in Frame \cup {NoFrame} /\ awaiting' \in {"nothing", "frame", "overdue", "ack"}
    BY <2>1
  <2>4. dirty' \in BOOLEAN /\ runtimeError' \in BOOLEAN /\ failed' \in 0..MaxLost
    BY <1>0
  <2>5. at' \in {"desire", "collect", "exchange", "start", "publish"}
    OBVIOUS
  <2> QED BY ONLY NotchTypeOK, <1>5, <2>2, <2>3, <2>4, <2>5
    DEF Deliver, NotchTypeOK, polled, reads, screen
<1>6. CASE Start
  <2>1. poll' \in [value : Value, readAt : Revision, reading : {"no", "yes", "overdue"}]
    BY <1>6 DEF Start
  <2>2. idle' \in Nat /\ asked' \in Nat
    BY <1>6 DEF Start
  <2> QED BY <1>6, <2>1, <2>2 DEF Start, screen, pipe
<1>7. CASE Publish
  BY <1>7 DEF Publish, Status, Snapshot, polled, reads, screen, pipe
<1>8. CASE Screen
  <2>1. config' \in Snapshot /\ saved' \in Snapshot \cup {NoSettings}
    BY <1>8 DEF Screen, Save, Sync, MoreSaves, Snapshot
  <2> QED BY <1>8, <2>1 DEF Screen, Save, Sync, polled, reads, pipe
<1>9. CASE Readers
  <2>1. latest' \in Revision
    BY <1>0, <1>9 DEF Readers, Replaced, Answers
  <2>2. asked' \in Nat /\ answers' \in [Revision -> Nat]
    BY <1>9 DEF Readers, Replaced, Answers
  <2> QED BY <1>9, <2>1, <2>2 DEF Readers, screen, pipe
<1>10. CASE Time
  <2> DEFINE late == [poll EXCEPT !.reading = "overdue"]
  <2>0. late \in [value : Value, readAt : Revision, reading : {"no", "yes", "overdue"}]
    OBVIOUS
  <2>1. (poll' = late \/ poll' = poll) /\ (waiting' = waiting \/ waiting' = FALSE)
    BY ONLY <1>10 DEF Time, Overdue, Retry
  <2> HIDE DEF late
  <2>2. UNCHANGED <<latest, reads, screen, drawn, dirty, runtimeError, emitted, link, frame,
                    awaiting, at, failed>>
    BY ONLY <1>10 DEF Time
  <2>3. poll' \in [value : Value, readAt : Revision, reading : {"no", "yes", "overdue"}]
        /\ waiting' \in BOOLEAN
    BY ONLY NotchTypeOK, <2>0, <2>1 DEF NotchTypeOK
  <2> QED BY ONLY NotchTypeOK, <2>2, <2>3 DEF NotchTypeOK, reads, screen
<1>11. CASE Helper
  BY <1>0, <1>11 DEF Helper, polled, reads, screen
<1>12. CASE UNCHANGED notchVars
  BY <1>12 DEF notchVars
<1> QED
  BY <1>1, <1>2, <1>3, <1>4, <1>5, <1>6, <1>7, <1>8, <1>9, <1>10, <1>11, <1>12
  DEF NotchNext, HostStep

(* Settings are saved with a newer revision, and taken over only if none    *)
(* were saved since.                                                        *)
LEMMA SettingsKeepArriving ==
  ASSUME NotchInv, [NotchNext]_notchVars
  PROVE  SettingsArrive'
<1> USE NotchAssumption DEF NotchInv, NotchTypeOK, SettingsArrive, OfConfig
<1>0. drawn \in Snapshot /\ config \in Snapshot
  OBVIOUS
<1>1. CASE Desire
  BY <1>1 DEF Desire, Snapshot
<1>2. CASE Receive
  <2>1. CASE /\ MoreSaves /\ drawn' = config' /\ UNCHANGED <<saved, desired>>
             /\ config' = [revision |-> config.revision + 1, enabled |-> drawn.enabled]
    BY <1>0, <2>1 DEF Snapshot
  <2>2. CASE UNCHANGED config /\ drawn' \in {drawn, config} /\ UNCHANGED <<saved, desired>>
    BY <1>0, <2>2 DEF Snapshot
  <2> QED BY <1>2, <2>1, <2>2 DEF Receive, Confirmed, OpenPage, SetShow, ScreensChanged
<1>3. CASE Screen
  <2>1. CASE Save
    <3>1. /\ config' = saved' /\ config'.revision = config.revision + 1 /\ config' \in Snapshot
          /\ UNCHANGED <<drawn, desired>>
      BY <1>0, <1>3, <2>1 DEF Screen, Save, MoreSaves, Snapshot
    <3> QED BY <1>0, <3>1 DEF Snapshot
  <2>2. CASE Sync
    BY <1>0, <1>3, <2>2 DEF Screen, Sync, Snapshot
  <2> QED BY <1>3, <2>1, <2>2 DEF Screen
<1>4. CASE UNCHANGED <<config, saved, desired, drawn>>
  BY <1>4
<1>5. CASE Collect \/ Connect \/ Deliver \/ Start \/ Publish \/ Readers \/ Time \/ Helper
  BY <1>4, <1>5 DEF Collect, Connect, Deliver, Start, Publish, Readers, Time, Helper, screen
<1> QED BY <1>1, <1>2, <1>3, <1>4, <1>5 DEF NotchNext, HostStep, notchVars

LEMMA FrameStaysShown ==
  ASSUME NotchInv, [NotchNext]_notchVars
  PROVE  FrameShown'
<1> USE NotchAssumption DEF NotchInv, FrameShown, Rail, Status
<1>0. /\ drawn \in Snapshot /\ config \in Snapshot /\ SettingsArrive
      /\ poll \in [value : Value, readAt : Revision, reading : {"no", "yes", "overdue"}]
  BY DEF NotchTypeOK
<1>1. CASE Desire
  BY <1>1 DEF Desire, polled, reads
<1>2. CASE Collect
  <2> PICK r \in Revision : /\ poll' = Finished(r)
                            /\ dirty' = (dirty \/ Finished(r).value # poll.value)
    BY <1>2 DEF Collect
  <2>1. poll'.value = r + 1 /\ poll'.readAt = r
    BY DEF Finished
  <2>2. dirty' \/ (poll'.value = poll.value /\ ~dirty)
    BY <2>1
  <2>3. UNCHANGED <<drawn, config, frame, link, runtimeError, awaiting, at>> /\ at = "collect"
    BY <1>2 DEF Collect, screen, pipe
  <2> QED BY <2>1, <2>2, <2>3
<1>3. CASE Connect
  BY <1>3 DEF Connect, Close, Wait, CannotStart, Starts, Connected, Hangup, Succeeds, polled, reads,
    screen, pipe
<1>4. CASE Receive
  BY <1>4 DEF Receive, Confirmed, OpenPage, SetShow, ScreensChanged, polled, reads
<1>5. CASE Deliver
  BY <1>5 DEF Deliver, GiveUp, Send, Hold, Failed, Hangup, polled, reads, screen, pipe
<1>6. CASE Start
  <2>1. poll'.value = poll.value /\ poll'.readAt = poll.readAt
    BY <1>0, <1>6 DEF Start
  <2> QED BY <1>6, <2>1 DEF Start, screen, pipe
<1>7. CASE Publish
  BY <1>7 DEF Publish, polled, reads, screen, pipe
<1>8. CASE Screen
  <2>1. CASE Save
    <3>1. drawn'.revision # config'.revision
      BY <1>0, <1>8, <2>1 DEF Screen, Save, SettingsArrive, OfConfig, Snapshot
    <3> QED BY <1>8, <2>1, <3>1 DEF Screen, Save, polled, reads, pipe
  <2>2. CASE Sync
    BY <1>8, <2>2 DEF Screen, Sync, polled, reads, pipe
  <2> QED BY <1>8, <2>1, <2>2 DEF Screen
<1>9. CASE Readers
  BY <1>9 DEF Readers, screen, pipe
<1>10. CASE Time
  <2>1. poll'.value = poll.value /\ poll'.readAt = poll.readAt
    BY <1>0, <1>10 DEF Time, Overdue, Retry
  <2> QED BY <1>10, <2>1 DEF Time, reads, screen
<1>11. CASE Helper
  BY <1>11 DEF Helper, polled, reads, screen
<1>12. CASE UNCHANGED notchVars
  BY <1>12 DEF notchVars
<1> QED
  BY <1>1, <1>2, <1>3, <1>4, <1>5, <1>6, <1>7, <1>8, <1>9, <1>10, <1>11, <1>12
  DEF NotchNext, HostStep

LEMMA NotchInvHolds == NotchSpec => []NotchInv
<1>1. NotchInv /\ [NotchNext]_notchVars => NotchInv'
  BY NotchTypes, SettingsKeepArriving, FrameStaysShown DEF NotchInv
<1> QED BY NotchInvInit, <1>1, PTL DEF NotchSpec

(* The notch's state has its types throughout.                              *)
THEOREM NotchTyped == NotchSpec => []NotchTypeOK
<1>1. NotchInv => NotchTypeOK
  BY DEF NotchInv
<1> QED BY NotchInvHolds, <1>1, PTL

(* A notch with nothing left to do shows the newest reading and the settings*)
(* saved last, and the screen was told so: host.rs's step, whatever answered*)
(* late, was saved twice or was lost with a helper.                         *)
THEOREM RestingNotchShown == NotchSpec => []QuietShown
<1>1. ASSUME NotchInv, Quiet PROVE /\ frame = [value |-> latest + 1, revision |-> config.revision]
                                   /\ drawn = config /\ ~runtimeError
                                   /\ emitted = [revision |-> config.revision, error |-> FALSE]
  <2> USE <1>1 DEF NotchInv
  <2>1. drawn = config
    BY DEF Quiet, SettingsArrive
  <2>2. poll.value = latest + 1
    BY DEF Quiet, FrameShown, ReadDue, Free
  <2>3. runtimeError = FALSE
    BY DEF Quiet, FrameShown, NotchTypeOK
  <2> QED BY <2>1, <2>2, <2>3 DEF Quiet, FrameShown, Rail, Status
<1>2. NotchInv => QuietShown
  BY <1>1 DEF QuietShown
<1> QED BY NotchInvHolds, <1>2, PTL

-----------------------------------------------------------------------------
(* The monitor of pull requests.  The value a fact has once a kind is told  *)
(* of it, and what a pull request last seen may say of it from then on: the *)
(* transition to it cannot be seen a second time.                           *)
ValueOf(kind) ==
  CASE kind = "CiFailed" -> "failure"
    [] kind \in {"CiPassed", "CiGreenAgain"} -> "success"
    [] kind = "Approved" -> "approved"
    [] kind = "ChangesRequested" -> "changes"
    [] kind = "Conflicts" -> "yes"
    [] kind = "ConflictsResolved" -> "no"
    [] kind = "ReadyToMerge" -> "yes"

Noticed(s, kind) == s # NoSeen => s[FactOf(kind)] \in {ValueOf(kind), "unknown"}

Changed == Kind \ {"Merged"}
Merging == [kind |-> "Merged", change |-> 0]
Everything == events \cup told

(* No event is of a later change than the fact's; one of the fact's present *)
(* value, or of the value the reply has, was noticed when it was told.      *)
NoticedSince(e, f) ==
  /\ e.change <= since[f]
  /\ e.change = since[f] =>
       facts[f] = ValueOf(e.kind) /\ Noticed(seen, e.kind) /\ Noticed(disk.seen, e.kind)

NoticedInReply(e, f) ==
  /\ e.change <= reply.since[f]
  /\ e.change = reply.since[f] =>
       Noticed(reply.mine, e.kind) /\ Noticed(seen, e.kind) /\ Noticed(disk.seen, e.kind)

ChangesNoticed ==
  \A e \in Everything : e.kind \in Changed =>
    /\ NoticedSince(e, FactOf(e.kind))
    /\ reply # NoReply => NoticedInReply(e, FactOf(e.kind))

(* A reply has the facts of its time, which GitHub may have changed since.  *)
ReplyOfFacts ==
  reply # NoReply =>
    /\ events = {}
    /\ \A f \in Fact :
         /\ reply.since[f] <= since[f]
         /\ reply.since[f] = since[f] /\ reply.mine # NoSeen =>
              reply.mine[f] \in {facts[f], "unknown"}
    /\ reply.merged => facts.state = "merged" /\ reply.mine = NoSeen

(* A merge is told of once: nothing is seen, watched or saved of it after.  *)
MergeIsLast ==
  \A e \in Everything : e.kind = "Merged" =>
    /\ facts.state = "merged" /\ seen = NoSeen /\ ~vanished /\ disk = NothingSaved
    /\ reply # NoReply => reply.mine = NoSeen

MonitorTypes ==
  /\ MonitorTypeOK
  /\ \A f \in Fact : since[f] <= changes
  /\ disk.seen # NoSeen => ~disk.vanished
  /\ \A e \in Everything : e.kind = "Merged" => e = Merging

MonitorInv == MonitorTypes /\ ReplyOfFacts /\ ChangesNoticed /\ MergeIsLast /\ ToldOnce

LEMMA MonitorInvInit == MonitorInit => MonitorInv
<1> SUFFICES ASSUME MonitorInit PROVE MonitorInv
  OBVIOUS
<1> USE GithubMonitorAssumption DEF MonitorInit
<1>1. MonitorTypes
  <2>1. facts \in Facts /\ since \in [Fact -> 0..MaxChanges] /\ \A f \in Fact : since[f] <= changes
    BY DEF Facts, Ci, Review
  <2>2. disk \in [seen : Seen \cup {NoSeen}, vanished : BOOLEAN]
    BY DEF NothingSaved
  <2>3. changes \in 0..MaxChanges /\ faults \in 0..MaxFaults
    OBVIOUS
  <2> QED BY <2>1, <2>2, <2>3 DEF MonitorTypes, MonitorTypeOK, NothingSaved, Everything
<1>2. ReplyOfFacts /\ ChangesNoticed /\ MergeIsLast /\ ToldOnce
  BY DEF ReplyOfFacts, ChangesNoticed, MergeIsLast, ToldOnce, Everything
<1> QED BY <1>1, <1>2 DEF MonitorInv

(* A kind that is a change is of a fact, and gives it a value of its own.   *)
LEMMA KindsAreOfFacts ==
  \A k \in Changed : FactOf(k) \in Fact /\ ValueOf(k) # "unknown"
BY DEF Changed, Kind, FactOf, ValueOf, Fact

(* Only a value that was seen to be another and is now its own is told.     *)
LEMMA TransitionsMeet ==
  ASSUME NEW before \in Seen, NEW after \in Seen, NEW k \in Transitions(before, after)
  PROVE  /\ k \in Changed
         /\ after[FactOf(k)] = ValueOf(k)
         /\ before[FactOf(k)] \notin {ValueOf(k), "unknown"}
<1>1. k \in Changed
  BY DEF Transitions, CiTransition, Changed, Kind
<1>2. /\ k = "CiFailed" => after.ci = "failure" /\ before.ci # "failure"
      /\ k = "CiPassed" => after.ci = "success" /\ before.ci = "pending"
      /\ k = "CiGreenAgain" => after.ci = "success" /\ before.ci = "failure"
  BY DEF Transitions, CiTransition
<1>3. /\ k = "Approved" => after.review = "approved" /\ before.review # "approved"
      /\ k = "ChangesRequested" => after.review = "changes" /\ before.review # "changes"
  BY DEF Transitions, CiTransition
<1>4. /\ k = "Conflicts" => after.conflicts = "yes" /\ before.conflicts = "no"
      /\ k = "ConflictsResolved" => after.conflicts = "no" /\ before.conflicts = "yes"
      /\ k = "ReadyToMerge" => after.ready = "yes" /\ before.ready = "no"
  BY DEF Transitions, CiTransition
<1>5. before.ci # "unknown" /\ before.review # "unknown"
  BY DEF Seen, Ci, Review
<1>6. CASE k \in {"CiFailed", "CiPassed", "CiGreenAgain"}
  <2>1. FactOf(k) = "ci"
    BY <1>6 DEF FactOf
  <2> QED BY <1>1, <1>2, <1>5, <1>6, <2>1 DEF ValueOf
<1>7. CASE k \in {"Approved", "ChangesRequested"}
  <2>1. FactOf(k) = "review"
    BY <1>7 DEF FactOf
  <2> QED BY <1>1, <1>3, <1>5, <1>7, <2>1 DEF ValueOf
<1>8. CASE k \in {"Conflicts", "ConflictsResolved"}
  <2>1. FactOf(k) = "conflicts"
    BY <1>8 DEF FactOf
  <2> QED BY <1>1, <1>4, <1>8, <2>1 DEF ValueOf
<1>9. CASE k = "ReadyToMerge"
  <2>1. FactOf(k) = "ready"
    BY <1>9 DEF FactOf
  <2> QED BY <1>1, <1>4, <1>9, <2>1 DEF ValueOf
<1> QED BY <1>1, <1>6, <1>7, <1>8, <1>9 DEF Changed, Kind

(* What GitHub answered is what is seen next; what it does not know is what *)
(* was seen last.                                                           *)
LEMMA AfterIsAnswered ==
  ASSUME MonitorTypes, reply # NoReply, reply.mine # NoSeen
  PROVE  /\ After \in Seen /\ After # NoSeen
         /\ \A f \in Fact : IF reply.mine[f] = "unknown" /\ seen # NoSeen
                              THEN After[f] = seen[f] ELSE After[f] = reply.mine[f]
<1>1. reply.mine \in Seen
  BY DEF MonitorTypes, MonitorTypeOK
<1>2. CASE seen = NoSeen
  BY <1>1, <1>2, GithubMonitorAssumption DEF After, LastKnown
<1>3. CASE seen # NoSeen
  <2>1. seen \in Seen
    BY <1>3 DEF MonitorTypes, MonitorTypeOK
  <2>2. After = [reply.mine EXCEPT
                   !.conflicts = IF @ = "unknown" THEN seen.conflicts ELSE @,
                   !.ready     = IF @ = "unknown" THEN seen.ready ELSE @]
    BY <1>3 DEF After, LastKnown
  <2>3. After \in Seen
    BY <1>1, <2>1, <2>2 DEF Seen
  <2>4. After["ci"] = reply.mine["ci"] /\ After["review"] = reply.mine["review"]
        /\ reply.mine["ci"] # "unknown" /\ reply.mine["review"] # "unknown"
    BY <1>1, <2>2 DEF Seen, Ci, Review
  <2>5. /\ After["conflicts"] = IF reply.mine["conflicts"] = "unknown" THEN seen["conflicts"]
                                ELSE reply.mine["conflicts"]
        /\ After["ready"] = IF reply.mine["ready"] = "unknown" THEN seen["ready"]
                            ELSE reply.mine["ready"]
    BY <1>1, <2>1, <2>2 DEF Seen
  <2> QED BY <1>3, <2>3, <2>4, <2>5, GithubMonitorAssumption DEF Fact
<1> QED BY <1>2, <1>3

(* What one reply tells of: a change the reply knows, of a value it answers *)
(* and that was not seen before, or the merge.                              *)
LEMMA ObservedTold ==
  ASSUME MonitorInv, reply # NoReply, NEW e \in Observed
  PROVE  \/ /\ e.kind \in Changed /\ FactOf(e.kind) \in Fact
            /\ e = [kind |-> e.kind, change |-> reply.since[FactOf(e.kind)]]
            /\ seen # NoSeen /\ reply.mine # NoSeen
            /\ reply.mine[FactOf(e.kind)] = ValueOf(e.kind)
            /\ After[FactOf(e.kind)] = ValueOf(e.kind)
            /\ seen[FactOf(e.kind)] \notin {ValueOf(e.kind), "unknown"}
         \/ e = Merging /\ Gone /\ reply.merged
<1>1. CASE e \in IF Gone /\ reply.merged THEN {[kind |-> "Merged", change |-> 0]} ELSE {}
  BY <1>1 DEF Merging
<1>2. CASE e \in IF seen = NoSeen \/ After = NoSeen THEN {}
                 ELSE {[kind |-> k, change |-> reply.since[FactOf(k)]] : k \in Transitions(seen, After)}
  <2>1. seen # NoSeen /\ After # NoSeen
    BY <1>2
  <2>2. PICK k \in Transitions(seen, After) : e = [kind |-> k, change |-> reply.since[FactOf(k)]]
    BY <1>2, <2>1
  <2>3. reply.mine # NoSeen
    BY <2>1 DEF After
  <2>4. seen \in Seen /\ After \in Seen
    BY <2>1, <2>3, AfterIsAnswered DEF MonitorInv, MonitorTypes, MonitorTypeOK
  <2>5. k \in Changed /\ After[FactOf(k)] = ValueOf(k) /\ seen[FactOf(k)] \notin {ValueOf(k), "unknown"}
    BY <2>4, TransitionsMeet
  <2>6. FactOf(k) \in Fact
    BY <2>5, KindsAreOfFacts
  <2>7. reply.mine[FactOf(k)] = ValueOf(k)
    BY <2>3, <2>5, <2>6, AfterIsAnswered DEF MonitorInv
  <2> QED BY <2>1, <2>2, <2>3, <2>5, <2>6, <2>7
<1> QED BY <1>1, <1>2 DEF Observed

(* One fact changes: it and what it takes along are of the newest change.   *)
FactsMoved ==
  /\ facts' \in Facts /\ since' \in [Fact -> 0..MaxChanges]
  /\ \A f \in Fact : \/ since'[f] = since[f] /\ facts'[f] = facts[f]
                     \/ since'[f] = changes + 1

LEMMA ChangeMovesFacts == ASSUME MonitorTypes, Change PROVE FactsMoved
<1>1. /\ facts \in Facts /\ since \in [Fact -> 0..MaxChanges]
      /\ changes \in Nat /\ changes < MaxChanges /\ changes' = changes + 1 /\ MaxChanges \in Nat
  BY GithubMonitorAssumption DEF Change, MonitorTypes, MonitorTypeOK
<1>2. changes' \in 0..MaxChanges /\ changes' = changes + 1
  BY <1>1
<1> USE DEF Facts, Fact, FactsMoved
<1>3. ASSUME NEW c \in Ci, facts' = [facts EXCEPT !.ci = c], since' = [since EXCEPT !.ci = changes']
      PROVE  FactsMoved
  BY <1>1, <1>2, <1>3
<1>4. ASSUME NEW r \in Review, facts' = [facts EXCEPT !.review = r],
             since' = [since EXCEPT !.review = changes']
      PROVE  FactsMoved
  BY <1>1, <1>2, <1>4
<1>5. ASSUME facts.conflicts = "no", facts' = [facts EXCEPT !.conflicts = "yes", !.ready = "no"],
             since' = [since EXCEPT !.conflicts = changes',
                                    !.ready = IF facts.ready = "no" THEN @ ELSE changes']
      PROVE  FactsMoved
  BY <1>1, <1>2, <1>5
<1>6. ASSUME facts' = [facts EXCEPT !.conflicts = "no"], since' = [since EXCEPT !.conflicts = changes']
      PROVE  FactsMoved
  BY <1>1, <1>2, <1>6
<1>7. ASSUME facts' = [facts EXCEPT !.ready = IF @ = "no" THEN "yes" ELSE "no"],
             since' = [since EXCEPT !.ready = changes']
      PROVE  FactsMoved
  BY <1>1, <1>2, <1>7
<1>8. ASSUME NEW s \in {"merged", "closed"}, facts' = [facts EXCEPT !.state = s], since' = since
      PROVE  FactsMoved
  BY <1>1, <1>2, <1>8
<1> HIDE DEF FactsMoved
<1> QED BY <1>3, <1>4, <1>5, <1>6, <1>7, <1>8 DEF Change

(* GitHub moves on: what was told is of an earlier change, or of the same   *)
(* one and still so.                                                        *)
LEMMA MonitorChange == ASSUME MonitorInv, Change PROVE MonitorInv'
<1>1. FactsMoved /\ changes' = changes + 1 /\ changes \in Nat
  BY ChangeMovesFacts DEF MonitorInv, MonitorTypes, MonitorTypeOK, Change
<1>2. /\ UNCHANGED <<notify, reply, seen, vanished, disk, events, told, faults>>
      /\ facts.state = "open" /\ changes < MaxChanges
  BY DEF Change
<1>3. since \in [Fact -> 0..MaxChanges] /\ \A f \in Fact : since[f] <= changes
  BY DEF MonitorInv, MonitorTypes, MonitorTypeOK
<1>4. \A f \in Fact : since'[f] <= changes' /\ since[f] <= since'[f]
  BY <1>1, <1>3, GithubMonitorAssumption DEF FactsMoved
<1>5. \A f \in Fact : since'[f] = since[f] => facts'[f] = facts[f]
  BY <1>1, <1>3, GithubMonitorAssumption DEF FactsMoved
<1>6. MonitorTypes'
  BY <1>1, <1>2, <1>4, GithubMonitorAssumption
  DEF MonitorInv, MonitorTypes, MonitorTypeOK, FactsMoved, Everything
<1>7. ReplyOfFacts'
  <2> SUFFICES ASSUME reply # NoReply PROVE ReplyOfFacts'
    BY <1>2 DEF ReplyOfFacts
  <2>1. reply.since \in [Fact -> 0..MaxChanges] /\ ~reply.merged
    BY <1>2 DEF MonitorInv, MonitorTypes, MonitorTypeOK, ReplyOfFacts
  <2>2. \A f \in Fact : reply.since[f] \in Nat /\ since[f] \in Nat /\ since'[f] \in Nat
    BY <1>1, <1>3, <2>1, GithubMonitorAssumption DEF FactsMoved
  <2> QED BY <1>2, <1>4, <1>5, <2>1, <2>2 DEF MonitorInv, ReplyOfFacts
<1>8. ChangesNoticed'
  <2> SUFFICES ASSUME NEW e \in Everything, e.kind \in Changed
               PROVE  NoticedSince(e, FactOf(e.kind))'
                      /\ (reply # NoReply => NoticedInReply(e, FactOf(e.kind)))'
    BY <1>2 DEF ChangesNoticed, Everything
  <2> DEFINE f == FactOf(e.kind)
  <2>1. f \in Fact
    BY KindsAreOfFacts
  <2>2. NoticedSince(e, f) /\ (reply # NoReply => NoticedInReply(e, f))
    BY DEF MonitorInv, ChangesNoticed
  <2>3. e.change \in Nat /\ since[f] \in Nat /\ since'[f] \in Nat
    BY <1>1, <1>3, <2>1, GithubMonitorAssumption
    DEF FactsMoved, MonitorInv, MonitorTypes, MonitorTypeOK, Everything, Event
  <2> HIDE DEF f
  <2>4. NoticedSince(e, f)'
    BY <1>2, <1>4, <1>5, <2>1, <2>2, <2>3 DEF NoticedSince, Noticed
  <2>5. (reply # NoReply => NoticedInReply(e, f))'
    BY <1>2, <2>2 DEF NoticedInReply, Noticed
  <2> QED BY <2>4, <2>5 DEF f
<1>9. MergeIsLast' /\ ToldOnce'
  BY <1>2 DEF MonitorInv, MergeIsLast, ToldOnce, Everything
<1> QED BY <1>6, <1>7, <1>8, <1>9 DEF MonitorInv

(* A poll: the reply has the facts of now, so what was told of them it does *)
(* not tell again.                                                          *)
LEMMA MonitorPoll == ASSUME MonitorInv, Poll PROVE MonitorInv'
<1>1. /\ UNCHANGED <<atGithub, notify, seen, vanished, disk, events, told, faults>>
      /\ reply = NoReply /\ events = {} /\ reply' \in Replies
  BY DEF Poll
<1>2. facts \in Facts /\ since \in [Fact -> 0..MaxChanges]
  BY DEF MonitorInv, MonitorTypes, MonitorTypeOK
<1>3. /\ reply' \in [mine : Seen \cup {NoSeen}, merged : BOOLEAN, since : [Fact -> 0..MaxChanges]]
      /\ reply'.since = since
      /\ reply'.mine # NoSeen => \A f \in Fact : reply'.mine[f] \in {facts[f], "unknown"}
      /\ reply'.mine # NoSeen => facts.state = "open"
      /\ reply'.merged => facts.state = "merged"
  <2> PICK mine \in {NoSeen} \cup
                      IF facts.state # "open" THEN {}
                      ELSE [ci : {facts.ci}, review : {facts.review},
                            conflicts : Blurred(facts.conflicts), ready : Blurred(facts.ready)],
           merged \in IF facts.state = "merged" THEN BOOLEAN ELSE {FALSE} :
             reply' = [mine |-> mine, merged |-> merged, since |-> since]
    BY <1>1 DEF Replies
  <2>1. merged \in BOOLEAN /\ (merged => facts.state = "merged")
    OBVIOUS
  <2>2. mine # NoSeen => facts.state = "open"
    OBVIOUS
  <2>3. mine # NoSeen =>
          mine \in [ci : {facts.ci}, review : {facts.review},
                    conflicts : Blurred(facts.conflicts), ready : Blurred(facts.ready)]
    OBVIOUS
  <2>4. mine # NoSeen => mine \in Seen /\ \A f \in Fact : mine[f] \in {facts[f], "unknown"}
    BY <1>2, <2>3 DEF Seen, Facts, Fact, Blurred, Maybe
  <2> QED BY <1>2, <2>1, <2>2, <2>4
<1>4. MonitorTypes'
  BY <1>1, <1>3 DEF MonitorInv, MonitorTypes, MonitorTypeOK, Everything, atGithub
<1>5. ReplyOfFacts'
  <2>1. \A f \in Fact : since[f] \in Nat
    BY <1>2
  <2> QED BY <1>1, <1>3, <2>1 DEF ReplyOfFacts, atGithub
<1>6. ChangesNoticed'
  <2> SUFFICES ASSUME NEW e \in Everything, e.kind \in Changed
               PROVE  /\ NoticedSince(e, FactOf(e.kind))'
                      /\ NoticedInReply(e, FactOf(e.kind))'
    BY <1>1 DEF ChangesNoticed, Everything
  <2> DEFINE f == FactOf(e.kind)
  <2>1. f \in Fact
    BY KindsAreOfFacts
  <2>2. NoticedSince(e, f)
    BY DEF MonitorInv, ChangesNoticed
  <2>3. NoticedSince(e, f)'
    BY <1>1, <2>2 DEF NoticedSince, Noticed, atGithub
  <2>4. NoticedInReply(e, f)'
    BY <1>1, <1>3, <2>1, <2>2 DEF NoticedSince, NoticedInReply, Noticed, atGithub
  <2> QED BY <2>3, <2>4
<1>7. MergeIsLast' /\ ToldOnce'
  BY <1>1, <1>3 DEF MonitorInv, MergeIsLast, ToldOnce, Everything, atGithub
<1> QED BY <1>4, <1>5, <1>6, <1>7 DEF MonitorInv

(* A reply is worked on: its events are of changes not told yet, and what   *)
(* they tell is from now on seen.                                           *)
LEMMA MonitorAdvance == ASSUME MonitorInv, Advance PROVE MonitorInv'
<1>1. /\ UNCHANGED <<atGithub, notify, told>> /\ reply # NoReply /\ reply' = NoReply
      /\ events = {}
  BY DEF Advance, MonitorInv, ReplyOfFacts
<1>2. CASE UNCHANGED <<seen, vanished, disk, events>> /\ faults' \in 0..MaxFaults
  BY <1>1, <1>2
  DEF MonitorInv, MonitorTypes, MonitorTypeOK, ReplyOfFacts, ChangesNoticed, NoticedSince,
    Noticed, MergeIsLast, ToldOnce, Everything, atGithub
<1>3. CASE /\ disk' = NextState /\ seen' = NextState.seen /\ vanished' = NextState.vanished
           /\ events' = Observed /\ faults' = faults
  <2>1. seen' = After /\ disk'.seen = After
        /\ vanished' = (Gone /\ ~reply.merged /\ seen # NoSeen) /\ disk'.vanished = vanished'
    BY <1>3 DEF NextState
  <2>2. After \in Seen \cup {NoSeen} /\ (reply.mine = NoSeen => After = NoSeen)
    BY <1>1, AfterIsAnswered DEF MonitorInv, After
  <2>3. \A e \in Observed : (e.kind = "Merged" => e = Merging) /\ e \in Event
    <3> SUFFICES ASSUME NEW e \in Observed PROVE (e.kind = "Merged" => e = Merging) /\ e \in Event
      OBVIOUS
    <3>1. CASE e = Merging
      BY <3>1, GithubMonitorAssumption DEF Merging, Event, Kind
    <3>2. CASE /\ e.kind \in Changed /\ FactOf(e.kind) \in Fact
               /\ e = [kind |-> e.kind, change |-> reply.since[FactOf(e.kind)]]
      BY <1>1, <3>2 DEF Event, Changed, MonitorInv, MonitorTypes, MonitorTypeOK
    <3> QED BY <1>1, <3>1, <3>2, ObservedTold
  <2>4. MonitorTypes'
    <3>1. vanished' \in BOOLEAN /\ disk' \in [seen : Seen \cup {NoSeen}, vanished : BOOLEAN]
          /\ (seen' # NoSeen => ~vanished')
      BY <1>3, <2>1, <2>2 DEF NextState, Gone
    <3>2. Everything' = Observed \cup told
      BY <1>1, <1>3 DEF Everything
    <3> QED BY <1>1, <1>3, <2>1, <2>2, <2>3, <3>1, <3>2
        DEF MonitorInv, MonitorTypes, MonitorTypeOK, Everything, atGithub
  <2>5. ReplyOfFacts'
    BY <1>1 DEF ReplyOfFacts
  <2>6. ASSUME NEW e \in told, e.kind \in Changed PROVE NoticedSince(e, FactOf(e.kind))'
    <3> DEFINE f == FactOf(e.kind)
    <3>1. f \in Fact /\ ValueOf(e.kind) # "unknown"
      BY <2>6, KindsAreOfFacts
    <3>2. NoticedSince(e, f) /\ NoticedInReply(e, f)
      BY <1>1, <2>6 DEF MonitorInv, ChangesNoticed, Everything
    <3>3. /\ e.change \in Nat /\ since[f] \in Nat /\ reply.since[f] \in Nat
          /\ reply.since[f] <= since[f]
      BY <1>1, <2>6, <3>1, GithubMonitorAssumption
      DEF MonitorInv, MonitorTypes, MonitorTypeOK, Event, ReplyOfFacts
    <3>4. ASSUME e.change = since[f], After # NoSeen
          PROVE  After[f] \in {ValueOf(e.kind), "unknown"}
      <4>1. e.change = reply.since[f]
        BY <3>2, <3>3, <3>4 DEF NoticedSince, NoticedInReply
      <4>2. Noticed(reply.mine, e.kind) /\ Noticed(seen, e.kind)
        BY <3>2, <4>1 DEF NoticedInReply
      <4>3. reply.mine # NoSeen
        BY <2>2, <3>4
      <4> QED BY <1>1, <3>1, <4>2, <4>3, AfterIsAnswered DEF MonitorInv, Noticed
    <3> QED BY <1>1, <2>1, <3>2, <3>4 DEF NoticedSince, Noticed, atGithub
  <2>7. ASSUME NEW e \in Observed, e.kind \in Changed PROVE NoticedSince(e, FactOf(e.kind))'
    <3> DEFINE f == FactOf(e.kind)
    <3>1. /\ f \in Fact /\ ValueOf(e.kind) # "unknown" /\ e.change = reply.since[f]
          /\ reply.mine # NoSeen /\ reply.mine[f] = ValueOf(e.kind) /\ After[f] = ValueOf(e.kind)
      BY <1>1, <2>7, ObservedTold, KindsAreOfFacts DEF Merging, Changed
    <3>2. /\ reply.since[f] <= since[f]
          /\ reply.since[f] = since[f] => reply.mine[f] \in {facts[f], "unknown"}
      BY <1>1, <3>1 DEF MonitorInv, ReplyOfFacts
    <3> QED BY <1>1, <2>1, <3>1, <3>2 DEF NoticedSince, Noticed, atGithub
  <2>8. ChangesNoticed'
    BY <1>1, <1>3, <2>6, <2>7 DEF ChangesNoticed, Everything
  <2>9. MergeIsLast'
    <3>1. ASSUME NEW e \in told, e.kind = "Merged"
          PROVE  facts'.state = "merged" /\ seen' = NoSeen /\ ~vanished' /\ disk' = NothingSaved
      BY <1>1, <1>3, <2>1, <2>2, <3>1
      DEF MonitorInv, MergeIsLast, Everything, atGithub, NextState, NothingSaved
    <3>2. ASSUME NEW e \in Observed, e.kind = "Merged"
          PROVE  facts'.state = "merged" /\ seen' = NoSeen /\ ~vanished' /\ disk' = NothingSaved
      <4>1. Gone /\ reply.merged
        BY <1>1, <3>2, ObservedTold DEF Changed
      <4> QED BY <1>1, <1>3, <2>1, <2>2, <4>1
          DEF MonitorInv, ReplyOfFacts, atGithub, NextState, NothingSaved
    <3> QED BY <1>1, <1>3, <3>1, <3>2 DEF MergeIsLast, Everything
  <2>10. ToldOnce'
    <3> SUFFICES ASSUME NEW e \in Observed, e \in told PROVE FALSE
      BY <1>1, <1>3 DEF ToldOnce
    <3>1. CASE e = Merging /\ Gone /\ reply.merged
      BY <3>1 DEF MonitorInv, MergeIsLast, Everything, Merging, Gone
    <3>2. CASE /\ e.kind \in Changed
               /\ e = [kind |-> e.kind, change |-> reply.since[FactOf(e.kind)]]
               /\ seen # NoSeen
               /\ seen[FactOf(e.kind)] \notin {ValueOf(e.kind), "unknown"}
      <4>1. NoticedInReply(e, FactOf(e.kind))
        BY <1>1, <3>2 DEF MonitorInv, ChangesNoticed, Everything
      <4> QED BY <3>2, <4>1 DEF NoticedInReply, Noticed
    <3> QED BY <1>1, <3>1, <3>2, ObservedTold
  <2> QED BY <2>4, <2>5, <2>8, <2>9, <2>10 DEF MonitorInv
<1> QED BY <1>2, <1>3, GithubMonitorAssumption
    DEF Advance, Fault, MonitorInv, MonitorTypes, MonitorTypeOK

(* Telling, turning notifications on and off, and a restart: nothing is told*)
(* of anew, and what is seen from then on is what is saved, or nothing.     *)
LEMMA MonitorForgets ==
  ASSUME MonitorInv, Tell \/ SetNotify \/ Restart
  PROVE  MonitorInv'
<1>1. /\ UNCHANGED atGithub /\ reply' = NoReply /\ Everything' \subseteq Everything
      /\ events' \subseteq Event /\ told' \subseteq Event /\ events' \cap told' = {}
      /\ notify' \in BOOLEAN /\ faults' \in 0..MaxFaults
  <2>0. /\ events \subseteq Event /\ told \subseteq Event /\ ToldOnce /\ notify \in BOOLEAN
        /\ faults \in 0..MaxFaults /\ (reply # NoReply => events = {})
        /\ (Fault => faults' \in 0..MaxFaults)
    BY GithubMonitorAssumption DEF MonitorInv, MonitorTypes, MonitorTypeOK, ReplyOfFacts, Fault
  <2>1. CASE Tell
    BY <2>0, <2>1 DEF Tell, Everything, ToldOnce
  <2>2. CASE SetNotify
    BY <2>0, <2>2 DEF SetNotify, Everything, ToldOnce
  <2>3. CASE Restart
    BY <2>0, <2>3 DEF Restart, Everything, ToldOnce
  <2> QED BY <2>1, <2>2, <2>3
<1>2. disk' \in {disk, NothingSaved}
  BY DEF Tell, SetNotify, Restart
<1>3. \/ seen' = seen /\ vanished' = vanished
      \/ seen' = disk.seen /\ vanished' = disk.vanished
      \/ seen' = NoSeen /\ vanished' = FALSE
  BY DEF Tell, SetNotify, Restart
<1>4. MonitorTypes'
  <2>1. NothingSaved.seen = NoSeen /\ NothingSaved.vanished = FALSE
        /\ NothingSaved \in [seen : Seen \cup {NoSeen}, vanished : BOOLEAN]
    BY DEF NothingSaved
  <2>2. /\ disk' \in [seen : Seen \cup {NoSeen}, vanished : BOOLEAN]
        /\ (disk'.seen # NoSeen => ~disk'.vanished)
    BY <1>2, <2>1 DEF MonitorInv, MonitorTypes, MonitorTypeOK
  <2>3. /\ seen' \in Seen \cup {NoSeen} /\ vanished' \in BOOLEAN
        /\ (seen' # NoSeen => ~vanished')
    <3>1. seen \in Seen \cup {NoSeen} /\ vanished \in BOOLEAN /\ (seen # NoSeen => ~vanished)
      BY DEF MonitorInv, MonitorTypes, MonitorTypeOK
    <3>2. disk.seen \in Seen \cup {NoSeen} /\ disk.vanished \in BOOLEAN
      BY DEF MonitorInv, MonitorTypes, MonitorTypeOK
    <3>3. disk.seen # NoSeen => ~disk.vanished
      BY DEF MonitorInv, MonitorTypes
    <3>4. CASE seen' = seen /\ vanished' = vanished
      BY <3>1, <3>4
    <3>5. CASE seen' = disk.seen /\ vanished' = disk.vanished
      BY <3>2, <3>3, <3>5
    <3>6. CASE seen' = NoSeen /\ vanished' = FALSE
      BY <3>6
    <3> QED BY <1>3, <3>4, <3>5, <3>6
  <2> QED BY <1>1, <2>2, <2>3 DEF MonitorInv, MonitorTypes, MonitorTypeOK, atGithub
<1>5. ReplyOfFacts' /\ ToldOnce'
  BY <1>1 DEF ReplyOfFacts, ToldOnce
<1>6. ChangesNoticed'
  <2> SUFFICES ASSUME NEW e \in Everything, e.kind \in Changed
               PROVE  NoticedSince(e, FactOf(e.kind))'
    BY <1>1 DEF ChangesNoticed
  <2>1. NoticedSince(e, FactOf(e.kind))
    BY DEF MonitorInv, ChangesNoticed
  <2> QED BY <1>1, <1>2, <1>3, <2>1 DEF NoticedSince, Noticed, NothingSaved, atGithub
<1>7. MergeIsLast'
  BY <1>1, <1>2, <1>3 DEF MonitorInv, MergeIsLast, NothingSaved, atGithub
<1> QED BY <1>4, <1>5, <1>6, <1>7 DEF MonitorInv

LEMMA MonitorInvHolds == MonitorSpec => []MonitorInv
<1>1. MonitorInv /\ UNCHANGED monitorVars => MonitorInv'
  BY DEF monitorVars, MonitorInv, MonitorTypes, MonitorTypeOK, ReplyOfFacts, ChangesNoticed,
    NoticedSince, NoticedInReply, Noticed, MergeIsLast, ToldOnce, Everything
<1>2. MonitorInv /\ [MonitorNext]_monitorVars => MonitorInv'
  BY <1>1, MonitorChange, MonitorPoll, MonitorAdvance, MonitorForgets DEF MonitorNext
<1> QED BY MonitorInvInit, <1>2, PTL DEF MonitorSpec

(* The monitor's state has its types throughout.                            *)
THEOREM MonitorTyped == MonitorSpec => []MonitorTypeOK
<1>1. MonitorInv => MonitorTypeOK
  BY DEF MonitorInv, MonitorTypes
<1> QED BY MonitorInvHolds, <1>1, PTL

(* github_monitor.rs tells of no change at GitHub twice: not when GitHub    *)
(* forgets in between what it answered, when a save fails, when the app     *)
(* restarts, nor when notifications were off for a while.                   *)
THEOREM ChangesToldOnce == MonitorSpec => []ToldOnce
<1>1. MonitorInv => ToldOnce
  BY DEF MonitorInv
<1> QED BY MonitorInvHolds, <1>1, PTL

-----------------------------------------------------------------------------
(* The reads of pull requests.  A record: the push a branch was remembered  *)
(* or dropped with is none newer than the newest read.                      *)
StoreOK(s) == s \in Store /\ s.branch <= s.newest /\ s.dropped <= s.newest

PushedOK == pushed \in [last : Push, old : Push] /\ pushed.old <= pushed.last /\ pushed.last >= 1

(* What a read may do to the record `b` it loaded: a branch is there as it  *)
(* was, or by a push newer than its drop and not too old; its drop is kept  *)
(* until that push is too old.                                              *)
DropKept(b, s) ==
  /\ s.branch # 0 =>
       /\ s.dropped <= b.dropped
       /\ s.branch = b.branch \/ (s.branch > b.dropped /\ s.branch > pushed.old)
  /\ s.dropped >= b.dropped \/ b.dropped <= pushed.old

LEMMA BoundsAreNumbers ==
  /\ MaxMoves \in Nat /\ MaxMoves >= 2 /\ MaxMishaps \in Nat
  /\ Push = 0..(MaxMoves - 1) /\ Head = 1..(MaxMoves - 1) /\ 0 \in Push /\ Push \subseteq Nat
BY GithubReadsAssumption DEF Push, Head

LEMMA LoadedOK ==
  ASSUME NEW v \in Viewer, record \in Store \cup {NoRecord},
         record # NoRecord => StoreOK(record)
  PROVE  StoreOK(Loaded(v))
<1>1. StoreOK(NewStore(v))
  BY BoundsAreNumbers DEF StoreOK, NewStore, Store
<1> QED BY <1>1 DEF Loaded

(* The record when its lookup starts: pushes remembered, old ones forgotten.*)
LEMMA ForgottenOK ==
  ASSUME NEW b, StoreOK(b), PushedOK, NEW old \in BOOLEAN,
         NEW s \in {b, Remembered(b, pushed.last)}
  PROVE  StoreOK(Forgotten(s, old)) /\ DropKept(b, Forgotten(s, old))
<1> DEFINE f == Forgotten(s, old)
<1>1. s \in Store /\ b \in Store /\ pushed.last \in Push
  BY DEF StoreOK, PushedOK, Remembered, Store
<1>2. /\ s.branch = b.branch \/ (s.branch = pushed.last /\ s.branch > b.dropped)
      /\ s.dropped = b.dropped /\ s.branch <= s.newest /\ s.dropped <= s.newest
  <2>0. /\ b.branch \in Nat /\ b.dropped \in Nat /\ b.newest \in Nat /\ pushed.last \in Nat
        /\ b.branch <= b.newest /\ b.dropped <= b.newest
    BY <1>1, BoundsAreNumbers DEF StoreOK, Store
  <2>1. CASE s = Remembered(b, pushed.last)
    <3>1. /\ s.branch = IF pushed.last > b.dropped /\ pushed.last > b.branch THEN pushed.last
                        ELSE b.branch
          /\ s.newest = IF pushed.last > b.newest THEN pushed.last ELSE b.newest
          /\ s.dropped = b.dropped
      BY <1>1, <2>1 DEF Remembered, Store
    <3> QED BY <2>0, <3>1
  <2> QED BY <2>0, <2>1
<1>3. /\ f.newest = s.newest /\ f.branch = Kept(s.branch) /\ f.dropped = Kept(s.dropped)
  BY <1>1 DEF Forgotten, Store
<1>4. \A n \in Push : Kept(n) \in Push /\ Kept(n) <= n /\ (Kept(n) = n \/ n <= pushed.old)
                      /\ (Kept(n) # 0 => Kept(n) = n /\ n > pushed.old)
  BY BoundsAreNumbers DEF Kept, PushedOK
<1>5. f \in Store
  <2>1. s.branch \in Push /\ s.dropped \in Push
    BY <1>1 DEF Store
  <2>2. Kept(s.branch) \in Push /\ Kept(s.dropped) \in Push
    BY <1>4, <2>1
  <2> QED BY <1>1, <2>2 DEF Forgotten, Store
<1> HIDE DEF f
<1>6. s.branch \in Push /\ s.dropped \in Push /\ s.newest \in Push /\ pushed.old \in Nat
      /\ b.branch \in Push /\ b.dropped \in Push
  BY <1>1, BoundsAreNumbers DEF Store, PushedOK
<1>7. StoreOK(f)
  <2>1. Kept(s.branch) <= s.branch /\ Kept(s.dropped) <= s.dropped
        /\ {Kept(s.branch), Kept(s.dropped), s.branch, s.dropped, s.newest} \subseteq Nat
    BY <1>4, <1>6, BoundsAreNumbers
  <2> QED BY <1>2, <1>3, <1>5, <2>1 DEF StoreOK
<1>8. DropKept(b, f)
  BY <1>2, <1>3, <1>4, <1>6, BoundsAreNumbers DEF DropKept
<1> QED BY <1>7, <1>8 DEF f

(* The lookup: a branch whose repository is gone, or that is the default    *)
(* branch, is dropped with the push it was remembered by.                   *)
LEMMA DroppedOK ==
  ASSUME NEW b, StoreOK(b), NEW s, StoreOK(s), DropKept(b, s), PushedOK
  PROVE  StoreOK(Dropped(s)) /\ DropKept(b, Dropped(s))
<1>1. CASE s.branch # 0 /\ lost
  <2> DEFINE d == [s EXCEPT !.branch = 0, !.dropped = IF s.branch > @ THEN s.branch ELSE @]
  <2>1. d \in Store /\ d.branch = 0 /\ d.newest = s.newest
        /\ d.dropped = IF s.branch > s.dropped THEN s.branch ELSE s.dropped
    BY BoundsAreNumbers DEF StoreOK, Store
  <2>2. Dropped(s) = d
    BY <1>1 DEF Dropped
  <2> HIDE DEF d
  <2>3. s.branch \in Nat /\ s.dropped \in Nat /\ b.dropped \in Nat /\ pushed.old \in Nat
        /\ s.newest \in Nat
    BY BoundsAreNumbers DEF StoreOK, Store, PushedOK
  <2> QED BY <2>1, <2>2, <2>3 DEF StoreOK, DropKept
<1>2. CASE ~(s.branch # 0 /\ lost)
  BY <1>2 DEF Dropped
<1> QED BY <1>1, <1>2

(* What follows of a record that only what it tracks changes of.            *)
LEMMA TrackedOnly ==
  ASSUME NEW b, NEW s, StoreOK(s), DropKept(b, s), NEW t \in Tracked \cup {NoRow}
  PROVE  StoreOK([s EXCEPT !.tracked = t]) /\ DropKept(b, [s EXCEPT !.tracked = t])
<1> DEFINE d == [s EXCEPT !.tracked = t]
<1>1. d \in Store /\ d.branch = s.branch /\ d.dropped = s.dropped /\ d.newest = s.newest
  BY DEF StoreOK, Store
<1> HIDE DEF d
<1>2. StoreOK(d) /\ DropKept(b, d)
  BY <1>1 DEF StoreOK, DropKept
<1> QED BY <1>2 DEF d

LEMMA LookedUpOK ==
  ASSUME NEW b, StoreOK(b), NEW s, StoreOK(s), DropKept(b, s), PushedOK,
         pull \in [state : {"open", "merged", "closed"}, head : Head],
         NEW l \in LookedUp(s)
  PROVE  /\ StoreOK(l.store) /\ DropKept(b, l.store) /\ l.read \in BOOLEAN
         /\ \E t \in Tracked \cup {NoRow} : l.store = [Dropped(s) EXCEPT !.tracked = t]
<1>1. PICK t \in Tracked \cup {NoRow}, read \in BOOLEAN :
             l = [store |-> [Dropped(s) EXCEPT !.tracked = t], read |-> read]
  <2> DEFINE done(was, a) == [was EXCEPT !.head = pull.head, !.merged = pull.state = "merged",
                                         !.answer = IF pull.state = "merged" THEN "unknown" ELSE a]
             new == [verified |-> FALSE, checked |-> 0, merged |-> FALSE, head |-> pull.head,
                     answer |-> "unknown"]
             kept(was) == [tracked |-> was, read |-> FALSE]
             all == (IF s.tracked # NoRow
                       THEN IF pull.state = "closed" THEN {kept(NoRow)}
                            ELSE {[tracked |-> done(s.tracked, a), read |-> TRUE] : a \in Answer}
                                 \cup {kept(s.tracked)}
                     ELSE IF Dropped(s).branch # 0 /\ pull.state = "open"
                       THEN {[tracked |-> done(new, a), read |-> TRUE] : a \in Answer}
                     ELSE {kept(NoRow)})
  <2>1. LookedUp(s) = {[store |-> [Dropped(s) EXCEPT !.tracked = r.tracked], read |-> r.read] :
                         r \in all}
    BY DEF LookedUp
  <2>2. \A was \in Tracked, a \in Answer : done(was, a) \in Tracked
    BY DEF Tracked, Answer
  <2>3. new \in Tracked
    BY DEF Tracked, Answer
  <2>4. s.tracked \in Tracked \cup {NoRow}
    BY DEF StoreOK, Store
  <2> HIDE DEF done, new
  <2>5. ASSUME NEW r \in all PROVE r.tracked \in Tracked \cup {NoRow} /\ r.read \in BOOLEAN
    <3>1. \/ r \in {kept(NoRow), kept(s.tracked)}
          \/ \E a \in Answer, was \in {s.tracked, new} :
               was # NoRow /\ r = [tracked |-> done(was, a), read |-> TRUE]
      BY <2>3, GithubReadsAssumption
    <3> HIDE DEF all
    <3>2. ASSUME NEW was \in {s.tracked, new}, was # NoRow, NEW a \in Answer,
                 r = [tracked |-> done(was, a), read |-> TRUE]
          PROVE  r.tracked \in Tracked /\ r.read \in BOOLEAN
      <4> DEFINE found == done(was, a)
      <4>1. found \in Tracked
        BY <2>2, <2>3, <2>4, <3>2
      <4>2. r = [tracked |-> found, read |-> TRUE]
        BY <3>2
      <4> HIDE DEF found
      <4> QED BY ONLY <4>1, <4>2
    <3>3. ASSUME NEW was \in {NoRow, s.tracked}, r = [tracked |-> was, read |-> FALSE]
          PROVE  r.tracked \in Tracked \cup {NoRow} /\ r.read \in BOOLEAN
      <4>1. was \in Tracked \cup {NoRow}
        BY <2>4
      <4> QED BY ONLY <3>3, <4>1
    <3>4. CASE r \in {kept(NoRow), kept(s.tracked)}
      BY <3>3, <3>4
    <3> HIDE DEF kept
    <3> QED BY <3>1, <3>2, <3>4
  <2>6. PICK r \in all : l = [store |-> [Dropped(s) EXCEPT !.tracked = r.tracked], read |-> r.read]
    BY <2>1
  <2> QED BY <2>5, <2>6
<1>2. StoreOK(Dropped(s)) /\ DropKept(b, Dropped(s))
  BY DroppedOK
<1> QED BY <1>1, <1>2, TrackedOnly

LEMMA VerifiedOK ==
  ASSUME NEW b, NEW s, StoreOK(s), DropKept(b, s), NEW v \in Verified(s)
  PROVE  StoreOK(v) /\ DropKept(b, v)
<1>1. CASE v = s
  BY <1>1
<1>2. ASSUME NEW wrote \in BOOLEAN, s.tracked # NoRow,
             v = [s EXCEPT !.tracked = [@ EXCEPT !.verified = wrote,
                                                 !.checked = IF wrote THEN 0 ELSE s.tracked.head]]
      PROVE  StoreOK(v) /\ DropKept(b, v)
  <2> DEFINE t == [s.tracked EXCEPT !.verified = wrote,
                                    !.checked = IF wrote THEN 0 ELSE s.tracked.head]
  <2>1. s.tracked \in Tracked
    BY <1>2 DEF StoreOK, Store
  <2>2. t \in Tracked
    BY <2>1 DEF Tracked
  <2>3. v = [s EXCEPT !.tracked = t]
    BY <1>2
  <2> HIDE DEF t
  <2> QED BY <2>2, <2>3, TrackedOnly
<1> QED BY <1>1, <1>2 DEF Verified

(* All that a read of the contributions may make of the record it loaded.   *)
LEMMA RefreshedOK ==
  ASSUME NEW v \in Viewer, StoreOK(Loaded(v)), PushedOK, NEW old \in BOOLEAN,
         pull \in [state : {"open", "merged", "closed"}, head : Head],
         NEW r \in Refreshed(v, old)
  PROVE  StoreOK(r.store) /\ DropKept(Loaded(v), r.store) /\ r.read \in BOOLEAN
<1> DEFINE b == Loaded(v)
<1>1. PICK s \in {b, Remembered(b, pushed.last)} : r \in Looked(Forgotten(s, old))
  BY DEF Refreshed
<1> DEFINE f == Forgotten(s, old)
<1>2. StoreOK(b)
  OBVIOUS
<1> HIDE DEF b
<1>3. StoreOK(f) /\ DropKept(b, f)
  BY <1>2, ForgottenOK
<1>4. r \in Looked(f)
  BY <1>1
<1> HIDE DEF f
<1>5. CASE r = [store |-> f, read |-> FALSE]
  <2>1. r.store = f /\ r.read \in BOOLEAN
    BY <1>5
  <2> QED BY <1>3, <2>1 DEF b
<1>6. ASSUME NEW l \in LookedUp(f), NEW w \in Verified(l.store), r = [store |-> w, read |-> l.read]
      PROVE  StoreOK(r.store) /\ DropKept(b, r.store) /\ r.read \in BOOLEAN
  <2>1. StoreOK(l.store) /\ DropKept(b, l.store) /\ l.read \in BOOLEAN
    BY <1>2, <1>3, LookedUpOK
  <2>2. StoreOK(w) /\ DropKept(b, w)
    BY <2>1, VerifiedOK
  <2>3. r.store = w /\ r.read = l.read
    BY <1>6
  <2> QED BY <2>1, <2>2, <2>3
<1>7. \/ r = [store |-> f, read |-> FALSE]
      \/ \E l \in LookedUp(f) : \E w \in Verified(l.store) : r = [store |-> w, read |-> l.read]
  BY <1>4 DEF Looked
<1> QED BY <1>5, <1>6, <1>7 DEF b

LEMMA ContributedOK ==
  ASSUME NEW s, StoreOK(s), NEW read \in BOOLEAN
  PROVE  Contributed(s, read) \in Row \cup {NoRow}
<1>1. s.tracked \in Tracked \cup {NoRow}
  BY DEF StoreOK, Store
<1> QED BY <1>1 DEF Contributed, Tracked, Row

-----------------------------------------------------------------------------
(* What is known: kept in memory, or saved.                                 *)
Known == IF memory # NoMemory THEN memory ELSE snapshot.known

Backed(k) ==
  /\ k = NoMemory => newest = NothingRead /\ shown.conflicts = {}
  /\ k # NoMemory =>
       /\ \A h \in Head : newest[h] # {} => k.answers[h] \in newest[h]
       /\ shown.viewer # NoViewer =>
            \A h \in shown.conflicts : k.viewer = shown.viewer /\ k.answers[h] = "conflicts"

(* The answers shown and the newest ones are known, and known after a crash *)
(* when the last read was saved.                                            *)
AnswersKnown ==
  /\ Backed(Known)
  /\ snapshot.current => Backed(snapshot.known)

(* A branch's push is newer than its drop; the drop is recorded until that  *)
(* push is too old to be taken again.                                       *)
DropRemembered ==
  record # NoRecord =>
    /\ record.branch # 0 => record.branch > atDrop
    /\ atDrop <= record.dropped \/ atDrop <= pushed.old

(* A read under way knows what was answered last, and only the record has   *)
(* rows of an earlier read.                                                 *)
ReadingSound ==
  /\ reading.at # "idle" => memory # NoMemory
  /\ reading.rows["search"] # NoRow => ~reading.rows["search"].earlier

ReadsInv == /\ ReadsTypeOK /\ pushed.last >= 1
            /\ ReadingSound /\ AnswersKnown /\ DropRemembered

LEMMA ReadsInvInit == ReadsInit => ReadsInv
<1> SUFFICES ASSUME ReadsInit PROVE ReadsInv
  OBVIOUS
<1> USE GithubReadsAssumption, BoundsAreNumbers DEF ReadsInit
<1>1. reading \in [at : {"idle", "searched", "gathered"}, viewer : Viewer \cup {NoViewer},
                   rows : [Place -> Row \cup {NoRow}]]
  BY DEF Idle, NoRows
<1>2. /\ snapshot \in [known : KnownAnswers \cup {NoMemory}, current : BOOLEAN]
      /\ shown \in [viewer : Viewer \cup {NoViewer}, conflicts : SUBSET Head]
      /\ newest \in [Head -> SUBSET {"clean", "conflicts"}]
  BY DEF NothingShown, NothingRead
<1>3. /\ pull \in [state : {"open", "merged", "closed"}, head : Head]
      /\ pushed \in [last : Push, old : Push] /\ pushed.old <= pushed.last /\ pushed.last >= 1
  OBVIOUS
<1>4. ReadsTypeOK /\ pushed.last >= 1
  <2>1. /\ lost \in BOOLEAN /\ login \in Viewer /\ memory \in KnownAnswers \cup {NoMemory}
        /\ record \in Store \cup {NoRecord} /\ record = NoRecord
        /\ mishaps = 0 /\ atDrop \in Push
    OBVIOUS
  <2>2. mishaps \in 0..MaxMishaps
    BY BoundsAreNumbers, <2>1
  <2> QED BY ONLY <1>1, <1>2, <1>3, <2>1, <2>2 DEF ReadsTypeOK
<1>5. ReadingSound
  BY DEF ReadingSound, Idle, NoRows, Place
<1>6. AnswersKnown /\ DropRemembered
  BY DEF AnswersKnown, Backed, Known, DropRemembered, NothingShown
<1> QED BY <1>4, <1>5, <1>6 DEF ReadsInv

(* A search: what was known is recalled, or what the record still shows.    *)
LEMMA ReadsSearch == ASSUME ReadsInv, Search PROVE ReadsInv'
<1>1. /\ reading.at = "idle" /\ memory' = Recalled
      /\ UNCHANGED <<github, record, snapshot, mishaps, ghosts>>
  BY DEF Search
<1>2. Seeded \in KnownAnswers
  <2>1. record # NoRecord => record.viewer \in Viewer
    BY DEF ReadsInv, ReadsTypeOK, Store
  <2> QED BY <2>1 DEF Seeded, KnownAnswers, Answer
<1>3. memory' \in KnownAnswers
  BY <1>1, <1>2 DEF ReadsInv, ReadsTypeOK, Recalled
<1>4. /\ reading' \in [at : {"idle", "searched", "gathered"}, viewer : Viewer \cup {NoViewer},
                       rows : [Place -> Row \cup {NoRow}]]
      /\ reading'.rows["search"] # NoRow => ~reading'.rows["search"].earlier
  <2>1. CASE reading' = reading
    BY <2>1 DEF ReadsInv, ReadsTypeOK, ReadingSound
  <2>2. ASSUME NEW v \in {login, NoViewer},
               NEW row \in {NoRow} \cup {Found(a) : a \in Answer},
               reading' = [at |-> "searched", viewer |-> v,
                           rows |-> [NoRows EXCEPT !["search"] = row]]
        PROVE  /\ reading' \in [at : {"idle", "searched", "gathered"},
                                viewer : Viewer \cup {NoViewer}, rows : [Place -> Row \cup {NoRow}]]
               /\ reading'.rows["search"] # NoRow => ~reading'.rows["search"].earlier
    <3>1. row \in Row \cup {NoRow} /\ (row # NoRow => ~row.earlier)
      <4>1. ASSUME NEW a \in Answer PROVE Found(a) \in Row /\ ~Found(a).earlier
        BY DEF ReadsInv, ReadsTypeOK, Found, Row
      <4> QED BY <4>1
    <3> DEFINE rows == [NoRows EXCEPT !["search"] = row]
    <3>2. rows \in [Place -> Row \cup {NoRow}] /\ rows["search"] = row
      BY <3>1 DEF NoRows, Place
    <3>3. v \in Viewer \cup {NoViewer}
      BY DEF ReadsInv, ReadsTypeOK
    <3>4. reading' = [at |-> "searched", viewer |-> v, rows |-> rows]
      BY <2>2
    <3> HIDE DEF rows
    <3> QED BY <3>1, <3>2, <3>3, <3>4
  <2> QED BY <2>1, <2>2 DEF Search
<1>5. ReadsTypeOK' /\ pushed'.last >= 1
  BY <1>1, <1>3, <1>4 DEF ReadsInv, ReadsTypeOK, github, ghosts
<1>6. ReadingSound'
  BY <1>3, <1>4, GithubReadsAssumption DEF ReadingSound
<1>7. AnswersKnown'
  <2>1. Backed(memory')
    <3>1. CASE Known # NoMemory
      BY <1>1, <3>1 DEF ReadsInv, AnswersKnown, Known, Recalled
    <3>2. CASE Known = NoMemory
      BY <3>2, <1>3, GithubReadsAssumption DEF ReadsInv, AnswersKnown, Backed, NothingRead
    <3> QED BY <3>1, <3>2
  <2>2. Known' = memory'
    BY <1>3, GithubReadsAssumption DEF Known
  <2> QED BY <1>1, <2>1, <2>2 DEF ReadsInv, AnswersKnown, Backed, ghosts
<1>8. DropRemembered'
  BY <1>1 DEF ReadsInv, DropRemembered, github, ghosts
<1> QED BY <1>5, <1>6, <1>7, <1>8 DEF ReadsInv

(* The contributions: a branch dropped is remembered as dropped, or too old *)
(* to come back.                                                            *)
LEMMA ReadsGather == ASSUME ReadsInv, Gather PROVE ReadsInv'
<1>0. ReadsTypeOK /\ PushedOK /\ pull \in [state : {"open", "merged", "closed"}, head : Head]
      /\ reading \in [at : {"idle", "searched", "gathered"}, viewer : Viewer \cup {NoViewer},
                      rows : [Place -> Row \cup {NoRow}]]
  BY DEF ReadsInv, ReadsTypeOK, PushedOK
<1>1. UNCHANGED <<github, memory, snapshot, shown, newest>> /\ reading.at = "searched"
  BY DEF Gather
<1>2. ASSUME reading'.at = "gathered", reading'.rows["search"] = reading.rows["search"],
             reading' \in [at : {"idle", "searched", "gathered"}, viewer : Viewer \cup {NoViewer},
                           rows : [Place -> Row \cup {NoRow}]],
             record' \in Store \cup {NoRecord}, record' # NoRecord => StoreOK(record'),
             mishaps' \in 0..MaxMishaps, atDrop' \in Push, DropRemembered'
      PROVE  ReadsInv'
  <2>1. ReadsTypeOK' /\ pushed'.last >= 1
    BY <1>1, <1>2 DEF ReadsInv, ReadsTypeOK, StoreOK, github
  <2>2. ReadingSound'
    BY <1>1, <1>2 DEF ReadsInv, ReadingSound
  <2>3. AnswersKnown'
    BY <1>1 DEF ReadsInv, AnswersKnown, Backed, Known
  <2> QED BY <1>2, <2>1, <2>2, <2>3 DEF ReadsInv
<1>3. CASE reading.viewer = NoViewer
  <2>1. reading' = [reading EXCEPT !.at = "gathered"] /\ UNCHANGED <<record, mishaps, atDrop>>
    BY <1>3 DEF Gather
  <2>2. /\ reading'.at = "gathered" /\ reading'.rows["search"] = reading.rows["search"]
        /\ reading' \in [at : {"idle", "searched", "gathered"}, viewer : Viewer \cup {NoViewer},
                         rows : [Place -> Row \cup {NoRow}]]
    BY <1>0, <2>1
  <2> QED BY <1>1, <1>2, <2>1, <2>2 DEF ReadsInv, ReadsTypeOK, StoreOK, DropRemembered, github
<1>4. CASE reading.viewer # NoViewer
  <2> DEFINE v == reading.viewer
             b == Loaded(v)
  <2>0. PICK old \in BOOLEAN : \E r \in Refreshed(v, old) :
          /\ reading' = [reading EXCEPT
                           !.at = "gathered",
                           !.rows = [@ EXCEPT !["contributed"] = Contributed(r.store, r.read)]]
          /\ \/ /\ record' = IF r.store = b THEN record ELSE r.store
                /\ atDrop' = IF r.store = b THEN atDrop
                             ELSE IF r.store.dropped > b.dropped THEN r.store.dropped
                             ELSE IF record # b THEN 0 ELSE atDrop
                /\ mishaps' = mishaps
             \/ /\ r.store # b /\ Mishap
                /\ UNCHANGED <<record, atDrop>>
    BY ONLY Gather, <1>4 DEF Gather
  <2>1. PICK r \in Refreshed(v, old) :
          /\ reading' = [reading EXCEPT
                           !.at = "gathered",
                           !.rows = [@ EXCEPT !["contributed"] = Contributed(r.store, r.read)]]
          /\ \/ /\ record' = IF r.store = b THEN record ELSE r.store
                /\ atDrop' = IF r.store = b THEN atDrop
                             ELSE IF r.store.dropped > b.dropped THEN r.store.dropped
                             ELSE IF record # b THEN 0 ELSE atDrop
                /\ mishaps' = mishaps
             \/ /\ r.store # b /\ Mishap
                /\ UNCHANGED <<record, atDrop>>
    BY ONLY <2>0
  <2>2. v \in Viewer /\ (record # NoRecord => StoreOK(record)) /\ StoreOK(b)
    BY <1>0, <1>4, LoadedOK DEF ReadsTypeOK, StoreOK
  <2>3. StoreOK(r.store) /\ DropKept(b, r.store) /\ r.read \in BOOLEAN
    BY <1>0, <2>2, RefreshedOK
  <2> HIDE DEF b
  <2>4. /\ reading'.at = "gathered" /\ reading'.rows["search"] = reading.rows["search"]
        /\ reading' \in [at : {"idle", "searched", "gathered"}, viewer : Viewer \cup {NoViewer},
                         rows : [Place -> Row \cup {NoRow}]]
    <3> DEFINE c == Contributed(r.store, r.read)
               rows == [reading.rows EXCEPT !["contributed"] = c]
    <3>1. c \in Row \cup {NoRow}
      BY <2>3, ContributedOK
    <3> HIDE DEF c
    <3>2. rows \in [Place -> Row \cup {NoRow}] /\ rows["search"] = reading.rows["search"]
      BY <1>0, <3>1 DEF Place
    <3>3. reading' = [reading EXCEPT !.at = "gathered", !.rows = rows]
      BY <2>1 DEF c
    <3> HIDE DEF rows
    <3> QED BY <1>0, <3>2, <3>3
  <2>5. mishaps' \in 0..MaxMishaps
    BY <1>0, <2>1, BoundsAreNumbers DEF Mishap, ReadsTypeOK
  <2>6. CASE UNCHANGED <<record, atDrop>>
    BY <1>0, <1>1, <1>2, <2>2, <2>4, <2>5, <2>6 DEF ReadsInv, ReadsTypeOK, DropRemembered, github
  <2>7. CASE /\ record' = r.store /\ r.store # b
             /\ atDrop' = IF r.store.dropped > b.dropped THEN r.store.dropped
                          ELSE IF record # b THEN 0 ELSE atDrop
    <3> DEFINE s == r.store
    <3>1. /\ s.branch \in Push /\ s.dropped \in Push /\ b.branch \in Push /\ b.dropped \in Push
          /\ pushed.old \in Push /\ atDrop \in Push
      BY <1>0, <2>2, <2>3 DEF StoreOK, Store, PushedOK, ReadsTypeOK
    <3>2. s # NoRecord
      BY <2>3, GithubReadsAssumption DEF StoreOK
    <3>3. record = b => /\ b.branch # 0 => b.branch > atDrop
                        /\ atDrop <= b.dropped \/ atDrop <= pushed.old
      BY <2>2, GithubReadsAssumption DEF ReadsInv, DropRemembered, StoreOK
    <3>4. atDrop' \in Push
      BY <2>7, <3>1, BoundsAreNumbers
    <3>5. /\ s.branch # 0 => s.branch > atDrop'
          /\ atDrop' <= s.dropped \/ atDrop' <= pushed.old
      BY <2>3, <2>7, <3>1, <3>3, BoundsAreNumbers DEF DropKept
    <3>6. DropRemembered'
      BY <1>1, <2>7, <3>5 DEF DropRemembered, github
    <3> QED BY <1>2, <2>3, <2>4, <2>5, <2>7, <3>4, <3>6 DEF StoreOK
  <2> QED BY <2>1, <2>6, <2>7
<1> QED BY <1>3, <1>4

-----------------------------------------------------------------------------
(* Settling.  What GitHub answered in this read for a revision.             *)
FreshOf(h)      == {p \in Place : Of(reading.rows[p], h) /\ Fresh(reading.rows[p])}
FreshAnswers(h) == {reading.rows[p].answer : p \in FreshOf(h)}

(* A row settles to an answer of this read's for its revision when there is *)
(* one, else to the last one kept or to none, and it shows conflicts when it*)
(* has them or the last answer carries.                                     *)
LEMMA SettledAnswers ==
  ASSUME ReadsInv, reading.at = "gathered", NEW p \in Place, reading.rows[p] # NoRow,
         NEW h \in Head, reading.rows[p].head = h
  PROVE  /\ SettledRows[p] \in Row /\ SettledRows[p].head = h
         /\ SettledRows[p].conflicts
              <=> \/ SettledRows[p].answer = "conflicts"
                  \/ SettledRows[p].answer = "unknown" /\ Last[h] = "conflicts"
         /\ FreshOf(h) # {} => SettledRows[p].answer \in FreshAnswers(h)
         /\ FreshOf(h) = {} /\ Last[h] # "unknown" =>
              SettledRows[p].answer \in {Last[h], "unknown"}
<1> DEFINE row == reading.rows[p]
           S == SettledRows[p]
           given == IF Fresh(row) \/ Answered(h) = "unknown" THEN row.answer ELSE Answered(h)
           carried == given = "unknown" /\ Last[h] = "conflicts"
           old == reading.rows["contributed"]
<1>1. /\ row \in Row /\ \A q \in Place : reading.rows[q] \in Row \cup {NoRow}
      /\ old \in Row \cup {NoRow} /\ NoRow \notin Row
  BY GithubReadsAssumption DEF ReadsInv, ReadsTypeOK, Place
<1>2. S = [row EXCEPT !.earlier = FALSE, !.answer = given,
                      !.conflicts = given = "conflicts" \/ carried]
  BY DEF SettledRows, Settled
<1>3. Last[h] \in Answer
  <2>1. memory \in KnownAnswers
    BY DEF ReadsInv, ReadsTypeOK, ReadingSound
  <2>2. Last \in [Head -> Answer]
    BY <2>1 DEF Last, NothingKnown, Answer, KnownAnswers
  <2> QED BY <2>2
<1>4. Answered(h) = IF FreshOf(h) # {} THEN reading.rows[CHOOSE q \in FreshOf(h) : TRUE].answer
                    ELSE IF ~Of(old, h) \/ ~old.earlier THEN "unknown"
                    ELSE IF Last[h] # "unknown" THEN Last[h] ELSE old.answer
  BY DEF Answered, FreshOf
<1>5. FreshOf(h) # {} => /\ Answered(h) \in FreshAnswers(h) /\ Answered(h) \in Answer
                         /\ Answered(h) # "unknown"
  <2> SUFFICES ASSUME FreshOf(h) # {}
               PROVE  /\ Answered(h) \in FreshAnswers(h) /\ Answered(h) \in Answer
                      /\ Answered(h) # "unknown"
    OBVIOUS
  <2> DEFINE q == CHOOSE x \in FreshOf(h) : TRUE
  <2>1. q \in FreshOf(h) /\ Answered(h) = reading.rows[q].answer
    BY <1>4
  <2> HIDE DEF q
  <2>2. q \in Place /\ Fresh(reading.rows[q])
    BY <2>1 DEF FreshOf
  <2> QED BY <1>1, <2>1, <2>2 DEF FreshAnswers, Fresh, Row
<1>6. given \in Answer
  <2>1. Answered(h) \in Answer
    BY <1>1, <1>3, <1>4, <1>5 DEF Of, Row, Answer
  <2> QED BY <1>1, <2>1 DEF Row
<1>7. Fresh(row) => p \in FreshOf(h) /\ row.answer \in FreshAnswers(h)
  BY DEF FreshOf, FreshAnswers, Of
<1>8. FreshOf(h) # {} => given \in FreshAnswers(h)
  BY <1>5, <1>7
<1>9. FreshOf(h) = {} /\ Last[h] # "unknown" => given \in {Last[h], "unknown"}
  <2> SUFFICES ASSUME FreshOf(h) = {}, Last[h] # "unknown"
               PROVE  given \in {Last[h], "unknown"}
    OBVIOUS
  <2>1. ~Fresh(row)
    BY <1>7
  <2>2. CASE Answered(h) # "unknown"
    BY <1>4, <2>1, <2>2
  <2>3. CASE Answered(h) = "unknown"
    <3>1. row.earlier => p = "contributed"
      BY DEF ReadsInv, ReadingSound, Place
    <3>2. ~row.earlier
      BY <1>3, <1>4, <2>3, <3>1 DEF Of
    <3> QED BY <2>1, <2>3, <3>2 DEF Fresh
  <2> QED BY <2>2, <2>3
<1> HIDE DEF given
<1>10. /\ S \in Row /\ S.head = h /\ S.answer = given
       /\ S.conflicts <=> (given = "conflicts" \/ carried)
  BY <1>1, <1>2, <1>6 DEF Row
<1> QED BY <1>8, <1>9, <1>10

(* Each revision settles to the newest answer there is for it.              *)
LEMMA NewestSettled ==
  ASSUME ReadsInv, reading.at = "gathered", NEW h \in Head, NewestAfter(h) # {}
  PROVE  /\ KeptAnswer(h) \in NewestAfter(h)
         /\ NewestAfter(h) \subseteq {"clean", "conflicts"}
         /\ reading.viewer # NoViewer
         /\ \A p \in Place : Of(reading.rows[p], h) =>
              SettledRows[p].answer \in NewestAfter(h) \cup {"unknown"}
<1> DEFINE R(x) == reading.rows[x]
           S(x) == SettledRows[x]
           N == NewestAfter(h)
<1>1. \A x \in Place : Of(S(x), h) <=> Of(R(x), h)
  <2> SUFFICES ASSUME NEW x \in Place PROVE Of(S(x), h) <=> Of(R(x), h)
    OBVIOUS
  <2>1. CASE R(x) = NoRow
    BY <2>1 DEF SettledRows, Settled, Of
  <2>2. CASE R(x) # NoRow
    <3>1. R(x) \in Row
      BY <2>2 DEF ReadsInv, ReadsTypeOK
    <3>2. S(x) \in Row /\ S(x).head = R(x).head
      BY <2>2, <3>1, SettledAnswers DEF Row
    <3> QED BY <2>2, <3>2, GithubReadsAssumption DEF Of
  <2> QED BY <2>1, <2>2
<1>2. ASSUME NEW x \in Place, Of(R(x), h)
      PROVE  /\ S(x).answer \in Answer
             /\ S(x).conflicts <=> \/ S(x).answer = "conflicts"
                                   \/ S(x).answer = "unknown" /\ Last[h] = "conflicts"
             /\ FreshOf(h) # {} => S(x).answer \in FreshAnswers(h)
             /\ FreshOf(h) = {} /\ Last[h] # "unknown" => S(x).answer \in {Last[h], "unknown"}
  BY <1>2, SettledAnswers DEF Of, Row
<1>3. KeptAnswer(h) = IF \E x \in Place : Of(R(x), h) /\ S(x).conflicts THEN "conflicts"
                      ELSE IF \E x \in Place : Of(R(x), h) /\ S(x).answer = "clean" THEN "clean"
                      ELSE "unknown"
  BY <1>1 DEF KeptAnswer
<1>4. /\ reading.viewer # NoViewer
      /\ N = IF FreshOf(h) # {} THEN FreshAnswers(h)
             ELSE IF memory.viewer = reading.viewer THEN newest[h] ELSE {}
      /\ FreshOf(h) = {} => \E x \in Place : Of(R(x), h) /\ (S(x).answer # "unknown" \/ S(x).conflicts)
  <2> DEFINE of    == {x \in Place : Of(R(x), h)}
             fresh == {x \in of : Fresh(R(x))}
             known == IF memory.viewer = reading.viewer THEN newest[h] ELSE {}
  <2>1. fresh = FreshOf(h) /\ {R(x).answer : x \in fresh} = FreshAnswers(h)
    BY DEF FreshOf, FreshAnswers
  <2>2. N = IF reading.viewer = NoViewer THEN {}
            ELSE IF fresh # {} THEN {R(x).answer : x \in fresh}
            ELSE IF \E x \in of : S(x).answer # "unknown" \/ S(x).conflicts THEN known ELSE {}
    BY DEF NewestAfter
  <2> QED BY <2>1, <2>2
<1> HIDE DEF S, N
<1>5. CASE FreshOf(h) # {}
  <2>1. PICK x \in Place : Of(R(x), h) /\ Fresh(R(x))
    BY <1>5 DEF FreshOf
  <2>2. N = FreshAnswers(h) /\ N \subseteq {"clean", "conflicts"}
    <3>1. ASSUME NEW y \in FreshOf(h) PROVE R(y).answer \in {"clean", "conflicts"}
      BY <3>1 DEF FreshOf, Fresh, Row, Answer, ReadsInv, ReadsTypeOK
    <3> QED BY <1>4, <1>5, <3>1 DEF FreshAnswers
  <2>3. \A y \in Place : Of(R(y), h) => S(y).answer \in N /\ (S(y).conflicts <=> S(y).answer = "conflicts")
    BY <1>2, <1>5, <2>2
  <2>4. KeptAnswer(h) \in N
    BY <1>3, <2>1, <2>2, <2>3
  <2> QED BY <1>4, <2>2, <2>3, <2>4 DEF S, N
<1>6. CASE FreshOf(h) = {}
  <2>1. N = newest[h] /\ newest[h] # {} /\ memory.viewer = reading.viewer
    BY <1>4, <1>6 DEF N
  <2>2. memory # NoMemory /\ Last = memory.answers
    BY <1>4, <2>1 DEF Last, ReadsInv, ReadingSound
  <2>3. Last[h] \in newest[h] /\ newest[h] \subseteq {"clean", "conflicts"}
    BY <2>1, <2>2 DEF ReadsInv, ReadsTypeOK, AnswersKnown, Known, Backed
  <2>4. PICK x \in Place : Of(R(x), h) /\ (S(x).answer # "unknown" \/ S(x).conflicts)
    BY <1>4, <1>6
  <2>5. \A y \in Place : Of(R(y), h) => S(y).answer \in {Last[h], "unknown"}
    BY <1>2, <1>6, <2>3
  <2>6. KeptAnswer(h) = Last[h]
    <3>1. CASE Last[h] = "conflicts"
      BY <1>2, <1>3, <2>4, <2>5, <3>1
    <3>2. CASE Last[h] = "clean"
      BY <1>2, <1>3, <2>4, <2>5, <3>2
    <3> QED BY <2>3, <3>1, <3>2
  <2> QED BY <1>4, <2>1, <2>3, <2>5, <2>6 DEF S, N
<1> QED BY <1>5, <1>6

LEMMA ReadsSettle == ASSUME ReadsInv, Settle PROVE ReadsInv'
<1>1. /\ reading.at = "gathered" /\ memory' = KeptAnswers /\ reading' = Idle
      /\ shown' = [viewer |-> reading.viewer,
                   conflicts |-> {h \in Head : \E p \in Place : Of(SettledRows[p], h)
                                                             /\ SettledRows[p].conflicts}]
      /\ newest' = [h \in Head |-> NewestAfter(h)]
      /\ UNCHANGED <<github, record, atDrop>>
  BY DEF Settle
<1>2. \/ snapshot' = [known |-> KeptAnswers, current |-> TRUE] /\ mishaps' = mishaps
      \/ Mishap /\ snapshot' = [snapshot EXCEPT !.current = FALSE]
  BY DEF Settle
<1>3. KeptAnswers \in KnownAnswers /\ reading.viewer \in Viewer \cup {NoViewer}
  BY DEF KeptAnswers, KeptAnswer, KnownAnswers, NothingKnown, Answer, ReadsInv, ReadsTypeOK
<1>4. newest' \in [Head -> SUBSET {"clean", "conflicts"}]
  BY <1>1, NewestSettled
<1>5. reading' \in [at : {"idle", "searched", "gathered"}, viewer : Viewer \cup {NoViewer},
                    rows : [Place -> Row \cup {NoRow}]]
      /\ reading'.at = "idle" /\ reading'.rows["search"] = NoRow
  BY <1>1 DEF Idle, NoRows, Place
<1>6. /\ snapshot' \in [known : KnownAnswers \cup {NoMemory}, current : BOOLEAN]
      /\ mishaps' \in 0..MaxMishaps
      /\ snapshot'.current => snapshot'.known = memory'
  <2>0. snapshot \in [known : KnownAnswers \cup {NoMemory}, current : BOOLEAN]
        /\ mishaps \in 0..MaxMishaps
    BY DEF ReadsInv, ReadsTypeOK
  <2>1. CASE snapshot' = [known |-> KeptAnswers, current |-> TRUE] /\ mishaps' = mishaps
    BY <1>1, <1>3, <2>0, <2>1
  <2>2. CASE Mishap /\ snapshot' = [snapshot EXCEPT !.current = FALSE]
    <3>1. mishaps' \in 0..MaxMishaps
      BY <2>0, <2>2, BoundsAreNumbers DEF Mishap
    <3>2. /\ snapshot' \in [known : KnownAnswers \cup {NoMemory}, current : BOOLEAN]
          /\ ~snapshot'.current
      BY <2>0, <2>2
    <3> QED BY <3>1, <3>2
  <2> QED BY <1>2, <2>1, <2>2
<1>7. shown' \in [viewer : Viewer \cup {NoViewer}, conflicts : SUBSET Head]
  BY <1>1, <1>3
<1>8. ReadsTypeOK' /\ pushed'.last >= 1
  BY <1>1, <1>3, <1>4, <1>5, <1>6, <1>7 DEF ReadsInv, ReadsTypeOK, github
<1>9. ReadingSound'
  BY <1>5 DEF ReadingSound
<1>10. Backed(memory)'
  <2>1. memory' # NoMemory
    BY <1>1, <1>3, GithubReadsAssumption
  <2>2. ASSUME NEW h \in Head, newest'[h] # {} PROVE memory'.answers[h] \in newest'[h]
    BY <1>1, <2>2, NewestSettled DEF KeptAnswers
  <2>3. ASSUME NEW h \in shown'.conflicts, shown'.viewer # NoViewer
        PROVE  memory'.viewer = shown'.viewer /\ memory'.answers[h] = "conflicts"
    <3>1. h \in Head /\ \E p \in Place : Of(SettledRows[p], h) /\ SettledRows[p].conflicts
      BY <1>1
    <3>2. KeptAnswer(h) = "conflicts"
      BY <3>1 DEF KeptAnswer
    <3> QED BY <1>1, <2>3, <3>1, <3>2 DEF KeptAnswers
  <2> QED BY <2>1, <2>2, <2>3 DEF Backed
<1>11. AnswersKnown'
  <2>1. memory' # NoMemory
    BY <1>1, <1>3, GithubReadsAssumption
  <2> QED BY <1>6, <1>10, <2>1 DEF AnswersKnown, Known, Backed
<1>12. DropRemembered'
  BY <1>1 DEF ReadsInv, DropRemembered, github
<1> QED BY <1>8, <1>9, <1>11, <1>12 DEF ReadsInv

(* GitHub and the viewer move on between two requests, and the app dies.    *)
LEMMA ReadsMoves ==
  ASSUME ReadsInv, Moves \/ Pushed \/ Lost \/ Login
  PROVE  ReadsInv'
<1>1. UNCHANGED <<reading, memory, record, snapshot, shown, newest, atDrop>>
  BY DEF Moves, Pushed, Lost, Login, ghosts
<1>2. /\ pull \in [state : {"open", "merged", "closed"}, head : Head]
      /\ pushed \in [last : Push, old : Push] /\ pushed.old <= pushed.last /\ pushed.last >= 1
      /\ lost \in BOOLEAN /\ login \in Viewer /\ mishaps \in 0..MaxMishaps
  BY DEF ReadsInv, ReadsTypeOK
<1>3. Mishap => mishaps' \in 0..MaxMishaps
  BY <1>2, BoundsAreNumbers DEF Mishap
<1>4. /\ pull' \in [state : {"open", "merged", "closed"}, head : Head]
      /\ pushed' \in [last : Push, old : Push] /\ pushed'.old <= pushed'.last /\ pushed'.last >= 1
      /\ pushed.old <= pushed'.old
      /\ lost' \in BOOLEAN /\ login' \in Viewer /\ mishaps' \in 0..MaxMishaps
  <2>1. CASE Moves
    <3>1. Moved => pull.head + 1 \in Head
      BY <1>2, BoundsAreNumbers DEF Moved
    <3>2. pull' \in [state : {"open", "merged", "closed"}, head : Head]
      BY <1>2, <2>1, <3>1 DEF Moves
    <3> QED BY <1>2, <2>1, <3>2, BoundsAreNumbers DEF Moves
  <2>2. CASE Pushed
    <3>0. pushed.last \in Nat /\ pushed.old \in Nat /\ pull.head \in Nat /\ pull.head >= 1
      BY <1>2, BoundsAreNumbers
    <3>1. CASE Moved /\ pushed' = [pushed EXCEPT !.last = @ + 1]
      <4>1. pushed.last + 1 \in Push
        BY <3>0, <3>1, BoundsAreNumbers DEF Moved
      <4>2. pushed' \in [last : Push, old : Push] /\ pushed'.last = pushed.last + 1
            /\ pushed'.old = pushed.old
        BY <1>2, <3>1, <4>1
      <4> QED BY <1>2, <2>2, <3>0, <4>2 DEF Pushed
    <3>2. CASE pushed.old < pushed.last /\ pushed' = [pushed EXCEPT !.old = @ + 1]
      <4>1. pushed.old + 1 \in Push
        BY <1>2, <3>0, <3>2, BoundsAreNumbers
      <4>2. pushed' \in [last : Push, old : Push] /\ pushed'.last = pushed.last
            /\ pushed'.old = pushed.old + 1
        BY <1>2, <3>2, <4>1
      <4> QED BY <1>2, <2>2, <3>0, <3>2, <4>2 DEF Pushed
    <3> QED BY <2>2, <3>1, <3>2 DEF Pushed
  <2>3. CASE Lost
    BY <1>2, <1>3, <2>3, BoundsAreNumbers DEF Lost
  <2>4. CASE Login
    BY <1>2, <1>3, <2>4, BoundsAreNumbers DEF Login
  <2> QED BY <2>1, <2>2, <2>3, <2>4
<1>5. ReadsTypeOK' /\ pushed'.last >= 1
  BY <1>1, <1>4 DEF ReadsInv, ReadsTypeOK
<1>6. ReadingSound' /\ AnswersKnown'
  BY <1>1 DEF ReadsInv, ReadingSound, AnswersKnown, Known, Backed
<1>7. DropRemembered'
  <2>1. record # NoRecord => atDrop \in Nat /\ record.dropped \in Nat
    BY BoundsAreNumbers DEF ReadsInv, ReadsTypeOK, Store
  <2>2. pushed.old \in Nat /\ pushed'.old \in Nat
    BY <1>2, <1>4, BoundsAreNumbers
  <2> QED BY <1>1, <1>4, <2>1, <2>2 DEF ReadsInv, DropRemembered
<1> QED BY <1>5, <1>6, <1>7 DEF ReadsInv

LEMMA ReadsCrash == ASSUME ReadsInv, Crash PROVE ReadsInv'
<1>1. /\ reading' = Idle /\ memory' = NoMemory
      /\ UNCHANGED <<github, record, snapshot, mishaps, atDrop>>
      /\ IF snapshot.current THEN UNCHANGED <<shown, newest>>
         ELSE shown' = NothingShown /\ newest' = NothingRead
  BY DEF Crash
<1>2. reading' \in [at : {"idle", "searched", "gathered"}, viewer : Viewer \cup {NoViewer},
                    rows : [Place -> Row \cup {NoRow}]]
      /\ reading'.at = "idle" /\ reading'.rows["search"] = NoRow
  BY <1>1 DEF Idle, NoRows, Place
<1>3. /\ shown' \in [viewer : Viewer \cup {NoViewer}, conflicts : SUBSET Head]
      /\ newest' \in [Head -> SUBSET {"clean", "conflicts"}]
  BY <1>1 DEF NothingShown, NothingRead, ReadsInv, ReadsTypeOK
<1>4. ReadsTypeOK' /\ pushed'.last >= 1
  BY <1>1, <1>2, <1>3 DEF ReadsInv, ReadsTypeOK, github
<1>5. Backed(snapshot.known)'
  <2>1. CASE snapshot.current
    BY <1>1, <2>1 DEF ReadsInv, AnswersKnown, Backed
  <2>2. CASE ~snapshot.current
    BY <1>1, <2>2 DEF Backed, NothingRead, NothingShown
  <2> QED BY <2>1, <2>2
<1>6. AnswersKnown'
  BY <1>1, <1>5 DEF AnswersKnown, Known, Backed
<1>7. ReadingSound' /\ DropRemembered'
  BY <1>1, <1>2 DEF ReadsInv, ReadingSound, DropRemembered, github
<1> QED BY <1>4, <1>6, <1>7 DEF ReadsInv

LEMMA ReadsInvHolds == ReadsSpec => []ReadsInv
<1>1. ReadsInv /\ UNCHANGED readsVars => ReadsInv'
  BY DEF readsVars, ReadsInv, ReadsTypeOK, ReadingSound, AnswersKnown, Backed, Known, DropRemembered
<1>2. ReadsInv /\ [ReadsNext]_readsVars => ReadsInv'
  BY <1>1, ReadsSearch, ReadsGather, ReadsSettle, ReadsMoves, ReadsCrash DEF ReadsNext
<1> QED BY ReadsInvInit, <1>2, PTL DEF ReadsSpec

(* The reads' state has its types throughout.                               *)
THEOREM ReadsTyped == ReadsSpec => []ReadsTypeOK
<1>1. ReadsInv => ReadsTypeOK
  BY DEF ReadsInv
<1> QED BY ReadsInvHolds, <1>1, PTL

(* contributions.rs: a branch that was dropped comes back only by a newer   *)
(* push, however often the same pushes are read and whatever is not saved.  *)
THEOREM DroppedBranchesStay == ReadsSpec => []BranchStaysDropped
<1>1. ReadsInv => BranchStaysDropped
  BY DEF ReadsInv, DropRemembered, BranchStaysDropped
<1> QED BY ReadsInvHolds, <1>1, PTL

(* The step at which a read ends and its rows are shown.                    *)
LEMMA OnlySettleShows ==
  ASSUME [ReadsNext]_readsVars, reading.at = "gathered", reading'.at = "idle", memory' # NoMemory
  PROVE  Settle
<1>1. reading' # reading
  OBVIOUS
<1> QED BY <1>1 DEF ReadsNext, readsVars, Search, Gather, Moves, Pushed, Lost, Login, Crash

(* merge.rs: a conflict shown for a revision is shown still by the next read*)
(* that has the revision's row and no answer of GitHub's for it.            *)
THEOREM ConflictsCarried == ReadsSpec => ConflictKept
<1>1. ASSUME ReadsInv, [ReadsNext]_readsVars, NEW h \in shown.conflicts,
             reading.at = "gathered", reading'.at = "idle", memory' # NoMemory,
             shown.viewer = reading.viewer, reading.viewer # NoViewer,
             \A p \in Place : Of(reading.rows[p], h) => ~Fresh(reading.rows[p]),
             \E p \in Place : Of(reading.rows[p], h)
      PROVE  h \in shown'.conflicts
  <2>1. Settle
    BY <1>1, OnlySettleShows
  <2>2. h \in Head /\ memory # NoMemory
    BY <1>1 DEF ReadsInv, ReadsTypeOK, ReadingSound
  <2>3. Last[h] = "conflicts"
    BY <1>1, <2>2 DEF ReadsInv, AnswersKnown, Known, Backed, Last
  <2>4. PICK p \in Place : Of(reading.rows[p], h)
    BY <1>1
  <2>5. FreshOf(h) = {}
    BY <1>1 DEF FreshOf
  <2>6. /\ SettledRows[p] \in Row /\ SettledRows[p].head = h
        /\ SettledRows[p].conflicts
    BY <1>1, <2>2, <2>3, <2>4, <2>5, SettledAnswers DEF Of
  <2>7. Of(SettledRows[p], h)
    BY <2>6, GithubReadsAssumption DEF Of
  <2> QED BY <2>1, <2>2, <2>6, <2>7 DEF Settle
<1>2. ReadsInv /\ [ReadsNext]_readsVars =>
        [\A h \in shown.conflicts :
           reading.at = "gathered" /\ reading'.at = "idle" /\ memory' # NoMemory
             /\ shown.viewer = reading.viewer /\ reading.viewer # NoViewer
             /\ (\A p \in Place : Of(reading.rows[p], h) => ~Fresh(reading.rows[p]))
             /\ (\E p \in Place : Of(reading.rows[p], h))
           => h \in shown'.conflicts]_readsVars
  BY <1>1
<1> QED BY ReadsInvHolds, <1>2, PTL DEF ReadsSpec, ConflictKept

(* merge.rs: no row shows an older answer than the newest GitHub gave for   *)
(* its revision, though the record of an earlier read has one.              *)
THEOREM NewestAnswersShown == ReadsSpec => NoOlderAnswer
<1>1. ASSUME ReadsInv, [ReadsNext]_readsVars, NEW p \in Place,
             reading.at = "gathered", reading'.at = "idle", memory' # NoMemory,
             SettledRows[p] # NoRow, SettledRows[p].answer # "unknown",
             newest'[SettledRows[p].head] # {}
      PROVE  SettledRows[p].answer \in newest'[SettledRows[p].head]
  <2>1. Settle
    BY <1>1, OnlySettleShows
  <2>2. reading.rows[p] # NoRow /\ reading.rows[p] \in Row
    BY <1>1 DEF SettledRows, Settled, ReadsInv, ReadsTypeOK
  <2> DEFINE h == reading.rows[p].head
  <2>3. h \in Head /\ SettledRows[p].head = h
    BY <1>1, <2>2, SettledAnswers DEF Row
  <2>4. newest'[h] = NewestAfter(h)
    BY <2>1, <2>3 DEF Settle
  <2>5. Of(reading.rows[p], h)
    BY <2>2 DEF Of
  <2> QED BY <1>1, <2>3, <2>4, <2>5, NewestSettled
<1>2. ReadsInv /\ [ReadsNext]_readsVars =>
        [\A p \in Place :
           reading.at = "gathered" /\ reading'.at = "idle" /\ memory' # NoMemory =>
             LET row == SettledRows[p]
             IN row # NoRow /\ row.answer # "unknown" /\ newest'[row.head] # {}
                  => row.answer \in newest'[row.head]]_readsVars
  BY <1>1
<1> QED BY ReadsInvHolds, <1>2, PTL DEF ReadsSpec, NoOlderAnswer

-----------------------------------------------------------------------------
(* The three together, as they are run: a step of one is a step of none of  *)
(* the others, so each keeps what was proved of it alone, its types among   *)
(* it (reads.rs, monitor.rs and the host of the notch).                     *)
THEOREM NotchPartsTyped == Spec => []TypeOK
<1>1. Init => ReadsInit /\ MonitorInit /\ NotchInit
  BY DEF Init
<1>2. [Next]_<<part, readsVars, monitorVars, notchVars>> =>
        [ReadsNext]_readsVars /\ [MonitorNext]_monitorVars /\ [NotchNext]_notchVars
  BY DEF Next
<1>3. ReadsTypeOK /\ MonitorTypeOK /\ NotchTypeOK => TypeOK
  BY DEF TypeOK
<1> QED
  BY <1>1, <1>2, <1>3, ReadsTyped, MonitorTyped, NotchTyped, PTL
  DEF Spec, ReadsSpec, MonitorSpec, NotchSpec
================================================================================
