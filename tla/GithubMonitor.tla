---------------------------- MODULE GithubMonitor ----------------------------
(***************************************************************************)
(* github_monitor.rs: the loop that polls the pull requests GithubReads    *)
(* reads and tells of what changed since it last saw them, with the state  *)
(* it keeps on disk so that a restart repeats nothing (monitor.rs).        *)
(*                                                                         *)
(* One pull request of the viewer.  Its facts at GitHub carry the number of*)
(* the change that gave them their value, so that two notifications of the *)
(* same change are told apart from two changes.  Left out: the delay of    *)
(* the polls, their backoff, and the sounds.                               *)
(*                                                                         *)
(* A definition placed just before the one whose name it extends is that   *)
(* one with a mistake in it; nothing uses it.  It stands for the bug one of*)
(* the properties rules out: with it in place, that property fails.        *)
(***************************************************************************)
EXTENDS Naturals

CONSTANTS NoSeen, NoReply,
          MaxChanges,  \* bound: changes of the pull request at GitHub
          MaxFaults    \* bound: failed saves, crashes, notifications turned off

Ci     == {"pending", "failure", "success"}
Review == {"none", "approved", "changes"}
Maybe  == {"yes", "no", "unknown"}     \* Option<bool>
Fact   == {"ci", "review", "conflicts", "ready"}

(* Seen: what was last seen of the pull request.                            *)
Seen == [ci : Ci, review : Review, conflicts : Maybe, ready : Maybe]

ASSUME GithubMonitorAssumption == MaxChanges \in Nat /\ MaxFaults \in Nat /\ NoSeen \notin Seen

Kind == {"CiFailed", "CiPassed", "CiGreenAgain", "Approved", "ChangesRequested",
         "Conflicts", "ConflictsResolved", "ReadyToMerge", "Merged"}

(* Event: the kind, and the change at GitHub it is about.                   *)
Event == [kind : Kind, change : 0..MaxChanges]

VARIABLES facts,    \* the pull request at GitHub: whether it is open, and its facts
          since,    \* the change that gave each fact its value
          changes,  \* changes so far
          notify,   \* the setting github_notifications
          reply,    \* the reply a poll works on
          seen,     \* MonitorState.seen
          vanished, \* MonitorState.vanished
          disk,     \* the saved state
          events,   \* what the poll has still to tell
          told,     \* every event told
          faults    \* faults so far

atGithub == <<facts, since, changes>>
monitorVars == <<facts, since, changes, notify, reply, seen, vanished, disk, events, told, faults>>

Facts == [state : {"open", "merged", "closed"}, ci : Ci, review : Review,
          conflicts : {"yes", "no"}, ready : {"yes", "no"}]

MonitorTypeOK ==
  /\ facts \in Facts
  /\ since \in [Fact -> 0..MaxChanges]
  /\ changes \in 0..MaxChanges /\ faults \in 0..MaxFaults
  /\ notify \in BOOLEAN /\ vanished \in BOOLEAN
  /\ reply \in [mine : Seen \cup {NoSeen}, merged : BOOLEAN, since : [Fact -> 0..MaxChanges]]
               \cup {NoReply}
  /\ seen \in Seen \cup {NoSeen}
  /\ disk \in [seen : Seen \cup {NoSeen}, vanished : BOOLEAN]
  /\ events \subseteq Event /\ told \subseteq Event
  /\ seen # NoSeen => ~vanished

NothingSaved == [seen |-> NoSeen, vanished |-> FALSE]

MonitorInit ==
  /\ facts = [state |-> "open", ci |-> "pending", review |-> "none",
              conflicts |-> "no", ready |-> "no"]
  /\ since = [f \in Fact |-> 0] /\ changes = 0
  /\ notify = TRUE /\ reply = NoReply
  /\ seen = NoSeen /\ vanished = FALSE /\ disk = NothingSaved
  /\ events = {} /\ told = {} /\ faults = 0

Fault == faults < MaxFaults /\ faults' = faults + 1

-----------------------------------------------------------------------------
(* GitHub: one fact changes, and a pull request in conflict is not ready.   *)
Change ==
  /\ changes < MaxChanges /\ changes' = changes + 1
  /\ facts.state = "open"
  /\ \/ \E c \in Ci \ {facts.ci} :
          facts' = [facts EXCEPT !.ci = c] /\ since' = [since EXCEPT !.ci = changes']
     \/ \E r \in Review \ {facts.review} :
          facts' = [facts EXCEPT !.review = r] /\ since' = [since EXCEPT !.review = changes']
     \/ /\ facts.conflicts = "no" /\ facts' = [facts EXCEPT !.conflicts = "yes", !.ready = "no"]
        /\ since' = [since EXCEPT !.conflicts = changes',
                                  !.ready = IF facts.ready = "no" THEN @ ELSE changes']
     \/ /\ facts.conflicts = "yes" /\ facts' = [facts EXCEPT !.conflicts = "no"]
        /\ since' = [since EXCEPT !.conflicts = changes']
     \/ /\ facts.conflicts = "no"
        /\ facts' = [facts EXCEPT !.ready = IF @ = "no" THEN "yes" ELSE "no"]
        /\ since' = [since EXCEPT !.ready = changes']
     \/ \E s \in {"merged", "closed"} : facts' = [facts EXCEPT !.state = s] /\ since' = since
  /\ UNCHANGED <<notify, reply, seen, vanished, disk, events, told, faults>>

-----------------------------------------------------------------------------
(* Seen::of, with what merge::facts does not know of.                       *)
BlurredToNo(fact) == {fact, "no"}

Blurred(fact) == {fact, "unknown"}

(* A reply that GitHub answered: an open pull request may be missing from   *)
(* the list of the viewer's, and a merged one from the list of merged ones. *)
Replies ==
  [mine : {NoSeen} \cup
          IF facts.state # "open" THEN {}
          ELSE [ci : {facts.ci}, review : {facts.review},
                conflicts : Blurred(facts.conflicts), ready : Blurred(facts.ready)],
   merged : IF facts.state = "merged" THEN BOOLEAN ELSE {FALSE},
   since : {since}]

(* poll_once reads; a reply that is not GitHub's own answer changes nothing.*)
Poll ==
  /\ notify /\ reply = NoReply /\ events = {}
  /\ reply' \in Replies
  /\ UNCHANGED <<atGithub, notify, seen, vanished, disk, events, told, faults>>

(* or_last_known.                                                           *)
LastKnown(after) ==
  IF seen = NoSeen THEN after
  ELSE [after EXCEPT !.conflicts = IF @ = "unknown" THEN seen.conflicts ELSE @,
                      !.ready     = IF @ = "unknown" THEN seen.ready ELSE @]

After == IF reply.mine = NoSeen THEN NoSeen ELSE LastKnown(reply.mine)

CiTransition(before, after) ==
  CASE after = "failure" /\ before # "failure" -> {"CiFailed"}
    [] after = "success" /\ before = "pending" -> {"CiPassed"}
    [] after = "success" /\ before = "failure" -> {"CiGreenAgain"}
    [] OTHER -> {}

SubsumedByReady == {"CiPassed", "CiGreenAgain", "Approved", "ConflictsResolved"}

Transitions(before, after) ==
  LET became(f) == before[f] = "no" /\ after[f] = "yes"
      kinds == CiTransition(before.ci, after.ci)
               \cup (IF after.review = before.review THEN {}
                     ELSE {k \in {"Approved"} : after.review = "approved"}
                          \cup {k \in {"ChangesRequested"} : after.review = "changes"})
               \cup {k \in {"Conflicts"} : became("conflicts")}
               \cup {k \in {"ConflictsResolved"} :
                       before.conflicts = "yes" /\ after.conflicts = "no"}
  IN IF became("ready") THEN (kinds \ SubsumedByReady) \cup {"ReadyToMerge"} ELSE kinds

FactOf(kind) ==
  CASE kind \in {"CiFailed", "CiPassed", "CiGreenAgain"} -> "ci"
    [] kind \in {"Approved", "ChangesRequested"} -> "review"
    [] kind \in {"Conflicts", "ConflictsResolved"} -> "conflicts"
    [] kind = "ReadyToMerge" -> "ready"

(* observe: a pull request that left the list is watched for one more read  *)
(* among the merged ones.                                                   *)
Gone == After = NoSeen /\ (seen # NoSeen \/ vanished)

Observed ==
  (IF seen = NoSeen \/ After = NoSeen THEN {}
   ELSE {[kind |-> k, change |-> reply.since[FactOf(k)]] : k \in Transitions(seen, After)})
  \cup (IF Gone /\ reply.merged THEN {[kind |-> "Merged", change |-> 0]} ELSE {})

NextStateUnfiltered == [seen |-> After, vanished |-> ~reply.merged /\ seen # NoSeen]

NextState == [seen |-> After, vanished |-> Gone /\ ~reply.merged /\ seen # NoSeen]

(* advance: the next state is saved before it is kept and told of; one that *)
(* cannot be saved is dropped, with its events.                             *)
Advance ==
  /\ reply # NoReply /\ reply' = NoReply
  /\ \/ /\ disk' = NextState
        /\ seen' = NextState.seen /\ vanished' = NextState.vanished
        /\ events' = Observed
        /\ faults' = faults
     \/ Fault /\ UNCHANGED <<seen, vanished, disk, events>>
  /\ UNCHANGED <<atGithub, notify, told>>

(* notify: one event after the other.                                       *)
Tell ==
  \E e \in events :
    /\ told' = told \cup {e} /\ events' = events \ {e}
    /\ UNCHANGED <<atGithub, notify, reply, seen, vanished, disk, faults>>

-----------------------------------------------------------------------------
(* Notifications are turned off and on between polls: off, what was seen is *)
(* forgotten, and forgotten on disk unless the save fails.                  *)
SetNotify ==
  /\ Fault /\ reply = NoReply /\ events = {}
  /\ notify' = ~notify
  /\ IF notify
       THEN /\ seen' = NoSeen /\ vanished' = FALSE
            /\ disk' \in {disk, NothingSaved}
       ELSE UNCHANGED <<seen, vanished, disk>>
  /\ UNCHANGED <<atGithub, reply, events, told>>

(* The app dies and starts again: what it had not told yet stays untold.    *)
Restart ==
  /\ Fault
  /\ reply' = NoReply /\ events' = {}
  /\ IF notify THEN seen' = disk.seen /\ vanished' = disk.vanished /\ disk' = disk
               ELSE seen' = NoSeen /\ vanished' = FALSE /\ disk' \in {disk, NothingSaved}
  /\ UNCHANGED <<atGithub, notify, told>>

MonitorNext == Change \/ Poll \/ Advance \/ Tell \/ SetNotify \/ Restart

MonitorSpec == MonitorInit /\ [][MonitorNext]_monitorVars

-----------------------------------------------------------------------------
(* No change at GitHub is told twice, whatever GitHub does not know in      *)
(* between, and whatever save or process fails.                             *)
ToldOnce == events \cap told = {}
==============================================================================
