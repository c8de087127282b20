----------------------------- MODULE NotchHost -----------------------------
(***************************************************************************)
(* side_notch/host.rs with the pipe to the macOS helper (transport.rs) and *)
(* the thread that drives both (host/app.rs): a step takes the settings it *)
(* was handed, collects the reads that answered, talks to the helper,      *)
(* starts the reads that are due and tells the settings screen.  The reads *)
(* run on threads of their own, the screen saves settings, and the helper  *)
(* shows frames, reports actions and dies, all between any two parts of a  *)
(* step.                                                                   *)
(*                                                                         *)
(* The host has a poll per provider and one each for sessions and pull     *)
(* requests; they are alike and share nothing but the frame, so there is   *)
(* one.  A reading is the revision of the shared read it was taken at, and *)
(* settings are the revision they were saved as and whether the notch is   *)
(* on.  Left out: the displays, so the notch has room whenever it is on,   *)
(* the error a failed action shows on it, and intervals: a read may start  *)
(* at any step.  The screen saves one change at a time.                    *)
(*                                                                         *)
(* A definition placed just before the one whose name it extends is that   *)
(* one with a mistake in it; nothing uses it.  It stands for the bug one of*)
(* the properties rules out: with it in place, that property fails.        *)
(***************************************************************************)
EXTENDS Naturals

CONSTANTS NoSettings, NoFrame,
          Threads,     \* bound: threads that read, the ones that never answer among them
          MaxReplaced, \* bound: replacements of the shared read
          MaxSaves,    \* bound: saves of the settings
          MaxLost,     \* bound: helpers, and saves of the host's, that fail
          MaxEvents    \* bound: all of these together

Revision == 0..MaxReplaced
Snapshot == [revision : 0..MaxSaves, enabled : BOOLEAN]

ASSUME NotchAssumption ==
  /\ Threads \in Nat /\ MaxReplaced \in Nat /\ MaxSaves \in Nat /\ MaxLost \in Nat
  /\ MaxEvents \in Nat
  /\ NoSettings \notin Snapshot

(* A value is one more than the revision it was read at; 0 is none yet.     *)
Value == 0..MaxReplaced + 1
Frame == [value : Value, revision : 0..MaxSaves]

VARIABLES latest,  \* the revision of the shared read
          poll,    \* Poll of the provider
          idle,    \* threads with nothing to do
          asked,   \* threads that read
          answers, \* of each revision, threads that read it and have not handed it over
          config,  \* side-notch.json and its revision
          saved,   \* what the screen saved and has not handed over
          desired, \* Controller.desired
          drawn,   \* Host.snapshot
          dirty,   \* Delivery.dirty
          runtimeError,
          emitted, \* last_emitted
          link,    \* Pipe.connection; "dead": the helper at its other end is gone
          waiting, \* next_start is not reached
          frame,   \* the last frame the helper was sent
          awaiting,\* awaiting_ack: the frame is on its way, overdue, or its ack is
          at,      \* the part of the step that comes next
          failed     \* helpers and saves that failed so far

notchVars == <<latest, poll, idle, asked, answers, config, saved, desired, drawn, dirty, runtimeError,
               emitted, link, waiting, frame, awaiting, at, failed>>
reads  == <<idle, asked, answers>>
polled == <<latest, poll, reads>>
screen == <<config, saved, desired>>
pipe   == <<link, waiting, frame, awaiting>>

NotchTypeOK ==
  /\ latest \in Revision
  /\ poll \in [value : Value, readAt : Revision, reading : {"no", "yes", "overdue"}]
  /\ idle \in Nat /\ asked \in Nat /\ answers \in [Revision -> Nat]
  /\ config \in Snapshot /\ drawn \in Snapshot
  /\ saved \in Snapshot \cup {NoSettings} /\ desired \in Snapshot \cup {NoSettings}
  /\ dirty \in BOOLEAN /\ runtimeError \in BOOLEAN
  /\ emitted \in [revision : 0..MaxSaves, error : BOOLEAN] \cup {NoSettings}
  /\ link \in {"none", "open", "dead"} /\ waiting \in BOOLEAN
  /\ frame \in Frame \cup {NoFrame}
  /\ awaiting \in {"nothing", "frame", "overdue", "ack"}
  /\ at \in {"desire", "collect", "exchange", "start", "publish"}
  /\ failed \in 0..MaxLost

NotchInit ==
  /\ latest = 0
  /\ idle = Threads /\ asked = 0 /\ answers = [r \in Revision |-> 0]
  /\ poll = [value |-> 0, readAt |-> 0, reading |-> "no"]
  /\ config \in [revision : {0}, enabled : BOOLEAN] /\ drawn = config
  /\ saved = NoSettings /\ desired = NoSettings
  /\ dirty = TRUE /\ runtimeError = FALSE /\ emitted = NoSettings
  /\ link = "none" /\ waiting = FALSE /\ frame = NoFrame /\ awaiting = "nothing"
  /\ at = "desire" /\ failed = 0

Room      == latest + config.revision + failed < MaxEvents
MoreSaves == config.revision < MaxSaves /\ Room
Fails     == failed < MaxLost /\ Room /\ failed' = failed + 1
Succeeds  == failed' = failed

-----------------------------------------------------------------------------
(* Poll.  A read may start when none within its deadline is under way: the  *)
(* interval is over, the user asked for one or the screens changed.  It is  *)
(* due when the shared read moved or there was none yet.                    *)
Free    == poll.reading # "yes"
ReadDue == Free /\ (poll.readAt # latest \/ poll.value = 0)

FinishedNow(r) == [value |-> r + 1, readAt |-> latest, reading |-> "no"]

Finished(r) == [value |-> r + 1, readAt |-> r, reading |-> "no"]

-----------------------------------------------------------------------------
(* The parts of a step.  Host::desire: settings handed over are dropped     *)
(* unless they are the ones saved last.                                     *)
Desire ==
  /\ at = "desire" /\ at' = "collect"
  /\ desired' = NoSettings
  /\ IF desired # NoSettings /\ desired.revision = config.revision
       THEN drawn' = desired /\ waiting' = FALSE /\ dirty' = TRUE
       ELSE UNCHANGED <<drawn, waiting, dirty>>
  /\ UNCHANGED <<polled, config, saved, runtimeError, emitted, link, frame, awaiting, failed>>

(* collect: the answers that arrived, in whatever order they did.           *)
Collect ==
  /\ at = "collect"
  /\ \E r \in Revision :
       /\ answers[r] > 0
       /\ answers' = [answers EXCEPT ![r] = @ - 1] /\ idle' = idle + 1
       /\ poll' = Finished(r)
       /\ dirty' = (dirty \/ Finished(r).value # poll.value)
  /\ UNCHANGED <<latest, asked, screen, drawn, runtimeError, emitted, pipe, at, failed>>

(* Pipe::fail and close: the helper is ended with the connection.           *)
Hangup == link' = "none" /\ awaiting' = "nothing" /\ frame' = NoFrame

(* exchange, up to what connect answers: the notch is off, it is not time to*)
(* try again, the helper does not start, a new helper, the one there is.    *)
Close ==
  /\ ~drawn.enabled
  /\ Hangup /\ runtimeError' = FALSE /\ at' = "publish" /\ Succeeds
  /\ UNCHANGED <<waiting, dirty>>

Wait ==
  /\ drawn.enabled /\ link = "none" /\ waiting
  /\ at' = "publish" /\ Succeeds /\ UNCHANGED <<pipe, dirty, runtimeError>>

CannotStart ==
  /\ drawn.enabled /\ link = "none" /\ ~waiting
  /\ waiting' = TRUE /\ runtimeError' = TRUE /\ at' = "publish" /\ Fails
  /\ UNCHANGED <<link, frame, awaiting, dirty>>

Starts ==
  /\ drawn.enabled /\ link = "none" /\ ~waiting
  /\ link' = "open" /\ dirty' = TRUE /\ at' = "exchange" /\ Succeeds
  /\ UNCHANGED <<waiting, frame, awaiting, runtimeError>>

Connected ==
  /\ drawn.enabled /\ link # "none"
  /\ at' = "exchange" /\ Succeeds /\ UNCHANGED <<pipe, dirty, runtimeError>>

Connect ==
  /\ at = "collect"
  /\ Close \/ Wait \/ CannotStart \/ Starts \/ Connected
  /\ UNCHANGED <<polled, screen, drawn, emitted>>

(* receive and handle: the ack, and what the user did on the notch.  To show*)
(* it on hover the host saves the settings it holds, with that change.      *)
Confirmed ==
  /\ awaiting = "ack" /\ awaiting' = "nothing" /\ runtimeError' = FALSE
  /\ Succeeds /\ UNCHANGED <<config, drawn, dirty>>

OpenPage ==
  /\ dirty' = TRUE
  /\ Succeeds /\ UNCHANGED <<config, drawn, awaiting, runtimeError>>

SetShow ==
  /\ \/ /\ MoreSaves
        /\ config' = [revision |-> config.revision + 1, enabled |-> drawn.enabled]
        /\ drawn' = config' /\ Succeeds
     \/ Fails /\ UNCHANGED <<config, drawn>>
  /\ dirty' = TRUE /\ UNCHANGED <<awaiting, runtimeError>>

ScreensChanged ==
  /\ drawn' = config /\ dirty' = TRUE
  /\ Succeeds /\ UNCHANGED <<config, awaiting, runtimeError>>

Receive ==
  /\ at = "exchange"
  /\ Confirmed \/ OpenPage \/ SetShow \/ ScreensChanged
  /\ UNCHANGED <<polled, saved, desired, emitted, link, waiting, frame, at>>

(* A helper that is gone, or whose ack is overdue, is given up; else what   *)
(* changed is sent once the last frame is confirmed, as is a heartbeat.     *)
Unanswered == link = "dead" \/ awaiting = "overdue"
Ready      == awaiting = "nothing"
Rail       == [value |-> poll.value, revision |-> drawn.revision]

Failed ==
  /\ Hangup /\ waiting' = TRUE /\ runtimeError' = TRUE /\ dirty' = TRUE /\ at' = "publish"

GiveUp == Unanswered /\ Failed /\ Succeeds

Send ==
  /\ ~Unanswered /\ Ready
  /\ \/ frame' = Rail /\ awaiting' = "frame" /\ dirty' = FALSE /\ at' = "start" /\ Succeeds
          /\ UNCHANGED <<link, waiting, runtimeError>>
     \/ Failed /\ Fails

Hold ==
  /\ ~Unanswered /\ ~(Ready /\ dirty)
  /\ at' = "start" /\ Succeeds /\ UNCHANGED <<pipe, dirty, runtimeError>>

Deliver ==
  /\ at = "exchange"
  /\ GiveUp \/ Send \/ Hold
  /\ UNCHANGED <<polled, screen, drawn, emitted>>

(* start_reads.                                                             *)
Start ==
  /\ at = "start" /\ at' = "publish"
  /\ \/ /\ Free /\ poll' = [poll EXCEPT !.reading = "yes"]
        /\ idle > 0 /\ idle' = idle - 1 /\ asked' = asked + 1
     \/ ~ReadDue /\ UNCHANGED <<idle, asked, poll>>
  /\ UNCHANGED <<latest, answers, screen, drawn, dirty, runtimeError, emitted, pipe, failed>>

(* publish: the screen is told of settings only if they were saved last.    *)
Status == [revision |-> drawn.revision, error |-> runtimeError]

Publish ==
  /\ at = "publish" /\ at' = "desire"
  /\ emitted' = IF drawn.revision = config.revision THEN Status ELSE emitted
  /\ UNCHANGED <<polled, screen, drawn, dirty, runtimeError, pipe, failed>>

HostStep == Desire \/ Collect \/ Connect \/ Receive \/ Deliver \/ Start \/ Publish

-----------------------------------------------------------------------------
(* The settings screen: save_notch_settings saves, then hands over what it  *)
(* saved unless it was saved over meanwhile.                                *)
Save ==
  /\ saved = NoSettings /\ MoreSaves
  /\ \E on \in BOOLEAN : config' = [revision |-> config.revision + 1, enabled |-> on]
  /\ saved' = config' /\ UNCHANGED desired

Sync ==
  /\ saved # NoSettings
  /\ desired' = IF saved.revision = config.revision THEN saved ELSE desired
  /\ saved' = NoSettings /\ UNCHANGED config

Screen ==
  /\ Save \/ Sync
  /\ UNCHANGED <<polled, drawn, dirty, runtimeError, emitted, pipe, at, failed>>

(* The shared read: a read of the host's, or of anyone's, may replace it.   *)
Replaced == latest < MaxReplaced /\ Room /\ latest' = latest + 1 /\ UNCHANGED <<asked, answers>>

Answers ==
  /\ asked > 0 /\ asked' = asked - 1
  /\ answers' = [answers EXCEPT ![latest] = @ + 1] /\ UNCHANGED latest

Readers ==
  /\ Replaced \/ Answers
  /\ UNCHANGED <<poll, idle, screen, drawn, dirty, runtimeError, emitted, pipe, at, failed>>

(* Time: a read past its deadline, and the wait before a retry.             *)
Overdue ==
  /\ poll.reading = "yes" /\ idle > 0
  /\ poll' = [poll EXCEPT !.reading = "overdue"] /\ UNCHANGED waiting

Retry == waiting /\ waiting' = FALSE /\ UNCHANGED poll

Time ==
  /\ Overdue \/ Retry
  /\ UNCHANGED <<latest, reads, screen, drawn, dirty, runtimeError, emitted, link, frame, awaiting,
                 at, failed>>

(* The helper shows the frame and acks it, takes too long, or dies.         *)
Helper ==
  /\ link = "open"
  /\ \/ awaiting \in {"frame", "overdue"} /\ awaiting' = "ack" /\ Succeeds /\ UNCHANGED link
     \/ awaiting = "frame" /\ awaiting' = "overdue" /\ Fails /\ UNCHANGED link
     \/ link' = "dead" /\ Fails /\ UNCHANGED awaiting
  /\ UNCHANGED <<polled, screen, drawn, dirty, runtimeError, emitted, waiting, frame, at>>

NotchNext == HostStep \/ Screen \/ Readers \/ Time \/ Helper

NotchSpec == NotchInit /\ [][NotchNext]_notchVars

-----------------------------------------------------------------------------
(* Whatever answered late or out of order, was saved twice or was lost with *)
(* a helper: once the notch has nothing left to do, it shows the newest     *)
(* reading and the settings saved last, no failure is still reported, and   *)
(* the screen was told so.                                                  *)
Quiet ==
  /\ at = "desire" /\ link = "open" /\ drawn.enabled /\ awaiting = "nothing" /\ ~dirty
  /\ poll.reading = "no" /\ ~ReadDue /\ saved = NoSettings /\ desired = NoSettings

QuietShown ==
  Quiet =>
    /\ frame = [value |-> latest + 1, revision |-> config.revision]
    /\ drawn = config /\ ~runtimeError
    /\ emitted = [revision |-> config.revision, error |-> FALSE]
==============================================================================
