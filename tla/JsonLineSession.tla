--------------------------- MODULE JsonLineSession ---------------------------
(***************************************************************************)
(* json_line_session.rs: one session with a provider's CLI over its pipes. *)
(* The caller writes one request at a time and waits for the answer with   *)
(* its id; a thread reads the CLI's output line by line into a bounded     *)
(* queue; one deadline holds for the whole session.  However the session   *)
(* goes, finish ends the CLI and, when it ended by itself, waits for the   *)
(* thread.                                                                 *)
(*                                                                         *)
(* The CLI may answer late, twice or never, say other things in between,   *)
(* end a line with its own end, flood its output, hang or exit.  It answers*)
(* no request it did not read, and its pipes close when it ends: nothing it*)
(* started holds on to them.  Its error output, which has a thread of its  *)
(* own and is thrown away, is left out, and so is a request too long for   *)
(* the pipe it is written to.                                              *)
(*                                                                         *)
(* A definition placed just before the one whose name it extends is that   *)
(* one with a mistake in it; nothing uses it.  It stands for the bug one of*)
(* the properties rules out: with it in place, that property fails.        *)
(***************************************************************************)
EXTENDS Naturals, Sequences

CONSTANTS Requests,    \* requests of a session, the first is initialize
          QueueLimit,  \* MESSAGE_QUEUE_LIMIT
          PipeLimit,   \* lines the CLI's output pipe holds
          MaxLines,    \* bound: lines the CLI writes
          Other,       \* a line that answers nothing
          Bad          \* a line too long, cut off or not JSON

ASSUME SessionAssumption ==
  /\ Requests \in Nat \ {0} /\ QueueLimit \in Nat \ {0} /\ PipeLimit \in Nat \ {0}
  /\ MaxLines \in Nat /\ Other \notin 1..Requests /\ Bad \notin 1..Requests /\ Other # Bad

Id   == 1..Requests
Line == Id \cup {Other, Bad}

VARIABLES caller,    \* where the thread that runs the session stands
          asked,     \* the request it is at
          outcome,   \* how each request ended
          late,      \* the deadline has passed
          cli,       \* whether the CLI runs
          unread,    \* requests in the pipe to the CLI
          heard,     \* requests the CLI has read
          said,      \* requests it has answered
          lines,     \* lines it has written
          output,    \* lines in the pipe from it
          reader,    \* where the reading thread stands
          inHand,    \* the line it has read and not handed over
          queue,     \* messages handed over
          receiving  \* the caller's end of the queue is there

cliVars     == <<cli, unread, heard, said, lines>>
readerVars  == <<reader, inHand>>
sessionVars == <<caller, asked, outcome, late, cliVars, output, readerVars, queue, receiving>>

SessionTypeOK ==
  /\ caller \in {"unstarted", "sending", "receiving", "waiting", "opening", "finishing",
                 "exiting", "joining", "done"}
  /\ asked \in Id /\ outcome \in [Id -> {"none", "answer", "closed", "failed"}]
  /\ late \in BOOLEAN /\ receiving \in BOOLEAN
  /\ cli \in {"none", "running", "gone"} /\ unread \in Seq(Id)
  /\ heard \subseteq Id /\ said \subseteq Id /\ lines \in 0..MaxLines
  /\ output \in Seq(Line) /\ Len(output) <= PipeLimit + 1
  /\ reader \in {"reading", "handing", "ended"} /\ inHand \in Line
  /\ queue \in Seq(Line) /\ Len(queue) <= QueueLimit

SessionInit ==
  /\ caller = "unstarted" /\ asked = 1 /\ outcome = [r \in Id |-> "none"] /\ late = FALSE
  /\ cli = "none" /\ unread = <<>> /\ heard = {} /\ said = {} /\ lines = 0 /\ output = <<>>
  /\ reader = "reading" /\ inHand = Other /\ queue = <<>> /\ receiving = TRUE

Goto(step) == caller' = step

-----------------------------------------------------------------------------
(* The caller.                                                              *)
Start ==
  /\ caller = "unstarted" /\ Goto("sending") /\ cli' = "running"
  /\ UNCHANGED <<asked, outcome, late, unread, heard, said, lines, output, readerVars, queue,
                 receiving>>

Ends(how) ==
  /\ outcome' = [outcome EXCEPT ![asked] = how] /\ Goto("finishing")
  /\ UNCHANGED <<asked, late, cliVars, output, readerVars, receiving>>

(* Conversation::request: the request is written whatever time is left.     *)
Send ==
  /\ caller = "sending" /\ cli = "running" /\ Goto("receiving")
  /\ unread' = Append(unread, asked)
  /\ UNCHANGED <<asked, outcome, late, cli, heard, said, lines, output, readerVars, queue,
                 receiving>>

SendBroken ==
  /\ caller = "sending" /\ cli = "gone" /\ UNCHANGED queue
  /\ Ends("closed") \/ Ends("failed")

(* receive: it waits for as long as is left, and looks at no message when   *)
(* nothing is.                                                              *)
Await ==
  /\ caller = "receiving" /\ ~late /\ Goto("waiting")
  /\ UNCHANGED <<asked, outcome, late, cliVars, output, readerVars, queue, receiving>>

TimedOut ==
  /\ late /\ caller \in {"receiving", "waiting"} /\ (caller = "waiting" => queue = <<>>)
  /\ Ends("failed") /\ UNCHANGED queue

Disconnected ==
  /\ caller = "waiting" /\ queue = <<>> /\ reader = "ended"
  /\ Ends("closed") /\ UNCHANGED queue

(* The answer may be an error, or one the caller does not accept; it may    *)
(* also have been the last one needed.                                      *)
Receive ==
  /\ caller = "waiting" /\ queue # <<>> /\ queue' = Tail(queue)
  /\ \/ Head(queue) = Bad /\ Ends("failed")
     \/ /\ Head(queue) \notin {asked, Bad} /\ Goto("receiving")
        /\ UNCHANGED <<asked, outcome, late, cliVars, output, readerVars, receiving>>
     \/ Head(queue) = asked /\ Ends("answer")
     \/ /\ Head(queue) = asked /\ asked < Requests
        /\ outcome' = [outcome EXCEPT ![asked] = "answer"]
        /\ IF asked = 1 THEN Goto("opening") /\ UNCHANGED asked
                        ELSE Goto("sending") /\ asked' = asked + 1
        /\ UNCHANGED <<late, cliVars, output, readerVars, receiving>>

(* open: the notification `initialized`, which nobody answers.              *)
Open ==
  /\ caller = "opening"
  /\ IF cli = "running" THEN Goto("sending") /\ asked' = asked + 1
                        ELSE Goto("finishing") /\ UNCHANGED asked
  /\ UNCHANGED <<outcome, late, cliVars, output, readerVars, queue, receiving>>

(* Process::finish: closing the input asks the CLI to exit, dropping the    *)
(* queue frees a reading thread that waits for room in it.                  *)
FinishListening ==
  /\ caller = "finishing" /\ Goto("exiting")
  /\ UNCHANGED <<asked, outcome, late, cliVars, output, readerVars, queue, receiving>>

Finish ==
  /\ caller = "finishing" /\ Goto("exiting") /\ receiving' = FALSE /\ queue' = <<>>
  /\ UNCHANGED <<asked, outcome, late, cliVars, output, readerVars>>

Exited ==
  /\ caller = "exiting" /\ cli = "gone" /\ Goto("joining")
  /\ UNCHANGED <<asked, outcome, late, cliVars, output, readerVars, queue, receiving>>

Kill ==
  /\ caller = "exiting" /\ late /\ Goto("done") /\ cli' = "gone"
  /\ UNCHANGED <<asked, outcome, late, unread, heard, said, lines, output, readerVars, queue,
                 receiving>>

Join ==
  /\ caller = "joining" /\ reader = "ended" /\ Goto("done")
  /\ UNCHANGED <<asked, outcome, late, cliVars, output, readerVars, queue, receiving>>

CallerSteps == \/ Send \/ SendBroken \/ Await \/ TimedOut \/ Disconnected \/ Receive \/ Open
               \/ Finish \/ Exited \/ Kill \/ Join

-----------------------------------------------------------------------------
(* The reading thread.                                                      *)
ReadLine ==
  /\ reader = "reading" /\ output # <<>>
  /\ inHand' = Head(output) /\ output' = Tail(output) /\ reader' = "handing"
  /\ UNCHANGED <<caller, asked, outcome, late, cliVars, queue, receiving>>

HandOverDropping ==
  /\ reader = "handing" /\ reader' = IF receiving THEN "reading" ELSE "ended"
  /\ queue' = IF receiving /\ Len(queue) < QueueLimit THEN Append(queue, inHand) ELSE queue
  /\ UNCHANGED <<caller, asked, outcome, late, cliVars, output, inHand, receiving>>

HandOver ==
  /\ reader = "handing"
  /\ \/ ~receiving /\ reader' = "ended" /\ UNCHANGED queue
     \/ /\ receiving /\ Len(queue) < QueueLimit /\ reader' = "reading"
        /\ queue' = Append(queue, inHand)
  /\ UNCHANGED <<caller, asked, outcome, late, cliVars, output, inHand, receiving>>

ReadEnd ==
  /\ reader = "reading" /\ output = <<>> /\ cli = "gone" /\ reader' = "ended"
  /\ UNCHANGED <<caller, asked, outcome, late, cliVars, output, inHand, queue, receiving>>

ReaderSteps == ReadLine \/ HandOver \/ ReadEnd

-----------------------------------------------------------------------------
(* The CLI and the clock.                                                   *)
Hear ==
  /\ cli = "running" /\ unread # <<>>
  /\ heard' = heard \cup {Head(unread)} /\ unread' = Tail(unread)
  /\ UNCHANGED <<caller, asked, outcome, late, cli, said, lines, output, readerVars, queue,
                 receiving>>

Say(line) ==
  /\ cli = "running" /\ Len(output) < PipeLimit /\ lines < MaxLines
  /\ line \in heard \cup {Other, Bad}
  /\ output' = Append(output, line) /\ lines' = lines + 1
  /\ said' = said \cup ({line} \cap Id)
  /\ UNCHANGED <<caller, asked, outcome, late, cli, unread, heard, readerVars, queue, receiving>>

Exit ==
  /\ cli = "running" /\ cli' = "gone"
  /\ output' \in {output, Append(output, Bad)}
  /\ UNCHANGED <<caller, asked, outcome, late, unread, heard, said, lines, readerVars, queue,
                 receiving>>

Deadline ==
  /\ caller # "unstarted" /\ ~late /\ late' = TRUE
  /\ UNCHANGED <<caller, asked, outcome, cliVars, output, readerVars, queue, receiving>>

SessionNext == \/ Start \/ CallerSteps \/ ReaderSteps \/ Deadline
               \/ Hear \/ Exit \/ \E line \in Line : Say(line)

(* Both threads are scheduled and the deadline comes.  Nothing is assumed of*)
(* the CLI.                                                                 *)
SessionFairness == /\ WF_sessionVars(CallerSteps) /\ WF_sessionVars(ReaderSteps)
                   /\ WF_sessionVars(Deadline)

SessionSpec == SessionInit /\ [][SessionNext]_sessionVars /\ SessionFairness

-----------------------------------------------------------------------------
(* A session that began ends, and no CLI is left running: not when the CLI  *)
(* hangs, floods its output or exits while the reading thread waits for room*)
(* in the queue.                                                            *)
SessionEnds == caller # "unstarted" ~> caller = "done" /\ cli = "gone"

(* A request is answered by an answer to it, and it is said to have found   *)
(* the CLI closed only if the CLI never answered it: what it wrote before it*)
(* exited still reaches the caller, past a full queue and ahead of the end. *)
AnswersReachTheirRequest ==
  \A r \in Id : /\ outcome[r] = "answer" => r \in said
                /\ outcome[r] = "closed" => r \notin said
=============================================================================
