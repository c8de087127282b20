----------------------------- MODULE ResetAlerts -----------------------------
(***************************************************************************)
(* limits_monitor.rs and reset_alert.rs: the loop that reads the limits of *)
(* the provider that banks resets, tells the user what changed, and offers *)
(* or schedules the use of a banked reset.  A poll loads the settings,     *)
(* reads, plans under the queue's lock, saves its state, then tells and    *)
(* schedules, then spends what fell due.  Beside it the user changes       *)
(* settings, cancels and spends by hand, accounts change, other surfaces   *)
(* read through the same cache, a save fails and the app dies.             *)
(*                                                                         *)
(* What is left of a limit is one of three levels: none, an alert's share  *)
(* or less, more.  The n-th cycle is reported as 3n or 3n + 1, since its   *)
(* reset time differs a little from one answer to the next.  Time is in    *)
(* ticks of five minutes and a waiting spend keeps the ticks left to it.   *)
(* A reset that lapses or that renewal is too near for is one that is gone.*)
(*                                                                         *)
(* A definition placed just before the one whose name it extends is that   *)
(* one with a mistake in it; nothing uses it.  It stands for the bug one of*)
(* the properties rules out: with it in place, that property fails.        *)
(***************************************************************************)
EXTENDS Integers

CONSTANTS Account, NoAccount, NoReading, NoSpend, NoHand,
          Delay,      \* SPEND_DELAY_MINUTES
          Late,       \* LATE_AFTER_MINUTES
          MaxPoll,    \* bound: ticks a poll takes
          MaxCycle,   \* bound: cycles of a limit
          MaxEvents   \* bound: what the user does, account changes and faults

MaybeAccount == Account \cup {NoAccount}

Alert == {"off", "tell", "automatic"}

None  == 0
Share == 1
More  == 2

Cycle == 1..(3 * MaxCycle + 1)

Same(x, y)  == x - y \in -1..1
Later(x, y) == x > y + 1

Reading == [account : Account, left : None..More, cycle : Cycle, banked : BOOLEAN]

(* What the shared cache serves.  A live card the state already knows is no *)
(* newer than what the state remembers, any other one is.                   *)
Card == [kind : {"live", "failed", "nobody", "empty"}, reading : Reading \cup {NoReading},
         known : BOOLEAN]

Failed == [kind |-> "failed", reading |-> NoReading, known |-> FALSE]
Nobody == [kind |-> "nobody", reading |-> NoReading, known |-> FALSE]
Empty  == [kind |-> "empty",  reading |-> NoReading, known |-> FALSE]

Live(c) == c.kind = "live"

(* AlertState: the cycles of the last low reading and of the last offer, 0  *)
(* for none.  ProviderObservation: the last reading observed and whether    *)
(* its cycle was exhausted.                                                 *)
AlertState == [low : Cycle \cup {0}, offered : Cycle \cup {0}]

NoAlert == [low |-> 0, offered |-> 0]

Observation == [account : Account, left : None..More, cycle : Cycle, exhausted : BOOLEAN]

MonitorState == [alerts : [Account -> AlertState], seen : Observation \cup {NoReading}]

NewState == [alerts |-> [a \in Account |-> NoAlert], seen |-> NoReading]

WaitingSpend == [cycle : Cycle, left : -(Late + MaxPoll + 1)..Delay]

(* The reset each account starts with needs a cycle to go to.               *)
ASSUME ResetAlertsAssumption ==
  /\ NoAccount \notin Account /\ NoHand \notin Account
  /\ {Delay, Late} \subseteq Nat \ {0} /\ {MaxPoll, MaxEvents} \subseteq Nat
  /\ MaxCycle \in Nat /\ MaxCycle > 1
  /\ NoReading \notin Reading \cup Observation \cup [account : Account, cycle : Cycle]
  /\ NoSpend \notin WaitingSpend

Due == [account : Account, cycle : Cycle, spend : BOOLEAN, fresh : BOOLEAN]

Event == {"none", "reset", "exhausted"}

(* The poll under way: the settings it loaded, how long ago it began,       *)
(* whether a spend was due then, the state it replaced and whether that knew*)
(* the card, and what is to be told and spent.                              *)
Poll == [at      : {"idle", "resting", "reading", "saving", "committing", "spending"},
         alerts  : [Account -> Alert], notify : BOOLEAN,
         elapsed : 0..MaxPoll, fresh : BOOLEAN,
         back    : MonitorState, knew : BOOLEAN,
         offer   : [account : Account, cycle : Cycle] \cup {NoReading},
         event   : Event, due : SUBSET Due]

VARIABLES signed,    \* the account signed in
          changing,  \* an account change holds off reads
          quota,     \* each account's limit at the provider
          alerts, notify,  \* the settings: reset_alerts and limit_notifications
          card,      \* what the shared cache serves
          state,     \* the monitor's state
          disk,      \* and as it was saved
          waiting,   \* WAITING: the queue of automatic spends
          poll,      \* the loop
          hand,      \* a spend by hand whose answer is to be recorded
          events,    \* what happened of the bounded
          told,      \* the last cycle told or scheduled, for each account
          noted,     \* the last cycle told as exhausted
          excused,   \* accounts whose alert was turned off, or whose offer a crash
                     \* lost, since then
          cancelled  \* accounts whose last scheduled spend was cancelled

provider == <<signed, changing, quota>>
settings == <<alerts, notify>>
ghost    == <<told, noted, excused, cancelled>>
vars     == <<signed, changing, quota, alerts, notify, card, state, disk, waiting, poll, hand,
              events, told, noted, excused, cancelled>>

Sleeping == [at |-> "idle", alerts |-> [a \in Account |-> "off"], notify |-> FALSE,
             elapsed |-> 0, fresh |-> FALSE, back |-> NewState, knew |-> FALSE, offer |-> NoReading,
             event |-> "none", due |-> {}]

TypeOK == /\ signed \in MaybeAccount /\ changing \in BOOLEAN
          /\ quota \in [Account -> [left : None..More, cycle : 1..MaxCycle, banked : BOOLEAN]]
          /\ alerts \in [Account -> Alert] /\ notify \in BOOLEAN
          /\ card \in Card /\ (Live(card) <=> card.reading # NoReading)
          /\ state \in MonitorState /\ disk \in MonitorState
          /\ waiting \in [Account -> WaitingSpend \cup {NoSpend}]
          /\ poll \in Poll
          /\ poll.offer # NoReading \/ poll.event # "none" => poll.at \in {"saving", "committing"}
          /\ poll.due # {} => poll.at \in {"saving", "committing", "spending"}
          /\ hand \in Account \cup {NoHand}
          /\ events \in 0..MaxEvents
          /\ told \in [Account -> Cycle \cup {0}] /\ noted \in [Account -> Cycle \cup {0}]
          /\ excused \subseteq Account /\ cancelled \subseteq Account

Init == /\ signed \in Account /\ changing = FALSE
        /\ quota = [a \in Account |-> [left |-> More, cycle |-> 1, banked |-> TRUE]]
        /\ alerts \in [Account -> Alert] /\ notify \in BOOLEAN
        /\ card = Empty /\ state = NewState /\ disk = NewState
        /\ waiting = [a \in Account |-> NoSpend]
        /\ poll = Sleeping /\ hand = NoHand
        /\ events = 0
        /\ told = [a \in Account |-> 0] /\ noted = [a \in Account |-> 0]
        /\ excused = {} /\ cancelled = {}

-----------------------------------------------------------------------------
(* The answers a read of the provider can get, for these limits.            *)
Answers(q) ==
  {Failed} \cup
  (IF signed = NoAccount THEN {Nobody}
   ELSE {[kind |-> "live",
          reading |-> [account |-> signed, left |-> q[signed].left,
                       cycle |-> 3 * q[signed].cycle + j,
                       banked |-> q[signed].banked],
          known |-> FALSE] : j \in 0..1})

(* read_served: a forced read asks, one that is not may be served from the  *)
(* cache; while an account change runs either is.  A forced read that a rate*)
(* limit holds back is served the failed read that was told to wait.        *)
Served(force, q) == (IF changing THEN {} ELSE Answers(q)) \cup
                    (IF changing \/ (~force /\ card # Empty) THEN {card} ELSE {})

(* low_reading: at the alert's share or below, with a reset to use.         *)
Low(r) == r.left <= Share /\ r.banked

-----------------------------------------------------------------------------
(* What the user, an account change or a fault does is bounded.             *)
Happens == events < MaxEvents /\ events' = events + 1

(* The loop wakes, loads the settings and looks whether a spend is due.     *)
Watched == notify \/ \E a \in Account : alerts[a] # "off"

Wake == /\ poll.at = "idle"
        /\ poll' = [Sleeping EXCEPT
                      !.at = IF Watched THEN "reading" ELSE "resting",
                      !.alerts = alerts, !.notify = notify,
                      !.fresh = \E a \in Account : waiting[a] # NoSpend /\ waiting[a].left <= 0]
        /\ UNCHANGED <<provider, settings, card, state, disk, waiting, hand, events, ghost>>

(* rest: nothing is watched, so the queue and the state are cleared.        *)
Rest == /\ poll.at = "resting"
        /\ waiting' = [a \in Account |-> NoSpend]
        /\ state' = NewState
        /\ \/ disk' = (IF state = NewState THEN disk ELSE NewState) /\ events' = events
           \/ state # NewState /\ disk' = disk /\ Happens
        /\ poll' = Sleeping
        /\ UNCHANGED <<provider, settings, card, hand, ghost>>

SeenAgain(r, exhausted) ==
  [account |-> r.account, left |-> r.left, cycle |-> r.cycle, exhausted |-> exhausted]

Seen(r, exhausted) ==
  [account |-> r.account, left |-> r.left, cycle |-> r.cycle,
   exhausted |-> exhausted \/ r.left = None]

(* observe_window: a reading no newer than the last is ignored; a reset is a*)
(* later cycle with more left, and the limit is exhausted once until then.  *)
Observed(r) ==
  LET seen  == state.seen
      first == seen = NoReading \/ seen.account # r.account
      reset == Later(r.cycle, seen.cycle) /\ r.left > seen.left
  IN IF first THEN [event |-> "none", seen |-> Seen(r, FALSE)]
     ELSE IF reset THEN [event |-> "reset", seen |-> Seen(r, FALSE)]
     ELSE [event |-> IF ~seen.exhausted /\ r.left = None THEN "exhausted" ELSE "none",
           seen  |-> Seen(r, seen.exhausted)]

(* limit_notices.                                                           *)
Noticed(c) ==
  IF ~poll.notify THEN [event |-> "none", seen |-> NoReading]
  ELSE IF ~Live(c) \/ (c.known /\ state.seen # NoReading /\
                       state.seen.account = c.reading.account)
    THEN [event |-> "none", seen |-> state.seen]
  ELSE Observed(c.reading)

(* offers: the state of an alert after this card, and whether it offers: a  *)
(* newer reading confirms a low one of its cycle, not offered yet.          *)
OffersSameTime(s, c) ==
  LET r == c.reading
  IN /\ Low(r) /\ ~c.known /\ s.low # 0 /\ s.low = r.cycle
     /\ s.offered # r.cycle

Offers(s, c) ==
  LET r == c.reading
  IN /\ Low(r) /\ ~c.known /\ s.low # 0 /\ Same(s.low, r.cycle)
     /\ ~(s.offered # 0 /\ Same(s.offered, r.cycle))

AlertAfter(a, c) ==
  LET s == state.alerts[a]
      r == c.reading
  IN IF poll.alerts[a] = "off" THEN NoAlert
     ELSE IF ~Live(c) \/ r.account # a THEN s
     ELSE [low     |-> IF Low(r) THEN r.cycle ELSE 0,
           offered |-> IF Offers(s, c) THEN r.cycle ELSE s.offered]

Offered(c) ==
  IF Live(c) /\ poll.alerts[c.reading.account] # "off"
             /\ Offers(state.alerts[c.reading.account], c)
    THEN [account |-> c.reading.account, cycle |-> c.reading.cycle] ELSE NoReading

(* fall_due: what an alert no longer automatic waits for is dropped; a spend*)
(* falls due once a read decides it or it is late.                          *)
Kept(a) == IF poll.alerts[a] = "automatic" THEN waiting[a] ELSE NoSpend

Overdue(a) == Kept(a).left + poll.elapsed < -Late

FallsDueDecided(a, c) == /\ Kept(a) # NoSpend
                         /\ Kept(a).left + poll.elapsed <= 0
                         /\ c.kind \in {"live", "nobody"}

FallsDue(a, c) == /\ Kept(a) # NoSpend
                  /\ Kept(a).left + poll.elapsed <= 0
                  /\ c.kind \in {"live", "nobody"} \/ Overdue(a)

DueAt(a, c) ==
  [account |-> a, cycle |-> Kept(a).cycle, fresh |-> ~c.known,
   spend |-> /\ ~Overdue(a)
             /\ Live(c)
             /\ c.reading.account = a /\ Low(c.reading)
             /\ Same(c.reading.cycle, Kept(a).cycle)]

StillWaitingKept(c) == [a \in Account |-> Kept(a)]

StillWaiting(c) == [a \in Account |-> IF FallsDue(a, c) THEN NoSpend ELSE Kept(a)]

(* The read and reset_alert::plan, under the queue's lock.                  *)
Plan ==
  /\ poll.at = "reading"
  /\ \E c \in Served(poll.fresh, quota) :
       /\ card' = [c EXCEPT !.known = Live(c)]
       /\ state' = [alerts |-> [a \in Account |-> AlertAfter(a, c)], seen |-> Noticed(c).seen]
       /\ waiting' = StillWaiting(c)
       /\ poll' = [poll EXCEPT !.at = "saving", !.back = state, !.knew = c.known,
                               !.notify = FALSE, !.fresh = FALSE, !.elapsed = 0,
                               !.offer = Offered(c), !.event = Noticed(c).event,
                               !.due = {DueAt(a, c) : a \in {x \in Account : FallsDue(x, c)}}]
  /\ UNCHANGED <<provider, settings, disk, hand, events, ghost>>

SpendingTold(p) == IF p.due = {} THEN Sleeping ELSE [p EXCEPT !.at = "spending"]

Spending(p) == IF p.due = {} THEN Sleeping
               ELSE [Sleeping EXCEPT !.at = "spending", !.due = p.due]

Save == /\ poll.at = "saving"
        /\ disk' = state
        /\ poll' = [poll EXCEPT !.at = "committing", !.back = NewState, !.knew = FALSE]
        /\ UNCHANGED <<provider, settings, card, state, waiting, hand, events, ghost>>

(* A save that fails may have written; the state is rolled back, and no     *)
(* longer knows the card it does not remember.                              *)
NotSavedKept ==
  /\ poll.at = "saving" /\ Happens
  /\ disk' \in {disk, state}
  /\ poll' = Spending(poll)
  /\ UNCHANGED <<provider, settings, card, state, waiting, hand, ghost>>

NotSaved ==
  /\ poll.at = "saving" /\ Happens
  /\ disk' \in {disk, state}
  /\ state' = poll.back
  /\ card' = [card EXCEPT !.known = @ /\ poll.knew]
  /\ poll' = Spending(poll)
  /\ UNCHANGED <<provider, settings, waiting, hand, ghost>>

(* Offered::commit and the notices: an offer is told, or scheduled and told.*)
Commit ==
  LET r == poll.offer
      a == r.account
  IN /\ poll.at = "committing"
     /\ IF r = NoReading THEN UNCHANGED <<waiting, told, excused, cancelled>>
        ELSE /\ told' = [told EXCEPT ![a] = r.cycle]
             /\ excused' = IF alerts[a] = "off" THEN excused ELSE excused \ {a}
             /\ IF poll.alerts[a] = "automatic"
                  THEN /\ waiting' = [waiting EXCEPT ![a] = [cycle |-> r.cycle, left |-> Delay]]
                       /\ cancelled' = cancelled \ {a}
                  ELSE UNCHANGED <<waiting, cancelled>>
     /\ noted' = IF poll.event = "exhausted"
                   THEN [noted EXCEPT ![state.seen.account] = state.seen.cycle] ELSE noted
     /\ poll' = Spending(poll)
     /\ UNCHANGED <<provider, settings, card, state, disk, hand, events>>

(* A spent reset starts a new cycle.                                        *)
Renewed(a) == [quota EXCEPT ![a] = [left |-> More, cycle |-> @.cycle + 1, banked |-> FALSE]]

(* consume_codex_reset_credit: refused while an account change runs, or when*)
(* another account is signed in; an automatic one also unless the limit is  *)
(* still low.  A spend that fails may have reached the provider.  A forced  *)
(* read follows every attempt that was not refused for an account change.   *)
Attempt(a, allowed) ==
  IF changing THEN UNCHANGED <<quota, card>>
  ELSE /\ \/ quota' = quota
          \/ signed = a /\ quota[a].banked /\ allowed /\ quota' = Renewed(a)
       /\ card' \in Served(TRUE, quota')

(* What fell due is spent or kept, one after the other; none is tried again.*)
Spend ==
  /\ poll.at = "spending"
  /\ \E d \in poll.due :
       /\ IF d.spend THEN Attempt(d.account, quota[d.account].left <= Share)
                     ELSE UNCHANGED <<quota, card>>
       /\ poll' = Spending([poll EXCEPT !.due = @ \ {d}])
  /\ UNCHANGED <<signed, changing, settings, state, disk, waiting, hand, events,
                 ghost>>

-----------------------------------------------------------------------------
SetAlert(a, x) ==
  /\ Happens /\ alerts[a] # x
  /\ alerts' = [alerts EXCEPT ![a] = x]
  /\ excused' = IF x = "off" THEN excused \cup {a} ELSE excused
  /\ UNCHANGED <<provider, notify, card, state, disk, waiting, poll, hand, told, noted, cancelled>>

SetNotify ==
  /\ Happens /\ notify' = ~notify
  /\ UNCHANGED <<provider, alerts, card, state, disk, waiting, poll, hand, ghost>>

(* cancel_reset_spend answers whether there was one to cancel.              *)
Cancel(a) ==
  /\ Happens /\ waiting[a] # NoSpend
  /\ waiting' = [waiting EXCEPT ![a] = NoSpend]
  /\ cancelled' = cancelled \cup {a}
  /\ UNCHANGED <<provider, settings, card, state, disk, poll, hand,
                 told, noted, excused>>

(* spend_reset_by_hand: the spend, and once it is answered the waiting one  *)
(* is cleared if a reset was used.                                          *)
SpendByHand(a) ==
  /\ Happens /\ hand = NoHand
  /\ Attempt(a, TRUE)
  /\ hand' = IF quota' = quota THEN NoHand ELSE a
  /\ UNCHANGED <<signed, changing, settings, state, disk, waiting, poll, ghost>>

UsedByHand ==
  /\ hand # NoHand
  /\ hand' = NoHand
  /\ waiting' = [waiting EXCEPT ![hand] = NoSpend]
  /\ UNCHANGED <<provider, settings, card, state, disk, poll, events, ghost>>

(* Another surface reads through the cache.                                 *)
SharedRead ==
  /\ Happens
  /\ card' \in Served(FALSE, quota) \ {card}
  /\ UNCHANGED <<provider, settings, state, disk, waiting, poll, hand, ghost>>

(* An account change holds off reads and ends with the cache dropped.       *)
BeginChange ==
  /\ ~changing /\ Happens
  /\ changing' = TRUE
  /\ UNCHANGED <<signed, quota, settings, card, state, disk, waiting, poll, hand, ghost>>

EndChange ==
  /\ changing
  /\ changing' = FALSE
  /\ signed' \in MaybeAccount
  /\ card' = Empty
  /\ UNCHANGED <<quota, settings, state, disk, waiting, poll, hand, events, ghost>>

(* The allowance is used, their limits renew, a banked reset lapses.        *)
Use(a) == /\ quota[a].left > None
          /\ quota' = [quota EXCEPT ![a].left = @ - 1]
          /\ UNCHANGED <<signed, changing, settings, card, state, disk, waiting, poll, hand,
                         events, ghost>>

Room(a) == quota[a].cycle + (IF quota[a].banked THEN 1 ELSE 0) < MaxCycle

Renew(a) == /\ Room(a)
            /\ quota' = [quota EXCEPT ![a].left = More, ![a].cycle = @ + 1]
            /\ UNCHANGED <<signed, changing, settings, card, state, disk, waiting, poll, hand,
                           events, ghost>>

Lapse(a) == /\ Happens /\ quota[a].banked
            /\ quota' = [quota EXCEPT ![a].banked = FALSE]
            /\ UNCHANGED <<signed, changing, settings, card, state, disk, waiting, poll, hand,
                           ghost>>

Sooner(w) == IF w = NoSpend \/ w.left = -(Late + MaxPoll + 1) THEN w
             ELSE [w EXCEPT !.left = @ - 1]

Tick == /\ poll.at = "reading" => poll.elapsed < MaxPoll
        /\ poll' = IF poll.at = "reading" THEN [poll EXCEPT !.elapsed = @ + 1] ELSE poll
        /\ waiting' = [a \in Account |-> Sooner(waiting[a])]
        /\ <<poll', waiting'>> # <<poll, waiting>>
        /\ UNCHANGED <<provider, settings, card, state, disk, hand, events, ghost>>

(* The app dies and starts again: the queue and the cache are gone, the     *)
(* state is what was saved.                                                 *)
Crash ==
  /\ Happens
  /\ state' = disk
  /\ waiting' = [a \in Account |-> NoSpend]
  /\ poll' = Sleeping /\ hand' = NoHand /\ card' = Empty /\ changing' = FALSE
  /\ excused' = excused \cup {a \in Account : disk.alerts[a].offered # told[a]}
  /\ UNCHANGED <<signed, quota, settings, disk, told, noted,
                 cancelled>>

Loop == Wake \/ Rest \/ Plan \/ Save \/ NotSaved \/ Commit \/ Spend

Next == \/ Loop
        \/ \E a \in Account :
             \/ \E x \in Alert : SetAlert(a, x)
             \/ Cancel(a) \/ SpendByHand(a) \/ Use(a) \/ Renew(a) \/ Lapse(a)
        \/ SetNotify \/ UsedByHand \/ SharedRead \/ BeginChange \/ EndChange \/ Tick \/ Crash

Spec == Init /\ [][Next]_vars

(* The loop keeps waking and time passes.                                   *)
FairSpec == Spec /\ WF_vars(Loop) /\ WF_vars(Tick)

-----------------------------------------------------------------------------
(* A reset is offered once in a cycle, unless its alert was turned off in   *)
(* between, and a limit is told as reached once in a cycle: across failed   *)
(* saves and restarts.                                                      *)
OfferedOnce(a) ==
  poll.offer # NoReading /\ poll.offer.account = a
    => told[a] = 0 \/ Later(poll.offer.cycle, told[a]) \/ a \in excused

ExhaustedOnce(a) ==
  poll.event = "exhausted" /\ state.seen # NoReading /\ state.seen.account = a
    => noted[a] = 0 \/ Later(state.seen.cycle, noted[a])

AnnouncedOnce ==
  [][poll.at = "committing" /\ poll' # poll
       => \A a \in Account : OfferedOnce(a) /\ ExhaustedOnce(a)]_vars

(* What the state says was offered was told or scheduled; only a crash loses*)
(* an offer, a failed save does not.                                        *)
OfferNotLost ==
  poll.at = "idle" =>
    \A a \in Account : LET c == state.alerts[a].offered
                       IN c # 0 => told[a] = c \/ a \in excused

(* A spend whose cancellation was confirmed is not made.                    *)
CancelledNotSpent ==
  \A d \in poll.due : d.spend => d.account \notin cancelled

(* A scheduled spend does not wait for ever, even when no read ever answers.*)
AnnouncedDecided ==
  \A a \in Account : waiting[a] # NoSpend ~> waiting[a] = NoSpend

(* A reset is used only if a read made once it fell due still finds it      *)
(* worth using.                                                             *)
DecidedFresh == \A d \in poll.due : d.spend => d.fresh
==============================================================================
