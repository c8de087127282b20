-------------------------- MODULE ResetAlertsProofs --------------------------
(***************************************************************************)
(* Theorems about ResetAlerts, for any number of accounts, of faults and of*)
(* cycles: that no offer is lost but to a crash, that a cancelled spend is *)
(* not made, and that an offer and an exhausted limit are told once.       *)
(***************************************************************************)
EXTENDS ResetAlerts, TLAPS

Quotas == [Account -> [left : None..More, cycle : 1..MaxCycle, banked : BOOLEAN]]

(* A banked reset is in the quota's last cycle but one at the latest.       *)
RoomLeft == \A a \in Account : quota[a].banked => quota[a].cycle < MaxCycle

(* What an answer says of the account it names.                             *)
Fits(r, q) == /\ r.account \in Account /\ r.account = signed
              /\ r.left = q[r.account].left
              /\ r.cycle \in {3 * q[r.account].cycle, 3 * q[r.account].cycle + 1}

CardTyped(c) == c \in Card /\ (Live(c) <=> c.reading # NoReading)

LEMMA NotAReading ==
  /\ \A r \in Reading : r # NoReading
  /\ \A s \in Observation : s # NoReading
  /\ \A o \in [account : Account, cycle : Cycle] : o # NoReading
  /\ \A w \in WaitingSpend : w # NoSpend
BY ResetAlertsAssumption

LEMMA CyclesAre ==
  ASSUME NEW q \in 1..MaxCycle
  PROVE  3 * q \in Cycle /\ 3 * q + 1 \in Cycle
BY ResetAlertsAssumption DEF Cycle

LEMMA PlainCards ==
  /\ CardTyped(Failed) /\ CardTyped(Nobody) /\ CardTyped(Empty)
  /\ ~Live(Failed) /\ ~Live(Nobody) /\ ~Live(Empty)
  /\ ~Failed.known /\ ~Nobody.known
BY DEF CardTyped, Card, Live, Failed, Nobody, Empty

LEMMA AnswersAre ==
  ASSUME NEW q \in Quotas, signed \in MaybeAccount, NEW c \in Answers(q)
  PROVE  CardTyped(c) /\ ~c.known /\ (Live(c) => Fits(c.reading, q))
<1>1. CASE c = Failed \/ c = Nobody
  BY <1>1, PlainCards
<1>2. CASE c # Failed /\ c # Nobody
  <2>1. signed # NoAccount /\ signed \in Account
    BY <1>2 DEF Answers, MaybeAccount
  <2>2. PICK j \in 0..1 :
          c = [kind |-> "live",
               reading |-> [account |-> signed, left |-> q[signed].left,
                            cycle |-> 3 * q[signed].cycle + j, banked |-> q[signed].banked],
               known |-> FALSE]
    BY <1>2, <2>1 DEF Answers
  <2>3. /\ q[signed].left \in None..More /\ q[signed].cycle \in 1..MaxCycle
        /\ q[signed].banked \in BOOLEAN
    BY <2>1 DEF Quotas
  <2>4. 3 * q[signed].cycle + j \in {3 * q[signed].cycle, 3 * q[signed].cycle + 1}
    BY <2>3
  <2>5. 3 * q[signed].cycle + j \in Cycle
    BY <2>3, <2>4, CyclesAre
  <2>6. c.reading \in Reading
    BY <2>1, <2>2, <2>3, <2>5 DEF Reading
  <2>7. CardTyped(c) /\ ~c.known
    BY <2>2, <2>6, NotAReading DEF CardTyped, Card, Live
  <2>8. Fits(c.reading, q)
    BY <2>1, <2>2, <2>4 DEF Fits
  <2> QED BY <2>7, <2>8
<1> QED BY <1>1, <1>2

LEMMA ServedAre ==
  ASSUME NEW q \in Quotas, signed \in MaybeAccount, CardTyped(card), NEW force \in BOOLEAN,
         NEW c \in Served(force, q)
  PROVE  /\ CardTyped(c)
         /\ c = card \/ (~c.known /\ (Live(c) => Fits(c.reading, q)))
<1>1. c = card \/ c \in Answers(q)
  BY DEF Served
<1> QED BY <1>1, AnswersAre

LEMMA NewStateTyped == NewState \in MonitorState /\ NewState.seen = NoReading
                       /\ \A a \in Account : NewState.alerts[a].offered = 0
BY DEF NewState, MonitorState, NoAlert, AlertState

LEMMA SleepingTyped ==
  /\ Sleeping \in Poll
  /\ Sleeping.at = "idle" /\ Sleeping.offer = NoReading /\ Sleeping.event = "none"
  /\ Sleeping.due = {} /\ Sleeping.back = NewState
BY NewStateTyped, ResetAlertsAssumption DEF Sleeping, Poll, Alert, Event

LEMMA SpendingTyped ==
  ASSUME NEW p \in Poll
  PROVE  /\ Spending(p) \in Poll
         /\ Spending(p).at \in {"idle", "spending"}
         /\ Spending(p).offer = NoReading /\ Spending(p).event = "none"
         /\ Spending(p).back = NewState /\ Spending(p).due = p.due
         /\ p.due # {} => Spending(p).at = "spending"
<1>1. CASE p.due = {}
  BY <1>1, SleepingTyped DEF Spending
<1>2. CASE p.due # {}
  <2>1. Spending(p) = [Sleeping EXCEPT !.at = "spending", !.due = p.due]
    BY <1>2 DEF Spending
  <2>2. p.due \subseteq Due
    BY DEF Poll
  <2> QED BY <2>1, <2>2, <1>2, SleepingTyped DEF Poll
<1> QED BY <1>1, <1>2

(* A limit is told as reached of the reading observed last.                 *)
EventNamed == poll.event # "none" => state.seen # NoReading

TypeInv == TypeOK /\ RoomLeft /\ EventNamed

LEMMA TypeInvInit == Init => TypeInv
<1> SUFFICES ASSUME Init PROVE TypeInv
  OBVIOUS
<1>1. card = Empty /\ CardTyped(card)
  BY PlainCards DEF Init
<1>2. quota \in [Account -> [left : None..More, cycle : 1..MaxCycle, banked : BOOLEAN]]
  BY ResetAlertsAssumption DEF Init, None, More
<1>3. /\ waiting \in [Account -> WaitingSpend \cup {NoSpend}]
      /\ told \in [Account -> Cycle \cup {0}] /\ noted \in [Account -> Cycle \cup {0}]
      /\ signed \in MaybeAccount /\ events \in 0..MaxEvents
  BY ResetAlertsAssumption DEF Init, MaybeAccount
<1>4. TypeOK
  BY <1>1, <1>2, <1>3, NewStateTyped, SleepingTyped DEF Init, TypeOK, CardTyped
<1>5. RoomLeft /\ EventNamed
  BY SleepingTyped, ResetAlertsAssumption DEF Init, RoomLeft, EventNamed
<1> QED BY <1>4, <1>5 DEF TypeInv

-----------------------------------------------------------------------------
LEMMA WakeTyped == ASSUME TypeInv, Wake PROVE TypeInv'
<1>1. /\ poll' \in Poll /\ poll'.offer = NoReading /\ poll'.event = "none" /\ poll'.due = {}
      /\ poll'.back = NewState
  <2> DEFINE due == \E a \in Account : waiting[a] # NoSpend /\ waiting[a].left <= 0
  <2>1. due \in BOOLEAN /\ alerts \in [Account -> Alert] /\ notify \in BOOLEAN
    BY DEF TypeInv, TypeOK
  <2>2. poll' = [Sleeping EXCEPT !.at = IF Watched THEN "reading" ELSE "resting",
                                 !.alerts = alerts, !.notify = notify, !.fresh = due]
    BY DEF Wake
  <2> HIDE DEF due
  <2> QED BY <2>1, <2>2, SleepingTyped DEF Poll
<1> QED BY <1>1 DEF Wake, TypeInv, TypeOK, RoomLeft, EventNamed, provider, settings, ghost

LEMMA RestTyped == ASSUME TypeInv, Rest PROVE TypeInv'
<1>1. /\ disk' \in MonitorState /\ events' \in 0..MaxEvents
      /\ waiting' \in [Account -> WaitingSpend \cup {NoSpend}]
  BY NewStateTyped, ResetAlertsAssumption DEF Rest, TypeInv, TypeOK, Happens
<1> QED BY <1>1, SleepingTyped, NewStateTyped
       DEF Rest, TypeInv, TypeOK, RoomLeft, EventNamed, provider, settings, ghost

(* What a planned poll tells and spends.                                    *)
LEMMA SeenTyped ==
  ASSUME NEW r \in Reading, NEW x \in BOOLEAN
  PROVE  Seen(r, x) \in Observation
<1>1. (x \/ r.left = None) \in BOOLEAN
  OBVIOUS
<1> QED BY <1>1 DEF Seen, Reading, Observation

LEMMA ObservedSeen ==
  ASSUME NEW r
  PROVE  /\ Observed(r).seen \in {Seen(r, FALSE), Seen(r, state.seen.exhausted)}
         /\ state.seen = NoReading => Observed(r).seen = Seen(r, FALSE)
         /\ Observed(r).event = "exhausted" =>
              /\ state.seen # NoReading /\ state.seen.account = r.account
              /\ ~state.seen.exhausted /\ r.left = None
         /\ Observed(r).seen.account = r.account /\ Observed(r).seen.cycle = r.cycle
         /\ r.left = None => Observed(r).seen.exhausted
<1>1. /\ Observed(r).seen \in {Seen(r, FALSE), Seen(r, state.seen.exhausted)}
      /\ state.seen = NoReading => Observed(r).seen = Seen(r, FALSE)
  BY DEF Observed
<1>2. Observed(r).event = "exhausted" =>
        /\ state.seen # NoReading /\ state.seen.account = r.account
        /\ ~state.seen.exhausted /\ r.left = None
  BY DEF Observed
<1>3. /\ Seen(r, FALSE).account = r.account /\ Seen(r, FALSE).cycle = r.cycle
      /\ r.left = None => Seen(r, FALSE).exhausted
  BY DEF Seen
<1>4. /\ Seen(r, state.seen.exhausted).account = r.account
      /\ Seen(r, state.seen.exhausted).cycle = r.cycle
      /\ r.left = None => Seen(r, state.seen.exhausted).exhausted
  BY DEF Seen
<1> QED BY <1>1, <1>2, <1>3, <1>4

LEMMA NoticedTyped ==
  ASSUME TypeInv, NEW c, CardTyped(c)
  PROVE  /\ Noticed(c).seen \in Observation \cup {NoReading}
         /\ Noticed(c).event \in Event
         /\ Noticed(c).event # "none" => Noticed(c).seen \in Observation
<1>1. state.seen \in Observation \cup {NoReading}
  BY DEF TypeInv, TypeOK, MonitorState
<1>2. CASE ~poll.notify \/ ~Live(c) \/ (c.known /\ state.seen # NoReading /\
                       state.seen.account = c.reading.account)
  BY <1>1, <1>2 DEF Noticed, Event
<1>3. CASE ~(~poll.notify \/ ~Live(c) \/ (c.known /\ state.seen # NoReading /\
                       state.seen.account = c.reading.account))
  <2>1. Noticed(c) = Observed(c.reading) /\ c.reading \in Reading
    BY <1>3 DEF Noticed, CardTyped, Card
  <2>2. state.seen # NoReading => state.seen.exhausted \in BOOLEAN
    BY <1>1 DEF Observation
  <2>3. Observed(c.reading).event \in Event
    BY DEF Observed, Event
  <2>4. Observed(c.reading).seen \in {Seen(c.reading, FALSE), Seen(c.reading, state.seen.exhausted)}
    BY DEF Observed
  <2>5. Observed(c.reading).seen \in Observation
    BY <2>1, <2>2, <2>4, SeenTyped DEF Observed
  <2> QED BY <2>1, <2>3, <2>5
<1> QED BY <1>2, <1>3

LEMMA AlertAfterTyped ==
  ASSUME TypeInv, NEW c, CardTyped(c), NEW a \in Account
  PROVE  AlertAfter(a, c) \in AlertState
<1>1. state.alerts[a] \in AlertState
  BY DEF TypeInv, TypeOK, MonitorState
<1>2. NoAlert \in AlertState
  BY DEF NoAlert, AlertState
<1>3. Live(c) => c.reading.cycle \in Cycle
  BY DEF CardTyped, Card, Reading
<1> QED BY <1>1, <1>2, <1>3 DEF AlertAfter, AlertState

LEMMA OfferedTyped ==
  ASSUME TypeInv, NEW c, CardTyped(c)
  PROVE  Offered(c) \in [account : Account, cycle : Cycle] \cup {NoReading}
BY DEF Offered, CardTyped, Card, Reading

LEMMA KeptTyped ==
  ASSUME TypeInv, NEW a \in Account
  PROVE  Kept(a) \in WaitingSpend \cup {NoSpend}
BY DEF Kept, TypeInv, TypeOK

LEMMA DueTyped ==
  ASSUME TypeInv, NEW c, CardTyped(c), NEW a \in Account, FallsDue(a, c)
  PROVE  DueAt(a, c) \in Due
<1>1. Kept(a) \in WaitingSpend
  BY KeptTyped DEF FallsDue
<1>2. Kept(a).cycle \in Cycle
  BY <1>1 DEF WaitingSpend
<1> DEFINE spend == /\ ~Overdue(a)
                    /\ Live(c)
                    /\ c.reading.account = a /\ Low(c.reading)
                    /\ Same(c.reading.cycle, Kept(a).cycle)
           fresh == ~c.known
<1>3. spend \in BOOLEAN /\ fresh \in BOOLEAN
  OBVIOUS
<1>4. DueAt(a, c) = [account |-> a, cycle |-> Kept(a).cycle, fresh |-> fresh, spend |-> spend]
  BY DEF DueAt
<1> HIDE DEF spend, fresh
<1> QED BY <1>2, <1>3, <1>4 DEF Due

LEMMA PlanTyped == ASSUME TypeInv, Plan PROVE TypeInv'
<1>1. PICK c \in Served(poll.fresh, quota) :
       /\ card' = [c EXCEPT !.known = Live(c)]
       /\ state' = [alerts |-> [a \in Account |-> AlertAfter(a, c)], seen |-> Noticed(c).seen]
       /\ waiting' = StillWaiting(c)
       /\ poll' = [poll EXCEPT !.at = "saving", !.back = state, !.knew = c.known,
                               !.notify = FALSE, !.fresh = FALSE, !.elapsed = 0,
                               !.offer = Offered(c), !.event = Noticed(c).event,
                               !.due = {DueAt(a, c) : a \in {x \in Account : FallsDue(x, c)}}]
  BY DEF Plan
<1>2. CardTyped(c)
  BY <1>1, ServedAre DEF TypeInv, TypeOK, CardTyped, Poll, Quotas
<1>3. CardTyped(card')
  <2>1. Live(c) \in BOOLEAN
    BY DEF Live
  <2> QED BY <1>1, <1>2, <2>1 DEF CardTyped, Card, Live
<1>4. state' \in MonitorState
  BY <1>1, <1>2, NoticedTyped, AlertAfterTyped DEF MonitorState
<1>5. waiting' \in [Account -> WaitingSpend \cup {NoSpend}]
  BY <1>1, KeptTyped DEF StillWaiting
<1>6. poll' \in Poll /\ poll'.at = "saving"
  <2> DEFINE due == {DueAt(a, c) : a \in {x \in Account : FallsDue(x, c)}}
  <2>1. due \subseteq Due
    BY <1>2, DueTyped
  <2>2. /\ Noticed(c).event \in Event
        /\ Offered(c) \in [account : Account, cycle : Cycle] \cup {NoReading}
        /\ c.known \in BOOLEAN /\ state \in MonitorState /\ poll \in Poll /\ 0 \in 0..MaxPoll
    BY <1>2, NoticedTyped, OfferedTyped, ResetAlertsAssumption DEF CardTyped, Card, TypeInv, TypeOK
  <2> HIDE DEF due
  <2> QED BY <1>1, <2>1, <2>2 DEF due, Poll
<1>7. EventNamed'
  <2>1. poll'.event = Noticed(c).event /\ state'.seen = Noticed(c).seen
    BY <1>1 DEF TypeInv, TypeOK, Poll
  <2> QED BY <1>2, <2>1, NoticedTyped, NotAReading DEF EventNamed
<1> QED BY <1>3, <1>4, <1>5, <1>6, <1>7
       DEF Plan, TypeInv, TypeOK, RoomLeft, EventNamed, provider, settings, ghost, CardTyped

LEMMA SaveTyped == ASSUME TypeInv, Save PROVE TypeInv'
<1>1. poll' \in Poll /\ poll'.at = "committing"
  BY NewStateTyped DEF TypeInv, TypeOK, Save, Poll
<1> QED BY <1>1 DEF Save, TypeInv, TypeOK, RoomLeft, EventNamed, provider, settings, ghost

LEMMA NotSavedTyped == ASSUME TypeInv, NotSaved PROVE TypeInv'
<1>1. /\ poll' \in Poll /\ poll'.offer = NoReading /\ poll'.event = "none"
      /\ poll'.due # {} => poll'.at = "spending"
  BY SpendingTyped DEF NotSaved, TypeInv, TypeOK
<1>2. state' \in MonitorState /\ disk' \in MonitorState
  BY DEF NotSaved, TypeInv, TypeOK, Poll
<1>3. CardTyped(card')
  <2>1. (card.known /\ poll.knew) \in BOOLEAN
    BY DEF TypeInv, TypeOK, Card, Poll
  <2> QED BY <2>1 DEF NotSaved, TypeInv, TypeOK, CardTyped, Card, Live
<1>4. events' \in 0..MaxEvents
  BY ResetAlertsAssumption DEF NotSaved, Happens, TypeInv, TypeOK
<1> QED BY <1>1, <1>2, <1>3, <1>4
       DEF NotSaved, TypeInv, TypeOK, RoomLeft, EventNamed, provider, settings, ghost, CardTyped

LEMMA CommitTyped == ASSUME TypeInv, Commit PROVE TypeInv'
<1>1. /\ poll' \in Poll /\ poll'.offer = NoReading /\ poll'.event = "none"
      /\ poll'.due # {} => poll'.at = "spending"
  BY SpendingTyped DEF Commit, TypeInv, TypeOK
<1>2. poll.offer # NoReading => poll.offer.account \in Account /\ poll.offer.cycle \in Cycle
  BY DEF TypeInv, TypeOK, Poll
<1>3. /\ told' \in [Account -> Cycle \cup {0}]
      /\ excused' \subseteq Account /\ cancelled' \subseteq Account
  BY <1>2 DEF Commit, TypeInv, TypeOK
<1>4. waiting' \in [Account -> WaitingSpend \cup {NoSpend}]
  <2>1. poll.offer # NoReading => [cycle |-> poll.offer.cycle, left |-> Delay] \in WaitingSpend
    BY <1>2, ResetAlertsAssumption DEF WaitingSpend
  <2> QED BY <1>2, <2>1 DEF Commit, TypeInv, TypeOK
<1>5. noted' \in [Account -> Cycle \cup {0}]
  <2>1. poll.event = "exhausted" => state.seen \in Observation
    BY DEF TypeInv, TypeOK, EventNamed, MonitorState
  <2> QED BY <2>1 DEF Commit, TypeInv, TypeOK, Observation
<1> QED BY <1>1, <1>3, <1>4, <1>5 DEF Commit, TypeInv, TypeOK, RoomLeft, EventNamed, provider, settings

-----------------------------------------------------------------------------
(* Spends, and what the user, the accounts and time do.                     *)
LEMMA QuotaUsed ==
  ASSUME TypeInv, NEW a \in Account, quota[a].banked
  PROVE  Renewed(a) \in Quotas /\ \A x \in Account : Renewed(a)[x].banked => Renewed(a)[x].cycle < MaxCycle
<1>1. quota[a].cycle + 1 \in 1..MaxCycle
  BY ResetAlertsAssumption DEF TypeInv, TypeOK, RoomLeft
<1>2. More \in None..More
  BY DEF More, None
<1> QED BY <1>1, <1>2 DEF Renewed, Quotas, TypeInv, TypeOK, RoomLeft

LEMMA Attempted ==
  ASSUME TypeInv, NEW a \in Account, NEW allowed \in BOOLEAN, Attempt(a, allowed)
  PROVE  /\ quota' \in Quotas /\ RoomLeft' /\ CardTyped(card')
         /\ quota' = quota \/ (quota[a].banked /\ quota' = Renewed(a))
         /\ card' = card \/ (~card'.known /\ (Live(card') => Fits(card'.reading, quota')))
<1>1. quota' = quota \/ (quota[a].banked /\ quota' = Renewed(a))
  BY DEF Attempt
<1>2. quota' \in Quotas /\ RoomLeft'
  BY <1>1, QuotaUsed DEF TypeInv, TypeOK, Quotas, RoomLeft
<1>3. CASE changing
  BY <1>1, <1>2, <1>3 DEF Attempt, TypeInv, TypeOK, CardTyped
<1>4. CASE ~changing
  BY <1>1, <1>2, <1>4, ServedAre DEF Attempt, TypeInv, TypeOK, CardTyped
<1> QED BY <1>1, <1>2, <1>3, <1>4

LEMMA SpendTyped == ASSUME TypeInv, Spend PROVE TypeInv'
<1>1. PICK d \in poll.due :
       /\ IF d.spend THEN Attempt(d.account, quota[d.account].left <= Share)
                     ELSE UNCHANGED <<quota, card>>
       /\ poll' = Spending([poll EXCEPT !.due = @ \ {d}])
  BY DEF Spend
<1>2. d.account \in Account
  BY DEF TypeInv, TypeOK, Poll, Due
<1>3. quota' \in Quotas /\ RoomLeft' /\ CardTyped(card')
  <2>1. (quota[d.account].left <= Share) \in BOOLEAN
    OBVIOUS
  <2>2. CASE d.spend
    BY <1>1, <1>2, <2>1, <2>2, Attempted
  <2>3. CASE ~d.spend
    BY <1>1, <2>3 DEF TypeInv, TypeOK, Quotas, RoomLeft, CardTyped
  <2> QED BY <2>2, <2>3
<1>4. /\ poll' \in Poll /\ poll'.offer = NoReading /\ poll'.event = "none"
      /\ poll'.due # {} => poll'.at = "spending"
  <2>1. [poll EXCEPT !.due = @ \ {d}] \in Poll
    BY DEF TypeInv, TypeOK, Poll
  <2> QED BY <1>1, <2>1, SpendingTyped
<1> QED BY <1>3, <1>4 DEF Spend, TypeInv, TypeOK, EventNamed, CardTyped, Quotas, settings, ghost

LEMMA HappensTyped ==
  ASSUME TypeInv, Happens
  PROVE  events' \in 0..MaxEvents
BY ResetAlertsAssumption DEF Happens, TypeInv, TypeOK

LEMMA SetAlertTyped ==
  ASSUME TypeInv, NEW a \in Account, NEW x \in Alert, SetAlert(a, x)
  PROVE  TypeInv'
<1>1. events' \in 0..MaxEvents
  BY HappensTyped DEF SetAlert
<1> QED BY <1>1 DEF SetAlert, TypeInv, TypeOK, RoomLeft, EventNamed, provider

LEMMA SetNotifyTyped == ASSUME TypeInv, SetNotify PROVE TypeInv'
<1>1. events' \in 0..MaxEvents
  BY HappensTyped DEF SetNotify
<1> QED BY <1>1 DEF SetNotify, TypeInv, TypeOK, RoomLeft, EventNamed, provider, ghost

LEMMA CancelTyped == ASSUME TypeInv, NEW a \in Account, Cancel(a) PROVE TypeInv'
<1>1. events' \in 0..MaxEvents
  BY HappensTyped DEF Cancel
<1> QED BY <1>1 DEF Cancel, TypeInv, TypeOK, RoomLeft, EventNamed, provider, settings

LEMMA SpendByHandTyped == ASSUME TypeInv, NEW a \in Account, SpendByHand(a) PROVE TypeInv'
<1>1. events' \in 0..MaxEvents
  BY HappensTyped DEF SpendByHand
<1>2. quota' \in Quotas /\ RoomLeft' /\ CardTyped(card')
  BY Attempted DEF SpendByHand
<1> QED BY <1>1, <1>2
       DEF SpendByHand, TypeInv, TypeOK, EventNamed, CardTyped, Quotas, settings, ghost

LEMMA UsedByHandTyped == ASSUME TypeInv, UsedByHand PROVE TypeInv'
BY DEF UsedByHand, TypeInv, TypeOK, RoomLeft, EventNamed, provider, settings, ghost

LEMMA SharedReadTyped == ASSUME TypeInv, SharedRead PROVE TypeInv'
<1>1. events' \in 0..MaxEvents
  BY HappensTyped DEF SharedRead
<1>2. CardTyped(card')
  BY ServedAre DEF SharedRead, TypeInv, TypeOK, CardTyped, Quotas
<1> QED BY <1>1, <1>2
       DEF SharedRead, TypeInv, TypeOK, RoomLeft, EventNamed, CardTyped, provider, settings, ghost

LEMMA BeginChangeTyped == ASSUME TypeInv, BeginChange PROVE TypeInv'
<1>1. events' \in 0..MaxEvents
  BY HappensTyped DEF BeginChange
<1> QED BY <1>1 DEF BeginChange, TypeInv, TypeOK, RoomLeft, EventNamed, settings, ghost

LEMMA EndChangeTyped == ASSUME TypeInv, EndChange PROVE TypeInv'
BY PlainCards DEF EndChange, TypeInv, TypeOK, RoomLeft, EventNamed, CardTyped, settings, ghost

LEMMA UseTyped == ASSUME TypeInv, NEW a \in Account, Use(a) PROVE TypeInv'
<1>1. quota[a].left - 1 \in None..More
  BY DEF Use, TypeInv, TypeOK, None, More
<1>2. quota' \in Quotas /\ RoomLeft'
  BY <1>1 DEF Use, TypeInv, TypeOK, Quotas, RoomLeft
<1> QED BY <1>2 DEF Use, TypeInv, TypeOK, EventNamed, Quotas, settings, ghost

LEMMA RenewTyped == ASSUME TypeInv, NEW a \in Account, Renew(a) PROVE TypeInv'
<1>1. /\ quota[a].cycle + 1 \in 1..MaxCycle /\ More \in None..More
      /\ quota[a].banked => quota[a].cycle + 1 < MaxCycle
  BY ResetAlertsAssumption DEF Renew, Room, TypeInv, TypeOK, None, More
<1>2. quota' = [quota EXCEPT ![a] = [@ EXCEPT !.left = More, !.cycle = quota[a].cycle + 1]]
  BY DEF Renew, TypeInv, TypeOK
<1>3. quota' \in Quotas
  BY <1>1, <1>2 DEF TypeInv, TypeOK, Quotas
<1>4. RoomLeft'
  BY <1>1, <1>2 DEF TypeInv, TypeOK, Quotas, RoomLeft
<1> QED BY <1>3, <1>4 DEF Renew, TypeInv, TypeOK, EventNamed, Quotas, settings, ghost

LEMMA LapseTyped == ASSUME TypeInv, NEW a \in Account, Lapse(a) PROVE TypeInv'
<1>1. events' \in 0..MaxEvents
  BY HappensTyped DEF Lapse
<1>2. quota' \in Quotas /\ RoomLeft'
  BY DEF Lapse, TypeInv, TypeOK, Quotas, RoomLeft
<1> QED BY <1>1, <1>2 DEF Lapse, TypeInv, TypeOK, EventNamed, Quotas, settings, ghost

LEMMA SoonerTyped ==
  ASSUME NEW w \in WaitingSpend \cup {NoSpend}
  PROVE  /\ Sooner(w) \in WaitingSpend \cup {NoSpend}
         /\ Sooner(w) # NoSpend => w # NoSpend /\ Sooner(w).cycle = w.cycle
<1>1. CASE w = NoSpend \/ w.left = -(Late + MaxPoll + 1)
  BY <1>1 DEF Sooner
<1>2. CASE ~(w = NoSpend \/ w.left = -(Late + MaxPoll + 1))
  <2>1. w.left - 1 \in -(Late + MaxPoll + 1)..Delay
    BY <1>2, ResetAlertsAssumption DEF WaitingSpend
  <2> QED BY <1>2, <2>1 DEF Sooner, WaitingSpend
<1> QED BY <1>1, <1>2

LEMMA TickTyped == ASSUME TypeInv, Tick PROVE TypeInv'
<1>1. waiting' \in [Account -> WaitingSpend \cup {NoSpend}]
  BY SoonerTyped DEF Tick, TypeInv, TypeOK
<1>2. /\ poll' \in Poll /\ poll'.at = poll.at /\ poll'.offer = poll.offer
      /\ poll'.event = poll.event /\ poll'.due = poll.due
  <2>1. poll.at = "reading" => poll.elapsed + 1 \in 0..MaxPoll
    BY ResetAlertsAssumption DEF Tick, TypeInv, TypeOK, Poll
  <2> QED BY <2>1 DEF Tick, TypeInv, TypeOK, Poll
<1> QED BY <1>1, <1>2 DEF Tick, TypeInv, TypeOK, RoomLeft, EventNamed, provider, settings, ghost

LEMMA CrashTyped == ASSUME TypeInv, Crash PROVE TypeInv'
<1>1. events' \in 0..MaxEvents
  BY HappensTyped DEF Crash
<1>2. excused' \subseteq Account
  BY DEF Crash, TypeInv, TypeOK
<1>3. waiting' \in [Account -> WaitingSpend \cup {NoSpend}]
  BY DEF Crash
<1> QED BY <1>1, <1>2, <1>3, PlainCards, SleepingTyped
       DEF Crash, TypeInv, TypeOK, RoomLeft, EventNamed, CardTyped, settings

LEMMA TypeInvNext == ASSUME TypeInv, [Next]_vars PROVE TypeInv'
<1>1. CASE Loop
  BY <1>1, WakeTyped, RestTyped, PlanTyped, SaveTyped, NotSavedTyped, CommitTyped, SpendTyped
     DEF Loop
<1>2. CASE \E a \in Account : \/ \E x \in Alert : SetAlert(a, x)
                              \/ Cancel(a) \/ SpendByHand(a) \/ Use(a) \/ Renew(a) \/ Lapse(a)
  BY <1>2, SetAlertTyped, CancelTyped, SpendByHandTyped, UseTyped, RenewTyped, LapseTyped
<1>3. CASE SetNotify \/ UsedByHand \/ SharedRead \/ BeginChange \/ EndChange \/ Tick \/ Crash
  BY <1>3, SetNotifyTyped, UsedByHandTyped, SharedReadTyped, BeginChangeTyped, EndChangeTyped,
     TickTyped, CrashTyped
<1>4. CASE UNCHANGED vars
  BY <1>4 DEF vars, TypeInv, TypeOK, RoomLeft, EventNamed
<1> QED BY <1>1, <1>2, <1>3, <1>4 DEF Next

(* Every variable of the module keeps its type: a reset banked is never in  *)
(* the last cycle, a poll has offers and events only until it tells them.   *)
THEOREM AlertsTyped == Spec => []TypeOK
<1>1. Spec => []TypeInv
  BY TypeInvInit, TypeInvNext, PTL DEF Spec
<1>2. TypeInv => TypeOK
  BY DEF TypeInv
<1> QED BY <1>1, <1>2, PTL

-----------------------------------------------------------------------------
(* The inductive invariant of the offers.  A poll carries at most one offer,*)
(* which the state names already, until it is committed.                    *)
Offering(a) == poll.offer # NoReading /\ poll.offer.account = a

OfferNamed ==
  poll.offer # NoReading => /\ state.alerts[poll.offer.account].offered = poll.offer.cycle
                            /\ poll.alerts[poll.offer.account] # "off"

(* But for the offer under way, and for an account that is excused, a state *)
(* names what was told last; so does the one a failed save goes back to.    *)
Matches(s, a) == a \in excused \/ s.alerts[a].offered = told[a]

OffersTold ==
  \A a \in Account : /\ Offering(a) \/ Matches(state, a)
                     /\ poll.at = "saving" => Matches(poll.back, a)

(* An alert that is off, or was when the poll began, has nothing to match.  *)
Silent(a) == told[a] = 0 \/ a \in excused

TurnedOff ==
  \A a \in Account :
    /\ alerts[a] = "off" => Silent(a)
    /\ poll.at \in {"reading", "resting"} /\ poll.alerts[a] = "off" => Silent(a)
    /\ poll.at \in {"reading", "saving", "committing"} /\ alerts[a] = "off"
         /\ poll.alerts[a] # "off" => a \in excused
    /\ poll.at = "resting" => poll.alerts[a] = "off"

(* A waiting spend is of the cycle the state says was offered, unless the   *)
(* next offer of an automatic alert is about to replace it.                 *)
WaitingOffered ==
  \A a \in Account : waiting[a] # NoSpend =>
    /\ a \notin cancelled
    /\ Offering(a) => poll.alerts[a] = "automatic"
    /\ ~Offering(a) => state.alerts[a].offered = waiting[a].cycle
    /\ poll.at = "saving" => poll.back.alerts[a].offered = waiting[a].cycle

(* A spend to be made has left the queue.                                   *)
DueTaken ==
  \A d \in poll.due : d.spend => /\ waiting[d.account] = NoSpend
                                 /\ d.account \notin cancelled
                                 /\ ~Offering(d.account)

OffersInv == OfferNamed /\ OffersTold /\ TurnedOff /\ WaitingOffered /\ DueTaken

LEMMA OffersInvInit == Init => OffersInv
BY NewStateTyped, SleepingTyped
   DEF Init, OffersInv, OfferNamed, OffersTold, TurnedOff, WaitingOffered, DueTaken, Offering,
       Matches, Silent

(* A poll that is to be told carries an offer, no other one does.           *)
LEMMA OffersOnTheWay ==
  ASSUME TypeInv
  PROVE  /\ poll.at \notin {"saving", "committing"} =>
              poll.offer = NoReading /\ poll.event = "none" /\ \A a \in Account : ~Offering(a)
         /\ poll.at \notin {"saving", "committing", "spending"} => poll.due = {}
BY DEF TypeInv, TypeOK, Offering

LEMMA WakeOffers == ASSUME TypeInv, OffersInv, Wake PROVE OffersInv'
<1>1. /\ poll'.at \in {"reading", "resting"} /\ poll'.alerts = alerts
      /\ poll'.offer = NoReading /\ poll'.due = {}
      /\ poll'.at = "resting" => ~Watched
  BY SleepingTyped DEF Wake, Sleeping
<1>2. \A a \in Account : ~Offering(a)
  BY OffersOnTheWay DEF Wake
<1> QED BY <1>1, <1>2
       DEF Wake, Watched, OffersInv, OfferNamed, OffersTold, TurnedOff, WaitingOffered, DueTaken,
           Offering, Matches, Silent, settings, ghost

LEMMA RestOffers == ASSUME TypeInv, OffersInv, Rest PROVE OffersInv'
<1>1. /\ poll' = Sleeping /\ state' = NewState /\ waiting' = [a \in Account |-> NoSpend]
      /\ UNCHANGED <<alerts, told, excused, cancelled>>
  BY DEF Rest, settings, ghost
<1>2. \A a \in Account : Silent(a)
  BY DEF Rest, OffersInv, TurnedOff
<1>3. \A a \in Account : told[a] = 0 \/ a \in excused
  BY <1>2 DEF Silent
<1> QED BY <1>1, <1>3, SleepingTyped, NewStateTyped
       DEF OffersInv, OfferNamed, OffersTold, TurnedOff, WaitingOffered, DueTaken,
           Offering, Matches, Silent

(* What a plan does with an account: the offer it makes is of an alert that *)
(* is not off, and what is due was waiting.                                 *)
LEMMA PlanOffers == ASSUME TypeInv, OffersInv, Plan PROVE OffersInv'
<1>1. PICK c \in Served(poll.fresh, quota) :
       /\ card' = [c EXCEPT !.known = Live(c)]
       /\ state' = [alerts |-> [a \in Account |-> AlertAfter(a, c)], seen |-> Noticed(c).seen]
       /\ waiting' = StillWaiting(c)
       /\ poll' = [poll EXCEPT !.at = "saving", !.back = state, !.knew = c.known,
                               !.notify = FALSE, !.fresh = FALSE, !.elapsed = 0,
                               !.offer = Offered(c), !.event = Noticed(c).event,
                               !.due = {DueAt(a, c) : a \in {x \in Account : FallsDue(x, c)}}]
  BY DEF Plan
<1>2. /\ UNCHANGED <<alerts, told, excused, cancelled>> /\ poll.at = "reading"
      /\ \A a \in Account : ~Offering(a)
  BY OffersOnTheWay DEF Plan, settings, ghost
<1>3. /\ poll'.at = "saving" /\ poll'.back = state /\ poll'.offer = Offered(c)
      /\ poll'.due = {DueAt(a, c) : a \in {x \in Account : FallsDue(x, c)}}
      /\ poll'.alerts = poll.alerts
  BY <1>1 DEF TypeInv, TypeOK, Poll
<1>4. CardTyped(c)
  BY <1>1, ServedAre DEF TypeInv, TypeOK, CardTyped, Poll, Quotas
<1>5. ASSUME NEW a \in Account
      PROVE  /\ Offering(a)' => /\ Live(c) /\ c.reading.account = a /\ poll.alerts[a] # "off"
                                /\ Offers(state.alerts[a], c)
                                /\ poll'.offer.cycle = c.reading.cycle
                                /\ state'.alerts[a].offered = c.reading.cycle
             /\ ~Offering(a)' /\ poll.alerts[a] # "off"
                  => state'.alerts[a].offered = state.alerts[a].offered
             /\ poll.alerts[a] = "off" => state'.alerts[a].offered = 0
  <2>1. state'.alerts[a] = AlertAfter(a, c)
    BY <1>1
  <2>2. Offered(c) # NoReading => /\ Live(c) /\ poll.alerts[c.reading.account] # "off"
                                  /\ Offers(state.alerts[c.reading.account], c)
                                  /\ Offered(c).account = c.reading.account
                                  /\ Offered(c).cycle = c.reading.cycle
    BY DEF Offered
  <2>3. Offered(c) = NoReading =>
          ~(Live(c) /\ poll.alerts[c.reading.account] # "off"
                    /\ Offers(state.alerts[c.reading.account], c))
    BY <1>4, NotAReading DEF Offered, CardTyped, Card, Reading
  <2>4. poll.alerts[a] # "off" /\ (~Live(c) \/ c.reading.account # a)
          => AlertAfter(a, c).offered = state.alerts[a].offered
    BY DEF AlertAfter
  <2>5. poll.alerts[a] # "off" /\ Live(c) /\ c.reading.account = a
          => AlertAfter(a, c).offered =
               IF Offers(state.alerts[a], c) THEN c.reading.cycle ELSE state.alerts[a].offered
    BY DEF AlertAfter
  <2>6. poll.alerts[a] = "off" => AlertAfter(a, c).offered = 0
    BY DEF AlertAfter, NoAlert
  <2>7. Offering(a)' <=> Offered(c) # NoReading /\ Offered(c).account = a
    BY <1>3 DEF Offering
  <2> QED BY <1>3, <2>1, <2>2, <2>3, <2>4, <2>5, <2>6, <2>7
<1>6. ASSUME NEW a \in Account, waiting'[a] # NoSpend
      PROVE  waiting'[a] = waiting[a] /\ poll.alerts[a] = "automatic" /\ ~FallsDue(a, c)
  BY <1>1, <1>6 DEF StillWaiting, Kept
<1>7. OfferNamed'
  <2>1. poll'.offer # NoReading => poll'.offer.account \in Account
    BY <1>3, <1>4, OfferedTyped
  <2>2. \A a \in Account : poll'.offer # NoReading /\ poll'.offer.account = a => Offering(a)'
    BY DEF Offering
  <2> QED BY <1>3, <1>5, <2>1, <2>2 DEF OfferNamed
<1>8. OffersTold'
  <2> SUFFICES ASSUME NEW a \in Account
               PROVE  (Offering(a)' \/ Matches(state, a)') /\ Matches(state, a)
    BY <1>2, <1>3 DEF OffersTold, Matches
  <2>1. Matches(state, a)
    BY <1>2 DEF OffersInv, OffersTold
  <2>2. poll.alerts[a] = "off" => Silent(a)
    BY <1>2 DEF OffersInv, TurnedOff
  <2> QED BY <1>2, <1>5, <2>1, <2>2 DEF Matches, Silent
<1>9. TurnedOff'
  BY <1>2, <1>3 DEF OffersInv, TurnedOff, Silent
<1>10. WaitingOffered'
  <2> SUFFICES ASSUME NEW a \in Account, waiting'[a] # NoSpend
               PROVE  /\ a \notin cancelled /\ poll.alerts[a] = "automatic"
                      /\ state.alerts[a].offered = waiting[a].cycle
    BY <1>2, <1>3, <1>5, <1>6 DEF WaitingOffered
  <2> QED BY <1>2, <1>6 DEF OffersInv, WaitingOffered
<1>11. DueTaken'
  <2> SUFFICES ASSUME NEW a \in Account, FallsDue(a, c), DueAt(a, c).spend
               PROVE  waiting'[a] = NoSpend /\ a \notin cancelled /\ ~Offering(a)'
    BY <1>2, <1>3 DEF DueTaken, DueAt
  <2>1. Kept(a) # NoSpend /\ Kept(a) = waiting[a]
    BY DEF FallsDue, Kept
  <2>2. a \notin cancelled /\ state.alerts[a].offered = waiting[a].cycle
    BY <1>2, <2>1 DEF OffersInv, WaitingOffered
  <2>3. Same(c.reading.cycle, waiting[a].cycle)
    BY <2>1 DEF DueAt
  <2>4. waiting[a].cycle \in Cycle /\ (Live(c) => c.reading.cycle \in Cycle)
    BY <1>4, <2>1 DEF TypeInv, TypeOK, WaitingSpend, CardTyped, Card, Reading
  <2>5. ~(Live(c) /\ Offers(state.alerts[a], c))
    BY <2>2, <2>3, <2>4 DEF Offers, Same, Cycle
  <2> QED BY <1>1, <1>5, <2>2, <2>5 DEF StillWaiting
<1> QED BY <1>7, <1>8, <1>9, <1>10, <1>11 DEF OffersInv

LEMMA SaveOffers == ASSUME TypeInv, OffersInv, Save PROVE OffersInv'
<1>1. /\ poll'.at = "committing" /\ poll'.offer = poll.offer /\ poll'.alerts = poll.alerts
      /\ poll'.due = poll.due
  BY DEF Save, TypeInv, TypeOK, Poll
<1> QED BY <1>1
       DEF Save, OffersInv, OfferNamed, OffersTold, TurnedOff, WaitingOffered, DueTaken, Offering,
           Matches, Silent, settings, ghost

LEMMA NotSavedOffers == ASSUME TypeInv, OffersInv, NotSaved PROVE OffersInv'
<1>1. /\ poll'.at \in {"idle", "spending"} /\ poll'.offer = NoReading /\ poll'.due = poll.due
      /\ state' = poll.back /\ poll.at = "saving"
      /\ UNCHANGED <<alerts, waiting, told, excused, cancelled>>
  BY SpendingTyped DEF NotSaved, TypeInv, TypeOK, settings, ghost
<1> QED BY <1>1
       DEF OffersInv, OfferNamed, OffersTold, TurnedOff, WaitingOffered, DueTaken, Offering,
           Matches, Silent

LEMMA CommitOffers == ASSUME TypeInv, OffersInv, Commit PROVE OffersInv'
<1>1. /\ poll'.at \in {"idle", "spending"} /\ poll'.offer = NoReading /\ poll'.due = poll.due
      /\ poll.at = "committing" /\ UNCHANGED <<alerts, state>>
  BY SpendingTyped DEF Commit, TypeInv, TypeOK, settings
<1>2. CASE poll.offer = NoReading
  BY <1>1, <1>2
     DEF Commit, OffersInv, OfferNamed, OffersTold, TurnedOff, WaitingOffered, DueTaken, Offering,
         Matches, Silent
<1>3. CASE poll.offer # NoReading
  <2> DEFINE a == poll.offer.account
  <2>1. a \in Account /\ Offering(a) /\ poll.offer.cycle = state.alerts[a].offered
        /\ poll.alerts[a] # "off" /\ \A x \in Account \ {a} : ~Offering(x)
    BY <1>3 DEF TypeInv, TypeOK, Poll, Offering, OffersInv, OfferNamed
  <2>2. /\ told'[a] = poll.offer.cycle /\ \A x \in Account \ {a} : told'[x] = told[x]
    BY <1>3, <2>1 DEF Commit, TypeInv, TypeOK
  <2>3. /\ excused' = IF alerts[a] = "off" THEN excused ELSE excused \ {a}
    BY <1>3 DEF Commit
  <2>4. /\ \A x \in Account \ {a} : waiting'[x] = waiting[x] /\ (x \in cancelled' <=> x \in cancelled)
        /\ \/ waiting'[a].cycle = poll.offer.cycle /\ a \notin cancelled'
           \/ waiting'[a] = waiting[a] /\ poll.alerts[a] # "automatic"
    BY <1>3, <2>1 DEF Commit, TypeInv, TypeOK
  <2> HIDE DEF a
  <2>5. OfferNamed' /\ OffersTold'
    BY <1>1, <2>1, <2>2, <2>3 DEF OffersInv, OfferNamed, OffersTold, Matches, Offering
  <2>6. TurnedOff'
    BY <1>1, <2>1, <2>2, <2>3 DEF OffersInv, TurnedOff, Silent
  <2>7. WaitingOffered'
    BY <1>1, <2>1, <2>4 DEF OffersInv, WaitingOffered, Offering
  <2>8. DueTaken'
    <3>1. \A d \in poll.due : d.account \in Account
      BY DEF TypeInv, TypeOK, Poll, Due
    <3> QED BY <1>1, <2>1, <2>4, <3>1 DEF OffersInv, DueTaken, Offering
  <2> QED BY <2>5, <2>6, <2>7, <2>8 DEF OffersInv
<1> QED BY <1>2, <1>3

LEMMA SpendOffers == ASSUME TypeInv, OffersInv, Spend PROVE OffersInv'
<1>1. PICK d \in poll.due : poll' = Spending([poll EXCEPT !.due = @ \ {d}])
  BY DEF Spend
<1>2. /\ poll'.at \in {"idle", "spending"} /\ poll'.offer = NoReading
      /\ poll'.due \subseteq poll.due
  <2>1. [poll EXCEPT !.due = @ \ {d}] \in Poll
    BY DEF TypeInv, TypeOK, Poll
  <2> QED BY <1>1, <2>1, SpendingTyped DEF TypeInv, TypeOK, Poll
<1>3. /\ UNCHANGED <<alerts, state, waiting, told, excused, cancelled>>
      /\ \A a \in Account : ~Offering(a)
  BY OffersOnTheWay DEF Spend, settings, ghost
<1> QED BY <1>2, <1>3
       DEF OffersInv, OfferNamed, OffersTold, TurnedOff, WaitingOffered, DueTaken, Offering,
           Matches, Silent

LEMMA SetAlertOffers ==
  ASSUME TypeInv, OffersInv, NEW a \in Account, NEW x \in Alert, SetAlert(a, x)
  PROVE  OffersInv'
<1>1. /\ excused \subseteq excused' /\ (x = "off" => a \in excused')
      /\ \A b \in Account : alerts'[b] = IF b = a THEN x ELSE alerts[b]
      /\ UNCHANGED <<state, waiting, poll, told, cancelled>>
  BY DEF SetAlert, TypeInv, TypeOK
<1> QED BY <1>1
       DEF OffersInv, OfferNamed, OffersTold, TurnedOff, WaitingOffered, DueTaken, Offering,
           Matches, Silent

LEMMA CancelOffers ==
  ASSUME TypeInv, OffersInv, NEW a \in Account, Cancel(a)
  PROVE  OffersInv'
<1>1. /\ waiting[a] # NoSpend /\ cancelled' = cancelled \cup {a}
      /\ \A b \in Account : waiting'[b] = IF b = a THEN NoSpend ELSE waiting[b]
      /\ UNCHANGED <<alerts, state, poll, told, excused>>
  BY DEF Cancel, TypeInv, TypeOK, settings
<1>2. \A d \in poll.due : d.account \in Account
  BY DEF TypeInv, TypeOK, Poll, Due
<1> QED BY <1>1, <1>2
       DEF OffersInv, OfferNamed, OffersTold, TurnedOff, WaitingOffered, DueTaken, Offering,
           Matches, Silent

(* Whatever leaves the queue with no more in it, and the poll as it is.     *)
LEMMA QueueShrinks ==
  ASSUME TypeInv, OffersInv, UNCHANGED <<alerts, state, told, excused, cancelled>>,
         UNCHANGED <<poll.at, poll.alerts, poll.offer, poll.back, poll.due>>,
         \A a \in Account : waiting'[a] # NoSpend => waiting[a] # NoSpend /\ waiting'[a].cycle = waiting[a].cycle
  PROVE  OffersInv'
<1>1. OfferNamed' /\ OffersTold' /\ TurnedOff'
  BY DEF OffersInv, OfferNamed, OffersTold, TurnedOff, Offering, Matches, Silent
<1>2. WaitingOffered'
  BY DEF OffersInv, WaitingOffered, Offering
<1>3. DueTaken'
  BY DEF OffersInv, DueTaken, Offering, TypeInv, TypeOK, Poll, Due
<1> QED BY <1>1, <1>2, <1>3 DEF OffersInv

LEMMA UsedByHandOffers == ASSUME TypeInv, OffersInv, UsedByHand PROVE OffersInv'
<1>1. \A a \in Account : waiting'[a] \in {waiting[a], NoSpend}
  BY DEF UsedByHand, TypeInv, TypeOK
<1> QED BY <1>1, QueueShrinks DEF UsedByHand, settings, ghost

LEMMA TickOffers == ASSUME TypeInv, OffersInv, Tick PROVE OffersInv'
<1>1. \A a \in Account : waiting'[a] # NoSpend => waiting[a] # NoSpend /\ waiting'[a].cycle = waiting[a].cycle
  BY SoonerTyped DEF Tick, TypeInv, TypeOK
<1>2. UNCHANGED <<poll.at, poll.alerts, poll.offer, poll.back, poll.due>>
  BY DEF Tick, TypeInv, TypeOK, Poll
<1> QED BY <1>1, <1>2, QueueShrinks DEF Tick, settings, ghost

LEMMA CrashOffers == ASSUME TypeInv, OffersInv, Crash PROVE OffersInv'
<1>1. /\ poll' = Sleeping /\ state' = disk /\ waiting' = [a \in Account |-> NoSpend]
      /\ excused' = excused \cup {a \in Account : disk.alerts[a].offered # told[a]}
      /\ UNCHANGED <<alerts, told, cancelled>>
  BY DEF Crash, settings
<1> QED BY <1>1, SleepingTyped
       DEF OffersInv, OfferNamed, OffersTold, TurnedOff, WaitingOffered, DueTaken, Offering,
           Matches, Silent

LEMMA OffersInvNext == ASSUME TypeInv, OffersInv, [Next]_vars PROVE OffersInv'
<1>1. CASE Loop
  BY <1>1, WakeOffers, RestOffers, PlanOffers, SaveOffers, NotSavedOffers, CommitOffers,
     SpendOffers DEF Loop
<1>2. CASE \E a \in Account : \/ \E x \in Alert : SetAlert(a, x)
                              \/ Cancel(a)
  BY <1>2, SetAlertOffers, CancelOffers
<1>3. CASE UsedByHand \/ Tick \/ Crash
  BY <1>3, UsedByHandOffers, TickOffers, CrashOffers
<1>4. CASE \/ \E a \in Account : SpendByHand(a) \/ Use(a) \/ Renew(a) \/ Lapse(a)
           \/ SetNotify \/ SharedRead \/ BeginChange \/ EndChange \/ UNCHANGED vars
  <2>1. UNCHANGED <<alerts, state, waiting, poll, told, excused, cancelled>>
    BY <1>4 DEF SpendByHand, Use, Renew, Lapse, SetNotify, SharedRead, BeginChange, EndChange,
                settings, ghost, vars
  <2> QED BY <2>1, QueueShrinks
<1> QED BY <1>1, <1>2, <1>3, <1>4 DEF Next

LEMMA OffersInvariant == Spec => [](TypeInv /\ OffersInv)
BY TypeInvInit, OffersInvInit, TypeInvNext, OffersInvNext, PTL DEF Spec

(* What the monitor's state says was offered was told or scheduled: a save  *)
(* that fails takes the offer back with it, and only a crash loses one.     *)
THEOREM OffersAreKept == Spec => []OfferNotLost
<1>1. TypeInv /\ OffersInv => OfferNotLost
  BY OffersOnTheWay DEF OffersInv, OffersTold, Matches, OfferNotLost
<1> QED BY <1>1, OffersInvariant, PTL

(* A spend whose cancellation was confirmed is not made, whichever of a poll*)
(* and a cancellation came first.                                           *)
THEOREM CancelledIsNotMade == Spec => []CancelledNotSpent
<1>1. OffersInv => CancelledNotSpent
  BY DEF OffersInv, DueTaken, CancelledNotSpent
<1> QED BY <1>1, OffersInvariant, PTL

-----------------------------------------------------------------------------
(* Cycles as they are reported.  The c-th is reported as 3c or 3c + 1, so   *)
(* that two reports are of the same cycle or the later is later by two.     *)
Limit == [left : None..More, cycle : 1..MaxCycle, banked : BOOLEAN]

Reported(n, c) == \E q \in 0..c : n \in {3 * q, 3 * q + 1}

Fresh(r, l) == r.left = l.left /\ r.cycle \in {3 * l.cycle, 3 * l.cycle + 1}

Grows(l, m) == m.cycle > l.cycle \/ (m.cycle = l.cycle /\ (l.left = None => m.left = None))

(* The cycle n is over, or used up; and so a reading of the limit finds it. *)
Over(l, n)   == n = 0 \/ 3 * l.cycle > n + 1 \/ l.left = None
Beyond(r, n) == n = 0 \/ Later(r.cycle, n) \/ r.left = None

(* A reading is no older than an observation of its account.                *)
NoOlder(r, s) == s # NoReading /\ s.account = r.account => r.cycle >= s.cycle - 1

LEMMA ReportedStays ==
  ASSUME NEW l \in Limit, NEW m \in Limit, Grows(l, m), NEW n, Reported(n, l.cycle)
  PROVE  Reported(n, m.cycle)
BY ResetAlertsAssumption DEF Limit, Grows, Reported

LEMMA OverStays ==
  ASSUME NEW l \in Limit, NEW m \in Limit, Grows(l, m), NEW n \in Nat, Reported(n, l.cycle),
         Over(l, n)
  PROVE  Over(m, n)
<1>1. l.cycle \in Nat /\ m.cycle \in Nat
  BY ResetAlertsAssumption DEF Limit
<1>2. n <= 3 * l.cycle + 1
  BY <1>1 DEF Reported
<1> QED BY <1>1, <1>2 DEF Grows, Over

LEMMA FreshIsNewer ==
  ASSUME NEW l \in Limit, NEW r, Fresh(r, l)
  PROVE  /\ Reported(r.cycle, l.cycle)
         /\ \A n \in Nat : Reported(n, l.cycle) => r.cycle >= n - 1
         /\ \A n \in Nat : Over(l, n) => Beyond(r, n)
         /\ r.left = None => \A n \in Nat : Over(l, n)
<1>1. l.cycle \in Nat /\ l.cycle \in 0..l.cycle
  BY ResetAlertsAssumption DEF Limit
<1>2. ASSUME NEW n \in Nat, Reported(n, l.cycle)
      PROVE  r.cycle >= n - 1
  BY <1>1, <1>2 DEF Reported, Fresh
<1> QED BY <1>1, <1>2 DEF Reported, Fresh, Over, Beyond, Later

LEMMA LaterStill ==
  ASSUME NEW c \in Nat, NEW n \in Nat, NEW m \in Nat, NEW k \in Nat,
         Reported(n, c), Reported(m, c), Reported(k, c), Later(m, n), k >= m - 1
  PROVE  Later(k, n)
<1>1. PICK x \in 0..c : n \in {3 * x, 3 * x + 1}
  BY DEF Reported
<1>2. PICK y \in 0..c : m \in {3 * y, 3 * y + 1}
  BY DEF Reported
<1>3. PICK z \in 0..c : k \in {3 * z, 3 * z + 1}
  BY DEF Reported
<1>4. y > x
  BY <1>1, <1>2 DEF Later
<1>5. z >= y
  BY <1>2, <1>3
<1> QED BY <1>1, <1>3, <1>4, <1>5 DEF Later

-----------------------------------------------------------------------------
(* The inductive invariant of what is told once.  Whatever was read, seen,  *)
(* offered or told is of no later cycle than the account's.                 *)
Date(a, n) == Reported(n, quota[a].cycle)

SeenStates == {state.seen, disk.seen, poll.back.seen}

Dated ==
  /\ Live(card) => Date(card.reading.account, card.reading.cycle)
  /\ \A s \in SeenStates : s # NoReading => Date(s.account, s.cycle)
  /\ poll.offer # NoReading => Date(poll.offer.account, poll.offer.cycle)
  /\ \A a \in Account : Date(a, told[a]) /\ Date(a, noted[a])

(* A card the state does not know is no older than what was told and seen;  *)
(* nor is it than the state a failed save goes back to, if that state did   *)
(* not know it.                                                             *)
Newer ==
  Live(card) =>
    LET r == card.reading
    IN /\ ~card.known => /\ r.cycle >= told[r.account] - 1
                         /\ poll.offer # NoReading /\ poll.offer.account = r.account
                              => r.cycle >= poll.offer.cycle - 1
                         /\ NoOlder(r, state.seen)
       /\ poll.at = "saving" /\ ~(card.known /\ poll.knew) =>
            r.cycle >= told[r.account] - 1 /\ NoOlder(r, poll.back.seen)

Once == \A a \in Account : OfferedOnce(a) /\ ExhaustedOnce(a)

(* A cycle told as used up, and one about to be, is over or still used up,  *)
(* at the provider and in the card; a state that still watches the account  *)
(* watches a later cycle or knows this one to be used up.                   *)
UsedUp ==
  /\ \A a \in Account : Over(quota[a], noted[a])
  /\ Live(card) => /\ Beyond(card.reading, noted[card.reading.account])
                   /\ card.reading.left = None
                        => Over(quota[card.reading.account], card.reading.cycle)
  /\ \A s \in SeenStates : s # NoReading =>
       noted[s.account] = 0 \/ Later(s.cycle, noted[s.account]) \/ s.exhausted
  /\ poll.event = "exhausted" =>
       /\ state.seen.exhausted
       /\ Over(quota[state.seen.account], state.seen.cycle)
       /\ Live(card) /\ card.reading.account = state.seen.account
            => Beyond(card.reading, state.seen.cycle)

(* What a poll keeps to go back to, and what its save wrote.                *)
SavedFirst == /\ poll.at = "committing" => disk.seen = state.seen
              /\ poll.at # "saving" => poll.back = NewState

ToldInv == Dated /\ Newer /\ Once /\ UsedUp /\ SavedFirst

LEMMA Numbers ==
  ASSUME TypeInv
  PROVE  /\ \A a \in Account : quota[a] \in Limit /\ told[a] \in Nat /\ noted[a] \in Nat
         /\ \A a \in Account : quota[a].cycle \in Nat
         /\ Live(card) => card.reading.account \in Account /\ card.reading.cycle \in Nat
         /\ \A s \in SeenStates : s # NoReading => s.account \in Account /\ s.cycle \in Nat
         /\ poll.offer # NoReading => poll.offer.account \in Account /\ poll.offer.cycle \in Nat
<1>1. /\ \A x \in Cycle : x \in Nat
      /\ \A x \in 1..MaxCycle : x \in Nat
  BY ResetAlertsAssumption DEF Cycle
<1>2. {state, disk, poll.back} \subseteq MonitorState
  BY DEF TypeInv, TypeOK, Poll
<1>3. \A s \in SeenStates : s # NoReading => s.account \in Account /\ s.cycle \in Cycle
  BY <1>2 DEF SeenStates, MonitorState, Observation
<1>4. Live(card) => card.reading.account \in Account /\ card.reading.cycle \in Cycle
  BY DEF TypeInv, TypeOK, Card, Reading
<1>5. \A a \in Account : quota[a] \in Limit /\ quota[a].cycle \in 1..MaxCycle
  BY DEF TypeInv, TypeOK, Limit
<1>6. \A a \in Account : told[a] \in Cycle \cup {0} /\ noted[a] \in Cycle \cup {0}
  BY DEF TypeInv, TypeOK
<1>7. poll.offer # NoReading => poll.offer.account \in Account /\ poll.offer.cycle \in Cycle
  BY DEF TypeInv, TypeOK, Poll
<1> QED BY <1>1, <1>3, <1>4, <1>5, <1>6, <1>7

LEMMA ToldInvInit == Init => ToldInv
<1> SUFFICES ASSUME Init PROVE ToldInv
  OBVIOUS
<1>1. /\ ~Live(card) /\ poll.offer = NoReading /\ poll.event = "none" /\ poll.at = "idle"
      /\ poll.back = NewState /\ \A s \in SeenStates : s = NoReading
      /\ \A a \in Account : told[a] = 0 /\ noted[a] = 0 /\ quota[a].cycle = 1
  BY PlainCards, SleepingTyped, NewStateTyped DEF Init, SeenStates
<1>2. Reported(0, 1)
  BY DEF Reported
<1> QED BY <1>1, <1>2
       DEF ToldInv, Dated, Date, Newer, Once, OfferedOnce, ExhaustedOnce, UsedUp, Over, SavedFirst

(* A step that leaves the states and what was told alone: limits may go on  *)
(* and the card be replaced by an answer.                                   *)
PollStays == UNCHANGED <<poll.at, poll.offer, poll.event, poll.back, poll.knew>>

PollOver == /\ poll'.offer = NoReading /\ poll'.event = "none"
            /\ poll'.at \notin {"saving", "committing"} /\ poll'.back = NewState

CardMoves ==
  \/ card' = card
  \/ ~card'.known /\ (Live(card') => Fresh(card'.reading, quota'[card'.reading.account]))

LEMMA LimitsGoOn ==
  ASSUME TypeInv, TypeInv', ToldInv, UNCHANGED <<state, disk, told, noted>>,
         excused \subseteq excused', \A a \in Account : Grows(quota[a], quota'[a]),
         CardMoves, PollStays \/ PollOver
  PROVE  ToldInv'
<1>1. /\ \A a \in Account : quota'[a] \in Limit /\ quota'[a].cycle \in Nat
      /\ Live(card') => card'.reading.account \in Account /\ card'.reading.cycle \in Nat
  BY DEF TypeInv, TypeOK, Limit, Card, Reading, Cycle
<1>2. ASSUME NEW a \in Account, NEW n, Date(a, n)
      PROVE  Reported(n, quota'[a].cycle)
  BY <1>1, <1>2, Numbers, ReportedStays DEF Date
<1>3. ASSUME NEW a \in Account, NEW n \in Nat, Date(a, n), Over(quota[a], n)
      PROVE  Over(quota'[a], n)
  BY <1>1, <1>3, Numbers, OverStays DEF Date
<1>4. SeenStates' \subseteq SeenStates \cup {NoReading}
  BY NewStateTyped DEF SeenStates, PollStays, PollOver
<1>5. poll'.offer \in {poll.offer, NoReading} /\ poll'.event \in {poll.event, "none"}
  BY DEF PollStays, PollOver
<1>6. /\ \A s \in SeenStates' : s # NoReading => Reported(s.cycle, quota'[s.account].cycle)
      /\ poll'.offer # NoReading => Reported(poll'.offer.cycle, quota'[poll'.offer.account].cycle)
      /\ \A a \in Account : Reported(told[a], quota'[a].cycle) /\ Reported(noted[a], quota'[a].cycle)
      /\ \A a \in Account : Over(quota'[a], noted[a])
  BY <1>2, <1>3, <1>4, <1>5, Numbers DEF ToldInv, Dated, UsedUp
<1>7. poll'.event = "exhausted" =>
        /\ poll.event = "exhausted" /\ state.seen # NoReading /\ state.seen.exhausted
        /\ state.seen.account \in Account /\ state.seen.cycle \in Nat
        /\ Reported(state.seen.cycle, quota'[state.seen.account].cycle)
        /\ Over(quota'[state.seen.account], state.seen.cycle)
  BY <1>2, <1>3, <1>5, Numbers DEF ToldInv, Dated, UsedUp, TypeInv, EventNamed, SeenStates
<1>8. Once' /\ SavedFirst'
  BY <1>5, <1>7 DEF ToldInv, Once, OfferedOnce, ExhaustedOnce, SavedFirst, PollStays, PollOver
<1>9. CASE card' = card
  <2>1. Live(card) => /\ Reported(card.reading.cycle, quota'[card.reading.account].cycle)
                      /\ card.reading.left = None
                           => Over(quota'[card.reading.account], card.reading.cycle)
    BY <1>2, <1>3, Numbers DEF ToldInv, Dated, UsedUp
  <2>2. Dated'
    BY <1>6, <1>9, <2>1 DEF Dated, Date
  <2>3. Newer'
    BY <1>9 DEF ToldInv, Newer, PollStays, PollOver
  <2>4. UsedUp'
    BY <1>4, <1>6, <1>7, <1>9, <2>1 DEF ToldInv, UsedUp
  <2> QED BY <1>8, <2>2, <2>3, <2>4 DEF ToldInv
<1>10. CASE card' # card
  <2>1. Live(card') => Fresh(card'.reading, quota'[card'.reading.account])
    BY <1>10 DEF CardMoves
  <2>2. Live(card') => LET r == card'.reading
                           l == quota'[card'.reading.account]
                       IN /\ Reported(r.cycle, l.cycle)
                          /\ \A n \in Nat : Reported(n, l.cycle) => r.cycle >= n - 1
                          /\ \A n \in Nat : Over(l, n) => Beyond(r, n)
                          /\ r.left = None => \A n \in Nat : Over(l, n)
    BY <1>1, <2>1, FreshIsNewer
  <2>3. \A s \in SeenStates' : s # NoReading => s.account \in Account /\ s.cycle \in Nat
    BY <1>4, Numbers
  <2>4. Dated'
    BY <1>6, <2>2 DEF Dated, Date
  <2>5. Live(card') => \A s \in SeenStates' : NoOlder(card'.reading, s)
    BY <1>6, <2>2, <2>3 DEF NoOlder
  <2>6. Live(card') /\ poll'.offer # NoReading /\ poll'.offer.account = card'.reading.account
          => card'.reading.cycle >= poll'.offer.cycle - 1
    BY <1>5, <1>6, <2>2, Numbers
  <2>7. Live(card') => card'.reading.cycle >= told[card'.reading.account] - 1
    BY <1>1, <1>6, <2>2, Numbers
  <2>8. Newer'
    BY <2>5, <2>6, <2>7 DEF Newer, SeenStates
  <2>9. UsedUp'
    BY <1>1, <1>4, <1>6, <1>7, <2>2, Numbers DEF ToldInv, UsedUp
  <2> QED BY <1>8, <2>4, <2>8, <2>9 DEF ToldInv
<1> QED BY <1>9, <1>10

(* The steps that do so.                                                    *)
LEMMA SameLimits ==
  ASSUME TypeInv, quota' = quota
  PROVE  \A a \in Account : Grows(quota[a], quota'[a])
BY Numbers DEF Grows, Limit

LEMMA AttemptGrows ==
  ASSUME TypeInv, NEW a \in Account, NEW allowed \in BOOLEAN, Attempt(a, allowed)
  PROVE  (\A x \in Account : Grows(quota[x], quota'[x])) /\ CardMoves
<1>1. /\ quota' = quota \/ quota' = Renewed(a)
      /\ card' = card \/ (~card'.known /\ (Live(card') => Fits(card'.reading, quota')))
  BY Attempted
<1>2. CardMoves
  BY <1>1 DEF CardMoves, Fits, Fresh
<1>3. CASE quota' = Renewed(a)
  <2>1. \A x \in Account : quota'[x].cycle = IF x = a THEN quota[x].cycle + 1 ELSE quota[x].cycle
    BY <1>3 DEF Renewed, TypeInv, TypeOK
  <2>2. \A x \in Account \ {a} : quota'[x].left = quota[x].left
    BY <1>3 DEF Renewed, TypeInv, TypeOK
  <2> QED BY <1>2, <2>1, <2>2, Numbers DEF Grows
<1> QED BY <1>1, <1>2, <1>3, SameLimits

LEMMA SpendGoesOn ==
  ASSUME TypeInv, TypeInv', ToldInv, Spend
  PROVE  ToldInv'
<1>1. PICK d \in poll.due :
       /\ IF d.spend THEN Attempt(d.account, quota[d.account].left <= Share)
                     ELSE UNCHANGED <<quota, card>>
       /\ poll' = Spending([poll EXCEPT !.due = @ \ {d}])
  BY DEF Spend
<1>2. d.account \in Account /\ [poll EXCEPT !.due = @ \ {d}] \in Poll
  BY DEF TypeInv, TypeOK, Poll, Due
<1>3. PollOver
  BY <1>1, <1>2, SpendingTyped DEF PollOver
<1>4. (\A x \in Account : Grows(quota[x], quota'[x])) /\ CardMoves
  <2>1. (quota[d.account].left <= Share) \in BOOLEAN
    OBVIOUS
  <2> QED BY <1>1, <1>2, <2>1, AttemptGrows, SameLimits DEF CardMoves
<1> QED BY <1>3, <1>4, LimitsGoOn DEF Spend, ghost

LEMMA SpendByHandGoesOn ==
  ASSUME TypeInv, TypeInv', ToldInv, NEW a \in Account, SpendByHand(a)
  PROVE  ToldInv'
<1>1. (\A x \in Account : Grows(quota[x], quota'[x])) /\ CardMoves
  BY AttemptGrows DEF SpendByHand
<1> QED BY <1>1, LimitsGoOn DEF SpendByHand, PollStays, ghost

LEMMA LimitMovesOn ==
  ASSUME TypeInv, TypeInv', ToldInv, NEW a \in Account, Use(a) \/ Renew(a) \/ Lapse(a)
  PROVE  ToldInv'
<1>1. /\ \A x \in Account \ {a} : quota'[x] = quota[x]
      /\ \/ quota'[a].cycle = quota[a].cycle /\ quota[a].left # None
         \/ quota'[a].cycle = quota[a].cycle /\ quota'[a].left = quota[a].left
         \/ quota'[a].cycle = quota[a].cycle + 1
      /\ UNCHANGED <<card, state, disk, poll, told, noted, excused>>
  BY DEF Use, Renew, Lapse, TypeInv, TypeOK, None, ghost
<1>2. \A x \in Account : Grows(quota[x], quota'[x])
  BY <1>1, Numbers DEF Grows
<1> QED BY <1>1, <1>2, LimitsGoOn DEF CardMoves, PollStays

LEMMA OthersGoOn ==
  ASSUME TypeInv, TypeInv', ToldInv,
         \/ Wake \/ SetNotify \/ UsedByHand \/ SharedRead \/ BeginChange \/ EndChange \/ Tick
         \/ \E a \in Account : Cancel(a) \/ \E x \in Alert : SetAlert(a, x)
         \/ UNCHANGED vars
  PROVE  ToldInv'
<1>1. UNCHANGED <<quota, state, disk, told, noted>> /\ excused \subseteq excused'
  BY DEF Wake, SetNotify, UsedByHand, SharedRead, BeginChange, EndChange, Tick, Cancel, SetAlert,
         provider, ghost, vars
<1>2. CardMoves
  <2>1. CASE SharedRead
    <3>1. card' = card \/ (~card'.known /\ (Live(card') => Fits(card'.reading, quota)))
      BY <2>1, ServedAre DEF SharedRead, TypeInv, TypeOK, CardTyped, Quotas
    <3> QED BY <1>1, <3>1 DEF CardMoves, Fits, Fresh
  <2>2. CASE EndChange
    BY <2>2, PlainCards DEF EndChange, CardMoves, Empty
  <2>3. CASE ~SharedRead /\ ~EndChange
    BY <2>3 DEF Wake, SetNotify, UsedByHand, BeginChange, Tick, Cancel, SetAlert, vars,
                provider, CardMoves
  <2> QED BY <2>1, <2>2, <2>3
<1>3. PollStays \/ PollOver
  <2>1. CASE Wake
    BY <2>1, SleepingTyped DEF Wake, Sleeping, PollOver
  <2>2. CASE Tick
    BY <2>2 DEF Tick, TypeInv, TypeOK, Poll, PollStays
  <2>3. CASE ~Wake /\ ~Tick
    BY <2>3 DEF SetNotify, UsedByHand, SharedRead, BeginChange, EndChange, Cancel, SetAlert, vars,
                PollStays
  <2> QED BY <2>1, <2>2, <2>3
<1> QED BY <1>1, <1>2, <1>3, SameLimits, LimitsGoOn

-----------------------------------------------------------------------------
(* The steps of the loop that write the state or tell, and a crash.         *)
LEMMA RestTold == ASSUME TypeInv, ToldInv, Rest PROVE ToldInv'
<1>1. /\ state'.seen = NoReading /\ disk' \in {disk, NewState}
      /\ poll' = Sleeping /\ UNCHANGED <<quota, card, told, noted, excused>>
  BY NewStateTyped DEF Rest, provider, ghost
<1>2. SeenStates' \subseteq SeenStates \cup {NoReading}
  BY <1>1, NewStateTyped, SleepingTyped DEF SeenStates
<1>3. Dated' /\ UsedUp'
  BY <1>1, <1>2, SleepingTyped DEF ToldInv, Dated, Date, UsedUp
<1> QED BY <1>1, <1>3, SleepingTyped
       DEF ToldInv, Newer, NoOlder, Once, OfferedOnce, ExhaustedOnce, SavedFirst

LEMMA CrashTold == ASSUME TypeInv, ToldInv, Crash PROVE ToldInv'
<1>1. /\ state' = disk /\ ~Live(card') /\ poll' = Sleeping
      /\ UNCHANGED <<quota, disk, told, noted>>
  BY PlainCards DEF Crash
<1>2. SeenStates' \subseteq SeenStates \cup {NoReading}
  BY <1>1, NewStateTyped, SleepingTyped DEF SeenStates
<1>3. Dated' /\ UsedUp'
  BY <1>1, <1>2, SleepingTyped DEF ToldInv, Dated, Date, UsedUp
<1> QED BY <1>1, <1>3, SleepingTyped
       DEF ToldInv, Newer, Once, OfferedOnce, ExhaustedOnce, SavedFirst

LEMMA SaveTold == ASSUME TypeInv, ToldInv, Save PROVE ToldInv'
<1>1. /\ poll'.at = "committing" /\ poll'.offer = poll.offer /\ poll'.event = poll.event
      /\ poll'.back = NewState /\ disk' = state
      /\ UNCHANGED <<quota, card, state, told, noted, excused>>
  BY DEF Save, TypeInv, TypeOK, Poll, provider, ghost
<1>2. SeenStates' \subseteq SeenStates \cup {NoReading}
  BY <1>1, NewStateTyped DEF SeenStates
<1>3. Dated' /\ UsedUp'
  BY <1>1, <1>2 DEF ToldInv, Dated, Date, UsedUp
<1> QED BY <1>1, <1>3 DEF ToldInv, Newer, Once, OfferedOnce, ExhaustedOnce, SavedFirst

LEMMA NotSavedTold == ASSUME TypeInv, ToldInv, NotSaved PROVE ToldInv'
<1>1. /\ poll'.at \in {"idle", "spending"} /\ poll'.offer = NoReading /\ poll'.event = "none"
      /\ poll'.back = NewState /\ poll.at = "saving"
      /\ state' = poll.back /\ disk' \in {disk, state}
      /\ UNCHANGED <<quota, told, noted, excused>>
  BY SpendingTyped DEF NotSaved, TypeInv, TypeOK, provider, ghost
<1>2. card'.reading = card.reading /\ (Live(card') <=> Live(card))
      /\ (card'.known <=> card.known /\ poll.knew)
  BY DEF NotSaved, TypeInv, TypeOK, Card, Live
<1>3. SeenStates' \subseteq SeenStates \cup {NoReading}
  BY <1>1, NewStateTyped DEF SeenStates
<1>4. Dated' /\ UsedUp'
  BY <1>1, <1>2, <1>3 DEF ToldInv, Dated, Date, UsedUp
<1>5. Newer'
  BY <1>1, <1>2 DEF ToldInv, Newer
<1> QED BY <1>1, <1>4, <1>5 DEF ToldInv, Once, OfferedOnce, ExhaustedOnce, SavedFirst

LEMMA CommitTold == ASSUME TypeInv, ToldInv, Commit PROVE ToldInv'
<1>1. /\ poll'.at \in {"idle", "spending"} /\ poll'.offer = NoReading /\ poll'.event = "none"
      /\ poll'.back = NewState /\ poll.at = "committing" /\ disk.seen = state.seen
      /\ UNCHANGED <<quota, card, state, disk>>
  BY SpendingTyped DEF Commit, TypeInv, TypeOK, provider, ToldInv, SavedFirst
<1>2. \A a \in Account : \/ told'[a] = told[a]
                         \/ poll.offer # NoReading /\ poll.offer.account = a
                              /\ told'[a] = poll.offer.cycle
  BY DEF Commit, TypeInv, TypeOK
<1>3. \A a \in Account : \/ noted'[a] = noted[a]
                         \/ poll.event = "exhausted" /\ state.seen.account = a
                              /\ noted'[a] = state.seen.cycle
  BY DEF Commit, TypeInv, TypeOK
<1>4. poll.event = "exhausted" =>
        /\ state.seen # NoReading /\ state.seen.exhausted
        /\ state.seen.account \in Account
        /\ Date(state.seen.account, state.seen.cycle)
        /\ Over(quota[state.seen.account], state.seen.cycle)
        /\ Live(card) /\ card.reading.account = state.seen.account
            => Beyond(card.reading, state.seen.cycle)
  BY Numbers DEF ToldInv, Dated, UsedUp, TypeInv, EventNamed, SeenStates
<1>5. \A s \in SeenStates' : s = NoReading \/ s = state.seen
  BY <1>1, NewStateTyped DEF SeenStates
<1>6. Dated'
  <2>1. \A a \in Account : Date(a, told'[a]) /\ Date(a, noted'[a])
    BY <1>2, <1>3, <1>4 DEF ToldInv, Dated
  <2> QED BY <1>1, <1>5, <2>1 DEF ToldInv, Dated, Date, SeenStates
<1>7. Newer'
  BY <1>1, <1>2, Numbers DEF ToldInv, Newer
<1>8. UsedUp'
  <2>1. \A a \in Account : Over(quota[a], noted'[a])
    BY <1>3, <1>4 DEF ToldInv, UsedUp
  <2>2. Live(card) => Beyond(card.reading, noted'[card.reading.account])
    BY <1>3, <1>4, Numbers DEF ToldInv, UsedUp
  <2>3. state.seen # NoReading =>
          \/ noted'[state.seen.account] = 0 \/ Later(state.seen.cycle, noted'[state.seen.account])
          \/ state.seen.exhausted
    BY <1>3, <1>4, Numbers DEF ToldInv, UsedUp, SeenStates
  <2> QED BY <1>1, <1>5, <2>1, <2>2, <2>3 DEF ToldInv, UsedUp
<1> QED BY <1>1, <1>6, <1>7, <1>8 DEF ToldInv, Once, OfferedOnce, ExhaustedOnce, SavedFirst

(* What a poll plans from a card: an offer only of a later cycle than the   *)
(* one told last, and a limit reached only in a later cycle than the one    *)
(* told as reached.                                                         *)
LEMMA PlanTold == ASSUME TypeInv, TypeInv', OffersInv, ToldInv, Plan PROVE ToldInv'
<1>1. PICK c \in Served(poll.fresh, quota) :
       /\ card' = [c EXCEPT !.known = Live(c)]
       /\ state' = [alerts |-> [a \in Account |-> AlertAfter(a, c)], seen |-> Noticed(c).seen]
       /\ poll' = [poll EXCEPT !.at = "saving", !.back = state, !.knew = c.known,
                               !.notify = FALSE, !.fresh = FALSE, !.elapsed = 0,
                               !.offer = Offered(c), !.event = Noticed(c).event,
                               !.due = {DueAt(a, c) : a \in {x \in Account : FallsDue(x, c)}}]
  BY DEF Plan
<1>2. /\ UNCHANGED <<quota, disk, told, noted, excused>> /\ poll.at = "reading"
      /\ \A a \in Account : ~Offering(a)
      /\ state'.seen = Noticed(c).seen
  BY <1>1, OffersOnTheWay DEF Plan, provider, ghost
<1>3. /\ poll'.at = "saving" /\ poll'.back = state /\ poll'.offer = Offered(c)
      /\ poll'.event = Noticed(c).event /\ poll'.knew = c.known
  BY <1>1 DEF TypeInv, TypeOK, Poll
<1>4. CardTyped(c) /\ (c = card \/ (~c.known /\ (Live(c) => Fits(c.reading, quota))))
  BY <1>1, ServedAre DEF TypeInv, TypeOK, CardTyped, Poll, Quotas
<1>5. /\ card'.reading = c.reading /\ (Live(card') <=> Live(c))
      /\ Live(c) => card'.known
  BY <1>1, <1>4 DEF CardTyped, Card, Live
<1> DEFINE r == c.reading
           b == c.reading.account
<1>6. Live(c) => /\ r \in Reading /\ b \in Account /\ r.cycle \in Nat
                 /\ r.left \in None..More
  BY <1>4, Numbers, ResetAlertsAssumption DEF CardTyped, Card, Reading, Cycle
<1>7. Live(c) => /\ Date(b, r.cycle)
                 /\ Beyond(r, noted[b])
                 /\ r.left = None => Over(quota[b], r.cycle)
                 /\ ~c.known => r.cycle >= told[b] - 1 /\ NoOlder(r, state.seen)
  <2>1. CASE c = card
    BY <2>1 DEF ToldInv, Dated, Newer, UsedUp
  <2>2. CASE c # card
    <3>1. Live(c) => Fresh(r, quota[b])
      BY <1>4, <2>2 DEF Fits, Fresh
    <3>2. Live(c) => /\ Reported(r.cycle, quota[b].cycle)
                     /\ \A n \in Nat : Reported(n, quota[b].cycle) => r.cycle >= n - 1
                     /\ \A n \in Nat : Over(quota[b], n) => Beyond(r, n)
                     /\ r.left = None => \A n \in Nat : Over(quota[b], n)
      BY <1>6, <3>1, Numbers, FreshIsNewer
    <3>3. Live(c) => NoOlder(r, state.seen)
      BY <3>2, Numbers DEF NoOlder, ToldInv, Dated, Date, SeenStates
    <3> QED BY <1>6, <3>2, <3>3, Numbers DEF ToldInv, Dated, Date, UsedUp
  <2> QED BY <2>1, <2>2
<1> HIDE DEF r, b
<1>8. Offered(c) # NoReading =>
        /\ Live(c) /\ Offered(c).account = b /\ Offered(c).cycle = r.cycle
        /\ told[b] = 0 \/ Later(r.cycle, told[b]) \/ b \in excused
  <2> SUFFICES ASSUME Offered(c) # NoReading
               PROVE  /\ Live(c) /\ Offered(c).account = b /\ Offered(c).cycle = r.cycle
                      /\ told[b] = 0 \/ Later(r.cycle, told[b]) \/ b \in excused
    OBVIOUS
  <2>1. /\ Live(c) /\ Offered(c).account = b /\ Offered(c).cycle = r.cycle
        /\ Offers(state.alerts[b], c)
    BY DEF Offered, r, b
  <2>2. b \in excused \/ state.alerts[b].offered = told[b]
    BY <1>2, <1>6, <2>1 DEF OffersInv, OffersTold, Matches
  <2>3. ~c.known /\ ~(state.alerts[b].offered # 0 /\ Same(state.alerts[b].offered, r.cycle))
    BY <2>1 DEF Offers, r
  <2>4. r.cycle >= told[b] - 1
    BY <1>7, <2>1, <2>3
  <2> QED BY <1>6, <2>1, <2>2, <2>3, <2>4, Numbers DEF Same, Later
<1>9. \/ /\ Noticed(c).event = "none"
         /\ Noticed(c).seen = NoReading \/ Noticed(c).seen = state.seen
      \/ Live(c) /\ Noticed(c) = Observed(r)
           /\ (c.known => state.seen = NoReading \/ state.seen.account # b)
  BY DEF Noticed, r, b
<1>10. Live(c) /\ Noticed(c) = Observed(r) => 
        /\ Noticed(c).seen.account = b /\ Noticed(c).seen.cycle = r.cycle
        /\ Noticed(c).seen # NoReading
        /\ r.left = None => Noticed(c).seen.exhausted
        /\ Noticed(c).event = "exhausted" =>
             /\ state.seen # NoReading /\ state.seen.account = b
             /\ ~state.seen.exhausted /\ r.left = None
  <2> SUFFICES ASSUME Live(c), Noticed(c) = Observed(r)
               PROVE  /\ Noticed(c).seen.account = b /\ Noticed(c).seen.cycle = r.cycle
                      /\ Noticed(c).seen # NoReading
                      /\ r.left = None => Noticed(c).seen.exhausted
                      /\ Noticed(c).event = "exhausted" =>
                           /\ state.seen # NoReading /\ state.seen.account = b
                           /\ ~state.seen.exhausted /\ r.left = None
    OBVIOUS
  <2>1. /\ Noticed(c).seen \in {Seen(r, FALSE), Seen(r, state.seen.exhausted)}
        /\ state.seen = NoReading => Noticed(c).seen = Seen(r, FALSE)
    BY ObservedSeen
  <2>2. /\ Noticed(c).seen.account = b /\ Noticed(c).seen.cycle = r.cycle
        /\ r.left = None => Noticed(c).seen.exhausted
    BY ObservedSeen DEF r, b
  <2>3. Noticed(c).event = "exhausted" =>
          /\ state.seen # NoReading /\ state.seen.account = b
          /\ ~state.seen.exhausted /\ r.left = None
    BY ObservedSeen DEF r, b
  <2>4. Noticed(c).seen # NoReading
    <3>1. state.seen = NoReading \/ state.seen.exhausted \in BOOLEAN
      BY DEF TypeInv, TypeOK, MonitorState, Observation
    <3> QED BY <1>6, <2>1, <3>1, SeenTyped, NotAReading
  <2> QED BY <2>2, <2>3, <2>4
<1>11. Live(c) /\ Noticed(c) = Observed(r) /\ Noticed(c).event = "exhausted"
         => /\ noted[b] = 0 \/ Later(r.cycle, noted[b])
  <2> SUFFICES ASSUME Live(c), Noticed(c) = Observed(r), Noticed(c).event = "exhausted",
                      noted[b] # 0
               PROVE  Later(r.cycle, noted[b])
    OBVIOUS
  <2>1. state.seen # NoReading /\ state.seen.account = b /\ ~state.seen.exhausted
    BY <1>10
  <2>2. Later(state.seen.cycle, noted[b]) /\ Date(b, state.seen.cycle) /\ Date(b, noted[b])
    BY <1>6, <2>1 DEF ToldInv, UsedUp, Dated, SeenStates
  <2>3. r.cycle >= state.seen.cycle - 1
    BY <1>7, <1>9, <2>1 DEF NoOlder, b, r
  <2>4. state.seen.cycle \in Nat /\ noted[b] \in Nat /\ quota[b].cycle \in Nat /\ r.cycle \in Nat
    BY <1>6, <2>1, Numbers DEF SeenStates
  <2> QED BY <1>7, <2>2, <2>3, <2>4, LaterStill DEF Date
<1>12. Noticed(c).seen # NoReading =>
         \/ Noticed(c).seen = state.seen
         \/ Live(c) /\ Noticed(c) = Observed(r)
  BY <1>9
<1>13. Dated'
  <2>1. \A s \in SeenStates' : s # NoReading => Date(s.account, s.cycle)
    BY <1>2, <1>3, <1>7, <1>10, <1>12 DEF ToldInv, Dated, SeenStates
  <2>2. Live(c) => Date(b, r.cycle)
    BY <1>7
  <2>3. Offered(c) # NoReading => Date(Offered(c).account, Offered(c).cycle)
    BY <1>8, <2>2
  <2> QED BY <1>2, <1>3, <1>5, <2>1, <2>2, <2>3 DEF ToldInv, Dated, Date, r, b
<1>14. Newer'
  BY <1>2, <1>3, <1>5, <1>7 DEF Newer, r, b
<1>15. Once'
  BY <1>2, <1>3, <1>8, <1>9, <1>10, <1>11 DEF Once, OfferedOnce, ExhaustedOnce
<1>16. UsedUp'
  <2>1. \A s \in SeenStates' : s # NoReading =>
          noted[s.account] = 0 \/ Later(s.cycle, noted[s.account]) \/ s.exhausted
    BY <1>2, <1>3, <1>7, <1>10, <1>12 DEF ToldInv, UsedUp, SeenStates, Beyond
  <2>2. Noticed(c).event = "exhausted" =>
          /\ Noticed(c).seen.exhausted
          /\ Over(quota[b], r.cycle)
          /\ Noticed(c).seen.account = b /\ Noticed(c).seen.cycle = r.cycle
          /\ Live(c) => Beyond(r, r.cycle)
    BY <1>7, <1>9, <1>10 DEF Beyond
  <2>3. /\ \A a \in Account : Over(quota[a], noted[a])
        /\ Live(c) => Beyond(r, noted[b]) /\ (r.left = None => Over(quota[b], r.cycle))
    BY <1>7 DEF ToldInv, UsedUp
  <2> QED BY <1>2, <1>3, <1>5, <2>1, <2>2, <2>3 DEF UsedUp, r, b
<1> QED BY <1>3, <1>13, <1>14, <1>15, <1>16 DEF ToldInv, SavedFirst

LEMMA ToldInvNext == ASSUME TypeInv, OffersInv, ToldInv, [Next]_vars PROVE ToldInv'
<1>1. TypeInv'
  BY TypeInvNext
<1>2. CASE Loop
  BY <1>1, <1>2, OthersGoOn, RestTold, PlanTold, SaveTold, NotSavedTold, CommitTold, SpendGoesOn
     DEF Loop
<1>3. CASE \E a \in Account : \/ \E x \in Alert : SetAlert(a, x)
                              \/ Cancel(a) \/ SpendByHand(a) \/ Use(a) \/ Renew(a) \/ Lapse(a)
  BY <1>1, <1>3, OthersGoOn, SpendByHandGoesOn, LimitMovesOn
<1>4. CASE \/ SetNotify \/ UsedByHand \/ SharedRead \/ BeginChange \/ EndChange \/ Tick
           \/ Crash \/ UNCHANGED vars
  BY <1>1, <1>4, OthersGoOn, CrashTold
<1> QED BY <1>2, <1>3, <1>4 DEF Next

(* A reset is offered once in a cycle, unless its alert was turned off in   *)
(* between, and a limit is told as reached once in a cycle: across failed   *)
(* saves, cards that are served again and restarts.                         *)
THEOREM ToldOnceInACycle == Spec => AnnouncedOnce
<1>1. Spec => [](TypeInv /\ OffersInv /\ ToldInv)
  BY TypeInvInit, OffersInvInit, ToldInvInit, TypeInvNext, OffersInvNext, ToldInvNext, PTL DEF Spec
<1>2. ToldInv => [poll.at = "committing" /\ poll' # poll
                    => \A a \in Account : OfferedOnce(a) /\ ExhaustedOnce(a)]_vars
  BY DEF ToldInv, Once
<1> QED BY <1>1, <1>2, PTL DEF AnnouncedOnce

==============================================================================
