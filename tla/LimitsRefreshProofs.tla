-------------------------- MODULE LimitsRefreshProofs --------------------------
(***************************************************************************)
(* Theorems about LimitsRefresh, for any number of accounts, of threads    *)
(* and of calls: that nothing a change took away comes back, that a screen *)
(* with nothing left to answer is current, that a login asked to wait is   *)
(* not asked again meanwhile, and that a refresh never lists an older      *)
(* vault than a reread did.                                                *)
(***************************************************************************)
EXTENDS LimitsRefresh, TLAPS

(* The steps of a read that holds the lock, those that only move a call     *)
(* along, and those that edit what the reads share.                         *)
ReadStep(t) == \/ Look(t) \/ Answer(t) \/ ListSaved(t) \/ PollSaved(t) \/ KeepListed(t)
               \/ Store(t)

CallStep(t) == \/ Poll(t) \/ Refresh(t) \/ Enter(t) \/ Refused(t) \/ ServedFromCache(t)
               \/ AnnounceRead(t) \/ Served(t) \/ Switch(t) \/ NotSwitched(t)
               \/ Reread(t) \/ Relist(t) \/ Tell(t) \/ Remove(t) \/ PlanRemoval(t)
               \/ Spend(t) \/ Spent(t)

EditStep(t) == \/ Switched(t) \/ SaveCurrent(t) \/ SignIn(t) \/ RemoveProfile(t)
               \/ Clear(t) \/ Discover(t) \/ ForgetAccount(t) \/ ForgetHistory(t)
               \/ Archive(t) \/ Unarchive(t) \/ Forget(t)

LEMMA StepsAre ==
  ASSUME [Next]_vars
  PROVE  \/ \E t \in Thread : ReadStep(t) \/ CallStep(t) \/ EditStep(t)
         \/ Outside \/ Tick \/ UNCHANGED vars
BY LimitsAssumption DEF Next, ReadStep, CallStep, EditStep

-----------------------------------------------------------------------------
(* Who reads holds the lock, and the lock is held by who reads.             *)
LockHeld ==
  /\ lock = NoThread <=> work = NoWork
  /\ work # NoWork => lock = work.by /\ At(work.by, "reading")
  /\ \A t \in Thread : At(t, "reading") => work # NoWork /\ work.by = t

(* From when a read was let in until it is announced it holds changes off,  *)
(* and a change holds reads off.                                            *)
Holding == {"waiting", "reading", "replaced", "spending"}

ReadersHold ==
  /\ changing # NoThread => readers = {}
  /\ \A t \in Thread : At(t, "changing") => changing = t
  /\ \A t \in Thread : th[t].at \in Holding => t \in readers

(* A half that is not read is one the cache has.                            *)
Founded ==
  work # NoWork => /\ work.step = "asked" => work.native
                   /\ work.native \/ cache # NoCache
                   /\ work.saved \/ cache # NoCache

(* A removal is of an account.                                              *)
Removing == {"planning", "forgetting", "dropping"}

RemovalNamed == \A t \in Thread : th[t].at \in Removing => th[t].who \in Account

(* The login a read began with has been held since the last change, and so  *)
(* has the account its cards and the cache's name, once the change dropped  *)
(* the cache.                                                               *)
Current ==
  /\ login \in since
  /\ work # NoWork => work.before \in since \cup {NoAccount}
  /\ cleared /\ cache # NoCache => cache.entries.current \in since \cup {NoAccount}
  /\ cleared /\ work # NoWork => work.entries.current \in since \cup {NoAccount}

(* A removed account is not in the vault either, so that no poll finds it.  *)
Away ==
  \A x \in gone : /\ x \notin saved
                  /\ x \notin snaps
                  /\ x \notin Shown.shown
                  /\ work # NoWork => x \notin work.entries.shown

(* No roster is newer than the vault, and the one a read loaded is no older *)
(* than the listing until a reread changes that.                            *)
RosterOrder ==
  /\ listing.roster <= writes
  /\ \A t \in Thread : th[t].roster <= writes
  /\ work # NoWork => work.roster <= writes /\ work.rereads <= listing.rereads
  /\ work # NoWork /\ work.step \in {"polling", "keeping"} /\ work.rereads = listing.rereads
       => listing.roster <= work.roster

(* A wait that was asked for is in the cache for the login it was asked of, *)
(* or in the read that was told of it.                                      *)
AskedKept ==
  asked.left > 0 =>
    IF work # NoWork /\ work.native
      THEN work.step # "asked" => work.floor = RetryAfter /\ work.before = asked.login
      ELSE /\ cache # NoCache
           /\ cache.native.login = asked.login
           /\ cache.native.age + asked.left <= cache.native.floor

(* A call that has something to announce, and the stages at which none has. *)
ToTell(t) == th[t].limits \/ th[t].at \in {"reading", "replaced"}

NothingYet == {"idle", "changing", "planning", "forgetting", "dropping", "clearing", "spending"}

NothingUntold == \A t \in Thread : th[t].at \in NothingYet => ~th[t].limits

(* While nothing is to be announced the screen has the cache's cards and    *)
(* the roster, but for a read of its own: that starts with neither, and is  *)
(* served the cards before it joins the roster.                             *)
Starting == Looks(Screen) /\ th[Screen].at \in {"entering", "refused", "waiting"}
Joining  == Looks(Screen) /\ At(Screen, "serving")

ScreenFollows ==
  screen # Told /\ (\A t \in Thread : ~ToTell(t)) /\ ~Starting =>
    /\ cache # NoCache => screen.entries = cache.entries
    /\ Joining \/ screen.roster = listing.roster

LimitsInv == /\ TypeOK /\ LockHeld /\ ReadersHold /\ Founded /\ RemovalNamed /\ Current
             /\ Away /\ RosterOrder /\ AskedKept /\ NothingUntold /\ ScreenFollows

LEMMA LimitsInvInit == Init => LimitsInv
<1> SUFFICES ASSUME Init PROVE LimitsInv
  OBVIOUS
<1> USE LimitsAssumption DEF Init
<1>1. /\ Idle \in Local /\ NotAsked \in [login : MaybeAccount, left : 0..RetryAfter]
      /\ Idle.at = "idle" /\ Idle.roster = 0 /\ Idle.limits = FALSE
      /\ NotAsked.left = 0
  BY DEF Idle, Local, Call, Stage, MaybeAccount, NotAsked
<1>2. TypeOK
  BY <1>1 DEF TypeOK, MaybeAccount
<1>3. LockHeld /\ ReadersHold /\ NothingUntold /\ RemovalNamed
  BY <1>1 DEF LockHeld, ReadersHold, NothingUntold, RemovalNamed, Holding, NothingYet, Removing, At
<1>4. Founded /\ Current /\ Away /\ RosterOrder /\ AskedKept /\ ScreenFollows
  BY <1>1 DEF Founded, Current, Away, RosterOrder, AskedKept, ScreenFollows
<1> QED BY <1>2, <1>3, <1>4 DEF LimitsInv

-----------------------------------------------------------------------------
(* What a step does to the calls.                                           *)
LEMMA Renewed ==
  ASSUME NEW t \in Thread, th \in [Thread -> Local], NEW l \in Local, th' = [th EXCEPT ![t] = l]
  PROVE  th' \in [Thread -> Local] /\ th'[t] = l /\ \A u \in Thread \ {t} : th'[u] = th[u]
OBVIOUS

LEMMA Begun ==
  ASSUME TypeOK, NEW t \in Thread, NEW call \in Call, NEW stage \in Stage,
         NEW who \in MaybeAccount, NEW force \in BOOLEAN, Begin(t, call, stage, who, force)
  PROVE  /\ th' \in [Thread -> Local] /\ calls' \in 0..MaxCalls
         /\ th[t].at = "idle"
         /\ th'[t].at = stage /\ th'[t].call = call /\ th'[t].limits = FALSE /\ th'[t].roster = 0
         /\ th'[t].who = who
         /\ \A u \in Thread \ {t} : th'[u] = th[u]
<1> DEFINE l == [Idle EXCEPT !.call = call, !.at = stage, !.who = who, !.force = force]
<1>1. Idle \in Local /\ Idle.roster = 0 /\ Idle.limits = FALSE
  BY DEF Idle, Local, Call, Stage, MaybeAccount
<1>2. /\ l \in Local
      /\ l.at = stage /\ l.call = call /\ l.who = who /\ l.limits = FALSE /\ l.roster = 0
  BY <1>1 DEF Local
<1>3. th' = [th EXCEPT ![t] = l] /\ th[t].at = "idle" /\ calls' = calls + 1 /\ calls < MaxCalls
  BY DEF Begin, At, Room
<1>4. calls' \in 0..MaxCalls
  BY <1>3, LimitsAssumption DEF TypeOK
<1> HIDE DEF l
<1>5. th' \in [Thread -> Local] /\ th'[t] = l /\ \A u \in Thread \ {t} : th'[u] = th[u]
  BY <1>2, <1>3, Renewed DEF TypeOK
<1> QED BY <1>2, <1>3, <1>4, <1>5

LEMMA Stages ==
  /\ {"idle", "changing", "entering", "refused", "waiting", "reading", "replaced", "serving",
      "clearing", "rereading", "relisting", "telling", "planning", "forgetting", "dropping",
      "spending"} \subseteq Stage
  /\ {"poll", "refresh", "switch", "change", "discover", "remove", "archive",
      "unarchive", "forget", "spend"} \subseteq Call
BY DEF Stage, Call

LEMMA Edited ==
  ASSUME TypeOK, NEW t \in Thread, NEW call \in Call, NEW stage \in Stage, NEW force \in BOOLEAN,
         Edit(t, call, stage, force)
  PROVE  /\ th' \in [Thread -> Local] /\ calls' \in 0..MaxCalls
         /\ th[t].at = "idle"
         /\ th'[t].at = stage /\ th'[t].call = call /\ th'[t].limits = (cache' # cache)
         /\ th'[t].roster = 0
         /\ \A u \in Thread \ {t} : th'[u] = th[u]
<1> DEFINE limits == cache' # cache
           l == [Idle EXCEPT !.call = call, !.at = stage, !.force = force, !.limits = limits]
<1>1. th' = [th EXCEPT ![t] = l] /\ th[t].at = "idle" /\ calls' = calls + 1 /\ calls < MaxCalls
  BY DEF Edit, At, Room
<1>2. calls' \in 0..MaxCalls
  BY <1>1, LimitsAssumption DEF TypeOK
<1>3. limits \in BOOLEAN /\ limits = (cache' # cache)
  OBVIOUS
<1> HIDE DEF limits
<1>4. Idle \in Local /\ Idle.roster = 0
  BY DEF Idle, Local, Call, Stage, MaybeAccount
<1>5. /\ l \in Local
      /\ l.at = stage /\ l.call = call /\ l.limits = limits /\ l.roster = 0
  BY <1>3, <1>4 DEF Local
<1> HIDE DEF l
<1>6. th' \in [Thread -> Local] /\ th'[t] = l /\ \A u \in Thread \ {t} : th'[u] = th[u]
  BY <1>1, <1>5, Renewed DEF TypeOK
<1> QED BY <1>1, <1>2, <1>3, <1>5, <1>6

LEMMA Gone ==
  ASSUME TypeOK, NEW t \in Thread, NEW stage \in Stage, Go(t, stage)
  PROVE  /\ th' \in [Thread -> Local]
         /\ th'[t].at = stage /\ th'[t].call = th[t].call
         /\ th'[t].limits = th[t].limits /\ th'[t].roster = th[t].roster
         /\ th'[t].who = th[t].who
         /\ \A u \in Thread \ {t} : th'[u] = th[u]
<1> DEFINE l == [th[t] EXCEPT !.at = stage]
<1>1. th[t] \in Local
  BY DEF TypeOK
<1>2. l \in Local /\ l.at = stage /\ l.call = th[t].call /\ l.limits = th[t].limits
      /\ l.roster = th[t].roster /\ l.who = th[t].who
  BY <1>1 DEF Local
<1>3. th' = [th EXCEPT ![t] = l]
  BY DEF Go
<1> HIDE DEF l
<1> QED BY <1>2, <1>3, Renewed DEF TypeOK

LEMMA Ended ==
  ASSUME TypeOK, NEW t \in Thread, Done(t)
  PROVE  /\ th' \in [Thread -> Local]
         /\ th'[t] = Idle /\ th'[t].at = "idle" /\ th'[t].limits = FALSE /\ th'[t].roster = 0
         /\ \A u \in Thread \ {t} : th'[u] = th[u]
<1>1. Idle \in Local /\ Idle.at = "idle" /\ Idle.limits = FALSE /\ Idle.roster = 0
  BY DEF Idle, Local, Call, Stage, MaybeAccount
<1> QED BY <1>1, Renewed DEF TypeOK, Done

LEMMA Returned ==
  ASSUME TypeOK, NEW t \in Thread, NEW limits \in BOOLEAN, Return(t, limits)
  PROVE  /\ th' \in [Thread -> Local]
         /\ IF Looks(t) \/ limits
              THEN th'[t].at = "serving" /\ th'[t].call = th[t].call /\ th'[t].limits = limits
                   /\ th'[t].roster = th[t].roster
              ELSE th'[t] = Idle /\ th'[t].at = "idle" /\ th'[t].limits = FALSE
                   /\ th'[t].roster = 0
         /\ \A u \in Thread \ {t} : th'[u] = th[u]
<1> DEFINE l == [th[t] EXCEPT !.at = "serving", !.limits = limits]
<1>1. th[t] \in Local
  BY DEF TypeOK
<1>2. l \in Local /\ l.at = "serving" /\ l.call = th[t].call /\ l.limits = limits
      /\ l.roster = th[t].roster
  BY <1>1 DEF Local, Stage
<1>3. th' = [th EXCEPT ![t] = IF Looks(t) \/ limits THEN l ELSE Idle]
  BY DEF Return
<1> HIDE DEF l
<1>4. CASE Looks(t) \/ limits
  <2>1. th' = [th EXCEPT ![t] = l]
    BY <1>3, <1>4
  <2> QED BY <1>2, <1>4, <2>1, Renewed DEF TypeOK
<1>5. CASE ~(Looks(t) \/ limits)
  <2>1. Done(t)
    BY <1>3, <1>5 DEF Done
  <2> QED BY <1>5, <2>1, Ended
<1> QED BY <1>4, <1>5

(* A step of the other two kinds moves one call, from and to a stage at     *)
(* which it reads nothing.                                                  *)
Moved(t) ==
  /\ th' \in [Thread -> Local] /\ calls' \in 0..MaxCalls
  /\ \A u \in Thread \ {t} : th'[u] = th[u]
  /\ th[t].at # "reading" /\ th'[t].at # "reading"
  /\ th'[t].roster \in {0, th[t].roster, writes}
  /\ RemovalNamed => (th'[t].at \in Removing => th'[t].who \in Account)
  /\ NothingUntold => (th'[t].at \in NothingYet => ~th'[t].limits)

LEMMA CallsMove ==
  ASSUME TypeOK, NEW t \in Thread, CallStep(t)
  PROVE  /\ Moved(t)
         /\ Enter(t) \/ Switch(t) \/ Spend(t) \/ th'[t].at \notin Holding \cup {"changing"}
<1> USE DEF Moved, NothingUntold, NothingYet, RemovalNamed, Removing, Holding
<1>0. th[t] \in Local /\ calls \in 0..MaxCalls /\ NoAccount \in MaybeAccount
  BY DEF TypeOK, MaybeAccount
<1>1. CASE Poll(t) \/ Refresh(t)
  <2>1. \/ Begin(t, "poll", "entering", NoAccount, FALSE)
        \/ Begin(t, "refresh", "entering", NoAccount, TRUE)
    BY <1>1 DEF Poll, Refresh, Read
  <2>2. {"poll", "refresh"} \subseteq Call /\ "entering" \in Stage
    BY Stages
  <2>3. /\ th' \in [Thread -> Local] /\ calls' \in 0..MaxCalls
        /\ th[t].at = "idle" /\ th'[t].at = "entering" /\ th'[t].roster = 0
        /\ \A u \in Thread \ {t} : th'[u] = th[u]
    BY ONLY TypeOK, t \in Thread, <1>0, <2>1, <2>2, Begun
  <2> QED BY <2>3
<1>2. CASE Enter(t)
  <2>1. (Go(t, "waiting") \/ Go(t, "refused")) /\ th[t].at = "entering" /\ calls' = calls
    BY <1>2 DEF Enter, At, bound
  <2> QED BY <1>0, <1>2, <2>1, Gone, Stages
<1>3. CASE Refused(t) \/ ServedFromCache(t)
  <2>1. Return(t, th[t].limits) /\ th[t].at \in {"refused", "waiting"} /\ calls' = calls
    BY <1>3 DEF Refused, ServedFromCache, At, bound
  <2>2. th[t].limits \in BOOLEAN
    BY <1>0 DEF Local
  <2> QED BY <1>0, <2>1, <2>2, Returned
<1>4. CASE AnnounceRead(t)
  <2>1. Return(t, FALSE) /\ th[t].at = "replaced" /\ calls' = calls
    BY <1>4 DEF AnnounceRead, At, bound
  <2> QED BY <1>0, <2>1, Returned
<1>5. CASE Served(t) \/ NotSwitched(t)
  <2>1. Done(t) /\ th[t].at \in {"serving", "changing"} /\ calls' = calls
    BY <1>5 DEF Served, NotSwitched, At, bound
  <2> QED BY <1>0, <2>1, Ended
<1>6. CASE Switch(t)
  <2> PICK x \in saved \cup {NoAccount, login} : Begin(t, "switch", "changing", x, FALSE)
    BY <1>6 DEF Switch
  <2>1. x \in MaybeAccount
    BY DEF TypeOK, MaybeAccount
  <2>2. "switch" \in Call /\ "changing" \in Stage
    BY Stages
  <2>3. /\ th' \in [Thread -> Local] /\ calls' \in 0..MaxCalls
        /\ th[t].at = "idle" /\ th'[t].at = "changing" /\ th'[t].roster = 0
        /\ th'[t].limits = FALSE
        /\ \A u \in Thread \ {t} : th'[u] = th[u]
    BY <2>1, <2>2, Begun
  <2> QED BY <1>6, <2>3
<1>7. CASE Remove(t)
  <2>1. PICK x \in Account : Begin(t, "remove", "planning", x, FALSE)
    BY <1>7 DEF Remove
  <2>2. x \in MaybeAccount /\ "remove" \in Call /\ "planning" \in Stage
    BY Stages DEF MaybeAccount
  <2>3. /\ th' \in [Thread -> Local] /\ calls' \in 0..MaxCalls
        /\ th[t].at = "idle" /\ th'[t].at = "planning" /\ th'[t].roster = 0
        /\ th'[t].limits = FALSE /\ th'[t].who = x
        /\ \A u \in Thread \ {t} : th'[u] = th[u]
    BY ONLY TypeOK, t \in Thread, <2>1, <2>2, Begun
  <2> QED BY <2>3
<1>8. CASE Spend(t)
  <2>1. Begin(t, "spend", "spending", NoAccount, TRUE)
    BY <1>8 DEF Spend
  <2>2. "spend" \in Call /\ "spending" \in Stage
    BY Stages
  <2>3. /\ th' \in [Thread -> Local] /\ calls' \in 0..MaxCalls
        /\ th[t].at = "idle" /\ th'[t].at = "spending" /\ th'[t].roster = 0
        /\ th'[t].limits = FALSE
        /\ \A u \in Thread \ {t} : th'[u] = th[u]
    BY <1>0, <2>1, <2>2, Begun
  <2> QED BY <1>8, <2>3
<1>9. CASE Spent(t)
  <2>1. Go(t, "entering") /\ th[t].at = "spending" /\ calls' = calls
    BY <1>9 DEF Spent, At, bound
  <2> QED BY <1>0, <2>1, Gone, Stages
<1>10. CASE PlanRemoval(t)
  <2>1. (Done(t) \/ Go(t, "forgetting")) /\ th[t].at = "planning" /\ calls' = calls
    BY <1>10 DEF PlanRemoval, At, bound
  <2> QED BY <1>0, <2>1, Gone, Ended, Stages
<1>11. CASE Reread(t)
  <2> DEFINE l == [th[t] EXCEPT !.at = "relisting", !.roster = writes]
  <2>1. l \in Local /\ l.at = "relisting" /\ l.roster = writes
    BY <1>0, Stages DEF Local, TypeOK
  <2>2. th' = [th EXCEPT ![t] = l] /\ th[t].at = "rereading" /\ calls' = calls
    BY <1>11 DEF Reread, At, bound
  <2> HIDE DEF l
  <2> QED BY <1>0, <2>1, <2>2, Renewed DEF TypeOK
<1>12. CASE Relist(t)
  <2> DEFINE told == th[t].limits \/ listing.roster # th[t].roster
             l == [th[t] EXCEPT !.at = IF th[t].call = "unarchive" THEN "entering" ELSE "telling",
                                !.roster = 0, !.limits = told]
  <2>1. l \in Local /\ l.at \in {"entering", "telling"} /\ l.roster = 0
    <3>1. told \in BOOLEAN
      OBVIOUS
    <3> HIDE DEF told
    <3> QED BY <1>0, <3>1, Stages DEF Local
  <2>2. th' = [th EXCEPT ![t] = l]
    BY <1>12 DEF Relist
  <2>3. th[t].at = "relisting" /\ calls' = calls
    BY <1>12 DEF Relist, At, bound
  <2> HIDE DEF l
  <2> QED BY <1>0, <2>1, <2>2, <2>3, Renewed DEF TypeOK
<1>13. CASE Tell(t)
  <2>1. th[t].at = "telling" /\ calls' = calls
    BY <1>13 DEF Tell, At, bound
  <2>2. CASE Done(t)
    BY <1>0, <2>1, <2>2, Ended
  <2>3. CASE ~Done(t)
    <3> DEFINE l == [th[t] EXCEPT !.at = "entering", !.limits = FALSE]
    <3>1. l \in Local /\ l.at = "entering" /\ l.roster = th[t].roster
      BY <1>0, Stages DEF Local
    <3>2. th' = [th EXCEPT ![t] = l]
      BY <1>13, <2>3 DEF Tell
    <3> HIDE DEF l
    <3> QED BY <1>0, <2>1, <3>1, <3>2, Renewed DEF TypeOK
  <2> QED BY <2>2, <2>3
<1> QED BY <1>1, <1>2, <1>3, <1>4, <1>5, <1>6, <1>7, <1>8, <1>9, <1>10, <1>11, <1>12, <1>13
      DEF CallStep

LEMMA EditsMove ==
  ASSUME TypeOK, NEW t \in Thread, EditStep(t)
  PROVE  Moved(t) /\ th'[t].at \notin Holding \cup {"changing"}
<1> USE DEF Moved, NothingUntold, NothingYet, RemovalNamed, Removing, Holding
<1>0. th[t] \in Local /\ calls \in 0..MaxCalls /\ NoAccount \in MaybeAccount
  BY DEF TypeOK, MaybeAccount
<1>1. CASE Switched(t)
  <2> DEFINE l == [th[t] EXCEPT !.at = "clearing", !.who = NoAccount]
  <2>1. l \in Local /\ l.at = "clearing" /\ l.roster = th[t].roster /\ l.limits = th[t].limits
    BY <1>0, Stages DEF Local
  <2>2. th' = [th EXCEPT ![t] = l] /\ th[t].at = "changing" /\ calls' = calls
    BY <1>1 DEF Switched, At, bound
  <2> HIDE DEF l
  <2> QED BY <1>0, <2>1, <2>2, Renewed DEF TypeOK
<1>2. CASE SaveCurrent(t) \/ SignIn(t) \/ RemoveProfile(t) \/ Discover(t)
  <2>1. \/ Begin(t, "change", "clearing", NoAccount, FALSE)
        \/ Begin(t, "discover", "rereading", NoAccount, FALSE)
    BY <1>2 DEF SaveCurrent, SignIn, RemoveProfile, Discover
  <2>2. {"change", "discover"} \subseteq Call /\ {"clearing", "rereading"} \subseteq Stage
    BY Stages
  <2>3. /\ th' \in [Thread -> Local] /\ calls' \in 0..MaxCalls
        /\ th[t].at = "idle" /\ th'[t].at \in {"clearing", "rereading"} /\ th'[t].roster = 0
        /\ th'[t].limits = FALSE
        /\ \A u \in Thread \ {t} : th'[u] = th[u]
    BY ONLY TypeOK, t \in Thread, <1>0, <2>1, <2>2, Begun
  <2> QED BY <2>3
<1>3. CASE Clear(t)
  <2>1. Go(t, "rereading") /\ th[t].at = "clearing" /\ calls' = calls
    BY <1>3 DEF Clear, At, bound
  <2> QED BY <1>0, <2>1, Gone, Stages
<1>4. CASE ForgetAccount(t)
  <2> DEFINE held == th[t].who \in saved
             l == [th[t] EXCEPT !.at = "dropping", !.stored = held]
  <2>1. l \in Local /\ l.at = "dropping" /\ l.roster = th[t].roster /\ l.limits = th[t].limits
      /\ l.who = th[t].who
    <3>1. held \in BOOLEAN
      OBVIOUS
    <3> HIDE DEF held
    <3> QED BY <1>0, <3>1, Stages DEF Local
  <2>2. th' = [th EXCEPT ![t] = l] /\ th[t].at = "forgetting" /\ calls' = calls
    BY <1>4 DEF ForgetAccount, At, bound
  <2> HIDE DEF l
  <2> QED BY <1>0, <2>1, <2>2, Renewed DEF TypeOK
<1>5. CASE ForgetHistory(t)
  <2> DEFINE l == [th[t] EXCEPT !.at = IF th[t].stored THEN "rereading" ELSE "telling",
                                !.who = NoAccount, !.stored = FALSE,
                                !.limits = cache' # cache]
  <2>1. l \in Local /\ l.at \in {"rereading", "telling"} /\ l.roster = th[t].roster
    BY <1>0, Stages DEF Local
  <2>2. th' = [th EXCEPT ![t] = l] /\ th[t].at = "dropping" /\ calls' = calls
    BY <1>5 DEF ForgetHistory, At, bound
  <2> HIDE DEF l
  <2> QED BY <1>0, <2>1, <2>2, Renewed DEF TypeOK
<1>6. CASE Archive(t) \/ Unarchive(t) \/ Forget(t)
  <2>1. \E call \in {"archive", "unarchive", "forget"}, force \in BOOLEAN,
           stage \in {"telling", "rereading", "entering"} : Edit(t, call, stage, force)
    BY <1>6 DEF Archive, Unarchive, Forget
  <2> QED BY <1>0, <2>1, Edited, Stages
<1> QED BY <1>1, <1>2, <1>3, <1>4, <1>5, <1>6 DEF EditStep

-----------------------------------------------------------------------------
(* The types of what is computed from the cards.                            *)
LEMMA CardsTyped ==
  ASSUME TypeOK
  PROVE  /\ Shown \in Entries /\ NoScreen \in [entries : Entries, roster : Nat]
         /\ (cache = NoCache => Shown = NoEntries) /\ (cache # NoCache => Shown = cache.entries)
         /\ \A e \in Entries : Flagged(e) \in Entries /\ KeepSavedCards(e) \in Entries
         /\ \A c \in MaybeAccount : Aggregate(c) \in Entries
<1> USE DEF TypeOK, Entries
<1>1. NoEntries \in Entries /\ NoScreen \in [entries : Entries, roster : Nat]
  BY DEF NoEntries, NoScreen, MaybeAccount
<1>2. cache # NoCache => cache \in CachedRead /\ cache.entries \in Entries
  BY DEF CachedRead
<1>3. Shown \in Entries
  BY <1>1, <1>2 DEF Shown
<1>4. ASSUME NEW e \in Entries
      PROVE  Flagged(e) \in Entries /\ KeepSavedCards(e) \in Entries
  BY <1>3 DEF Flagged, KeepSavedCards
<1>5. \A c \in MaybeAccount : Aggregate(c) \in Entries
  BY DEF Aggregate, MaybeAccount
<1> QED BY <1>1, <1>3, <1>4, <1>5 DEF Shown

(* Cards that were edited name the same account and show no other.          *)
Trimmed(c) ==
  \/ c = cache
  \/ /\ cache # NoCache /\ c \in CachedRead
     /\ c.native = cache.native
     /\ c.entries.current = cache.entries.current
     /\ c.entries.shown \subseteq cache.entries.shown

LEMMA CardsReplaced ==
  ASSUME TypeOK, cache # NoCache, NEW e \in Entries,
         e.current = cache.entries.current, e.shown \subseteq cache.entries.shown
  PROVE  Trimmed([cache EXCEPT !.entries = e]) /\ [cache EXCEPT !.entries = e].entries = e
BY DEF TypeOK, CachedRead, Trimmed

LEMMA CardsDropped ==
  ASSUME TypeOK, NEW x
  PROVE  /\ Trimmed(DropCard(x))
         /\ cache # NoCache /\ cache.entries.current # x => x \notin DropCard(x).entries.shown
<1> DEFINE e == Dropped(cache.entries, x)
<1>1. CASE cache = NoCache \/ Shown.current = x
  BY <1>1 DEF DropCard, Trimmed, Shown
<1>2. CASE ~(cache = NoCache \/ Shown.current = x)
  <2>1. e \in Entries /\ e.current = cache.entries.current /\ e.shown = cache.entries.shown \ {x}
    BY <1>2 DEF TypeOK, CachedRead, Entries, Dropped
  <2>2. DropCard(x) = [cache EXCEPT !.entries = e]
    BY <1>2 DEF DropCard
  <2> HIDE DEF e
  <2> QED BY <1>2, <2>1, <2>2, CardsReplaced
<1> QED BY <1>1, <1>2

LEMMA CardsEdited ==
  ASSUME TypeOK, NEW t, Archive(t) \/ Unarchive(t) \/ Forget(t) \/ ForgetHistory(t)
  PROVE  Trimmed(cache')
<1>1. CASE cache' = cache
  BY <1>1 DEF Trimmed
<1>2. CASE Forget(t) \/ ForgetHistory(t)
  <2>1. cache' = cache \/ \E x : cache' = DropCard(x)
    BY <1>2 DEF Forget, ForgetHistory
  <2> QED BY <1>1, <2>1, CardsDropped
<1>3. CASE cache' # cache /\ (Archive(t) \/ Unarchive(t))
  <2>1. PICK x \in Account :
          /\ cache # NoCache
          /\ \/ cache' = [cache EXCEPT !.entries = WithFlag(@, x)]
             \/ cache' = [cache EXCEPT !.entries = NoFlag(@, x)]
    BY <1>3 DEF Archive, Unarchive
  <2> DEFINE more == WithFlag(cache.entries, x)
             less == NoFlag(cache.entries, x)
  <2>2. /\ more \in Entries /\ more.current = cache.entries.current
        /\ more.shown = cache.entries.shown
        /\ less \in Entries /\ less.current = cache.entries.current
        /\ less.shown = cache.entries.shown
    BY <2>1 DEF TypeOK, CachedRead, Entries, WithFlag, NoFlag
  <2>3. cache' = [cache EXCEPT !.entries = more] \/ cache' = [cache EXCEPT !.entries = less]
    BY <2>1
  <2> HIDE DEF more, less
  <2> QED BY <2>1, <2>2, <2>3, CardsReplaced
<1> QED BY <1>1, <1>2, <1>3

LEMMA Waits ==
  /\ NotAsked \in [login : MaybeAccount, left : 0..RetryAfter] /\ ~(NotAsked.left > 0)
  /\ \A x \in MaybeAccount :
       [login |-> x, left |-> RetryAfter] \in [login : MaybeAccount, left : 0..RetryAfter]
<1>1. RetryAfter \in Nat
  BY LimitsAssumption
<1>2. NotAsked.left = 0 /\ NotAsked \in [login : MaybeAccount, left : 0..RetryAfter]
  BY <1>1 DEF NotAsked, MaybeAccount
<1>3. \A x \in MaybeAccount :
        [login |-> x, left |-> RetryAfter] \in [login : MaybeAccount, left : 0..RetryAfter]
  BY <1>1
<1> QED BY <1>2, <1>3

(* What the steps of a read do.                                             *)
LEMMA Looked ==
  ASSUME TypeOK, NEW t \in Thread, Look(t)
  PROVE  /\ th[t].at = "waiting" /\ lock = NoThread /\ lock' = t
         /\ work' \in Work /\ work'.by = t /\ work'.entries = Shown
         /\ work'.step = IF work'.native THEN "asked" ELSE "listing"
         /\ work'.before \in {login, NoAccount}
         /\ work'.roster = 0 /\ work'.rereads = 0
         /\ work'.native /\ cache # NoCache => ~HoldsBack(cache)
         /\ ~work'.native \/ ~work'.saved => cache # NoCache
         /\ UNCHANGED <<disk, guard, cache, listing, screen, bound, ghost>>
         /\ Go(t, "reading")
<1> PICK interval \in ActiveInterval :
      /\ Go(t, "reading") /\ lock' = t
      /\ work' = [by |-> t, step |-> IF NativeDue(th[t].force, interval) THEN "asked"
                                     ELSE "listing",
                  native |-> NativeDue(th[t].force, interval), saved |-> SavedDue(th[t].force),
                  before |-> IF NativeDue(th[t].force, interval) THEN login ELSE NoAccount,
                  entries |-> Shown, failed |-> FALSE, floor |-> 0, due |-> {},
                  rereads |-> 0, roster |-> 0]
  BY DEF Look
<1> DEFINE native == NativeDue(th[t].force, interval)
           due    == SavedDue(th[t].force)
<1>1. /\ native \in BOOLEAN /\ due \in BOOLEAN
      /\ native /\ cache # NoCache => ~HoldsBack(cache)
      /\ ~native \/ ~due => cache # NoCache
  BY DEF NativeDue, SavedDue
<1>2. work' = [by |-> t, step |-> IF native THEN "asked" ELSE "listing",
               native |-> native, saved |-> due, before |-> IF native THEN login ELSE NoAccount,
               entries |-> Shown, failed |-> FALSE, floor |-> 0, due |-> {},
               rereads |-> 0, roster |-> 0]
  OBVIOUS
<1> HIDE DEF native, due
<1>3. work' \in Work
  BY <1>1, <1>2, CardsTyped DEF Work, TypeOK, MaybeAccount
<1>4. /\ th[t].at = "waiting" /\ lock = NoThread /\ lock' = t
      /\ UNCHANGED <<disk, guard, cache, listing, screen, bound, ghost>>
  BY DEF Look, At, Free
<1>5. /\ work'.by = t /\ work'.entries = Shown /\ work'.native = native /\ work'.saved = due
      /\ work'.step = IF native THEN "asked" ELSE "listing"
      /\ work'.before \in {login, NoAccount}
      /\ work'.roster = 0 /\ work'.rereads = 0
  BY <1>2
<1> QED BY <1>1, <1>3, <1>4, <1>5

(* A read keeps what it began with.                                         *)
Proceeds == /\ work \in Work /\ work' \in Work
            /\ work'.by = work.by /\ work'.native = work.native /\ work'.saved = work.saved
            /\ work'.before = work.before

LEMMA WorkingTyped ==
  ASSUME TypeOK, NEW t, NEW step, Working(t, step)
  PROVE  work \in Work /\ work # NoWork /\ work.by = t /\ work.step = step
BY DEF TypeOK, Working

LEMMA AnsweredRead ==
  ASSUME TypeOK, NEW t \in Thread, Answer(t)
  PROVE  /\ Proceeds /\ work.by = t /\ work.step = "asked" /\ work'.step \in {"listing", "storing"}
         /\ work'.entries.current \in {work.before, NoAccount}
         /\ work'.entries.shown \subseteq snaps \cup Shown.shown \cup {work'.entries.current}
         /\ work'.roster = work.roster /\ work'.rereads = work.rereads
         /\ snaps' \subseteq snaps \cup {work'.entries.current} /\ snaps' \subseteq Account
         /\ archive' \subseteq Account /\ gone' \subseteq Account
         /\ gone' = gone \ {work'.entries.current}
         /\ asked' \in [login : MaybeAccount, left : 0..RetryAfter]
         /\ asked'.left > 0 => work'.floor = RetryAfter /\ asked'.login = work.before
         /\ UNCHANGED <<login, saved, writes, guard, lock, cache, listing, th, screen, bound,
                        since, cleared>>
<1>1. work \in Work /\ work # NoWork /\ work.by = t /\ work.step = "asked"
  BY WorkingTyped DEF Answer
<1> PICK outcome \in {"read", "failed", "rate limited", "nobody"} :
      LET good    == outcome = "read" /\ work.before # NoAccount /\ login = work.before
          limited == outcome = "rate limited"
          current == IF outcome = "nobody" THEN NoAccount ELSE work.before
          cards   == IF work.saved THEN Aggregate(current)
                                   ELSE KeepSavedCards(Aggregate(current))
      IN /\ snaps' = IF good THEN snaps \cup {current} ELSE snaps
         /\ archive' = archive \ {current}
         /\ work' = [work EXCEPT !.step = IF work.saved THEN "listing" ELSE "storing",
                                 !.entries = cards,
                                 !.failed = ~good /\ outcome # "nobody",
                                 !.floor = IF limited THEN RetryAfter ELSE 0]
         /\ gone' = gone \ {current}
         /\ asked' = IF limited THEN [login |-> work.before, left |-> RetryAfter] ELSE NotAsked
  BY ZenonT(60) DEF Answer
<1> DEFINE good    == outcome = "read" /\ work.before # NoAccount /\ login = work.before
           current == IF outcome = "nobody" THEN NoAccount ELSE work.before
           cards   == IF work.saved THEN Aggregate(current)
                                    ELSE KeepSavedCards(Aggregate(current))
           failed  == ~good /\ outcome # "nobody"
           floor   == IF outcome = "rate limited" THEN RetryAfter ELSE 0
           step    == IF work.saved THEN "listing" ELSE "storing"
<1>2. /\ current \in {work.before, NoAccount} /\ current \in MaybeAccount
      /\ good => current \in Account
  BY <1>1 DEF Work, MaybeAccount
<1>3. /\ cards \in Entries /\ cards.current = current
      /\ cards.shown \subseteq snaps \cup Shown.shown \cup {current}
  <2>1. Aggregate(current) \in Entries /\ KeepSavedCards(Aggregate(current)) \in Entries
    BY <1>2, CardsTyped
  <2>2. /\ Aggregate(current).current = current
        /\ Aggregate(current).shown \subseteq snaps \cup {current}
    BY DEF Aggregate
  <2> DEFINE a == Aggregate(current)
  <2> HIDE DEF a
  <2>3. /\ KeepSavedCards(a).current = a.current
        /\ KeepSavedCards(a).shown \subseteq a.shown \cup Shown.shown
    BY <2>1 DEF KeepSavedCards, Entries, a
  <2> QED BY <2>1, <2>2, <2>3 DEF a
<1>4. work' = [work EXCEPT !.step = step, !.entries = cards, !.failed = failed,
                           !.floor = floor]
  OBVIOUS
<1>5. failed \in BOOLEAN /\ floor \in {0, RetryAfter} /\ step \in {"listing", "storing"}
  OBVIOUS
<1>6. /\ snaps' \subseteq snaps \cup {current} /\ snaps' \subseteq Account
      /\ archive' \subseteq Account /\ gone' \subseteq Account /\ gone' = gone \ {current}
  BY <1>2 DEF TypeOK
<1>7. /\ asked' \in [login : MaybeAccount, left : 0..RetryAfter]
      /\ asked'.left > 0 => floor = RetryAfter /\ asked'.login = work.before
  <2>1. work.before \in MaybeAccount
    BY <1>1 DEF Work
  <2>2. work.before \in MaybeAccount =>
          [login |-> work.before, left |-> RetryAfter]
            \in [login : MaybeAccount, left : 0..RetryAfter]
    BY ONLY Waits
  <2>3. asked' = IF outcome = "rate limited" THEN [login |-> work.before, left |-> RetryAfter]
                 ELSE NotAsked
    OBVIOUS
  <2>4. CASE outcome = "rate limited"
    <3>1. asked' = [login |-> work.before, left |-> RetryAfter] /\ floor = RetryAfter
      BY <2>3, <2>4
    <3> QED BY ONLY <2>1, <2>2, <3>1
  <2>5. CASE outcome # "rate limited"
    <3>1. asked' = NotAsked
      BY <2>3, <2>5
    <3>2. NotAsked \in [login : MaybeAccount, left : 0..RetryAfter] /\ ~(NotAsked.left > 0)
      BY ONLY Waits
    <3> QED BY ONLY <3>1, <3>2
  <2> QED BY <2>4, <2>5
<1>8. UNCHANGED <<login, saved, writes, guard, lock, cache, listing, th, screen, bound, since,
                  cleared>>
  BY DEF Answer
<1> HIDE DEF good, current, cards, failed, floor, step
<1>9. /\ Proceeds /\ work'.step = step /\ work'.entries = cards /\ work'.floor = floor
      /\ work'.roster = work.roster /\ work'.rereads = work.rereads
  BY <1>1, <1>3, <1>4, <1>5 DEF Work, Proceeds
<1> QED BY <1>1, <1>2, <1>3, <1>5, <1>6, <1>7, <1>8, <1>9

LEMMA ListedSaved ==
  ASSUME TypeOK, NEW t \in Thread, ListSaved(t)
  PROVE  /\ Proceeds /\ work.by = t /\ work.step = "listing" /\ work'.step \in {"keeping", "polling"}
         /\ work'.entries = work.entries /\ work'.floor = work.floor
         /\ work'.roster = writes /\ work'.rereads = listing.rereads
         /\ UNCHANGED <<disk, guard, lock, cache, listing, th, screen, bound, ghost>>
<1>1. work \in Work /\ work # NoWork /\ work.by = t /\ work.step = "listing"
  BY WorkingTyped DEF ListSaved
<1>2. PICK due \in SUBSET Account :
        work' = [work EXCEPT !.step = IF due = {} THEN "keeping" ELSE "polling",
                             !.due = due, !.roster = writes, !.rereads = listing.rereads]
  BY DEF ListSaved, TypeOK
<1>3. UNCHANGED <<disk, guard, lock, cache, listing, th, screen, bound, ghost>>
  BY DEF ListSaved
<1> QED BY <1>1, <1>2, <1>3 DEF Work, TypeOK, Proceeds

LEMMA PolledSaved ==
  ASSUME TypeOK, NEW t \in Thread, PollSaved(t)
  PROVE  /\ Proceeds /\ work.by = t /\ work.step = "polling" /\ work'.step \in {"keeping", "polling"}
         /\ work'.entries.current = work.entries.current
         /\ work'.entries.shown \subseteq work.entries.shown \cup saved
         /\ work'.floor = work.floor
         /\ work'.roster = work.roster /\ work'.rereads = work.rereads
         /\ snaps' \subseteq snaps \cup saved
         /\ UNCHANGED <<login, saved, archive, writes, guard, lock, cache, listing, th, screen,
                        bound, ghost>>
<1>1. work \in Work /\ work # NoWork /\ work.by = t /\ work.step = "polling"
  BY WorkingTyped DEF PollSaved
<1> PICK x \in work.due, outcome \in {"read", "failed", "nothing"} :
      LET held  == x \in saved
          shows == held /\ outcome # "nothing" /\ work.entries.current # x
      IN /\ snaps' = IF held /\ outcome = "read" THEN snaps \cup {x} ELSE snaps
         /\ work' = [work EXCEPT
                       !.due = @ \ {x},
                       !.step = IF work.due = {x} THEN "keeping" ELSE "polling",
                       !.entries = IF shows THEN Merged(@, x) ELSE @]
  BY DEF PollSaved
<1> DEFINE shows == x \in saved /\ outcome # "nothing" /\ work.entries.current # x
           cards == IF shows THEN Merged(work.entries, x) ELSE work.entries
           step  == IF work.due = {x} THEN "keeping" ELSE "polling"
           rest  == work.due \ {x}
<1>2. x \in Account /\ snaps' \subseteq snaps \cup saved
  BY <1>1 DEF Work
<1>3. /\ cards \in Entries /\ cards.current = work.entries.current
      /\ cards.shown \subseteq work.entries.shown \cup saved
  BY <1>1, <1>2 DEF Work, Entries, Merged
<1>4. work' = [work EXCEPT !.due = rest, !.step = step, !.entries = cards]
  OBVIOUS
<1>5. rest \subseteq Account /\ step \in {"keeping", "polling"}
  BY <1>1 DEF Work
<1>6. UNCHANGED <<login, saved, archive, writes, guard, lock, cache, listing, th, screen, bound,
                  ghost>>
  BY DEF PollSaved
<1> HIDE DEF shows, cards, step, rest
<1>7. /\ Proceeds /\ work'.step = step /\ work'.entries = cards /\ work'.floor = work.floor
      /\ work'.roster = work.roster /\ work'.rereads = work.rereads
  BY <1>1, <1>3, <1>4, <1>5 DEF Work, Proceeds
<1> QED BY <1>1, <1>2, <1>3, <1>5, <1>6, <1>7

LEMMA KeptListed ==
  ASSUME TypeOK, NEW t \in Thread, KeepListed(t)
  PROVE  /\ Proceeds /\ work.by = t /\ work.step = "keeping" /\ work'.step = "storing"
         /\ work'.entries = work.entries /\ work'.floor = work.floor
         /\ work'.roster = 0 /\ work'.rereads = 0
         /\ listing' \in [roster : Nat, rereads : Nat] /\ listing'.rereads = listing.rereads
         /\ listing'.roster = IF listing.rereads = work.rereads THEN work.roster
                              ELSE listing.roster
         /\ UNCHANGED <<disk, guard, lock, cache, th, screen, bound, ghost>>
<1>1. work \in Work /\ work # NoWork /\ work.by = t /\ work.step = "keeping"
  BY WorkingTyped DEF KeepListed
<1>2. /\ work' = [work EXCEPT !.step = "storing", !.roster = 0, !.rereads = 0]
      /\ listing' = IF listing.rereads = work.rereads
                      THEN [listing EXCEPT !.roster = work.roster] ELSE listing
      /\ UNCHANGED <<disk, guard, lock, cache, th, screen, bound, ghost>>
  BY DEF KeepListed
<1>3. /\ Proceeds /\ work'.step = "storing" /\ work'.entries = work.entries
      /\ work'.floor = work.floor /\ work'.roster = 0 /\ work'.rereads = 0
  BY <1>1, <1>2 DEF Work, Proceeds
<1>4. /\ listing' \in [roster : Nat, rereads : Nat] /\ listing'.rereads = listing.rereads
      /\ listing'.roster = IF listing.rereads = work.rereads THEN work.roster
                           ELSE listing.roster
  BY <1>1, <1>2 DEF Work, TypeOK
<1> QED BY <1>1, <1>2, <1>3, <1>4

LEMMA StoredRead ==
  ASSUME TypeOK, Founded, NEW t \in Thread, Store(t)
  PROVE  /\ work \in Work /\ work.by = t /\ work.step = "storing" /\ work # NoWork
         /\ work' = NoWork /\ lock' = NoThread /\ Go(t, "replaced")
         /\ cache' \in CachedRead
         /\ cache'.entries.current = work.entries.current
         /\ cache'.entries.shown = work.entries.shown
         /\ ~work.native => cache # NoCache /\ cache'.native = cache.native
         /\ work.native => /\ cache'.native.age = 0 /\ cache'.native.floor = work.floor
                           /\ work.floor # 0 => cache'.native.login = work.before
         /\ screen' \in [entries : Entries, roster : Nat] \cup {Told}
         /\ UNCHANGED <<disk, guard, listing, bound, ghost>>
<1> USE LimitsAssumption
<1>1. work \in Work /\ work # NoWork /\ work.by = t /\ work.step = "storing"
  BY WorkingTyped DEF Store
<1>2. /\ Answered \in NativeState /\ Answered.age = 0 /\ Answered.floor = work.floor
      /\ work.floor # 0 => Answered.login = work.before
  <2>1. 0 \in 0..MaxAge /\ 0 \in 0..MaxFailures /\ 1 \in 0..MaxFailures
    OBVIOUS
  <2>2. ASSUME cache # NoCache
        PROVE  AtMost(cache.native.failures + 1, MaxFailures) \in 0..MaxFailures
    BY <2>2 DEF TypeOK, CachedRead, NativeState, AtMost
  <2> QED BY <1>1, <2>1, <2>2 DEF Answered, NativeState, Work, MaybeAccount
<1>3. After \in NativeState
  BY <1>1, <1>2 DEF After, Founded, TypeOK, CachedRead
<1>4. (IF work.saved THEN 0 ELSE cache.savedAge) \in 0..MaxAge
  BY <1>1 DEF Founded, TypeOK, CachedRead
<1>5. /\ Flagged(work.entries) \in Entries
      /\ Flagged(work.entries).current = work.entries.current
      /\ Flagged(work.entries).shown = work.entries.shown
  <2>1. work.entries \in Entries
    BY <1>1 DEF Work
  <2> QED BY <2>1, CardsTyped DEF Flagged, Entries
<1>6. /\ cache' \in CachedRead /\ cache'.entries = Flagged(work.entries) /\ cache'.native = After
  BY <1>3, <1>4, <1>5 DEF Store, CachedRead
<1>7. screen' \in [entries : Entries, roster : Nat] \cup {Told}
  BY <1>5 DEF Store, Serve, TypeOK
<1>8. ~work.native => cache # NoCache /\ After = cache.native
  BY <1>1 DEF After, Founded
<1>9. work.native => After = Answered
  BY DEF After
<1>10. /\ work' = NoWork /\ lock' = NoThread /\ Go(t, "replaced")
       /\ UNCHANGED <<disk, guard, listing, bound, ghost>>
  BY DEF Store
<1> HIDE DEF Flagged
<1> QED BY <1>1, <1>2, <1>5, <1>6, <1>7, <1>8, <1>9, <1>10

LEMMA ReadTypes ==
  ASSUME TypeOK, Founded, NEW t \in Thread, ReadStep(t)
  PROVE  TypeOK'
<1>1. CASE Look(t)
  <2>1. th' \in [Thread -> Local]
    BY <1>1, Looked, Gone, Stages
  <2> QED BY <1>1, <2>1, Looked DEF TypeOK, disk, guard, bound, ghost
<1>2. CASE Answer(t)
  BY <1>2, AnsweredRead DEF TypeOK, Proceeds, guard, bound
<1>3. CASE ListSaved(t)
  BY <1>3, ListedSaved DEF TypeOK, Proceeds, disk, guard, bound, ghost
<1>4. CASE PollSaved(t)
  BY <1>4, PolledSaved DEF TypeOK, Proceeds, guard, bound, ghost
<1>5. CASE KeepListed(t)
  BY <1>5, KeptListed DEF TypeOK, Proceeds, disk, guard, bound, ghost
<1>6. CASE Store(t)
  <2>1. th' \in [Thread -> Local]
    BY <1>6, StoredRead, Gone, Stages
  <2> QED BY <1>6, <2>1, StoredRead DEF TypeOK, disk, guard, bound, ghost
<1> QED BY <1>1, <1>2, <1>3, <1>4, <1>5, <1>6 DEF ReadStep

LEMMA CallTypes ==
  ASSUME TypeOK, NEW t \in Thread, CallStep(t)
  PROVE  TypeOK' /\ UNCHANGED <<disk, lock, cache, work, ghost, outside>>
<1>1. th' \in [Thread -> Local] /\ calls' \in 0..MaxCalls
  BY CallsMove DEF Moved
<1>2. screen' \in [entries : Entries, roster : Nat] \cup {Told}
  <2>1. CASE Refused(t) \/ ServedFromCache(t)
    BY <2>1, CardsTyped DEF Refused, ServedFromCache, Serve, TypeOK
  <2>2. CASE Served(t)
    BY <2>2 DEF Served, TypeOK
  <2>3. CASE Enter(t) \/ AnnounceRead(t) \/ Tell(t)
    BY <2>3, CardsTyped DEF Enter, AnnounceRead, Tell, TypeOK
  <2>4. CASE Poll(t) \/ Refresh(t) \/ Switch(t) \/ NotSwitched(t) \/ Reread(t) \/ Relist(t)
               \/ Remove(t) \/ PlanRemoval(t) \/ Spend(t) \/ Spent(t)
    BY <2>4 DEF Poll, Refresh, Read, Switch, NotSwitched, Reread, Relist, Remove, PlanRemoval,
                Spend, Spent, TypeOK
  <2> QED BY <2>1, <2>2, <2>3, <2>4 DEF CallStep
<1>3. /\ readers' \subseteq Thread /\ changing' \in Thread \cup {NoThread}
      /\ UNCHANGED <<disk, lock, cache, work, ghost, outside>>
  BY DEF CallStep, Poll, Refresh, Read, Enter, Refused, ServedFromCache, AnnounceRead, Served,
         Switch, NotSwitched, Reread, Relist, Tell, Remove, PlanRemoval, Spend, Spent, TypeOK,
         guard, bound
<1>4. listing' \in [roster : Nat, rereads : Nat]
  <2>1. CASE Relist(t)
    BY <2>1 DEF Relist, TypeOK, Local
  <2>2. CASE ~Relist(t)
    BY <2>2 DEF CallStep, Poll, Refresh, Read, Enter, Refused, ServedFromCache, AnnounceRead,
                Served, Switch, NotSwitched, Reread, Tell, Remove, PlanRemoval, Spend, Spent,
                TypeOK
  <2> QED BY <2>1, <2>2
<1> QED BY ONLY TypeOK, <1>1, <1>2, <1>3, <1>4 DEF TypeOK, disk, ghost

(* An edit leaves the read under way, the readers and the listing alone.    *)
LEMMA EditTypes ==
  ASSUME TypeOK, RemovalNamed, NEW t \in Thread, EditStep(t)
  PROVE  TypeOK' /\ UNCHANGED <<readers, lock, listing, work, screen, outside>>
<1>1. th' \in [Thread -> Local] /\ calls' \in 0..MaxCalls
  BY EditsMove DEF Moved
<1>2. /\ UNCHANGED <<readers, lock, listing, work, screen, outside>>
      /\ changing' \in Thread \cup {NoThread}
  BY DEF EditStep, Switched, SaveCurrent, SignIn, RemoveProfile, Clear, Discover, ForgetAccount,
         ForgetHistory, Archive, Unarchive, Forget, TypeOK, guard, bound
<1>3. cache' \in CachedRead \cup {NoCache}
  <2>1. CASE Archive(t) \/ Unarchive(t) \/ Forget(t) \/ ForgetHistory(t)
    BY <2>1, CardsEdited DEF Trimmed, TypeOK
  <2>2. CASE Switched(t) \/ SaveCurrent(t) \/ SignIn(t) \/ RemoveProfile(t) \/ Clear(t)
               \/ Discover(t) \/ ForgetAccount(t)
    BY <2>2 DEF Switched, SaveCurrent, SignIn, RemoveProfile, Clear, Discover, ForgetAccount, TypeOK
  <2> QED BY <2>1, <2>2 DEF EditStep
<1>4. /\ login' \in MaybeAccount /\ since' \subseteq MaybeAccount
      /\ saved' \subseteq Account
  <2>1. th[t].who \in MaybeAccount
    BY DEF TypeOK, Local
  <2> QED BY <2>1 DEF EditStep, Switched, SaveCurrent, SignIn, RemoveProfile, Clear, Discover,
         ForgetAccount, ForgetHistory, Archive, Unarchive, Forget, TypeOK, MaybeAccount, disk, ghost
<1>5. snaps' \subseteq Account /\ archive' \subseteq Account /\ gone' \subseteq Account
  <2>1. CASE ForgetHistory(t)
    <3>1. th[t].who \in MaybeAccount /\ snaps' \subseteq snaps /\ archive' \subseteq archive
          /\ gone' \subseteq gone \cup {th[t].who}
      BY <2>1 DEF ForgetHistory, TypeOK, Local
    <3>2. snaps' \subseteq Account /\ archive' \subseteq Account
      BY <3>1 DEF TypeOK
    <3>3. th[t].who \in Account
      BY <2>1 DEF ForgetHistory, At, RemovalNamed, Removing
    <3>4. gone' \subseteq Account
      BY <3>1, <3>3 DEF TypeOK
    <3> QED BY <3>2, <3>4
  <2>2. CASE ~ForgetHistory(t)
    BY <2>2 DEF EditStep, Switched, SaveCurrent, SignIn, RemoveProfile, Clear, Discover,
         ForgetAccount, Archive, Unarchive, Forget, TypeOK, disk, ghost
  <2> QED BY <2>1, <2>2
<1>6. writes' \in {writes, writes + 1} /\ cleared' \in BOOLEAN
  BY DEF EditStep, Switched, SaveCurrent, SignIn, RemoveProfile, Clear, Discover,
         ForgetAccount, ForgetHistory, Archive, Unarchive, Forget, TypeOK, disk, ghost
<1>7. asked' \in [login : MaybeAccount, left : 0..RetryAfter]
  <2>1. asked' \in {asked, NotAsked}
    BY DEF EditStep, Switched, SaveCurrent, SignIn, RemoveProfile, Clear, Discover,
           ForgetAccount, ForgetHistory, Archive, Unarchive, Forget, ghost
  <2> QED BY <2>1, Waits DEF TypeOK
<1> QED BY ONLY TypeOK, <1>1, <1>2, <1>3, <1>4, <1>5, <1>6, <1>7 DEF TypeOK

LEMMA OtherTypes ==
  ASSUME TypeOK, Outside \/ Tick
  PROVE  /\ TypeOK'
         /\ Tick => /\ cache # NoCache /\ cache' \in CachedRead
                    /\ cache'.entries = cache.entries
                    /\ cache'.native.login = cache.native.login
                    /\ cache'.native.floor = cache.native.floor
                    /\ cache'.native.age <= cache.native.age + 1
<1>1. CASE Outside
  <2>1. login' \in MaybeAccount /\ outside' \in 0..MaxOutside /\ since' \subseteq MaybeAccount
    BY <1>1, LimitsAssumption DEF Outside, Room, TypeOK
  <2>2. ~Tick
    BY <1>1 DEF Outside, Tick
  <2> QED BY <1>1, <2>1, <2>2 DEF Outside, TypeOK, guard
<1>2. CASE Tick
  <2> DEFINE n == Aged(cache.native)
             a == Older(cache.savedAge)
  <2>1. cache # NoCache /\ cache \in CachedRead /\ cache' = [cache EXCEPT !.savedAge = a, !.native = n]
    BY <1>2 DEF Tick, TypeOK
  <2>2. \A age \in 0..MaxAge : Older(age) \in 0..MaxAge /\ Older(age) <= age + 1
    BY LimitsAssumption DEF Older, AtMost
  <2>3. /\ n \in NativeState /\ n.login = cache.native.login /\ n.floor = cache.native.floor
        /\ n.age <= cache.native.age + 1 /\ a \in 0..MaxAge
    BY <2>1, <2>2 DEF CachedRead, NativeState, Aged
  <2> HIDE DEF n, a
  <2>4. cache' \in CachedRead /\ cache'.entries = cache.entries /\ cache'.native = n
    BY <2>1, <2>3 DEF CachedRead
  <2>5. asked' \in [login : MaybeAccount, left : 0..RetryAfter]
    BY <1>2, LimitsAssumption DEF Tick, TypeOK, NotAsked, MaybeAccount
  <2>6. TypeOK'
    BY ONLY TypeOK, <1>2, <2>4, <2>5 DEF TypeOK, Tick, disk, guard, bound
  <2> QED BY <2>1, <2>3, <2>4, <2>6
<1> QED BY <1>1, <1>2

LEMMA LimitsTypes ==
  ASSUME TypeOK, Founded, RemovalNamed, [Next]_vars
  PROVE  TypeOK'
<1>1. CASE UNCHANGED vars
  BY ONLY TypeOK, <1>1 DEF TypeOK, vars
<1> QED BY <1>1, StepsAre, ReadTypes, CallTypes, EditTypes, OtherTypes

-----------------------------------------------------------------------------
(* The parts of a step, each kind of step in turn.                          *)
LEMMA LockStaysHeld ==
  ASSUME TypeOK, Founded, RemovalNamed, LockHeld, [Next]_vars
  PROVE  LockHeld'
<1> USE LimitsAssumption DEF LockHeld, At
<1>1. ASSUME NEW t \in Thread, Look(t)
      PROVE  LockHeld'
  <2>1. /\ th'[t].at = "reading" /\ \A u \in Thread \ {t} : th'[u] = th[u]
        /\ lock = NoThread /\ lock' = t /\ work' \in Work /\ work'.by = t
    BY <1>1, Looked, Gone, Stages
  <2> QED BY <2>1
<1>2. ASSUME NEW t \in Thread, Answer(t) \/ ListSaved(t) \/ PollSaved(t) \/ KeepListed(t)
      PROVE  LockHeld'
  <2>1. work # NoWork /\ work' \in Work /\ work'.by = work.by /\ UNCHANGED <<lock, th>>
    BY <1>2, AnsweredRead, ListedSaved, PolledSaved, KeptListed DEF Proceeds
  <2> QED BY <2>1
<1>3. ASSUME NEW t \in Thread, Store(t)
      PROVE  LockHeld'
  <2>1. /\ th'[t].at = "replaced" /\ \A u \in Thread \ {t} : th'[u] = th[u]
        /\ work.by = t /\ lock' = NoThread /\ work' = NoWork
    BY <1>3, StoredRead, Gone, Stages
  <2> QED BY <2>1
<1>4. ASSUME NEW t \in Thread, CallStep(t) \/ EditStep(t)
      PROVE  LockHeld'
  <2>1. Moved(t) /\ UNCHANGED <<lock, work>>
    BY <1>4, CallsMove, EditsMove, CallTypes, EditTypes
  <2>2. \A u \in Thread : th'[u].at = "reading" <=> th[u].at = "reading"
    BY <2>1 DEF Moved
  <2>3. work # NoWork => work.by \in Thread
    BY DEF TypeOK, Work
  <2> QED BY <2>1, <2>2, <2>3
<1>5. CASE Outside \/ Tick \/ UNCHANGED vars
  BY <1>5 DEF Outside, Tick, vars
<1> QED BY <1>1, <1>2, <1>3, <1>4, <1>5, StepsAre DEF ReadStep

LEMMA ReadersStayHeld ==
  ASSUME TypeOK, Founded, RemovalNamed, LockHeld, ReadersHold, [Next]_vars
  PROVE  ReadersHold'
<1> USE LimitsAssumption DEF ReadersHold, At, Holding
<1>1. ASSUME NEW t \in Thread, Look(t)
      PROVE  ReadersHold'
  <2>1. /\ th'[t].at = "reading" /\ \A u \in Thread \ {t} : th'[u] = th[u]
        /\ th[t].at = "waiting" /\ UNCHANGED guard
    BY <1>1, Looked, Gone, Stages
  <2> QED BY <2>1 DEF guard
<1>2. ASSUME NEW t \in Thread, Answer(t) \/ ListSaved(t) \/ PollSaved(t) \/ KeepListed(t)
      PROVE  ReadersHold'
  <2>1. UNCHANGED <<guard, th>>
    BY <1>2, AnsweredRead, ListedSaved, PolledSaved, KeptListed
  <2> QED BY <2>1 DEF guard
<1>3. ASSUME NEW t \in Thread, Store(t)
      PROVE  ReadersHold'
  <2>1. /\ th'[t].at = "replaced" /\ \A u \in Thread \ {t} : th'[u] = th[u]
        /\ work.by = t /\ work # NoWork /\ UNCHANGED guard
    BY <1>3, StoredRead, Gone, Stages
  <2>2. th[t].at = "reading"
    BY <2>1 DEF LockHeld
  <2> QED BY <2>1, <2>2 DEF guard
<1>4. ASSUME NEW t \in Thread, EditStep(t)
      PROVE  ReadersHold'
  <2>1. (\A u \in Thread \ {t} : th'[u] = th[u]) /\ readers' = readers
    BY <1>4, EditsMove, EditTypes DEF Moved
  <2>2. th'[t].at \notin Holding \cup {"changing"}
    BY <1>4, EditsMove
  <2>3. \/ changing' = changing
        \/ changing' = NoThread /\ changing = t
    BY <1>4 DEF EditStep, Switched, SaveCurrent, SignIn, RemoveProfile, Clear, Discover,
                ForgetAccount, ForgetHistory, Archive, Unarchive, Forget, guard
  <2> QED BY <2>1, <2>2, <2>3
<1>5. CASE Outside \/ Tick \/ UNCHANGED vars
  BY <1>5 DEF Outside, Tick, vars, guard
<1>6. ASSUME NEW t \in Thread, CallStep(t)
      PROVE  ReadersHold'
  <2>0. \A u \in Thread \ {t} : th'[u] = th[u]
    BY <1>6, CallsMove DEF Moved
  <2>1. CASE Enter(t)
    <3>1. \/ /\ changing = NoThread /\ th'[t].at = "waiting" /\ readers' = readers \cup {t}
             /\ changing' = changing
          \/ th'[t].at = "refused" /\ readers' = readers /\ changing' = changing
      BY <2>1, Gone, Stages DEF Enter
    <3> QED BY <2>0, <3>1
  <2>2. CASE ServedFromCache(t) \/ AnnounceRead(t)
    <3>1. /\ th'[t].at \in {"serving", "idle"} /\ readers' = readers \ {t}
          /\ changing' = changing
      <4>1. th[t].limits \in BOOLEAN
        BY DEF TypeOK, Local
      <4> QED BY <2>2, <4>1, Returned DEF ServedFromCache, AnnounceRead
    <3> QED BY <2>0, <3>1
  <2>3. CASE Switch(t)
    <3>1. PICK x \in MaybeAccount : Begin(t, "switch", "changing", x, FALSE)
      BY <2>3 DEF Switch, TypeOK, MaybeAccount
    <3>2. th'[t].at = "changing"
      BY <3>1, Begun, Stages
    <3>3. changing = NoThread /\ readers = {} /\ changing' = t /\ readers' = readers
      BY <2>3 DEF Switch
    <3> QED BY <2>0, <3>2, <3>3
  <2>4. CASE NotSwitched(t)
    <3>1. th[t].at = "changing" /\ changing' = NoThread /\ readers' = readers /\ th'[t].at = "idle"
      BY <2>4, Ended DEF NotSwitched
    <3> QED BY <2>0, <3>1
  <2>5. CASE Spend(t)
    <3>1. changing = NoThread /\ changing' = changing /\ readers' = readers \cup {t}
      BY <2>5 DEF Spend
    <3>2. th'[t].at = "spending"
      <4>1. NoAccount \in MaybeAccount
        BY DEF MaybeAccount
      <4> QED BY <2>5, <4>1, Begun, Stages DEF Spend
    <3> QED BY <2>0, <3>1, <3>2
  <2>6. CASE Spent(t)
    <3>1. changing' = changing /\ readers' = readers \ {t} /\ th'[t].at = "entering"
      BY <2>6, Gone, Stages DEF Spent
    <3> QED BY <2>0, <3>1
  <2>7. CASE /\ th'[t].at \notin Holding \cup {"changing"}
             /\ \/ Poll(t) \/ Refresh(t) \/ Refused(t) \/ Served(t) \/ Reread(t) \/ Relist(t)
                \/ Tell(t) \/ Remove(t) \/ PlanRemoval(t)
    <3>1. UNCHANGED guard
      BY <2>7 DEF Poll, Refresh, Read, Refused, Served, Reread, Relist, Tell, Remove, PlanRemoval,
                  guard
    <3> QED BY <2>0, <2>7, <3>1 DEF guard
  <2>8. th'[t].at \notin Holding \cup {"changing"} \/ Enter(t) \/ Switch(t) \/ Spend(t)
    BY <1>6, CallsMove
  <2> QED BY ONLY <1>6, <2>1, <2>2, <2>3, <2>4, <2>5, <2>6, <2>7, <2>8 DEF CallStep
<1> QED BY <1>1, <1>2, <1>3, <1>4, <1>5, <1>6, StepsAre DEF ReadStep

LEMMA CallsStayNamed ==
  ASSUME TypeOK, Founded, RemovalNamed, NothingUntold, [Next]_vars
  PROVE  RemovalNamed' /\ NothingUntold'
<1> USE DEF RemovalNamed, NothingUntold
<1>1. ASSUME NEW t \in Thread, ReadStep(t)
      PROVE  RemovalNamed' /\ NothingUntold'
  <2>1. CASE Look(t) \/ Store(t)
    <3>1. /\ th'[t].at \in {"reading", "replaced"}
          /\ \A u \in Thread \ {t} : th'[u] = th[u]
      BY <2>1, Looked, StoredRead, Gone, Stages
    <3> QED BY <3>1 DEF Removing, NothingYet
  <2>2. CASE Answer(t) \/ ListSaved(t) \/ PollSaved(t) \/ KeepListed(t)
    BY <2>2, AnsweredRead, ListedSaved, PolledSaved, KeptListed
  <2> QED BY <1>1, <2>1, <2>2 DEF ReadStep
<1>2. ASSUME NEW t \in Thread, CallStep(t) \/ EditStep(t)
      PROVE  RemovalNamed' /\ NothingUntold'
  <2>1. Moved(t)
    BY <1>2, CallsMove, EditsMove
  <2> QED BY <2>1 DEF Moved
<1>3. CASE Outside \/ Tick \/ UNCHANGED vars
  BY <1>3 DEF Outside, Tick, vars
<1> QED BY <1>1, <1>2, <1>3, StepsAre

(* An edit of the cards is made with the lock free: it drops them, or       *)
(* leaves the signed-in one and adds none.                                  *)
LEMMA EditsOfCards ==
  ASSUME TypeOK, NEW t \in Thread, EditStep(t), cache' # cache
  PROVE  lock = NoThread /\ (Trimmed(cache') \/ (Clear(t) /\ cache' = NoCache))
<1>1. CASE Archive(t) \/ Unarchive(t) \/ Forget(t) \/ ForgetHistory(t)
  <2>1. lock = NoThread
    BY <1>1 DEF Archive, Unarchive, Forget, ForgetHistory, Edit, Free
  <2>2. Trimmed(cache')
    BY <1>1, CardsEdited, Zenon
  <2> QED BY <2>1, <2>2
<1>2. CASE Clear(t)
  BY <1>2 DEF Clear, Free
<1>3. CASE Switched(t) \/ SaveCurrent(t) \/ SignIn(t) \/ RemoveProfile(t) \/ Discover(t)
             \/ ForgetAccount(t)
  BY <1>3 DEF Switched, SaveCurrent, SignIn, RemoveProfile, Discover, ForgetAccount
<1> QED BY <1>1, <1>2, <1>3 DEF EditStep

LEMMA StaysFounded ==
  ASSUME TypeOK, LockHeld, RemovalNamed, Founded, [Next]_vars
  PROVE  Founded'
<1> USE DEF Founded
<1>1. ASSUME NEW t \in Thread, ReadStep(t)
      PROVE  Founded'
  <2>1. CASE Look(t)
    BY <2>1, Looked DEF Work
  <2>2. CASE Answer(t) \/ ListSaved(t) \/ PollSaved(t) \/ KeepListed(t)
    <3>1. Proceeds /\ work # NoWork /\ work'.step # "asked" /\ cache' = cache
      BY <2>2, AnsweredRead, ListedSaved, PolledSaved, KeptListed, LimitsAssumption DEF Proceeds
    <3> QED BY <3>1 DEF Proceeds
  <2>3. CASE Store(t)
    BY <2>3, StoredRead
  <2> QED BY <1>1, <2>1, <2>2, <2>3 DEF ReadStep
<1>2. ASSUME NEW t \in Thread, CallStep(t)
      PROVE  Founded'
  BY <1>2, CallTypes
<1>3. ASSUME NEW t \in Thread, EditStep(t)
      PROVE  Founded'
  BY <1>3, EditTypes, EditsOfCards DEF LockHeld
<1>4. CASE Outside \/ UNCHANGED vars
  BY <1>4 DEF Outside, vars
<1>5. CASE Tick
  <2>1. cache' # NoCache /\ work' = work
    BY <1>5, OtherTypes, LimitsAssumption DEF Tick
  <2> QED BY <2>1
<1> QED BY <1>1, <1>2, <1>3, <1>4, <1>5, StepsAre

(* No read is under way while the app changes the login.                    *)
LEMMA SwitchesAlone ==
  ASSUME TypeOK, LockHeld, ReadersHold, NEW t \in Thread, Switched(t)
  PROVE  work = NoWork
<1>1. changing = t /\ readers = {}
  BY LimitsAssumption DEF Switched, At, ReadersHold
<1> QED BY <1>1 DEF LockHeld, ReadersHold, At, Holding, TypeOK, Work

LEMMA StaysCurrent ==
  ASSUME TypeOK, LockHeld, ReadersHold, Founded, RemovalNamed, Current, [Next]_vars
  PROVE  Current'
<1> USE DEF Current
<1>1. ASSUME NEW t \in Thread, ReadStep(t)
      PROVE  Current'
  <2>1. CASE Look(t)
    <3>1. Shown.current # NoAccount
            => cache # NoCache /\ Shown.current = cache.entries.current
      <4>1. NoEntries.current = NoAccount
        BY DEF NoEntries
      <4> QED BY <4>1, CardsTyped
    <3>2. work = NoWork /\ UNCHANGED <<login, since, cleared, cache>>
      BY <2>1, Looked DEF LockHeld, disk, ghost
    <3> QED BY <2>1, <3>1, <3>2, Looked
  <2>2. CASE Answer(t)
    BY <2>2, AnsweredRead, LimitsAssumption DEF Proceeds
  <2>3. CASE ListSaved(t) \/ PollSaved(t) \/ KeepListed(t)
    <3>1. /\ Proceeds /\ work # NoWork /\ work'.entries.current = work.entries.current
          /\ UNCHANGED <<login, since, cleared, cache>>
      BY <2>3, ListedSaved, PolledSaved, KeptListed, LimitsAssumption DEF Proceeds, disk, ghost
    <3> QED BY <3>1 DEF Proceeds
  <2>4. CASE Store(t)
    BY <2>4, StoredRead DEF disk, ghost
  <2> QED BY <1>1, <2>1, <2>2, <2>3, <2>4 DEF ReadStep
<1>2. ASSUME NEW t \in Thread, CallStep(t)
      PROVE  Current'
  BY <1>2, CallTypes DEF disk, ghost
<1>3. ASSUME NEW t \in Thread, EditStep(t)
      PROVE  Current'
  <2>0. work' = work
    BY <1>3, EditTypes
  <2>1. CASE Switched(t)
    <3>1. work = NoWork
      BY <2>1, SwitchesAlone
    <3> QED BY <2>0, <2>1, <3>1 DEF Switched
  <2>2. CASE Clear(t)
    BY <2>0, <2>2 DEF Clear, Free, LockHeld, disk
  <2>3. CASE ~Switched(t) /\ ~Clear(t)
    <3>1. UNCHANGED <<login, since, cleared>>
      BY <1>3, <2>3 DEF EditStep, SaveCurrent, SignIn, RemoveProfile, Discover, ForgetAccount,
                        ForgetHistory, Archive, Unarchive, Forget, disk, ghost
    <3>2. cache' # NoCache => cache # NoCache /\ cache'.entries.current = cache.entries.current
      BY <1>3, <2>3, EditsOfCards DEF Trimmed
    <3> QED BY <2>0, <3>1, <3>2
  <2> QED BY <2>1, <2>2, <2>3
<1>4. CASE Outside \/ UNCHANGED vars
  BY <1>4 DEF Outside, vars
<1>5. CASE Tick
  <2>1. cache # NoCache /\ cache'.entries = cache.entries
    BY <1>5, OtherTypes
  <2> QED BY <1>5, <2>1 DEF Tick, disk
<1> QED BY <1>1, <1>2, <1>3, <1>4, <1>5, StepsAre

LEMMA StaysAway ==
  ASSUME TypeOK, LockHeld, Founded, RemovalNamed, Away, [Next]_vars
  PROVE  Away'
<1> USE DEF Away
<1>1. ASSUME NEW t \in Thread, ReadStep(t)
      PROVE  Away'
  <2>1. CASE Look(t)
    BY <2>1, Looked DEF Shown, disk, ghost
  <2>2. CASE Answer(t)
    BY <2>2, AnsweredRead DEF Shown
  <2>3. CASE ListSaved(t) \/ KeepListed(t)
    <3>1. /\ work # NoWork /\ work'.entries = work.entries
          /\ UNCHANGED <<saved, snaps, cache, gone>>
      BY <2>3, ListedSaved, KeptListed, LimitsAssumption DEF Proceeds, disk, ghost
    <3> QED BY <3>1 DEF Shown
  <2>4. CASE PollSaved(t)
    <3>1. work # NoWork
      BY <2>4, PolledSaved, LimitsAssumption DEF Proceeds
    <3> QED BY <2>4, <3>1, PolledSaved DEF Shown, ghost
  <2>5. CASE Store(t)
    BY <2>5, StoredRead DEF Shown, disk, ghost, NoEntries
  <2> QED BY <1>1, <2>1, <2>2, <2>3, <2>4, <2>5 DEF ReadStep
<1>2. ASSUME NEW t \in Thread, CallStep(t)
      PROVE  Away'
  BY <1>2, CallTypes DEF Shown, disk, ghost
<1>3. ASSUME NEW t \in Thread, EditStep(t)
      PROVE  Away'
  <2>0. work' = work
    BY <1>3, EditTypes
  <2>1. Shown'.shown \subseteq Shown.shown
    BY <1>3, EditsOfCards DEF Shown, Trimmed, NoEntries
  <2>2. CASE SaveCurrent(t) \/ SignIn(t) \/ Discover(t)
    <3>1. snaps' = snaps /\ gone' \subseteq gone /\ gone' \cap (saved' \ saved) = {}
      BY <2>2 DEF SaveCurrent, SignIn, Discover
    <3> QED BY <2>0, <2>1, <3>1
  <2>3. CASE ForgetHistory(t)
    <3> DEFINE x == th[t].who
    <3>1. lock = NoThread /\ saved' = saved /\ snaps' \subseteq snaps
      BY <2>3 DEF ForgetHistory, Free
    <3>2. CASE gone' = gone
      BY <2>0, <2>1, <3>1, <3>2
    <3>3. CASE gone' # gone
      <4>1. /\ gone' = gone \cup {x} /\ x \notin saved /\ Shown.current # x
            /\ snaps' = snaps \ {x} /\ cache' = DropCard(x)
        BY <2>3, <3>3 DEF ForgetHistory
      <4>2. x \notin Shown'.shown
        BY <4>1, CardsDropped DEF Shown, NoEntries, DropCard
      <4>3. work' = NoWork
        BY <2>0, <3>1 DEF LockHeld
      <4> QED BY <2>1, <3>1, <4>1, <4>2, <4>3
    <3> QED BY <3>2, <3>3
  <2>4. CASE ~(SaveCurrent(t) \/ SignIn(t) \/ Discover(t) \/ ForgetHistory(t))
    <3>1. saved' \subseteq saved /\ snaps' \subseteq snaps /\ gone' = gone
      BY <1>3, <2>4 DEF EditStep, Switched, RemoveProfile, Clear, ForgetAccount, Archive, Unarchive,
                        Forget, disk, ghost
    <3> QED BY <2>0, <2>1, <3>1
  <2> QED BY <2>2, <2>3, <2>4
<1>4. CASE Outside \/ UNCHANGED vars
  BY <1>4 DEF Outside, vars, Shown
<1>5. CASE Tick
  <2>1. Shown' = Shown
    BY <1>5, OtherTypes, LimitsAssumption DEF Shown
  <2> QED BY <1>5, <2>1 DEF Tick, disk
<1> QED BY <1>1, <1>2, <1>3, <1>4, <1>5, StepsAre

LEMMA ListingLeft ==
  ASSUME NEW t, CallStep(t), ~Relist(t)
  PROVE  listing' = listing
BY DEF CallStep, Poll, Refresh, Read, Enter, Refused, ServedFromCache, AnnounceRead, Served,
       Switch, NotSwitched, Reread, Tell, Remove, PlanRemoval, Spend, Spent

LEMMA RostersStayOrdered ==
  ASSUME TypeOK, TypeOK', LockHeld, Founded, RemovalNamed, RosterOrder, [Next]_vars
  PROVE  RosterOrder'
<1> USE DEF RosterOrder
<1>0. /\ listing.roster \in Nat /\ listing.rereads \in Nat /\ writes \in Nat
      /\ \A u \in Thread : th[u].roster \in Nat
      /\ work # NoWork => work.roster \in Nat /\ work.rereads \in Nat
  BY DEF TypeOK, Local, Work
<1>1. ASSUME NEW t \in Thread, ReadStep(t)
      PROVE  RosterOrder'
  <2>1. CASE Look(t)
    <3>1. /\ \A u \in Thread : th'[u].roster = th[u].roster
          /\ UNCHANGED <<writes, listing>>
      BY <2>1, Looked, Gone, Stages DEF disk
    <3>2. work'.step \notin {"polling", "keeping"} /\ work'.roster = 0 /\ work'.rereads = 0
      BY <2>1, Looked
    <3> QED BY <1>0, <3>1, <3>2
  <2>2. CASE Answer(t)
    BY <1>0, <2>2, AnsweredRead, LimitsAssumption DEF Proceeds
  <2>3. CASE ListSaved(t)
    <3>1. /\ work'.roster = writes /\ work'.rereads = listing.rereads
          /\ UNCHANGED <<writes, listing, th>>
      BY <2>3, ListedSaved DEF disk
    <3> QED BY <1>0, <3>1
  <2>4. CASE PollSaved(t)
    <3>1. /\ work # NoWork /\ work.step = "polling"
          /\ work'.roster = work.roster /\ work'.rereads = work.rereads
          /\ UNCHANGED <<writes, listing, th>>
      BY <2>4, PolledSaved, LimitsAssumption DEF Proceeds
    <3> QED BY <1>0, <3>1
  <2>5. CASE KeepListed(t)
    <3>1. /\ work # NoWork /\ work.step = "keeping" /\ work'.step = "storing"
          /\ work'.roster = 0 /\ work'.rereads = 0
          /\ listing'.rereads = listing.rereads /\ listing'.roster \in {work.roster, listing.roster}
          /\ UNCHANGED <<writes, th>>
      BY <2>5, KeptListed, LimitsAssumption DEF Proceeds, disk
    <3> QED BY <1>0, <3>1
  <2>6. CASE Store(t)
    <3>1. /\ \A u \in Thread : th'[u].roster = th[u].roster
          /\ work' = NoWork /\ UNCHANGED <<writes, listing>>
      BY <2>6, StoredRead, Gone, Stages DEF disk
    <3> QED BY <1>0, <3>1
  <2> QED BY <1>1, <2>1, <2>2, <2>3, <2>4, <2>5, <2>6 DEF ReadStep
<1>2. ASSUME NEW t \in Thread, CallStep(t)
      PROVE  RosterOrder'
  <2>1. /\ \A u \in Thread : th'[u].roster \in {0, th[u].roster, writes}
        /\ UNCHANGED <<writes, work>>
    BY <1>2, CallsMove, CallTypes DEF Moved, disk
  <2>2. \/ listing' = listing
        \/ listing'.roster = th[t].roster /\ listing'.rereads = listing.rereads + 1
    <3>1. CASE Relist(t)
      BY <3>1 DEF Relist
    <3>2. CASE ~Relist(t)
      BY <1>2, <3>2, ListingLeft
    <3> QED BY <3>1, <3>2
  <2>3. /\ \A u \in Thread : th'[u].roster <= writes
        /\ listing'.roster <= writes
    BY <1>0, <2>1, <2>2
  <2>4. work # NoWork => /\ work.rereads <= listing'.rereads
                         /\ listing' # listing => work.rereads # listing'.rereads
    BY <1>0, <2>2
  <2> QED BY <2>1, <2>3, <2>4
<1>3. ASSUME NEW t \in Thread, EditStep(t)
      PROVE  RosterOrder'
  <2>1. /\ \A u \in Thread : th'[u].roster \in {0, th[u].roster, writes}
        /\ UNCHANGED <<listing, work>>
    BY <1>3, EditsMove, EditTypes DEF Moved
  <2>2. writes' \in Nat /\ writes <= writes'
    <3>1. writes' \in {writes, writes + 1}
      BY <1>3 DEF EditStep, Switched, SaveCurrent, SignIn, RemoveProfile, Clear, Discover,
                  ForgetAccount, ForgetHistory, Archive, Unarchive, Forget, disk
    <3> QED BY <1>0, <3>1
  <2> QED BY <1>0, <2>1, <2>2
<1>4. CASE Outside \/ Tick \/ UNCHANGED vars
  BY <1>4 DEF Outside, Tick, vars, disk
<1> QED BY <1>1, <1>2, <1>3, <1>4, StepsAre

LEMMA AskedStaysKept ==
  ASSUME TypeOK, TypeOK', LockHeld, Founded, RemovalNamed, AskedKept, [Next]_vars
  PROVE  AskedKept'
<1> USE DEF AskedKept
<1>0. /\ asked.left \in Nat /\ asked.left <= RetryAfter /\ asked'.left \in Nat
      /\ asked'.left <= RetryAfter /\ RetryAfter \in Nat /\ RetryAfter > 0
      /\ cache # NoCache => cache.native.age \in Nat /\ cache.native.floor \in Nat
  BY LimitsAssumption DEF TypeOK, CachedRead, NativeState
<1>1. ASSUME NEW t \in Thread, ReadStep(t)
      PROVE  AskedKept'
  <2>1. CASE Look(t)
    <3>1. /\ work = NoWork /\ work'.step = (IF work'.native THEN "asked" ELSE "listing")
          /\ UNCHANGED <<cache, asked>>
      BY <2>1, Looked DEF LockHeld, ghost
    <3> QED BY <3>1
  <2>2. CASE Answer(t)
    <3>1. /\ work'.native /\ work' # NoWork
          /\ asked'.left > 0 => work'.floor = RetryAfter /\ work'.before = asked'.login
      BY <2>2, AnsweredRead, LimitsAssumption DEF Proceeds, Founded
    <3> QED BY <3>1
  <2>3. CASE ListSaved(t) \/ PollSaved(t) \/ KeepListed(t)
    <3>1. /\ Proceeds /\ work # NoWork /\ work' # NoWork /\ work.step # "asked"
          /\ work'.floor = work.floor /\ UNCHANGED <<cache, asked>>
      BY <2>3, ListedSaved, PolledSaved, KeptListed, LimitsAssumption DEF Proceeds, ghost
    <3> QED BY <3>1 DEF Proceeds
  <2>4. CASE Store(t)
    <3>1. /\ work # NoWork /\ work' = NoWork /\ work.step = "storing" /\ cache' # NoCache
          /\ asked' = asked
      BY <2>4, StoredRead, LimitsAssumption DEF ghost
    <3>2. CASE work.native
      BY <1>0, <2>4, <3>1, <3>2, StoredRead
    <3>3. CASE ~work.native
      BY <2>4, <3>1, <3>3, StoredRead
    <3> QED BY <3>2, <3>3
  <2> QED BY <1>1, <2>1, <2>2, <2>3, <2>4 DEF ReadStep
<1>2. ASSUME NEW t \in Thread, CallStep(t)
      PROVE  AskedKept'
  BY <1>2, CallTypes DEF ghost
<1>3. ASSUME NEW t \in Thread, EditStep(t)
      PROVE  AskedKept'
  <2>1. CASE Clear(t)
    BY <2>1, Waits DEF Clear
  <2>2. CASE ~Clear(t)
    <3>1. /\ work' = work /\ asked' = asked
          /\ cache # NoCache => cache' # NoCache /\ cache'.native = cache.native
      <4>1. asked' = asked
        BY <1>3, <2>2 DEF EditStep, Switched, SaveCurrent, SignIn, RemoveProfile, Discover,
                          ForgetAccount, ForgetHistory, Archive, Unarchive, Forget, ghost
      <4> QED BY <1>3, <2>2, <4>1, EditTypes, EditsOfCards, LimitsAssumption DEF Trimmed
    <3> QED BY <3>1
  <2> QED BY <2>1, <2>2
<1>4. CASE Outside \/ UNCHANGED vars
  BY <1>4 DEF Outside, vars
<1>5. CASE Tick
  <2>1. /\ cache # NoCache /\ cache' # NoCache /\ cache'.native.login = cache.native.login
        /\ cache'.native.floor = cache.native.floor
        /\ cache'.native.age <= cache.native.age + 1 /\ cache'.native.age \in Nat
    BY <1>5, OtherTypes, LimitsAssumption DEF CachedRead, NativeState
  <2>2. work' = work
    BY <1>5 DEF Tick
  <2>3. asked'.left > 0 => asked.left > 0 /\ asked'.login = asked.login
                           /\ asked'.left + 1 = asked.left
    BY <1>0, <1>5, Waits DEF Tick, TypeOK
  <2> QED BY <1>0, <2>1, <2>2, <2>3
<1> QED BY <1>1, <1>2, <1>3, <1>4, <1>5, StepsAre

(* A step that leaves the cards, the listing and the screen as they were,   *)
(* and that of no read about to be served.                                  *)
LEMMA ScreenKept ==
  ASSUME ScreenFollows, NEW t \in Thread, \A u \in Thread \ {t} : th'[u] = th[u],
         th[t].at \notin {"entering", "refused", "waiting", "serving"}, ToTell(t) => ToTell(t)',
         screen' = screen, listing'.roster = listing.roster,
         cache' # NoCache => cache # NoCache /\ cache'.entries = cache.entries
  PROVE  ScreenFollows'
<1> SUFFICES ASSUME screen # Told, \A u \in Thread : ~ToTell(u)', ~Starting'
             PROVE  /\ cache' # NoCache => screen.entries = cache'.entries
                    /\ Joining' \/ screen.roster = listing.roster
  BY DEF ScreenFollows
<1>1. \A u \in Thread : ~ToTell(u)
  BY DEF ToTell
<1>2. Screen \in Thread
  BY LimitsAssumption
<1>3. ~Starting /\ (Joining => Joining')
  BY <1>2 DEF Starting, Joining, Looks, At
<1> QED BY <1>1, <1>3 DEF ScreenFollows

LEMMA ReadsFollowed ==
  ASSUME TypeOK, LockHeld, Founded, NEW t \in Thread, ReadStep(t)
  PROVE  ScreenFollows'
<1>1. \E u \in Thread : th'[u].at \in {"reading", "replaced"}
  <2>1. CASE Look(t) \/ Store(t)
    BY <2>1, Looked, StoredRead, Gone, Stages
  <2>2. CASE Answer(t) \/ ListSaved(t) \/ PollSaved(t) \/ KeepListed(t)
    <3>1. th' = th /\ work # NoWork /\ work.by = t
      BY <2>2, AnsweredRead, ListedSaved, PolledSaved, KeptListed, LimitsAssumption DEF Proceeds
    <3> QED BY <3>1 DEF LockHeld, At
  <2> QED BY <2>1, <2>2 DEF ReadStep
<1> QED BY <1>1 DEF ScreenFollows, ToTell

LEMMA CallsFollowed ==
  ASSUME TypeOK, NothingUntold, ScreenFollows, NEW t \in Thread, CallStep(t)
  PROVE  ScreenFollows'
<1>0. /\ \A u \in Thread \ {t} : th'[u] = th[u]
      /\ cache' = cache /\ th[t].limits \in BOOLEAN /\ Screen \in Thread
  BY CallsMove, CallTypes, LimitsAssumption DEF Moved, TypeOK, Local
<1>1. CASE Poll(t) \/ Refresh(t) \/ Switch(t) \/ NotSwitched(t) \/ Remove(t) \/ PlanRemoval(t)
             \/ Spend(t) \/ Spent(t) \/ Reread(t)
  <2>1. /\ th[t].at \in {"idle", "changing", "planning", "spending", "rereading"}
        /\ screen' = screen /\ listing' = listing
    BY <1>1 DEF Poll, Refresh, Read, Begin, Switch, NotSwitched, Remove, PlanRemoval, Spend, Spent,
                Reread, At
  <2>2. CASE ~Reread(t)
    <3>1. th[t].at \in NothingYet
      BY <1>1, <2>2 DEF Poll, Refresh, Read, Begin, Switch, NotSwitched, Remove, PlanRemoval,
                        Spend, Spent, At, NothingYet
    <3>2. ~ToTell(t)
      BY <2>1, <3>1 DEF NothingUntold, ToTell
    <3> QED BY <1>0, <2>1, <3>2, ScreenKept
  <2>3. CASE Reread(t)
    <3> DEFINE l == [th[t] EXCEPT !.at = "relisting", !.roster = writes]
    <3>1. l.limits = th[t].limits
      BY DEF TypeOK, Local
    <3>2. th' = [th EXCEPT ![t] = l]
      BY <2>3 DEF Reread
    <3> HIDE DEF l
    <3>3. th'[t].limits = th[t].limits /\ th[t].at = "rereading"
      BY <2>3, <3>1, <3>2 DEF TypeOK, Reread, At
    <3>4. ToTell(t) => ToTell(t)'
      BY <3>3 DEF ToTell
    <3> QED BY <1>0, <2>1, <3>4, ScreenKept
  <2> QED BY <2>2, <2>3
<1>2. CASE Enter(t)
  <2>1. /\ th[t].at = "entering" /\ th'[t].at \in {"waiting", "refused"}
        /\ th'[t].limits = th[t].limits /\ th'[t].call = th[t].call
        /\ ~Looks(t) => screen' = screen
        /\ listing' = listing
    BY <1>2, Gone, Stages DEF Enter, At
  <2>2. CASE Looks(t)
    BY <2>1, <2>2 DEF ScreenFollows, Starting, Looks
  <2>3. CASE ~Looks(t)
    <3>1. \A u \in Thread : ToTell(u)' = ToTell(u)
      BY <1>0, <2>1 DEF ToTell
    <3>2. Starting' = Starting /\ Joining' = Joining
      BY <1>0, <2>1, <2>3 DEF Starting, Joining, Looks, At
    <3> QED BY <1>0, <2>1, <2>3, <3>1, <3>2 DEF ScreenFollows
  <2> QED BY <2>2, <2>3
<1>3. CASE Refused(t) \/ ServedFromCache(t)
  <2>1. /\ th[t].at \in {"refused", "waiting"} /\ Return(t, th[t].limits) /\ Serve(t, Shown)
        /\ listing' = listing
    BY <1>3 DEF Refused, ServedFromCache, At
  <2>2. IF Looks(t) \/ th[t].limits
          THEN th'[t].at = "serving" /\ th'[t].call = th[t].call /\ th'[t].limits = th[t].limits
          ELSE th'[t] = Idle /\ th'[t].limits = FALSE /\ th'[t].at = "idle"
    BY <1>0, <2>1, Returned
  <2>3. CASE th[t].limits
    BY <2>2, <2>3 DEF ScreenFollows, ToTell
  <2>4. CASE ~th[t].limits /\ Looks(t)
    <3>1. ~ToTell(t) /\ ~ToTell(t)' /\ Joining'
      BY <2>1, <2>2, <2>4 DEF ToTell, Joining, Looks, At
    <3>2. screen # Told => screen'.entries = Shown
      BY <2>1, <2>4 DEF Serve, TypeOK
    <3>3. screen = Told => screen' = Told
      BY <2>1, <2>4 DEF Serve
    <3> QED BY <1>0, <3>1, <3>2, <3>3 DEF ScreenFollows, Shown
  <2>5. CASE ~th[t].limits /\ ~Looks(t)
    <3>1. \A u \in Thread : ToTell(u)' = ToTell(u)
      BY <1>0, <2>1, <2>2, <2>5 DEF ToTell
    <3>2. Starting' = Starting /\ Joining' = Joining
      BY <1>0, <2>1, <2>2, <2>5 DEF Starting, Joining, Looks, At, Idle
    <3>3. screen' = screen
      BY <2>1, <2>5 DEF Serve
    <3> QED BY <1>0, <2>1, <3>1, <3>2, <3>3 DEF ScreenFollows
  <2> QED BY <1>0, <2>3, <2>4, <2>5
<1>4. CASE AnnounceRead(t)
  BY <1>4 DEF AnnounceRead, ScreenFollows
<1>5. CASE Served(t)
  <2>1. /\ th[t].at = "serving" /\ listing' = listing
        /\ th'[t].at = "idle" /\ th'[t].limits = FALSE
    BY <1>5, Ended DEF Served, At
  <2>2. CASE th[t].limits
    BY <1>5, <2>2 DEF Served, ScreenFollows
  <2>3. CASE ~th[t].limits
    <3>1. \A u \in Thread : ToTell(u)' = ToTell(u)
      BY <1>0, <2>1, <2>3 DEF ToTell
    <3>2. screen' = IF Looks(t) /\ screen # Told THEN [screen EXCEPT !.roster = listing.roster]
                    ELSE screen
      BY <1>5, <2>3 DEF Served
    <3>3. CASE Looks(t)
      <4>1. ~Starting /\ ~Starting'
        BY <2>1, <3>3 DEF Starting, Looks
      <4>2. screen # Told => screen'.entries = screen.entries /\ screen'.roster = listing.roster
        BY <3>2, <3>3 DEF TypeOK
      <4>3. screen = Told => screen' = Told
        BY <3>2
      <4> QED BY <1>0, <2>1, <3>1, <4>1, <4>2, <4>3 DEF ScreenFollows
    <3>4. CASE ~Looks(t)
      <4>1. ~Joining \/ Screen # t
        BY <3>4 DEF Joining
      <4>2. Starting' = Starting /\ (Joining => Joining')
        BY <1>0, <2>1, <3>4, <4>1 DEF Starting, Joining, Looks, At
      <4> QED BY <1>0, <2>1, <3>1, <3>2, <3>4, <4>2 DEF ScreenFollows
    <3> QED BY <3>3, <3>4
  <2> QED BY <1>0, <2>2, <2>3
<1>6. CASE Relist(t)
  <2> DEFINE told == th[t].limits \/ listing.roster # th[t].roster
             l == [th[t] EXCEPT !.at = IF th[t].call = "unarchive" THEN "entering" ELSE "telling",
                                !.roster = 0, !.limits = told]
  <2>1. l.limits = told
    <3>1. told \in BOOLEAN
      OBVIOUS
    <3> HIDE DEF told
    <3> QED BY <3>1 DEF TypeOK, Local
  <2>2. th' = [th EXCEPT ![t] = l]
    BY <1>6 DEF Relist
  <2> HIDE DEF l
  <2>3. th'[t].limits = told
    BY <2>1, <2>2 DEF TypeOK
  <2>4. th[t].at = "relisting" /\ screen' = screen /\ listing'.roster = th[t].roster
    BY <1>6 DEF Relist, At
  <2>5. CASE told
    BY <2>3, <2>5 DEF ScreenFollows, ToTell
  <2>6. CASE ~told
    BY <1>0, <2>3, <2>4, <2>6, ScreenKept DEF ToTell
  <2> QED BY <2>5, <2>6
<1>7. CASE Tell(t)
  <2>1. th[t].at = "telling" /\ listing' = listing
    BY <1>7 DEF Tell, At
  <2>2. CASE th[t].limits
    BY <1>7, <2>2 DEF Tell, ScreenFollows
  <2>3. CASE ~th[t].limits
    <3>1. ~ToTell(t) /\ screen' = screen
      BY <1>7, <2>1, <2>3 DEF Tell, ToTell
    <3> QED BY <1>0, <2>1, <3>1, ScreenKept
  <2> QED BY <1>0, <2>2, <2>3
<1> QED BY <1>1, <1>2, <1>3, <1>4, <1>5, <1>6, <1>7 DEF CallStep

LEMMA EditsFollowed ==
  ASSUME TypeOK, RemovalNamed, NothingUntold, ScreenFollows, NEW t \in Thread, EditStep(t)
  PROVE  ScreenFollows'
<1>0. /\ \A u \in Thread \ {t} : th'[u] = th[u]
      /\ screen' = screen /\ listing' = listing
  BY EditsMove, EditTypes DEF Moved
<1>1. th[t].at \in NothingYet
  BY DEF EditStep, Switched, SaveCurrent, SignIn, RemoveProfile, Begin, Clear, Discover,
         ForgetAccount, ForgetHistory, Archive, Unarchive, Forget, Edit, At, NothingYet
<1>2. ~ToTell(t) /\ th[t].at \notin {"entering", "refused", "waiting", "serving"}
  BY <1>1 DEF NothingUntold, ToTell, NothingYet
<1>3. CASE cache' # NoCache => cache' = cache
  BY <1>0, <1>2, <1>3, ScreenKept
<1>4. CASE cache' # NoCache /\ cache' # cache
  <2>1. th'[t].limits
    <3>1. CASE ForgetHistory(t)
      <4> DEFINE told == cache' # cache
                 l == [th[t] EXCEPT !.at = IF th[t].stored THEN "rereading" ELSE "telling",
                                    !.who = NoAccount, !.stored = FALSE, !.limits = told]
      <4>1. l.limits = told
        <5>1. told \in BOOLEAN
          OBVIOUS
        <5> HIDE DEF told
        <5> QED BY <5>1 DEF TypeOK, Local
      <4>2. th' = [th EXCEPT ![t] = l]
        BY <3>1 DEF ForgetHistory
      <4> HIDE DEF l
      <4>3. th'[t].limits = told
        BY <4>1, <4>2 DEF TypeOK
      <4> QED BY <1>4, <4>3
    <3>2. CASE Archive(t) \/ Unarchive(t) \/ Forget(t)
      <4>1. \/ Edit(t, "archive", "telling", FALSE) \/ Edit(t, "archive", "rereading", FALSE)
            \/ Edit(t, "unarchive", "entering", TRUE) \/ Edit(t, "unarchive", "rereading", TRUE)
            \/ Edit(t, "forget", "telling", FALSE)
        BY <3>2 DEF Archive, Unarchive, Forget
      <4>2. /\ {"archive", "unarchive", "forget"} \subseteq Call
            /\ {"telling", "rereading", "entering"} \subseteq Stage
        BY Stages
      <4>3. th'[t].limits = (cache' # cache)
        BY ONLY TypeOK, t \in Thread, <4>1, <4>2, Edited
      <4> QED BY <1>4, <4>3
    <3>3. CASE Switched(t) \/ SaveCurrent(t) \/ SignIn(t) \/ RemoveProfile(t) \/ Clear(t)
                 \/ Discover(t) \/ ForgetAccount(t)
      BY <1>4, <3>3 DEF Switched, SaveCurrent, SignIn, RemoveProfile, Clear, Discover,
                        ForgetAccount
    <3> QED BY <3>1, <3>2, <3>3 DEF EditStep
  <2> QED BY <2>1 DEF ScreenFollows, ToTell
<1> QED BY <1>3, <1>4

LEMMA ScreenStaysFollowing ==
  ASSUME TypeOK, LockHeld, Founded, RemovalNamed, NothingUntold, ScreenFollows, [Next]_vars
  PROVE  ScreenFollows'
<1>1. CASE Outside \/ UNCHANGED vars
  BY <1>1 DEF Outside, vars, ScreenFollows, ToTell, Starting, Joining, Looks, At
<1>2. CASE Tick
  <2>1. UNCHANGED <<th, screen, listing>> /\ cache # NoCache /\ cache'.entries = cache.entries
    BY <1>2, OtherTypes DEF Tick
  <2> QED BY <2>1 DEF ScreenFollows, ToTell, Starting, Joining, Looks, At
<1> QED BY <1>1, <1>2, StepsAre, ReadsFollowed, CallsFollowed, EditsFollowed

LEMMA LimitsInvHolds == Spec => []LimitsInv
<1>1. ASSUME LimitsInv, [Next]_vars
      PROVE  LimitsInv'
  <2>1. TypeOK'
    BY <1>1, LimitsTypes DEF LimitsInv
  <2>2. LockHeld' /\ ReadersHold' /\ Founded' /\ RemovalNamed' /\ NothingUntold'
    BY <1>1, LockStaysHeld, ReadersStayHeld, StaysFounded, CallsStayNamed DEF LimitsInv
  <2>3. Current' /\ Away'
    BY <1>1, StaysCurrent, StaysAway DEF LimitsInv
  <2>4. RosterOrder' /\ AskedKept'
    BY <1>1, <2>1, RostersStayOrdered, AskedStaysKept DEF LimitsInv
  <2>5. ScreenFollows'
    BY <1>1, ScreenStaysFollowing DEF LimitsInv
  <2> QED BY <2>1, <2>2, <2>3, <2>4, <2>5 DEF LimitsInv
<1> QED BY LimitsInvInit, <1>1, PTL DEF Spec

(* The limits' state has its types throughout.                              *)
THEOREM LimitsTyped == Spec => []TypeOK
<1>1. LimitsInv => TypeOK
  BY DEF LimitsInv
<1> QED BY LimitsInvHolds, <1>1, PTL

(* limits_refresh.rs: neither a read that began before an account change of *)
(* the app nor a poll of a removed account brings its cards back.           *)
THEOREM NothingStaleComesBack == Spec => []NothingStaleReturns
<1>1. LimitsInv => NothingStaleReturns
  BY DEF LimitsInv, Current, Away, NothingStaleReturns, NoStaleAccount, RemovedStaysAway
<1> QED BY LimitsInvHolds, <1>1, PTL

(* limits_refresh.rs: when every call has ended and the screen was told of  *)
(* nothing since it read, it shows what the cache and the listing hold.     *)
THEOREM ScreenIsCurrent == Spec => []ScreenCurrent
<1>1. ASSUME LimitsInv, \A t \in Thread : At(t, "idle"), screen # Told, cache # NoCache
      PROVE  screen.entries = cache.entries /\ screen.roster = listing.roster
  <2>1. \A t \in Thread : ~ToTell(t)
    BY <1>1 DEF LimitsInv, NothingUntold, NothingYet, ToTell, At
  <2>2. ~Starting /\ ~Joining
    BY <1>1, LimitsAssumption DEF Starting, Joining, At
  <2> QED BY <1>1, <2>1, <2>2 DEF LimitsInv, ScreenFollows
<1>2. LimitsInv => ScreenCurrent
  BY <1>1 DEF ScreenCurrent
<1> QED BY LimitsInvHolds, <1>2, PTL

(* NativeState::holds_back: a forced read asks no sooner than any other for *)
(* a login that was asked to wait, whoever cached the answer.               *)
THEOREM WaitsAreHonoured == Spec => RetryHonoured
<1>1. ASSUME LimitsInv, [Next]_vars, work = NoWork, work' # NoWork, work'.native,
             asked.left > 0, asked.login = login
      PROVE  FALSE
  <2>1. PICK t \in Thread : Look(t)
    <3>1. \A t \in Thread : ~(Answer(t) \/ ListSaved(t) \/ PollSaved(t) \/ KeepListed(t) \/ Store(t))
      BY <1>1 DEF Answer, ListSaved, PollSaved, KeepListed, Store, Working
    <3>2. \A t \in Thread : ~CallStep(t) /\ ~EditStep(t)
      BY <1>1, CallTypes, EditTypes DEF LimitsInv
    <3>3. ~(Outside \/ Tick \/ UNCHANGED vars)
      BY <1>1 DEF Outside, Tick, vars
    <3> QED BY <1>1, <3>1, <3>2, <3>3, StepsAre DEF ReadStep
  <2>2. /\ cache # NoCache /\ cache.native.login = login
        /\ cache.native.age + asked.left <= cache.native.floor
    BY <1>1 DEF LimitsInv, AskedKept
  <2>3. ~HoldsBack(cache)
    BY <1>1, <2>1, <2>2, Looked DEF LimitsInv
  <2>4. cache.native.age \in Nat /\ cache.native.floor \in Nat /\ asked.left \in Nat
    BY <1>1, <2>2, LimitsAssumption DEF LimitsInv, TypeOK, CachedRead, NativeState
  <2> QED BY <1>1, <2>2, <2>3, <2>4 DEF HoldsBack
<1>2. LimitsInv /\ [Next]_vars =>
        [work = NoWork /\ work' # NoWork /\ work'.native
           => ~(asked.left > 0 /\ asked.login = login)]_vars
  BY <1>1
<1> QED BY LimitsInvHolds, <1>2, PTL DEF Spec, RetryHonoured

(* Cache::keep_listed: the roster a saved refresh loaded does not replace   *)
(* one that was reread from a newer vault.                                  *)
THEOREM RereadsAreKept == Spec => RefreshKeepsRereads
<1>1. ASSUME LimitsInv, [Next]_vars, NEW t \in Thread, Working(t, "keeping"),
             listing' # listing, work' # work
      PROVE  listing'.roster >= listing.roster
  <2>1. PICK u \in Thread : KeepListed(u)
    <3>1. \A u \in Thread : ~(Look(u) \/ Answer(u) \/ ListSaved(u) \/ PollSaved(u) \/ Store(u))
      BY <1>1 DEF Look, Answer, ListSaved, PollSaved, Store
    <3>2. \A u \in Thread : ~CallStep(u) /\ ~EditStep(u)
      BY <1>1, CallTypes, EditTypes DEF LimitsInv
    <3>3. ~(Outside \/ Tick \/ UNCHANGED vars)
      BY <1>1 DEF Outside, Tick, vars
    <3> QED BY <1>1, <3>1, <3>2, <3>3, StepsAre DEF ReadStep
  <2>2. /\ work # NoWork /\ work.step = "keeping"
        /\ listing'.rereads = listing.rereads
        /\ listing'.roster = IF listing.rereads = work.rereads THEN work.roster ELSE listing.roster
    BY <1>1, <2>1, KeptListed DEF LimitsInv, Working
  <2>3. listing.roster \in Nat /\ work.roster \in Nat
    BY <1>1, <2>2 DEF LimitsInv, TypeOK, Work
  <2> QED BY <1>1, <2>2, <2>3 DEF LimitsInv, RosterOrder
<1>2. LimitsInv /\ [Next]_vars =>
        [\A t \in Thread : Working(t, "keeping") /\ listing' # listing /\ work' # work
           => listing'.roster >= listing.roster]_vars
  BY <1>1
<1> QED BY LimitsInvHolds, <1>2, PTL DEF Spec, RefreshKeepsRereads
==============================================================================
