---------------------------- MODULE LimitsRefresh ----------------------------
(***************************************************************************)
(* limits_refresh.rs and limits_refresh/account_actions.rs for one         *)
(* provider: the cache every surface reads the usage limits through, the   *)
(* roster of saved profiles kept beside it, and the account actions that   *)
(* edit both, with the snapshots and the archive of limits/ they write.    *)
(* One read holds the cache's lock from its first look to its last write,  *)
(* provider and network calls included; the roster has a small lock of its *)
(* own.  Reads hold off account changes and changes hold off reads         *)
(* (AccountActivity); a login changed by another program is held off by    *)
(* nothing.                                                                *)
(*                                                                         *)
(* A card is known by its account; what its windows say is left out, so    *)
(* either poll interval may be the one they call for.  A roster is known by*)
(* the write of the vault or the archive it was read after.  Times are     *)
(* ages.                                                                   *)
(*                                                                         *)
(* A definition placed just before the one whose name it extends is that   *)
(* one with a mistake in it; nothing uses it.  It stands for the bug one of*)
(* the properties rules out: with it in place, that property fails.        *)
(***************************************************************************)
EXTENDS Naturals

CONSTANTS Account, NoAccount,
          Thread, NoThread,  \* threads of the app that call limits_refresh
          Screen,            \* the thread that answers the Limits screen
          Actor,             \* bound: the threads that change accounts
          NoCache, NoWork,
          Told,              \* the screen has an announcement to answer
          Interval,          \* poll interval
          CheckInterval,     \* CHECK_INTERVAL: the last ten percent is read at it
          RetryAfter,        \* how long a rate limit asks to wait
          MaxAge,            \* bound: ages saturate here
          MaxFailures,       \* bound: failures in a row saturate here
          MaxCalls,          \* bound: calls made
          MaxOutside,        \* bound: sign-ins by another program
          MaxTogether        \* bound: calls and sign-ins by another program

MaybeAccount == Account \cup {NoAccount}

(* The cards the cache serves: whose is marked current, whose are shown, and*)
(* which of those are flagged archived.                                     *)
Entries == [current : MaybeAccount, shown : SUBSET Account, flagged : SUBSET Account]

NoEntries == [current |-> NoAccount, shown |-> {}, flagged |-> {}]

(* NativeState: how long ago the signed-in account was read, the failures in*)
(* a row, how long its answer asked to wait, and the login that was asked   *)
(* to (nothing looks at it otherwise).                                      *)
NativeState == [age      : 0..MaxAge,
                failures : 0..MaxFailures,
                floor    : {0, RetryAfter},
                login    : MaybeAccount]

CachedRead == [entries : Entries, savedAge : 0..MaxAge, native : NativeState]

(* The read that holds the lock: what it refreshes, the login it began with,*)
(* the saved profiles still to poll, and the roster it loaded.              *)
Work == [by      : Thread,
         step    : {"asked", "listing", "polling", "keeping", "storing"},
         native  : BOOLEAN, saved : BOOLEAN,
         before  : MaybeAccount,
         entries : Entries,
         failed  : BOOLEAN, floor : {0, RetryAfter},
         due     : SUBSET Account,
         rereads : Nat, roster : Nat]

ASSUME LimitsAssumption ==
  /\ NoAccount \notin Account /\ NoThread \notin Thread /\ Screen \in Thread /\ Actor \subseteq Thread
  /\ {Interval, CheckInterval, RetryAfter, MaxAge, MaxFailures} \subseteq Nat \ {0}
  /\ {MaxCalls, MaxOutside, MaxTogether} \subseteq Nat
  /\ NoCache \notin CachedRead /\ NoWork \notin Work

Call == {"none", "poll", "refresh", "switch", "change", "discover", "remove",
         "archive", "unarchive", "forget", "spend"}

Stage == {"idle", "changing", "entering", "refused", "waiting", "reading", "replaced",
          "serving", "clearing", "rereading", "relisting", "telling",
          "planning", "forgetting", "dropping", "spending"}

(* A thread's call: its account, whether its read is forced, the roster it  *)
(* read, whether the vault or the archive changed, and what is to announce. *)
Local == [call : Call, at : Stage, who : MaybeAccount, force : BOOLEAN,
          roster : Nat, stored : BOOLEAN, limits : BOOLEAN]

Idle == [call |-> "none", at |-> "idle", who |-> NoAccount, force |-> FALSE,
         roster |-> 0, stored |-> FALSE, limits |-> FALSE]

VARIABLES login,    \* the provider's native login
          saved,    \* profiles with a login in the vault
          snaps,    \* accounts with a remembered reading on disk
          archive,  \* archived.json
          writes,   \* vault and archive writes so far
          readers,  \* threads that hold the provider's activity for a read
          changing, \* the thread that holds it for an account change
          lock,     \* the thread that holds Cache.read across its calls
          cache,    \* Cache.read
          listing,  \* Cache.listing: the roster and the rereads of it
          work,     \* the read under way
          th,       \* what each thread is doing
          screen,   \* what the Limits screen shows
          calls, outside,
          since,    \* logins held since the app last changed the account
          cleared,  \* that change dropped the cache
          gone,     \* accounts removed and not seen since
          asked     \* the login asked to wait, and how long it still has to

disk  == <<login, saved, snaps, archive, writes>>
guard == <<readers, changing>>
ghost == <<since, cleared, gone, asked>>
bound == <<calls, outside>>
vars  == <<login, saved, snaps, archive, writes, readers, changing, lock, cache, listing,
           work, th, screen, calls, outside, since, cleared, gone, asked>>

TypeOK == /\ login \in MaybeAccount
          /\ saved \subseteq Account /\ snaps \subseteq Account /\ archive \subseteq Account
          /\ writes \in Nat
          /\ readers \subseteq Thread
          /\ changing \in Thread \cup {NoThread}
          /\ lock \in Thread \cup {NoThread}
          /\ cache \in CachedRead \cup {NoCache}
          /\ listing \in [roster : Nat, rereads : Nat]
          /\ work \in Work \cup {NoWork}
          /\ th \in [Thread -> Local]
          /\ screen \in [entries : Entries, roster : Nat] \cup {Told}
          /\ cleared \in BOOLEAN
          /\ calls \in 0..MaxCalls /\ outside \in 0..MaxOutside
          /\ since \subseteq MaybeAccount /\ gone \subseteq Account
          /\ asked \in [login : MaybeAccount, left : 0..RetryAfter]

NotAsked == [login |-> NoAccount, left |-> 0]

(* The app starts with nothing cached and no roster; the screen has its     *)
(* first read to make.                                                      *)
Init == /\ login \in Account
        /\ saved = Account /\ snaps = Account /\ archive = {}
        /\ writes = 1
        /\ readers = {} /\ changing = NoThread /\ lock = NoThread
        /\ cache = NoCache /\ work = NoWork
        /\ listing = [roster |-> 0, rereads |-> 0]
        /\ th = [t \in Thread |-> Idle]
        /\ screen = Told
        /\ calls = 0 /\ outside = 0
        /\ since = {login} /\ cleared = TRUE /\ gone = {}
        /\ asked = NotAsked

-----------------------------------------------------------------------------
At(t, stage) == th[t].at = stage
Go(t, stage) == th' = [th EXCEPT ![t] = [@ EXCEPT !.at = stage]]
Done(t)      == th' = [th EXCEPT ![t] = Idle]
Free         == lock = NoThread

Room(count, most) == count < most /\ calls + outside < MaxTogether

Begin(t, call, stage, who, force) ==
  /\ At(t, "idle") /\ Room(calls, MaxCalls)
  /\ calls' = calls + 1
  /\ th' = [th EXCEPT ![t] = [Idle EXCEPT !.call = call, !.at = stage, !.who = who,
                                          !.force = force]]

NoScreen == [entries |-> NoEntries, roster |-> 0]

Shown == IF cache = NoCache THEN NoEntries ELSE cache.entries

(* Reads of the screen's own; the reads of its other calls it does not show.*)
Looks(t) == t = Screen /\ th[t].call \in {"poll", "refresh"}

(* active_interval: the shorter one when the signed-in account is in its    *)
(* last ten percent.                                                        *)
ActiveInterval == {CheckInterval, Interval}

(* cache_is_fresh, with the backoff that doubles after each failure.        *)
Fresh(age, interval, failures, force) == ~force /\ age < interval * 2^failures

HoldsBack(c) == c.native.age < c.native.floor /\ login = c.native.login

NativeDue(force, interval) ==
  cache # NoCache => /\ ~HoldsBack(cache)
                     /\ ~Fresh(cache.native.age, interval, cache.native.failures, force)

SavedDue(force) == cache # NoCache => ~Fresh(cache.savedAge, Interval, 0, force)

AtMost(n, most) == IF n > most THEN most ELSE n

-----------------------------------------------------------------------------
(* A read: the poll of a monitor or the notch, a screen's, or the one an    *)
(* account change, an unarchive or a spend ends with.                       *)
Read(t, call, force) ==
  /\ Begin(t, call, "entering", NoAccount, force)
  /\ UNCHANGED <<disk, guard, lock, cache, listing, work, screen, outside, ghost>>

Poll(t)    == Read(t, "poll", FALSE)
Refresh(t) == Read(t, "refresh", TRUE)

(* activity::read: refused while an account change runs, and then served    *)
(* from the cache.  The screen asks because it was told, or on its own.     *)
Enter(t) == /\ At(t, "entering")
            /\ IF changing = NoThread
                 THEN Go(t, "waiting") /\ readers' = readers \cup {t}
                 ELSE Go(t, "refused") /\ readers' = readers
            /\ screen' = IF Looks(t) THEN NoScreen ELSE screen
            /\ UNCHANGED <<disk, changing, lock, cache, listing, work, bound, ghost>>

(* A read returns.  What is left to do is the screen's and an unarchive's.  *)
Return(t, limits) ==
  th' = [th EXCEPT ![t] = IF Looks(t) \/ limits
                          THEN [@ EXCEPT !.at = "serving", !.limits = limits] ELSE Idle]

(* What the screen is served are the cards as the lock is let go; its column*)
(* joins them with the roster a moment later.  A screen told of a change    *)
(* while it reads reads once more.                                          *)
Serve(t, entries) ==
  screen' = IF Looks(t) /\ screen # Told THEN [screen EXCEPT !.entries = entries] ELSE screen

Refused(t) == /\ At(t, "refused") /\ Free
              /\ Return(t, th[t].limits)
              /\ Serve(t, Shown)
              /\ UNCHANGED <<disk, guard, lock, cache, listing, work, bound, ghost>>

(* Neither half is due: the read is served from the cache.                  *)
ServedFromCache(t) ==
  /\ At(t, "waiting") /\ Free
  /\ \E interval \in ActiveInterval : ~NativeDue(th[t].force, interval)
  /\ ~SavedDue(th[t].force)
  /\ Return(t, th[t].limits)
  /\ Serve(t, Shown)
  /\ readers' = readers \ {t}
  /\ UNCHANGED <<disk, changing, lock, cache, listing, work, bound, ghost>>

(* The lock is taken for good; a native read begins with the login the      *)
(* provider's files name.                                                   *)
Look(t) ==
  \E interval \in ActiveInterval :
  LET native == NativeDue(th[t].force, interval)
      due    == SavedDue(th[t].force)
  IN /\ At(t, "waiting") /\ Free
     /\ native \/ due
     /\ Go(t, "reading")
     /\ lock' = t
     /\ work' = [by |-> t, step |-> IF native THEN "asked" ELSE "listing",
                 native |-> native, saved |-> due,
                 before |-> IF native THEN login ELSE NoAccount, entries |-> Shown,
                 failed |-> FALSE, floor |-> 0, due |-> {}, rereads |-> 0, roster |-> 0]
     /\ UNCHANGED <<disk, guard, cache, listing, screen, bound, ghost>>

Working(t, step) == work # NoWork /\ work.by = t /\ work.step = step

(* aggregate_accounts: the signed-in card, which a failed read names too,   *)
(* and what was remembered of every other account.                          *)
AggregateNobody(current) == [current |-> current, shown |-> snaps \cup {current},
                             flagged |-> {}]

Aggregate(current) == [current |-> current,
                       shown   |-> (snaps \cup {current}) \ {NoAccount},
                       flagged |-> {}]

(* keep_saved_cards: when the saved accounts are not due, their cards stay. *)
KeepSavedCards(entries) ==
  [entries EXCEPT !.shown = @ \cup (Shown.shown \ {Shown.current})]

(* The provider answers, for the login its files named before and still name*)
(* after (any other is a failure that names the one before); or it fails,   *)
(* rate limits, or finds nobody signed in or no client.  A good answer is   *)
(* remembered, and the account of the card, a failed one's too, leaves the  *)
(* archive; the roster is not reread for that.                              *)
Answer(t) ==
  \E outcome \in {"read", "failed", "rate limited", "nobody"} :
    LET good    == outcome = "read" /\ work.before # NoAccount /\ login = work.before
        limited == outcome = "rate limited"
        current == IF outcome = "nobody" THEN NoAccount ELSE work.before
        cards   == IF work.saved THEN Aggregate(current)
                                 ELSE KeepSavedCards(Aggregate(current))
    IN /\ Working(t, "asked")
       /\ snaps' = IF good THEN snaps \cup {current} ELSE snaps
       /\ archive' = archive \ {current}
       /\ work' = [work EXCEPT !.step = IF work.saved THEN "listing" ELSE "storing",
                               !.entries = cards,
                               !.failed = ~good /\ outcome # "nobody",
                               !.floor = IF limited THEN RetryAfter ELSE 0]
       /\ gone' = gone \ {current}
       /\ asked' = IF limited THEN [login |-> work.before, left |-> RetryAfter] ELSE NotAsked
       /\ UNCHANGED <<login, saved, writes, guard, lock, cache, listing, th, screen, bound, since,
                      cleared>>

(* refresh_usage: the rereads of the roster so far, who is signed in and the*)
(* vault are read in turn.  A login that cannot be read leaves nothing to   *)
(* poll.                                                                    *)
ListSaved(t) ==
  \E readable \in BOOLEAN :
    LET due == IF readable THEN saved \ (archive \cup {login}) ELSE {}
    IN /\ Working(t, "listing")
       /\ work' = [work EXCEPT !.step = IF due = {} THEN "keeping" ELSE "polling",
                               !.due = due, !.roster = writes,
                               !.rereads = listing.rereads]
       /\ UNCHANGED <<disk, guard, lock, cache, listing, th, screen, bound, ghost>>

(* poll, publish and merge of one saved profile: what it answers is only    *)
(* remembered while the vault still holds that login; a card that is the    *)
(* signed-in one by now is left alone.                                      *)
Merged(entries, x) == [entries EXCEPT !.shown = @ \cup {x}]

PollSaved(t) ==
  /\ Working(t, "polling")
  /\ \E x \in work.due, outcome \in {"read", "failed", "nothing"} :
       LET held  == x \in saved
           shows == held /\ outcome # "nothing" /\ work.entries.current # x
       IN /\ snaps' = IF held /\ outcome = "read" THEN snaps \cup {x} ELSE snaps
          /\ work' = [work EXCEPT
                        !.due = @ \ {x},
                        !.step = IF work.due = {x} THEN "keeping" ELSE "polling",
                        !.entries = IF shows THEN Merged(@, x) ELSE @]
  /\ UNCHANGED <<login, saved, archive, writes, guard, lock, cache, listing, th, screen, bound, ghost>>

(* keep_listed: the roster the poll loaded is kept unless another was read  *)
(* while it ran.                                                            *)
KeepAnyListed(t) ==
  /\ Working(t, "keeping")
  /\ work' = [work EXCEPT !.step = "storing", !.roster = 0, !.rereads = 0]
  /\ listing' = [listing EXCEPT !.roster = work.roster]
  /\ UNCHANGED <<disk, guard, lock, cache, th, screen, bound, ghost>>

KeepListed(t) ==
  /\ Working(t, "keeping")
  /\ work' = [work EXCEPT !.step = "storing", !.roster = 0, !.rereads = 0]
  /\ listing' = IF listing.rereads = work.rereads
                  THEN [listing EXCEPT !.roster = work.roster] ELSE listing
  /\ UNCHANGED <<disk, guard, lock, cache, th, screen, bound, ghost>>

(* NativeState::after, or the state there was when only the saved accounts  *)
(* were read.                                                               *)
Answered ==
  [age |-> 0,
   failures |-> IF ~work.failed THEN 0
                ELSE IF cache = NoCache THEN 1
                ELSE AtMost(cache.native.failures + 1, MaxFailures),
   floor |-> work.floor,
   login |-> IF work.floor = 0 THEN NoAccount ELSE work.before]

AfterAny == Answered

After == IF work.native THEN Answered ELSE cache.native

Flagged(entries) ==
  [entries EXCEPT !.flagged = (entries.shown \cap archive) \ {entries.current}]

(* The cards are flagged, the cache replaced and the lock let go.           *)
Store(t) ==
  /\ Working(t, "storing")
  /\ cache' = [entries |-> Flagged(work.entries), native |-> After,
               savedAge |-> IF work.saved THEN 0 ELSE cache.savedAge]
  /\ lock' = NoThread
  /\ work' = NoWork
  /\ Go(t, "replaced")
  /\ Serve(t, Flagged(work.entries))
  /\ UNCHANGED <<disk, guard, listing, bound, ghost>>

(* read_provider announces its replacement, then lets changes run again.    *)
AnnounceReadForced(t) ==
  /\ At(t, "replaced")
  /\ screen' = IF th[t].force THEN Told ELSE screen
  /\ readers' = readers \ {t}
  /\ Return(t, FALSE)
  /\ UNCHANGED <<disk, changing, lock, cache, listing, work, bound, ghost>>

AnnounceRead(t) ==
  /\ At(t, "replaced")
  /\ screen' = Told
  /\ readers' = readers \ {t}
  /\ Return(t, FALSE)
  /\ UNCHANGED <<disk, changing, lock, cache, listing, work, bound, ghost>>

(* The screen's column joins the cards it was served with the roster; an    *)
(* unarchive announces what its read did not.                               *)
Served(t) ==
  /\ At(t, "serving")
  /\ screen' = IF th[t].limits THEN Told
               ELSE IF Looks(t) /\ screen # Told THEN [screen EXCEPT !.roster = listing.roster]
               ELSE screen
  /\ Done(t)
  /\ UNCHANGED <<disk, guard, lock, cache, listing, work, bound, ghost>>

-----------------------------------------------------------------------------
(* use_profile, recover and sign_out: the native login is replaced while    *)
(* the change holds off the provider's reads.  A change that fails once it  *)
(* began may leave the login as it was and is reported all the same; one    *)
(* refused before is not.                                                   *)
Switch(t) ==
  \E x \in saved \cup {NoAccount, login} :
    /\ Begin(t, "switch", "changing", x, FALSE)
    /\ readers = {} /\ changing = NoThread
    /\ changing' = t
    /\ UNCHANGED <<disk, readers, lock, cache, listing, work, screen, outside, ghost>>

Switched(t) ==
  /\ At(t, "changing")
  /\ login' = th[t].who
  /\ saved' = IF th[t].who = NoAccount THEN saved \ {login} ELSE saved
  /\ writes' = writes + 1
  /\ changing' = NoThread
  /\ th' = [th EXCEPT ![t] = [@ EXCEPT !.at = "clearing", !.who = NoAccount]]
  /\ since' = {th[t].who} /\ cleared' = FALSE
  /\ UNCHANGED <<snaps, archive, readers, lock, cache, listing, work, screen, bound, gone, asked>>

NotSwitched(t) ==
  /\ At(t, "changing")
  /\ changing' = NoThread
  /\ Done(t)
  /\ UNCHANGED <<disk, readers, lock, cache, listing, work, screen, bound, ghost>>

(* The changes that publish a profile or take one away and then report an   *)
(* account change: save_current of the signed-in account, a finished        *)
(* sign-in, and Accounts::remove.                                           *)
SaveCurrent(t) ==
  /\ login # NoAccount /\ changing = NoThread
  /\ Begin(t, "change", "clearing", NoAccount, FALSE)
  /\ saved' = saved \cup {login}
  /\ archive' = archive \ {login}
  /\ writes' = writes + 1
  /\ gone' = gone \ {login}
  /\ UNCHANGED <<login, snaps, guard, lock, cache, listing, work, screen, outside, since, cleared,
                 asked>>

SignIn(t) ==
  \E x \in Account :
    /\ Begin(t, "change", "clearing", NoAccount, FALSE)
    /\ saved' = saved \cup {x}
    /\ archive' = archive \ {x}
    /\ writes' = writes + 1
    /\ gone' = gone \ {x}
    /\ UNCHANGED <<login, snaps, guard, lock, cache, listing, work, screen, outside, since,
                   cleared, asked>>

RemoveProfile(t) ==
  \E x \in saved :
    /\ Begin(t, "change", "clearing", NoAccount, FALSE)
    /\ saved' = saved \ {x}
    /\ writes' = writes + 1
    /\ UNCHANGED <<login, snaps, archive, guard, lock, cache, listing, work, screen, outside,
                   ghost>>

(* account_changed_in: the cache is dropped, the roster reread, and the     *)
(* provider read again, unforced.                                           *)
ClearOutdates(t) ==
  /\ At(t, "clearing") /\ Free
  /\ cache' = IF cache = NoCache THEN NoCache
              ELSE [cache EXCEPT !.savedAge = MaxAge, !.native = [@ EXCEPT !.age = MaxAge]]
  /\ Go(t, "rereading")
  /\ cleared' = TRUE
  /\ asked' = NotAsked
  /\ UNCHANGED <<disk, guard, lock, listing, work, screen, bound, since, gone>>

Clear(t) ==
  /\ At(t, "clearing") /\ Free
  /\ cache' = NoCache
  /\ Go(t, "rereading")
  /\ cleared' = TRUE
  /\ asked' = NotAsked
  /\ UNCHANGED <<disk, guard, lock, listing, work, screen, bound, since, gone>>

(* relisted: the roster is read first and the listing's lock taken then.    *)
Reread(t) ==
  /\ At(t, "rereading")
  /\ th' = [th EXCEPT ![t] = [@ EXCEPT !.at = "relisting", !.roster = writes]]
  /\ UNCHANGED <<disk, guard, lock, cache, listing, work, screen, bound, ghost>>

Relist(t) ==
  /\ At(t, "relisting")
  /\ th' = [th EXCEPT ![t] =
               [@ EXCEPT !.at = IF th[t].call = "unarchive" THEN "entering" ELSE "telling",
                         !.roster = 0,
                         !.limits = th[t].limits \/ listing.roster # th[t].roster]]
  /\ listing' = [roster |-> th[t].roster, rereads |-> listing.rereads + 1]
  /\ UNCHANGED <<disk, guard, lock, cache, work, screen, bound, ghost>>

(* What changed is announced; an account change then reads.                 *)
Tell(t) ==
  /\ At(t, "telling")
  /\ screen' = IF th[t].limits THEN Told ELSE screen
  /\ IF th[t].call \in {"switch", "change"}
       THEN th' = [th EXCEPT ![t] = [@ EXCEPT !.at = "entering", !.limits = FALSE]]
       ELSE Done(t)
  /\ UNCHANGED <<disk, guard, lock, cache, listing, work, bound, ghost>>

-----------------------------------------------------------------------------
(* roster_changed after a vault write that changes no account: discovery    *)
(* remembers the signed-in login, a category is set.                        *)
Discover(t) ==
  /\ Begin(t, "discover", "rereading", NoAccount, FALSE)
  /\ \E remembers \in BOOLEAN :
       saved' = IF remembers THEN (saved \cup {login}) \ {NoAccount} ELSE saved
  /\ gone' = gone \ (saved' \ saved)
  /\ writes' = writes + 1
  /\ UNCHANGED <<login, snaps, archive, guard, lock, cache, listing, work, screen, outside,
                 since, cleared, asked>>

(* remove_with: refused for the signed-in card; then the vault's profile,   *)
(* with no lock held, and the history with its card under the lock.         *)
Remove(t) ==
  \E x \in Account :
    /\ Begin(t, "remove", "planning", x, FALSE)
    /\ UNCHANGED <<disk, guard, lock, cache, listing, work, screen, outside, ghost>>

PlanRemoval(t) ==
  /\ At(t, "planning") /\ Free
  /\ IF Shown.current = th[t].who THEN Done(t) ELSE Go(t, "forgetting")
  /\ UNCHANGED <<disk, guard, lock, cache, listing, work, screen, bound, ghost>>

ForgetAccount(t) ==
  /\ At(t, "forgetting")
  /\ saved' = saved \ {th[t].who}
  /\ writes' = IF th[t].who \in saved THEN writes + 1 ELSE writes
  /\ th' = [th EXCEPT ![t] = [@ EXCEPT !.at = "dropping", !.stored = th[t].who \in saved]]
  /\ UNCHANGED <<login, snaps, archive, guard, lock, cache, listing, work, screen, bound, ghost>>

(* drop_cards: every card of the account but the signed-in one.             *)
Dropped(entries, x) == [entries EXCEPT !.shown = @ \ {x}, !.flagged = @ \ {x}]

DropCard(x) ==
  IF cache = NoCache \/ Shown.current = x THEN cache
  ELSE [cache EXCEPT !.entries = Dropped(@, x)]

ForgetHistoryMeanwhile(t) ==
  LET x == th[t].who
  IN /\ At(t, "dropping")
     /\ \E forgotten \in BOOLEAN :
          /\ snaps' = IF forgotten THEN snaps \ {x} ELSE snaps
          /\ archive' = IF forgotten THEN archive \ {x} ELSE archive
          /\ cache' = IF forgotten THEN DropCard(x) ELSE cache
          /\ gone' = IF forgotten /\ x \notin saved /\ Shown.current # x
                      THEN gone \cup {x} ELSE gone
     /\ th' = [th EXCEPT ![t] = [@ EXCEPT !.at = IF th[t].stored THEN "rereading" ELSE "telling",
                                           !.who = NoAccount, !.stored = FALSE,
                                           !.limits = cache' # cache]]
     /\ UNCHANGED <<login, saved, writes, guard, lock, listing, work, screen, bound, since,
                    cleared, asked>>

ForgetHistory(t) ==
  LET x == th[t].who
  IN /\ At(t, "dropping") /\ Free
     /\ \E forgotten \in BOOLEAN :
          /\ snaps' = IF forgotten THEN snaps \ {x} ELSE snaps
          /\ archive' = IF forgotten THEN archive \ {x} ELSE archive
          /\ cache' = IF forgotten THEN DropCard(x) ELSE cache
          /\ gone' = IF forgotten /\ x \notin saved /\ Shown.current # x
                      THEN gone \cup {x} ELSE gone
     /\ th' = [th EXCEPT ![t] = [@ EXCEPT !.at = IF th[t].stored THEN "rereading" ELSE "telling",
                                           !.who = NoAccount, !.stored = FALSE,
                                           !.limits = cache' # cache]]
     /\ UNCHANGED <<login, saved, writes, guard, lock, listing, work, screen, bound, since,
                    cleared, asked>>

(* A call whose first step changes the cards, the lock held for it only.    *)
Edit(t, call, stage, force) ==
  /\ At(t, "idle") /\ Free /\ Room(calls, MaxCalls)
  /\ calls' = calls + 1
  /\ th' = [th EXCEPT ![t] = [Idle EXCEPT !.call = call, !.at = stage, !.force = force,
                                          !.limits = cache' # cache]]

WithFlag(entries, x) == [entries EXCEPT !.flagged = @ \cup (entries.shown \cap {x})]
NoFlag(entries, x)   == [entries EXCEPT !.flagged = @ \ {x}]

(* archive_ids: the archive is written and the cards flagged under the lock.*)
Archive(t) ==
  /\ \E x \in Account :
       /\ Shown.current # x
       /\ archive' = archive \cup {x}
       /\ writes' = IF x \in archive THEN writes ELSE writes + 1
       /\ cache' = IF cache = NoCache THEN cache
                   ELSE [cache EXCEPT !.entries = WithFlag(@, x)]
       /\ Edit(t, "archive", IF x \in archive THEN "telling" ELSE "rereading", FALSE)
  /\ UNCHANGED <<login, saved, snaps, guard, lock, listing, work, screen, outside, ghost>>

(* Unarchiving reads the provider again, forced, before it announces.       *)
Unarchive(t) ==
  /\ \E x \in Account :
       /\ archive' = archive \ {x}
       /\ writes' = IF x \in archive THEN writes + 1 ELSE writes
       /\ cache' = IF cache = NoCache THEN cache
                   ELSE [cache EXCEPT !.entries = NoFlag(@, x)]
       /\ Edit(t, "unarchive", IF x \in archive THEN "rereading" ELSE "entering", TRUE)
  /\ UNCHANGED <<login, saved, snaps, guard, lock, listing, work, screen, outside, ghost>>

(* forget_with: one remembered reading and its card.                        *)
Forget(t) ==
  /\ \E x \in Account :
       /\ snaps' = snaps \ {x}
       /\ archive' = archive \ {x}
       /\ cache' = DropCard(x)
       /\ Edit(t, "forget", "telling", FALSE)
  /\ UNCHANGED <<login, saved, writes, guard, lock, listing, work, screen, outside, ghost>>

(* spend_then_refresh: the reset is spent while changes are held off, and   *)
(* a forced read follows once they run again.                               *)
Spend(t) ==
  /\ changing = NoThread
  /\ Begin(t, "spend", "spending", NoAccount, TRUE)
  /\ readers' = readers \cup {t}
  /\ UNCHANGED <<disk, changing, lock, cache, listing, work, screen, outside, ghost>>

Spent(t) ==
  /\ At(t, "spending")
  /\ Go(t, "entering")
  /\ readers' = readers \ {t}
  /\ UNCHANGED <<disk, changing, lock, cache, listing, work, screen, bound, ghost>>

(* Another program signs in or out.                                         *)
Outside ==
  \E x \in MaybeAccount \ {login} :
    /\ Room(outside, MaxOutside)
    /\ outside' = outside + 1
    /\ login' = x
    /\ since' = since \cup {x}
    /\ UNCHANGED <<saved, snaps, archive, writes, guard, lock, cache, listing, work, th, screen,
                   calls, cleared, gone, asked>>

Older(age)   == AtMost(age + 1, MaxAge)
Aged(native) == [native EXCEPT !.age = Older(@)]

Tick ==
  /\ cache # NoCache
  /\ cache' = [cache EXCEPT !.savedAge = Older(@), !.native = Aged(@)]
  /\ asked' = IF asked.left > 1 THEN [asked EXCEPT !.left = @ - 1] ELSE NotAsked
  /\ cache' # cache
  /\ UNCHANGED <<disk, guard, lock, listing, work, th, screen, bound, since, cleared, gone>>

Next ==
  \/ \E t \in Thread :
       \/ Poll(t) \/ Refresh(t) \/ Enter(t) \/ Refused(t) \/ ServedFromCache(t) \/ Look(t)
       \/ Answer(t) \/ ListSaved(t) \/ PollSaved(t) \/ KeepListed(t) \/ Store(t)
       \/ AnnounceRead(t) \/ Served(t)
  \/ \E t \in Actor :
       \/ Switch(t) \/ Switched(t) \/ NotSwitched(t) \/ SaveCurrent(t) \/ SignIn(t)
       \/ RemoveProfile(t) \/ Clear(t) \/ Reread(t) \/ Relist(t) \/ Tell(t)
       \/ Discover(t) \/ Remove(t) \/ PlanRemoval(t) \/ ForgetAccount(t) \/ ForgetHistory(t)
       \/ Archive(t) \/ Unarchive(t) \/ Forget(t) \/ Spend(t) \/ Spent(t)
  \/ Outside
  \/ Tick

Spec == Init /\ [][Next]_vars

-----------------------------------------------------------------------------
(* Once an account change of the app dropped the cache, the card it serves  *)
(* as signed in is of a login held since that change: no read that began    *)
(* before it, and no card kept across it, comes back.                       *)
NoStaleAccount ==
  cleared /\ cache # NoCache => cache.entries.current \in since \cup {NoAccount}

(* An account that was removed stays away, its history and its card, until  *)
(* it is signed in or saved again: no read or saved poll under way brings   *)
(* it back.                                                                 *)
RemovedStaysAway ==
  \A x \in gone : /\ x \notin snaps
                  /\ x \notin Shown.shown
                  /\ work # NoWork => x \notin work.entries.shown

(* No card returns that an account change or a removal took away: neither   *)
(* the former native account's nor a removed one's.                         *)
NothingStaleReturns == NoStaleAccount /\ RemovedStaysAway

(* Once every call has ended, a screen with no announcement to answer shows *)
(* the cards the cache holds and the roster beside them.                    *)
ScreenCurrent ==
  (\A t \in Thread : At(t, "idle")) /\ screen # Told /\ cache # NoCache
    => /\ screen.entries = cache.entries
       /\ screen.roster = listing.roster

(* Until it has waited, no read, forced or not, asks again for the login    *)
(* that was asked to wait, unless an account change started over.           *)
RetryHonoured ==
  [][work = NoWork /\ work' # NoWork /\ work'.native
       => ~(asked.left > 0 /\ asked.login = login)]_vars

(* The saved refresh never takes the roster back to an older vault than one *)
(* a reread has listed.                                                     *)
RefreshKeepsRereads ==
  [][\A t \in Thread : Working(t, "keeping") /\ listing' # listing /\ work' # work
       => listing'.roster >= listing.roster]_vars

(* Once every call has ended, the column lists the last vault write: each   *)
(* is reread after it is made.                                              *)
ListingCurrent ==
  (\A t \in Thread : At(t, "idle")) /\ listing.roster # 0 => listing.roster = writes
==============================================================================
