---------------------------- MODULE AccountHomes ----------------------------
(***************************************************************************)
(* accounts/homes.rs: where the login of a saved account is while another  *)
(* account is signed in.  Every read of the saved accounts first settles   *)
(* the homes: it takes back or tears down the ones no profile names, and   *)
(* moves a login the vault holds into its home, where the provider's client*)
(* renews it when it is asked for the account's usage.                     *)
(*                                                                         *)
(* One account is followed, whose logins are numbered in the order the     *)
(* issuer gave them out; all that matters of the others is whether one of  *)
(* them is signed in natively.  Left out: the provider a home records      *)
(* (every home here is of one provider), archived accounts, and a renewal  *)
(* an earlier version left unfinished.                                     *)
(*                                                                         *)
(* A definition placed just before the one whose name it extends is that   *)
(* one with a mistake in it; nothing uses it.  It stands for the bug one of*)
(* the properties rules out: with it in place, that property fails.        *)
(***************************************************************************)
EXTENDS Naturals

CONSTANTS Program,  \* running programs that read the saved accounts
          HomeId,   \* ids of homes
          MaxLogin, \* bound: logins the issuer gives out
          NoHome, NoLogin, Absent

Logins == 1..MaxLogin

ASSUME HomesAssumption ==
  /\ MaxLogin \in Nat \ {0}
  /\ NoHome \notin HomeId /\ {NoLogin, Absent} \cap Logins = {} /\ NoLogin # Absent

VARIABLES profile,     \* the account's profile
          inside,    \* what each home on disk holds
          native,    \* the account's login in the native store
          live,      \* the logins the issuer still accepts
          minted,    \* logins given out
          change,    \* how far a switch to the account has come
          retiring,  \* the home of the account just removed
          pc,        \* where each program's settle stands
          seen,      \* it found the account signed in natively
          found,     \* the homes it listed and has not looked at
          db,        \* the vault it loaded
          current,    \* the epoch is still the one of that vault
          at,        \* the home it works on
          dropped,   \* the home a version before homes made forget
          overtaken  \* one of the known races has happened

issuer    == <<live, minted>>
settling  == <<pc, seen, found, db, current, at>>
homesVars == <<profile, inside, native, issuer, change, retiring, settling, dropped, overtaken>>

Profile == [saved : BOOLEAN, login : Logins \cup {NoLogin}, home : HomeId \cup {NoHome},
            signedOut : BOOLEAN, pending : BOOLEAN, ignored : BOOLEAN]

NoProfile == [saved |-> FALSE, login |-> NoLogin, home |-> NoHome,
              signedOut |-> FALSE, pending |-> FALSE, ignored |-> FALSE]

HomesTypeOK ==
  /\ profile \in Profile /\ db \in [Program -> Profile]
  /\ inside \in [HomeId -> Logins \cup {NoLogin, Absent}]
  /\ native \in Logins \cup {NoLogin} /\ live \subseteq Logins /\ minted \in 0..MaxLogin
  /\ change \in {"none", "checked out", "emptied"}
  /\ retiring \in HomeId \cup {NoHome}
  /\ pc \in [Program -> {"idle", "list", "load", "unnamed", "take back", "check in", "put",
                         "clear", "poll", "read"}]
  /\ seen \in [Program -> BOOLEAN] /\ current \in [Program -> BOOLEAN]
  /\ found \in [Program -> SUBSET HomeId] /\ at \in [Program -> HomeId \cup {NoHome}]
  /\ dropped \in HomeId \cup {NoHome} /\ overtaken \in BOOLEAN

HomesInit ==
  /\ profile = NoProfile /\ inside = [h \in HomeId |-> Absent]
  /\ native = NoLogin /\ live = {} /\ minted = 0
  /\ change = "none" /\ retiring = NoHome
  /\ pc = [p \in Program |-> "idle"] /\ seen = [p \in Program |-> FALSE]
  /\ found = [p \in Program |-> {}] /\ db = [p \in Program |-> NoProfile]
  /\ current = [p \in Program |-> FALSE] /\ at = [p \in Program |-> NoHome]
  /\ dropped = NoHome /\ overtaken = FALSE

(* Profile::needs_login.                                                    *)
NeedsLogin(q) == q.login = NoLogin /\ q.home = NoHome

(* A login of the account that the issuer gives out, in place of another.   *)
Minted(spent) ==
  /\ minted < MaxLogin /\ minted' = minted + 1 /\ live' = (live \ spent) \cup {minted + 1}

-----------------------------------------------------------------------------
(* A read of the saved accounts holds the read guard: no switch, recovery   *)
(* or sign-out runs beside it.                                              *)
Reading  == \E p \in Program : pc[p] # "idle"
Goto(p, step) == pc' = [pc EXCEPT ![p] = step]

(* refresh_usage: the native identity is read first.                        *)
ReadNative(p) ==
  /\ pc[p] = "idle" /\ change = "none" /\ Goto(p, "list")
  /\ seen' = [seen EXCEPT ![p] = native # NoLogin]
  /\ UNCHANGED <<profile, inside, native, issuer, change, retiring, found, db, current, at, dropped, overtaken>>

(* settle: the homes on disk are listed before the vault is read, so that   *)
(* one listed and named nowhere is one nothing will use.                    *)
List(p) ==
  /\ pc[p] = "list" /\ Goto(p, "load")
  /\ found' = [found EXCEPT ![p] = {h \in HomeId : inside[h] # Absent}]
  /\ UNCHANGED <<profile, inside, native, issuer, change, retiring, seen, db, current, at, dropped, overtaken>>

Load(p) ==
  /\ pc[p] = "load" /\ Goto(p, "unnamed")
  /\ db' = [db EXCEPT ![p] = profile] /\ current' = [current EXCEPT ![p] = TRUE]
  /\ found' = [found EXCEPT ![p] = @ \ {profile.home}]
  /\ UNCHANGED <<profile, inside, native, issuer, change, retiring, seen, at, dropped, overtaken>>

(* take_back_or_tear_down: only what a saved account without any login left *)
(* in a home is taken back.                                                 *)
TakesBack(p, h) ==
  /\ inside[h] # NoLogin
  /\ db[p].saved /\ NeedsLogin(db[p]) /\ ~db[p].signedOut

Unnamed(p) ==
  /\ pc[p] = "unnamed"
  /\ IF found[p] = {} THEN Goto(p, "check in") /\ UNCHANGED <<inside, found, at>>
     ELSE \E h \in found[p] :
       /\ found' = [found EXCEPT ![p] = @ \ {h}]
       /\ \/ UNCHANGED <<pc, inside, at>>
          \/ /\ inside[h] # Absent
             /\ IF TakesBack(p, h)
                  THEN Goto(p, "take back") /\ at' = [at EXCEPT ![p] = h] /\ UNCHANGED inside
                  ELSE inside' = [inside EXCEPT ![h] = Absent] /\ UNCHANGED <<pc, at>>
  /\ UNCHANGED <<profile, native, issuer, change, retiring, seen, db, current, dropped, overtaken>>

TakeBack(p) ==
  /\ pc[p] = "take back" /\ change = "none" /\ Goto(p, "unnamed")
  /\ profile' = IF current[p] /\ profile.saved /\ NeedsLogin(profile) /\ ~profile.signedOut
                THEN [profile EXCEPT !.home = at[p]] ELSE profile
  /\ UNCHANGED <<inside, native, issuer, change, retiring, seen, found, db, current, at, dropped, overtaken>>

-----------------------------------------------------------------------------
(* check_in, in three: the home is named, filled, and only then is the      *)
(* login taken out of the vault.  What it publishes is admitted as long as  *)
(* the vault still holds the login it moves.                                *)
HoldsNothing(p) == current[p] /\ profile.saved
Holds(p) == current[p] /\ profile.saved /\ profile.login = db[p].login

MovesAny(p) == db[p].saved /\ db[p].login # NoLogin
Moves(p)    == db[p].saved /\ db[p].login # NoLogin /\ ~seen[p]

(* A fresh uuid.                                                            *)
Unused == {h \in HomeId : /\ inside[h] = Absent /\ h # profile.home /\ h # retiring
                          /\ \A p \in Program : h # at[p] /\ h \notin found[p] /\ h # db[p].home}

CheckIn(p) ==
  /\ pc[p] = "check in"
  /\ \/ ~Moves(p) /\ Goto(p, "poll") /\ UNCHANGED <<profile, at>>
     \/ /\ Moves(p) /\ db[p].home # NoHome
        /\ Goto(p, "put") /\ at' = [at EXCEPT ![p] = db[p].home] /\ UNCHANGED profile
     \/ /\ Moves(p) /\ db[p].home = NoHome
        /\ \/ /\ Holds(p)
              /\ \E h \in IF profile.home = NoHome THEN Unused ELSE {profile.home} :
                   /\ profile' = [profile EXCEPT !.home = h]
                   /\ Goto(p, "put") /\ at' = [at EXCEPT ![p] = h]
           \/ Goto(p, "poll") /\ UNCHANGED <<profile, at>>
  /\ UNCHANGED <<inside, native, issuer, change, retiring, seen, found, db, current, dropped, overtaken>>

(* The home's own login is replaced: the vault's was put there since.  That *)
(* no longer holds once another program has moved the login too, or a newer *)
(* one that it is about to take out of the vault.                           *)
MovedBefore(p) == \/ profile.saved /\ profile.login = NoLogin
                  \/ \E q \in Program : /\ pc[q] = "clear" /\ at[q] = at[p]
                                        /\ db[q].login # db[p].login

Put(p) ==
  /\ pc[p] = "put"
  /\ \/ inside' = [inside EXCEPT ![at[p]] = db[p].login]
     \/ UNCHANGED inside
  /\ \/ inside'[at[p]] = db[p].login /\ Goto(p, "clear")
     \/ Goto(p, "poll")
  /\ overtaken' = (overtaken \/ (inside' # inside /\ MovedBefore(p)))
  /\ UNCHANGED <<profile, native, issuer, change, retiring, seen, found, db, current, at, dropped>>

TakeOut(p) ==
  /\ pc[p] = "clear" /\ Goto(p, "poll")
  /\ \/ /\ Holds(p)
        /\ profile' = IF profile.home = at[p] THEN [profile EXCEPT !.login = NoLogin] ELSE profile
     \/ UNCHANGED profile
  /\ UNCHANGED <<inside, native, issuer, change, retiring, seen, found, db, current, at, dropped, overtaken>>

(* refresh_profiles and kept: only a profile without a login in the vault   *)
(* is read from its home.                                                   *)
ReadsHome(p) == profile.saved /\ ~seen[p] /\ profile.login = NoLogin /\ profile.home # NoHome

Poll(p) ==
  /\ pc[p] = "poll"
  /\ IF ReadsHome(p) THEN Goto(p, "read") /\ at' = [at EXCEPT ![p] = profile.home]
                     ELSE Goto(p, "idle") /\ at' = [at EXCEPT ![p] = NoHome]
  /\ db' = [db EXCEPT ![p] = NoProfile] /\ current' = [current EXCEPT ![p] = FALSE]
  /\ seen' = [seen EXCEPT ![p] = FALSE]
  /\ UNCHANGED <<profile, inside, native, issuer, change, retiring, found, dropped, overtaken>>

(* The home that is read holds a login the account is reached through       *)
(* elsewhere: another program put it there since, and has yet to take it out*)
(* of the vault, or has moved it on to a home of its own.                   *)
HeldTwice(p) == \/ inside[at[p]] = profile.login
                \/ profile.home \in HomeId \ {at[p]} /\ inside[profile.home] = inside[at[p]]

(* Home::read_usage runs the client, which may renew the login.             *)
HomeRead(p) ==
  /\ pc[p] = "read" /\ Goto(p, "idle") /\ at' = [at EXCEPT ![p] = NoHome]
  /\ \/ /\ inside[at[p]] \in live /\ Minted({inside[at[p]]})
        /\ inside' = [inside EXCEPT ![at[p]] = minted + 1]
        /\ overtaken' = (overtaken \/ HeldTwice(p))
     \/ UNCHANGED <<inside, issuer, overtaken>>
  /\ UNCHANGED <<profile, native, change, retiring, seen, found, db, current, dropped>>

(* The program ends, or an error ends its read.                             *)
Stop(p) ==
  /\ pc[p] # "idle" /\ Goto(p, "idle")
  /\ seen' = [seen EXCEPT ![p] = FALSE] /\ found' = [found EXCEPT ![p] = {}]
  /\ db' = [db EXCEPT ![p] = NoProfile] /\ current' = [current EXCEPT ![p] = FALSE]
  /\ at' = [at EXCEPT ![p] = NoHome]
  /\ UNCHANGED <<profile, inside, native, issuer, change, retiring, dropped, overtaken>>

-----------------------------------------------------------------------------
(* Changes of the account: they raise the sign-in epoch, and the ones under *)
(* the change guard wait for the reads to end.                              *)
Bump == current' = [p \in Program |-> FALSE]

(* use_profile with check_out: the home's login reaches the vault before    *)
(* the home is emptied.                                                     *)
CheckedOut(q) ==
  IF q.login = NoLogin THEN [q EXCEPT !.login = inside[q.home]] ELSE q

CheckOut ==
  /\ change = "none" /\ ~Reading /\ native = NoLogin /\ profile.saved
  /\ IF profile.home # NoHome /\ inside[profile.home] \in Logins
       THEN profile' = CheckedOut(profile) /\ change' = "checked out"
       ELSE profile.login # NoLogin /\ change' = "emptied" /\ UNCHANGED profile
  /\ Bump /\ UNCHANGED <<inside, native, issuer, retiring, pc, seen, found, db, at, dropped, overtaken>>

EmptyHome ==
  /\ change = "checked out" /\ change' = "emptied"
  /\ inside' = [inside EXCEPT ![profile.home] = NoLogin]
  /\ UNCHANGED <<profile, native, issuer, retiring, settling, dropped, overtaken>>

(* What a switch does when the user signs in meanwhile is AccountSwitch's.   *)
Activate ==
  /\ change = "emptied" /\ change' = "none" /\ native = NoLogin
  /\ native' = profile.login /\ profile' = [profile EXCEPT !.pending = FALSE]
  /\ UNCHANGED <<inside, issuer, retiring, settling, dropped, overtaken>>

(* The switch fails or the program ends before anything native is replaced. *)
FailUse ==
  /\ change # "none" /\ change' = "none"
  /\ UNCHANGED <<profile, inside, native, issuer, retiring, settling, dropped, overtaken>>

(* save, and the captured outgoing login of a switch to another account.    *)
Captured(q) ==
  [q EXCEPT !.saved = TRUE, !.login = native, !.pending = FALSE, !.ignored = FALSE]

SwitchAway ==
  /\ change = "none" /\ ~Reading /\ native # NoLogin
  /\ profile' = IF profile.ignored \/ profile.pending THEN profile ELSE Captured(profile)
  /\ native' = NoLogin /\ Bump
  /\ UNCHANGED <<inside, issuer, change, retiring, pc, seen, found, db, at, dropped, overtaken>>

SignOut ==
  /\ change = "none" /\ ~Reading /\ native # NoLogin
  /\ profile' = IF profile.saved
                THEN [profile EXCEPT !.login = NoLogin, !.home = NoHome, !.signedOut = TRUE]
                ELSE profile
  /\ native' = NoLogin /\ live' = live \ {native} /\ Bump
  /\ UNCHANGED <<inside, minted, change, retiring, pc, seen, found, db, at, dropped, overtaken>>

(* remember and save_current hold the read guard too, so they run beside a  *)
(* settle.  One that saves after a settle looked at the native store and    *)
(* before it loads the vault makes it take the native login for a waiting   *)
(* one.                                                                     *)
Overtakes == \E p \in Program : pc[p] \in {"list", "load"} /\ ~seen[p]

Remember ==
  /\ change = "none" /\ native # NoLogin
  /\ ~profile.ignored /\ ~profile.pending /\ profile.login # native
  /\ profile' = Captured(profile) /\ overtaken' = (overtaken \/ Overtakes)
  /\ UNCHANGED <<inside, native, issuer, change, retiring, settling, dropped>>

SaveCurrent ==
  /\ change = "none" /\ native # NoLogin /\ ~profile.pending
  /\ profile' = Captured(profile) /\ overtaken' = (overtaken \/ Overtakes) /\ Bump
  /\ UNCHANGED <<inside, native, issuer, change, retiring, pc, seen, found, db, at, dropped>>

(* publish of a sign-in.                                                    *)
SignedIn ==
  /\ change = "none" /\ Minted({}) /\ Bump
  /\ profile' = [profile EXCEPT !.saved = TRUE, !.login = minted + 1, !.home = NoHome,
                            !.pending = TRUE, !.ignored = FALSE]
  /\ UNCHANGED <<inside, native, change, retiring, pc, seen, found, db, at, dropped, overtaken>>

(* forget_account: the home goes after the vault's lease was dropped.       *)
Forget ==
  /\ change = "none" /\ profile.saved /\ retiring = NoHome /\ Bump
  /\ profile' = [NoProfile EXCEPT !.ignored = TRUE] /\ retiring' = profile.home
  /\ UNCHANGED <<inside, native, issuer, change, pc, seen, found, db, at, dropped, overtaken>>

Retire ==
  /\ retiring # NoHome /\ retiring' = NoHome
  /\ inside' = [inside EXCEPT ![retiring] = Absent] \/ UNCHANGED inside
  /\ UNCHANGED <<profile, native, issuer, change, settling, dropped, overtaken>>

-----------------------------------------------------------------------------
(* A version before homes drops the fields it does not know when it writes  *)
(* the vault.  What that does to an account already signed out, the         *)
(* documentation accepts (docs/architecture/accounts.md 133-136).  Followed *)
(* once, and only where no other home of the account is left on disk: among *)
(* several, the first one looked at is taken back, be it a stale one.       *)
OldVersion ==
  /\ change = "none" /\ profile.home # NoHome /\ dropped = NoHome
  /\ \A h \in HomeId \ {profile.home} : inside[h] = Absent
  /\ profile' = [profile EXCEPT !.home = NoHome, !.signedOut = FALSE] /\ dropped' = profile.home
  /\ UNCHANGED <<inside, native, issuer, change, retiring, settling, overtaken>>

UserSignsIn ==
  /\ Minted({}) /\ native' = minted + 1
  /\ UNCHANGED <<profile, inside, change, retiring, settling, dropped, overtaken>>

UserLeaves ==
  /\ native # NoLogin /\ native' = NoLogin
  /\ UNCHANGED <<profile, inside, issuer, change, retiring, settling, dropped, overtaken>>

ClientRenewsNative ==
  /\ native \in live /\ Minted({native}) /\ native' = minted + 1
  /\ UNCHANGED <<profile, inside, change, retiring, settling, dropped, overtaken>>

HomesNext ==
  \/ \E p \in Program :
       \/ ReadNative(p) \/ List(p) \/ Load(p) \/ Unnamed(p) \/ TakeBack(p) \/ CheckIn(p)
       \/ Put(p) \/ TakeOut(p) \/ Poll(p) \/ HomeRead(p) \/ Stop(p)
  \/ CheckOut \/ EmptyHome \/ Activate \/ FailUse \/ SwitchAway \/ SignOut
  \/ Remember \/ SaveCurrent \/ SignedIn \/ Forget \/ Retire
  \/ OldVersion \/ UserSignsIn \/ UserLeaves \/ ClientRenewsNative

HomesSpec == HomesInit /\ [][HomesNext]_homesVars

-----------------------------------------------------------------------------
(* The logins the app can come back to: the native one, and the vault's,    *)
(* or else the one in the account's home, or else what is to be taken back. *)
Reachable ==
  {native} \cup (IF profile.login # NoLogin THEN {profile.login}
                 ELSE IF profile.home # NoHome THEN {inside[profile.home]}
                 ELSE IF profile.signedOut \/ dropped = NoHome THEN {} ELSE {inside[dropped]})

Usable == profile.saved /\ Reachable \cap live # {}

(* However reads, switches, saves, crashes and versions without homes       *)
(* interleave, none of them takes a saved account's last usable login away: *)
(* only its user does, by signing out or by leaving it in a terminal, or    *)
(* one of the known races.                                                  *)
LoginKept ==
  [][Usable /\ profile'.saved /\ ~Usable' => SignOut \/ UserLeaves \/ overtaken']_homesVars

(* But for the known races, a login is never in the native store and in a   *)
(* home it is read from at once, so no two clients renew it.                *)
OneCopy ==
  profile.saved /\ profile.login = NoLogin /\ profile.home # NoHome /\ native # NoLogin =>
    inside[profile.home] # native \/ overtaken
=============================================================================
