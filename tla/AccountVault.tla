---------------------------- MODULE AccountVault ----------------------------
(***************************************************************************)
(* accounts/store.rs for one provider: the saved profiles and the edits    *)
(* that save, capture and remove them.  These are operators on a database  *)
(* value; the modules that extend this one say when each edit runs and     *)
(* when its result reaches the disk.                                       *)
(*                                                                         *)
(* A profile is named by its account, since the vault never holds two      *)
(* profiles of one identity.  A token stands for the refresh token a login *)
(* holds: who it signs in as and the generation the issuer gave it.  A     *)
(* login also carries the account its owner wrote beside the token         *)
(* (Claude's oauthAccount); everything on-n-off calls "identity" is read   *)
(* from that name, never from the token.  Labels, categories, dates and    *)
(* epochs are other modules' business; signed_out matters only to a home    *)
(* no profile names.                                                        *)
(***************************************************************************)
EXTENDS Naturals, FiniteSets

CONSTANTS Account,    \* subscription accounts (user and workspace) of the provider
          MaxGen,     \* bound: tokens the issuer gives out
          NoToken, NoLogin, NoAccount, NoJournal

ASSUME VaultAssumption ==
  /\ MaxGen \in Nat \ {0}
  /\ NoAccount \notin Account

Gen   == 1..MaxGen
Token == [of : Account, gen : Gen]

MaybeAccount == Account \cup {NoAccount}
MaybeToken   == Token \cup {NoToken}

Login      == [tok : Token, as : MaybeAccount]
MaybeLogin == Login \cup {NoLogin}

(* transaction.rs Recovery: the journal of an account change under way.     *)
Journal == [target : Account, outgoing : MaybeLogin]

ASSUME AbsentAssumption ==
  /\ NoToken \notin Token
  /\ NoLogin \notin Login
  /\ NoJournal \notin Journal

(* Native::identify: the account named beside a login.                      *)
IdentityOf(login) == IF login = NoLogin THEN NoAccount ELSE login.as

(* identify() answers: there is no login, or its account is named.          *)
Identifiable(login) == IF login = NoLogin THEN TRUE ELSE login.as \in Account

(* Logins are compared by their auth document alone.                        *)
TokOf(login)   == IF login = NoLogin THEN NoToken ELSE login.tok
SameAuth(l, m) == TokOf(l) = TokOf(m)

Database ==
  [saved     : SUBSET Account,               \* accounts with a profile
   login     : [Account -> MaybeLogin],      \* Profile::login
   pending   : SUBSET Account,               \* Profile::pending_activation
   owned     : SUBSET Account,               \* Profile::usage_renewal_owned
   homed     : SUBSET Account,               \* Profile::home names a home
   ignored   : SUBSET Account,               \* Database::ignored_accounts
   journal   : Journal \cup {NoJournal}]     \* Database::recovery

(* Database::save: what a new or an existing profile of the account becomes *)
(* once it holds this login; its home is left alone.                        *)
Save(db, a, login) ==
  [db EXCEPT !.saved   = @ \cup {a},
             !.login   = [@ EXCEPT ![a] = login],
             !.pending = @ \ {a},
             !.owned   = @ \ {a}]

(* Database::capture_native: a removed account is not captured, and neither *)
(* is one whose newer sign-in still waits to be used.                       *)
Capture(db, a, login) ==
  IF a \in db.ignored \/ a \in db.pending THEN db ELSE Save(db, a, login)

(* Database::remove_profile.                                                *)
RemoveProfile(db, a) ==
  [db EXCEPT !.saved     = @ \ {a},
             !.login     = [@ EXCEPT ![a] = NoLogin],
             !.pending   = @ \ {a},
             !.owned     = @ \ {a},
             !.homed     = @ \ {a},
             !.ignored   = @ \cup {a}]

Reenroll(db, a) == [db EXCEPT !.ignored = @ \ {a}]

(* The edit of a sign-in's publication (login.rs publish).                  *)
PublishSignIn(db, a, login, renewsPrivately) ==
  LET saved == Save(Reenroll(db, a), a, login)
  IN  [saved EXCEPT !.homed   = @ \ {a},
                    !.pending = @ \cup {a},
                    !.owned   = IF renewsPrivately THEN @ \cup {a} ELSE @]

(* The edit of a sign-out: every saved workspace of the signed-out user     *)
(* loses its login and its home (mod.rs sign_out).  pending_activation and  *)
(* usage_renewal_owned stay as they were.                                   *)
SignOutUser(db, workspaces) ==
  [db EXCEPT !.login = [a \in Account |-> IF a \in workspaces THEN NoLogin
                                                            ELSE db.login[a]],
             !.homed = @ \ workspaces]

BeginRecovery(db, journal) == [db EXCEPT !.journal = journal]
EndRecovery(db)            == [db EXCEPT !.journal = NoJournal]
=============================================================================
