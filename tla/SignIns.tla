------------------------------ MODULE SignIns ------------------------------
(***************************************************************************)
(* accounts/login.rs: one sign-in at a time, with the registry it reserves,*)
(* the ticket it takes from the vault before the official client runs, and *)
(* the publication that saves what the client left.  The user may cancel a *)
(* sign-in at any moment, before it started included, and may remove the   *)
(* account or change another one while it runs.                            *)
(*                                                                         *)
(* All sign-ins are of one account, to add it or to sign it in again.  Left*)
(* out: the private directory the client signs in to, and everything about *)
(* the login but whether it is saved.  A sign-in that saved its login ends *)
(* there and then; in the code it first cleans that directory.             *)
(*                                                                         *)
(* A definition placed just before the one whose name it extends is that   *)
(* one with a mistake in it; nothing uses it.  It stands for the bug one of*)
(* the properties rules out: with it in place, that property fails.        *)
(***************************************************************************)
EXTENDS Naturals, Sequences

CONSTANTS SignIn,      \* operation ids
          NoSignIn, NoTicket,
          Remembered,  \* how many early cancellations are kept: 128
          MaxEpoch,    \* bound: changes of the vault
          MaxCancels   \* bound: cancellations

ASSUME SignInsAssumption ==
  /\ NoSignIn \notin [id : SignIn, cancel : BOOLEAN]
  /\ Remembered \in Nat \ {0} /\ MaxEpoch \in Nat /\ MaxCancels \in Nat

VARIABLES active,    \* Registry.active and its cancel flag
          canceled,  \* Registry.canceled, oldest first
          stage,     \* how far each sign-in has come
          again,     \* the sign-ins of the saved profile (expected)
          ticket,    \* the login epoch each started at
          epoch,     \* Database.login_epoch
          enrolled,  \* the account has a profile
          removing,  \* a removal has cancelled the sign-in and not yet changed the vault
          cancels,
          unwanted,  \* cancelled, or begun before a removal that is over, and not published
          published

registry == <<active, canceled>>
vault    == <<epoch, enrolled>>
signVars == <<registry, stage, again, ticket, vault, removing, cancels, unwanted, published>>

SignInsTypeOK ==
  /\ active \in [id : SignIn, cancel : BOOLEAN] \cup {NoSignIn}
  /\ canceled \in Seq(SignIn) /\ Len(canceled) <= Remembered
  /\ stage \in [SignIn -> {"new", "reserved", "running", "signed in", "publishing", "over"}]
  /\ again \subseteq SignIn
  /\ ticket \in [SignIn -> 0..MaxEpoch \cup {NoTicket}]
  /\ epoch \in 0..MaxEpoch /\ enrolled \in BOOLEAN /\ removing \in BOOLEAN
  /\ cancels \in 0..MaxCancels
  /\ unwanted \subseteq SignIn /\ published \subseteq SignIn

SignInsInit ==
  /\ active = NoSignIn /\ canceled = <<>>
  /\ stage = [s \in SignIn |-> "new"] /\ ticket = [s \in SignIn |-> NoTicket]
  /\ again \in SUBSET SignIn
  /\ epoch = 0 /\ enrolled \in BOOLEAN /\ removing = FALSE /\ cancels = 0
  /\ unwanted = {} /\ published = {}

To(s, next) == stage' = [stage EXCEPT ![s] = next]

(* publish holds the vault's lease and the registry until it has saved.     *)
Publishing == \E s \in SignIn : stage[s] = "publishing"

RegistryFreeAlways == TRUE
RegistryFree       == ~Publishing
VaultFree          == ~Publishing

IsActive(s) == active # NoSignIn /\ active.id = s

-----------------------------------------------------------------------------
(* Registry::reserve.                                                       *)
Refused(s) == active # NoSignIn \/ \E i \in 1..Len(canceled) : canceled[i] = s

Reserve(s) ==
  /\ stage[s] = "new" /\ RegistryFree
  /\ IF Refused(s) THEN To(s, "over") /\ UNCHANGED active
                   ELSE To(s, "reserved") /\ active' = [id |-> s, cancel |-> FALSE]
  /\ UNCHANGED <<canceled, again, ticket, vault, removing, cancels, unwanted, published>>

(* The lease of the registry is dropped when a sign-in ends.                *)
End(s) == To(s, "over") /\ active' = IF IsActive(s) THEN NoSignIn ELSE active

(* start: the ticket is taken, and an account that is signed in again is    *)
(* still there.                                                             *)
Begin(s) ==
  /\ stage[s] = "reserved" /\ VaultFree
  /\ \/ (s \in again => enrolled) /\ To(s, "running")
          /\ ticket' = [ticket EXCEPT ![s] = epoch] /\ UNCHANGED active
     \/ RegistryFree /\ End(s) /\ UNCHANGED ticket
  /\ UNCHANGED <<canceled, again, vault, removing, cancels, unwanted, published>>

(* run_official_sign_in and prepare_login: cancelled, failed, or done.      *)
Run(s) ==
  /\ stage[s] = "running"
  /\ \/ ~active.cancel /\ To(s, "signed in") /\ UNCHANGED active
     \/ RegistryFree /\ End(s)
  /\ UNCHANGED <<canceled, again, ticket, vault, removing, cancels, unwanted, published>>

(* publish: the vault is as it was, and the sign-in still wanted.           *)
Publishable(s) ==
  /\ ticket[s] = epoch
  /\ IsActive(s) /\ ~active.cancel
  /\ s \in again => enrolled

Commit(s) ==
  /\ stage[s] = "signed in" /\ VaultFree /\ RegistryFree
  /\ IF Publishable(s) THEN To(s, "publishing") /\ UNCHANGED active ELSE End(s)
  /\ UNCHANGED <<canceled, again, ticket, vault, removing, cancels, unwanted, published>>

(* The vault is written, or cannot be; both locks are dropped.              *)
Saved(s) ==
  /\ stage[s] = "publishing" /\ End(s)
  /\ \/ /\ epoch < MaxEpoch /\ epoch' = epoch + 1
        /\ enrolled' = TRUE /\ published' = published \cup {s}
     \/ UNCHANGED <<vault, published>>
  /\ UNCHANGED <<canceled, again, ticket, removing, cancels, unwanted>>

-----------------------------------------------------------------------------
(* Registry::cancel: the running sign-in is flagged; the id of another is   *)
(* remembered, in place of the oldest.                                      *)
PushedAll(s) == Append(canceled, s)

Pushed(s) ==
  IF Len(canceled) < Remembered THEN Append(canceled, s) ELSE Append(Tail(canceled), s)

Forgotten == IF Len(canceled) < Remembered THEN {} ELSE {Head(canceled)}

Cancel(s) ==
  /\ RegistryFree /\ cancels < MaxCancels /\ cancels' = cancels + 1
  /\ IF IsActive(s)
       THEN /\ active' = [active EXCEPT !.cancel = TRUE] /\ UNCHANGED canceled
            /\ unwanted' = unwanted \cup ({s} \ published)
       ELSE /\ canceled' = Pushed(s) /\ UNCHANGED active
            /\ unwanted' = (unwanted \ {t \in Forgotten : stage[t] = "new"}) \cup ({s} \ published)
  /\ UNCHANGED <<stage, again, ticket, vault, removing, published>>

(* Accounts::remove: the sign-in of the profile is cancelled, then the      *)
(* profile goes.                                                            *)
CancelExpected ==
  /\ ~removing /\ removing' = TRUE /\ RegistryFree
  /\ active' = IF active # NoSignIn /\ active.id \in again THEN [active EXCEPT !.cancel = TRUE]
                                                          ELSE active
  /\ UNCHANGED <<canceled, stage, again, ticket, vault, cancels, unwanted, published>>

Remove ==
  /\ removing /\ removing' = FALSE /\ VaultFree
  /\ epoch < MaxEpoch /\ epoch' = epoch + 1 /\ enrolled' = FALSE
  /\ unwanted' = unwanted \cup {s \in SignIn : stage[s] \in {"running", "signed in"}}
  /\ UNCHANGED <<registry, stage, again, ticket, cancels, published>>

(* Another account change.                                                  *)
Change ==
  /\ VaultFree /\ epoch < MaxEpoch /\ epoch' = epoch + 1
  /\ UNCHANGED <<registry, stage, again, ticket, enrolled, removing, cancels, unwanted, published>>

SignInsNext ==
  \/ \E s \in SignIn : Reserve(s) \/ Begin(s) \/ Run(s) \/ Commit(s) \/ Saved(s) \/ Cancel(s)
  \/ CancelExpected \/ Remove \/ Change

SignInsSpec == SignInsInit /\ [][SignInsNext]_signVars

-----------------------------------------------------------------------------
(* Whichever way a cancellation or a removal races a sign-in, exactly one   *)
(* wins: a sign-in that was cancelled before it was published, or that was  *)
(* under way when its account was removed, is never saved.  Only a          *)
(* cancellation that came before its sign-in and was pushed out by newer    *)
(* ones is forgotten.                                                       *)
UnwantedStaysOut == unwanted \cap published = {}
==============================================================================
