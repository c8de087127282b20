--------------------------- MODULE PrivateRenewal ---------------------------
(***************************************************************************)
(* accounts/usage_renew.rs and its caller in accounts/usage.rs for one     *)
(* saved Codex profile: a login the app signed in and never gave to a      *)
(* native client is renewed by the app itself.  A refresh token is spent by*)
(* the request, so an encrypted journal says what was asked and, then, what*)
(* came back, before the vault learns of it.  Instances of the app poll the*)
(* profile concurrently, one poll of it at a time in each; account changes *)
(* hold off polls and polls hold off changes (AccountActivity), while      *)
(* sign-ins, removals, saves of a native login and the changes of another  *)
(* provider are held off by neither.                                       *)
(*                                                                         *)
(* A definition placed just before the one whose name it extends is that   *)
(* one with a mistake in it; nothing uses it.  It stands for the bug one of*)
(* the properties rules out: with it in place, that property fails.        *)
(***************************************************************************)
EXTENDS Naturals

CONSTANTS Instance,   \* running instances of the desktop app
          NoInstance, NoJournal,
          MaxGen,     \* bound: refresh tokens the issuer gives out
          MaxFaults   \* bound: crashes and failed steps

ASSUME RenewalAssumption ==
  /\ MaxGen \in Nat \ {0}
  /\ MaxFaults \in Nat
  /\ NoInstance \notin Instance

Token      == 1..MaxGen      \* refresh tokens of the account, as they are given out
NoToken    == 0
MaybeToken == Token \cup {NoToken}

(* usage_renew.rs Journal: the fingerprint of the login to renew, and the   *)
(* reply once it is whole.                                                  *)
Journal == [of : Token, next : MaybeToken]

ASSUME JournalAssumption == NoJournal \notin Journal

Profile == [saved   : BOOLEAN,
            login   : MaybeToken,
            owned   : BOOLEAN,      \* usage_renewal_owned
            pending : BOOLEAN]      \* pending_activation

VARIABLES profile,    \* the profile in vault.enc
          recovering, \* whose account change the vault's journal records
          journal,    \* usage-renewals/<profile>.enc
          lease,      \* the instance that holds usage-renewals/<profile>.lock
          polling,    \* what each instance's poll of the profile is doing
          source,     \* the login it was given to renew
          reply,      \* the login it received for it
          change,     \* a switch to the profile under way
          signedIn,   \* the provider's native login is this account's
          handed,     \* tokens a native client was ever given
          sent,       \* how often the app asked the issuer with a token
          minted,     \* tokens given out so far
          faults

poll  == <<lease, polling, source, reply>>
vault == <<profile, recovering>>
world == <<signedIn, handed, minted>>
renewalVars == <<profile, recovering, journal, lease, polling, source, reply, change,
                 signedIn, handed, sent, minted, faults>>

PollStage == {"idle", "polled", "leased", "intended", "answered", "replied", "published"}

RenewalTypeOK ==
  /\ profile \in Profile
  /\ recovering \in {"none", "own", "other"}
  /\ journal \in Journal \cup {NoJournal}
  /\ lease \in Instance \cup {NoInstance}
  /\ polling \in [Instance -> PollStage]
  /\ source \in [Instance -> MaybeToken]
  /\ reply \in [Instance -> MaybeToken]
  /\ change \in {"idle", "begun", "written"}
  /\ signedIn \in BOOLEAN
  /\ handed \subseteq Token
  /\ sent \in [Token -> Nat]
  /\ minted \in 0..MaxGen
  /\ faults \in Nat

(* A profile signed in from the app, or one saved from a native client.     *)
RenewalInit ==
  /\ \E own \in BOOLEAN :
       /\ profile = [saved |-> TRUE, login |-> 1, owned |-> own, pending |-> own]
       /\ handed = IF own THEN {} ELSE {1}
  /\ recovering = "none"
  /\ journal = NoJournal
  /\ lease = NoInstance
  /\ polling = [a \in Instance |-> "idle"]
  /\ source = [a \in Instance |-> NoToken]
  /\ reply = [a \in Instance |-> NoToken]
  /\ change = "idle"
  /\ signedIn = FALSE
  /\ sent = [t \in Token |-> 0]
  /\ minted = 1
  /\ faults = 0

Fault == faults < MaxFaults /\ faults' = faults + 1
Next1 == minted + 1
Given == minted < MaxGen /\ minted' = Next1

-----------------------------------------------------------------------------
(* store.rs check of a renewal's ticket: nothing waits for recovery, and the*)
(* vault still holds this login, still to be renewed by the app.            *)
Ticket(a) == /\ recovering = "none"
             /\ profile.login = source[a]
             /\ profile.owned

(* The journal explains the login this poll is to renew.                    *)
Begun(a) == journal # NoJournal /\ journal.of = source[a]

To(a, stage) == polling' = [polling EXCEPT ![a] = stage]

(* The poll returns; its lease, if it has it, is dropped.                   *)
Leave(a) == /\ To(a, "idle")
            /\ source' = [source EXCEPT ![a] = NoToken]
            /\ reply' = [reply EXCEPT ![a] = NoToken]
            /\ lease' = IF lease = a THEN NoInstance ELSE lease

(* A usage poll finds a login of its own that is due or was refused.  Polls *)
(* skip the account signed in natively and wait for recovery.               *)
PollAnyLogin(a) ==
  /\ polling[a] = "idle"
  /\ change = "idle"
  /\ recovering = "none"
  /\ ~signedIn
  /\ profile.owned
  /\ source' = [source EXCEPT ![a] = profile.login]
  /\ To(a, "polled")
  /\ UNCHANGED <<vault, journal, lease, reply, change, world, sent, faults>>

Poll(a) ==
  /\ polling[a] = "idle"
  /\ change = "idle"
  /\ recovering = "none"
  /\ ~signedIn
  /\ profile.owned
  /\ profile.login # NoToken
  /\ source' = [source EXCEPT ![a] = profile.login]
  /\ To(a, "polled")
  /\ UNCHANGED <<vault, journal, lease, reply, change, world, sent, faults>>

(* renew_owned, under the vault's lease: the ticket, then the profile's own *)
(* renewal lease.                                                           *)
Lease(a) ==
  /\ polling[a] = "polled"
  /\ Ticket(a)
  /\ lease = NoInstance
  /\ lease' = a
  /\ To(a, "leased")
  /\ UNCHANGED <<vault, journal, source, reply, change, world, sent, faults>>

RefuseLease(a) ==
  /\ polling[a] = "polled"
  /\ ~Ticket(a) \/ lease # NoInstance
  /\ Leave(a)
  /\ UNCHANGED <<vault, journal, change, world, sent, faults>>

(* What an earlier renewal of this login left behind: a whole reply is taken*)
(* from the journal, an unfinished one is never asked for again.            *)
AdoptNothing(a) ==
  /\ polling[a] = "leased"
  /\ Begun(a) /\ journal.next # NoToken
  /\ Leave(a)
  /\ UNCHANGED <<vault, journal, change, world, sent, faults>>

Adopt(a) ==
  /\ polling[a] = "leased"
  /\ Begun(a) /\ journal.next # NoToken
  /\ reply' = [reply EXCEPT ![a] = journal.next]
  /\ To(a, "replied")
  /\ UNCHANGED <<vault, journal, lease, source, change, world, sent, faults>>

RefuseUnfinished(a) ==
  /\ polling[a] = "leased"
  /\ Begun(a) /\ journal.next = NoToken
  /\ Leave(a)
  /\ UNCHANGED <<vault, journal, change, world, sent, faults>>

(* The intent reaches the disk before the request.                          *)
IntendUnsaved(a) ==
  /\ polling[a] = "leased"
  /\ ~Begun(a)
  /\ To(a, "intended")
  /\ UNCHANGED <<vault, journal, lease, source, reply, change, world, sent, faults>>

Intend(a) ==
  /\ polling[a] = "leased"
  /\ ~Begun(a)
  /\ journal' = [of |-> source[a], next |-> NoToken]
  /\ To(a, "intended")
  /\ UNCHANGED <<vault, lease, source, reply, change, world, sent, faults>>

Ask(a) == sent' = [sent EXCEPT ![source[a]] = @ + 1]

Request(a) ==
  /\ polling[a] = "intended"
  /\ Ask(a)
  /\ Given
  /\ reply' = [reply EXCEPT ![a] = Next1]
  /\ To(a, "answered")
  /\ UNCHANGED <<vault, journal, lease, source, change, signedIn, handed, faults>>

(* An error, or an answer that never came: whether the token is spent is    *)
(* not known.                                                               *)
LoseRequest(a) ==
  /\ polling[a] = "intended"
  /\ Ask(a)
  /\ Leave(a)
  /\ UNCHANGED <<vault, journal, change, world, faults>>

SaveReply(a) ==
  /\ polling[a] = "answered"
  /\ journal' = [of |-> source[a], next |-> reply[a]]
  /\ To(a, "replied")
  /\ UNCHANGED <<vault, lease, source, reply, change, world, sent, faults>>

(* publish, under the vault's lease and the ticket.                         *)
Publish(a) ==
  /\ polling[a] = "replied"
  /\ Ticket(a)
  /\ profile' = [profile EXCEPT !.login = reply[a]]
  /\ To(a, "published")
  /\ UNCHANGED <<recovering, journal, lease, source, reply, change, world, sent, faults>>

RefusePublishForgotten(a) ==
  /\ polling[a] = "replied"
  /\ ~Ticket(a)
  /\ journal' = NoJournal
  /\ Leave(a)
  /\ UNCHANGED <<vault, change, world, sent, faults>>

RefusePublish(a) ==
  /\ polling[a] = "replied"
  /\ ~Ticket(a)
  /\ Leave(a)
  /\ UNCHANGED <<vault, journal, change, world, sent, faults>>

Forget(a) ==
  /\ polling[a] = "published"
  /\ journal' = NoJournal
  /\ Leave(a)
  /\ UNCHANGED <<vault, change, world, sent, faults>>

(* The instance dies or a step of the poll errs: what reached the disk and  *)
(* the issuer stays.                                                        *)
Interrupt(a) ==
  /\ polling[a] # "idle"
  /\ Fault
  /\ Leave(a)
  /\ UNCHANGED <<vault, journal, change, world, sent>>

-----------------------------------------------------------------------------
(* use_profile and activate on this profile (AccountSwitch has the steps).  *)
(* activation_ready refuses a login whose renewal is not finished.          *)
ReadyBlind == TRUE

Ready == journal # NoJournal => journal.of # profile.login

BeginSwitch ==
  /\ change = "idle" /\ recovering = "none"
  /\ \A a \in Instance : polling[a] = "idle"
  /\ profile.login # NoToken
  /\ Ready
  /\ profile' = [profile EXCEPT !.owned = FALSE]
  /\ recovering' = "own"
  /\ change' = "begun"
  /\ UNCHANGED <<journal, poll, world, sent, faults>>

(* The native login read back: a token of a client's, or one it renewed     *)
(* meanwhile.                                                               *)
ClientToken(t) == \/ t \in handed /\ UNCHANGED <<handed, minted>>
                  \/ Given /\ t = Next1 /\ handed' = handed \cup {t}

(* db.save of a native login.                                               *)
SaveOver(t) == profile' = [profile EXCEPT !.login = t, !.owned = FALSE, !.pending = FALSE]

WriteNative ==
  /\ change = "begun"
  /\ handed' = handed \cup {profile.login}
  /\ signedIn' = TRUE
  /\ change' = "written"
  /\ UNCHANGED <<vault, journal, poll, sent, minted, faults>>

FinishSwitch ==
  /\ change = "written"
  /\ \E t \in Token : ClientToken(t) /\ SaveOver(t)
  /\ recovering' = "none"
  /\ change' = "idle"
  /\ UNCHANGED <<journal, poll, signedIn, sent, faults>>

(* The switch fails, or dies: its journal stays in the vault.               *)
FailSwitch ==
  /\ change # "idle"
  /\ Fault
  /\ change' = "idle"
  /\ UNCHANGED <<vault, journal, poll, world, sent>>

(* Recovery puts the previous login back, or keeps the one it finds: then   *)
(* the profile may be saved from it.                                        *)
RecoverSwitch ==
  /\ change = "idle" /\ recovering = "own"
  /\ \A a \in Instance : polling[a] = "idle"
  /\ recovering' = "none"
  /\ \/ UNCHANGED <<profile, handed, minted>>
     \/ \E t \in Token : ClientToken(t) /\ SaveOver(t)
  /\ signedIn' \in BOOLEAN
  /\ UNCHANGED <<journal, poll, change, sent, faults>>

(* sign_out of the user: the profile stays, without its login, also when    *)
(* another account of the user is the native one or the logout fails.       *)
SignOut ==
  /\ change = "idle" /\ recovering = "none"
  /\ \A a \in Instance : polling[a] = "idle"
  /\ signedIn' \in {signedIn, FALSE}
  /\ profile' = [profile EXCEPT !.login = NoToken]
  /\ UNCHANGED <<recovering, journal, poll, change, handed, sent, minted, faults>>

-----------------------------------------------------------------------------
(* Publications that polls do not hold off.                                 *)
Quiet == change = "idle" /\ recovering = "none" /\ profile.saved

SignIn ==
  /\ Quiet
  /\ Given
  /\ profile' = [profile EXCEPT !.login = Next1, !.owned = TRUE, !.pending = TRUE]
  /\ UNCHANGED <<recovering, journal, poll, change, signedIn, handed, sent, faults>>

Remove ==
  /\ Quiet
  /\ profile' = [saved |-> FALSE, login |-> NoToken, owned |-> FALSE, pending |-> FALSE]
  /\ UNCHANGED <<recovering, journal, poll, change, world, sent, faults>>

(* A native login of the account, signed in or renewed by a client, is saved*)
(* over the profile's: save_current, discovery, or the capture of a switch  *)
(* from it to another account.                                              *)
SaveNative ==
  /\ change = "idle" /\ recovering # "own" /\ profile.saved
  /\ signedIn
  /\ ~profile.pending
  /\ \E t \in Token : ClientToken(t) /\ SaveOver(t)
  /\ UNCHANGED <<recovering, journal, poll, change, signedIn, sent, faults>>

(* The change of another account: the vault has one journal for all.        *)
OtherBegins ==
  /\ change = "idle" /\ recovering = "none"
  /\ recovering' = "other"
  /\ UNCHANGED <<profile, journal, poll, change, world, sent, faults>>

OtherEnds ==
  /\ recovering = "other"
  /\ recovering' = "none"
  /\ UNCHANGED <<profile, journal, poll, change, world, sent, faults>>

(* The user signs in or out with the provider's own CLI.                    *)
UserSigns ==
  /\ signedIn' = ~signedIn
  /\ UNCHANGED <<vault, journal, poll, change, handed, sent, minted, faults>>

-----------------------------------------------------------------------------
ContinuePoll(a) ==
  \/ Lease(a) \/ RefuseLease(a) \/ Adopt(a) \/ RefuseUnfinished(a)
  \/ Intend(a) \/ Request(a) \/ LoseRequest(a) \/ SaveReply(a)
  \/ Publish(a) \/ RefusePublish(a) \/ Forget(a)
Switch == BeginSwitch \/ WriteNative \/ FinishSwitch \/ FailSwitch \/ RecoverSwitch
Others == SignOut \/ SignIn \/ Remove \/ SaveNative \/ OtherBegins \/ OtherEnds \/ UserSigns

RenewalNext ==
  \/ \E a \in Instance : Poll(a) \/ ContinuePoll(a) \/ Interrupt(a)
  \/ Switch \/ Others

RenewalSpec == RenewalInit /\ [][RenewalNext]_renewalVars

(* A poll that started returns, and the monitor's timer starts the next one.*)
RenewalFairSpec ==
  RenewalSpec /\ \A a \in Instance : WF_renewalVars(Poll(a)) /\ WF_renewalVars(ContinuePoll(a))

-----------------------------------------------------------------------------
(* The app asks the issuer with a refresh token at most once, whatever dies,*)
(* fails or polls beside it: an issuer that sees a spent token again ends   *)
(* the whole sign-in.                                                       *)
SpentOnce == \A t \in Token : sent[t] <= 1

(* A token the app has asked with is never given to a native client, nor a  *)
(* client's token asked with: a switch never signs an account in with a     *)
(* login that is dead already.                                              *)
SpentIsPrivate == \A t \in handed : sent[t] = 0

(* A whole reply leaves the journal only when the vault holds another login *)
(* than the one it renews: the reply itself, or what replaced both.         *)
Finished == journal # NoJournal /\ journal.next # NoToken

ReplyKept == [][Finished /\ journal' # journal => profile.login # journal.of]_renewalVars

(* A reply that waits in the journal reaches the vault by itself, without   *)
(* asking again, once nothing waits for recovery and while the account is   *)
(* not the native one, which is not polled.                                 *)
Waiting == Finished /\ profile.owned /\ profile.login = journal.of

ReplyPublished == Waiting ~> (~Waiting \/ recovering # "none" \/ signedIn)
=============================================================================
