--------------------------- MODULE AccountSwitch ---------------------------
(***************************************************************************)
(* Switching the native login of one provider: accounts/transaction.rs and *)
(* its callers in accounts/mod.rs (use, recover, sign out, save current,   *)
(* remove), homes.rs check_out, and the publications that reach the vault  *)
(* beside them.  One account change runs at a time (AccountActivity); what *)
(* it interleaves with is everything it cannot exclude: the provider's own *)
(* client renewing a login, the user signing in or out in a terminal, a    *)
(* crash, a failed read or write.                                          *)
(*                                                                         *)
(* Every step below ends at a read, a write or a persist, so each place    *)
(* where another process can act or the app can die is a state.            *)
(*                                                                         *)
(* A definition placed just before the one whose name it extends is that   *)
(* one with a mistake in it; nothing uses it.  It stands for the bug one of*)
(* the properties rules out: with it in place, that property fails.        *)
(***************************************************************************)
EXTENDS AccountVault

CONSTANTS ClaudeCode,       \* TRUE: Claude Code's store, with native locks, the
                            \* account name kept apart from the token, and homes;
                            \* FALSE: Codex's one file, which takes no lock
          StatusNamesToken, \* Claude only: `claude auth status` names the account
                            \* of the stored token (else the stored account name)
          Workspace,        \* the workspace each account belongs to
          User,             \* the user each account belongs to
          MaxFaults         \* bound: crashes and failed steps in a behaviour

ASSUME SwitchAssumption ==
  /\ ClaudeCode \in BOOLEAN
  /\ StatusNamesToken \in BOOLEAN
  /\ MaxFaults \in Nat

VARIABLES disk,     \* vault.enc
          mem,      \* the Database the running operation holds; disk's when idle
          tok,      \* native store: the credential
          label,    \* native store: the account named beside it
          home,     \* the login kept in each account's home
          live,     \* tokens the issuer still accepts
          minted,   \* generations given out so far
          pc, act,  \* the running account change: its next step and what it is
          undo,     \* its native write puts the outgoing login back
          locked,   \* it holds Claude Code's own locks
          clients,  \* a client of the provider runs
          outside,  \* the user changed the native login since the change began
          faults

store  == <<disk, mem>>
native == <<tok, label>>
issuer == <<live, minted>>
change == <<pc, act, undo, locked>>
vars == <<disk, mem, tok, label, home, live, minted, pc, act, undo, locked,
          clients, outside, faults>>

Step == {"idle", "empty", "activate", "begin", "settle", "unsettle", "label",
         "auth", "readback", "verify", "confirm", "restore", "recover",
         "reverify", "reread", "finish", "forget", "logout"}

Idle   == [op |-> "none", target |-> NoAccount]
Change == [op : {"use", "alongside", "recover", "signout"}, target : Account]

TypeOK == /\ disk \in Database
          /\ mem \in Database
          /\ tok \in MaybeToken
          /\ label \in MaybeAccount
          /\ home \in [Account -> MaybeToken]
          /\ live \subseteq Token
          /\ minted \in Nat
          /\ pc \in Step
          /\ act \in Change \cup {Idle}
          /\ undo \in BOOLEAN /\ locked \in BOOLEAN
          /\ clients \in BOOLEAN /\ outside \in BOOLEAN
          /\ faults \in Nat

First(a)        == [of |-> a, gen |-> 1]
LoginOf(t)      == [tok |-> t, as |-> t.of]

(* Accounts saved at rest: the one signed in may have a shadow in the vault,*)
(* the others wait in their homes (Claude) or in the vault (Codex).         *)
AtRest(signedIn, shadowed) ==
  LET waiting == Account \ {signedIn}
      shadow  == IF shadowed THEN Account \ waiting ELSE {}
      inVault == IF ClaudeCode THEN shadow ELSE waiting \cup shadow
  IN  [saved |-> waiting \cup shadow,
       login |-> [a \in Account |-> IF a \in inVault THEN LoginOf(First(a)) ELSE NoLogin],
       pending |-> {}, owned |-> {}, ignored |-> {},
       homed |-> IF ClaudeCode THEN waiting ELSE {},
       journal |-> NoJournal]

Init ==
  \E signedIn \in MaybeAccount, shadowed \in BOOLEAN :
        /\ disk = AtRest(signedIn, shadowed)
        /\ home = [a \in Account |-> IF a \in disk.homed THEN First(a) ELSE NoToken]
        /\ tok = IF signedIn = NoAccount THEN NoToken ELSE First(signedIn)
        /\ label = signedIn
        /\ mem = disk
        /\ live = {First(a) : a \in Account}
        /\ minted = 1
        /\ pc = "idle" /\ act = Idle
        /\ undo = FALSE /\ locked = FALSE
        /\ clients = FALSE /\ outside = FALSE
        /\ faults = 0

-----------------------------------------------------------------------------
(* Native::read.                                                            *)
Live == IF tok = NoToken THEN NoLogin ELSE [tok |-> tok, as |-> label]

(* Native::verify, which runs the provider's own client.  Claude's answers  *)
(* from what is stored; Codex's asks the issuer.                            *)
Verified ==
  /\ Live # NoLogin /\ Identifiable(Live)
  /\ IF ClaudeCode THEN StatusNamesToken => label = tok.of
                   ELSE tok \in live

Target   == act.target
Incoming == mem.login[Target]
Outgoing == mem.journal.outgoing
Writing  == IF undo THEN Outgoing ELSE Incoming

(* transaction.rs known: the journal or the target explains these bytes.    *)
KnownByIdentity(login) == IdentityOf(login) \in {IdentityOf(Outgoing), Target}

Known(login) ==
  \/ Outgoing # NoLogin /\ SameAuth(Outgoing, login)
  \/ Incoming # NoLogin /\ SameAuth(Incoming, login)

Fault == faults < MaxFaults /\ faults' = faults + 1

Begin(op, a, step) ==
  /\ act' = [op |-> op, target |-> a]
  /\ pc' = step
  /\ UNCHANGED <<undo, locked, home, native, issuer, clients, faults>>

Goto(step) == pc' = step /\ UNCHANGED <<act, undo, home, issuer, clients, outside>>

(* The operation returns: its Database and its native locks are dropped.    *)
ReturnUnreset ==
  /\ pc' = "idle" /\ act' = [act EXCEPT !.op = "none"]
  /\ undo' = FALSE /\ locked' = FALSE
  /\ mem' = disk'
  /\ UNCHANGED <<home, issuer, clients, outside>>

Return ==
  /\ pc' = "idle" /\ act' = Idle
  /\ undo' = FALSE /\ locked' = FALSE
  /\ mem' = disk'
  /\ UNCHANGED <<home, issuer, clients, outside>>

GiveUp == disk' = disk /\ Return /\ UNCHANGED <<native, faults>>

(* The next write of the native store: Claude's account name goes first.    *)
FirstWrite == IF ClaudeCode THEN "label" ELSE "auth"

-----------------------------------------------------------------------------
(* use_profile: refused while a recovery waits and, where running clients   *)
(* keep a login in memory, beside one the user did not agree to.  check_out *)
(* brings the target's login from its home into the vault, which is then    *)
(* durable; a login already in the vault is the newer of the two.           *)
CheckedOut(a) ==
  [disk EXCEPT !.login[a] = IF @ = NoLogin THEN LoginOf(home[a]) ELSE @]

BeginUse(a, alongside) ==
  /\ pc = "idle"
  /\ disk.journal = NoJournal
  /\ a \in disk.saved
  /\ alongside => ~ClaudeCode           \* the UI asks only beside blocking clients
  /\ ClaudeCode \/ alongside \/ ~clients
  /\ outside' = FALSE
  /\ LET own == a \in disk.homed /\ home[a] # NoToken
     IN  \/ /\ own
            /\ disk' = CheckedOut(a)
            /\ Begin(IF alongside THEN "alongside" ELSE "use", a, "empty")
         \/ /\ ~own
            /\ disk.login[a] # NoLogin
            /\ disk' = disk
            /\ Begin(IF alongside THEN "alongside" ELSE "use", a, "activate")
  /\ mem' = disk'

(* CheckedOut::empty, under the home's own locks.                           *)
EmptyHomeKept ==
  /\ pc = "empty"
  /\ pc' = "activate"
  /\ UNCHANGED <<store, home, native, issuer, act, undo, locked, clients, outside, faults>>

EmptyHome ==
  /\ pc = "empty"
  /\ home' = [home EXCEPT ![Target] = NoToken]
  /\ pc' = "activate"
  /\ UNCHANGED <<store, native, issuer, act, undo, locked, clients, outside, faults>>

(* activate, up to its first persist, under the native locks.               *)
AlreadyNative == IdentityOf(Live) = Target /\ Target \notin mem.pending

(* The target is signed in already: the vault takes its latest generation.  *)
RefreshSaved ==
  /\ pc = "activate"
  /\ AlreadyNative
  /\ disk' = Save(mem, Target, Live)
  /\ Return
  /\ UNCHANGED <<native, faults>>

(* A login that cannot be identified, a switch beside running clients in    *)
(* one workspace, or one beside a client about to renew, is refused.        *)
RefuseUse ==
  /\ pc = "activate"
  /\ ~AlreadyNative
  /\ \/ ~Identifiable(Live)
     \/ act.op = "alongside" /\ Live # NoLogin
  /\ GiveUp

(* capture: the outgoing login, unless it is the target's own.              *)
CapturedNever == mem

CapturedOutgoing ==
  LET outgoing == IdentityOf(Live)
  IN  IF outgoing \in {NoAccount, Target} THEN mem ELSE Capture(mem, outgoing, Live)

(* The target stops being renewed privately and the journal begins.         *)
JournallingOwned(db) ==
  BeginRecovery(db, [target |-> Target, outgoing |-> Live])

JournallingSaved(db) ==
  BeginRecovery([db EXCEPT !.owned = @ \ {Target}],
                [target |-> Target,
                 outgoing |-> IF IdentityOf(Live) \in Account THEN mem.login[IdentityOf(Live)]
                                                              ELSE NoLogin])

Journalling(db) ==
  BeginRecovery([db EXCEPT !.owned = @ \ {Target}], [target |-> Target, outgoing |-> Live])

Prepare ==
  /\ pc = "activate"
  /\ Identifiable(Live)
  /\ ~AlreadyNative
  /\ (act.op = "alongside" /\ Live # NoLogin) => Workspace[Live.as] # Workspace[Target]
  /\ mem' = Journalling(CapturedOutgoing)
  /\ locked' = ClaudeCode
  /\ Goto("begin")
  /\ UNCHANGED <<disk, native, faults>>

JournalledLate ==
  /\ pc = "begin"
  /\ disk' = disk
  /\ Goto("settle")
  /\ UNCHANGED <<mem, native, locked, faults>>

Journalled ==
  /\ pc = "begin"
  /\ disk' = mem
  /\ Goto("settle")
  /\ UNCHANGED <<mem, native, locked, faults>>

(* settle_outgoing: the native login is read again behind the journal, so a *)
(* renewal meanwhile moves into the capture and the journal.                *)
SettleBlind ==
  /\ pc = "settle"
  /\ Goto(FirstWrite)
  /\ UNCHANGED <<store, native, locked, faults>>

SettleSame ==
  /\ pc = "settle"
  /\ SameAuth(Live, Outgoing)
  /\ Goto(FirstWrite)
  /\ UNCHANGED <<store, native, locked, faults>>

SettleRenewed ==
  /\ pc = "settle"
  /\ ~SameAuth(Live, Outgoing)
  /\ Live # NoLogin /\ Identifiable(Live)
  /\ IdentityOf(Live) = IdentityOf(Outgoing)
  /\ disk' = [CapturedOutgoing EXCEPT !.journal.outgoing = Live]
  /\ mem' = disk'
  /\ Goto(FirstWrite)
  /\ UNCHANGED <<native, locked, faults>>

SettleForeign ==
  /\ pc = "settle"
  /\ \/ ~SameAuth(Live, Outgoing) /\ IdentityOf(Live) # IdentityOf(Outgoing) /\ UNCHANGED faults
     \/ Fault
  /\ Goto("unsettle")
  /\ UNCHANGED <<store, native, locked>>

(* Nothing was replaced: the journal goes again.                            *)
Unsettle ==
  /\ pc = "unsettle"
  /\ disk' = EndRecovery(mem)
  /\ Return
  /\ UNCHANGED <<native, faults>>

-----------------------------------------------------------------------------
(* Native::write_locked, forward with the incoming login and back with the  *)
(* outgoing one.                                                            *)
WriteLabel ==
  /\ pc = "label"
  /\ label' = IdentityOf(Writing)
  /\ Goto("auth")
  /\ UNCHANGED <<store, tok, locked, faults>>

WriteAuth ==
  /\ pc = "auth"
  /\ tok' = TokOf(Writing)
  /\ label' = IF ClaudeCode THEN label ELSE IdentityOf(Writing)
  /\ Goto("readback")
  /\ UNCHANGED <<store, locked, faults>>

(* What a failed forward step leads to: the previous login is put back only *)
(* while it is known to be safe beside clients, and recovered otherwise.    *)
Backout == IF act.op = "alongside" THEN "restore" ELSE "recover"

ReadBack ==
  /\ pc = "readback" /\ ~undo
  /\ Goto(IF SameAuth(Live, Incoming) THEN "verify" ELSE "restore")
  /\ locked' = FALSE
  /\ UNCHANGED <<store, native, faults>>

Verify ==
  /\ pc = "verify"
  /\ Goto(IF Verified THEN "confirm" ELSE Backout)
  /\ UNCHANGED <<store, native, locked, faults>>

Confirm ==
  /\ pc = "confirm"
  /\ IF Live # NoLogin /\ Live.as = Target
       THEN mem' = Save(mem, Target, Live) /\ Goto("finish")
       ELSE mem' = mem /\ Goto(Backout)
  /\ UNCHANGED <<disk, native, locked, faults>>

(* A forward write, readback or verification that errs: the locks go.       *)
FailForward ==
  /\ pc \in {"label", "auth", "readback", "verify", "confirm"} /\ ~undo
  /\ Fault
  /\ Goto(IF pc = "readback" THEN "restore" ELSE Backout)
  /\ locked' = FALSE
  /\ UNCHANGED <<store, native>>

(* The end of a switch and of a recovery: the journal is cleared durably.   *)
Finish ==
  /\ pc = "finish"
  /\ disk' = EndRecovery(mem)
  /\ Return
  /\ UNCHANGED <<native, faults>>

-----------------------------------------------------------------------------
(* restore_known and the known branch of recover: the outgoing login is     *)
(* written back over a native login the journal explains.                   *)
PutBack == undo' = TRUE /\ locked' = ClaudeCode /\ pc' = FirstWrite
           /\ UNCHANGED <<act, home, issuer, clients, outside, native, faults>>

Restore ==
  /\ pc = "restore"
  /\ IF IF Live = NoLogin THEN Outgoing = NoLogin ELSE Known(Live)
       THEN PutBack /\ UNCHANGED store
       ELSE GiveUp

(* mod.rs recover: needs a journal and every client closed.                 *)
BeginRecover ==
  /\ pc = "idle"
  /\ disk.journal # NoJournal
  /\ ~clients
  /\ Begin("recover", disk.journal.target, "recover")
  /\ UNCHANGED <<store, outside>>

RecoverKnown ==
  /\ pc = "recover"
  /\ Live = NoLogin \/ Known(Live)
  /\ PutBack
  /\ UNCHANGED store

(* An unknown native login is verified first, without the locks.            *)
RecoverUnknown ==
  /\ pc = "recover"
  /\ Live # NoLogin /\ ~Known(Live)
  /\ Goto("reverify")
  /\ UNCHANGED <<store, native, locked, faults>>

ReverifyBlind ==
  /\ pc = "reverify"
  /\ Goto("reread")
  /\ UNCHANGED <<store, native, locked, faults>>

Reverify ==
  /\ pc = "reverify"
  /\ Verified
  /\ Goto("reread")
  /\ UNCHANGED <<store, native, locked, faults>>

(* Then it is kept if it is the outgoing account's, saved and replaced if it*)
(* is the target's.                                                         *)
KeepNative ==
  /\ pc = "reread"
  /\ Live # NoLogin /\ Identifiable(Live)
  /\ Live.as = IdentityOf(Outgoing)
  /\ mem' = Capture(mem, Live.as, Live)
  /\ undo' = TRUE /\ locked' = ClaudeCode /\ pc' = "readback"
  /\ UNCHANGED <<disk, act, home, issuer, clients, outside, native, faults>>

SaveNative ==
  /\ pc = "reread"
  /\ Live # NoLogin
  /\ Live.as = Target /\ Live.as # IdentityOf(Outgoing)
  /\ disk' = Save(mem, Target, Live)
  /\ mem' = disk'
  /\ PutBack

(* ... and left alone, with the journal, otherwise.                         *)
RecoverRefused ==
  /\ \/ pc = "reverify" /\ ~Verified
     \/ /\ pc = "reread"
        /\ IdentityOf(Live) \notin {Target, IdentityOf(Outgoing)} \ {NoAccount}
  /\ GiveUp

(* finish: the login put back must be the outgoing account's.               *)
PutBackRead ==
  /\ pc = "readback" /\ undo
  /\ IF Identifiable(Live) /\ IdentityOf(Live) = IdentityOf(Outgoing)
       THEN /\ Goto("finish")
            /\ locked' = FALSE
            /\ UNCHANGED <<store, native, faults>>
       ELSE GiveUp

(* The app dies, or a step errs where the code only returns: what reached   *)
(* the disk and the native store stays.  A dead holder's locks expire.      *)
Interrupt ==
  /\ pc # "idle"
  /\ Fault
  /\ disk' = disk
  /\ Return
  /\ UNCHANGED native

-----------------------------------------------------------------------------
(* sign_out reads the native login before it takes the vault's lease, so a  *)
(* removal or a sign-in can still publish before the vault forgets the user.*)
BeginSignOut ==
  /\ pc = "idle"
  /\ disk.journal = NoJournal
  /\ ~clients
  /\ Live # NoLogin /\ Identifiable(Live)
  /\ outside' = FALSE
  /\ Begin("signout", Live.as, "forget")
  /\ UNCHANGED store

SameUser(a) == {b \in Account : User[b] = User[a]}

Forget ==
  /\ pc = "forget"
  /\ disk' = SignOutUser(disk, disk.saved \cap SameUser(Target))
  /\ mem' = disk'
  /\ home' = [a \in Account |-> IF a \in disk.saved \cap SameUser(Target)
                                THEN NoToken ELSE home[a]]
  /\ pc' = "logout"
  /\ UNCHANGED <<native, issuer, act, undo, locked, clients, outside, faults>>

Logout ==
  /\ pc = "logout"
  /\ tok' = NoToken
  /\ label' = NoAccount
  /\ disk' = disk
  /\ Return
  /\ UNCHANGED faults

-----------------------------------------------------------------------------
(* Publications the change guard does not exclude, or that run in between.  *)
Publish(db) ==
  /\ disk.journal = NoJournal
  /\ disk' = db
  /\ mem' = db
  /\ UNCHANGED <<native, change, clients, outside, faults>>

(* save_current, under the read guard: an explicit save of the native login.*)
SaveCurrent ==
  /\ pc = "idle"
  /\ Verified
  /\ Live.as \notin disk.pending
  /\ Publish(Save(Reenroll(disk, Live.as), Live.as, Live))
  /\ UNCHANGED <<home, issuer>>

(* discovery.rs remember, under the read guard: a native login that changed.*)
Remember ==
  /\ pc = "idle"
  /\ Verified
  /\ Live.as \notin disk.ignored \cup disk.pending
  /\ disk.login[Live.as] # Live
  /\ Publish(Save(disk, Live.as, Live))
  /\ UNCHANGED <<home, issuer>>

(* remove: the profile and, unnamed from now on, its home.                  *)
Remove(a) ==
  /\ pc \in {"idle", "forget"}
  /\ a \in disk.saved
  /\ Publish(RemoveProfile(disk, a))
  /\ home' = [home EXCEPT ![a] = NoToken]
  /\ UNCHANGED issuer

(* A token the issuer gives out, in exchange for one or for a sign-in.      *)
NextGen == minted + 1
Mint(a, spent) ==
  /\ minted < MaxGen
  /\ minted' = NextGen
  /\ live' = (live \ spent) \cup {[of |-> a, gen |-> NextGen]}

(* login.rs publish: a sign-in made in an isolated home.  A switch bumps the*)
(* epoch first, so it never publishes across one.                           *)
SignIn(a) ==
  /\ pc \in {"idle", "forget"}
  /\ Mint(a, {})
  /\ Publish(PublishSignIn(disk, a, LoginOf([of |-> a, gen |-> NextGen]), ~ClaudeCode))
  /\ home' = [home EXCEPT ![a] = NoToken]

-----------------------------------------------------------------------------
(* The world outside.  The provider's client renews the login it finds:     *)
(* Claude Code under its own locks; Codex with none, so the code settles    *)
(* the outgoing login behind the journal and asks for closed clients, or    *)
(* for a login nowhere near its renewal, when it writes beside them.        *)
ClientRenews ==
  /\ tok \in live
  /\ ~locked
  /\ \/ clients
     \/ ~ClaudeCode /\ pc \in {"verify", "reverify"}
  /\ ~ClaudeCode => /\ pc # "auth"
                    /\ ~(act.op = "alongside" /\ pc \in {"begin", "settle"})
  /\ Mint(tok.of, {tok})
  /\ tok' = [of |-> tok.of, gen |-> NextGen]
  /\ UNCHANGED <<store, label, home, change, clients, outside, faults>>

(* Claude Code renews a waiting login in its home when asked for its usage. *)
HomeRenews(a) ==
  /\ pc = "idle"
  /\ a \in disk.homed /\ disk.login[a] = NoLogin
  /\ home[a] \in live
  /\ Mint(a, {home[a]})
  /\ home' = [home EXCEPT ![a] = [of |-> a, gen |-> NextGen]]
  /\ UNCHANGED <<store, native, change, clients, outside, faults>>

Outside == outside' = (outside \/ pc # "idle" \/ disk.journal # NoJournal)

UserSignsIn(a) ==
  /\ ~locked
  /\ Mint(a, {})
  /\ tok' = [of |-> a, gen |-> NextGen]
  /\ label' = a
  /\ Outside
  /\ UNCHANGED <<store, home, change, clients, faults>>

UserSignsOut ==
  /\ ~locked
  /\ tok # NoToken
  /\ tok' = NoToken /\ label' = NoAccount
  /\ Outside
  /\ UNCHANGED <<store, home, issuer, change, clients, faults>>

ClientStarts == ~clients /\ clients' = TRUE
                /\ UNCHANGED <<store, native, home, issuer, change, outside, faults>>

ClientsClose == clients /\ clients' = FALSE
                /\ UNCHANGED <<store, native, home, issuer, change, outside, faults>>

-----------------------------------------------------------------------------
Use     == \/ \E a \in Account, alongside \in BOOLEAN : BeginUse(a, alongside)
           \/ EmptyHome \/ RefreshSaved \/ RefuseUse \/ Prepare \/ Journalled
           \/ SettleSame \/ SettleRenewed \/ SettleForeign \/ Unsettle
           \/ ReadBack \/ Verify \/ Confirm \/ FailForward
           \/ Restore
Write   == WriteLabel \/ WriteAuth \/ Finish \/ Interrupt
Recover == \/ BeginRecover \/ RecoverKnown \/ RecoverUnknown \/ Reverify
           \/ KeepNative \/ SaveNative \/ RecoverRefused
           \/ PutBackRead
SignOut == BeginSignOut \/ Forget \/ Logout
Vault   == \/ SaveCurrent \/ Remember
           \/ \E a \in Account : Remove(a) \/ SignIn(a)
World   == \/ ClientRenews \/ UserSignsOut \/ ClientStarts \/ ClientsClose
           \/ \E a \in Account : HomeRenews(a) \/ UserSignsIn(a)

Next == Use \/ Write \/ Recover \/ SignOut \/ Vault \/ World

Spec == Init /\ [][Next]_vars

-----------------------------------------------------------------------------
(* Every durable place a login can be taken from again.  A home's login is  *)
(* not one while the vault holds a login of that account, which is newer.   *)
Held == ( {tok}
          \cup {TokOf(disk.login[a]) : a \in Account}
          \cup (IF disk.journal = NoJournal THEN {} ELSE {TokOf(disk.journal.outgoing)})
          \cup {home[a] : a \in {h \in disk.homed : disk.login[h] = NoLogin}}
        ) \ {NoToken}

SwitchStep == pc' # pc /\ act.op # "signout"

(* A switch or a recovery never lets go of the last usable login of an     *)
(* account: when a step drops one the issuer still accepts, another of the  *)
(* same account remains, unless the user removed the account, or a newer    *)
(* sign-in of it waits to be used.                                          *)
AnotherRemains ==
  SwitchStep => \A t \in (Held \cap live) \ Held' :
                  \/ t.of \in disk.ignored \cup disk.pending
                  \/ \E u \in Held' \cap live' : u.of = t.of

(* Putting a login back writes over a usable login only if the vault holds  *)
(* it: a generation a client renewed in between is never written over.      *)
RestoreKeepsRenewed ==
  undo /\ tok \in live /\ pc' # pc /\ tok' # tok => tok \in {TokOf(disk.login[a]) : a \in Account}

(* Both hold whatever fails or interleaves, except once the user changed the*)
(* native login during the change.                                          *)
NoLoginLost == [][~outside => AnotherRemains /\ RestoreKeepsRenewed]_vars

(* While no account change is under way or waits for recovery, the token in *)
(* the native store and the account named beside it agree.                  *)
NativeWhole ==
  disk.journal = NoJournal /\ tok # NoToken => label = tok.of

(* A saved login signs in as the account it is saved for.                   *)
SavedUnderItsAccount ==
  \A a \in Account : disk.login[a] # NoLogin => disk.login[a].tok.of = a

(* A login the app renews by itself is in no store a client can renew from. *)
OwnedIsPrivate ==
  \A a \in disk.owned : disk.login[a] # NoLogin =>
    /\ disk.login[a].tok # tok
    /\ (disk.journal # NoJournal) => ~SameAuth(disk.login[a], disk.journal.outgoing)

(* A change left behind by a crash or a failure can be recovered: the native*)
(* login is one it wrote or replaced, or verifies as one of its two accounts.*)
(* What is left out is a half-written Claude login a client renewed.        *)
RecoveryPossible ==
  disk.journal # NoJournal /\ pc = "idle" /\ ~outside =>
    \/ tok \in {NoToken, TokOf(disk.journal.outgoing),
                TokOf(disk.login[disk.journal.target])}
    \/ label # tok.of
    \/ /\ label \in {disk.journal.target, IdentityOf(disk.journal.outgoing)}
       /\ ClaudeCode \/ tok \in live

(* Switching away from an account leaves its latest native generation saved,*)
(* unless the user removed it or a newer sign-in of it waits to be used.    *)
SwitchingAwayCaptures ==
  [][pc = "finish" /\ ~undo /\ pc' = "idle" /\ disk'.journal = NoJournal =>
       \A o \in Account \ {Target} : IdentityOf(Outgoing) = o =>
         \/ SameAuth(disk'.login[o], Outgoing)
         \/ o \in disk'.ignored
         \/ o \in disk'.pending /\ disk'.login[o] # NoLogin]_vars

(* A Claude login is in one of Claude Code's stores, never in two.          *)
OneStore == \A a \in disk.homed : home[a] # NoToken => home[a] # tok
=============================================================================
