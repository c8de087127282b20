------------------------ MODULE AccountSwitchProofs ------------------------
(***************************************************************************)
(* Proofs about AccountSwitch for any set of accounts, any number of token *)
(* generations and any number of crashes and failed steps.                 *)
(*                                                                         *)
(* That the native store is whole whenever no journal is pending needs to  *)
(* know, at every step of a change, whether the journal is on disk, which  *)
(* half of the store is written, and that every login a step can write is  *)
(* whole itself; that a saved login is its account's needs the native      *)
(* store to be whole wherever it is saved from.  So the two are proved as  *)
(* one invariant.                                                          *)
(*                                                                         *)
(* That no login is in two stores, and that a change left behind can be    *)
(* recovered, needs more (the second half): which tokens the vault, the    *)
(* homes and a journal hold that the native store does not, that every     *)
(* token kept was given out, so that a new one is nobody's, and whose      *)
(* login a step of a change is about to write.                             *)
(*                                                                         *)
(* That no login is lost (the third part) needs to know what becomes of a  *)
(* login the issuer takes no more: where such a one is in the native store,*)
(* nothing live of its account is anywhere else.                           *)
(*                                                                         *)
(* The last part is about ClaudeLocks, under which Claude's login is read  *)
(* and written, for any number of programs and any ages of the locks.      *)
(***************************************************************************)
EXTENDS AccountSwitch, ClaudeLocks, SequenceTheorems, TLAPS

(* A login whose token is that of the account named beside it.              *)
Coherent(login) == login # NoLogin => login.as = login.tok.of

SoundDatabase(db) ==
  /\ db \in Database
  /\ \A a \in Account : db.login[a] # NoLogin => db.login[a].tok.of = a /\ db.login[a].as = a
  /\ db.journal # NoJournal => Coherent(db.journal.outgoing)

Whole == tok # NoToken => label = tok.of

Basic ==
  /\ tok \in MaybeToken /\ label \in MaybeAccount
  /\ live \subseteq Token /\ minted \in Nat
  /\ pc \in Step
  /\ act \in Change \cup {Idle} /\ (pc # "idle" => act \in Change)
  /\ undo \in BOOLEAN /\ locked \in BOOLEAN
  /\ clients \in BOOLEAN /\ outside \in BOOLEAN /\ faults \in Nat

HomesSound ==
  /\ home \in [Account -> MaybeToken]
  /\ \A a \in Account : home[a] # NoToken => home[a].of = a

Unjournalled == {"empty", "activate", "forget", "logout"}
JournalSteps == Step \ (Unjournalled \cup {"idle", "begin"})
Halved       == {"label", "auth", "restore", "recover", "reverify"}

(* Where the operation's Database and the disk agree, and where the journal *)
(* is in each.                                                              *)
Phase ==
  /\ pc \in Unjournalled \cup {"idle"} => mem = disk
  /\ pc \in Unjournalled \cup {"begin"} => disk.journal = NoJournal
  /\ pc \in JournalSteps => disk.journal # NoJournal /\ mem.journal # NoJournal
  /\ pc = "begin" => mem.journal # NoJournal
  /\ pc = "label" => ClaudeCode
  /\ pc \in {"begin", "settle", "label", "auth"} => locked = ClaudeCode

(* Where the native store may be half written, and with which half.         *)
Halves ==
  /\ disk.journal = NoJournal => Whole
  /\ pc \notin Halved \cup {"idle"} => Whole
  /\ ~ClaudeCode => Whole
  /\ ClaudeCode /\ pc = "auth" => label = IdentityOf(Writing)

IInv == /\ Basic /\ HomesSound /\ Phase /\ Halves
        /\ SoundDatabase(disk) /\ SoundDatabase(mem)

-----------------------------------------------------------------------------
(* What the edits of the vault keep.                                        *)
LEMMA SaveSound ==
  ASSUME NEW db, SoundDatabase(db), NEW a \in Account,
         NEW l \in Login, l.tok.of = a, l.as = a
  PROVE  SoundDatabase(Save(db, a, l)) /\ Save(db, a, l).journal = db.journal
BY DEF SoundDatabase, Save, Database, MaybeLogin

LEMMA CaptureSound ==
  ASSUME NEW db, SoundDatabase(db), NEW a \in Account,
         NEW l \in Login, l.tok.of = a, l.as = a
  PROVE  SoundDatabase(Capture(db, a, l)) /\ Capture(db, a, l).journal = db.journal
BY SaveSound DEF Capture

LEMMA JournalSound ==
  ASSUME NEW db, SoundDatabase(db), NEW a \in Account,
         NEW l \in MaybeLogin, Coherent(l)
  PROVE  \A new : new = BeginRecovery([db EXCEPT !.owned = @ \ {a}],
                                      [target |-> a, outgoing |-> l])
                    => SoundDatabase(new) /\ new.journal # NoJournal
<1> DEFINE j == [target |-> a, outgoing |-> l]
           free == [db EXCEPT !.owned = @ \ {a}]
<1> SUFFICES ASSUME NEW new, new = BeginRecovery(free, j)
             PROVE  SoundDatabase(new) /\ new.journal # NoJournal
  OBVIOUS
<1>1. j \in Journal /\ j.outgoing = l
  BY DEF Journal
<1>2. SoundDatabase(free)
  BY DEF SoundDatabase, Database
<1> HIDE DEF j, free
<1>3. SoundDatabase([free EXCEPT !.journal = j]) /\ [free EXCEPT !.journal = j].journal = j
  BY <1>1, <1>2 DEF SoundDatabase, Database
<1>4. j # NoJournal
  BY <1>1, AbsentAssumption
<1>5. BeginRecovery(free, j) = [free EXCEPT !.journal = j]
  BY DEF BeginRecovery
<1>6. SoundDatabase(BeginRecovery(free, j)) /\ BeginRecovery(free, j).journal # NoJournal
  BY <1>3, <1>4, <1>5
<1>7. QED BY <1>6

LEMMA OutgoingSound ==
  ASSUME NEW db, SoundDatabase(db), db.journal # NoJournal,
         NEW l \in MaybeLogin, Coherent(l)
  PROVE  \A new : new = [db EXCEPT !.journal.outgoing = l]
                    => SoundDatabase(new) /\ new.journal # NoJournal
<1>1. db.journal \in Journal
  BY DEF SoundDatabase, Database
<1>2. [db.journal EXCEPT !.outgoing = l] \in Journal
      /\ [db.journal EXCEPT !.outgoing = l].outgoing = l
  BY <1>1 DEF Journal
<1> DEFINE k == [db.journal EXCEPT !.outgoing = l]
<1>3. [db EXCEPT !.journal.outgoing = l] = [db EXCEPT !.journal = k]
  OBVIOUS
<1>4. k \in Journal /\ k.outgoing = l
  BY <1>2
<1> HIDE DEF k
<1>5. SoundDatabase([db EXCEPT !.journal = k]) /\ [db EXCEPT !.journal = k].journal # NoJournal
  BY <1>4, AbsentAssumption DEF SoundDatabase, Database
<1>6. QED BY <1>3, <1>5

LEMMA EndSound ==
  ASSUME NEW db, SoundDatabase(db)
  PROVE  SoundDatabase(EndRecovery(db)) /\ EndRecovery(db).journal = NoJournal
BY DEF SoundDatabase, EndRecovery, Database

LEMMA RemoveSound ==
  ASSUME NEW db, SoundDatabase(db), NEW a \in Account
  PROVE  /\ SoundDatabase(RemoveProfile(db, a)) /\ RemoveProfile(db, a).journal = db.journal
         /\ SoundDatabase(Reenroll(db, a)) /\ Reenroll(db, a).journal = db.journal
BY DEF SoundDatabase, RemoveProfile, Reenroll, Database, MaybeLogin

LEMMA PublishSound ==
  ASSUME NEW db, SoundDatabase(db), NEW a \in Account, NEW renews \in BOOLEAN,
         NEW l \in Login, l.tok.of = a, l.as = a
  PROVE  /\ SoundDatabase(PublishSignIn(db, a, l, renews))
         /\ PublishSignIn(db, a, l, renews).journal = db.journal
<1> SUFFICES ASSUME NEW new, new = PublishSignIn(db, a, l, renews)
             PROVE  SoundDatabase(new) /\ new.journal = db.journal
  OBVIOUS
<1> DEFINE saved == Save(Reenroll(db, a), a, l)
<1>1. SoundDatabase(saved) /\ saved.journal = db.journal
  BY RemoveSound, SaveSound
<1> HIDE DEF saved
<1> DEFINE homed   == saved.homed \ {a}
           pending == saved.pending \cup {a}
           owned   == IF renews THEN saved.owned \cup {a} ELSE saved.owned
<1>2. new = [saved EXCEPT !.homed = homed, !.pending = pending, !.owned = owned]
  BY DEF PublishSignIn, saved
<1>3. homed \in SUBSET Account /\ pending \in SUBSET Account /\ owned \in SUBSET Account
  BY <1>1 DEF SoundDatabase, Database
<1> HIDE DEF homed, pending, owned
<1>4. new \in Database
  <2>1. saved \in Database
    BY <1>1 DEF SoundDatabase
  <2>2. [saved EXCEPT !.homed = homed] \in Database
    BY <1>3, <2>1 DEF Database
  <2> DEFINE waiting == [saved EXCEPT !.homed = homed, !.pending = pending]
  <2>3. waiting \in Database
    BY <1>3, <2>2 DEF Database
  <2>4. new = [waiting EXCEPT !.owned = owned]
    BY <1>2
  <2> HIDE DEF waiting
  <2>5. QED
    BY <1>3, <2>3, <2>4 DEF Database
<1>5. new.login = saved.login /\ new.journal = saved.journal
  BY <1>1, <1>2 DEF SoundDatabase, Database
<1>6. QED BY <1>1, <1>4, <1>5 DEF SoundDatabase

LEMMA SignOutSound ==
  ASSUME NEW db, SoundDatabase(db), NEW W \in SUBSET Account
  PROVE  SoundDatabase(SignOutUser(db, W)) /\ SignOutUser(db, W).journal = db.journal
BY DEF SoundDatabase, SignOutUser, Database, MaybeLogin

-----------------------------------------------------------------------------
(* What the steps read.                                                     *)
LEMMA LiveSound ==
  ASSUME IInv
  PROVE  /\ Live \in MaybeLogin
         /\ Live # NoLogin <=> tok # NoToken
         /\ TokOf(Live) = tok
         /\ Live # NoLogin => Live.tok = tok /\ Live.as = label
         /\ Whole => Coherent(Live)
BY AbsentAssumption DEF IInv, Basic, Live, MaybeLogin, Login, MaybeToken, MaybeAccount,
                        TokOf, Whole, Coherent

LEMMA LoginSound ==
  ASSUME NEW db, SoundDatabase(db), NEW a \in Account
  PROVE  /\ db.login[a] \in MaybeLogin
         /\ Coherent(db.login[a])
         /\ db.login[a] # NoLogin => /\ db.login[a] \in Login
                                     /\ db.login[a].tok.of = a
                                     /\ db.login[a].as = a
         /\ db.journal # NoJournal => /\ db.journal.target \in Account
                                      /\ db.journal.outgoing \in MaybeLogin
                                      /\ Coherent(db.journal.outgoing)
BY DEF SoundDatabase, Database, MaybeLogin, Coherent, Journal

LEMMA TargetSound == IInv /\ pc # "idle" => Target \in Account
BY DEF IInv, Basic, Target, Change

LEMMA WritingSound ==
  ASSUME IInv, pc \in {"label", "auth"}
  PROVE  /\ Writing \in MaybeLogin
         /\ Coherent(Writing)
         /\ TokOf(Writing) \in MaybeToken
         /\ IdentityOf(Writing) \in MaybeAccount
         /\ TokOf(Writing) # NoToken => IdentityOf(Writing) = TokOf(Writing).of
<1>1. Target \in Account
  BY TargetSound
<1>2. mem.journal # NoJournal /\ SoundDatabase(mem)
  BY DEF IInv, Phase, JournalSteps, Step, Unjournalled
<1>3. Writing \in MaybeLogin /\ Coherent(Writing)
  BY <1>1, <1>2, LoginSound DEF Writing, Incoming, Outgoing
<1>4. QED
  BY <1>3, AbsentAssumption DEF Coherent, TokOf, IdentityOf, MaybeLogin, Login, MaybeToken,
                                MaybeAccount

LEMMA FirstSound ==
  ASSUME NEW a \in Account, NEW t \in Token, t.of = a
  PROVE  LoginOf(t) \in Login /\ LoginOf(t).tok.of = a /\ LoginOf(t).as = a
BY DEF LoginOf, Login, MaybeAccount, Token

LEMMA NativeSound ==
  ASSUME IInv, Whole, Live # NoLogin, Identifiable(Live)
  PROVE  Live \in Login /\ Live.as \in Account /\ Live.tok.of = Live.as
BY LiveSound DEF Identifiable, Coherent, MaybeLogin

-----------------------------------------------------------------------------
LEMMA QuietSteps ==
  ASSUME IInv, ClaudeCode => StatusNamesToken
  PROVE  (\/ RefuseUse \/ SettleSame \/ SettleForeign \/ ReadBack \/ Verify \/ FailForward \/ Restore \/ BeginRecover \/ RecoverKnown \/ RecoverUnknown \/ Reverify \/ RecoverRefused \/ PutBackRead \/ Interrupt \/ BeginSignOut \/ ClientStarts \/ ClientsClose) => IInv'
<1>1. CASE RefuseUse
  BY <1>1 DEF RefuseUse, IInv, Basic, HomesSound, Phase, Halves, Whole, Unjournalled, JournalSteps, Halved, Step, Change, Idle, store, native, issuer, change, Goto, Return, GiveUp, Fault, Begin, PutBack, FirstWrite, Backout, Writing, Outgoing, Incoming, Target
<1>2. CASE SettleSame
  BY <1>2 DEF SettleSame, IInv, Basic, HomesSound, Phase, Halves, Whole, Unjournalled, JournalSteps, Halved, Step, Change, Idle, store, native, issuer, change, Goto, Return, GiveUp, Fault, Begin, PutBack, FirstWrite, Backout, Writing, Outgoing, Incoming, Target
<1>3. CASE SettleForeign
  BY <1>3 DEF SettleForeign, IInv, Basic, HomesSound, Phase, Halves, Whole, Unjournalled, JournalSteps, Halved, Step, Change, Idle, store, native, issuer, change, Goto, Return, GiveUp, Fault, Begin, PutBack, FirstWrite, Backout, Writing, Outgoing, Incoming, Target
<1>4. CASE ReadBack
  BY <1>4 DEF ReadBack, IInv, Basic, HomesSound, Phase, Halves, Whole, Unjournalled, JournalSteps, Halved, Step, Change, Idle, store, native, issuer, change, Goto, Return, GiveUp, Fault, Begin, PutBack, FirstWrite, Backout, Writing, Outgoing, Incoming, Target
<1>5. CASE Verify
  BY <1>5 DEF Verify, IInv, Basic, HomesSound, Phase, Halves, Whole, Unjournalled, JournalSteps, Halved, Step, Change, Idle, store, native, issuer, change, Goto, Return, GiveUp, Fault, Begin, PutBack, FirstWrite, Backout, Writing, Outgoing, Incoming, Target
<1>6. CASE FailForward
  <2>1. Basic'
    <3>1. faults' \in Nat
      BY <1>6 DEF FailForward, Fault, IInv, Basic
    <3>2. QED BY <1>6, <3>1 DEF FailForward, Goto, Backout, IInv, Basic, Step, Change, Idle, issuer, native
  <2>2. HomesSound'
    BY <1>6 DEF FailForward, Goto, Fault, FirstWrite, Backout, IInv, HomesSound, issuer, native, change, store
  <2>3. Phase'
    BY <1>6, SwitchAssumption DEF FailForward, Goto, Fault, FirstWrite, Backout, IInv, Basic, Phase, Unjournalled, JournalSteps, Step, issuer, native, change, store
  <2>4. Halves'
    BY <1>6, SwitchAssumption DEF FailForward, Goto, Fault, FirstWrite, Backout, IInv, Basic, Phase, Unjournalled, JournalSteps, Step, Halves, Whole, Halved, Writing, Outgoing, Incoming, Target, issuer, native, change, store
  <2>5. SoundDatabase(disk)' /\ SoundDatabase(mem)'
    BY <1>6 DEF FailForward, Goto, Fault, FirstWrite, Backout, IInv, issuer, native, change, store
  <2>6. QED BY <2>1, <2>2, <2>3, <2>4, <2>5 DEF IInv
<1>7. CASE Restore
  <2>1. Basic'
    BY <1>7, SwitchAssumption DEF Restore, GiveUp, Return, PutBack, FirstWrite, IInv, Basic, Step, Change, Idle, issuer, native, change, store
  <2>2. HomesSound'
    BY <1>7 DEF Restore, GiveUp, Return, PutBack, FirstWrite, IInv, HomesSound, issuer, native, change, store
  <2>3. Phase'
    BY <1>7, SwitchAssumption DEF Restore, GiveUp, Return, PutBack, FirstWrite, IInv, Basic, Phase, Unjournalled, JournalSteps, Step, issuer, native, change, store
  <2>4. Halves'
    BY <1>7, SwitchAssumption DEF Restore, GiveUp, Return, PutBack, FirstWrite, IInv, Basic, Phase, Unjournalled, JournalSteps, Step, Halves, Whole, Halved, Writing, Outgoing, Incoming, Target, issuer, native, change, store
  <2>5. SoundDatabase(disk)' /\ SoundDatabase(mem)'
    BY <1>7 DEF Restore, GiveUp, Return, PutBack, FirstWrite, IInv, issuer, native, change, store
  <2>6. QED BY <2>1, <2>2, <2>3, <2>4, <2>5 DEF IInv
<1>8. CASE BeginRecover
  <2>0. disk.journal.target \in Account
    BY <1>8, LoginSound DEF BeginRecover, IInv, SoundDatabase, Database, Journal
  <2>1. Basic'
    BY <1>8, SwitchAssumption, <2>0 DEF BeginRecover, Begin, IInv, Basic, Step, Change, Idle, issuer, native, change, store
  <2>2. HomesSound'
    BY <1>8, <2>0 DEF BeginRecover, Begin, IInv, HomesSound, issuer, native, change, store
  <2>3. Phase'
    BY <1>8, SwitchAssumption, <2>0 DEF BeginRecover, Begin, IInv, Basic, Phase, Unjournalled, JournalSteps, Step, issuer, native, change, store
  <2>4. Halves'
    BY <1>8, SwitchAssumption, <2>0 DEF BeginRecover, Begin, IInv, Basic, Phase, Unjournalled, JournalSteps, Step, Halves, Whole, Halved, Writing, Outgoing, Incoming, Target, issuer, native, change, store
  <2>5. SoundDatabase(disk)' /\ SoundDatabase(mem)'
    BY <1>8, <2>0 DEF BeginRecover, Begin, IInv, issuer, native, change, store
  <2>6. QED BY <2>1, <2>2, <2>3, <2>4, <2>5 DEF IInv
<1>9. CASE RecoverKnown
  <2>1. Basic'
    BY <1>9, SwitchAssumption DEF RecoverKnown, PutBack, FirstWrite, IInv, Basic, Step, Change, Idle, issuer, native, change, store
  <2>2. HomesSound'
    BY <1>9 DEF RecoverKnown, PutBack, FirstWrite, IInv, HomesSound, issuer, native, change, store
  <2>3. Phase'
    BY <1>9, SwitchAssumption DEF RecoverKnown, PutBack, FirstWrite, IInv, Basic, Phase, Unjournalled, JournalSteps, Step, issuer, native, change, store
  <2>4. Halves'
    BY <1>9, SwitchAssumption DEF RecoverKnown, PutBack, FirstWrite, IInv, Basic, Phase, Unjournalled, JournalSteps, Step, Halves, Whole, Halved, Writing, Outgoing, Incoming, Target, issuer, native, change, store
  <2>5. SoundDatabase(disk)' /\ SoundDatabase(mem)'
    BY <1>9 DEF RecoverKnown, PutBack, FirstWrite, IInv, issuer, native, change, store
  <2>6. QED BY <2>1, <2>2, <2>3, <2>4, <2>5 DEF IInv
<1>10. CASE RecoverUnknown
  BY <1>10 DEF RecoverUnknown, IInv, Basic, HomesSound, Phase, Halves, Whole, Unjournalled, JournalSteps, Halved, Step, Change, Idle, store, native, issuer, change, Goto, Return, GiveUp, Fault, Begin, PutBack, FirstWrite, Backout, Writing, Outgoing, Incoming, Target
<1>11. CASE Reverify
  <2>1. Basic'
    BY <1>11, SwitchAssumption DEF Reverify, Goto, Verified, Live, IInv, Basic, Step, Change, Idle, issuer, native, change, store
  <2>2. HomesSound'
    BY <1>11 DEF Reverify, Goto, Verified, Live, IInv, HomesSound, issuer, native, change, store
  <2>3. Phase'
    BY <1>11, SwitchAssumption DEF Reverify, Goto, Verified, Live, IInv, Basic, Phase, Unjournalled, JournalSteps, Step, issuer, native, change, store
  <2>4. Halves'
    BY <1>11, SwitchAssumption DEF Reverify, Goto, Verified, Live, IInv, Basic, Phase, Unjournalled, JournalSteps, Step, Halves, Whole, Halved, Writing, Outgoing, Incoming, Target, issuer, native, change, store
  <2>5. SoundDatabase(disk)' /\ SoundDatabase(mem)'
    BY <1>11 DEF Reverify, Goto, Verified, Live, IInv, issuer, native, change, store
  <2>6. QED BY <2>1, <2>2, <2>3, <2>4, <2>5 DEF IInv
<1>12. CASE RecoverRefused
  BY <1>12 DEF RecoverRefused, IInv, Basic, HomesSound, Phase, Halves, Whole, Unjournalled, JournalSteps, Halved, Step, Change, Idle, store, native, issuer, change, Goto, Return, GiveUp, Fault, Begin, PutBack, FirstWrite, Backout, Writing, Outgoing, Incoming, Target
<1>13. CASE PutBackRead
  BY <1>13 DEF PutBackRead, IInv, Basic, HomesSound, Phase, Halves, Whole, Unjournalled, JournalSteps, Halved, Step, Change, Idle, store, native, issuer, change, Goto, Return, GiveUp, Fault, Begin, PutBack, FirstWrite, Backout, Writing, Outgoing, Incoming, Target
<1>14. CASE Interrupt
  <2>1. Basic'
    <3>1. faults' \in Nat
      BY <1>14 DEF Interrupt, Fault, IInv, Basic
    <3>2. QED BY <1>14, <3>1 DEF Interrupt, Return, IInv, Basic, Step, Change, Idle, issuer, native
  <2>2. HomesSound'
    BY <1>14 DEF Interrupt, Fault, Return, IInv, HomesSound, issuer, native, change, store
  <2>3. Phase'
    BY <1>14, SwitchAssumption DEF Interrupt, Fault, Return, IInv, Basic, Phase, Unjournalled, JournalSteps, Step, issuer, native, change, store
  <2>4. Halves'
    BY <1>14, SwitchAssumption DEF Interrupt, Fault, Return, IInv, Basic, Phase, Unjournalled, JournalSteps, Step, Halves, Whole, Halved, Writing, Outgoing, Incoming, Target, issuer, native, change, store
  <2>5. SoundDatabase(disk)' /\ SoundDatabase(mem)'
    BY <1>14 DEF Interrupt, Fault, Return, IInv, issuer, native, change, store
  <2>6. QED BY <2>1, <2>2, <2>3, <2>4, <2>5 DEF IInv
<1>15. CASE BeginSignOut
  <2>1. Basic'
    BY <1>15, SwitchAssumption DEF BeginSignOut, Begin, Identifiable, Live, IInv, Basic, Step, Change, Idle, issuer, native, change, store
  <2>2. HomesSound'
    BY <1>15 DEF BeginSignOut, Begin, Identifiable, Live, IInv, HomesSound, issuer, native, change, store
  <2>3. Phase'
    BY <1>15, SwitchAssumption DEF BeginSignOut, Begin, Identifiable, Live, IInv, Basic, Phase, Unjournalled, JournalSteps, Step, issuer, native, change, store
  <2>4. Halves'
    BY <1>15, SwitchAssumption DEF BeginSignOut, Begin, Identifiable, Live, IInv, Basic, Phase, Unjournalled, JournalSteps, Step, Halves, Whole, Halved, Writing, Outgoing, Incoming, Target, issuer, native, change, store
  <2>5. SoundDatabase(disk)' /\ SoundDatabase(mem)'
    BY <1>15 DEF BeginSignOut, Begin, Identifiable, Live, IInv, issuer, native, change, store
  <2>6. QED BY <2>1, <2>2, <2>3, <2>4, <2>5 DEF IInv
<1>16. CASE ClientStarts
  BY <1>16 DEF ClientStarts, IInv, Basic, HomesSound, Phase, Halves, Whole, Unjournalled, JournalSteps, Halved, Step, Change, Idle, store, native, issuer, change, Goto, Return, GiveUp, Fault, Begin, PutBack, FirstWrite, Backout, Writing, Outgoing, Incoming, Target
<1>17. CASE ClientsClose
  BY <1>17 DEF ClientsClose, IInv, Basic, HomesSound, Phase, Halves, Whole, Unjournalled, JournalSteps, Halved, Step, Change, Idle, store, native, issuer, change, Goto, Return, GiveUp, Fault, Begin, PutBack, FirstWrite, Backout, Writing, Outgoing, Incoming, Target
<1>99. QED BY <1>1, <1>2, <1>3, <1>4, <1>5, <1>6, <1>7, <1>8, <1>9, <1>10, <1>11, <1>12, <1>13, <1>14, <1>15, <1>16, <1>17

LEMMA SwitchSteps ==
  ASSUME IInv, ClaudeCode => StatusNamesToken
  PROVE  (\/ EmptyHome \/ RefreshSaved \/ Journalled \/ SettleRenewed \/ Unsettle \/ Confirm \/ Finish) => IInv'
<1>1. CASE EmptyHome
  <2>1. Basic'
    BY <1>1, SwitchAssumption DEF EmptyHome, IInv, Basic, Step, Change, Idle, issuer, native, change, store
  <2>2. HomesSound'
    BY <1>1 DEF EmptyHome, IInv, HomesSound, MaybeToken
  <2>3. Phase'
    BY <1>1, SwitchAssumption DEF EmptyHome, IInv, Basic, Phase, Unjournalled, JournalSteps, Step, issuer, native, change, store
  <2>4. Halves'
    BY <1>1, SwitchAssumption DEF EmptyHome, IInv, Basic, Phase, Unjournalled, JournalSteps, Step, Halves, Whole, Halved, Writing, Outgoing, Incoming, Target, issuer, native, change, store
  <2>5. SoundDatabase(disk)' /\ SoundDatabase(mem)'
    BY <1>1, SwitchAssumption DEF EmptyHome, IInv, issuer, native, change, store
  <2>6. QED BY <2>1, <2>2, <2>3, <2>4, <2>5 DEF IInv
<1>2. CASE RefreshSaved
  <2>0. SoundDatabase(disk') /\ mem' = disk' /\ disk'.journal = NoJournal
    <3>1. Target \in Account /\ Whole /\ mem.journal = NoJournal
      BY <1>2, TargetSound DEF RefreshSaved, IInv, Phase, Halves, Unjournalled, Halved
    <3>2. Live # NoLogin /\ Identifiable(Live) /\ Live.as = Target
      BY <1>2, <3>1, SwitchAssumption, VaultAssumption DEF RefreshSaved, AlreadyNative, IdentityOf, Identifiable
    <3>3. QED BY <1>2, <3>1, <3>2, NativeSound, SaveSound DEF RefreshSaved, Return, IInv
  <2>1. Basic'
    BY <1>2, SwitchAssumption DEF RefreshSaved, Return, IInv, Basic, Step, Change, Idle, issuer, native, change, store
  <2>2. HomesSound'
    BY <1>2, SwitchAssumption DEF RefreshSaved, Return, IInv, HomesSound, issuer, native, change, store
  <2>3. Phase'
    BY <1>2, SwitchAssumption, <2>0 DEF RefreshSaved, Return, IInv, Basic, Phase, Unjournalled, JournalSteps, Step, issuer, native, change, store
  <2>4. Halves'
    BY <1>2, SwitchAssumption, <2>0 DEF RefreshSaved, Return, IInv, Basic, Phase, Unjournalled, JournalSteps, Step, Halves, Whole, Halved, Writing, Outgoing, Incoming, Target, issuer, native, change, store
  <2>5. SoundDatabase(disk)' /\ SoundDatabase(mem)'
    BY <1>2, SwitchAssumption, <2>0 DEF RefreshSaved, Return, IInv, issuer, native, change, store
  <2>6. QED BY <2>1, <2>2, <2>3, <2>4, <2>5 DEF IInv
<1>3. CASE Journalled
  <2>1. Basic'
    BY <1>3, SwitchAssumption DEF Journalled, Goto, IInv, Basic, Step, Change, Idle, issuer, native, change, store
  <2>2. HomesSound'
    BY <1>3, SwitchAssumption DEF Journalled, Goto, IInv, HomesSound, issuer, native, change, store
  <2>3. Phase'
    BY <1>3, SwitchAssumption DEF Journalled, Goto, IInv, Basic, Phase, Unjournalled, JournalSteps, Step, issuer, native, change, store
  <2>4. Halves'
    BY <1>3, SwitchAssumption DEF Journalled, Goto, IInv, Basic, Phase, Unjournalled, JournalSteps, Step, Halves, Whole, Halved, Writing, Outgoing, Incoming, Target, issuer, native, change, store
  <2>5. SoundDatabase(disk)' /\ SoundDatabase(mem)'
    BY <1>3, SwitchAssumption DEF Journalled, Goto, IInv, issuer, native, change, store
  <2>6. QED BY <2>1, <2>2, <2>3, <2>4, <2>5 DEF IInv
<1>4. CASE SettleRenewed
  <2>0. SoundDatabase(disk') /\ mem' = disk' /\ disk'.journal # NoJournal
    <3>1. Whole /\ mem.journal # NoJournal /\ SoundDatabase(mem)
      BY <1>4 DEF SettleRenewed, IInv, Phase, Halves, Unjournalled, Halved, JournalSteps, Step
    <3>2. Live \in Login /\ Live.as \in Account /\ Live.tok.of = Live.as
      BY <1>4, <3>1, NativeSound DEF SettleRenewed
    <3>3. SoundDatabase(CapturedOutgoing) /\ CapturedOutgoing.journal = mem.journal
      BY <1>4, <3>1, <3>2, CaptureSound DEF SettleRenewed, CapturedOutgoing, IdentityOf
    <3>4. QED BY <1>4, <3>1, <3>2, <3>3, OutgoingSound DEF SettleRenewed, Coherent, MaybeLogin
  <2>1. Basic'
    BY <1>4, SwitchAssumption DEF SettleRenewed, Goto, FirstWrite, IInv, Basic, Step, Change, Idle, issuer, native, change, store
  <2>2. HomesSound'
    BY <1>4, SwitchAssumption DEF SettleRenewed, Goto, FirstWrite, IInv, HomesSound, issuer, native, change, store
  <2>3. Phase'
    BY <1>4, SwitchAssumption, <2>0 DEF SettleRenewed, Goto, FirstWrite, IInv, Basic, Phase, Unjournalled, JournalSteps, Step, issuer, native, change, store
  <2>4. Halves'
    BY <1>4, SwitchAssumption, <2>0 DEF SettleRenewed, Goto, FirstWrite, IInv, Basic, Phase, Unjournalled, JournalSteps, Step, Halves, Whole, Halved, Writing, Outgoing, Incoming, Target, issuer, native, change, store
  <2>5. SoundDatabase(disk)' /\ SoundDatabase(mem)'
    BY <1>4, SwitchAssumption, <2>0 DEF SettleRenewed, Goto, FirstWrite, IInv, issuer, native, change, store
  <2>6. QED BY <2>1, <2>2, <2>3, <2>4, <2>5 DEF IInv
<1>5. CASE Unsettle
  <2>1. Basic'
    BY <1>5, SwitchAssumption DEF Unsettle, Return, IInv, Basic, Step, Change, Idle, issuer, native, change, store
  <2>2. HomesSound'
    BY <1>5, SwitchAssumption DEF Unsettle, Return, IInv, HomesSound, issuer, native, change, store
  <2>3. Phase'
    BY <1>5, SwitchAssumption, EndSound DEF Unsettle, Return, IInv, Basic, Phase, Unjournalled, JournalSteps, Step, issuer, native, change, store
  <2>4. Halves'
    BY <1>5, SwitchAssumption, EndSound DEF Unsettle, Return, IInv, Basic, Phase, Unjournalled, JournalSteps, Step, Halves, Whole, Halved, Writing, Outgoing, Incoming, Target, issuer, native, change, store
  <2>5. SoundDatabase(disk)' /\ SoundDatabase(mem)'
    BY <1>5, SwitchAssumption, EndSound DEF Unsettle, Return, IInv, issuer, native, change, store
  <2>6. QED BY <2>1, <2>2, <2>3, <2>4, <2>5 DEF IInv
<1>6. CASE Confirm
  <2>0. SoundDatabase(mem') /\ mem'.journal = mem.journal
    <3>1. Whole /\ Target \in Account /\ SoundDatabase(mem)
      BY <1>6, TargetSound DEF Confirm, IInv, Phase, Halves, Halved
    <3>2. CASE Live # NoLogin /\ Live.as = Target
      <4>1. Live \in Login /\ Live.tok.of = Target
        BY <3>1, <3>2, NativeSound DEF Identifiable
      <4>2. QED BY <1>6, <3>1, <3>2, <4>1, SaveSound DEF Confirm
    <3>3. CASE ~(Live # NoLogin /\ Live.as = Target)
      BY <1>6, <3>1, <3>3 DEF Confirm
    <3>4. QED BY <3>2, <3>3
  <2>1. Basic'
    BY <1>6, SwitchAssumption DEF Confirm, Goto, Backout, IInv, Basic, Step, Change, Idle, issuer, native, change, store
  <2>2. HomesSound'
    BY <1>6, SwitchAssumption DEF Confirm, Goto, Backout, IInv, HomesSound, issuer, native, change, store
  <2>3. Phase'
    BY <1>6, SwitchAssumption, <2>0 DEF Confirm, Goto, Backout, IInv, Basic, Phase, Unjournalled, JournalSteps, Step, issuer, native, change, store
  <2>4. Halves'
    BY <1>6, SwitchAssumption DEF Confirm, Goto, Backout, IInv, Basic, Phase, Unjournalled, JournalSteps, Step, Halves, Whole, Halved, Writing, Outgoing, Incoming, Target, issuer, native, change, store
  <2>5. SoundDatabase(disk)' /\ SoundDatabase(mem)'
    BY <1>6, SwitchAssumption, <2>0 DEF Confirm, Goto, Backout, IInv, issuer, native, change, store
  <2>6. QED BY <2>1, <2>2, <2>3, <2>4, <2>5 DEF IInv
<1>7. CASE Finish
  <2>1. Basic'
    BY <1>7, SwitchAssumption DEF Finish, Return, IInv, Basic, Step, Change, Idle, issuer, native, change, store
  <2>2. HomesSound'
    BY <1>7, SwitchAssumption DEF Finish, Return, IInv, HomesSound, issuer, native, change, store
  <2>3. Phase'
    BY <1>7, SwitchAssumption, EndSound DEF Finish, Return, IInv, Basic, Phase, Unjournalled, JournalSteps, Step, issuer, native, change, store
  <2>4. Halves'
    BY <1>7, SwitchAssumption, EndSound DEF Finish, Return, IInv, Basic, Phase, Unjournalled, JournalSteps, Step, Halves, Whole, Halved, Writing, Outgoing, Incoming, Target, issuer, native, change, store
  <2>5. SoundDatabase(disk)' /\ SoundDatabase(mem)'
    BY <1>7, SwitchAssumption, EndSound DEF Finish, Return, IInv, issuer, native, change, store
  <2>6. QED BY <2>1, <2>2, <2>3, <2>4, <2>5 DEF IInv
<1>99. QED BY <1>1, <1>2, <1>3, <1>4, <1>5, <1>6, <1>7

LEMMA WriteSteps ==
  ASSUME IInv, ClaudeCode => StatusNamesToken
  PROVE  (\/ Prepare \/ WriteLabel \/ WriteAuth \/ KeepNative \/ SaveNative \/ Forget \/ Logout) => IInv'
<1>1. CASE Prepare
  <2>0. SoundDatabase(mem') /\ mem'.journal # NoJournal
    <3>1. Whole /\ Target \in Account /\ SoundDatabase(mem)
      BY <1>1, TargetSound DEF Prepare, IInv, Phase, Halves, Unjournalled, Halved
    <3>2. SoundDatabase(CapturedOutgoing)
      <4>1. CASE IdentityOf(Live) \in {NoAccount, Target}
        BY <3>1, <4>1 DEF CapturedOutgoing
      <4>2. CASE IdentityOf(Live) \notin {NoAccount, Target}
        <5>1. Live # NoLogin
          BY <4>2 DEF IdentityOf
        <5>2. Live \in Login /\ Live.as \in Account /\ Live.tok.of = Live.as
          BY <1>1, <3>1, <5>1, NativeSound DEF Prepare
        <5>3. QED BY <3>1, <4>2, <5>1, <5>2, CaptureSound DEF CapturedOutgoing, IdentityOf
      <4>3. QED BY <4>1, <4>2
    <3>3. Live \in MaybeLogin /\ Coherent(Live)
      BY <3>1, LiveSound
    <3>4. QED BY <1>1, <3>1, <3>2, <3>3, JournalSound DEF Prepare, Journalling
  <2>1. Basic'
    BY <1>1, SwitchAssumption DEF Prepare, Goto, IInv, Basic, Step, Change, Idle, issuer, native, change, store
  <2>2. HomesSound'
    BY <1>1, SwitchAssumption DEF Prepare, Goto, IInv, HomesSound, issuer, native, change, store
  <2>3. Phase'
    BY <1>1, SwitchAssumption, <2>0 DEF Prepare, Goto, IInv, Basic, Phase, Unjournalled, JournalSteps, Step, issuer, native, change, store
  <2>4. Halves'
    BY <1>1, SwitchAssumption DEF Prepare, Goto, IInv, Basic, Phase, Unjournalled, JournalSteps, Step, Halves, Whole, Halved, Writing, Outgoing, Incoming, Target, issuer, native, change, store
  <2>5. SoundDatabase(disk)' /\ SoundDatabase(mem)'
    BY <1>1, SwitchAssumption, <2>0 DEF Prepare, Goto, IInv, issuer, native, change, store
  <2>6. QED BY <2>1, <2>2, <2>3, <2>4, <2>5 DEF IInv
<1>2. CASE WriteLabel
  <2>0. IdentityOf(Writing) \in MaybeAccount
    BY <1>2, WritingSound DEF WriteLabel
  <2>a. ClaudeCode => label' = IdentityOf(Writing)'
    BY <1>2 DEF WriteLabel, Goto, store, Writing, Outgoing, Incoming, Target, IdentityOf
  <2>1. Basic'
    BY <1>2, SwitchAssumption, <2>0 DEF WriteLabel, Goto, IInv, Basic, Step, Change, Idle, issuer, native, change, store
  <2>2. HomesSound'
    BY <1>2, SwitchAssumption DEF WriteLabel, Goto, IInv, HomesSound, issuer, native, change, store
  <2>3. Phase'
    BY <1>2, SwitchAssumption DEF WriteLabel, Goto, IInv, Basic, Phase, Unjournalled, JournalSteps, Step, issuer, native, change, store
  <2>4. Halves'
    BY <1>2, SwitchAssumption, <2>a DEF WriteLabel, Goto, IInv, Basic, Phase, Unjournalled, JournalSteps, Step, Halves, Whole, Halved, Writing, Outgoing, Incoming, Target, issuer, native, change, store
  <2>5. SoundDatabase(disk)' /\ SoundDatabase(mem)'
    BY <1>2, SwitchAssumption DEF WriteLabel, Goto, IInv, issuer, native, change, store
  <2>6. QED BY <2>1, <2>2, <2>3, <2>4, <2>5 DEF IInv
<1>3. CASE WriteAuth
  <2>0. /\ TokOf(Writing) \in MaybeToken
        /\ IdentityOf(Writing) \in MaybeAccount
        /\ TokOf(Writing) # NoToken => IdentityOf(Writing) = TokOf(Writing).of
    BY <1>3, WritingSound DEF WriteAuth
  <2>1. Basic'
    BY <1>3, SwitchAssumption, <2>0 DEF WriteAuth, Goto, IInv, Basic, Step, Change, Idle, issuer, native, change, store
  <2>2. HomesSound'
    BY <1>3, SwitchAssumption DEF WriteAuth, Goto, IInv, HomesSound, issuer, native, change, store
  <2>3. Phase'
    BY <1>3, SwitchAssumption DEF WriteAuth, Goto, IInv, Basic, Phase, Unjournalled, JournalSteps, Step, issuer, native, change, store
  <2>4. Halves'
    BY <1>3, SwitchAssumption, <2>0 DEF WriteAuth, Goto, IInv, Basic, Phase, Unjournalled, JournalSteps, Step, Halves, Whole, Halved, Writing, Outgoing, Incoming, Target, issuer, native, change, store
  <2>5. SoundDatabase(disk)' /\ SoundDatabase(mem)'
    BY <1>3, SwitchAssumption DEF WriteAuth, Goto, IInv, issuer, native, change, store
  <2>6. QED BY <2>1, <2>2, <2>3, <2>4, <2>5 DEF IInv
<1>4. CASE KeepNative
  <2>0. SoundDatabase(mem') /\ mem'.journal = mem.journal
    <3>1. Whole /\ SoundDatabase(mem)
      BY <1>4 DEF KeepNative, IInv, Halves, Halved
    <3>2. Live \in Login /\ Live.as \in Account /\ Live.tok.of = Live.as
      BY <1>4, <3>1, NativeSound DEF KeepNative
    <3>3. QED BY <1>4, <3>1, <3>2, CaptureSound DEF KeepNative
  <2>1. Basic'
    BY <1>4, SwitchAssumption DEF KeepNative, IInv, Basic, Step, Change, Idle, issuer, native, change, store
  <2>2. HomesSound'
    BY <1>4, SwitchAssumption DEF KeepNative, IInv, HomesSound, issuer, native, change, store
  <2>3. Phase'
    BY <1>4, SwitchAssumption, <2>0 DEF KeepNative, IInv, Basic, Phase, Unjournalled, JournalSteps, Step, issuer, native, change, store
  <2>4. Halves'
    BY <1>4, SwitchAssumption DEF KeepNative, IInv, Basic, Phase, Unjournalled, JournalSteps, Step, Halves, Whole, Halved, Writing, Outgoing, Incoming, Target, issuer, native, change, store
  <2>5. SoundDatabase(disk)' /\ SoundDatabase(mem)'
    BY <1>4, SwitchAssumption, <2>0 DEF KeepNative, IInv, issuer, native, change, store
  <2>6. QED BY <2>1, <2>2, <2>3, <2>4, <2>5 DEF IInv
<1>5. CASE SaveNative
  <2>0. SoundDatabase(disk') /\ mem' = disk' /\ disk'.journal = mem.journal
    <3>1. Whole /\ SoundDatabase(mem) /\ Target \in Account
      BY <1>5, TargetSound DEF SaveNative, IInv, Halves, Halved
    <3>2. Live \in Login /\ Live.tok.of = Live.as
      BY <1>5, <3>1, NativeSound DEF SaveNative, Identifiable
    <3>3. QED BY <1>5, <3>1, <3>2, SaveSound DEF SaveNative
  <2>1. Basic'
    BY <1>5, SwitchAssumption DEF SaveNative, PutBack, FirstWrite, IInv, Basic, Step, Change, Idle, issuer, native, change, store
  <2>2. HomesSound'
    BY <1>5, SwitchAssumption DEF SaveNative, PutBack, FirstWrite, IInv, HomesSound, issuer, native, change, store
  <2>3. Phase'
    BY <1>5, SwitchAssumption, <2>0 DEF SaveNative, PutBack, FirstWrite, IInv, Basic, Phase, Unjournalled, JournalSteps, Step, issuer, native, change, store
  <2>4. Halves'
    BY <1>5, SwitchAssumption, <2>0 DEF SaveNative, PutBack, FirstWrite, IInv, Basic, Phase, Unjournalled, JournalSteps, Step, Halves, Whole, Halved, Writing, Outgoing, Incoming, Target, issuer, native, change, store
  <2>5. SoundDatabase(disk)' /\ SoundDatabase(mem)'
    BY <1>5, SwitchAssumption, <2>0 DEF SaveNative, PutBack, FirstWrite, IInv, issuer, native, change, store
  <2>6. QED BY <2>1, <2>2, <2>3, <2>4, <2>5 DEF IInv
<1>6. CASE Forget
  <2>0. SoundDatabase(disk') /\ mem' = disk' /\ disk'.journal = disk.journal
    <3>1. disk.saved \cap SameUser(Target) \in SUBSET Account
      BY DEF SameUser
    <3>2. QED BY <1>6, <3>1, SignOutSound DEF Forget, IInv
  <2>1. Basic'
    BY <1>6, SwitchAssumption DEF Forget, IInv, Basic, Step, Change, Idle, issuer, native, change, store
  <2>2. HomesSound'
    BY <1>6 DEF Forget, IInv, HomesSound, MaybeToken
  <2>3. Phase'
    BY <1>6, SwitchAssumption, <2>0 DEF Forget, IInv, Basic, Phase, Unjournalled, JournalSteps, Step, issuer, native, change, store
  <2>4. Halves'
    BY <1>6, SwitchAssumption, <2>0 DEF Forget, IInv, Basic, Phase, Unjournalled, JournalSteps, Step, Halves, Whole, Halved, Writing, Outgoing, Incoming, Target, issuer, native, change, store
  <2>5. SoundDatabase(disk)' /\ SoundDatabase(mem)'
    BY <1>6, SwitchAssumption, <2>0 DEF Forget, IInv, issuer, native, change, store
  <2>6. QED BY <2>1, <2>2, <2>3, <2>4, <2>5 DEF IInv
<1>7. CASE Logout
  <2>1. Basic'
    BY <1>7 DEF Logout, Return, IInv, Basic, Step, Change, Idle, issuer, MaybeToken, MaybeAccount
  <2>2. HomesSound'
    BY <1>7, SwitchAssumption DEF Logout, Return, IInv, HomesSound, issuer, native, change, store
  <2>3. Phase'
    BY <1>7, SwitchAssumption DEF Logout, Return, IInv, Basic, Phase, Unjournalled, JournalSteps, Step, issuer, native, change, store
  <2>4. Halves'
    BY <1>7, SwitchAssumption DEF Logout, Return, IInv, Basic, Phase, Unjournalled, JournalSteps, Step, Halves, Whole, Halved, Writing, Outgoing, Incoming, Target, issuer, native, change, store
  <2>5. SoundDatabase(disk)' /\ SoundDatabase(mem)'
    BY <1>7, SwitchAssumption DEF Logout, Return, IInv, issuer, native, change, store
  <2>6. QED BY <2>1, <2>2, <2>3, <2>4, <2>5 DEF IInv
<1>99. QED BY <1>1, <1>2, <1>3, <1>4, <1>5, <1>6, <1>7

LEMMA CheckOutSound ==
  ASSUME IInv, NEW a \in Account, home[a] # NoToken
  PROVE  SoundDatabase(CheckedOut(a)) /\ CheckedOut(a).journal = disk.journal
<1> DEFINE l == LoginOf(home[a])
<1>1. l \in Login /\ l.tok.of = a /\ l.as = a
  BY FirstSound DEF IInv, HomesSound, MaybeToken
<1> HIDE DEF l
<1>2. SoundDatabase(disk)
  BY DEF IInv
<1>3. CASE disk.login[a] = NoLogin
  <2>1. CheckedOut(a) = [disk EXCEPT !.login = [disk.login EXCEPT ![a] = l]]
    BY <1>2, <1>3 DEF CheckedOut, SoundDatabase, Database, l
  <2>2. QED BY <1>1, <1>2, <2>1 DEF SoundDatabase, Database, MaybeLogin
<1>4. CASE disk.login[a] # NoLogin
  <2>1. CheckedOut(a) = disk
    BY <1>2, <1>4 DEF CheckedOut, SoundDatabase, Database
  <2>2. QED BY <1>2, <2>1
<1>5. QED BY <1>3, <1>4

LEMMA MintSound ==
  ASSUME IInv, NEW a \in Account, NEW spent, Mint(a, spent)
  PROVE  /\ [of |-> a, gen |-> NextGen] \in Token
         /\ live' \subseteq Token
         /\ minted' \in Nat
BY VaultAssumption DEF IInv, Basic, Mint, NextGen, Token, Gen

LEMMA WorldSteps ==
  ASSUME IInv, ClaudeCode => StatusNamesToken
  PROVE  Vault \/ World \/ (\E a \in Account, alongside \in BOOLEAN : BeginUse(a, alongside))
           => IInv'
<1>1. ASSUME NEW a \in Account, NEW alongside \in BOOLEAN, BeginUse(a, alongside)
      PROVE  IInv'
  <2>0. SoundDatabase(disk') /\ mem' = disk' /\ disk'.journal = disk.journal
    BY <1>1, CheckOutSound DEF BeginUse, IInv
  <2>1. Basic'
    <3>1. act' \in Change /\ pc' \in {"empty", "activate"} /\ outside' = FALSE
      BY <1>1 DEF BeginUse, Begin, Change
    <3>2. UNCHANGED <<undo, locked, home, native, issuer, clients, faults>>
      BY <1>1 DEF BeginUse, Begin
    <3>3. QED BY <3>1, <3>2 DEF IInv, Basic, Step, native, issuer
  <2>2. HomesSound'
    BY <1>1, SwitchAssumption DEF BeginUse, Begin, IInv, HomesSound, issuer, native, change, store
  <2>3. Phase'
    BY <1>1, SwitchAssumption, <2>0 DEF BeginUse, Begin, IInv, Basic, Phase, Unjournalled, JournalSteps, Step, issuer, native, change, store
  <2>4. Halves'
    BY <1>1, SwitchAssumption, <2>0 DEF BeginUse, Begin, IInv, Basic, Phase, Unjournalled, JournalSteps, Step, Halves, Whole, Halved, Writing, Outgoing, Incoming, Target, issuer, native, change, store
  <2>5. SoundDatabase(disk)' /\ SoundDatabase(mem)'
    BY <1>1, SwitchAssumption, <2>0 DEF BeginUse, Begin, IInv, issuer, native, change, store
  <2>6. QED BY <2>1, <2>2, <2>3, <2>4, <2>5 DEF IInv
<1>2. CASE SaveCurrent
  <2>0. SoundDatabase(disk') /\ mem' = disk' /\ disk'.journal = disk.journal
    <3>1. Whole /\ SoundDatabase(disk)
      BY <1>2 DEF SaveCurrent, Publish, IInv, Halves
    <3>2. Live \in Login /\ Live.as \in Account /\ Live.tok.of = Live.as
      BY <1>2, <3>1, NativeSound DEF SaveCurrent, Verified
    <3>3. QED BY <1>2, <3>1, <3>2, RemoveSound, SaveSound DEF SaveCurrent, Publish
  <2>1. Basic'
    BY <1>2, SwitchAssumption DEF SaveCurrent, Publish, IInv, Basic, Step, Change, Idle, issuer, native, change, store
  <2>2. HomesSound'
    BY <1>2, SwitchAssumption DEF SaveCurrent, Publish, IInv, HomesSound, issuer, native, change, store
  <2>3. Phase'
    BY <1>2, SwitchAssumption, <2>0 DEF SaveCurrent, Publish, IInv, Basic, Phase, Unjournalled, JournalSteps, Step, issuer, native, change, store
  <2>4. Halves'
    BY <1>2, SwitchAssumption, <2>0 DEF SaveCurrent, Publish, IInv, Basic, Phase, Unjournalled, JournalSteps, Step, Halves, Whole, Halved, Writing, Outgoing, Incoming, Target, issuer, native, change, store
  <2>5. SoundDatabase(disk)' /\ SoundDatabase(mem)'
    BY <1>2, SwitchAssumption, <2>0 DEF SaveCurrent, Publish, IInv, issuer, native, change, store
  <2>6. QED BY <2>1, <2>2, <2>3, <2>4, <2>5 DEF IInv
<1>3. CASE Remember
  <2>0. SoundDatabase(disk') /\ mem' = disk' /\ disk'.journal = disk.journal
    <3>1. Whole /\ SoundDatabase(disk)
      BY <1>3 DEF Remember, Publish, IInv, Halves
    <3>2. Live \in Login /\ Live.as \in Account /\ Live.tok.of = Live.as
      BY <1>3, <3>1, NativeSound DEF Remember, Verified
    <3>3. QED BY <1>3, <3>1, <3>2, RemoveSound, SaveSound DEF Remember, Publish
  <2>1. Basic'
    BY <1>3, SwitchAssumption DEF Remember, Publish, IInv, Basic, Step, Change, Idle, issuer, native, change, store
  <2>2. HomesSound'
    BY <1>3, SwitchAssumption DEF Remember, Publish, IInv, HomesSound, issuer, native, change, store
  <2>3. Phase'
    BY <1>3, SwitchAssumption, <2>0 DEF Remember, Publish, IInv, Basic, Phase, Unjournalled, JournalSteps, Step, issuer, native, change, store
  <2>4. Halves'
    BY <1>3, SwitchAssumption, <2>0 DEF Remember, Publish, IInv, Basic, Phase, Unjournalled, JournalSteps, Step, Halves, Whole, Halved, Writing, Outgoing, Incoming, Target, issuer, native, change, store
  <2>5. SoundDatabase(disk)' /\ SoundDatabase(mem)'
    BY <1>3, SwitchAssumption, <2>0 DEF Remember, Publish, IInv, issuer, native, change, store
  <2>6. QED BY <2>1, <2>2, <2>3, <2>4, <2>5 DEF IInv
<1>4. ASSUME NEW a \in Account, Remove(a)
      PROVE  IInv'
  <2>0. SoundDatabase(disk') /\ mem' = disk' /\ disk'.journal = disk.journal
    BY <1>4, RemoveSound DEF Remove, Publish, IInv
  <2>1. Basic'
    BY <1>4, SwitchAssumption DEF Remove, Publish, IInv, Basic, Step, Change, Idle, issuer, native, change, store
  <2>2. HomesSound'
    BY <1>4 DEF Remove, IInv, HomesSound, MaybeToken
  <2>3. Phase'
    BY <1>4, SwitchAssumption, <2>0 DEF Remove, Publish, IInv, Basic, Phase, Unjournalled, JournalSteps, Step, issuer, native, change, store
  <2>4. Halves'
    BY <1>4, SwitchAssumption, <2>0 DEF Remove, Publish, IInv, Basic, Phase, Unjournalled, JournalSteps, Step, Halves, Whole, Halved, Writing, Outgoing, Incoming, Target, issuer, native, change, store
  <2>5. SoundDatabase(disk)' /\ SoundDatabase(mem)'
    BY <1>4, SwitchAssumption, <2>0 DEF Remove, Publish, IInv, issuer, native, change, store
  <2>6. QED BY <2>1, <2>2, <2>3, <2>4, <2>5 DEF IInv
<1>5. ASSUME NEW a \in Account, SignIn(a)
      PROVE  IInv'
  <2>0. SoundDatabase(disk') /\ mem' = disk' /\ disk'.journal = disk.journal
    <3>1. LoginOf([of |-> a, gen |-> NextGen]) \in Login
          /\ LoginOf([of |-> a, gen |-> NextGen]).tok.of = a
          /\ LoginOf([of |-> a, gen |-> NextGen]).as = a
      BY <1>5, MintSound, FirstSound DEF SignIn
    <3>2. (~ClaudeCode) \in BOOLEAN
      BY SwitchAssumption
    <3>3. SoundDatabase(disk)
      BY DEF IInv
    <3>4. QED BY <1>5, <3>1, <3>2, <3>3, PublishSound DEF SignIn, Publish
  <2>m. live' \subseteq Token /\ minted' \in Nat
    BY <1>5, MintSound DEF SignIn
  <2>1. Basic'
    BY <1>5, SwitchAssumption, <2>m DEF SignIn, Publish, IInv, Basic, Step, Change, Idle, issuer, native, change, store
  <2>2. HomesSound'
    BY <1>5 DEF SignIn, IInv, HomesSound, MaybeToken
  <2>3. Phase'
    BY <1>5, SwitchAssumption, <2>0 DEF SignIn, Publish, IInv, Basic, Phase, Unjournalled, JournalSteps, Step, issuer, native, change, store
  <2>4. Halves'
    BY <1>5, SwitchAssumption, <2>0 DEF SignIn, Publish, IInv, Basic, Phase, Unjournalled, JournalSteps, Step, Halves, Whole, Halved, Writing, Outgoing, Incoming, Target, issuer, native, change, store
  <2>5. SoundDatabase(disk)' /\ SoundDatabase(mem)'
    BY <1>5, SwitchAssumption, <2>0 DEF SignIn, Publish, IInv, issuer, native, change, store
  <2>6. QED BY <2>1, <2>2, <2>3, <2>4, <2>5 DEF IInv
<1>6. CASE ClientRenews
  <2>0. tok \in Token /\ tok.of \in Account
    BY <1>6 DEF ClientRenews, IInv, Basic, Token
  <2>m. live' \subseteq Token /\ minted' \in Nat /\ tok' \in Token /\ tok'.of = tok.of
    BY <1>6, <2>0, MintSound DEF ClientRenews
  <2>1. Basic'
    BY <1>6, <2>m DEF ClientRenews, IInv, Basic, MaybeToken, store, change
  <2>2. HomesSound'
    BY <1>6, SwitchAssumption DEF ClientRenews, IInv, HomesSound, issuer, native, change, store
  <2>3. Phase'
    BY <1>6, SwitchAssumption DEF ClientRenews, IInv, Basic, Phase, Unjournalled, JournalSteps, Step, issuer, native, change, store
  <2>4. Halves'
    BY <1>6, SwitchAssumption, <2>0, <2>m, AbsentAssumption DEF ClientRenews, IInv, Basic, Phase, Unjournalled, JournalSteps, Step, Halves, Whole, Halved, Writing, Outgoing, Incoming, Target, issuer, native, change, store
  <2>5. SoundDatabase(disk)' /\ SoundDatabase(mem)'
    BY <1>6, SwitchAssumption DEF ClientRenews, IInv, issuer, native, change, store
  <2>6. QED BY <2>1, <2>2, <2>3, <2>4, <2>5 DEF IInv
<1>7. ASSUME NEW a \in Account, HomeRenews(a)
      PROVE  IInv'
  <2>m. live' \subseteq Token /\ minted' \in Nat /\ [of |-> a, gen |-> NextGen] \in Token
    BY <1>7, MintSound DEF HomeRenews
  <2>1. Basic'
    BY <1>7, SwitchAssumption, <2>m DEF HomeRenews, IInv, Basic, Step, Change, Idle, issuer, native, change, store
  <2>2. HomesSound'
    BY <1>7, <2>m DEF HomeRenews, IInv, HomesSound, MaybeToken
  <2>3. Phase'
    BY <1>7, SwitchAssumption DEF HomeRenews, IInv, Basic, Phase, Unjournalled, JournalSteps, Step, issuer, native, change, store
  <2>4. Halves'
    BY <1>7, SwitchAssumption DEF HomeRenews, IInv, Basic, Phase, Unjournalled, JournalSteps, Step, Halves, Whole, Halved, Writing, Outgoing, Incoming, Target, issuer, native, change, store
  <2>5. SoundDatabase(disk)' /\ SoundDatabase(mem)'
    BY <1>7, SwitchAssumption DEF HomeRenews, IInv, issuer, native, change, store
  <2>6. QED BY <2>1, <2>2, <2>3, <2>4, <2>5 DEF IInv
<1>8. ASSUME NEW a \in Account, UserSignsIn(a)
      PROVE  IInv'
  <2>m. live' \subseteq Token /\ minted' \in Nat /\ tok' \in Token /\ tok'.of = a
    BY <1>8, MintSound DEF UserSignsIn
  <2>o. outside' \in BOOLEAN
    BY <1>8 DEF UserSignsIn, Outside
  <2>1. Basic'
    BY <1>8, <2>m, <2>o DEF UserSignsIn, IInv, Basic, MaybeToken, MaybeAccount, store, change
  <2>2. HomesSound'
    BY <1>8, SwitchAssumption DEF UserSignsIn, Outside, IInv, HomesSound, issuer, native, change, store
  <2>3. Phase'
    BY <1>8, SwitchAssumption DEF UserSignsIn, Outside, IInv, Basic, Phase, Unjournalled, JournalSteps, Step, issuer, native, change, store
  <2>4. Halves'
    BY <1>8, SwitchAssumption, <2>m, AbsentAssumption DEF UserSignsIn, Outside, IInv, Basic, Phase, Unjournalled, JournalSteps, Step, Halves, Whole, Halved, Writing, Outgoing, Incoming, Target, issuer, native, change, store
  <2>5. SoundDatabase(disk)' /\ SoundDatabase(mem)'
    BY <1>8, SwitchAssumption DEF UserSignsIn, Outside, IInv, issuer, native, change, store
  <2>6. QED BY <2>1, <2>2, <2>3, <2>4, <2>5 DEF IInv
<1>9. CASE UserSignsOut
  <2>o. outside' \in BOOLEAN
    BY <1>9 DEF UserSignsOut, Outside
  <2>1. Basic'
    BY <1>9, <2>o DEF UserSignsOut, IInv, Basic, MaybeToken, MaybeAccount, store, change, issuer
  <2>2. HomesSound'
    BY <1>9, SwitchAssumption DEF UserSignsOut, Outside, IInv, HomesSound, issuer, native, change, store
  <2>3. Phase'
    BY <1>9, SwitchAssumption DEF UserSignsOut, Outside, IInv, Basic, Phase, Unjournalled, JournalSteps, Step, issuer, native, change, store
  <2>4. Halves'
    BY <1>9, SwitchAssumption DEF UserSignsOut, Outside, IInv, Basic, Phase, Unjournalled, JournalSteps, Step, Halves, Whole, Halved, Writing, Outgoing, Incoming, Target, issuer, native, change, store
  <2>5. SoundDatabase(disk)' /\ SoundDatabase(mem)'
    BY <1>9, SwitchAssumption DEF UserSignsOut, Outside, IInv, issuer, native, change, store
  <2>6. QED BY <2>1, <2>2, <2>3, <2>4, <2>5 DEF IInv
<1>10. CASE ClientStarts \/ ClientsClose
  BY <1>10, QuietSteps
<1>99. QED BY <1>1, <1>2, <1>3, <1>4, <1>5, <1>6, <1>7, <1>8, <1>9, <1>10 DEF Vault, World

-----------------------------------------------------------------------------
LEMMA FirstOf ==
  \A a \in Account : /\ First(a) \in Token /\ First(a).of = a
                     /\ LoginOf(First(a)) \in Login
                     /\ LoginOf(First(a)).tok.of = a /\ LoginOf(First(a)).as = a
<1>1. \A a \in Account : First(a) \in Token /\ First(a).of = a
  BY VaultAssumption DEF First, Token, Gen
<1>2. QED BY <1>1, FirstSound

LEMMA AtRestSound ==
  ASSUME NEW signedIn \in MaybeAccount, NEW shadowed \in BOOLEAN
  PROVE  /\ SoundDatabase(AtRest(signedIn, shadowed))
         /\ AtRest(signedIn, shadowed).journal = NoJournal
<1> DEFINE waiting == Account \ {signedIn}
           shadow  == IF shadowed THEN Account \ waiting ELSE {}
           inVault == IF ClaudeCode THEN shadow ELSE waiting \cup shadow
           login   == [a \in Account |-> IF a \in inVault THEN LoginOf(First(a)) ELSE NoLogin]
           saved   == waiting \cup shadow
           homed   == IF ClaudeCode THEN waiting ELSE {}
<1>1. saved \in SUBSET Account /\ homed \in SUBSET Account
  OBVIOUS
<1>2. /\ login \in [Account -> MaybeLogin]
      /\ \A a \in Account : login[a] # NoLogin => login[a].tok.of = a /\ login[a].as = a
  <2> HIDE DEF inVault
  <2>1. QED BY FirstOf DEF MaybeLogin
<1>3. AtRest(signedIn, shadowed) =
        [saved |-> saved, login |-> login, pending |-> {}, owned |-> {}, ignored |-> {},
         homed |-> homed, journal |-> NoJournal]
  BY DEF AtRest
<1> HIDE DEF login, saved, homed
<1>4. QED BY <1>1, <1>2, <1>3 DEF SoundDatabase, Database

LEMMA Start == Init => IInv
<1> SUFFICES ASSUME Init PROVE IInv
  OBVIOUS
<1>1. PICK signedIn \in MaybeAccount, shadowed \in BOOLEAN :
        /\ disk = AtRest(signedIn, shadowed)
        /\ tok = IF signedIn = NoAccount THEN NoToken ELSE First(signedIn)
        /\ label = signedIn
  BY DEF Init
<1>2. SoundDatabase(disk) /\ disk.journal = NoJournal
  BY <1>1, AtRestSound
<1>3. mem = disk /\ pc = "idle"
  BY DEF Init
<1>4. Basic
  <2>1. tok \in MaybeToken /\ label \in MaybeAccount
    BY <1>1, FirstOf DEF MaybeToken, MaybeAccount
  <2>2. live \subseteq Token /\ minted \in Nat
    BY FirstOf DEF Init
  <2>3. pc = "idle" /\ act = Idle /\ undo = FALSE /\ locked = FALSE /\ clients = FALSE
        /\ outside = FALSE /\ faults = 0
    BY DEF Init
  <2>4. QED BY <2>1, <2>2, <2>3 DEF Basic, Step
<1>5. HomesSound
  BY FirstOf DEF Init, HomesSound, MaybeToken
<1>6. Whole
  BY <1>1, FirstOf DEF Whole, MaybeAccount
<1>7. QED
  BY <1>2, <1>3, <1>4, <1>5, <1>6
     DEF IInv, Phase, Halves, Unjournalled, JournalSteps, Halved, Step

(* The invariant the safety theorems rest on: where a change stands decides *)
(* whether its journal is on disk and which half of the native store may be *)
(* written, and every login in the vault, in a journal or in a home signs   *)
(* in as the account it is kept for.                                        *)
THEOREM Inductive ==
  ASSUME ClaudeCode => StatusNamesToken
  PROVE  Spec => []IInv
<1>1. Init => IInv
  BY Start
<1>2. IInv /\ [Next]_vars => IInv'
  <2> SUFFICES ASSUME IInv, [Next]_vars PROVE IInv'
    OBVIOUS
  <2>1. CASE UNCHANGED vars
    BY <2>1 DEF vars, IInv, Basic, HomesSound, Phase, Halves, Whole, Writing, Outgoing,
                Incoming, Target
  <2>2. CASE Next
    BY <2>2, QuietSteps, SwitchSteps, WriteSteps, WorldSteps
       DEF Next, Use, Write, Recover, SignOut
  <2>3. QED BY <2>1, <2>2
<1>3. QED BY <1>1, <1>2, PTL DEF Spec

(* TypeOK: every variable of a switch, a recovery or a sign-out stays in its*)
(* type, and no operation's Database outlives it.                           *)
THEOREM TypeCorrect ==
  ASSUME ClaudeCode => StatusNamesToken
  PROVE  Spec => []TypeOK
<1>1. IInv => TypeOK
  BY DEF IInv, Basic, HomesSound, SoundDatabase, TypeOK
<1>2. QED BY <1>1, Inductive, PTL

(* NativeWhole: whatever fails, dies or interleaves, the token and the      *)
(* account name of the native store disagree only behind a journal.         *)
THEOREM NativeStaysWhole ==
  ASSUME ClaudeCode => StatusNamesToken
  PROVE  Spec => []NativeWhole
<1>1. IInv => NativeWhole
  BY DEF IInv, Halves, Whole, NativeWhole
<1>2. QED BY <1>1, Inductive, PTL

(* SavedUnderItsAccount: no switch, recovery, capture, save or sign-in ever *)
(* saves a login under another account than the one it signs in as.         *)
THEOREM SavedStaysUnderItsAccount ==
  ASSUME ClaudeCode => StatusNamesToken
  PROVE  Spec => []SavedUnderItsAccount
<1>1. IInv => SavedUnderItsAccount
  BY DEF IInv, SoundDatabase, SavedUnderItsAccount
<1>2. QED BY <1>1, Inductive, PTL

-----------------------------------------------------------------------------
(* What one login being in one store rests on.  t is the native token, h the*)
(* homes, n the generations given out: every token kept was given out, and  *)
(* neither a login the app renews nor one kept in a home is the native one  *)
(* or the one a journal may put back.                                       *)
Fresh(t, n) == t # NoToken => t.gen <= n

Apart(db, t, h, n) ==
  /\ \A a \in Account : Fresh(TokOf(db.login[a]), n)
  /\ db.journal # NoJournal => Fresh(TokOf(db.journal.outgoing), n)
  /\ \A a \in db.owned : db.login[a] # NoLogin =>
       /\ TokOf(db.login[a]) # t
       /\ db.journal # NoJournal => TokOf(db.login[a]) # TokOf(db.journal.outgoing)
  /\ \A a \in db.homed : h[a] # NoToken =>
       /\ h[a] # t
       /\ db.journal # NoJournal => h[a] # TokOf(db.journal.outgoing)

StoresApart ==
  /\ Fresh(tok, minted)
  /\ \A a \in Account : Fresh(home[a], minted)
  /\ Apart(disk, tok, home, minted) /\ Apart(mem, tok, home, minted)

(* Where the operation's Database is the disk's, and whose change a journal *)
(* is.                                                                      *)
Agreed ==
  /\ pc \notin {"begin", "readback", "finish"} => mem = disk
  /\ pc = "readback" /\ ~undo => mem = disk
  /\ pc \in JournalSteps => disk.journal.target = Target /\ mem.journal = disk.journal
  /\ pc = "begin" => mem.journal.target = Target
  /\ mem.homed = disk.homed

(* The login a switch is about to write is in no home any more, and the app *)
(* has stopped renewing it.                                                 *)
Unkept(db, h) == Target \notin db.homed \/ h[Target] = NoToken

Reserved ==
  /\ pc \in {"activate", "begin", "settle", "label", "auth"} /\ ~undo => Unkept(disk, home)
  /\ pc = "begin" => Target \notin mem.owned
  /\ pc \in {"settle", "label", "auth"} /\ ~undo => Target \notin disk.owned

(* What is in the native store is explained by the journal, or verifies.    *)
Explained(db, t, l, alive) ==
  \/ t \in {NoToken, TokOf(db.journal.outgoing), TokOf(db.login[db.journal.target])}
  \/ l # t.of
  \/ /\ l \in {db.journal.target, IdentityOf(db.journal.outgoing)}
     /\ ClaudeCode \/ t \in alive

Explainable ==
  ~outside =>
    /\ disk.journal # NoJournal => Explained(disk, tok, label, live)
    /\ pc = "begin" => Explained(mem, tok, label, live)

JInv == IInv /\ StoresApart /\ Agreed /\ Reserved /\ Explainable

-----------------------------------------------------------------------------
(* What the edits of the vault do to the fields Apart reads.                *)
LEMMA SaveFields ==
  ASSUME NEW db \in Database, NEW a \in Account, NEW l \in Login
  PROVE  /\ Save(db, a, l).login = [db.login EXCEPT ![a] = l]
         /\ Save(db, a, l).owned = db.owned \ {a}
         /\ Save(db, a, l).homed = db.homed
         /\ Save(db, a, l).journal = db.journal
BY DEF Save, Database

LEMMA ApartSave ==
  ASSUME NEW db \in Database, NEW a \in Account, NEW l \in Login,
         NEW t, NEW h, NEW n, Apart(db, t, h, n), Fresh(l.tok, n)
  PROVE  /\ Apart(Save(db, a, l), t, h, n) /\ Apart(Capture(db, a, l), t, h, n)
         /\ Capture(db, a, l).homed = db.homed /\ Save(db, a, l).homed = db.homed
<1> DEFINE new == Save(db, a, l)
<1>1. /\ new.login = [db.login EXCEPT ![a] = l] /\ new.owned = db.owned \ {a}
      /\ new.homed = db.homed /\ new.journal = db.journal
  BY SaveFields
<1> HIDE DEF new
<1>2. TokOf(l) = l.tok
  BY AbsentAssumption DEF TokOf
<1>3. db.login \in [Account -> MaybeLogin] /\ db.owned \subseteq Account
  BY DEF Database
<1>4. \A b \in Account : new.login[b] = IF b = a THEN l ELSE db.login[b]
  BY <1>1, <1>3
<1>5. Apart(new, t, h, n)
  BY <1>1, <1>2, <1>3, <1>4 DEF Apart
<1>6. QED BY <1>1, <1>5 DEF Capture, new

(* A token just given out is in no store yet.                               *)
LEMMA ApartMinted ==
  ASSUME NEW db, SoundDatabase(db), NEW n \in Nat, NEW t \in MaybeToken, Fresh(t, n),
         NEW h \in [Account -> MaybeToken], \A a \in Account : Fresh(h[a], n),
         Apart(db, t, h, n), NEW new \in Token, new.gen = n + 1
  PROVE  /\ Apart(db, t, h, n + 1) /\ Apart(db, new, h, n + 1)
         /\ \A a \in Account : Apart(db, t, [h EXCEPT ![a] = new], n + 1)
<1> USE DEF SoundDatabase
<1>1. \A u \in MaybeToken : Fresh(u, n) => Fresh(u, n + 1) /\ u # new
  BY AbsentAssumption DEF Fresh, MaybeToken, Token, Gen
<1>2. /\ \A a \in Account : TokOf(db.login[a]) \in MaybeToken
      /\ db.journal # NoJournal => TokOf(db.journal.outgoing) \in MaybeToken
      /\ db.owned \subseteq Account /\ db.homed \subseteq Account
  BY DEF Database, MaybeLogin, Login, TokOf, MaybeToken, Journal
<1>3. Apart(db, t, h, n + 1)
  BY <1>1, <1>2 DEF Apart
<1>4. Apart(db, new, h, n + 1)
  BY <1>1, <1>2 DEF Apart
<1>5. ASSUME NEW a \in Account PROVE Apart(db, t, [h EXCEPT ![a] = new], n + 1)
  BY <1>1, <1>2 DEF Apart
<1>6. QED BY <1>3, <1>4, <1>5

LEMMA ApartEmptied ==
  ASSUME NEW db, SoundDatabase(db), NEW t, NEW h, NEW n, Apart(db, t, h, n)
  PROVE  /\ Apart(db, NoToken, h, n)
         /\ \A g : (\A a \in Account : g[a] \in {h[a], NoToken}) => Apart(db, t, g, n)
<1>1. /\ \A a \in Account : db.login[a] # NoLogin => TokOf(db.login[a]) # NoToken
      /\ db.owned \subseteq Account /\ db.homed \subseteq Account
  BY AbsentAssumption DEF SoundDatabase, Database, MaybeLogin, Login, TokOf
<1>2. Apart(db, NoToken, h, n)
  BY <1>1 DEF Apart
<1>3. ASSUME NEW g, \A a \in Account : g[a] \in {h[a], NoToken} PROVE Apart(db, t, g, n)
  BY <1>1, <1>3 DEF Apart
<1>4. QED BY <1>2, <1>3

(* The login of a switch's target, once nothing else keeps it.              *)
LEMMA ApartWritten ==
  ASSUME NEW db, SoundDatabase(db), NEW t, NEW h, NEW n, Apart(db, t, h, n),
         NEW a \in Account, a \notin db.owned, a \notin db.homed \/ h[a] = NoToken,
         \A b \in Account : h[b] # NoToken => h[b] \in Token /\ h[b].of = b
  PROVE  Apart(db, TokOf(db.login[a]), h, n)
<1>1. \A b \in Account : db.login[b] # NoLogin =>
        TokOf(db.login[b]) \in Token /\ TokOf(db.login[b]).of = b
  BY AbsentAssumption DEF SoundDatabase, Database, MaybeLogin, Login, TokOf
<1>2. db.login[a] = NoLogin => TokOf(db.login[a]) = NoToken
  BY DEF TokOf
<1>3. db.owned \subseteq Account /\ db.homed \subseteq Account
  BY DEF SoundDatabase, Database
<1>4. \A b \in Account \ {a} : db.login[b] # NoLogin => TokOf(db.login[b]) # TokOf(db.login[a])
  BY <1>1, <1>2, AbsentAssumption
<1>5. \A b \in Account \ {a} : h[b] # NoToken => h[b] # TokOf(db.login[a])
  BY <1>1, <1>2
<1>6. QED BY <1>3, <1>4, <1>5 DEF Apart

LEMMA ApartPutBack ==
  ASSUME NEW db, NEW t, NEW h, NEW n, Apart(db, t, h, n), db.journal # NoJournal
  PROVE  Apart(db, TokOf(db.journal.outgoing), h, n)
BY DEF Apart

LEMMA ApartJournal ==
  ASSUME NEW db, SoundDatabase(db), NEW t, NEW h, NEW n, Apart(db, t, h, n), Fresh(t, n),
         NEW a \in Account, NEW l \in MaybeLogin, TokOf(l) = t
  PROVE  \A new : new = BeginRecovery([db EXCEPT !.owned = @ \ {a}],
                                      [target |-> a, outgoing |-> l])
                    => /\ Apart(new, t, h, n) /\ new.homed = db.homed
                       /\ new.owned = db.owned \ {a} /\ new.login = db.login
                       /\ new.journal.target = a /\ new.journal.outgoing = l
<1> DEFINE j == [target |-> a, outgoing |-> l]
           free == [db EXCEPT !.owned = @ \ {a}]
<1> SUFFICES ASSUME NEW new, new = BeginRecovery(free, j)
             PROVE  /\ Apart(new, t, h, n) /\ new.homed = db.homed
                    /\ new.owned = db.owned \ {a} /\ new.login = db.login
                    /\ new.journal.target = a /\ new.journal.outgoing = l
  OBVIOUS
<1>1. j \in Journal /\ j.outgoing = l /\ j.target = a
  BY DEF Journal
<1> HIDE DEF j
<1>2. /\ new.homed = db.homed /\ new.owned = db.owned \ {a} /\ new.login = db.login
      /\ new.journal = j
  BY DEF BeginRecovery, SoundDatabase, Database
<1>3. QED BY <1>1, <1>2 DEF Apart

LEMMA ApartOutgoing ==
  ASSUME NEW db, SoundDatabase(db), NEW t, NEW h, NEW n, Apart(db, t, h, n), Fresh(t, n),
         NEW k \in Journal, TokOf(k.outgoing) = t
  PROVE  \A new : new = [db EXCEPT !.journal = k]
                    => /\ Apart(new, t, h, n) /\ new.homed = db.homed
                       /\ new.owned = db.owned /\ new.login = db.login /\ new.journal = k
<1> SUFFICES ASSUME NEW new, new = [db EXCEPT !.journal = k]
             PROVE  /\ Apart(new, t, h, n) /\ new.homed = db.homed
                    /\ new.owned = db.owned /\ new.login = db.login /\ new.journal = k
  OBVIOUS
<1>1. /\ new.homed = db.homed /\ new.owned = db.owned /\ new.login = db.login
      /\ new.journal = k
  BY DEF SoundDatabase, Database
<1>2. QED BY <1>1 DEF Apart

LEMMA ApartEnd ==
  ASSUME NEW db, SoundDatabase(db), NEW t, NEW h, NEW n, Apart(db, t, h, n)
  PROVE  Apart(EndRecovery(db), t, h, n) /\ EndRecovery(db).homed = db.homed
<1>1. /\ EndRecovery(db).homed = db.homed /\ EndRecovery(db).owned = db.owned
      /\ EndRecovery(db).login = db.login /\ EndRecovery(db).journal = NoJournal
  BY DEF EndRecovery, SoundDatabase, Database
<1>2. QED BY <1>1 DEF Apart

LEMMA ApartRemoved ==
  ASSUME NEW db, SoundDatabase(db), NEW t, NEW h, NEW n, Apart(db, t, h, n), NEW a \in Account
  PROVE  Apart(RemoveProfile(db, a), t, h, n)
<1>0. db.login \in [Account -> MaybeLogin] /\ db.owned \subseteq Account
  BY DEF SoundDatabase, Database
<1>1. LET new == RemoveProfile(db, a) IN
      /\ new.login = [db.login EXCEPT ![a] = NoLogin] /\ new.owned = db.owned \ {a}
      /\ new.homed = db.homed \ {a} /\ new.journal = db.journal
  BY DEF RemoveProfile, SoundDatabase, Database
<1>2. \A b \in Account : RemoveProfile(db, a).login[b] \in {db.login[b], NoLogin}
  BY <1>0, <1>1
<1>3. QED BY <1>0, <1>1, <1>2 DEF Apart, Fresh, TokOf

LEMMA ApartReenrolled ==
  ASSUME NEW db, SoundDatabase(db), NEW t, NEW h, NEW n, Apart(db, t, h, n), NEW a \in Account
  PROVE  Apart(Reenroll(db, a), t, h, n)
<1>1. LET new == Reenroll(db, a) IN
      /\ new.login = db.login /\ new.owned = db.owned
      /\ new.homed = db.homed /\ new.journal = db.journal
  BY DEF Reenroll, SoundDatabase, Database
<1>2. QED BY <1>1 DEF Apart

LEMMA ApartSignedOut ==
  ASSUME NEW db, SoundDatabase(db), NEW t, NEW h, NEW n, Apart(db, t, h, n),
         NEW W \in SUBSET Account
  PROVE  Apart(SignOutUser(db, W), t, h, n)
<1>0. db.login \in [Account -> MaybeLogin] /\ db.owned \subseteq Account
  BY DEF SoundDatabase, Database
<1>1. LET new == SignOutUser(db, W) IN
      /\ new.login = [b \in Account |-> IF b \in W THEN NoLogin ELSE db.login[b]]
      /\ new.owned = db.owned /\ new.homed = db.homed \ W /\ new.journal = db.journal
  BY DEF SignOutUser, SoundDatabase, Database
<1>2. \A b \in Account : SignOutUser(db, W).login[b] \in {db.login[b], NoLogin}
  BY <1>0, <1>1
<1>3. QED BY <1>0, <1>1, <1>2 DEF Apart, Fresh, TokOf

(* A sign-in is published with a token just given out.                      *)
LEMMA ApartPublish ==
  ASSUME NEW db, SoundDatabase(db), NEW t, NEW h, NEW n, Apart(db, t, h, n),
         db.journal = NoJournal, NEW a \in Account, NEW renews \in BOOLEAN,
         NEW l \in Login, Fresh(l.tok, n), l.tok # t
  PROVE  Apart(PublishSignIn(db, a, l, renews), t, h, n)
<1> DEFINE again == Reenroll(db, a)
           saved == Save(again, a, l)
<1>1. again \in Database /\ again.journal = NoJournal /\ Apart(again, t, h, n)
  BY RemoveSound, ApartReenrolled DEF SoundDatabase
<1>2. Apart(saved, t, h, n) /\ saved.journal = NoJournal
  <2> HIDE DEF again
  <2>0. again \in Database /\ again.journal = NoJournal
    BY <1>1
  <2>1. Save(again, a, l).journal = again.journal
    BY <2>0, SaveFields
  <2>2. Apart(Save(again, a, l), t, h, n)
    BY <1>1, ApartSave
  <2>3. QED BY <2>0, <2>1, <2>2
<1>3. saved.login[a] = l
  <2> HIDE DEF again
  <2>0. again \in Database
    BY <1>1
  <2>1. again.login \in [Account -> MaybeLogin]
    BY <1>1 DEF Database
  <2>2. saved.login = [again.login EXCEPT ![a] = l]
    BY <2>0, SaveFields
  <2>3. QED BY <2>0, <2>1, <2>2
<1>4. saved \in Database
  <2> HIDE DEF again
  <2>1. QED BY <1>1 DEF Save, Database, MaybeLogin
<1> HIDE DEF saved
<1> SUFFICES ASSUME NEW new, new = PublishSignIn(db, a, l, renews) PROVE Apart(new, t, h, n)
  OBVIOUS
<1>5. /\ new.login = saved.login /\ new.journal = saved.journal
      /\ new.owned \subseteq saved.owned \cup {a} /\ new.homed \subseteq saved.homed
  BY <1>4 DEF PublishSignIn, saved, Database
<1>6. TokOf(l) = l.tok
  BY AbsentAssumption DEF TokOf
<1>7. QED BY <1>2, <1>3, <1>5, <1>6 DEF Apart

-----------------------------------------------------------------------------
(* What a step has to say of the stores: which of its values they hold next.*)
LEMMA Untouched ==
  ASSUME StoresApart, tok' = tok, home' = home, minted' = minted,
         disk' \in {disk, mem}, mem' \in {disk, mem}
  PROVE  StoresApart'
BY DEF StoresApart

LEMMA StoreChanged ==
  ASSUME StoresApart, tok' = tok, home' = home, minted' = minted,
         Apart(disk', tok, home, minted), Apart(mem', tok, home, minted)
  PROVE  StoresApart'
BY DEF StoresApart

(* Steps that edit neither a Database nor a store.                          *)
LEMMA QuietApart ==
  ASSUME JInv
  PROVE  (\/ RefuseUse
          \/ SettleSame
          \/ SettleForeign
          \/ ReadBack
          \/ Verify
          \/ FailForward
          \/ Restore
          \/ BeginRecover
          \/ RecoverKnown
          \/ RecoverUnknown
          \/ Reverify
          \/ RecoverRefused
          \/ PutBackRead
          \/ Interrupt
          \/ BeginSignOut
          \/ ClientStarts
          \/ ClientsClose)
           => StoresApart' /\ Agreed' /\ Reserved' /\ Explainable'
<1> USE DEF JInv, IInv, Basic
<1>1. CASE RefuseUse
  <2>1. StoresApart'
    BY <1>1, Untouched DEF RefuseUse, store, native, issuer, change, Goto, Return, GiveUp, Fault, Begin, PutBack, FirstWrite, Backout
  <2>2. Agreed'
    BY <1>1, SwitchAssumption DEF RefuseUse, store, native, issuer, change, Goto, Return, GiveUp, Fault, Begin, PutBack, FirstWrite, Backout, Agreed, Phase, JournalSteps, Unjournalled, Step, Target
  <2>3. Reserved'
    BY <1>1, SwitchAssumption DEF RefuseUse, store, native, issuer, change, Goto, Return, GiveUp, Fault, Begin, PutBack, FirstWrite, Backout, Reserved, Unkept, Target, Agreed
  <2>4. Explainable'
    BY <1>1, SwitchAssumption DEF RefuseUse, store, native, issuer, change, Goto, Return, GiveUp, Fault, Begin, PutBack, FirstWrite, Backout, Explainable
  <2>5. QED BY <2>1, <2>2, <2>3, <2>4
<1>2. CASE SettleSame
  <2>1. StoresApart'
    BY <1>2, Untouched DEF SettleSame, store, native, issuer, change, Goto, Return, GiveUp, Fault, Begin, PutBack, FirstWrite, Backout
  <2>2. Agreed'
    BY <1>2, SwitchAssumption DEF SettleSame, store, native, issuer, change, Goto, Return, GiveUp, Fault, Begin, PutBack, FirstWrite, Backout, Agreed, Phase, JournalSteps, Unjournalled, Step, Target
  <2>3. Reserved'
    BY <1>2, SwitchAssumption DEF SettleSame, store, native, issuer, change, Goto, Return, GiveUp, Fault, Begin, PutBack, FirstWrite, Backout, Reserved, Unkept, Target, Agreed
  <2>4. Explainable'
    BY <1>2, SwitchAssumption DEF SettleSame, store, native, issuer, change, Goto, Return, GiveUp, Fault, Begin, PutBack, FirstWrite, Backout, Explainable
  <2>5. QED BY <2>1, <2>2, <2>3, <2>4
<1>3. CASE SettleForeign
  <2>1. StoresApart'
    BY <1>3, Untouched DEF SettleForeign, store, native, issuer, change, Goto, Return, GiveUp, Fault, Begin, PutBack, FirstWrite, Backout
  <2>2. Agreed'
    BY <1>3, SwitchAssumption DEF SettleForeign, store, native, issuer, change, Goto, Return, GiveUp, Fault, Begin, PutBack, FirstWrite, Backout, Agreed, Phase, JournalSteps, Unjournalled, Step, Target
  <2>3. Reserved'
    BY <1>3, SwitchAssumption DEF SettleForeign, store, native, issuer, change, Goto, Return, GiveUp, Fault, Begin, PutBack, FirstWrite, Backout, Reserved, Unkept, Target, Agreed
  <2>4. Explainable'
    BY <1>3, SwitchAssumption DEF SettleForeign, store, native, issuer, change, Goto, Return, GiveUp, Fault, Begin, PutBack, FirstWrite, Backout, Explainable
  <2>5. QED BY <2>1, <2>2, <2>3, <2>4
<1>4. CASE ReadBack
  <2>1. StoresApart'
    BY <1>4, Untouched DEF ReadBack, store, native, issuer, change, Goto, Return, GiveUp, Fault, Begin, PutBack, FirstWrite, Backout
  <2>2. Agreed'
    BY <1>4, SwitchAssumption DEF ReadBack, store, native, issuer, change, Goto, Return, GiveUp, Fault, Begin, PutBack, FirstWrite, Backout, Agreed, Phase, JournalSteps, Unjournalled, Step, Target
  <2>3. Reserved'
    BY <1>4, SwitchAssumption DEF ReadBack, store, native, issuer, change, Goto, Return, GiveUp, Fault, Begin, PutBack, FirstWrite, Backout, Reserved, Unkept, Target, Agreed
  <2>4. Explainable'
    BY <1>4, SwitchAssumption DEF ReadBack, store, native, issuer, change, Goto, Return, GiveUp, Fault, Begin, PutBack, FirstWrite, Backout, Explainable
  <2>5. QED BY <2>1, <2>2, <2>3, <2>4
<1>5. CASE Verify
  <2>1. StoresApart'
    BY <1>5, Untouched DEF Verify, store, native, issuer, change, Goto, Return, GiveUp, Fault, Begin, PutBack, FirstWrite, Backout
  <2>2. Agreed'
    BY <1>5, SwitchAssumption DEF Verify, store, native, issuer, change, Goto, Return, GiveUp, Fault, Begin, PutBack, FirstWrite, Backout, Agreed, Phase, JournalSteps, Unjournalled, Step, Target
  <2>3. Reserved'
    BY <1>5, SwitchAssumption DEF Verify, store, native, issuer, change, Goto, Return, GiveUp, Fault, Begin, PutBack, FirstWrite, Backout, Reserved, Unkept, Target, Agreed
  <2>4. Explainable'
    BY <1>5, SwitchAssumption DEF Verify, store, native, issuer, change, Goto, Return, GiveUp, Fault, Begin, PutBack, FirstWrite, Backout, Explainable
  <2>5. QED BY <2>1, <2>2, <2>3, <2>4
<1>6. CASE FailForward
  <2>1. StoresApart'
    BY <1>6, Untouched DEF FailForward, store, native, issuer, change, Goto, Return, GiveUp, Fault, Begin, PutBack, FirstWrite, Backout
  <2>2. Agreed'
    BY <1>6, SwitchAssumption DEF FailForward, store, native, issuer, change, Goto, Return, GiveUp, Fault, Begin, PutBack, FirstWrite, Backout, Agreed, Phase, JournalSteps, Unjournalled, Step, Target
  <2>3. Reserved'
    BY <1>6, SwitchAssumption DEF FailForward, store, native, issuer, change, Goto, Return, GiveUp, Fault, Begin, PutBack, FirstWrite, Backout, Reserved, Unkept, Target, Agreed
  <2>4. Explainable'
    BY <1>6, SwitchAssumption DEF FailForward, store, native, issuer, change, Goto, Return, GiveUp, Fault, Begin, PutBack, FirstWrite, Backout, Explainable
  <2>5. QED BY <2>1, <2>2, <2>3, <2>4
<1>7. CASE Restore
  <2>1. StoresApart'
    BY <1>7, Untouched DEF Restore, store, native, issuer, change, Goto, Return, GiveUp, Fault, Begin, PutBack, FirstWrite, Backout
  <2>2. Agreed'
    BY <1>7, SwitchAssumption DEF Restore, store, native, issuer, change, Goto, Return, GiveUp, Fault, Begin, PutBack, FirstWrite, Backout, Agreed, Phase, JournalSteps, Unjournalled, Step, Target
  <2>3. Reserved'
    BY <1>7, SwitchAssumption DEF Restore, store, native, issuer, change, Goto, Return, GiveUp, Fault, Begin, PutBack, FirstWrite, Backout, Reserved, Unkept, Target, Agreed
  <2>4. Explainable'
    BY <1>7, SwitchAssumption DEF Restore, store, native, issuer, change, Goto, Return, GiveUp, Fault, Begin, PutBack, FirstWrite, Backout, Explainable
  <2>5. QED BY <2>1, <2>2, <2>3, <2>4
<1>8. CASE BeginRecover
  <2>1. StoresApart'
    BY <1>8, Untouched DEF BeginRecover, store, native, issuer, change, Goto, Return, GiveUp, Fault, Begin, PutBack, FirstWrite, Backout
  <2>2. Agreed'
    BY <1>8, SwitchAssumption DEF BeginRecover, store, native, issuer, change, Goto, Return, GiveUp, Fault, Begin, PutBack, FirstWrite, Backout, Agreed, Phase, JournalSteps, Unjournalled, Step, Target
  <2>3. Reserved'
    BY <1>8, SwitchAssumption DEF BeginRecover, store, native, issuer, change, Goto, Return, GiveUp, Fault, Begin, PutBack, FirstWrite, Backout, Reserved, Unkept, Target, Agreed
  <2>4. Explainable'
    BY <1>8, SwitchAssumption DEF BeginRecover, store, native, issuer, change, Goto, Return, GiveUp, Fault, Begin, PutBack, FirstWrite, Backout, Explainable
  <2>5. QED BY <2>1, <2>2, <2>3, <2>4
<1>9. CASE RecoverKnown
  <2>1. StoresApart'
    BY <1>9, Untouched DEF RecoverKnown, store, native, issuer, change, Goto, Return, GiveUp, Fault, Begin, PutBack, FirstWrite, Backout
  <2>2. Agreed'
    BY <1>9, SwitchAssumption DEF RecoverKnown, store, native, issuer, change, Goto, Return, GiveUp, Fault, Begin, PutBack, FirstWrite, Backout, Agreed, Phase, JournalSteps, Unjournalled, Step, Target
  <2>3. Reserved'
    BY <1>9, SwitchAssumption DEF RecoverKnown, store, native, issuer, change, Goto, Return, GiveUp, Fault, Begin, PutBack, FirstWrite, Backout, Reserved, Unkept, Target, Agreed
  <2>4. Explainable'
    BY <1>9, SwitchAssumption DEF RecoverKnown, store, native, issuer, change, Goto, Return, GiveUp, Fault, Begin, PutBack, FirstWrite, Backout, Explainable
  <2>5. QED BY <2>1, <2>2, <2>3, <2>4
<1>10. CASE RecoverUnknown
  <2>1. StoresApart'
    BY <1>10, Untouched DEF RecoverUnknown, store, native, issuer, change, Goto, Return, GiveUp, Fault, Begin, PutBack, FirstWrite, Backout
  <2>2. Agreed'
    BY <1>10, SwitchAssumption DEF RecoverUnknown, store, native, issuer, change, Goto, Return, GiveUp, Fault, Begin, PutBack, FirstWrite, Backout, Agreed, Phase, JournalSteps, Unjournalled, Step, Target
  <2>3. Reserved'
    BY <1>10, SwitchAssumption DEF RecoverUnknown, store, native, issuer, change, Goto, Return, GiveUp, Fault, Begin, PutBack, FirstWrite, Backout, Reserved, Unkept, Target, Agreed
  <2>4. Explainable'
    BY <1>10, SwitchAssumption DEF RecoverUnknown, store, native, issuer, change, Goto, Return, GiveUp, Fault, Begin, PutBack, FirstWrite, Backout, Explainable
  <2>5. QED BY <2>1, <2>2, <2>3, <2>4
<1>11. CASE Reverify
  <2>1. StoresApart'
    BY <1>11, Untouched DEF Reverify, store, native, issuer, change, Goto, Return, GiveUp, Fault, Begin, PutBack, FirstWrite, Backout
  <2>2. Agreed'
    BY <1>11, SwitchAssumption DEF Reverify, store, native, issuer, change, Goto, Return, GiveUp, Fault, Begin, PutBack, FirstWrite, Backout, Agreed, Phase, JournalSteps, Unjournalled, Step, Target
  <2>3. Reserved'
    BY <1>11, SwitchAssumption DEF Reverify, store, native, issuer, change, Goto, Return, GiveUp, Fault, Begin, PutBack, FirstWrite, Backout, Reserved, Unkept, Target, Agreed
  <2>4. Explainable'
    BY <1>11, SwitchAssumption DEF Reverify, store, native, issuer, change, Goto, Return, GiveUp, Fault, Begin, PutBack, FirstWrite, Backout, Explainable
  <2>5. QED BY <2>1, <2>2, <2>3, <2>4
<1>12. CASE RecoverRefused
  <2>1. StoresApart'
    BY <1>12, Untouched DEF RecoverRefused, store, native, issuer, change, Goto, Return, GiveUp, Fault, Begin, PutBack, FirstWrite, Backout
  <2>2. Agreed'
    BY <1>12, SwitchAssumption DEF RecoverRefused, store, native, issuer, change, Goto, Return, GiveUp, Fault, Begin, PutBack, FirstWrite, Backout, Agreed, Phase, JournalSteps, Unjournalled, Step, Target
  <2>3. Reserved'
    BY <1>12, SwitchAssumption DEF RecoverRefused, store, native, issuer, change, Goto, Return, GiveUp, Fault, Begin, PutBack, FirstWrite, Backout, Reserved, Unkept, Target, Agreed
  <2>4. Explainable'
    BY <1>12, SwitchAssumption DEF RecoverRefused, store, native, issuer, change, Goto, Return, GiveUp, Fault, Begin, PutBack, FirstWrite, Backout, Explainable
  <2>5. QED BY <2>1, <2>2, <2>3, <2>4
<1>13. CASE PutBackRead
  <2>1. StoresApart'
    BY <1>13, Untouched DEF PutBackRead, store, native, issuer, change, Goto, Return, GiveUp, Fault, Begin, PutBack, FirstWrite, Backout
  <2>2. Agreed'
    BY <1>13, SwitchAssumption DEF PutBackRead, store, native, issuer, change, Goto, Return, GiveUp, Fault, Begin, PutBack, FirstWrite, Backout, Agreed, Phase, JournalSteps, Unjournalled, Step, Target
  <2>3. Reserved'
    BY <1>13, SwitchAssumption DEF PutBackRead, store, native, issuer, change, Goto, Return, GiveUp, Fault, Begin, PutBack, FirstWrite, Backout, Reserved, Unkept, Target, Agreed
  <2>4. Explainable'
    BY <1>13, SwitchAssumption DEF PutBackRead, store, native, issuer, change, Goto, Return, GiveUp, Fault, Begin, PutBack, FirstWrite, Backout, Explainable
  <2>5. QED BY <2>1, <2>2, <2>3, <2>4
<1>14. CASE Interrupt
  <2>1. StoresApart'
    BY <1>14, Untouched DEF Interrupt, store, native, issuer, change, Goto, Return, GiveUp, Fault, Begin, PutBack, FirstWrite, Backout
  <2>2. Agreed'
    BY <1>14, SwitchAssumption DEF Interrupt, store, native, issuer, change, Goto, Return, GiveUp, Fault, Begin, PutBack, FirstWrite, Backout, Agreed, Phase, JournalSteps, Unjournalled, Step, Target
  <2>3. Reserved'
    BY <1>14, SwitchAssumption DEF Interrupt, store, native, issuer, change, Goto, Return, GiveUp, Fault, Begin, PutBack, FirstWrite, Backout, Reserved, Unkept, Target, Agreed
  <2>4. Explainable'
    BY <1>14, SwitchAssumption DEF Interrupt, store, native, issuer, change, Goto, Return, GiveUp, Fault, Begin, PutBack, FirstWrite, Backout, Explainable
  <2>5. QED BY <2>1, <2>2, <2>3, <2>4
<1>15. CASE BeginSignOut
  <2>1. StoresApart'
    BY <1>15, Untouched DEF BeginSignOut, store, native, issuer, change, Goto, Return, GiveUp, Fault, Begin, PutBack, FirstWrite, Backout
  <2>2. Agreed'
    BY <1>15, SwitchAssumption DEF BeginSignOut, store, native, issuer, change, Goto, Return, GiveUp, Fault, Begin, PutBack, FirstWrite, Backout, Agreed, Phase, JournalSteps, Unjournalled, Step, Target
  <2>3. Reserved'
    BY <1>15, SwitchAssumption DEF BeginSignOut, store, native, issuer, change, Goto, Return, GiveUp, Fault, Begin, PutBack, FirstWrite, Backout, Reserved, Unkept, Target, Agreed
  <2>4. Explainable'
    BY <1>15, SwitchAssumption DEF BeginSignOut, store, native, issuer, change, Goto, Return, GiveUp, Fault, Begin, PutBack, FirstWrite, Backout, Explainable
  <2>5. QED BY <2>1, <2>2, <2>3, <2>4
<1>16. CASE ClientStarts
  <2>1. StoresApart'
    BY <1>16, Untouched DEF ClientStarts, store, native, issuer, change, Goto, Return, GiveUp, Fault, Begin, PutBack, FirstWrite, Backout
  <2>2. Agreed'
    BY <1>16, SwitchAssumption DEF ClientStarts, store, native, issuer, change, Goto, Return, GiveUp, Fault, Begin, PutBack, FirstWrite, Backout, Agreed, Phase, JournalSteps, Unjournalled, Step, Target
  <2>3. Reserved'
    BY <1>16, SwitchAssumption DEF ClientStarts, store, native, issuer, change, Goto, Return, GiveUp, Fault, Begin, PutBack, FirstWrite, Backout, Reserved, Unkept, Target, Agreed
  <2>4. Explainable'
    BY <1>16, SwitchAssumption DEF ClientStarts, store, native, issuer, change, Goto, Return, GiveUp, Fault, Begin, PutBack, FirstWrite, Backout, Explainable
  <2>5. QED BY <2>1, <2>2, <2>3, <2>4
<1>17. CASE ClientsClose
  <2>1. StoresApart'
    BY <1>17, Untouched DEF ClientsClose, store, native, issuer, change, Goto, Return, GiveUp, Fault, Begin, PutBack, FirstWrite, Backout
  <2>2. Agreed'
    BY <1>17, SwitchAssumption DEF ClientsClose, store, native, issuer, change, Goto, Return, GiveUp, Fault, Begin, PutBack, FirstWrite, Backout, Agreed, Phase, JournalSteps, Unjournalled, Step, Target
  <2>3. Reserved'
    BY <1>17, SwitchAssumption DEF ClientsClose, store, native, issuer, change, Goto, Return, GiveUp, Fault, Begin, PutBack, FirstWrite, Backout, Reserved, Unkept, Target, Agreed
  <2>4. Explainable'
    BY <1>17, SwitchAssumption DEF ClientsClose, store, native, issuer, change, Goto, Return, GiveUp, Fault, Begin, PutBack, FirstWrite, Backout, Explainable
  <2>5. QED BY <2>1, <2>2, <2>3, <2>4
<1>99. QED BY <1>1, <1>2, <1>3, <1>4, <1>5, <1>6, <1>7, <1>8, <1>9, <1>10, <1>11, <1>12, <1>13, <1>14, <1>15, <1>16, <1>17

(* Native::write_locked: what reaches a store is the login the journal saved*)
(* or the one nothing else keeps any more.                                  *)
LEMMA WriteApart ==
  ASSUME JInv
  PROVE  WriteLabel \/ WriteAuth \/ Journalled \/ Unsettle \/ Finish
           => StoresApart' /\ Agreed' /\ Reserved' /\ Explainable'
<1>1. CASE WriteLabel
  <2>0. JInv /\ pc = "label" /\ Target \in Account /\ mem = disk /\ disk.journal # NoJournal
        /\ disk.journal.target = Target /\ SoundDatabase(disk)
    BY <1>1, TargetSound DEF WriteLabel, JInv, IInv, Phase, JournalSteps, Unjournalled, Step, Agreed
  <2>1. StoresApart'
    BY <1>1, Untouched DEF WriteLabel, Goto, store, issuer, JInv
  <2>2. Agreed'
    BY <1>1, <2>0 DEF WriteLabel, Goto, store, Agreed, JInv, JournalSteps, Unjournalled, Step, Target
  <2>3. Reserved'
    BY <1>1, <2>0 DEF WriteLabel, Goto, store, Reserved, Unkept, JInv, Target
  <2>4. Explained(disk, tok, label', live)
    <3>1. ClaudeCode
      BY <2>0 DEF JInv, IInv, Phase
    <3>2. label' \in {disk.journal.target, IdentityOf(disk.journal.outgoing), NoAccount}
      BY <1>1, <2>0, LoginSound DEF WriteLabel, Writing, Incoming, Outgoing, IdentityOf
    <3>3. tok # NoToken => tok.of # NoAccount
      BY VaultAssumption DEF JInv, IInv, Basic, MaybeToken, Token
    <3>4. QED BY <3>1, <3>2, <3>3 DEF Explained
  <2>5. Explainable'
    BY <1>1, <2>0, <2>4 DEF WriteLabel, Goto, store, issuer, Explainable
  <2>6. QED BY <2>1, <2>2, <2>3, <2>5
<1>2. CASE WriteAuth
  <2>0. pc = "auth" /\ Target \in Account /\ mem = disk /\ disk.journal # NoJournal
        /\ disk.journal.target = Target /\ SoundDatabase(disk)
    BY <1>2, TargetSound DEF WriteAuth, JInv, IInv, Phase, JournalSteps, Unjournalled, Step, Agreed
  <2>1. Apart(disk, tok, home, minted) /\ \A a \in Account : Fresh(home[a], minted)
    BY DEF JInv, StoresApart
  <2>2. Apart(disk, tok', home, minted)
    <3>1. CASE undo
      BY <1>2, <2>0, <2>1, <3>1, ApartPutBack DEF WriteAuth, Writing, Outgoing
    <3>2. CASE ~undo
      <4>1. Target \notin disk.owned /\ (Target \notin disk.homed \/ home[Target] = NoToken)
        BY <2>0, <3>2 DEF JInv, Reserved, Unkept
      <4>2. \A b \in Account : home[b] # NoToken => home[b] \in Token /\ home[b].of = b
        BY DEF JInv, IInv, HomesSound, MaybeToken
      <4>3. tok' = TokOf(disk.login[Target])
        BY <1>2, <2>0, <3>2 DEF WriteAuth, Writing, Incoming
      <4>4. QED BY <2>0, <2>1, <4>1, <4>2, <4>3, ApartWritten
    <3>3. QED BY <3>1, <3>2 DEF JInv, IInv, Basic
  <2>3. Fresh(tok', minted)
    BY <1>2, <2>0, <2>1 DEF WriteAuth, Writing, Incoming, Outgoing, Apart
  <2>4. StoresApart'
    BY <1>2, <2>0, <2>1, <2>2, <2>3 DEF WriteAuth, Goto, store, issuer, StoresApart
  <2>5. Agreed'
    BY <1>2, <2>0 DEF WriteAuth, Goto, store, Agreed, JInv, JournalSteps, Unjournalled, Step, Target
  <2>6. Reserved'
    BY <1>2, <2>0 DEF WriteAuth, Goto, store, Reserved, Unkept, JInv, Target
  <2>7. Explainable'
    BY <1>2, <2>0 DEF WriteAuth, Goto, store, issuer, Explainable, Explained, Writing, Incoming, Outgoing
  <2>8. QED BY <2>4, <2>5, <2>6, <2>7
<1>3. CASE Journalled
  <2>1. StoresApart'
    BY <1>3, Untouched DEF Journalled, Goto, native, issuer, JInv
  <2>2. Agreed'
    BY <1>3 DEF Journalled, Goto, Agreed, JInv, JournalSteps, Unjournalled, Step, Target
  <2>3. Reserved'
    BY <1>3 DEF Journalled, Goto, Reserved, Unkept, JInv, Target, Agreed
  <2>4. Explainable'
    BY <1>3 DEF Journalled, Goto, native, issuer, Explainable, JInv
  <2>5. QED BY <2>1, <2>2, <2>3, <2>4
<1>4. CASE Unsettle \/ Finish
  <2>1. /\ disk' = EndRecovery(mem) /\ mem' = disk' /\ pc' = "idle"
        /\ tok' = tok /\ home' = home /\ minted' = minted
    BY <1>4 DEF Unsettle, Finish, Return, native, issuer
  <2>2. SoundDatabase(mem) /\ Apart(mem, tok, home, minted) /\ StoresApart /\ mem.homed = disk.homed
    BY DEF JInv, IInv, StoresApart, Agreed
  <2>3. /\ Apart(EndRecovery(mem), tok, home, minted) /\ EndRecovery(mem).homed = mem.homed
        /\ EndRecovery(mem).journal = NoJournal
    BY <2>2, ApartEnd, EndSound
  <2>4. StoresApart'
    BY <2>1, <2>2, <2>3, StoreChanged
  <2>5. Agreed' /\ Reserved' /\ Explainable'
    BY <2>1, <2>3 DEF Agreed, Reserved, Explainable, JournalSteps
  <2>6. QED BY <2>4, <2>5
<1>5. QED BY <1>1, <1>2, <1>3, <1>4

(* The native login, saved or captured, is kept by no one else's store.     *)
LEMMA LiveSaved ==
  ASSUME JInv, Whole, Live # NoLogin, Identifiable(Live), NEW a \in Account,
         NEW db, SoundDatabase(db), Apart(db, tok, home, minted)
  PROVE  \A new \in {Save(db, a, Live), Capture(db, a, Live)} :
           /\ Apart(new, tok, home, minted) /\ new.homed = db.homed
           /\ new.owned \subseteq db.owned
           /\ new.journal = db.journal
<1>1. Live \in Login /\ Live.tok = tok /\ Fresh(tok, minted) /\ db \in Database
  BY NativeSound, LiveSound DEF JInv, StoresApart, SoundDatabase
<1>2. /\ Apart(Save(db, a, Live), tok, home, minted) /\ Apart(Capture(db, a, Live), tok, home, minted)
      /\ Save(db, a, Live).homed = db.homed /\ Capture(db, a, Live).homed = db.homed
  BY <1>1, ApartSave
<1>3. /\ Save(db, a, Live).owned = db.owned \ {a} /\ Save(db, a, Live).journal = db.journal
  <2>1. db \in Database /\ Live \in Login
    BY <1>1
  <2>2. QED BY <2>1 DEF Save, Database
<1>4. Capture(db, a, Live) \in {db, Save(db, a, Live)}
  BY DEF Capture
<1> DEFINE saved == Save(db, a, Live)
<1>5. /\ Apart(saved, tok, home, minted) /\ saved.homed = db.homed
      /\ saved.owned \subseteq db.owned /\ saved.journal = db.journal
  BY <1>2, <1>3
<1>6. Capture(db, a, Live) \in {db, saved}
  BY <1>4
<1> HIDE DEF saved
<1>7. QED BY <1>5, <1>6 DEF saved

(* The journal that begins, and the one a renewal is moved into.            *)
LEMMA CapturedApart ==
  ASSUME JInv, Whole, Identifiable(Live), pc # "idle"
  PROVE  /\ SoundDatabase(CapturedOutgoing) /\ Apart(CapturedOutgoing, tok, home, minted)
         /\ CapturedOutgoing.homed = mem.homed /\ CapturedOutgoing.owned \subseteq mem.owned
         /\ CapturedOutgoing.journal = mem.journal
<1>1. SoundDatabase(mem) /\ Apart(mem, tok, home, minted)
  BY DEF JInv, IInv, StoresApart
<1>2. CASE IdentityOf(Live) \in {NoAccount, Target}
  BY <1>1, <1>2 DEF CapturedOutgoing
<1>3. CASE IdentityOf(Live) \notin {NoAccount, Target}
  <2>1. Live # NoLogin /\ IdentityOf(Live) = Live.as
    BY <1>3 DEF IdentityOf
  <2>2. Live \in Login /\ Live.as \in Account /\ Live.tok.of = Live.as
    BY <2>1, NativeSound DEF JInv
  <2>3. CapturedOutgoing = Capture(mem, Live.as, Live)
    BY <1>3, <2>1 DEF CapturedOutgoing
  <2>4. SoundDatabase(CapturedOutgoing)
    BY <1>1, <2>2, <2>3, CaptureSound
  <2>5. QED BY <1>1, <2>1, <2>2, <2>3, <2>4, LiveSaved
<1>4. QED BY <1>2, <1>3

LEMMA SwitchApart ==
  ASSUME JInv
  PROVE  EmptyHome \/ RefreshSaved \/ Prepare \/ SettleRenewed \/ Confirm
           => StoresApart' /\ Agreed' /\ Reserved' /\ Explainable'
<1>0. /\ SoundDatabase(mem) /\ Apart(mem, tok, home, minted) /\ mem.homed = disk.homed
      /\ SoundDatabase(disk) /\ Apart(disk, tok, home, minted)
      /\ Fresh(tok, minted) /\ \A a \in Account : Fresh(home[a], minted)
      /\ StoresApart /\ IInv /\ Live \in MaybeLogin /\ TokOf(Live) = tok
  BY LiveSound DEF JInv, IInv, StoresApart, Agreed
<1>1. CASE EmptyHome
  <2>1. pc = "empty" /\ Target \in Account /\ mem = disk /\ disk.journal = NoJournal
        /\ home \in [Account -> MaybeToken]
    BY <1>1, <1>0, TargetSound DEF EmptyHome, IInv, Phase, Unjournalled, HomesSound
  <2>2. \A a \in Account : home'[a] \in {home[a], NoToken}
    BY <1>1, <2>1 DEF EmptyHome
  <2>3. Apart(disk, tok, home', minted) /\ Apart(mem, tok, home', minted)
    BY <1>0, <2>2, ApartEmptied
  <2>4. StoresApart'
    BY <1>0, <1>1, <2>2, <2>3 DEF EmptyHome, store, native, issuer, StoresApart, Fresh
  <2>5. home'[Target] = NoToken
    BY <1>1, <2>1 DEF EmptyHome
  <2>6. Reserved'
    BY <1>1, <2>5 DEF EmptyHome, Reserved, Unkept, Target
  <2>7. Agreed' /\ Explainable'
    BY <1>0, <1>1, <2>1 DEF EmptyHome, Agreed, Explainable, JournalSteps, Unjournalled, store
  <2>8. QED BY <2>4, <2>6, <2>7
<1>2. CASE RefreshSaved
  <2>1. Target \in Account /\ Whole /\ mem.journal = NoJournal
    BY <1>0, <1>2, TargetSound DEF RefreshSaved, IInv, Phase, Halves, Unjournalled, Halved
  <2>2. Live # NoLogin /\ Identifiable(Live)
    BY <1>2, <2>1, VaultAssumption DEF RefreshSaved, AlreadyNative, IdentityOf, Identifiable
  <2>3. /\ disk' = Save(mem, Target, Live) /\ mem' = disk' /\ pc' = "idle"
        /\ tok' = tok /\ home' = home /\ minted' = minted
    BY <1>2 DEF RefreshSaved, Return, native, issuer
  <2>4. Apart(disk', tok, home, minted) /\ disk'.journal = NoJournal
    BY <1>0, <2>1, <2>2, <2>3, LiveSaved
  <2>5. StoresApart'
    BY <1>0, <2>3, <2>4, StoreChanged
  <2>6. Agreed' /\ Reserved' /\ Explainable'
    BY <2>3, <2>4 DEF Agreed, Reserved, Explainable, JournalSteps
  <2>7. QED BY <2>5, <2>6
<1>3. CASE Prepare
  <2>1. /\ pc = "activate" /\ Identifiable(Live) /\ Target \in Account /\ Whole
        /\ disk.journal = NoJournal /\ mem = disk
    BY <1>0, <1>3, TargetSound DEF Prepare, IInv, Phase, Halves, Unjournalled, Halved
  <2>2. /\ pc' = "begin" /\ disk' = disk /\ act' = act /\ Target' = Target /\ undo' = undo
        /\ tok' = tok /\ label' = label /\ live' = live /\ home' = home /\ minted' = minted
        /\ outside' = outside
    BY <1>3 DEF Prepare, Goto, native, issuer, Target
  <2>3. mem' = BeginRecovery([CapturedOutgoing EXCEPT !.owned = @ \ {Target}],
                             [target |-> Target, outgoing |-> Live])
    BY <1>3 DEF Prepare, Journalling
  <2>4. /\ SoundDatabase(CapturedOutgoing) /\ Apart(CapturedOutgoing, tok, home, minted)
        /\ CapturedOutgoing.homed = mem.homed
    BY <2>1, CapturedApart
  <2>5. /\ Apart(mem', tok, home, minted) /\ mem'.homed = disk.homed
        /\ Target \notin mem'.owned
        /\ mem'.journal.target = Target /\ mem'.journal.outgoing = Live
    BY <1>0, <2>1, <2>3, <2>4, ApartJournal
  <2>6. StoresApart'
    BY <1>0, <2>2, <2>5, StoreChanged
  <2>7. Agreed'
    BY <2>2, <2>5 DEF Agreed, JournalSteps
  <2>8. Reserved'
    BY <2>1, <2>2, <2>5 DEF JInv, Reserved, Unkept
  <2>9. Explainable'
    BY <1>0, <2>1, <2>2, <2>5 DEF Explainable, Explained
  <2>10. QED BY <2>6, <2>7, <2>8, <2>9
<1>4. CASE SettleRenewed
  <2>1. /\ pc = "settle" /\ Identifiable(Live) /\ Target \in Account /\ Whole /\ mem = disk
        /\ mem.journal # NoJournal /\ disk.journal.target = Target
    BY <1>0, <1>4, TargetSound
       DEF SettleRenewed, JInv, Agreed, IInv, Phase, Halves, JournalSteps, Unjournalled, Halved, Step
  <2>2. /\ pc' \in {"label", "auth"} /\ mem' = disk' /\ act' = act /\ Target' = Target /\ undo' = undo
        /\ tok' = tok /\ label' = label /\ live' = live /\ home' = home /\ minted' = minted
        /\ outside' = outside
    BY <1>4 DEF SettleRenewed, Goto, native, issuer, Target, FirstWrite
  <2>3. disk' = [CapturedOutgoing EXCEPT !.journal.outgoing = Live]
    BY <1>4 DEF SettleRenewed
  <2>4. /\ SoundDatabase(CapturedOutgoing) /\ Apart(CapturedOutgoing, tok, home, minted)
        /\ CapturedOutgoing.homed = mem.homed /\ CapturedOutgoing.owned \subseteq mem.owned
        /\ CapturedOutgoing.journal = mem.journal
    BY <2>1, CapturedApart
  <2>5. /\ Apart(disk', tok, home, minted) /\ disk'.homed = CapturedOutgoing.homed
        /\ disk'.owned = CapturedOutgoing.owned
        /\ disk'.journal.target = CapturedOutgoing.journal.target /\ disk'.journal.outgoing = Live
    <3> DEFINE c == CapturedOutgoing
               k == [c.journal EXCEPT !.outgoing = Live]
    <3>1. SoundDatabase(c) /\ Apart(c, tok, home, minted) /\ c.journal # NoJournal
      BY <2>1, <2>4
    <3>2. disk' = [c EXCEPT !.journal.outgoing = Live]
      BY <2>3
    <3> HIDE DEF c
    <3>3. disk' = [c EXCEPT !.journal = k]
      BY <3>2
    <3>4. c.journal \in Journal
      BY <3>1 DEF SoundDatabase, Database
    <3>5. k \in Journal /\ k.outgoing = Live /\ k.target = c.journal.target
      BY <1>0, <3>4 DEF Journal
    <3> HIDE DEF k
    <3>6. /\ Apart(disk', tok, home, minted) /\ disk'.homed = c.homed /\ disk'.owned = c.owned
          /\ disk'.journal = k
      BY <1>0, <3>1, <3>3, <3>5, ApartOutgoing
    <3>7. QED BY <3>5, <3>6 DEF c
  <2>6. StoresApart'
    BY <1>0, <2>2, <2>5, StoreChanged
  <2>7. Agreed'
    BY <2>1, <2>2, <2>4, <2>5 DEF Agreed
  <2>8. Reserved'
    BY <2>1, <2>2, <2>4, <2>5 DEF JInv, Reserved, Unkept
  <2>9. Explainable'
    BY <1>0, <2>1, <2>2, <2>5 DEF Explainable, Explained
  <2>10. QED BY <2>6, <2>7, <2>8, <2>9
<1>5. CASE Confirm
  <2>1. pc = "confirm" /\ Target \in Account /\ Whole /\ mem = disk
    BY <1>0, <1>5, TargetSound DEF Confirm, JInv, Agreed, IInv, Phase, Halves, Halved
  <2>2. /\ pc' \in {"finish", "restore", "recover"} /\ disk' = disk /\ act' = act /\ Target' = Target
        /\ tok' = tok /\ label' = label /\ live' = live /\ home' = home /\ minted' = minted
        /\ outside' = outside /\ (mem' = mem \/ pc' = "finish")
    BY <1>5 DEF Confirm, Goto, Backout, native, issuer, Target
  <2>3. Apart(mem', tok, home, minted) /\ mem'.homed = mem.homed /\ mem'.journal = mem.journal
    <3>1. CASE Live # NoLogin /\ Live.as = Target
      <4>1. mem' = Save(mem, Target, Live) /\ Identifiable(Live)
        BY <1>5, <2>1, <3>1 DEF Confirm, Identifiable
      <4>2. QED BY <1>0, <2>1, <3>1, <4>1, LiveSaved
    <3>2. CASE ~(Live # NoLogin /\ Live.as = Target)
      BY <1>0, <1>5, <3>2 DEF Confirm
    <3>3. QED BY <3>1, <3>2
  <2>4. StoresApart'
    BY <1>0, <2>2, <2>3, StoreChanged
  <2>5. Agreed'
    BY <1>0, <2>1, <2>2, <2>3 DEF JInv, Agreed, JournalSteps, Unjournalled, Step
  <2>6. Reserved' /\ Explainable'
    BY <2>1, <2>2 DEF JInv, Reserved, Explainable
  <2>7. QED BY <2>4, <2>5, <2>6
<1>6. QED BY <1>1, <1>2, <1>3, <1>4, <1>5

LEMMA RecoverApart ==
  ASSUME JInv
  PROVE  KeepNative \/ SaveNative => StoresApart' /\ Agreed' /\ Reserved' /\ Explainable'
<1>0. /\ SoundDatabase(mem) /\ Apart(mem, tok, home, minted) /\ mem.homed = disk.homed
      /\ Apart(disk, tok, home, minted)
      /\ StoresApart /\ IInv /\ TokOf(Live) = tok
  BY LiveSound DEF JInv, IInv, StoresApart, Agreed
<1>1. CASE KeepNative
  <2>1. /\ pc = "reread" /\ Whole /\ Live # NoLogin /\ Identifiable(Live) /\ mem = disk
        /\ Live.as \in Account /\ mem' = Capture(mem, Live.as, Live)
    BY <1>0, <1>1 DEF KeepNative, JInv, Agreed, IInv, Halves, Halved, Identifiable
  <2>2. /\ pc' = "readback" /\ undo' = TRUE /\ disk' = disk /\ act' = act /\ Target' = Target
        /\ tok' = tok /\ label' = label /\ live' = live /\ home' = home /\ minted' = minted
        /\ outside' = outside
    BY <1>1 DEF KeepNative, native, issuer, Target
  <2>3. Apart(mem', tok, home, minted) /\ mem'.homed = mem.homed /\ mem'.journal = mem.journal
    BY <1>0, <2>1, LiveSaved
  <2>4. StoresApart'
    BY <1>0, <2>2, <2>3, StoreChanged
  <2>5. Agreed'
    BY <1>0, <2>1, <2>2, <2>3 DEF JInv, Agreed, JournalSteps, Unjournalled, Step
  <2>6. Reserved' /\ Explainable'
    BY <2>1, <2>2 DEF JInv, Reserved, Explainable
  <2>7. QED BY <2>4, <2>5, <2>6
<1>2. CASE SaveNative
  <2>1. /\ pc = "reread" /\ Whole /\ Live # NoLogin /\ mem = disk
        /\ Target \in Account /\ Live.as = Target /\ disk' = Save(mem, Target, Live)
        /\ disk.journal.target = Target /\ Live \in Login
    BY <1>0, <1>2, TargetSound, LiveSound
       DEF SaveNative, JInv, Agreed, IInv, Halves, Halved, JournalSteps, Unjournalled, Step, MaybeLogin
  <2>2. /\ pc' \in {"label", "auth"} /\ undo' = TRUE /\ mem' = disk' /\ act' = act /\ Target' = Target
        /\ tok' = tok /\ label' = label /\ live' = live /\ home' = home /\ minted' = minted
        /\ outside' = outside
    BY <1>2 DEF SaveNative, PutBack, FirstWrite, native, issuer, Target
  <2>3. Apart(disk', tok, home, minted) /\ disk'.homed = mem.homed /\ disk'.journal = mem.journal
    BY <1>0, <2>1, LiveSaved DEF Identifiable
  <2>4. StoresApart'
    BY <1>0, <2>2, <2>3, StoreChanged
  <2>5. Agreed'
    BY <2>1, <2>2, <2>3 DEF Agreed, JournalSteps, Unjournalled, Step
  <2>6. Reserved'
    BY <2>2 DEF Reserved
  <2>7. disk'.login[Target] = Live
    <3>1. mem \in Database /\ mem.login \in [Account -> MaybeLogin]
      BY <1>0 DEF SoundDatabase, Database
    <3>2. disk'.login = [mem.login EXCEPT ![Target] = Live]
      BY <2>1, <3>1, SaveFields
    <3>3. QED BY <2>1, <3>1, <3>2
  <2>8. Explainable'
    BY <1>0, <2>1, <2>2, <2>3, <2>7 DEF Explainable, Explained
  <2>9. QED BY <2>4, <2>5, <2>6, <2>8
<1>3. QED BY <1>1, <1>2

(* check_out moves a login from its home: its generation was in no other    *)
(* store, and it becomes no one else's.                                     *)
LEMMA CheckOutApart ==
  ASSUME JInv, NEW a \in Account, a \in disk.homed, home[a] # NoToken
  PROVE  Apart(CheckedOut(a), tok, home, minted) /\ CheckedOut(a).homed = disk.homed
<1>1. /\ disk.login \in [Account -> MaybeLogin] /\ disk.owned \subseteq Account
      /\ Apart(disk, tok, home, minted) /\ Fresh(home[a], minted) /\ home[a] \in Token
  BY DEF JInv, IInv, SoundDatabase, Database, StoresApart, HomesSound, MaybeToken
<1>2. TokOf(LoginOf(home[a])) = home[a]
  BY <1>1, FirstSound, AbsentAssumption DEF TokOf, LoginOf, Login, Token
<1> DEFINE l == IF disk.login[a] = NoLogin THEN LoginOf(home[a]) ELSE disk.login[a]
           new == [disk EXCEPT !.login = [disk.login EXCEPT ![a] = l]]
<1>3. CheckedOut(a) = new
  BY DEF CheckedOut
<1>4. l # disk.login[a] => TokOf(l) = home[a]
  BY <1>2
<1> HIDE DEF l
<1>5. /\ new.login = [disk.login EXCEPT ![a] = l] /\ new.homed = disk.homed
      /\ new.owned = disk.owned /\ new.journal = disk.journal
  BY DEF JInv, IInv, SoundDatabase, Database
<1> HIDE DEF new
<1>6. \A b \in Account : new.login[b] = IF b = a THEN l ELSE disk.login[b]
  BY <1>1, <1>5
<1>7. \A b \in Account : new.login[b] = disk.login[b] \/ (b = a /\ TokOf(new.login[b]) = home[a])
  BY <1>4, <1>6
<1>8. QED BY <1>1, <1>3, <1>5, <1>7 DEF Apart

LEMMA UseApart ==
  ASSUME JInv, NEW a \in Account, NEW alongside \in BOOLEAN
  PROVE  BeginUse(a, alongside) => StoresApart' /\ Agreed' /\ Reserved' /\ Explainable'
<1> SUFFICES ASSUME BeginUse(a, alongside)
             PROVE  StoresApart' /\ Agreed' /\ Reserved' /\ Explainable'
  OBVIOUS
<1>0. Apart(disk, tok, home, minted) /\ StoresApart
  BY DEF JInv, StoresApart
<1>1. /\ pc' \in {"empty", "activate"} /\ Target' = a /\ mem' = disk' /\ disk.journal = NoJournal
      /\ tok' = tok /\ home' = home /\ minted' = minted
      /\ \/ pc' = "empty" /\ a \in disk.homed /\ home[a] # NoToken /\ disk' = CheckedOut(a)
         \/ pc' = "activate" /\ (a \notin disk.homed \/ home[a] = NoToken) /\ disk' = disk
  BY DEF BeginUse, Begin, native, issuer, Target
<1>2. Apart(disk', tok, home, minted) /\ disk'.homed = disk.homed /\ disk'.journal = NoJournal
  BY <1>0, <1>1, CheckOutApart, CheckOutSound DEF JInv
<1>3. StoresApart'
  BY <1>0, <1>1, <1>2, StoreChanged
<1>4. Agreed' /\ Explainable'
  BY <1>1, <1>2 DEF Agreed, Explainable, JournalSteps, Unjournalled, Step
<1>5. Reserved'
  BY <1>1 DEF Reserved, Unkept
<1>6. QED BY <1>3, <1>4, <1>5

LEMMA SignOutApart ==
  ASSUME JInv
  PROVE  Forget \/ Logout => StoresApart' /\ Agreed' /\ Reserved' /\ Explainable'
<1>0. /\ SoundDatabase(disk) /\ Apart(disk, tok, home, minted) /\ StoresApart
      /\ Fresh(tok, minted) /\ \A a \in Account : Fresh(home[a], minted)
      /\ Apart(disk, NoToken, home, minted)
  BY ApartEmptied DEF JInv, IInv, StoresApart
<1>1. CASE Forget
  <2> DEFINE W == disk.saved \cap SameUser(Target)
  <2>1. /\ disk' = SignOutUser(disk, W) /\ mem' = disk' /\ pc' = "logout" /\ disk.journal = NoJournal
        /\ tok' = tok /\ minted' = minted /\ W \in SUBSET Account
        /\ \A a \in Account : home'[a] \in {home[a], NoToken}
    BY <1>1 DEF Forget, native, issuer, SameUser, JInv, IInv, Phase, Unjournalled
  <2> HIDE DEF W
  <2>2. Apart(disk', tok, home, minted) /\ SoundDatabase(disk') /\ disk'.journal = NoJournal
    BY <1>0, <2>1, ApartSignedOut, SignOutSound
  <2>3. Apart(disk', tok, home', minted)
    BY <2>1, <2>2, ApartEmptied
  <2>4. StoresApart'
    BY <1>0, <2>1, <2>3 DEF StoresApart, Fresh
  <2>5. Agreed' /\ Reserved' /\ Explainable'
    BY <2>1, <2>2 DEF Agreed, Reserved, Explainable, JournalSteps, Unjournalled
  <2>6. QED BY <2>4, <2>5
<1>2. CASE Logout
  <2>1. /\ disk' = disk /\ mem' = disk /\ pc' = "idle" /\ disk.journal = NoJournal
        /\ tok' = NoToken /\ minted' = minted /\ home' = home
    BY <1>2 DEF Logout, Return, issuer, JInv, IInv, Phase, Unjournalled
  <2>2. StoresApart'
    BY <1>0, <2>1 DEF StoresApart, Fresh
  <2>3. Agreed' /\ Reserved' /\ Explainable'
    BY <2>1 DEF Agreed, Reserved, Explainable, JournalSteps
  <2>4. QED BY <2>2, <2>3
<1>3. QED BY <1>1, <1>2

(* A publication while no journal waits: what it has to say of the stores.  *)
LEMMA Published ==
  ASSUME pc' \in {"idle", "forget"}, mem' = disk', disk'.journal = NoJournal
  PROVE  Agreed' /\ Reserved' /\ Explainable'
BY DEF Agreed, Reserved, Explainable, JournalSteps, Unjournalled

LEMMA VaultApart ==
  ASSUME JInv
  PROVE  Vault => StoresApart' /\ Agreed' /\ Reserved' /\ Explainable'
<1>0. /\ SoundDatabase(disk) /\ Apart(disk, tok, home, minted) /\ StoresApart /\ IInv
      /\ Fresh(tok, minted) /\ (\A a \in Account : Fresh(home[a], minted))
      /\ tok \in MaybeToken /\ minted \in Nat /\ home \in [Account -> MaybeToken]
  BY DEF JInv, IInv, StoresApart, Basic, HomesSound
<1>1. CASE SaveCurrent \/ Remember
  <2> DEFINE again == IF SaveCurrent THEN Reenroll(disk, Live.as) ELSE disk
  <2>1. /\ pc \in {"idle", "forget"} /\ pc' = pc /\ mem' = disk' /\ disk.journal = NoJournal
        /\ tok' = tok /\ minted' = minted /\ home' = home
        /\ Live # NoLogin /\ Identifiable(Live)
    BY <1>1 DEF SaveCurrent, Remember, Publish, Verified, native, issuer, change
  <2>2. Whole /\ Live.as \in Account
    BY <2>1, <1>0 DEF IInv, Halves, Identifiable
  <2>3. disk' = Save(again, Live.as, Live)
    BY <1>1 DEF SaveCurrent, Remember, Publish
  <2>4. SoundDatabase(again) /\ Apart(again, tok, home, minted) /\ again.journal = NoJournal
    BY <1>0, <2>1, <2>2, ApartReenrolled, RemoveSound
  <2> HIDE DEF again
  <2>5. Apart(disk', tok, home, minted) /\ disk'.journal = NoJournal
    BY <2>1, <2>2, <2>3, <2>4, LiveSaved
  <2>6. StoresApart'
    BY <1>0, <2>1, <2>5, StoreChanged
  <2>7. QED BY <2>1, <2>5, <2>6, Published
<1>2. ASSUME NEW a \in Account, Remove(a)
      PROVE  StoresApart' /\ Agreed' /\ Reserved' /\ Explainable'
  <2>1. /\ pc' \in {"idle", "forget"} /\ mem' = disk' /\ disk' = RemoveProfile(disk, a)
        /\ tok' = tok /\ minted' = minted /\ disk.journal = NoJournal
        /\ \A b \in Account : home'[b] \in {home[b], NoToken}
    BY <1>0, <1>2 DEF Remove, Publish, native, issuer, change
  <2>2. Apart(disk', tok, home, minted) /\ SoundDatabase(disk') /\ disk'.journal = NoJournal
    BY <1>0, <2>1, ApartRemoved, RemoveSound
  <2>3. Apart(disk', tok, home', minted)
    BY <2>1, <2>2, ApartEmptied
  <2>4. StoresApart'
    BY <1>0, <2>1, <2>3 DEF StoresApart, Fresh
  <2>5. QED BY <2>1, <2>2, <2>4, Published
<1>3. ASSUME NEW a \in Account, SignIn(a)
      PROVE  StoresApart' /\ Agreed' /\ Reserved' /\ Explainable'
  <2> DEFINE new == [of |-> a, gen |-> NextGen]
             l   == LoginOf(new)
  <2>1. /\ pc' \in {"idle", "forget"} /\ mem' = disk' /\ disk' = PublishSignIn(disk, a, l, ~ClaudeCode)
        /\ tok' = tok /\ minted' = minted + 1 /\ disk.journal = NoJournal
        /\ \A b \in Account : home'[b] \in {home[b], NoToken}
    BY <1>0, <1>3 DEF SignIn, Publish, Mint, NextGen, native, change
  <2>2. new \in Token /\ new.gen = minted + 1 /\ l \in Login /\ l.tok = new /\ l.tok.of = a /\ l.as = a
    BY <1>0, <1>3, MintSound, FirstSound DEF SignIn, LoginOf, NextGen
  <2> HIDE DEF new, l
  <2>3. Apart(disk, tok, home, minted + 1)
    BY <1>0, <2>2, ApartMinted
  <2>4. \A u \in MaybeToken : Fresh(u, minted) => Fresh(u, minted + 1) /\ u # new
    BY <1>0, <2>2, AbsentAssumption DEF Fresh, MaybeToken, Token, Gen
  <2>5. Apart(disk', tok, home, minted + 1) /\ SoundDatabase(disk') /\ disk'.journal = NoJournal
    <3>1. Fresh(l.tok, minted + 1) /\ l.tok # tok
      BY <1>0, <2>2, <2>4 DEF Fresh
    <3>2. (~ClaudeCode) \in BOOLEAN
      BY SwitchAssumption
    <3>3. Apart(disk', tok, home, minted + 1)
      BY <1>0, <2>1, <2>2, <2>3, <3>1, <3>2, ApartPublish
    <3>4. SoundDatabase(disk') /\ disk'.journal = disk.journal
      BY <1>0, <2>1, <2>2, <3>2, PublishSound
    <3>5. QED BY <2>1, <3>3, <3>4
  <2>6. Apart(disk', tok, home', minted + 1)
    BY <2>1, <2>5, ApartEmptied
  <2>7. StoresApart'
    BY <1>0, <2>1, <2>4, <2>6 DEF StoresApart, Fresh
  <2>8. QED BY <2>1, <2>5, <2>7, Published
<1>4. QED BY <1>1, <1>2, <1>3 DEF Vault

(* A token that is renewed or signed in with is kept by no store yet; one   *)
(* spent in a home was never the native one.                                *)
LEMMA WorldApart ==
  ASSUME JInv
  PROVE  World => StoresApart' /\ Agreed' /\ Reserved' /\ Explainable'
<1>0. /\ SoundDatabase(disk) /\ Apart(disk, tok, home, minted) /\ StoresApart /\ IInv
      /\ SoundDatabase(mem) /\ Apart(mem, tok, home, minted)
      /\ Fresh(tok, minted) /\ (\A a \in Account : Fresh(home[a], minted))
      /\ tok \in MaybeToken /\ minted \in Nat /\ home \in [Account -> MaybeToken]
      /\ JInv
  BY DEF JInv, IInv, StoresApart, Basic, HomesSound
<1>f. \A u \in MaybeToken : Fresh(u, minted) => Fresh(u, minted + 1)
  BY <1>0 DEF Fresh, MaybeToken, Token, Gen
<1>1. CASE ClientRenews
  <2> DEFINE new == [of |-> tok.of, gen |-> NextGen]
  <2>0. tok \in Token /\ tok.of \in Account
    BY <1>0, <1>1 DEF ClientRenews, IInv, Basic, Token
  <2>1. /\ disk' = disk /\ mem' = mem /\ pc' = pc /\ act' = act /\ undo' = undo /\ home' = home
        /\ label' = label /\ outside' = outside /\ Target' = Target
        /\ minted' = minted + 1 /\ tok' = new
    BY <1>1 DEF ClientRenews, Mint, NextGen, store, change, Target
  <2>2. new \in Token /\ new.gen = minted + 1 /\ new.of = tok.of /\ new \in live'
    BY <1>0, <1>1, <2>0, MintSound DEF ClientRenews, NextGen, Mint
  <2> HIDE DEF new
  <2>3. StoresApart'
    <3>1. Apart(disk, new, home, minted + 1) /\ Apart(mem, new, home, minted + 1)
      BY <1>0, <2>2, ApartMinted
    <3>2. Fresh(new, minted + 1)
      BY <1>0, <2>2 DEF Fresh
    <3>3. QED BY <1>0, <1>f, <2>1, <3>1, <3>2 DEF StoresApart
  <2>4. Agreed' /\ Reserved'
    BY <1>0, <2>1 DEF JInv, Agreed, Reserved, Unkept
  <2>5. ASSUME NEW db, SoundDatabase(db), db.journal # NoJournal, Explained(db, tok, label, live)
        PROVE  Explained(db, new, label, live')
    <3>1. /\ db.journal.target \in Account /\ db.journal.outgoing \in MaybeLogin
          /\ Coherent(db.journal.outgoing) /\ tok # NoToken
      BY <2>0, <2>5, LoginSound, AbsentAssumption
    <3>2. CASE label # tok.of
      BY <2>2, <3>2 DEF Explained
    <3>3. CASE tok = TokOf(db.journal.outgoing) /\ label = tok.of
      BY <2>2, <3>1, <3>3 DEF Explained, Coherent, TokOf, IdentityOf
    <3>4. CASE tok = TokOf(db.login[db.journal.target]) /\ label = tok.of
      BY <2>2, <2>5, <3>1, <3>4, LoginSound DEF Explained, TokOf
    <3>5. CASE label \in {db.journal.target, IdentityOf(db.journal.outgoing)}
      BY <2>2, <3>5 DEF Explained
    <3>6. QED BY <2>5, <3>1, <3>2, <3>3, <3>4, <3>5 DEF Explained
  <2>6. Explainable'
    <3>1. pc = "begin" => mem.journal # NoJournal
      BY <1>0 DEF IInv, Phase
    <3>2. QED BY <1>0, <2>1, <2>5, <3>1 DEF JInv, Explainable
  <2>7. QED BY <2>3, <2>4, <2>6
<1>2. ASSUME NEW a \in Account, HomeRenews(a)
      PROVE  StoresApart' /\ Agreed' /\ Reserved' /\ Explainable'
  <2> DEFINE new == [of |-> a, gen |-> NextGen]
  <2>1. /\ disk' = disk /\ mem' = mem /\ pc = "idle" /\ pc' = pc /\ act' = act /\ tok' = tok
        /\ label' = label /\ outside' = outside
        /\ minted' = minted + 1 /\ home' = [home EXCEPT ![a] = new]
        /\ a \in disk.homed /\ home[a] \in live /\ live' = (live \ {home[a]}) \cup {new}
    BY <1>2 DEF HomeRenews, Mint, NextGen, store, native, change
  <2>2. new \in Token /\ new.gen = minted + 1
    BY <1>0, <1>2, MintSound DEF HomeRenews, NextGen
  <2> HIDE DEF new
  <2>3. StoresApart'
    <3>1. Apart(disk, tok, home', minted + 1) /\ Apart(mem, tok, home', minted + 1)
      BY <1>0, <2>1, <2>2, ApartMinted
    <3>2. Fresh(new, minted + 1)
      BY <1>0, <2>2 DEF Fresh
    <3>3. \A b \in Account : home'[b] \in {home[b], new}
      BY <1>0, <2>1
    <3>4. QED BY <1>0, <1>f, <2>1, <3>1, <3>2, <3>3 DEF StoresApart
  <2>4. Agreed' /\ Reserved'
    BY <1>0, <2>1 DEF JInv, Agreed, Reserved, Unkept, JournalSteps
  <2>5. home[a] # NoToken /\ home[a] # tok
    BY <1>0, <2>1, AbsentAssumption DEF Apart, IInv, Basic
  <2>6. Explainable'
    BY <1>0, <2>1, <2>5 DEF JInv, Explainable, Explained
  <2>7. QED BY <2>3, <2>4, <2>6
<1>3. ASSUME NEW a \in Account, UserSignsIn(a)
      PROVE  StoresApart' /\ Agreed' /\ Reserved' /\ Explainable'
  <2> DEFINE new == [of |-> a, gen |-> NextGen]
  <2>1. /\ disk' = disk /\ mem' = mem /\ pc' = pc /\ act' = act /\ undo' = undo /\ home' = home
        /\ Target' = Target /\ minted' = minted + 1 /\ tok' = new
        /\ ~outside' => pc = "idle" /\ disk.journal = NoJournal
    BY <1>3 DEF UserSignsIn, Outside, Mint, NextGen, store, change, Target
  <2>2. new \in Token /\ new.gen = minted + 1
    BY <1>0, <1>3, MintSound DEF UserSignsIn, NextGen
  <2> HIDE DEF new
  <2>3. StoresApart'
    <3>1. Apart(disk, new, home, minted + 1) /\ Apart(mem, new, home, minted + 1)
      BY <1>0, <2>2, ApartMinted
    <3>2. Fresh(new, minted + 1)
      BY <1>0, <2>2 DEF Fresh
    <3>3. QED BY <1>0, <1>f, <2>1, <3>1, <3>2 DEF StoresApart
  <2>4. Agreed' /\ Reserved' /\ Explainable'
    BY <1>0, <2>1 DEF JInv, Agreed, Reserved, Unkept, Explainable
  <2>5. QED BY <2>3, <2>4
<1>4. CASE UserSignsOut
  <2>1. /\ disk' = disk /\ mem' = mem /\ pc' = pc /\ act' = act /\ undo' = undo /\ home' = home
        /\ Target' = Target /\ minted' = minted /\ tok' = NoToken
        /\ ~outside' => pc = "idle" /\ disk.journal = NoJournal
    BY <1>4 DEF UserSignsOut, Outside, store, change, issuer, Target
  <2>2. Apart(disk, NoToken, home, minted) /\ Apart(mem, NoToken, home, minted)
    BY <1>0, ApartEmptied
  <2>3. StoresApart'
    BY <1>0, <2>1, <2>2 DEF StoresApart, Fresh
  <2>4. Agreed' /\ Reserved' /\ Explainable'
    BY <1>0, <2>1 DEF JInv, Agreed, Reserved, Unkept, Explainable
  <2>5. QED BY <2>3, <2>4
<1>5. CASE ClientStarts \/ ClientsClose
  BY <1>5, QuietApart
<1>6. QED BY <1>1, <1>2, <1>3, <1>4, <1>5 DEF World

-----------------------------------------------------------------------------
(* At rest every account has one login, in one place.                       *)
LEMMA StartApart == Init => JInv
<1> SUFFICES ASSUME Init PROVE JInv
  OBVIOUS
<1>0. IInv
  BY Start
<1>1. PICK signedIn \in MaybeAccount, shadowed \in BOOLEAN :
        /\ disk = AtRest(signedIn, shadowed)
        /\ home = [a \in Account |-> IF a \in disk.homed THEN First(a) ELSE NoToken]
        /\ tok = IF signedIn = NoAccount THEN NoToken ELSE First(signedIn)
  BY DEF Init
<1>2. /\ disk.owned = {} /\ disk.journal = NoJournal /\ disk.homed \subseteq Account \ {signedIn}
      /\ \A a \in Account : disk.login[a] \in {NoLogin, LoginOf(First(a))}
  BY <1>1 DEF AtRest
<1>3. mem = disk /\ pc = "idle" /\ minted = 1
  BY DEF Init
<1>4. \A a \in Account : First(a) \in Token /\ First(a).of = a /\ First(a).gen = 1
                         /\ TokOf(LoginOf(First(a))) = First(a)
  BY FirstOf, AbsentAssumption DEF First, LoginOf, TokOf
<1>5. /\ \A a \in Account : home[a] = IF a \in disk.homed THEN First(a) ELSE NoToken
      /\ signedIn # NoAccount => signedIn \in Account
  BY <1>1 DEF MaybeAccount
<1>6. Apart(disk, tok, home, 1)
  <2>1. \A a \in Account : Fresh(TokOf(disk.login[a]), 1)
    BY <1>2, <1>4 DEF Fresh, TokOf
  <2>2. \A a \in disk.homed : home[a] # NoToken => home[a] # tok
    BY <1>1, <1>2, <1>4, <1>5, AbsentAssumption
  <2>3. QED BY <1>2, <2>1, <2>2 DEF Apart
<1>7. Fresh(tok, 1) /\ \A a \in Account : Fresh(home[a], 1)
  BY <1>1, <1>4, <1>5 DEF Fresh
<1>8. StoresApart
  BY <1>3, <1>6, <1>7 DEF StoresApart
<1>9. Agreed /\ Reserved /\ Explainable
  BY <1>2, <1>3 DEF Agreed, Reserved, Explainable, JournalSteps
<1>10. QED BY <1>0, <1>8, <1>9 DEF JInv

LEMMA StoresNext ==
  ASSUME ClaudeCode => StatusNamesToken, JInv, [Next]_vars
  PROVE  JInv'
<1>1. CASE UNCHANGED vars
  BY <1>1 DEF vars, JInv, IInv, Basic, HomesSound, Phase, Halves, Whole, Writing, Outgoing,
              Incoming, Target, StoresApart, Agreed, Reserved, Unkept, Explainable
<1>2. CASE Next
  <2>1. IInv'
    BY <1>2, QuietSteps, SwitchSteps, WriteSteps, WorldSteps
       DEF JInv, Next, Use, Write, Recover, SignOut
  <2>2. StoresApart' /\ Agreed' /\ Reserved' /\ Explainable'
    BY <1>2, QuietApart, WriteApart, SwitchApart, RecoverApart, UseApart, SignOutApart,
       VaultApart, WorldApart
       DEF Next, Use, Write, Recover, SignOut
  <2>3. QED BY <2>1, <2>2 DEF JInv
<1>3. QED BY <1>1, <1>2

(* The invariant of the stores, at every step of a change.                  *)
THEOREM StoresStayApart ==
  ASSUME ClaudeCode => StatusNamesToken
  PROVE  Spec => []JInv
<1>1. Init => JInv
  BY StartApart
<1>2. JInv /\ [Next]_vars => JInv'
  BY StoresNext
<1>3. QED BY <1>1, <1>2, PTL DEF Spec

(* OneStore: however switches, sign-ins, renewals, crashes and recoveries   *)
(* interleave, no refresh token is ever both in the native store, where one *)
(* Claude Code renews it, and in an account's home, where another would.    *)
THEOREM LoginInOneStore ==
  ASSUME ClaudeCode => StatusNamesToken
  PROVE  Spec => []OneStore
<1>1. JInv => OneStore
  BY DEF JInv, StoresApart, Apart, OneStore
<1>2. QED BY <1>1, StoresStayApart, PTL

(* OwnedIsPrivate: a login the app renews by itself is never the native one *)
(* and never the one a recovery would put back.                             *)
THEOREM OwnedStaysPrivate ==
  ASSUME ClaudeCode => StatusNamesToken
  PROVE  Spec => []OwnedIsPrivate
<1>1. JInv => OwnedIsPrivate
  <2>1. \A a \in Account : disk.login[a] # NoLogin => TokOf(disk.login[a]) = disk.login[a].tok
    BY DEF TokOf
  <2>2. JInv => disk.owned \subseteq Account
    BY DEF JInv, IInv, SoundDatabase, Database
  <2>3. QED BY <2>1, <2>2 DEF JInv, StoresApart, Apart, OwnedIsPrivate, SameAuth
<1>2. QED BY <1>1, StoresStayApart, PTL

(* RecoveryPossible: whatever a crash or a failure of a switch leaves in the*)
(* native store, unless the user changed it meanwhile, the journal on disk  *)
(* explains it or it verifies as one of the switch's two accounts.          *)
THEOREM RecoveryStaysPossible ==
  ASSUME ClaudeCode => StatusNamesToken
  PROVE  Spec => []RecoveryPossible
<1>1. JInv => RecoveryPossible
  BY DEF JInv, Explainable, Explained, RecoveryPossible
<1>2. QED BY <1>1, StoresStayApart, PTL

-----------------------------------------------------------------------------
(* That no login is lost rests on what becomes of a login the issuer takes  *)
(* no more.  A native token is spent only by the renewal that replaces it,  *)
(* so one in place that is spent was written there from the vault or from   *)
(* the journal, and then neither the vault nor a home has a live one of its *)
(* account, unless the user removed the account or a newer sign-in waits.   *)
Excused(db) == db.pending \cup db.ignored

Newest(db, t, alive) ==
  t # NoToken /\ t \notin alive =>
    \/ t.of \in Excused(db)
    \/ /\ TokOf(db.login[t.of]) \notin alive
       /\ db.login[t.of] = NoLogin => t.of \notin db.homed

NothingNewer == Newest(disk, tok, live) /\ Newest(mem, tok, live)

(* The outgoing login of a journal is in the vault too, or excused.         *)
Kept(db) ==
  db.journal # NoJournal /\ db.journal.outgoing # NoLogin =>
    LET o == db.journal.outgoing.as
    IN  /\ o = db.journal.target => o \in Excused(db)
        /\ o \in Excused(db) \/ TokOf(db.login[o]) = TokOf(db.journal.outgoing)

OutgoingKept == Kept(disk) /\ (pc = "begin" => Kept(mem))

(* What a step is about to persist differs from the disk in one login.      *)
Edited == IF pc = "begin" \/ undo THEN IdentityOf(Outgoing) ELSE Target

OneEdit ==
  pc \in {"begin", "readback", "finish"} =>
    \A a \in Account : mem.login[a] = disk.login[a] \/ a = Edited

Started ==
  /\ pc = "empty" => disk.login[Target] # NoLogin
  /\ pc \in {"forget", "logout"} => act.op = "signout"
  /\ pc \in {"idle", "verify", "confirm", "forget", "logout"} => ~undo

(* Whose login is in the native store when one is persisted or written over.*)
InPlace(login) ==
  IF login = NoLogin THEN tok = NoToken ELSE tok # NoToken /\ tok.of = login.as

Followed ==
  ~outside =>
    /\ pc \in {"begin", "settle"} => InPlace(Outgoing)
    /\ pc \in {"label", "auth"} /\ ~undo => tok = TokOf(Outgoing)
    /\ pc \in {"label", "auth"} /\ undo =>
         tok \in {NoToken, TokOf(Outgoing)} \cup {TokOf(disk.login[a]) : a \in Account}
    /\ pc = "finish" /\ undo  => InPlace(Outgoing)
    /\ pc = "finish" /\ ~undo => tok # NoToken /\ tok.of = Target

KInv == JInv /\ NothingNewer /\ OutgoingKept /\ OneEdit /\ Started /\ Followed

(* What each step has to keep and to do.                                    *)
StepKeeps ==
  /\ NothingNewer' /\ OutgoingKept' /\ OneEdit' /\ Started' /\ Followed'
  /\ ~outside => AnotherRemains /\ RestoreKeepsRenewed

-----------------------------------------------------------------------------
(* What the edits of the vault do to the fields these read.                 *)
LEMMA SaveEdits ==
  ASSUME NEW db \in Database, NEW a \in Account, NEW l \in Login
  PROVE  LET new == Save(db, a, l) IN
         /\ \A b \in Account : new.login[b] = IF b = a THEN l ELSE db.login[b]
         /\ new.pending = db.pending \ {a} /\ new.ignored = db.ignored
         /\ new.homed = db.homed /\ new.journal = db.journal
<1>1. db.login \in [Account -> MaybeLogin]
  BY DEF Database
<1>2. Save(db, a, l).login = [db.login EXCEPT ![a] = l]
  BY SaveFields
<1>3. /\ Save(db, a, l).pending = db.pending \ {a} /\ Save(db, a, l).ignored = db.ignored
      /\ Save(db, a, l).homed = db.homed /\ Save(db, a, l).journal = db.journal
  BY DEF Save, Database
<1> DEFINE new == Save(db, a, l)
<1>4. new.login = [db.login EXCEPT ![a] = l]
  BY <1>2
<1>5. /\ new.pending = db.pending \ {a} /\ new.ignored = db.ignored
      /\ new.homed = db.homed /\ new.journal = db.journal
  BY <1>3
<1> HIDE DEF new
<1>6. \A b \in Account : new.login[b] = IF b = a THEN l ELSE db.login[b]
  BY <1>1, <1>4
<1>7. QED BY <1>5, <1>6 DEF new

(* The native login, saved as its account's, leaves nothing newer behind.   *)
LEMMA NewestSaved ==
  ASSUME NEW db \in Database, NEW a \in Account, NEW l \in Login,
         NEW t \in MaybeToken, NEW alive,
         t # NoToken /\ t.of # a => Newest(db, t, alive),
         t # NoToken /\ t \notin alive /\ t.of = a => l.tok = t
  PROVE  Newest(Save(db, a, l), t, alive)
<1> DEFINE new == Save(db, a, l)
<1>1. /\ \A b \in Account : new.login[b] = IF b = a THEN l ELSE db.login[b]
      /\ new.pending = db.pending \ {a} /\ new.ignored = db.ignored /\ new.homed = db.homed
  BY SaveEdits
<1> HIDE DEF new
<1>2. TokOf(l) = l.tok /\ l # NoLogin
  BY AbsentAssumption DEF TokOf
<1>3. Newest(new, t, alive)
  <2> SUFFICES ASSUME t # NoToken, t \notin alive, t.of \notin Excused(new)
               PROVE  /\ TokOf(new.login[t.of]) \notin alive
                      /\ new.login[t.of] = NoLogin => t.of \notin new.homed
    BY DEF Newest
  <2>1. t.of \in Account
    BY DEF MaybeToken, Token
  <2>2. CASE t.of = a
    BY <1>1, <1>2, <2>1, <2>2
  <2>3. CASE t.of # a
    BY <1>1, <2>1, <2>3 DEF Newest, Excused
  <2>4. QED BY <2>2, <2>3
<1>4. QED BY <1>3 DEF new

LEMMA CaptureEdits ==
  ASSUME NEW db \in Database, NEW a \in Account, NEW l \in Login
  PROVE  LET new == Capture(db, a, l) IN
         /\ \A b \in Account : b # a => new.login[b] = db.login[b]
         /\ new.pending = db.pending /\ new.ignored = db.ignored
         /\ new.homed = db.homed /\ new.journal = db.journal
         /\ a \in Excused(db) \/ new.login[a] = l
<1> DEFINE new == Capture(db, a, l)
<1>1. CASE a \in Excused(db)
  BY <1>1 DEF Capture, Excused
<1>2. CASE a \notin Excused(db)
  <2>1. new = Save(db, a, l)
    BY <1>2 DEF Capture, Excused
  <2>2. a \notin db.pending /\ db.pending \ {a} = db.pending
    BY <1>2 DEF Excused
  <2> DEFINE saved == Save(db, a, l)
  <2>3. /\ \A b \in Account : saved.login[b] = IF b = a THEN l ELSE db.login[b]
        /\ saved.pending = db.pending \ {a} /\ saved.ignored = db.ignored
        /\ saved.homed = db.homed /\ saved.journal = db.journal
    BY SaveEdits
  <2>4. new = saved
    BY <2>1
  <2> HIDE DEF new, saved
  <2>5. QED BY <2>2, <2>3, <2>4 DEF new
<1>3. QED BY <1>1, <1>2

-----------------------------------------------------------------------------
(* A step that leaves both stores as they are leaves something of every     *)
(* login it drops if what it edits is the native login's account.           *)
LEMMA EditRemains ==
  ASSUME KInv, tok' = tok, live' = live, home' = home, disk'.homed = disk.homed,
         \A b \in Account : disk'.login[b] = disk.login[b] \/ (tok # NoToken /\ tok.of = b)
  PROVE  AnotherRemains /\ RestoreKeepsRenewed
<1>0. /\ SoundDatabase(disk) /\ live \subseteq Token /\ home \in [Account -> MaybeToken]
      /\ disk.homed \subseteq Account /\ tok \in MaybeToken
      /\ \A a \in Account : home[a] # NoToken => home[a].of = a
  BY DEF KInv, JInv, IInv, Basic, HomesSound, SoundDatabase, Database
<1>1. ASSUME NEW a \in Account, disk'.login[a] # disk.login[a],
             \/ TokOf(disk.login[a]) \in live
             \/ a \in disk.homed /\ disk.login[a] = NoLogin
      PROVE  a \in Excused(disk) \/ (tok # NoToken /\ tok.of = a /\ tok \in live)
  BY <1>1 DEF KInv, NothingNewer, Newest
<1>2. tok # NoToken => tok \in Held'
  BY DEF Held
<1>3. ASSUME NEW a \in Account, TokOf(disk.login[a]) \in live, TokOf(disk.login[a]) \notin Held'
      PROVE  a \in Excused(disk) \/ (tok \in Held' /\ tok \in live /\ tok.of = a)
  <2>1. TokOf(disk.login[a]) # NoToken
    BY <1>0, <1>3, AbsentAssumption
  <2>2. disk'.login[a] # disk.login[a]
    BY <1>3, <2>1 DEF Held
  <2>3. QED BY <1>1, <1>2, <1>3, <2>2
<1>4. ASSUME NEW t \in (Held \cap live) \ Held'
      PROVE  \/ t.of \in Excused(disk)
             \/ \E u \in Held' \cap live' : u.of = t.of
  <2>1. t # NoToken /\ t # tok
    BY <1>2, <1>4 DEF Held
  <2>2. CASE \E a \in Account : t = TokOf(disk.login[a])
    <3>1. PICK a \in Account : t = TokOf(disk.login[a])
      BY <2>2
    <3>2. t.of = a
      BY <1>0, <2>1, <3>1 DEF SoundDatabase, TokOf
    <3>3. QED BY <1>3, <1>4, <3>1, <3>2
  <2>3. CASE disk.journal # NoJournal /\ t = TokOf(disk.journal.outgoing)
    <3> DEFINE o == disk.journal.outgoing.as
    <3>1. disk.journal.outgoing # NoLogin
      BY <2>1, <2>3 DEF TokOf
    <3>2. disk.journal.outgoing \in Login /\ t = disk.journal.outgoing.tok /\ t.of = o
      <4>1. disk.journal \in Journal /\ Coherent(disk.journal.outgoing)
        BY <1>0, <2>3 DEF SoundDatabase, Database
      <4>2. disk.journal.outgoing \in Login
        BY <3>1, <4>1 DEF Journal, MaybeLogin
      <4>3. QED BY <2>3, <3>1, <4>1, <4>2 DEF Coherent, TokOf
    <3>3. o \in Account
      BY <1>0, <1>4, <3>2 DEF Token
    <3>4. o \in Excused(disk) \/ TokOf(disk.login[o]) = t
      BY <2>3, <3>1 DEF KInv, OutgoingKept, Kept
    <3>5. QED BY <1>3, <1>4, <3>2, <3>3, <3>4
  <2>4. CASE \E a \in disk.homed : disk.login[a] = NoLogin /\ t = home[a]
    <3>1. PICK a \in disk.homed : disk.login[a] = NoLogin /\ t = home[a]
      BY <2>4
    <3>2. a \in Account /\ t.of = a
      BY <1>0, <2>1, <3>1
    <3>3. disk'.login[a] # disk.login[a]
      <4>1. SUFFICES ASSUME disk'.login[a] = NoLogin PROVE FALSE
        BY <3>1
      <4>2. a \in disk'.homed /\ home'[a] = t
        BY <3>1
      <4>3. t \in Held'
        BY <2>1, <4>1, <4>2 DEF Held
      <4>4. QED BY <1>4, <4>3
    <3>4. QED BY <1>1, <1>2, <3>1, <3>2, <3>3
  <2>5. QED BY <1>4, <2>1, <2>2, <2>3, <2>4 DEF Held
<1>5. QED BY <1>4 DEF AnotherRemains, RestoreKeepsRenewed, Excused

-----------------------------------------------------------------------------
(* Steps that change no store, no login and no token.                       *)
LEMMA Stays ==
  ASSUME KInv, tok' = tok, live' = live, disk' = disk, mem' \in {mem, disk},
         pc' = "begin" => pc = "begin" /\ mem' = mem
  PROVE  NothingNewer' /\ OutgoingKept'
BY DEF KInv, NothingNewer, OutgoingKept

LEMMA WritesKnown ==
  ASSUME KInv, pc \in {"restore", "recover"}, Live = NoLogin \/ Known(Live)
  PROVE  tok \in {NoToken, TokOf(Outgoing)} \cup {TokOf(disk.login[a]) : a \in Account}
<1>1. TokOf(Live) = tok /\ mem = disk /\ Target \in Account
  BY LiveSound, TargetSound DEF KInv, JInv, Agreed
<1>2. QED BY <1>1 DEF Known, SameAuth, Incoming, TokOf

LEMMA PutBackThere ==
  ASSUME KInv, pc \in JournalSteps, Whole, Identifiable(Live), IdentityOf(Live) = IdentityOf(Outgoing)
  PROVE  InPlace(Outgoing)
<1>1. /\ Live # NoLogin <=> tok # NoToken
      /\ Live # NoLogin => Live.tok = tok /\ Live.as = label
      /\ NoAccount \notin Account
  BY LiveSound, VaultAssumption DEF KInv, JInv
<1>2. Outgoing # NoLogin => Outgoing.as \in Account
  <2>1. mem.journal # NoJournal /\ SoundDatabase(mem)
    BY DEF KInv, JInv, IInv, Phase
  <2>2. Outgoing \in MaybeLogin /\ Coherent(Outgoing)
    BY <2>1 DEF SoundDatabase, Database, Journal, Outgoing
  <2>3. QED BY <2>2 DEF Coherent, MaybeLogin, Login, Token
<1>3. QED BY <1>1, <1>2 DEF InPlace, IdentityOf, Identifiable, Whole

LEMMA QuietKept ==
  ASSUME KInv
  PROVE  (\/ RefuseUse
          \/ SettleSame
          \/ SettleForeign
          \/ ReadBack
          \/ Verify
          \/ FailForward
          \/ Restore
          \/ BeginRecover
          \/ RecoverKnown
          \/ RecoverUnknown
          \/ Reverify
          \/ RecoverRefused
          \/ PutBackRead
          \/ Interrupt
          \/ BeginSignOut
          \/ ClientStarts
          \/ ClientsClose
          \/ WriteLabel)
           => StepKeeps
<1> USE DEF KInv, JInv, IInv, Basic
<1>1. CASE RefuseUse
  <2>1. /\ tok' = tok /\ live' = live /\ home' = home /\ disk' = disk /\ mem' \in {mem, disk}
        /\ pc' = "begin" => pc = "begin" /\ mem' = mem
    BY <1>1, SwitchAssumption DEF RefuseUse, store, native, issuer, change, Goto, Return, GiveUp, Fault, Begin, PutBack, FirstWrite, Backout
  <2>2. NothingNewer' /\ OutgoingKept' /\ AnotherRemains /\ RestoreKeepsRenewed
    BY <2>1, Stays, EditRemains
  <2>3. OneEdit' /\ Started'
    BY <1>1, <2>1, SwitchAssumption DEF RefuseUse, store, native, issuer, change, Goto, Return, GiveUp, Fault, Begin, PutBack, FirstWrite, Backout, OneEdit, Edited, Started, Agreed, Phase, Target, Outgoing
  <2>4. Followed'
    BY <1>1, <2>1, SwitchAssumption DEF RefuseUse, store, native, issuer, change, Goto, Return, GiveUp, Fault, Begin, PutBack, FirstWrite, Backout, Followed, InPlace, Target, Outgoing
  <2>5. QED BY <2>2, <2>3, <2>4 DEF StepKeeps
<1>2. CASE SettleSame
  <2>1. /\ tok' = tok /\ live' = live /\ home' = home /\ disk' = disk /\ mem' \in {mem, disk}
        /\ pc' = "begin" => pc = "begin" /\ mem' = mem
    BY <1>2, SwitchAssumption DEF SettleSame, store, native, issuer, change, Goto, Return, GiveUp, Fault, Begin, PutBack, FirstWrite, Backout
  <2>2. NothingNewer' /\ OutgoingKept' /\ AnotherRemains /\ RestoreKeepsRenewed
    BY <2>1, Stays, EditRemains
  <2>3. OneEdit' /\ Started'
    BY <1>2, <2>1, SwitchAssumption DEF SettleSame, store, native, issuer, change, Goto, Return, GiveUp, Fault, Begin, PutBack, FirstWrite, Backout, OneEdit, Edited, Started, Agreed, Phase, Target, Outgoing
  <2>4. Followed'
    BY <1>2, <2>1, SwitchAssumption, LiveSound DEF SettleSame, store, native, issuer, change, Goto, Return, GiveUp, Fault, Begin, PutBack, FirstWrite, Backout, SameAuth, Followed, InPlace, Target, Outgoing
  <2>5. QED BY <2>2, <2>3, <2>4 DEF StepKeeps
<1>3. CASE SettleForeign
  <2>1. /\ tok' = tok /\ live' = live /\ home' = home /\ disk' = disk /\ mem' \in {mem, disk}
        /\ pc' = "begin" => pc = "begin" /\ mem' = mem
    BY <1>3, SwitchAssumption DEF SettleForeign, store, native, issuer, change, Goto, Return, GiveUp, Fault, Begin, PutBack, FirstWrite, Backout
  <2>2. NothingNewer' /\ OutgoingKept' /\ AnotherRemains /\ RestoreKeepsRenewed
    BY <2>1, Stays, EditRemains
  <2>3. OneEdit' /\ Started'
    BY <1>3, <2>1, SwitchAssumption DEF SettleForeign, store, native, issuer, change, Goto, Return, GiveUp, Fault, Begin, PutBack, FirstWrite, Backout, OneEdit, Edited, Started, Agreed, Phase, Target, Outgoing
  <2>4. Followed'
    BY <1>3, <2>1, SwitchAssumption DEF SettleForeign, store, native, issuer, change, Goto, Return, GiveUp, Fault, Begin, PutBack, FirstWrite, Backout, Followed, InPlace, Target, Outgoing
  <2>5. QED BY <2>2, <2>3, <2>4 DEF StepKeeps
<1>4. CASE ReadBack
  <2>1. /\ tok' = tok /\ live' = live /\ home' = home /\ disk' = disk /\ mem' \in {mem, disk}
        /\ pc' = "begin" => pc = "begin" /\ mem' = mem
    BY <1>4, SwitchAssumption DEF ReadBack, store, native, issuer, change, Goto, Return, GiveUp, Fault, Begin, PutBack, FirstWrite, Backout
  <2>2. NothingNewer' /\ OutgoingKept' /\ AnotherRemains /\ RestoreKeepsRenewed
    BY <2>1, Stays, EditRemains
  <2>3. OneEdit' /\ Started'
    BY <1>4, <2>1, SwitchAssumption DEF ReadBack, store, native, issuer, change, Goto, Return, GiveUp, Fault, Begin, PutBack, FirstWrite, Backout, OneEdit, Edited, Started, Agreed, Phase, Target, Outgoing
  <2>4. Followed'
    BY <1>4, <2>1, SwitchAssumption DEF ReadBack, store, native, issuer, change, Goto, Return, GiveUp, Fault, Begin, PutBack, FirstWrite, Backout, Followed, InPlace, Target, Outgoing
  <2>5. QED BY <2>2, <2>3, <2>4 DEF StepKeeps
<1>5. CASE Verify
  <2>1. /\ tok' = tok /\ live' = live /\ home' = home /\ disk' = disk /\ mem' \in {mem, disk}
        /\ pc' = "begin" => pc = "begin" /\ mem' = mem
    BY <1>5, SwitchAssumption DEF Verify, store, native, issuer, change, Goto, Return, GiveUp, Fault, Begin, PutBack, FirstWrite, Backout
  <2>2. NothingNewer' /\ OutgoingKept' /\ AnotherRemains /\ RestoreKeepsRenewed
    BY <2>1, Stays, EditRemains
  <2>3. OneEdit' /\ Started'
    BY <1>5, <2>1, SwitchAssumption DEF Verify, store, native, issuer, change, Goto, Return, GiveUp, Fault, Begin, PutBack, FirstWrite, Backout, OneEdit, Edited, Started, Agreed, Phase, Target, Outgoing
  <2>4. Followed'
    BY <1>5, <2>1, SwitchAssumption DEF Verify, store, native, issuer, change, Goto, Return, GiveUp, Fault, Begin, PutBack, FirstWrite, Backout, Followed, InPlace, Target, Outgoing
  <2>5. QED BY <2>2, <2>3, <2>4 DEF StepKeeps
<1>6. CASE FailForward
  <2>1. /\ tok' = tok /\ live' = live /\ home' = home /\ disk' = disk /\ mem' \in {mem, disk}
        /\ pc' = "begin" => pc = "begin" /\ mem' = mem
    BY <1>6, SwitchAssumption DEF FailForward, store, native, issuer, change, Goto, Return, GiveUp, Fault, Begin, PutBack, FirstWrite, Backout
  <2>2. NothingNewer' /\ OutgoingKept' /\ AnotherRemains /\ RestoreKeepsRenewed
    BY <2>1, Stays, EditRemains
  <2>3. OneEdit' /\ Started'
    BY <1>6, <2>1, SwitchAssumption DEF FailForward, store, native, issuer, change, Goto, Return, GiveUp, Fault, Begin, PutBack, FirstWrite, Backout, OneEdit, Edited, Started, Agreed, Phase, Target, Outgoing
  <2>4. Followed'
    BY <1>6, <2>1, SwitchAssumption DEF FailForward, store, native, issuer, change, Goto, Return, GiveUp, Fault, Begin, PutBack, FirstWrite, Backout, Followed, InPlace, Target, Outgoing
  <2>5. QED BY <2>2, <2>3, <2>4 DEF StepKeeps
<1>7. CASE Restore
  <2>1. /\ tok' = tok /\ live' = live /\ home' = home /\ disk' = disk /\ mem' \in {mem, disk}
        /\ pc' = "begin" => pc = "begin" /\ mem' = mem
    BY <1>7, SwitchAssumption DEF Restore, store, native, issuer, change, Goto, Return, GiveUp, Fault, Begin, PutBack, FirstWrite, Backout
  <2>2. NothingNewer' /\ OutgoingKept' /\ AnotherRemains /\ RestoreKeepsRenewed
    BY <2>1, Stays, EditRemains
  <2>3. OneEdit' /\ Started'
    BY <1>7, <2>1, SwitchAssumption DEF Restore, store, native, issuer, change, Goto, Return, GiveUp, Fault, Begin, PutBack, FirstWrite, Backout, OneEdit, Edited, Started, Agreed, Phase, Target, Outgoing
  <2>4. Followed'
    BY <1>7, <2>1, SwitchAssumption, WritesKnown DEF Restore, store, native, issuer, change, Goto, Return, GiveUp, Fault, Begin, PutBack, FirstWrite, Backout, Followed, InPlace, Target, Outgoing
  <2>5. QED BY <2>2, <2>3, <2>4 DEF StepKeeps
<1>8. CASE BeginRecover
  <2>1. /\ tok' = tok /\ live' = live /\ home' = home /\ disk' = disk /\ mem' \in {mem, disk}
        /\ pc' = "begin" => pc = "begin" /\ mem' = mem
    BY <1>8, SwitchAssumption DEF BeginRecover, store, native, issuer, change, Goto, Return, GiveUp, Fault, Begin, PutBack, FirstWrite, Backout
  <2>2. NothingNewer' /\ OutgoingKept' /\ AnotherRemains /\ RestoreKeepsRenewed
    BY <2>1, Stays, EditRemains
  <2>3. OneEdit' /\ Started'
    BY <1>8, <2>1, SwitchAssumption DEF BeginRecover, store, native, issuer, change, Goto, Return, GiveUp, Fault, Begin, PutBack, FirstWrite, Backout, OneEdit, Edited, Started, Agreed, Phase, Target, Outgoing
  <2>4. Followed'
    BY <1>8, <2>1, SwitchAssumption DEF BeginRecover, store, native, issuer, change, Goto, Return, GiveUp, Fault, Begin, PutBack, FirstWrite, Backout, Followed, InPlace, Target, Outgoing
  <2>5. QED BY <2>2, <2>3, <2>4 DEF StepKeeps
<1>9. CASE RecoverKnown
  <2>1. /\ tok' = tok /\ live' = live /\ home' = home /\ disk' = disk /\ mem' \in {mem, disk}
        /\ pc' = "begin" => pc = "begin" /\ mem' = mem
    BY <1>9, SwitchAssumption DEF RecoverKnown, store, native, issuer, change, Goto, Return, GiveUp, Fault, Begin, PutBack, FirstWrite, Backout
  <2>2. NothingNewer' /\ OutgoingKept' /\ AnotherRemains /\ RestoreKeepsRenewed
    BY <2>1, Stays, EditRemains
  <2>3. OneEdit' /\ Started'
    BY <1>9, <2>1, SwitchAssumption DEF RecoverKnown, store, native, issuer, change, Goto, Return, GiveUp, Fault, Begin, PutBack, FirstWrite, Backout, OneEdit, Edited, Started, Agreed, Phase, Target, Outgoing
  <2>4. Followed'
    BY <1>9, <2>1, SwitchAssumption, WritesKnown DEF RecoverKnown, store, native, issuer, change, Goto, Return, GiveUp, Fault, Begin, PutBack, FirstWrite, Backout, Followed, InPlace, Target, Outgoing
  <2>5. QED BY <2>2, <2>3, <2>4 DEF StepKeeps
<1>10. CASE RecoverUnknown
  <2>1. /\ tok' = tok /\ live' = live /\ home' = home /\ disk' = disk /\ mem' \in {mem, disk}
        /\ pc' = "begin" => pc = "begin" /\ mem' = mem
    BY <1>10, SwitchAssumption DEF RecoverUnknown, store, native, issuer, change, Goto, Return, GiveUp, Fault, Begin, PutBack, FirstWrite, Backout
  <2>2. NothingNewer' /\ OutgoingKept' /\ AnotherRemains /\ RestoreKeepsRenewed
    BY <2>1, Stays, EditRemains
  <2>3. OneEdit' /\ Started'
    BY <1>10, <2>1, SwitchAssumption DEF RecoverUnknown, store, native, issuer, change, Goto, Return, GiveUp, Fault, Begin, PutBack, FirstWrite, Backout, OneEdit, Edited, Started, Agreed, Phase, Target, Outgoing
  <2>4. Followed'
    BY <1>10, <2>1, SwitchAssumption DEF RecoverUnknown, store, native, issuer, change, Goto, Return, GiveUp, Fault, Begin, PutBack, FirstWrite, Backout, Followed, InPlace, Target, Outgoing
  <2>5. QED BY <2>2, <2>3, <2>4 DEF StepKeeps
<1>11. CASE Reverify
  <2>1. /\ tok' = tok /\ live' = live /\ home' = home /\ disk' = disk /\ mem' \in {mem, disk}
        /\ pc' = "begin" => pc = "begin" /\ mem' = mem
    BY <1>11, SwitchAssumption DEF Reverify, store, native, issuer, change, Goto, Return, GiveUp, Fault, Begin, PutBack, FirstWrite, Backout
  <2>2. NothingNewer' /\ OutgoingKept' /\ AnotherRemains /\ RestoreKeepsRenewed
    BY <2>1, Stays, EditRemains
  <2>3. OneEdit' /\ Started'
    BY <1>11, <2>1, SwitchAssumption DEF Reverify, store, native, issuer, change, Goto, Return, GiveUp, Fault, Begin, PutBack, FirstWrite, Backout, OneEdit, Edited, Started, Agreed, Phase, Target, Outgoing
  <2>4. Followed'
    BY <1>11, <2>1, SwitchAssumption DEF Reverify, store, native, issuer, change, Goto, Return, GiveUp, Fault, Begin, PutBack, FirstWrite, Backout, Followed, InPlace, Target, Outgoing
  <2>5. QED BY <2>2, <2>3, <2>4 DEF StepKeeps
<1>12. CASE RecoverRefused
  <2>1. /\ tok' = tok /\ live' = live /\ home' = home /\ disk' = disk /\ mem' \in {mem, disk}
        /\ pc' = "begin" => pc = "begin" /\ mem' = mem
    BY <1>12, SwitchAssumption DEF RecoverRefused, store, native, issuer, change, Goto, Return, GiveUp, Fault, Begin, PutBack, FirstWrite, Backout
  <2>2. NothingNewer' /\ OutgoingKept' /\ AnotherRemains /\ RestoreKeepsRenewed
    BY <2>1, Stays, EditRemains
  <2>3. OneEdit' /\ Started'
    BY <1>12, <2>1, SwitchAssumption DEF RecoverRefused, store, native, issuer, change, Goto, Return, GiveUp, Fault, Begin, PutBack, FirstWrite, Backout, OneEdit, Edited, Started, Agreed, Phase, Target, Outgoing
  <2>4. Followed'
    BY <1>12, <2>1, SwitchAssumption DEF RecoverRefused, store, native, issuer, change, Goto, Return, GiveUp, Fault, Begin, PutBack, FirstWrite, Backout, Followed, InPlace, Target, Outgoing
  <2>5. QED BY <2>2, <2>3, <2>4 DEF StepKeeps
<1>13. CASE PutBackRead
  <2>1. /\ tok' = tok /\ live' = live /\ home' = home /\ disk' = disk /\ mem' \in {mem, disk}
        /\ pc' = "begin" => pc = "begin" /\ mem' = mem
    BY <1>13, SwitchAssumption DEF PutBackRead, store, native, issuer, change, Goto, Return, GiveUp, Fault, Begin, PutBack, FirstWrite, Backout
  <2>2. NothingNewer' /\ OutgoingKept' /\ AnotherRemains /\ RestoreKeepsRenewed
    BY <2>1, Stays, EditRemains
  <2>3. OneEdit' /\ Started'
    BY <1>13, <2>1, SwitchAssumption DEF PutBackRead, store, native, issuer, change, Goto, Return, GiveUp, Fault, Begin, PutBack, FirstWrite, Backout, OneEdit, Edited, Started, Agreed, Phase, Target, Outgoing
  <2>4. Followed'
    BY <1>13, <2>1, SwitchAssumption, PutBackThere DEF PutBackRead, store, native, issuer, change, Goto, Return, GiveUp, Fault, Begin, PutBack, FirstWrite, Backout, Halves, Halved, JournalSteps, Unjournalled, Step, Followed, InPlace, Target, Outgoing
  <2>5. QED BY <2>2, <2>3, <2>4 DEF StepKeeps
<1>14. CASE Interrupt
  <2>1. /\ tok' = tok /\ live' = live /\ home' = home /\ disk' = disk /\ mem' \in {mem, disk}
        /\ pc' = "begin" => pc = "begin" /\ mem' = mem
    BY <1>14, SwitchAssumption DEF Interrupt, store, native, issuer, change, Goto, Return, GiveUp, Fault, Begin, PutBack, FirstWrite, Backout
  <2>2. NothingNewer' /\ OutgoingKept' /\ AnotherRemains /\ RestoreKeepsRenewed
    BY <2>1, Stays, EditRemains
  <2>3. OneEdit' /\ Started'
    BY <1>14, <2>1, SwitchAssumption DEF Interrupt, store, native, issuer, change, Goto, Return, GiveUp, Fault, Begin, PutBack, FirstWrite, Backout, OneEdit, Edited, Started, Agreed, Phase, Target, Outgoing
  <2>4. Followed'
    BY <1>14, <2>1, SwitchAssumption DEF Interrupt, store, native, issuer, change, Goto, Return, GiveUp, Fault, Begin, PutBack, FirstWrite, Backout, Followed, InPlace, Target, Outgoing
  <2>5. QED BY <2>2, <2>3, <2>4 DEF StepKeeps
<1>15. CASE BeginSignOut
  <2>1. /\ tok' = tok /\ live' = live /\ home' = home /\ disk' = disk /\ mem' \in {mem, disk}
        /\ pc' = "begin" => pc = "begin" /\ mem' = mem
    BY <1>15, SwitchAssumption DEF BeginSignOut, store, native, issuer, change, Goto, Return, GiveUp, Fault, Begin, PutBack, FirstWrite, Backout
  <2>2. NothingNewer' /\ OutgoingKept' /\ AnotherRemains /\ RestoreKeepsRenewed
    BY <2>1, Stays, EditRemains
  <2>3. OneEdit' /\ Started'
    BY <1>15, <2>1, SwitchAssumption DEF BeginSignOut, store, native, issuer, change, Goto, Return, GiveUp, Fault, Begin, PutBack, FirstWrite, Backout, OneEdit, Edited, Started, Agreed, Phase, Target, Outgoing
  <2>4. Followed'
    BY <1>15, <2>1, SwitchAssumption DEF BeginSignOut, store, native, issuer, change, Goto, Return, GiveUp, Fault, Begin, PutBack, FirstWrite, Backout, Followed, InPlace, Target, Outgoing
  <2>5. QED BY <2>2, <2>3, <2>4 DEF StepKeeps
<1>16. CASE ClientStarts
  <2>1. /\ tok' = tok /\ live' = live /\ home' = home /\ disk' = disk /\ mem' \in {mem, disk}
        /\ pc' = "begin" => pc = "begin" /\ mem' = mem
    BY <1>16, SwitchAssumption DEF ClientStarts, store, native, issuer, change, Goto, Return, GiveUp, Fault, Begin, PutBack, FirstWrite, Backout
  <2>2. NothingNewer' /\ OutgoingKept' /\ AnotherRemains /\ RestoreKeepsRenewed
    BY <2>1, Stays, EditRemains
  <2>3. OneEdit' /\ Started'
    BY <1>16, <2>1, SwitchAssumption DEF ClientStarts, store, native, issuer, change, Goto, Return, GiveUp, Fault, Begin, PutBack, FirstWrite, Backout, OneEdit, Edited, Started, Agreed, Phase, Target, Outgoing
  <2>4. Followed'
    BY <1>16, <2>1, SwitchAssumption DEF ClientStarts, store, native, issuer, change, Goto, Return, GiveUp, Fault, Begin, PutBack, FirstWrite, Backout, Followed, InPlace, Target, Outgoing
  <2>5. QED BY <2>2, <2>3, <2>4 DEF StepKeeps
<1>17. CASE ClientsClose
  <2>1. /\ tok' = tok /\ live' = live /\ home' = home /\ disk' = disk /\ mem' \in {mem, disk}
        /\ pc' = "begin" => pc = "begin" /\ mem' = mem
    BY <1>17, SwitchAssumption DEF ClientsClose, store, native, issuer, change, Goto, Return, GiveUp, Fault, Begin, PutBack, FirstWrite, Backout
  <2>2. NothingNewer' /\ OutgoingKept' /\ AnotherRemains /\ RestoreKeepsRenewed
    BY <2>1, Stays, EditRemains
  <2>3. OneEdit' /\ Started'
    BY <1>17, <2>1, SwitchAssumption DEF ClientsClose, store, native, issuer, change, Goto, Return, GiveUp, Fault, Begin, PutBack, FirstWrite, Backout, OneEdit, Edited, Started, Agreed, Phase, Target, Outgoing
  <2>4. Followed'
    BY <1>17, <2>1, SwitchAssumption DEF ClientsClose, store, native, issuer, change, Goto, Return, GiveUp, Fault, Begin, PutBack, FirstWrite, Backout, Followed, InPlace, Target, Outgoing
  <2>5. QED BY <2>2, <2>3, <2>4 DEF StepKeeps
<1>18. CASE WriteLabel
  <2>1. /\ tok' = tok /\ live' = live /\ home' = home /\ disk' = disk /\ mem' \in {mem, disk}
        /\ pc' = "begin" => pc = "begin" /\ mem' = mem
    BY <1>18, SwitchAssumption DEF WriteLabel, store, native, issuer, change, Goto, Return, GiveUp, Fault, Begin, PutBack, FirstWrite, Backout
  <2>2. NothingNewer' /\ OutgoingKept' /\ AnotherRemains /\ RestoreKeepsRenewed
    BY <2>1, Stays, EditRemains
  <2>3. OneEdit' /\ Started'
    BY <1>18, <2>1, SwitchAssumption DEF WriteLabel, store, native, issuer, change, Goto, Return, GiveUp, Fault, Begin, PutBack, FirstWrite, Backout, OneEdit, Edited, Started, Agreed, Phase, Target, Outgoing
  <2>4. Followed'
    BY <1>18, <2>1, SwitchAssumption DEF WriteLabel, store, native, issuer, change, Goto, Return, GiveUp, Fault, Begin, PutBack, FirstWrite, Backout, Followed, InPlace, Target, Outgoing
  <2>5. QED BY <2>2, <2>3, <2>4 DEF StepKeeps
<1>99. QED BY <1>1, <1>2, <1>3, <1>4, <1>5, <1>6, <1>7, <1>8, <1>9, <1>10, <1>11, <1>12, <1>13, <1>14, <1>15, <1>16, <1>17, <1>18

LEMMA EndEdits ==
  ASSUME NEW db \in Database
  PROVE  LET new == EndRecovery(db) IN
         /\ new.login = db.login /\ new.pending = db.pending /\ new.ignored = db.ignored
         /\ new.homed = db.homed /\ new.journal = NoJournal
BY DEF EndRecovery, Database

LEMMA JournalEdits ==
  ASSUME NEW db \in Database, NEW a \in Account, NEW l \in MaybeLogin
  PROVE  \A new : new = BeginRecovery([db EXCEPT !.owned = @ \ {a}],
                                      [target |-> a, outgoing |-> l])
                    => /\ new.login = db.login /\ new.pending = db.pending
                       /\ new.ignored = db.ignored /\ new.homed = db.homed
                       /\ new.journal.target = a /\ new.journal.outgoing = l
<1> DEFINE j == [target |-> a, outgoing |-> l]
           free == [db EXCEPT !.owned = @ \ {a}]
<1> SUFFICES ASSUME NEW new, new = BeginRecovery(free, j)
             PROVE  /\ new.login = db.login /\ new.pending = db.pending
                    /\ new.ignored = db.ignored /\ new.homed = db.homed
                    /\ new.journal.target = a /\ new.journal.outgoing = l
  OBVIOUS
<1>1. j.outgoing = l /\ j.target = a
  OBVIOUS
<1> HIDE DEF j
<1>2. /\ new.login = db.login /\ new.pending = db.pending /\ new.ignored = db.ignored
      /\ new.homed = db.homed /\ new.journal = j
  BY DEF BeginRecovery, Database
<1>3. QED BY <1>1, <1>2

(* The fields of a database are all that these read.                        *)
LEMMA SameFields ==
  ASSUME NEW db, NEW new, NEW t, NEW alive, Newest(db, t, alive),
         new.login = db.login, new.pending = db.pending, new.ignored = db.ignored,
         new.homed = db.homed
  PROVE  Newest(new, t, alive)
BY DEF Newest, Excused

(* What is captured at the start of a switch, and again before it writes.   *)
LEMMA CapturedKept ==
  ASSUME KInv, Whole, Identifiable(Live), pc # "idle"
  PROVE  LET c == CapturedOutgoing IN
         /\ c \in Database /\ Newest(c, tok, live)
         /\ \A b \in Account : b # IdentityOf(Live) => c.login[b] = mem.login[b]
         /\ c.pending = mem.pending /\ c.ignored = mem.ignored /\ c.homed = mem.homed
         /\ c.journal = mem.journal
         /\ Live # NoLogin /\ Live.as # Target =>
              Live.as \in Excused(mem) \/ c.login[Live.as] = Live
<1>1. /\ mem \in Database /\ Newest(mem, tok, live) /\ tok \in MaybeToken
      /\ CapturedOutgoing \in Database
  BY CapturedApart DEF KInv, JInv, IInv, Basic, NothingNewer, SoundDatabase
<1> DEFINE c == CapturedOutgoing
<1>2. CASE IdentityOf(Live) \in {NoAccount, Target}
  <2>1. c = mem
    BY <1>2 DEF CapturedOutgoing
  <2>2. Live # NoLogin => Live.as \in Account /\ Live.as = IdentityOf(Live)
    BY DEF Identifiable, IdentityOf
  <2>3. Live # NoLogin => Live.as = Target
    BY <1>2, <2>2, VaultAssumption
  <2> HIDE DEF c
  <2>4. QED BY <1>1, <2>1, <2>3 DEF c
<1>3. CASE IdentityOf(Live) \notin {NoAccount, Target}
  <2>1. Live # NoLogin /\ IdentityOf(Live) = Live.as
    BY <1>3 DEF IdentityOf
  <2>2. Live \in Login /\ Live.as \in Account /\ Live.tok = tok
    BY <2>1, NativeSound, LiveSound DEF KInv, JInv
  <2>3. c = Capture(mem, Live.as, Live)
    BY <1>3, <2>1 DEF CapturedOutgoing
  <2>4. Newest(Save(mem, Live.as, Live), tok, live)
    BY <1>1, <2>2, NewestSaved
  <2>5. Newest(Capture(mem, Live.as, Live), tok, live)
    BY <1>1, <2>4 DEF Capture
  <2>6. LET new == Capture(mem, Live.as, Live) IN
        /\ \A b \in Account : b # Live.as => new.login[b] = mem.login[b]
        /\ new.pending = mem.pending /\ new.ignored = mem.ignored
        /\ new.homed = mem.homed /\ new.journal = mem.journal
        /\ Live.as \in Excused(mem) \/ new.login[Live.as] = Live
    BY <1>1, <2>2, CaptureEdits
  <2> HIDE DEF c
  <2>7. QED BY <1>1, <2>1, <2>3, <2>5, <2>6 DEF c
<1>4. QED BY <1>2, <1>3

-----------------------------------------------------------------------------
(* The writes of a switch and of a recovery.                                *)
LEMMA WriteAuthKept == ASSUME KInv, WriteAuth PROVE StepKeeps
<1>1. /\ pc = "auth" /\ pc' = "readback" /\ Target \in Account /\ mem = disk
      /\ disk.journal # NoJournal /\ SoundDatabase(disk)
      /\ disk' = disk /\ mem' = mem /\ home' = home /\ live' = live
      /\ undo' = undo /\ act' = act /\ tok' = TokOf(Writing)
      /\ live \subseteq Token /\ tok \in MaybeToken
  BY TargetSound DEF WriteAuth, Goto, store, issuer, KInv, JInv, IInv, Basic, Phase, JournalSteps,
                     Unjournalled, Step, Agreed
<1>2. /\ Outgoing \in MaybeLogin /\ Coherent(Outgoing) /\ Outgoing = disk.journal.outgoing
      /\ Incoming = disk.login[Target] /\ disk.login[Target] \in MaybeLogin
      /\ disk.login[Target] # NoLogin => disk.login[Target].tok.of = Target
  BY <1>1, LoginSound DEF Outgoing, Incoming
<1>3. Newest(disk, tok', live)
  <2>1. CASE undo
    <3>1. tok' = TokOf(Outgoing)
      BY <1>1, <2>1 DEF Writing
    <3>2. CASE Outgoing = NoLogin
      BY <3>1, <3>2 DEF TokOf, Newest
    <3>3. CASE Outgoing # NoLogin
      <4>1. tok'.of = Outgoing.as /\ tok' = Outgoing.tok
        BY <1>2, <3>1, <3>3 DEF Coherent, TokOf
      <4>2. \/ Outgoing.as \in Excused(disk)
            \/ TokOf(disk.login[Outgoing.as]) = tok'
        BY <1>1, <1>2, <3>1, <3>3 DEF KInv, OutgoingKept, Kept
      <4>3. tok' # NoToken
        BY <1>2, <3>3, <4>1, AbsentAssumption DEF MaybeLogin, Login
      <4>4. QED BY <4>1, <4>2, <4>3 DEF Newest, TokOf
    <3>4. QED BY <3>2, <3>3
  <2>2. CASE ~undo
    <3>1. tok' = TokOf(disk.login[Target])
      BY <1>1, <1>2, <2>2 DEF Writing
    <3>2. CASE disk.login[Target] = NoLogin
      BY <3>1, <3>2 DEF TokOf, Newest
    <3>3. CASE disk.login[Target] # NoLogin
      BY <1>2, <3>1, <3>3 DEF TokOf, Newest
    <3>4. QED BY <3>2, <3>3
  <2>3. QED BY <2>1, <2>2
<1>4. NothingNewer' /\ OutgoingKept'
  BY <1>1, <1>3 DEF NothingNewer, KInv, OutgoingKept
<1>5. OneEdit' /\ Started' /\ Followed'
  BY <1>1 DEF OneEdit, Started, Followed
<1>6. ASSUME ~outside PROVE AnotherRemains /\ RestoreKeepsRenewed
  <2>1. undo => tok \in {NoToken, TokOf(Outgoing)} \cup {TokOf(disk.login[a]) : a \in Account}
    BY <1>1, <1>6 DEF KInv, Followed
  <2>2. ~undo => tok = TokOf(Outgoing)
    BY <1>1, <1>6 DEF KInv, Followed
  <2>3. tok # NoToken => tok \in Held'
    <3>1. tok \in {NoToken, TokOf(Outgoing)} \cup {TokOf(disk.login[a]) : a \in Account}
      BY <2>1, <2>2
    <3>2. QED BY <1>1, <1>2, <3>1 DEF Held
  <2>4. Held \subseteq Held' \cup {tok}
    BY <1>1 DEF Held
  <2>5. Held \ Held' = {}
    BY <2>3, <2>4 DEF Held
  <2>6. AnotherRemains
    BY <2>5 DEF AnotherRemains
  <2>7. RestoreKeepsRenewed
    <3>1. SUFFICES ASSUME undo, tok \in live, tok' # tok
                   PROVE  tok \in {TokOf(disk.login[a]) : a \in Account}
      BY DEF RestoreKeepsRenewed
    <3>2. tok' = TokOf(Outgoing) /\ tok # NoToken
      BY <1>1, <3>1, AbsentAssumption DEF Writing
    <3>3. QED BY <2>1, <3>1, <3>2
  <2>8. QED BY <2>6, <2>7
<1>7. QED BY <1>4, <1>5, <1>6 DEF StepKeeps

LEMMA OwnerOf ==
  ASSUME KInv, NEW login, InPlace(login), NEW b \in Account, b = IdentityOf(login)
  PROVE  tok # NoToken /\ tok.of = b
BY VaultAssumption DEF InPlace, IdentityOf

LEMMA JournalledKept == ASSUME KInv, Journalled PROVE StepKeeps
<1>1. /\ pc = "begin" /\ pc' = "settle" /\ disk' = mem /\ mem' = mem /\ tok' = tok /\ live' = live
      /\ home' = home /\ undo' = undo /\ act' = act /\ outside' = outside /\ mem.homed = disk.homed
  BY DEF Journalled, Goto, native, issuer, KInv, JInv, Agreed
<1>2. NothingNewer' /\ OutgoingKept' /\ OneEdit' /\ Started' /\ Followed'
  BY <1>1 DEF KInv, NothingNewer, OutgoingKept, OneEdit, Started, Followed, InPlace, Outgoing
<1>3. ASSUME ~outside PROVE AnotherRemains /\ RestoreKeepsRenewed
  <2>1. InPlace(Outgoing)
    BY <1>1, <1>3 DEF KInv, Followed
  <2>2. \A b \in Account : disk'.login[b] = disk.login[b] \/ (tok # NoToken /\ tok.of = b)
    BY <1>1, <2>1, OwnerOf DEF KInv, OneEdit, Edited
  <2>3. QED BY <1>1, <2>2, EditRemains
<1>4. QED BY <1>2, <1>3 DEF StepKeeps

LEMMA EndKept == ASSUME KInv, Unsettle \/ Finish PROVE StepKeeps
<1>1. /\ disk' = EndRecovery(mem) /\ mem' = disk' /\ pc' = "idle" /\ tok' = tok /\ live' = live
      /\ home' = home /\ undo' = FALSE /\ mem \in Database /\ mem.homed = disk.homed
      /\ pc \in {"unsettle", "finish"}
  BY DEF Unsettle, Finish, Return, native, issuer, KInv, JInv, IInv, SoundDatabase, Agreed
<1>2. /\ disk'.login = mem.login /\ disk'.pending = mem.pending /\ disk'.ignored = mem.ignored
      /\ disk'.homed = mem.homed /\ disk'.journal = NoJournal
  BY <1>1, EndEdits
<1>3. Newest(disk', tok, live)
  BY <1>2, SameFields DEF KInv, NothingNewer
<1>4. NothingNewer' /\ OutgoingKept' /\ OneEdit' /\ Started' /\ Followed'
  BY <1>1, <1>2, <1>3 DEF NothingNewer, OutgoingKept, Kept, OneEdit, Started, Followed
<1>5. ASSUME ~outside PROVE AnotherRemains /\ RestoreKeepsRenewed
  <2>1. ASSUME NEW b \in Account, mem.login[b] # disk.login[b]
        PROVE  tok # NoToken /\ tok.of = b
    <3>1. pc = "finish"
      BY <1>1, <2>1 DEF KInv, JInv, Agreed
    <3>2. b = Edited
      BY <2>1, <3>1 DEF KInv, OneEdit
    <3>3. CASE undo
      <4>1. InPlace(Outgoing) /\ b = IdentityOf(Outgoing)
        BY <1>5, <3>1, <3>2, <3>3 DEF KInv, Followed, Edited
      <4>2. QED BY <4>1, OwnerOf
    <3>4. CASE ~undo
      BY <1>5, <3>1, <3>2, <3>4 DEF KInv, Followed, Edited
    <3>5. QED BY <3>3, <3>4
  <2>2. QED BY <1>1, <1>2, <2>1, EditRemains
<1>6. QED BY <1>4, <1>5 DEF StepKeeps

(* The steps of a switch before and after its writes.                       *)
LEMMA NativeIs ==
  ASSUME KInv, Whole, Live # NoLogin, Identifiable(Live)
  PROVE  /\ Live \in Login /\ Live.as \in Account /\ Live.tok = tok /\ tok # NoToken
         /\ tok.of = Live.as /\ IdentityOf(Live) = Live.as /\ TokOf(Live) = tok
BY NativeSound, LiveSound DEF KInv, JInv, IdentityOf

LEMMA HomeEmptiedKept == ASSUME KInv, EmptyHome PROVE StepKeeps
<1>1. /\ pc = "empty" /\ pc' = "activate" /\ disk' = disk /\ mem' = mem /\ tok' = tok /\ live' = live
      /\ home \in [Account -> MaybeToken] /\ home' = [home EXCEPT ![Target] = NoToken]
      /\ disk.login[Target] # NoLogin /\ disk.homed \subseteq Account
  BY DEF EmptyHome, store, native, issuer, KInv, JInv, IInv, HomesSound, SoundDatabase, Database, Started
<1>2. NothingNewer' /\ OutgoingKept' /\ OneEdit' /\ Started' /\ Followed'
  BY <1>1 DEF KInv, NothingNewer, OutgoingKept, OneEdit, Started, Followed
<1>3. \A a \in disk.homed : disk.login[a] = NoLogin => home'[a] = home[a]
  BY <1>1
<1>4. Held \subseteq Held'
  BY <1>1, <1>3 DEF Held
<1>5. AnotherRemains /\ RestoreKeepsRenewed
  BY <1>1, <1>4 DEF AnotherRemains, RestoreKeepsRenewed
<1>6. QED BY <1>2, <1>5 DEF StepKeeps

LEMMA RefreshSavedKept == ASSUME KInv, RefreshSaved PROVE StepKeeps
<1>1. /\ pc = "activate" /\ pc' = "idle" /\ disk' = Save(mem, Target, Live) /\ mem' = disk' /\ mem = disk
      /\ tok' = tok /\ live' = live /\ home' = home /\ undo' = FALSE /\ Target \in Account
      /\ IdentityOf(Live) = Target /\ mem \in Database /\ mem.journal = NoJournal /\ tok \in MaybeToken
      /\ Whole
  BY TargetSound DEF RefreshSaved, AlreadyNative, Return, native, issuer, KInv, JInv, IInv, Basic,
                     SoundDatabase, Phase, Unjournalled, Halves, Halved
<1>2. Live # NoLogin /\ Identifiable(Live)
  BY <1>1, VaultAssumption DEF IdentityOf, Identifiable
<1>3. Live \in Login /\ Live.tok = tok /\ tok # NoToken /\ tok.of = Target
  BY <1>1, <1>2, NativeIs
<1>4. Newest(Save(mem, Target, Live), tok, live)
  BY <1>1, <1>3, NewestSaved
<1>5. /\ \A b \in Account : b # Target => disk'.login[b] = disk.login[b]
      /\ disk'.homed = disk.homed /\ disk'.journal = NoJournal
  <2>1. LET new == Save(mem, Target, Live) IN
        /\ \A b \in Account : new.login[b] = IF b = Target THEN Live ELSE mem.login[b]
        /\ new.homed = mem.homed /\ new.journal = mem.journal
    BY <1>1, <1>3, SaveEdits
  <2>2. QED BY <1>1, <2>1
<1>6. NothingNewer' /\ OutgoingKept' /\ OneEdit' /\ Started' /\ Followed'
  BY <1>1, <1>4, <1>5 DEF NothingNewer, OutgoingKept, Kept, OneEdit, Started, Followed
<1>7. AnotherRemains /\ RestoreKeepsRenewed
  BY <1>1, <1>3, <1>5, EditRemains
<1>8. QED BY <1>6, <1>7 DEF StepKeeps

LEMMA PrepareKept == ASSUME KInv, Prepare PROVE StepKeeps
<1>1. /\ pc = "activate" /\ pc' = "begin" /\ disk' = disk /\ mem = disk /\ act' = act /\ Target' = Target
      /\ tok' = tok /\ live' = live /\ home' = home /\ Target \in Account /\ ~AlreadyNative
      /\ undo' = undo /\ outside' = outside /\ Identifiable(Live) /\ Whole /\ Live \in MaybeLogin
      /\ mem' = BeginRecovery([CapturedOutgoing EXCEPT !.owned = @ \ {Target}],
                              [target |-> Target, outgoing |-> Live])
      /\ disk.journal = NoJournal
  BY TargetSound, LiveSound
     DEF Prepare, Journalling, Goto, native, issuer, KInv, JInv, IInv, Phase, Unjournalled, Halves,
         Halved, Target
<1> DEFINE c == CapturedOutgoing
<1>2. /\ c \in Database /\ Newest(c, tok, live)
      /\ \A b \in Account : b # IdentityOf(Live) => c.login[b] = mem.login[b]
      /\ c.pending = mem.pending /\ c.ignored = mem.ignored /\ c.homed = mem.homed
      /\ Live # NoLogin /\ Live.as # Target => Live.as \in Excused(mem) \/ c.login[Live.as] = Live
  BY <1>1, CapturedKept
<1>3. mem' = BeginRecovery([c EXCEPT !.owned = @ \ {Target}], [target |-> Target, outgoing |-> Live])
  BY <1>1
<1> HIDE DEF c
<1>4. /\ mem'.login = c.login /\ mem'.pending = c.pending /\ mem'.ignored = c.ignored
      /\ mem'.homed = c.homed /\ mem'.journal.target = Target /\ mem'.journal.outgoing = Live
  BY <1>1, <1>2, <1>3, JournalEdits
<1>5. Newest(mem', tok, live)
  BY <1>2, <1>4, SameFields
<1>6. Kept(mem')
  <2> SUFFICES ASSUME Live # NoLogin
               PROVE  /\ Live.as = Target => Live.as \in Excused(mem')
                      /\ Live.as \in Excused(mem') \/ TokOf(mem'.login[Live.as]) = TokOf(Live)
    BY <1>4 DEF Kept
  <2>1. Excused(mem') = Excused(mem)
    BY <1>2, <1>4 DEF Excused
  <2>2. Live.as = Target => Target \in Excused(mem)
    BY <1>1 DEF AlreadyNative, IdentityOf, Excused
  <2>3. QED BY <1>2, <1>4, <2>1, <2>2
<1>7. InPlace(Live)
  BY <1>1, NativeIs, LiveSound DEF InPlace, KInv, JInv
<1>8. NothingNewer' /\ OutgoingKept'
  BY <1>1, <1>5, <1>6 DEF KInv, NothingNewer, OutgoingKept
<1>9. OneEdit' /\ Started' /\ Followed'
  <2>1. Outgoing' = Live
    BY <1>4 DEF Outgoing
  <2>2. Edited' = IdentityOf(Live)
    BY <1>1, <2>1 DEF Edited
  <2>3. OneEdit'
    BY <1>1, <1>2, <1>4, <2>2 DEF OneEdit
  <2>4. InPlace(Outgoing)'
    BY <1>1, <1>7, <2>1 DEF InPlace
  <2>5. Started' /\ Followed'
    BY <1>1, <2>4 DEF Started, Followed
  <2>6. QED BY <2>3, <2>5
<1>10. AnotherRemains /\ RestoreKeepsRenewed
  BY <1>1, EditRemains
<1>11. QED BY <1>8, <1>9, <1>10 DEF StepKeeps

LEMMA SettleRenewedKept == ASSUME KInv, SettleRenewed PROVE StepKeeps
<1>1. /\ pc = "settle" /\ pc' \in {"label", "auth"} /\ mem = disk /\ mem' = disk' /\ Target' = Target
      /\ tok' = tok /\ live' = live /\ home' = home /\ Target \in Account /\ outside' = outside
      /\ undo' = undo /\ Live # NoLogin /\ Identifiable(Live) /\ Whole
      /\ IdentityOf(Live) = IdentityOf(Outgoing)
      /\ disk' = [CapturedOutgoing EXCEPT !.journal.outgoing = Live]
      /\ disk.journal # NoJournal /\ mem.journal.target = Target /\ disk.journal \in Journal
  BY TargetSound
     DEF SettleRenewed, Goto, native, issuer, FirstWrite, KInv, JInv, IInv, Phase, JournalSteps,
         Unjournalled, Step, Halves, Halved, Target, Agreed, SoundDatabase, Database
<1> DEFINE c == CapturedOutgoing
           k == [c.journal EXCEPT !.outgoing = Live]
<1>2. /\ c \in Database /\ Newest(c, tok, live)
      /\ \A b \in Account : b # IdentityOf(Live) => c.login[b] = mem.login[b]
      /\ c.pending = mem.pending /\ c.ignored = mem.ignored /\ c.homed = mem.homed
      /\ c.journal = mem.journal
      /\ Live # NoLogin /\ Live.as # Target => Live.as \in Excused(mem) \/ c.login[Live.as] = Live
  BY <1>1, CapturedKept
<1>3. /\ Live.as \in Account /\ tok # NoToken /\ tok.of = Live.as /\ IdentityOf(Live) = Live.as
      /\ TokOf(Live) = tok
  BY <1>1, NativeIs
<1>4. disk' = [c EXCEPT !.journal.outgoing = Live]
  BY <1>1
<1> HIDE DEF c
<1>5. disk' = [c EXCEPT !.journal = k]
  BY <1>4
<1>6. k.outgoing = Live /\ k.target = Target
  BY <1>1, <1>2 DEF Journal
<1> HIDE DEF k
<1>7. /\ disk'.login = c.login /\ disk'.pending = c.pending /\ disk'.ignored = c.ignored
      /\ disk'.homed = c.homed /\ disk'.journal = k
  BY <1>2, <1>5 DEF Database
<1>8. Newest(disk', tok, live)
  BY <1>2, <1>7, SameFields
<1>9. Kept(disk')
  <2>1. Outgoing # NoLogin /\ Outgoing.as = Live.as
    BY <1>1, <1>3, VaultAssumption DEF IdentityOf
  <2>2. Live.as = Target => Target \in Excused(disk)
    BY <1>1, <2>1 DEF KInv, OutgoingKept, Kept, Outgoing
  <2>3. Excused(disk') = Excused(disk)
    BY <1>1, <1>2, <1>7 DEF Excused
  <2>4. QED BY <1>1, <1>2, <1>6, <1>7, <2>2, <2>3 DEF Kept
<1>10. NothingNewer' /\ OutgoingKept'
  BY <1>1, <1>8, <1>9 DEF NothingNewer, OutgoingKept
<1>11. OneEdit' /\ Started' /\ Followed'
  <2>1. TokOf(Outgoing') = tok'
    BY <1>1, <1>3, <1>6, <1>7 DEF Outgoing
  <2>2. QED BY <1>1, <2>1 DEF OneEdit, Started, Followed
<1>12. AnotherRemains /\ RestoreKeepsRenewed
  BY <1>1, <1>2, <1>3, <1>7, EditRemains
<1>13. QED BY <1>10, <1>11, <1>12 DEF StepKeeps

LEMMA ConfirmKept == ASSUME KInv, Confirm PROVE StepKeeps
<1>1. /\ pc = "confirm" /\ disk' = disk /\ mem = disk /\ tok' = tok /\ live' = live /\ home' = home
      /\ undo' = undo /\ ~undo /\ outside' = outside /\ Target' = Target /\ Target \in Account /\ Whole
      /\ mem \in Database /\ tok \in MaybeToken
  BY TargetSound
     DEF Confirm, Goto, native, issuer, KInv, JInv, IInv, Basic, Halves, Halved, Target, Agreed,
         SoundDatabase, Started
<1>2. AnotherRemains /\ RestoreKeepsRenewed
  BY <1>1, EditRemains
<1>3. CASE Live # NoLogin /\ Live.as = Target
  <2>1. mem' = Save(mem, Target, Live) /\ pc' = "finish"
    BY <1>3 DEF Confirm, Goto
  <2>2. Live \in Login /\ Live.tok = tok /\ tok # NoToken /\ tok.of = Target
    BY <1>1, <1>3, NativeIs DEF Identifiable
  <2>3. Newest(Save(mem, Target, Live), tok, live)
    BY <1>1, <2>2, NewestSaved
  <2>4. \A b \in Account : mem'.login[b] = mem.login[b] \/ b = Target
    <3>1. LET new == Save(mem, Target, Live) IN
          \A b \in Account : new.login[b] = IF b = Target THEN Live ELSE mem.login[b]
      BY <1>1, <2>2, SaveEdits
    <3>2. QED BY <2>1, <3>1
  <2>5. NothingNewer' /\ OutgoingKept'
    BY <1>1, <2>1, <2>3 DEF KInv, NothingNewer, OutgoingKept
  <2>6. OneEdit' /\ Started' /\ Followed'
    BY <1>1, <2>1, <2>2, <2>4 DEF OneEdit, Edited, Started, Followed
  <2>7. QED BY <1>2, <2>5, <2>6 DEF StepKeeps
<1>4. CASE ~(Live # NoLogin /\ Live.as = Target)
  <2>1. mem' = mem /\ pc' \in {"restore", "recover"}
    BY <1>4 DEF Confirm, Goto, Backout
  <2>2. NothingNewer' /\ OutgoingKept' /\ OneEdit' /\ Started' /\ Followed'
    BY <1>1, <2>1 DEF KInv, NothingNewer, OutgoingKept, OneEdit, Started, Followed
  <2>3. QED BY <1>2, <2>2 DEF StepKeeps
<1>5. QED BY <1>3, <1>4

-----------------------------------------------------------------------------
(* The steps of a recovery that save what they find.                        *)
LEMMA KeepNativeKept == ASSUME KInv, KeepNative PROVE StepKeeps
<1>1. /\ pc = "reread" /\ pc' = "readback" /\ disk' = disk /\ mem = disk /\ tok' = tok /\ live' = live
      /\ home' = home /\ undo' = TRUE /\ Live # NoLogin /\ Identifiable(Live) /\ Whole
      /\ Live.as = IdentityOf(Outgoing) /\ mem' = Capture(mem, Live.as, Live)
      /\ mem \in Database /\ tok \in MaybeToken
  BY DEF KeepNative, native, issuer, KInv, JInv, IInv, Basic, Halves, Halved, Agreed, SoundDatabase
<1>2. /\ Live \in Login /\ Live.as \in Account /\ Live.tok = tok /\ tok.of = Live.as
  BY <1>1, NativeIs
<1>3. Newest(Save(mem, Live.as, Live), tok, live)
  BY <1>1, <1>2, NewestSaved DEF KInv, NothingNewer
<1>4. Newest(mem', tok, live)
  BY <1>1, <1>3 DEF Capture, KInv, NothingNewer
<1>5. LET new == Capture(mem, Live.as, Live) IN
      (\A b \in Account : b # Live.as => new.login[b] = mem.login[b]) /\ new.journal = mem.journal
  BY <1>1, <1>2, CaptureEdits
<1>6. Edited' = Live.as
  BY <1>1, <1>5 DEF Edited, Outgoing
<1>7. NothingNewer' /\ OutgoingKept'
  BY <1>1, <1>4 DEF KInv, NothingNewer, OutgoingKept
<1>8. OneEdit' /\ Started' /\ Followed'
  BY <1>1, <1>5, <1>6 DEF OneEdit, Started, Followed
<1>9. AnotherRemains /\ RestoreKeepsRenewed
  BY <1>1, EditRemains
<1>10. QED BY <1>7, <1>8, <1>9 DEF StepKeeps

LEMMA SaveNativeKept == ASSUME KInv, SaveNative PROVE StepKeeps
<1>1. /\ pc = "reread" /\ pc' \in {"label", "auth"} /\ mem = disk /\ mem' = disk' /\ tok' = tok
      /\ live' = live /\ home' = home /\ undo' = TRUE /\ Live # NoLogin /\ Whole
      /\ Live.as = Target /\ Target # IdentityOf(Outgoing) /\ disk' = Save(mem, Target, Live)
      /\ Target \in Account /\ mem \in Database /\ tok \in MaybeToken
      /\ disk.journal # NoJournal
  BY TargetSound
     DEF SaveNative, PutBack, FirstWrite, native, issuer, KInv, JInv, IInv, Basic, Halves, Halved,
         Agreed, SoundDatabase, Phase, JournalSteps, Unjournalled, Step
<1>2. /\ Live \in Login /\ Live.tok = tok /\ tok # NoToken /\ tok.of = Target /\ TokOf(Live) = tok
  BY <1>1, NativeIs DEF Identifiable
<1>3. Newest(Save(mem, Target, Live), tok, live)
  BY <1>1, <1>2, NewestSaved
<1>4. /\ \A b \in Account : disk'.login[b] = IF b = Target THEN Live ELSE disk.login[b]
      /\ disk'.homed = disk.homed /\ disk'.journal = disk.journal
      /\ disk'.pending = disk.pending \ {Target} /\ disk'.ignored = disk.ignored
  <2>1. LET new == Save(mem, Target, Live) IN
        /\ \A b \in Account : new.login[b] = IF b = Target THEN Live ELSE mem.login[b]
        /\ new.pending = mem.pending \ {Target} /\ new.ignored = mem.ignored
        /\ new.homed = mem.homed /\ new.journal = mem.journal
    BY <1>1, <1>2, SaveEdits
  <2>2. QED BY <1>1, <2>1
<1>5. Kept(disk')
  <2> DEFINE o == disk.journal.outgoing.as
  <2> SUFFICES ASSUME disk.journal.outgoing # NoLogin
               PROVE  /\ o = disk.journal.target => o \in Excused(disk')
                      /\ o \in Excused(disk') \/ TokOf(disk'.login[o]) = TokOf(disk.journal.outgoing)
    BY <1>4 DEF Kept
  <2>1. o # Target /\ disk.journal.target = Target
    BY <1>1 DEF Outgoing, IdentityOf, KInv, JInv, Agreed, JournalSteps, Unjournalled, Step
  <2>2. o \in Account
    <3>1. disk.journal \in Journal /\ Coherent(disk.journal.outgoing)
      BY <1>1 DEF KInv, JInv, IInv, SoundDatabase, Database
    <3>2. QED BY <3>1 DEF Journal, MaybeLogin, Login, Token, Coherent
  <2>3. o \in Excused(disk) \/ TokOf(disk.login[o]) = TokOf(disk.journal.outgoing)
    BY <1>1 DEF KInv, OutgoingKept, Kept
  <2>4. QED BY <1>4, <2>1, <2>2, <2>3 DEF Excused
<1>6. NothingNewer' /\ OutgoingKept'
  BY <1>1, <1>3, <1>5 DEF NothingNewer, OutgoingKept
<1>7. OneEdit' /\ Started' /\ Followed'
  <2>1. tok' = TokOf(disk'.login[Target])
    BY <1>1, <1>2, <1>4
  <2>2. QED BY <1>1, <2>1 DEF OneEdit, Started, Followed
<1>8. AnotherRemains /\ RestoreKeepsRenewed
  BY <1>1, <1>2, <1>4, EditRemains
<1>9. QED BY <1>6, <1>7, <1>8 DEF StepKeeps

-----------------------------------------------------------------------------
(* The start of a switch, a sign-out, and the publications beside them.     *)
LEMMA CheckOutEdits ==
  ASSUME KInv, NEW a \in Account, home[a] # NoToken
  PROVE  LET new == CheckedOut(a) IN
         /\ \A b \in Account : b # a => new.login[b] = disk.login[b]
         /\ disk.login[a] # NoLogin => new.login[a] = disk.login[a]
         /\ disk.login[a] = NoLogin => new.login[a] = LoginOf(home[a])
         /\ new.login[a] # NoLogin
         /\ new.pending = disk.pending /\ new.ignored = disk.ignored
         /\ new.homed = disk.homed /\ new.journal = disk.journal
<1>1. disk.login \in [Account -> MaybeLogin] /\ disk \in Database
      /\ home[a] \in Token /\ home[a].of = a
  BY DEF KInv, JInv, IInv, SoundDatabase, Database, HomesSound, MaybeToken
<1>2. LoginOf(home[a]) # NoLogin
  BY <1>1, FirstSound, AbsentAssumption
<1> DEFINE l == IF disk.login[a] = NoLogin THEN LoginOf(home[a]) ELSE disk.login[a]
           new == [disk EXCEPT !.login = [disk.login EXCEPT ![a] = l]]
<1>3. CheckedOut(a) = new
  BY DEF CheckedOut
<1>4. /\ l # NoLogin
      /\ disk.login[a] # NoLogin => l = disk.login[a]
      /\ disk.login[a] = NoLogin => l = LoginOf(home[a])
  BY <1>2
<1> HIDE DEF l
<1>5. /\ new.login = [disk.login EXCEPT ![a] = l] /\ new.homed = disk.homed
      /\ new.pending = disk.pending /\ new.ignored = disk.ignored /\ new.journal = disk.journal
  BY <1>1 DEF Database
<1> HIDE DEF new
<1>6. \A b \in Account : new.login[b] = IF b = a THEN l ELSE disk.login[b]
  BY <1>1, <1>5
<1>7. QED BY <1>3, <1>4, <1>5, <1>6

LEMMA BeginUseKept ==
  ASSUME KInv, NEW a \in Account, NEW alongside \in BOOLEAN, BeginUse(a, alongside)
  PROVE  StepKeeps
<1>1. /\ pc = "idle" /\ mem' = disk' /\ disk.journal = NoJournal /\ Target' = a /\ tok' = tok
      /\ live' = live /\ home' = home /\ undo' = undo /\ tok \in MaybeToken
  BY DEF BeginUse, Begin, native, issuer, Target, KInv, JInv, IInv, Basic
<1>2. CASE a \in disk.homed /\ home[a] # NoToken
  <2>1. disk' = CheckedOut(a) /\ pc' = "empty"
    BY <1>2 DEF BeginUse, Begin
  <2>2. /\ \A b \in Account : b # a => disk'.login[b] = disk.login[b]
        /\ disk.login[a] # NoLogin => disk'.login[a] = disk.login[a]
        /\ disk.login[a] = NoLogin => disk'.login[a] = LoginOf(home[a])
        /\ disk'.login[a] # NoLogin
        /\ disk'.pending = disk.pending /\ disk'.ignored = disk.ignored
        /\ disk'.homed = disk.homed /\ disk'.journal = disk.journal
    BY <1>2, <2>1, CheckOutEdits
  <2>3. Newest(disk', tok, live)
    <3> SUFFICES ASSUME tok # NoToken, tok \notin live, tok.of \notin Excused(disk')
                 PROVE  /\ TokOf(disk'.login[tok.of]) \notin live
                        /\ disk'.login[tok.of] = NoLogin => tok.of \notin disk'.homed
      BY DEF Newest
    <3>1. /\ TokOf(disk.login[tok.of]) \notin live /\ tok.of \in Account
          /\ disk.login[tok.of] = NoLogin => tok.of \notin disk.homed
      BY <1>1, <2>2 DEF KInv, NothingNewer, Newest, Excused, MaybeToken, Token
    <3>2. CASE tok.of # a
      BY <2>2, <3>1, <3>2
    <3>3. CASE tok.of = a
      BY <1>2, <2>2, <3>1, <3>3
    <3>4. QED BY <3>2, <3>3
  <2>4. NothingNewer' /\ OutgoingKept' /\ OneEdit' /\ Started' /\ Followed'
    BY <1>1, <2>1, <2>2, <2>3 DEF NothingNewer, OutgoingKept, Kept, OneEdit, Started, Followed
  <2>5. home[a] \in Token /\ TokOf(LoginOf(home[a])) = home[a]
    <3>1. home[a] \in Token /\ home[a].of = a
      BY <1>2 DEF KInv, JInv, IInv, HomesSound, MaybeToken
    <3>2. LoginOf(home[a]) # NoLogin
      BY <3>1, FirstSound, AbsentAssumption
    <3>3. QED BY <3>1, <3>2 DEF TokOf, LoginOf
  <2>6. Held \subseteq Held'
    <3>1. \A b \in Account : TokOf(disk.login[b]) # NoToken => TokOf(disk.login[b]) = TokOf(disk'.login[b])
      BY <2>2 DEF TokOf
    <3>2. \A b \in disk.homed : disk.login[b] = NoLogin =>
            \/ home[b] = TokOf(disk'.login[b])
            \/ b \in disk'.homed /\ disk'.login[b] = NoLogin /\ home'[b] = home[b]
      <4>1. disk.homed \subseteq Account
        BY DEF KInv, JInv, IInv, SoundDatabase, Database
      <4>2. QED BY <1>1, <2>2, <2>5, <4>1
    <3>3. ASSUME NEW t \in Held PROVE t \in Held'
      <4>0. t # NoToken /\ disk.homed \subseteq Account
        BY DEF Held, KInv, JInv, IInv, SoundDatabase, Database
      <4>1. CASE t = tok
        BY <1>1, <4>0, <4>1 DEF Held
      <4>2. CASE \E b \in Account : t = TokOf(disk.login[b])
        BY <3>1, <4>0, <4>2 DEF Held
      <4>3. CASE \E b \in disk.homed : disk.login[b] = NoLogin /\ t = home[b]
        <5>1. PICK b \in disk.homed : disk.login[b] = NoLogin /\ t = home[b]
          BY <4>3
        <5>2. b \in Account
          BY <4>0, <5>1
        <5>3. CASE home[b] = TokOf(disk'.login[b])
          BY <4>0, <5>1, <5>2, <5>3 DEF Held
        <5>4. CASE b \in disk'.homed /\ disk'.login[b] = NoLogin /\ home'[b] = home[b]
          BY <4>0, <5>1, <5>4 DEF Held
        <5>5. QED BY <3>2, <5>1, <5>3, <5>4
      <4>4. QED BY <1>1, <4>0, <4>1, <4>2, <4>3 DEF Held
    <3>4. QED BY <3>3
  <2>7. AnotherRemains /\ RestoreKeepsRenewed
    BY <1>1, <2>6 DEF AnotherRemains, RestoreKeepsRenewed
  <2>8. QED BY <2>4, <2>7 DEF StepKeeps
<1>3. CASE ~(a \in disk.homed /\ home[a] # NoToken)
  <2>1. disk' = disk /\ pc' = "activate"
    BY <1>3 DEF BeginUse, Begin
  <2>2. NothingNewer' /\ OutgoingKept' /\ OneEdit' /\ Started' /\ Followed'
    BY <1>1, <2>1 DEF KInv, NothingNewer, OutgoingKept, OneEdit, Started, Followed
  <2>3. AnotherRemains /\ RestoreKeepsRenewed
    BY <1>1, <2>1, EditRemains
  <2>4. QED BY <2>2, <2>3 DEF StepKeeps
<1>4. QED BY <1>2, <1>3

LEMMA SignOutKept == ASSUME KInv, Forget \/ Logout PROVE StepKeeps
<1>1. /\ pc \in {"forget", "logout"} /\ disk.journal = NoJournal /\ mem = disk /\ disk \in Database
      /\ act.op = "signout" /\ ~undo /\ live \subseteq Token
  BY DEF Forget, Logout, KInv, JInv, IInv, Basic, Phase, Unjournalled, SoundDatabase, Started
<1>2. AnotherRemains /\ RestoreKeepsRenewed
  BY <1>1 DEF AnotherRemains, SwitchStep, RestoreKeepsRenewed
<1>3. CASE Forget
  <2> DEFINE W == disk.saved \cap SameUser(Target)
  <2>1. /\ disk' = SignOutUser(disk, W) /\ mem' = disk' /\ pc' = "logout" /\ tok' = tok /\ live' = live
        /\ undo' = undo /\ act' = act
    BY <1>3 DEF Forget, native, issuer
  <2> HIDE DEF W
  <2>2. /\ \A b \in Account : disk'.login[b] = IF b \in W THEN NoLogin ELSE disk.login[b]
        /\ disk'.pending = disk.pending /\ disk'.ignored = disk.ignored
        /\ disk'.homed = disk.homed \ W /\ disk'.journal = NoJournal
    BY <1>1, <2>1 DEF SignOutUser, Database
  <2>3. Newest(disk', tok, live)
    <3> SUFFICES ASSUME tok # NoToken, tok \notin live, tok.of \notin Excused(disk')
                 PROVE  /\ TokOf(disk'.login[tok.of]) \notin live
                        /\ disk'.login[tok.of] = NoLogin => tok.of \notin disk'.homed
      BY DEF Newest
    <3>1. /\ TokOf(disk.login[tok.of]) \notin live /\ tok.of \in Account
          /\ disk.login[tok.of] = NoLogin => tok.of \notin disk.homed
      BY <2>2 DEF KInv, NothingNewer, Newest, Excused, JInv, IInv, Basic, MaybeToken, Token
    <3>2. TokOf(NoLogin) \notin live
      BY <1>1, AbsentAssumption DEF TokOf
    <3>3. QED BY <2>2, <3>1, <3>2
  <2>4. NothingNewer' /\ OutgoingKept' /\ OneEdit' /\ Started' /\ Followed'
    BY <1>1, <2>1, <2>2, <2>3 DEF NothingNewer, OutgoingKept, Kept, OneEdit, Started, Followed
  <2>5. QED BY <1>2, <2>4 DEF StepKeeps
<1>4. CASE Logout
  <2>1. /\ disk' = disk /\ mem' = disk /\ pc' = "idle" /\ tok' = NoToken /\ undo' = FALSE
    BY <1>4 DEF Logout, Return
  <2>2. NothingNewer' /\ OutgoingKept' /\ OneEdit' /\ Started' /\ Followed'
    BY <1>1, <2>1 DEF NothingNewer, Newest, OutgoingKept, Kept, OneEdit, Started, Followed
  <2>3. QED BY <1>2, <2>2 DEF StepKeeps
<1>5. QED BY <1>3, <1>4

(* A publication: what it has to say of the logins.                         *)
LEMMA PublishedKept ==
  ASSUME KInv, pc \in {"idle", "forget"}, pc' = pc, act' = act, undo' = undo, mem' = disk',
         disk'.journal = NoJournal, Newest(disk', tok', live')
  PROVE  StepKeeps
<1>1. NothingNewer' /\ OutgoingKept' /\ OneEdit' /\ Started' /\ Followed'
  BY DEF KInv, NothingNewer, OutgoingKept, Kept, OneEdit, Started, Followed
<1>2. AnotherRemains /\ RestoreKeepsRenewed
  BY DEF AnotherRemains, SwitchStep, RestoreKeepsRenewed
<1>3. QED BY <1>1, <1>2 DEF StepKeeps

LEMMA VaultKept == ASSUME KInv, Vault PROVE StepKeeps
<1>0. /\ disk \in Database /\ tok \in MaybeToken /\ live \subseteq Token /\ Newest(disk, tok, live)
      /\ minted \in Nat /\ \A a \in Account : disk.login[a] \in MaybeLogin
      /\ SoundDatabase(disk) /\ Fresh(tok, minted)
  BY DEF KInv, JInv, IInv, Basic, SoundDatabase, Database, NothingNewer, StoresApart
<1>1. CASE SaveCurrent \/ Remember
  <2> DEFINE again == IF SaveCurrent THEN Reenroll(disk, Live.as) ELSE disk
  <2>1. /\ pc \in {"idle", "forget"} /\ pc' = pc /\ act' = act /\ undo' = undo /\ mem' = disk'
        /\ disk.journal = NoJournal /\ tok' = tok /\ live' = live /\ Whole
        /\ Live # NoLogin /\ Identifiable(Live)
    BY <1>1 DEF SaveCurrent, Remember, Publish, Verified, native, issuer, change, KInv, JInv, IInv, Halves
  <2>2. Live \in Login /\ Live.as \in Account /\ Live.tok = tok /\ tok # NoToken /\ tok.of = Live.as
    BY <2>1, NativeIs
  <2>3. disk' = Save(again, Live.as, Live)
    BY <1>1 DEF SaveCurrent, Remember, Publish
  <2>4. /\ again \in Database /\ again.journal = NoJournal
    BY <1>0, <2>1, <2>2, RemoveSound DEF SoundDatabase
  <2> HIDE DEF again
  <2>5. Newest(disk', tok, live)
    BY <1>0, <2>2, <2>3, <2>4, NewestSaved
  <2>6. disk'.journal = NoJournal
    BY <2>2, <2>3, <2>4, SaveFields
  <2>7. QED BY <2>1, <2>5, <2>6, PublishedKept
<1>2. ASSUME NEW a \in Account, Remove(a) PROVE StepKeeps
  <2>1. /\ pc \in {"idle", "forget"} /\ pc' = pc /\ act' = act /\ undo' = undo /\ mem' = disk'
        /\ disk.journal = NoJournal /\ tok' = tok /\ live' = live /\ disk' = RemoveProfile(disk, a)
    BY <1>2 DEF Remove, Publish, native, issuer, change
  <2>2. /\ \A b \in Account : b # a => disk'.login[b] = disk.login[b]
        /\ disk'.pending = disk.pending \ {a} /\ disk'.ignored = disk.ignored \cup {a}
        /\ disk'.homed = disk.homed \ {a} /\ disk'.journal = NoJournal
    BY <1>0, <2>1 DEF RemoveProfile, Database
  <2>3. Newest(disk', tok, live)
    BY <1>0, <2>2 DEF Newest, Excused, MaybeToken, Token
  <2>4. QED BY <2>1, <2>2, <2>3, PublishedKept
<1>3. ASSUME NEW a \in Account, SignIn(a) PROVE StepKeeps
  <2> DEFINE new == [of |-> a, gen |-> NextGen]
             l   == LoginOf(new)
  <2>1. /\ pc \in {"idle", "forget"} /\ pc' = pc /\ act' = act /\ undo' = undo /\ mem' = disk'
        /\ disk.journal = NoJournal /\ tok' = tok /\ live' = live \cup {new}
        /\ disk' = PublishSignIn(disk, a, l, ~ClaudeCode)
    BY <1>3 DEF SignIn, Publish, Mint, native, change
  <2>2. new \in Token /\ new.of = a /\ l \in Login
    <3>1. new \in Token
      BY <1>3, MintSound DEF SignIn, KInv, JInv
    <3>2. new.of = a
      OBVIOUS
    <3> HIDE DEF new
    <3>3. QED BY <3>1, <3>2, FirstSound
  <2> HIDE DEF new, l
  <2> DEFINE saved == Save(Reenroll(disk, a), a, l)
  <2>3. /\ saved \in Database /\ saved.journal = NoJournal
        /\ \A b \in Account : b # a => saved.login[b] = disk.login[b]
        /\ \A b \in Account : b # a /\ b \in Excused(disk) => b \in Excused(saved)
        /\ saved.homed = disk.homed
    <3> DEFINE again == Reenroll(disk, a)
    <3>1. /\ again \in Database /\ again.login = disk.login /\ again.homed = disk.homed
          /\ again.pending = disk.pending /\ again.ignored = disk.ignored \ {a}
          /\ again.journal = NoJournal
      BY <1>0, <2>1 DEF Reenroll, Database
    <3> HIDE DEF again
    <3>2. LET new2 == Save(again, a, l) IN
          /\ \A b \in Account : new2.login[b] = IF b = a THEN l ELSE again.login[b]
          /\ new2.pending = again.pending \ {a} /\ new2.ignored = again.ignored
          /\ new2.homed = again.homed /\ new2.journal = again.journal
      BY <2>2, <3>1, SaveEdits
    <3>3. Save(again, a, l) \in Database
      BY <2>2, <3>1 DEF Save, Database, MaybeLogin
    <3>4. saved = Save(again, a, l)
      BY DEF again
    <3> HIDE DEF saved
    <3>5. QED BY <3>1, <3>2, <3>3, <3>4 DEF Excused
  <2>4. disk' = [saved EXCEPT !.homed = saved.homed \ {a}, !.pending = saved.pending \cup {a},
                              !.owned = IF ~ClaudeCode THEN saved.owned \cup {a} ELSE saved.owned]
    BY <2>1 DEF PublishSignIn
  <2> HIDE DEF saved
  <2>5. /\ disk'.login = saved.login /\ disk'.pending = saved.pending \cup {a}
        /\ disk'.ignored = saved.ignored /\ disk'.homed = saved.homed \ {a}
        /\ disk'.journal = saved.journal
    BY <2>3, <2>4 DEF Database
  <2>6. Newest(disk', tok, live')
    <3> SUFFICES ASSUME tok # NoToken, tok \notin live', tok.of \notin Excused(disk')
                 PROVE  /\ TokOf(disk'.login[tok.of]) \notin live'
                        /\ disk'.login[tok.of] = NoLogin => tok.of \notin disk'.homed
      BY DEF Newest
    <3>1. tok.of \in Account /\ tok.of # a /\ tok \notin live
      BY <1>0, <2>1, <2>5 DEF Excused, MaybeToken, Token
    <3>2. tok.of \notin Excused(disk)
      BY <2>3, <2>5, <3>1 DEF Excused
    <3>3. /\ TokOf(disk.login[tok.of]) \notin live
          /\ disk.login[tok.of] = NoLogin => tok.of \notin disk.homed
      BY <1>0, <3>1, <3>2 DEF Newest
    <3>4. TokOf(disk.login[tok.of]) # new
      <4>1. CASE disk.login[tok.of] = NoLogin
        BY <2>2, <4>1, AbsentAssumption DEF TokOf
      <4>2. CASE disk.login[tok.of] # NoLogin
        BY <1>0, <2>2, <3>1, <4>2 DEF SoundDatabase, TokOf
      <4>3. QED BY <4>1, <4>2
    <3>5. QED BY <2>1, <2>3, <2>5, <3>1, <3>3, <3>4
  <2>7. QED BY <2>1, <2>3, <2>5, <2>6, PublishedKept
<1>4. QED BY <1>1, <1>2, <1>3 DEF Vault

(* A native token is spent only by the renewal that replaces it.            *)
LEMMA WorldKept == ASSUME KInv, World PROVE StepKeeps
<1>0. /\ SoundDatabase(disk) /\ tok \in MaybeToken /\ live \subseteq Token /\ minted \in Nat
      /\ Newest(disk, tok, live) /\ Newest(mem, tok, live) /\ KInv /\ IInv
  BY DEF KInv, JInv, IInv, Basic, NothingNewer
<1>1. ASSUME pc' = pc, tok' = NoToken \/ tok' \in live', disk' = disk, mem' = mem, act' = act,
             undo' = undo, Followed'
      PROVE  StepKeeps
  <2>1. NothingNewer' /\ OutgoingKept' /\ OneEdit' /\ Started'
    BY <1>1, <1>0 DEF KInv, NothingNewer, Newest, OutgoingKept, OneEdit, Edited, Started, Target, Outgoing
  <2>2. AnotherRemains /\ RestoreKeepsRenewed
    BY <1>1 DEF AnotherRemains, SwitchStep, RestoreKeepsRenewed
  <2>3. QED BY <1>1, <2>1, <2>2 DEF StepKeeps
<1>2. CASE ClientRenews
  <2> DEFINE new == [of |-> tok.of, gen |-> NextGen]
  <2>1. /\ pc' = pc /\ disk' = disk /\ mem' = mem /\ act' = act /\ undo' = undo /\ outside' = outside
        /\ Target' = Target /\ tok' = new /\ new \in live' /\ tok \in Token
    BY <1>0, <1>2 DEF ClientRenews, Mint, store, change, Target
  <2>2. pc \notin {"label", "auth"}
    BY <1>0, <1>2, SwitchAssumption DEF ClientRenews, IInv, Phase
  <2>3. tok # NoToken /\ new.of = tok.of /\ new # NoToken
    <3>1. new \in Token
      BY <1>0, <1>2, <2>1, MintSound DEF ClientRenews, Token
    <3>2. QED BY <2>1, <3>1, AbsentAssumption
  <2> HIDE DEF new
  <2>4. Followed'
    BY <1>0, <2>1, <2>2, <2>3 DEF KInv, Followed, InPlace, Outgoing
  <2>5. QED BY <1>1, <2>1, <2>4
<1>3. ASSUME NEW a \in Account, HomeRenews(a) PROVE StepKeeps
  <2> DEFINE new == [of |-> a, gen |-> NextGen]
  <2>1. /\ pc = "idle" /\ pc' = pc /\ disk' = disk /\ mem' = mem /\ mem = disk /\ act' = act
        /\ undo' = undo /\ tok' = tok /\ a \in disk.homed /\ home[a] \in live
        /\ live' = (live \ {home[a]}) \cup {new}
    BY <1>0, <1>3 DEF HomeRenews, Mint, store, native, change, IInv, Phase
  <2>2. new \in Token /\ new.gen = minted + 1
    BY <1>0, <1>3, MintSound DEF HomeRenews, NextGen
  <2> HIDE DEF new
  <2>3. home[a] # tok
    BY <1>0, <2>1, AbsentAssumption DEF KInv, JInv, StoresApart, Apart
  <2>4. \A b \in Account : TokOf(disk.login[b]) # new
    <3> SUFFICES ASSUME NEW b \in Account PROVE TokOf(disk.login[b]) # new
      OBVIOUS
    <3>1. Fresh(TokOf(disk.login[b]), minted)
      BY <1>0 DEF KInv, JInv, StoresApart, Apart
    <3>2. TokOf(disk.login[b]) \in MaybeToken
      BY <1>0 DEF SoundDatabase, Database, MaybeLogin, Login, TokOf, MaybeToken
    <3>3. QED BY <1>0, <2>2, <3>1, <3>2, AbsentAssumption DEF Fresh, MaybeToken, Token, Gen
  <2>5. Newest(disk, tok, live')
    BY <1>0, <2>1, <2>3, <2>4 DEF Newest, MaybeToken, Token
  <2>6. NothingNewer' /\ OutgoingKept' /\ OneEdit' /\ Started' /\ Followed'
    BY <1>0, <2>1, <2>5 DEF KInv, NothingNewer, OutgoingKept, OneEdit, Started, Followed
  <2>7. AnotherRemains /\ RestoreKeepsRenewed
    BY <2>1 DEF AnotherRemains, SwitchStep, RestoreKeepsRenewed
  <2>8. QED BY <2>6, <2>7 DEF StepKeeps
<1>4. ASSUME NEW a \in Account, UserSignsIn(a) PROVE StepKeeps
  <2>1. /\ pc' = pc /\ disk' = disk /\ mem' = mem /\ act' = act /\ undo' = undo
        /\ tok' \in live' /\ (~outside' => pc = "idle")
    BY <1>4 DEF UserSignsIn, Outside, Mint, store, change
  <2>2. Followed'
    BY <2>1 DEF Followed
  <2>3. QED BY <1>1, <2>1, <2>2
<1>5. CASE UserSignsOut
  <2>1. /\ pc' = pc /\ disk' = disk /\ mem' = mem /\ act' = act /\ undo' = undo
        /\ tok' = NoToken /\ (~outside' => pc = "idle")
    BY <1>5 DEF UserSignsOut, Outside, store, change
  <2>2. Followed'
    BY <2>1 DEF Followed
  <2>3. QED BY <1>1, <2>1, <2>2
<1>6. CASE ClientStarts \/ ClientsClose
  BY <1>6, QuietKept
<1>7. QED BY <1>2, <1>3, <1>4, <1>5, <1>6 DEF World

LEMMA StartKept == Init => KInv
<1> SUFFICES ASSUME Init PROVE KInv
  OBVIOUS
<1>1. JInv
  BY StartApart
<1>2. /\ pc = "idle" /\ mem = disk /\ ~undo /\ disk.journal = NoJournal
      /\ tok = NoToken \/ tok \in live
  BY DEF Init, AtRest, MaybeAccount
<1>3. QED BY <1>1, <1>2 DEF KInv, NothingNewer, Newest, OutgoingKept, Kept, OneEdit, Started, Followed

LEMMA StepIsKept ==
  ASSUME KInv, Next
  PROVE  StepKeeps
<1>1. \A a \in Account, alongside \in BOOLEAN : BeginUse(a, alongside) => StepKeeps
  BY BeginUseKept
<1>2. Use => StepKeeps
  BY <1>1, HomeEmptiedKept, RefreshSavedKept, PrepareKept, JournalledKept, SettleRenewedKept,
     ConfirmKept, EndKept, QuietKept
     DEF Use
<1>3. Write \/ Recover \/ SignOut => StepKeeps
  BY WriteAuthKept, EndKept, KeepNativeKept, SaveNativeKept, SignOutKept, QuietKept
     DEF Write, Recover, SignOut
<1>4. QED BY <1>2, <1>3, VaultKept, WorldKept DEF Next

LEMMA KeptInductive ==
  ASSUME ClaudeCode => StatusNamesToken, KInv, [Next]_vars
  PROVE  KInv' /\ (vars' # vars => StepKeeps)
<1>1. JInv'
  BY StoresNext DEF KInv
<1>2. CASE UNCHANGED vars
  <2>1. NothingNewer' /\ OutgoingKept' /\ OneEdit' /\ Started' /\ Followed'
    BY <1>2 DEF KInv, vars, NothingNewer, OutgoingKept, OneEdit, Edited, Started, Followed, InPlace,
                Target, Outgoing
  <2>2. QED BY <1>1, <1>2, <2>1 DEF KInv
<1>3. CASE Next
  BY <1>1, <1>3, StepIsKept DEF StepKeeps, KInv
<1>4. QED BY <1>2, <1>3

(* NoLoginLost: whatever fails, crashes or renews a login in between, and   *)
(* unless the user changed the native login meanwhile, no step of a switch  *)
(* or of a recovery lets go of the last usable login of an account, and none*)
(* writes over a usable login that is not in the vault.                     *)
THEOREM NoLoginIsLost ==
  ASSUME ClaudeCode => StatusNamesToken
  PROVE  Spec => NoLoginLost
<1>1. Init => KInv
  BY StartKept
<1>2. KInv /\ [Next]_vars => KInv'
  BY KeptInductive
<1>3. KInv /\ [Next]_vars => [~outside => AnotherRemains /\ RestoreKeepsRenewed]_vars
  BY KeptInductive DEF StepKeeps
<1>4. QED BY <1>1, <1>2, <1>3, PTL DEF Spec, NoLoginLost

-----------------------------------------------------------------------------
(* The locks of Claude's login.                                             *)
Inside   == {"read", "check", "commit"}
Taking   == {"take", "break", "retake"}
Holdings == {<<>>, <<"refresh">>} \cup Plans

Busy == [step : Inside \cup Taking \cup {"release"}, plan : Plans, held : Holdings,
         id : Edit, read : Document, target : {"none", "key", "file"}]

(* A writer takes the locks of its plan in their order, and has them all    *)
(* from the read to the write.                                              *)
Fits(h) ==
  \/ h = Away
  \/ /\ h \in Busy
     /\ h.step \in Taking => \/ h.held = <<>>
                             \/ h.held = <<"refresh">> /\ h.plan = <<"refresh", "storage">>
     /\ h.step \in Inside => h.held = h.plan
     /\ h.step \in {"check", "commit"} => h.target # "none"

Locks(h) == IF h.step = "away" THEN {} ELSE {h.held[i] : i \in DOMAIN h.held}

LocksTyped ==
  /\ LocksTypeOK
  /\ used \in [writes : 0..MaxWrites, crashes : 0..MaxCrashes, denials : 0..MaxDenials]
  /\ \A w \in Writer : Fits(holder[w])
  /\ holder = [w \in Writer |-> holder[w]]

(* A lock is one writer's, which touched it since time passed last, so that *)
(* nobody finds it stale and no heartbeat misses it.                        *)
Alone ==
  ~doubly =>
    \A w \in Writer :
      /\ \A p \in Locks(holder[w]) : dir[p] = 0
      /\ \A v \in Writer \ {w} : Locks(holder[w]) \cap Locks(holder[v]) = {}
      /\ holder[w].step # "away" => ~lost[w]

(* What was read under the locks is what is there when it is written.       *)
Current == IF Seen = Missing THEN {} ELSE Seen

HasRead(h) ==
  h.step \in {"check", "commit"} =>
    /\ h.target = IF stores.key # Missing THEN "key" ELSE "file"
    /\ h.read = Current

ReadIsCurrent ==
  ~doubly =>
    /\ kept \subseteq Current
    /\ \A w \in Writer : HasRead(holder[w])

LocksInv == LocksTyped /\ Alone /\ ReadIsCurrent

LEMMA MissingIsNone ==
  /\ 0 \in Age /\ Missing # 0 /\ Missing \notin Age /\ Missing \notin Document
  /\ {} \in Document
<1>1. 0 \in Age
  BY LocksAssumption DEF Age
<1>2. {} \in Document
  BY DEF Document
<1>3. \A value \in Age \cup Document : value # Missing
  BY LocksAssumption
<1> QED BY <1>1, <1>2, <1>3

LEMMA LocksAre ==
  ASSUME NEW h, Fits(h)
  PROVE  /\ h = Away => Locks(h) = {} /\ h.step = "away"
         /\ h # Away => /\ h \in Busy /\ h.step # "away"
                        /\ h.held = <<>> => Locks(h) = {}
                        /\ h.held = <<"refresh">> => Locks(h) = {"refresh"}
                        /\ h.held = <<"storage">> => Locks(h) = {"storage"}
                        /\ h.held = <<"refresh", "storage">> => Locks(h) = {"refresh", "storage"}
         /\ h.step \in Inside => "storage" \in Locks(h)
         /\ Locks(h) \subseteq Path
<1>1. CASE h = Away
  BY <1>1 DEF Locks, Away, Inside
<1>2. CASE h # Away
  <2>1. h \in Busy /\ h.step # "away"
    BY <1>2 DEF Fits, Busy, Inside, Taking
  <2>2. Locks(h) = {h.held[i] : i \in DOMAIN h.held}
    BY <2>1 DEF Locks
  <2>3. /\ h.held = <<>> => Locks(h) = {}
        /\ h.held = <<"refresh">> => Locks(h) = {"refresh"}
        /\ h.held = <<"storage">> => Locks(h) = {"storage"}
        /\ h.held = <<"refresh", "storage">> => Locks(h) = {"refresh", "storage"}
    BY <2>2
  <2>4. h.held \in {<<>>, <<"refresh">>, <<"storage">>, <<"refresh", "storage">>}
    BY <2>1 DEF Busy, Holdings, Plans
  <2>5. h.step \in Inside => h.held \in {<<"storage">>, <<"refresh", "storage">>}
    BY <1>2, <2>1 DEF Fits, Busy, Plans
  <2> QED BY <1>2, <2>1, <2>3, <2>4, <2>5 DEF Path
<1> QED BY <1>1, <1>2

LEMMA LocksInvInit == LocksInit => LocksInv
<1> SUFFICES ASSUME LocksInit PROVE LocksInv
  OBVIOUS
<1>1. LocksTyped
  <2>1. dir \in [Path -> Age \cup {Missing}] /\ kept \subseteq Edit
        /\ lost \in [Writer -> BOOLEAN]
    BY DEF LocksInit
  <2>2. stores \in [{"key", "file"} -> Document \cup {Missing}]
    BY MissingIsNone DEF LocksInit
  <2>3. used \in [writes : 0..MaxWrites, crashes : 0..MaxCrashes, denials : 0..MaxDenials]
    BY LocksAssumption DEF LocksInit
  <2>4. holder = [w \in Writer |-> holder[w]] /\ \A w \in Writer : Fits(holder[w])
    BY DEF LocksInit, Fits
  <2> QED BY <2>1, <2>2, <2>3, <2>4 DEF LocksTyped, LocksTypeOK
<1>2. \A w \in Writer : Locks(holder[w]) = {} /\ holder[w].step = "away"
  BY DEF LocksInit, Locks, Away
<1>3. Alone /\ ReadIsCurrent
  BY <1>2 DEF LocksInit, Alone, ReadIsCurrent, HasRead
<1> QED BY <1>1, <1>3 DEF LocksInv

(* A step of one writer w, which becomes h.                                 *)
LEMMA OneSteps ==
  ASSUME LocksInv, NEW w \in Writer, NEW h, Fits(h), holder' = [holder EXCEPT ![w] = h],
         LocksTypeOK', used' \in [writes : 0..MaxWrites, crashes : 0..MaxCrashes,
                                  denials : 0..MaxDenials]
  PROVE  LocksTyped' /\ holder'[w] = h /\ \A v \in Writer \ {w} : holder'[v] = holder[v]
<1>1. holder'[w] = h /\ \A v \in Writer \ {w} : holder'[v] = holder[v]
  BY DEF LocksInv, LocksTyped
<1>2. holder' = [v \in Writer |-> holder'[v]]
  BY DEF LocksInv, LocksTyped
<1> QED BY <1>1, <1>2 DEF LocksInv, LocksTyped

(* It takes no lock and leaves the stores alone.                            *)
LEMMA TakesNoLock ==
  ASSUME LocksInv, NEW w \in Writer, NEW h, Fits(h), holder' = [holder EXCEPT ![w] = h],
         Locks(h) \subseteq Locks(holder[w]),
         used' \in [writes : 0..MaxWrites, crashes : 0..MaxCrashes, denials : 0..MaxDenials],
         lost' \in {lost, [lost EXCEPT ![w] = FALSE]},
         holder[w].step = "away" /\ h.step # "away" => lost' = [lost EXCEPT ![w] = FALSE],
         UNCHANGED <<dir, stores, kept, doubly>>,
         doubly \/ HasRead(h)
  PROVE  LocksInv'
<1>1. LocksTypeOK'
  BY DEF LocksInv, LocksTyped, LocksTypeOK
<1>2. LocksTyped' /\ holder'[w] = h /\ \A v \in Writer \ {w} : holder'[v] = holder[v]
  BY <1>1, OneSteps
<1>3. Alone'
  <2>1. \A v \in Writer \ {w} : lost'[v] = lost[v]
    BY DEF LocksInv, LocksTyped, LocksTypeOK
  <2>2. ~doubly /\ h.step # "away" => ~lost'[w]
    BY DEF LocksInv, LocksTyped, LocksTypeOK, Alone
  <2> QED BY <1>2, <2>1, <2>2 DEF LocksInv, Alone
<1>4. ReadIsCurrent'
  BY <1>2 DEF LocksInv, ReadIsCurrent, HasRead, Current, Seen
<1> QED BY <1>2, <1>3, <1>4 DEF LocksInv

LEMMA GoesTo ==
  ASSUME LocksInv, NEW w \in Writer, NEW step \in Inside \cup Taking \cup {"release"},
         holder[w] # Away, GoOn(w, step)
  PROVE  /\ holder' = [holder EXCEPT ![w] = [holder[w] EXCEPT !.step = step]]
         /\ holder[w] \in Busy /\ [holder[w] EXCEPT !.step = step] \in Busy
         /\ [holder[w] EXCEPT !.step = step].step = step
         /\ Locks([holder[w] EXCEPT !.step = step]) = Locks(holder[w])
<1>1. holder[w] \in Busy /\ holder[w].step # "away"
  BY LocksAre DEF LocksInv, LocksTyped
<1>2. holder' = [holder EXCEPT ![w] = [holder[w] EXCEPT !.step = step]]
  BY DEF GoOn, LocksInv, LocksTyped
<1>3. [holder[w] EXCEPT !.step = step] \in Busy
      /\ [holder[w] EXCEPT !.step = step].step = step
      /\ [holder[w] EXCEPT !.step = step].held = holder[w].held
  BY <1>1 DEF Busy
<1>4. step # "away"
  BY DEF Inside, Taking
<1> QED BY <1>1, <1>2, <1>3, <1>4 DEF Locks

LEMMA NotAway ==
  ASSUME NEW w, holder[w].step # "away"
  PROVE  holder[w] # Away
BY DEF Away

LEMMA BeginWriteSafe == ASSUME LocksInv, NEW w \in Writer, BeginWrite(w) PROVE LocksInv'
<1>1. used' \in [writes : 0..MaxWrites, crashes : 0..MaxCrashes, denials : 0..MaxDenials]
      /\ used'.writes \in Edit
  BY LocksAssumption DEF BeginWrite, Once, LocksInv, LocksTyped, Edit
<1>2. PICK plan \in Plans :
        holder' = [holder EXCEPT ![w] = [step |-> "take", plan |-> plan, held |-> <<>>,
                                         id |-> used'.writes, read |-> {}, target |-> "none"]]
  BY DEF BeginWrite
<1> DEFINE h == [step |-> "take", plan |-> plan, held |-> <<>>, id |-> used'.writes,
                 read |-> {}, target |-> "none"]
<1>3. h \in Busy
  BY <1>1, MissingIsNone DEF Busy, Holdings, Taking
<1>4. h.step = "take" /\ h.held = <<>> /\ h # Away
  BY DEF Away
<1>5. Fits(h)
  BY <1>3, <1>4 DEF Fits, Inside
<1>6. Locks(h) = {}
  BY <1>4, <1>5, LocksAre
<1>7. lost' = [lost EXCEPT ![w] = FALSE]
  BY DEF BeginWrite
<1>8. UNCHANGED <<dir, stores, kept, doubly>>
  BY DEF BeginWrite
<1>9. holder' = [holder EXCEPT ![w] = h]
  BY <1>2
<1> HIDE DEF h
<1>10. Locks(h) \subseteq Locks(holder[w])
  BY <1>6
<1>11. HasRead(h)
  BY <1>4 DEF HasRead
<1> QED BY <1>1, <1>5, <1>7, <1>8, <1>9, <1>10, <1>11, TakesNoLock

(* It goes on to another step with the locks it has.                        *)
LEMMA PassesOn ==
  ASSUME LocksInv, NEW w \in Writer, NEW step \in {"release", "break", "commit"},
         holder[w] # Away, GoOn(w, step), UNCHANGED <<dir, lost, stores, used, kept, doubly>>,
         step = "break" => holder[w].step = "take", step = "commit" => holder[w].step = "check"
  PROVE  LocksInv'
<1> DEFINE h == [holder[w] EXCEPT !.step = step]
<1>1. step \in Inside \cup Taking \cup {"release"}
  BY DEF Inside, Taking
<1>2. /\ holder' = [holder EXCEPT ![w] = h] /\ holder[w] \in Busy /\ h \in Busy
      /\ h.step = step /\ Locks(h) = Locks(holder[w])
  BY <1>1, GoesTo
<1>3. /\ h.held = holder[w].held /\ h.plan = holder[w].plan
      /\ h.read = holder[w].read /\ h.target = holder[w].target
      /\ holder[w].step # "away"
  BY <1>2, LocksAre DEF Busy, LocksInv, LocksTyped
<1> HIDE DEF h
<1>4. Fits(holder[w])
  BY DEF LocksInv, LocksTyped
<1>5. Fits(h)
  BY <1>2, <1>3, <1>4 DEF Fits, Inside, Taking
<1>6. doubly \/ HasRead(h)
  BY <1>2, <1>3 DEF LocksInv, ReadIsCurrent, HasRead
<1>7. lost' = lost
      /\ used' \in [writes : 0..MaxWrites, crashes : 0..MaxCrashes, denials : 0..MaxDenials]
  BY DEF LocksInv, LocksTyped
<1> QED BY <1>2, <1>3, <1>5, <1>6, <1>7, TakesNoLock

LEMMA NextIsLock ==
  ASSUME LocksInv, NEW w \in Writer, holder[w].step \in Taking
  PROVE  NextLock(w) \in Path
<1>1. /\ holder[w] \in Busy
      /\ \/ holder[w].held = <<>>
         \/ holder[w].held = <<"refresh">> /\ holder[w].plan = <<"refresh", "storage">>
  BY NotAway DEF LocksInv, LocksTyped, Fits, Taking
<1>2. holder[w].plan = <<"refresh", "storage">> \/ holder[w].plan = <<"storage">>
  BY <1>1 DEF Busy, Plans
<1>3. CASE holder[w].held = <<>>
  <2>1. NextLock(w) = holder[w].plan[1]
    BY <1>3 DEF NextLock
  <2> QED BY <1>2, <2>1 DEF Path
<1>4. CASE holder[w].held = <<"refresh">> /\ holder[w].plan = <<"refresh", "storage">>
  <2>1. NextLock(w) = <<"refresh", "storage">>[2]
    BY <1>4 DEF NextLock
  <2> QED BY <2>1 DEF Path
<1> QED BY <1>1, <1>3, <1>4

(* The lock that is free becomes this writer's.                             *)
LEMMA TookSafe ==
  ASSUME LocksInv, NEW w \in Writer, holder[w].step \in {"take", "retake"}, Took(w),
         dir[NextLock(w)] = Missing,
         UNCHANGED <<lost, stores, used, kept, doubly>>
  PROVE  LocksInv'
<1>1. holder[w] \in Busy /\ Fits(holder[w]) /\ holder[w].step # "away"
      /\ (\/ holder[w].held = <<>>
          \/ holder[w].held = <<"refresh">> /\ holder[w].plan = <<"refresh", "storage">>)
  BY NotAway DEF LocksInv, LocksTyped, Fits, Taking
<1> DEFINE p == NextLock(w)
           h == [holder[w] EXCEPT !.held = Append(holder[w].held, p),
                   !.step = IF Len(holder[w].held) + 1 = Len(holder[w].plan)
                            THEN "read" ELSE "take"]
<1>2. holder' = [holder EXCEPT ![w] = h] /\ dir' = [dir EXCEPT ![p] = 0]
  BY DEF Took, LocksInv, LocksTyped
<1>3. /\ \/ p = "refresh" /\ h.held = <<"refresh">> /\ h.step = "take"
              /\ h.plan = <<"refresh", "storage">>
         \/ p = "storage" /\ h.step = "read" /\ h.held = h.plan
      /\ Locks(h) = Locks(holder[w]) \cup {p} /\ p \in Path /\ Fits(h) /\ h # Away
  <2>1. holder[w].plan = <<"refresh", "storage">> \/ holder[w].plan = <<"storage">>
    BY <1>1 DEF Busy, Plans
  <2>2. CASE holder[w].held = <<>> /\ holder[w].plan = <<"refresh", "storage">>
    <3>1. p = "refresh" /\ Append(holder[w].held, p) = <<"refresh">>
          /\ Len(holder[w].held) + 1 # Len(holder[w].plan)
      BY <2>2 DEF NextLock
    <3>2. h = [holder[w] EXCEPT !.held = <<"refresh">>, !.step = "take"]
      BY <3>1
    <3>3. h \in Busy /\ h.step = "take" /\ h.held = <<"refresh">> /\ h.plan = holder[w].plan
      BY <1>1, <3>2 DEF Busy, Holdings, Taking
    <3>4. Fits(h) /\ h # Away
      BY <2>2, <3>3 DEF Fits, Taking, Inside, Away
    <3> QED BY <1>1, <2>2, <3>1, <3>3, <3>4, LocksAre DEF Path
  <2>3. CASE holder[w].held = <<>> /\ holder[w].plan = <<"storage">>
    <3>1. p = "storage" /\ Append(holder[w].held, p) = <<"storage">>
          /\ Len(holder[w].held) + 1 = Len(holder[w].plan)
      BY <2>3 DEF NextLock
    <3>2. h = [holder[w] EXCEPT !.held = <<"storage">>, !.step = "read"]
      BY <3>1
    <3>3. h \in Busy /\ h.step = "read" /\ h.held = <<"storage">> /\ h.plan = holder[w].plan
      BY <1>1, <3>2 DEF Busy, Holdings, Inside, Plans
    <3>4. Fits(h) /\ h # Away
      BY <2>3, <3>3 DEF Fits, Taking, Inside, Away
    <3> QED BY <1>1, <2>3, <3>1, <3>3, <3>4, LocksAre DEF Path
  <2>4. CASE holder[w].held = <<"refresh">> /\ holder[w].plan = <<"refresh", "storage">>
    <3>0. p = "storage"
      BY <2>4 DEF NextLock
    <3>1. p = "storage" /\ Append(holder[w].held, p) = <<"refresh", "storage">>
          /\ Len(holder[w].held) + 1 = Len(holder[w].plan)
      <4>1. <<"refresh">> \in Seq(Path) /\ "storage" \in Path
            /\ <<"refresh", "storage">> \in Seq(Path) /\ Append(<<"refresh">>, "storage") \in Seq(Path)
        BY DEF Path
      <4>2. Append(<<"refresh">>, "storage") = <<"refresh", "storage">>
        <5>1. Len(Append(<<"refresh">>, "storage")) = 2 /\ Len(<<"refresh", "storage">>) = 2
              /\ \A i \in 1..2 : Append(<<"refresh">>, "storage")[i] = <<"refresh", "storage">>[i]
          BY <4>1
        <5> HIDE DEF Path
        <5> QED BY <4>1, <5>1, SeqEqual
      <4>3. Len(<<"refresh">>) = 1 /\ Len(<<"refresh", "storage">>) = 2
        OBVIOUS
      <4> QED BY <2>4, <3>0, <4>2, <4>3
    <3>2. h = [holder[w] EXCEPT !.held = <<"refresh", "storage">>, !.step = "read"]
      BY <3>1
    <3>3. h \in Busy /\ h.step = "read" /\ h.held = <<"refresh", "storage">>
          /\ h.plan = holder[w].plan
      BY <1>1, <3>2 DEF Busy, Holdings, Inside, Plans
    <3>4. Fits(h) /\ h # Away
      BY <2>4, <3>3 DEF Fits, Taking, Inside, Away
    <3> QED BY <1>1, <2>4, <3>1, <3>3, <3>4, LocksAre DEF Path
  <2> QED BY <1>1, <2>1, <2>2, <2>3, <2>4
<1> HIDE DEF h
<1>4. LocksTypeOK'
  BY <1>2, <1>3, MissingIsNone DEF LocksInv, LocksTyped, LocksTypeOK
<1>5. LocksTyped' /\ holder'[w] = h /\ \A v \in Writer \ {w} : holder'[v] = holder[v]
  BY <1>2, <1>3, <1>4, OneSteps DEF LocksInv, LocksTyped
<1>6. Alone'
  <2> SUFFICES ASSUME ~doubly PROVE Alone'
    BY DEF Alone
  <2>1. \A v \in Writer : p \notin Locks(holder[v])
    BY MissingIsNone DEF LocksInv, Alone
  <2>2. dir'[p] = 0 /\ \A q \in Path \ {p} : dir'[q] = dir[q]
    BY <1>2, <1>3 DEF LocksInv, LocksTyped, LocksTypeOK
  <2>3. \A v \in Writer : Locks(holder[v]) \subseteq Path
    BY LocksAre DEF LocksInv, LocksTyped
  <2>4. ASSUME NEW v \in Writer PROVE \A q \in Locks(holder'[v]) : dir'[q] = 0
    BY <1>3, <1>5, <2>1, <2>2, <2>3 DEF LocksInv, Alone
  <2>5. ASSUME NEW v \in Writer, NEW u \in Writer \ {v}
        PROVE  Locks(holder'[v]) \cap Locks(holder'[u]) = {}
    BY <1>3, <1>5, <2>1 DEF LocksInv, Alone
  <2>6. ASSUME NEW v \in Writer, holder'[v].step # "away" PROVE ~lost'[v]
    BY <1>1, <1>5, <2>6 DEF LocksInv, Alone
  <2> QED BY <2>4, <2>5, <2>6 DEF Alone
<1>7. ReadIsCurrent'
  BY <1>3, <1>5 DEF LocksInv, ReadIsCurrent, HasRead, Current, Seen
<1> QED BY <1>5, <1>6, <1>7 DEF LocksInv

LEMMA TakeSafe == ASSUME LocksInv, NEW w \in Writer, Take(w) PROVE LocksInv'
<1>1. holder[w].step = "take" /\ holder[w] # Away
  BY NotAway DEF Take, AtStep
<1>2. UNCHANGED <<lost, stores, used, kept, doubly>>
  BY DEF Take
<1>3. CASE dir[NextLock(w)] = Missing /\ Took(w)
  BY <1>1, <1>2, <1>3, TookSafe
<1>4. ASSUME NEW step \in {"release", "break"}, GoOn(w, step), UNCHANGED dir
      PROVE  LocksInv'
  BY <1>1, <1>2, <1>4, PassesOn
<1> QED BY <1>3, <1>4 DEF Take

LEMMA RetakeSafe == ASSUME LocksInv, NEW w \in Writer, Retake(w) PROVE LocksInv'
<1>1. holder[w].step = "retake" /\ holder[w] # Away
  BY NotAway DEF Retake, AtStep
<1>2. UNCHANGED <<lost, stores, used, kept, doubly>>
  BY DEF Retake
<1>3. CASE dir[NextLock(w)] = Missing
  BY <1>1, <1>2, <1>3, TookSafe DEF Retake
<1>4. CASE dir[NextLock(w)] # Missing
  <2>1. GoOn(w, "release") /\ UNCHANGED dir
    BY <1>4 DEF Retake
  <2> QED BY <1>1, <1>2, <2>1, PassesOn
<1> QED BY <1>3, <1>4

(* A directory that is broken though it was not stale is marked; a stale    *)
(* one is nobody's.                                                         *)
LEMMA BreakSafe == ASSUME LocksInv, NEW w \in Writer, Break(w) PROVE LocksInv'
<1>1. holder[w].step = "break" /\ holder[w] # Away
  BY NotAway DEF Break, AtStep
<1> DEFINE p == NextLock(w)
           h == [holder[w] EXCEPT !.step = "retake"]
<1>2. /\ holder' = [holder EXCEPT ![w] = h] /\ holder[w] \in Busy /\ h \in Busy
      /\ h.step = "retake" /\ Locks(h) = Locks(holder[w])
      /\ h.held = holder[w].held /\ h.plan = holder[w].plan
  <2>1. "retake" \in Inside \cup Taking \cup {"release"} /\ GoOn(w, "retake")
    BY DEF Taking, Break
  <2>2. holder[w] \in Busy
    BY <1>1, <2>1, GoesTo
  <2>3. h.held = holder[w].held /\ h.plan = holder[w].plan
    BY <2>2 DEF Busy
  <2> QED BY <1>1, <2>1, <2>3, GoesTo
<1>3. Fits(h) /\ h # Away
  BY <1>1, <1>2 DEF Fits, LocksInv, LocksTyped, Taking, Inside, Away
<1> HIDE DEF h
<1>4. dir' = [dir EXCEPT ![p] = Missing] /\ UNCHANGED <<lost, stores, used, kept>>
      /\ doubly' = (doubly \/ (dir[p] # Missing /\ dir[p] <= Stale[p]))
  BY DEF Break
<1>5. p \in Path
  BY <1>1, NextIsLock DEF Taking
<1>6. LocksTypeOK'
  BY <1>4 DEF LocksInv, LocksTyped, LocksTypeOK
<1>7. LocksTyped' /\ holder'[w] = h /\ \A v \in Writer \ {w} : holder'[v] = holder[v]
  BY <1>2, <1>3, <1>4, <1>6, OneSteps DEF LocksInv, LocksTyped
<1>8. Alone'
  <2> SUFFICES ASSUME ~doubly' PROVE Alone'
    BY DEF Alone
  <2>1. ~doubly /\ ~(dir[p] # Missing /\ dir[p] <= Stale[p])
    BY <1>4
  <2>2. Stale[p] \in Nat
    BY <1>5, LocksAssumption DEF Path, Stale
  <2>3. \A v \in Writer : p \notin Locks(holder[v])
    <3> SUFFICES ASSUME NEW v \in Writer, p \in Locks(holder[v]) PROVE FALSE
      OBVIOUS
    <3>1. dir[p] = 0
      BY <2>1 DEF LocksInv, Alone
    <3> QED BY <2>1, <2>2, <3>1, MissingIsNone
  <2>4. \A q \in Path \ {p} : dir'[q] = dir[q]
    BY <1>4 DEF LocksInv, LocksTyped, LocksTypeOK
  <2>5. \A v \in Writer : Locks(holder'[v]) = Locks(holder[v])
    BY <1>2, <1>7
  <2>6. \A v \in Writer : Locks(holder[v]) \subseteq Path
    BY LocksAre DEF LocksInv, LocksTyped
  <2>7. \A v \in Writer : holder'[v].step # "away" => holder[v].step # "away"
    BY <1>1, <1>7
  <2> QED BY <1>4, <2>1, <2>3, <2>4, <2>5, <2>6, <2>7 DEF LocksInv, Alone
<1>9. ReadIsCurrent'
  BY <1>2, <1>4, <1>7 DEF LocksInv, ReadIsCurrent, HasRead, Current, Seen
<1> QED BY <1>7, <1>8, <1>9 DEF LocksInv

LEMMA ReadStoreSafe == ASSUME LocksInv, NEW w \in Writer, ReadStore(w) PROVE LocksInv'
<1>1. holder[w].step = "read" /\ holder[w] # Away /\ holder[w] \in Busy
      /\ holder[w].held = holder[w].plan
  BY NotAway, LocksAre DEF ReadStore, AtStep, LocksInv, LocksTyped, Fits, Inside
<1>2. UNCHANGED <<dir, lost, stores, used, kept, doubly>>
  BY DEF ReadStore
<1>3. CASE denied
  <2>1. GoOn(w, "release")
    BY <1>3 DEF ReadStore
  <2> QED BY <1>1, <1>2, <2>1, PassesOn
<1>4. CASE ~denied
  <2> DEFINE t == IF stores.key # Missing THEN "key" ELSE "file"
             h == [holder[w] EXCEPT !.step = "check", !.target = t, !.read = Current]
  <2>1. Current \in Document
    BY MissingIsNone DEF Current, Seen, LocksInv, LocksTyped, LocksTypeOK
  <2>2. holder' = [holder EXCEPT ![w] = h]
    <3>1. CASE stores.key # Missing
      <4>1. Current = stores.key
        BY <3>1 DEF Current, Seen
      <4>2. holder' = [holder EXCEPT ![w].step = "check", ![w].read = stores.key,
                                     ![w].target = "key"]
        BY <1>4, <3>1 DEF ReadStore
      <4> QED BY <1>1, <3>1, <4>1, <4>2 DEF LocksInv, LocksTyped, Busy
    <3>2. CASE stores.key = Missing
      <4>1. Current = IF stores.file = Missing THEN {} ELSE stores.file
        BY <3>2 DEF Current, Seen
      <4>2. holder' = [holder EXCEPT ![w].step = "check", ![w].target = "file",
                         ![w].read = IF stores.file = Missing THEN {} ELSE stores.file]
        BY <1>4, <3>2 DEF ReadStore
      <4> QED BY <1>1, <3>2, <4>1, <4>2 DEF LocksInv, LocksTyped, Busy
    <3> QED BY <3>1, <3>2
  <2>3. h \in Busy /\ h.step = "check" /\ h.target = t /\ h.read = Current
        /\ h.held = holder[w].held /\ h.plan = holder[w].plan
    BY <1>1, <2>1 DEF Busy, Inside
  <2> HIDE DEF h
  <2>4. Fits(h) /\ h # Away
    BY <1>1, <2>3 DEF Fits, Inside, Taking, Away
  <2>5. Locks(h) = Locks(holder[w])
    BY <1>1, <2>3 DEF Locks
  <2>6. HasRead(h)
    BY <2>3 DEF HasRead
  <2>7. lost' = lost /\ holder[w].step # "away"
        /\ used' \in [writes : 0..MaxWrites, crashes : 0..MaxCrashes, denials : 0..MaxDenials]
    BY <1>1, <1>2 DEF LocksInv, LocksTyped
  <2> QED BY <1>2, <2>2, <2>4, <2>5, <2>6, <2>7, TakesNoLock
<1> QED BY <1>3, <1>4

LEMMA CheckLostSafe ==
  ASSUME LocksInv, NEW w \in Writer, CheckLost(w) \/ CommitDocumentFails(w)
  PROVE  LocksInv'
<1>1. holder[w].step \in {"check", "commit"} /\ holder[w] # Away
  BY NotAway DEF CheckLost, CommitDocumentFails, AtStep
<1>2. UNCHANGED <<dir, lost, stores, used, kept, doubly>>
  BY DEF CheckLost, CommitDocumentFails
<1>3. CASE GoOn(w, "release")
  BY <1>1, <1>2, <1>3, PassesOn
<1>4. CASE holder[w].step = "check" /\ GoOn(w, "commit")
  BY <1>1, <1>2, <1>4, PassesOn
<1> QED BY <1>3, <1>4 DEF CheckLost, CommitDocumentFails, AtStep

(* Nobody else has the lock of the stores, so what was read is still there. *)
LEMMA CommitSafe == ASSUME LocksInv, NEW w \in Writer, CommitDocument(w) PROVE LocksInv'
<1>1. holder[w].step = "commit" /\ holder[w] # Away
  BY NotAway DEF CommitDocument, AtStep
<1> DEFINE h == [holder[w] EXCEPT !.step = "release"]
           t == holder[w].target
<1>2. /\ holder' = [holder EXCEPT ![w] = h] /\ holder[w] \in Busy /\ h \in Busy
      /\ h.step = "release" /\ Locks(h) = Locks(holder[w])
  <2>1. "release" \in Inside \cup Taking \cup {"release"} /\ GoOn(w, "release")
    BY DEF CommitDocument
  <2> QED BY <1>1, <2>1, GoesTo
<1>3. Fits(h) /\ holder[w].id \in Edit /\ holder[w].read \in Document /\ t \in {"key", "file"}
  BY <1>1, <1>2 DEF Fits, LocksInv, LocksTyped, Busy, Taking, Inside
<1> HIDE DEF h, t
<1>4. /\ stores' = [stores EXCEPT ![t] = holder[w].read \cup {holder[w].id}]
      /\ kept' \in {kept, kept \cup {holder[w].id}} /\ UNCHANGED <<dir, lost, used, doubly>>
  BY DEF CommitDocument, t
<1>5. holder[w].read \cup {holder[w].id} \in Document
  BY <1>3 DEF Document
<1>6. LocksTypeOK'
  BY <1>3, <1>4, <1>5 DEF LocksInv, LocksTyped, LocksTypeOK
<1>7. LocksTyped' /\ holder'[w] = h /\ \A v \in Writer \ {w} : holder'[v] = holder[v]
  BY <1>2, <1>3, <1>4, <1>6, OneSteps DEF LocksInv, LocksTyped
<1>8. Alone'
  <2>1. \A v \in Writer : Locks(holder'[v]) = Locks(holder[v])
    BY <1>2, <1>7
  <2>2. \A v \in Writer : holder'[v].step # "away" => holder[v].step # "away"
    BY <1>1, <1>7
  <2> QED BY <1>4, <2>1, <2>2 DEF LocksInv, Alone
<1>9. ReadIsCurrent'
  <2> SUFFICES ASSUME ~doubly PROVE kept' \subseteq Current' /\ \A v \in Writer : HasRead(holder[v])'
    BY <1>4 DEF ReadIsCurrent
  <2>1. t = (IF stores.key # Missing THEN "key" ELSE "file") /\ holder[w].read = Current
        /\ kept \subseteq Current
    BY <1>1 DEF LocksInv, ReadIsCurrent, HasRead, t
  <2>2. Current' = Current \cup {holder[w].id}
    <3>1. CASE t = "key"
      <4>1. stores'.key = Current \cup {holder[w].id}
        BY <1>4, <2>1, <3>1 DEF LocksInv, LocksTyped, LocksTypeOK
      <4> QED BY <1>5, <2>1, <4>1, MissingIsNone DEF Current, Seen
    <3>2. CASE t = "file"
      <4>1. stores'.file = Current \cup {holder[w].id} /\ stores'.key = stores.key
        BY <1>4, <2>1, <3>2 DEF LocksInv, LocksTyped, LocksTypeOK
      <4>2. stores.key = Missing
        BY <2>1, <3>2
      <4> QED BY <1>5, <2>1, <4>1, <4>2, MissingIsNone DEF Current, Seen
    <3> QED BY <1>3, <3>1, <3>2
  <2>3. ASSUME NEW v \in Writer \ {w} PROVE holder'[v].step \notin {"check", "commit"}
    <3> SUFFICES ASSUME holder[v].step \in {"check", "commit"} PROVE FALSE
      BY <1>7
    <3>1. "storage" \in Locks(holder[v]) /\ "storage" \in Locks(holder[w])
      BY <1>1, LocksAre DEF LocksInv, LocksTyped, Inside
    <3> QED BY <3>1 DEF LocksInv, Alone
  <2>4. \A v \in Writer : HasRead(holder[v])'
    BY <1>2, <1>7, <2>3 DEF HasRead
  <2> QED BY <1>4, <2>1, <2>2, <2>4
<1> QED BY <1>7, <1>8, <1>9 DEF LocksInv

LEMMA LastGone ==
  /\ Len(<<"refresh">>) = 1 /\ Len(<<"storage">>) = 1 /\ Len(<<"refresh", "storage">>) = 2
  /\ SubSeq(<<"refresh">>, 1, 0) = <<>> /\ SubSeq(<<"storage">>, 1, 0) = <<>>
  /\ SubSeq(<<"refresh", "storage">>, 1, 1) = <<"refresh">>
<1> DEFINE two == <<"refresh", "storage">>
<1>1. two \in Seq(Path) /\ <<"refresh">> \in Seq(Path) /\ SubSeq(two, 1, 1) \in Seq(Path)
  BY DEF Path
<1>2. Len(SubSeq(two, 1, 1)) = 1 /\ Len(<<"refresh">>) = 1
      /\ \A i \in 1..1 : SubSeq(two, 1, 1)[i] = <<"refresh">>[i]
  BY <1>1
<1> HIDE DEF two
<1>3. SubSeq(two, 1, 1) = <<"refresh">>
  BY <1>1, <1>2, SeqEqual
<1>4. SubSeq(<<"refresh">>, 1, 0) = <<>> /\ SubSeq(<<"storage">>, 1, 0) = <<>>
  BY EmptySeq
<1> QED BY <1>3, <1>4 DEF two

(* A lock that is given back was this writer's.                             *)
LEMMA ReleaseSafe == ASSUME LocksInv, NEW w \in Writer, Release(w) PROVE LocksInv'
<1>1. holder[w].step = "release" /\ holder[w] # Away /\ holder[w] \in Busy /\ Fits(holder[w])
  BY NotAway, LocksAre DEF Release, AtStep, LocksInv, LocksTyped
<1>2. UNCHANGED <<lost, stores, used, kept, doubly>>
  BY DEF Release
<1> DEFINE held == holder[w].held
<1>3. CASE held = <<>>
  <2>1. holder' = [holder EXCEPT ![w] = Away] /\ UNCHANGED dir
    BY <1>3 DEF Release
  <2>2. Fits(Away) /\ Locks(Away) = {} /\ Away.step = "away"
    BY DEF Fits, Locks, Away
  <2>3. HasRead(Away)
    BY <2>2 DEF HasRead
  <2>4. lost' = lost /\ used' \in [writes : 0..MaxWrites, crashes : 0..MaxCrashes,
                                   denials : 0..MaxDenials]
    BY <1>2 DEF LocksInv, LocksTyped
  <2> QED BY <1>2, <2>1, <2>2, <2>3, <2>4, TakesNoLock
<1>4. CASE held # <<>>
  <2> DEFINE p == held[Len(held)]
             h == [holder[w] EXCEPT !.held = SubSeq(held, 1, Len(held) - 1)]
  <2>1. dir' = [dir EXCEPT ![p] = Missing] /\ holder' = [holder EXCEPT ![w] = h]
    BY <1>4 DEF Release, LocksInv, LocksTyped
  <2>2. /\ h \in Busy /\ h.step = "release" /\ h # Away /\ Fits(h)
        /\ p \in Path /\ p \in Locks(holder[w]) /\ Locks(h) = Locks(holder[w]) \ {p}
    <3>1. ASSUME NEW less \in Holdings, SubSeq(held, 1, Len(held) - 1) = less
          PROVE  h \in Busy /\ h.step = "release" /\ h # Away /\ Fits(h) /\ h.held = less
      <4>1. h = [holder[w] EXCEPT !.held = less]
        BY <3>1
      <4>2. h \in Busy /\ h.step = "release" /\ h.held = less
        BY <1>1, <4>1 DEF Busy
      <4> QED BY <4>2 DEF Fits, Inside, Taking, Away
    <3> HIDE DEF h
    <3>2. CASE held \in {<<"refresh">>, <<"storage">>}
      <4>0. Len(held) = 1 /\ SubSeq(held, 1, 0) = <<>>
        BY <3>2, LastGone
      <4>1. SubSeq(held, 1, Len(held) - 1) = <<>> /\ p = held[1] /\ <<>> \in Holdings
        BY <4>0 DEF Holdings, p
      <4>2. p \in Path /\ Locks(holder[w]) = {p}
        BY <1>1, <3>2, <4>1, LocksAre DEF Path
      <4>3. Fits(h) /\ h # Away /\ h.held = <<>> /\ h \in Busy /\ h.step = "release"
        BY <3>1, <4>1
      <4>4. Locks(h) = {}
        BY <4>3, LocksAre
      <4> QED BY <4>2, <4>3, <4>4
    <3>3. CASE held = <<"refresh", "storage">>
      <4>1. SubSeq(held, 1, Len(held) - 1) = <<"refresh">> /\ p = "storage"
            /\ <<"refresh">> \in Holdings
        BY <3>3, LastGone DEF Holdings
      <4>2. p \in Path /\ Locks(holder[w]) = {"refresh", "storage"}
        BY <1>1, <3>3, <4>1, LocksAre DEF Path
      <4>3. Fits(h) /\ h # Away /\ h.held = <<"refresh">> /\ h \in Busy /\ h.step = "release"
        BY <3>1, <4>1
      <4>4. Locks(h) = {"refresh"}
        BY <4>3, LocksAre
      <4> QED BY <4>1, <4>2, <4>3, <4>4
    <3> QED BY <1>1, <1>4, <3>2, <3>3 DEF Busy, Holdings, Plans
  <2> HIDE DEF h, p
  <2>3. LocksTypeOK'
    BY <1>2, <2>1, <2>2 DEF LocksInv, LocksTyped, LocksTypeOK
  <2>4. LocksTyped' /\ holder'[w] = h /\ \A v \in Writer \ {w} : holder'[v] = holder[v]
    BY <1>2, <2>1, <2>2, <2>3, OneSteps DEF LocksInv, LocksTyped
  <2>5. Alone'
    <3> SUFFICES ASSUME ~doubly PROVE Alone'
      BY <1>2 DEF Alone
    <3>1. \A v \in Writer : Locks(holder'[v]) \subseteq Locks(holder[v]) \ {p}
      BY <2>2, <2>4 DEF LocksInv, Alone
    <3>2. \A q \in Path \ {p} : dir'[q] = dir[q]
      BY <2>1 DEF LocksInv, LocksTyped, LocksTypeOK
    <3>3. \A v \in Writer : Locks(holder[v]) \subseteq Path
      BY LocksAre DEF LocksInv, LocksTyped
    <3>4. \A v \in Writer : holder'[v].step # "away" => holder[v].step # "away"
      BY <1>1, <2>4
    <3>5. ASSUME NEW v \in Writer
          PROVE  /\ \A q \in Locks(holder'[v]) : dir'[q] = 0
                 /\ \A u \in Writer \ {v} : Locks(holder'[v]) \cap Locks(holder'[u]) = {}
      BY <3>1, <3>2, <3>3 DEF LocksInv, Alone
    <3>6. ASSUME NEW v \in Writer, holder'[v].step # "away" PROVE ~lost'[v]
      BY <1>2, <3>4, <3>6 DEF LocksInv, Alone
    <3> QED BY <3>5, <3>6 DEF Alone
  <2>6. ReadIsCurrent'
    BY <1>2, <2>2, <2>4 DEF LocksInv, ReadIsCurrent, HasRead, Current, Seen
  <2> QED BY <2>4, <2>5, <2>6 DEF LocksInv
<1> QED BY <1>3, <1>4

(* Time passes only while every holder runs, and touches what it has.       *)
LEMMA TickSafe == ASSUME LocksInv, Tick PROVE LocksInv'
<1>1. UNCHANGED <<holder, stores, denied, used, kept, doubly>>
  BY DEF Tick
<1>2. \A p \in Path : Older(p) \in Age \cup {Missing}
  BY DEF Older, LocksInv, LocksTyped, LocksTypeOK
<1>3. LocksTypeOK'
  BY <1>1, <1>2, MissingIsNone DEF Tick, LocksInv, LocksTyped, LocksTypeOK
<1>4. LocksTyped'
  BY <1>1, <1>3 DEF LocksInv, LocksTyped
<1>5. Alone'
  <2> SUFFICES ASSUME ~doubly, NEW w \in Writer
               PROVE  /\ \A p \in Locks(holder[w]) : dir'[p] = 0
                      /\ \A v \in Writer \ {w} : Locks(holder[w]) \cap Locks(holder[v]) = {}
                      /\ holder[w].step # "away" => ~lost'[w]
    BY <1>1 DEF Alone
  <2>1. CASE holder[w].step = "away"
    BY <2>1 DEF Locks
  <2>2. CASE holder[w].step # "away"
    <3>1. holder[w].step \in Inside
      BY <2>2, LocksAre DEF Tick, LocksInv, LocksTyped, Busy, Inside, Taking
    <3>2. ~lost[w] /\ Beating(w)
      BY <2>2, <3>1 DEF LocksInv, Alone, Beating, Inside
    <3>3. HeldBy(w) = Locks(holder[w]) /\ Locks(holder[w]) \subseteq Path
      BY <2>2, LocksAre DEF HeldBy, Locks, LocksInv, LocksTyped
    <3>4. \A p \in Locks(holder[w]) : dir[p] = 0 /\ dir[p] # Missing
      BY MissingIsNone DEF LocksInv, Alone
    <3>5. \A p \in Locks(holder[w]) : dir'[p] = 0
      BY <3>2, <3>3, <3>4 DEF Tick
    <3>6. ~lost'[w]
      BY <3>2, <3>3, <3>4 DEF Tick
    <3> QED BY <3>5, <3>6 DEF LocksInv, Alone
  <2> QED BY <2>1, <2>2
<1>6. ReadIsCurrent'
  BY <1>1 DEF LocksInv, ReadIsCurrent, HasRead, Current, Seen
<1> QED BY <1>4, <1>5, <1>6 DEF LocksInv

LEMMA DieSafe == ASSUME LocksInv, NEW w \in Writer, Die(w) PROVE LocksInv'
<1>1. Fits(Away) /\ Locks(Away) = {} /\ Away.step = "away"
  BY DEF Fits, Locks, Away
<1>2. HasRead(Away)
  BY <1>1 DEF HasRead
<1>3. used' \in [writes : 0..MaxWrites, crashes : 0..MaxCrashes, denials : 0..MaxDenials]
  BY LocksAssumption DEF Die, Once, LocksInv, LocksTyped
<1>4. holder' = [holder EXCEPT ![w] = Away] /\ lost' = lost
      /\ UNCHANGED <<dir, stores, kept, doubly>>
  BY DEF Die
<1> QED BY <1>1, <1>2, <1>3, <1>4, TakesNoLock

LEMMA DenySafe == ASSUME LocksInv, Deny PROVE LocksInv'
<1>1. used' \in [writes : 0..MaxWrites, crashes : 0..MaxCrashes, denials : 0..MaxDenials]
  BY LocksAssumption DEF Deny, Once, LocksInv, LocksTyped
<1>2. UNCHANGED <<dir, holder, lost, stores, kept, doubly>>
  BY DEF Deny
<1> QED BY <1>1, <1>2 DEF LocksInv, LocksTyped, LocksTypeOK, Alone, ReadIsCurrent, HasRead,
             Current, Seen

LEMMA LocksInvNext == ASSUME LocksInv, [LocksNext]_lockVars PROVE LocksInv'
<1>1. ASSUME NEW w \in Writer,
             \/ BeginWrite(w) \/ Take(w) \/ Break(w) \/ Retake(w) \/ ReadStore(w) \/ CheckLost(w)
             \/ CommitDocument(w) \/ CommitDocumentFails(w) \/ Release(w) \/ Die(w)
      PROVE  LocksInv'
  BY <1>1, BeginWriteSafe, TakeSafe, BreakSafe, RetakeSafe, ReadStoreSafe, CheckLostSafe,
     CommitSafe, ReleaseSafe, DieSafe
<1>2. CASE Tick \/ Deny
  BY <1>2, TickSafe, DenySafe
<1>3. CASE UNCHANGED lockVars
  BY <1>3 DEF lockVars, LocksInv, LocksTyped, LocksTypeOK, Alone, ReadIsCurrent, HasRead,
              Current, Seen
<1> QED BY <1>1, <1>2, <1>3 DEF LocksNext

(* The directories, the writers and the stores stay of their types, and     *)
(* each writer has the locks its step needs, in their order.                *)
THEOREM ClaudeLocksTyped == LocksSpec => []LocksTyped
<1>1. LocksInv => LocksTyped
  BY DEF LocksInv
<1> QED BY <1>1, LocksInvInit, LocksInvNext, PTL DEF LocksSpec

(* However many programs change Claude's login, wherever they end and       *)
(* whenever the Keychain refuses, a change that was answered done is in the *)
(* document that is read from then on, unless a lock that was not stale was *)
(* broken (claude_store::begin, take, Heartbeat).                           *)
THEOREM ClaudeChangesKept == LocksSpec => []ChangesKept
<1>1. LocksInv => ChangesKept
  BY DEF LocksInv, ReadIsCurrent, Current, ChangesKept
<1> QED BY <1>1, LocksInvInit, LocksInvNext, PTL DEF LocksSpec
=============================================================================
