------------------------- MODULE SavedLoginsProofs -------------------------
(***************************************************************************)
(* Proofs about how a login comes to be saved and how it stays: SignIns,   *)
(* for any sign-ins, remembered early cancellations and changes, and       *)
(* AccountHomes, for any programs, homes and logins.                       *)
(*                                                                         *)
(* That a sign-in nobody wants is not saved is not inductive: wherever the *)
(* sign-in stands, something must be left that refuses it, and the         *)
(* invariant says what: its early cancellation, the flag of the running    *)
(* one, or a ticket of an older epoch.                                     *)
(*                                                                         *)
(* That an account's login stays within reach rests on what each half-done *)
(* settle, switch and removal may still do: the homes it is to tear down,  *)
(* the login it is to take out of the vault, and the home it is to read.   *)
(* Once one of the known races is marked, only the types are left.         *)
(***************************************************************************)
EXTENDS SignIns, AccountHomes, SequenceTheorems, TLAPS

-----------------------------------------------------------------------------
(* Sign-ins.                                                                *)
InProgress == {"reserved", "running", "signed in", "publishing"}
Ticketed   == {"running", "signed in"}

EarlyCancel(s) == \E i \in 1..Len(canceled) : canceled[i] = s

(* The registry is reserved by exactly the sign-in in progress.             *)
OneActive ==
  /\ \A s \in SignIn : stage[s] \in InProgress => IsActive(s)
  /\ active # NoSignIn => stage[active.id] \in InProgress

(* The ticket of a sign-in was taken at an epoch the vault has reached.     *)
TicketsPast ==
  \A s \in SignIn : stage[s] \in Ticketed => ticket[s] \in Nat /\ ticket[s] <= epoch

PublishedOver == \A s \in published : stage[s] = "over"

(* What refuses a sign-in nobody wants, at every step of its way.           *)
StillRefused(s) ==
  /\ stage[s] # "publishing"
  /\ stage[s] = "new" => EarlyCancel(s)
  /\ stage[s] = "reserved" => active.cancel
  /\ stage[s] \in Ticketed => active.cancel \/ ticket[s] # epoch

Refusals == \A s \in unwanted : StillRefused(s)

IInv == SignInsTypeOK /\ OneActive /\ TicketsPast /\ PublishedOver /\ Refusals /\ UnwantedStaysOut

-----------------------------------------------------------------------------
(* A new cancellation is kept, the list stays within its bound, and only    *)
(* the oldest one can leave it.                                             *)
LEMMA PushedKeeps ==
  ASSUME canceled \in Seq(SignIn), Len(canceled) <= Remembered, NEW s \in SignIn
  PROVE  /\ Pushed(s) \in Seq(SignIn) /\ Len(Pushed(s)) <= Remembered
         /\ \E i \in 1..Len(Pushed(s)) : Pushed(s)[i] = s
         /\ \A t \in SignIn : EarlyCancel(t) /\ t \notin Forgotten =>
              \E i \in 1..Len(Pushed(s)) : Pushed(s)[i] = t
<1>0. Remembered \in Nat \ {0} /\ Len(canceled) \in Nat
  BY SignInsAssumption
<1>1. CASE Len(canceled) < Remembered
  <2>1. Pushed(s) = Append(canceled, s)
    BY <1>1 DEF Pushed
  <2>2. /\ Len(Pushed(s)) = Len(canceled) + 1 /\ Pushed(s)[Len(canceled) + 1] = s
        /\ \A i \in 1..Len(canceled) : Pushed(s)[i] = canceled[i]
        /\ Pushed(s) \in Seq(SignIn)
    BY <2>1
  <2>3. QED BY <1>0, <1>1, <2>2 DEF EarlyCancel
<1>2. CASE ~(Len(canceled) < Remembered)
  <2>1. Pushed(s) = Append(Tail(canceled), s) /\ canceled # <<>>
    BY <1>0, <1>2 DEF Pushed
  <2>2. /\ Tail(canceled) \in Seq(SignIn) /\ Len(Tail(canceled)) = Len(canceled) - 1
        /\ \A i \in 1..Len(canceled) - 1 : Tail(canceled)[i] = canceled[i + 1]
    BY <2>1
  <2>3. /\ Len(Pushed(s)) = Len(canceled) /\ Pushed(s)[Len(canceled)] = s
        /\ \A i \in 1..Len(canceled) - 1 : Pushed(s)[i] = canceled[i + 1]
        /\ Pushed(s) \in Seq(SignIn)
    BY <1>0, <1>2, <2>1, <2>2
  <2>4. ASSUME NEW t \in SignIn, EarlyCancel(t), t \notin Forgotten
        PROVE  \E i \in 1..Len(Pushed(s)) : Pushed(s)[i] = t
    <3>1. PICK i \in 1..Len(canceled) : canceled[i] = t
      BY <2>4 DEF EarlyCancel
    <3>2. i # 1
      BY <1>2, <2>1, <2>4, <3>1 DEF Forgotten
    <3>3. Pushed(s)[i - 1] = t /\ i - 1 \in 1..Len(Pushed(s))
      BY <1>0, <2>3, <3>1, <3>2
    <3>4. QED BY <3>3
  <2>5. QED BY <1>0, <1>2, <2>3, <2>4
<1>3. QED BY <1>1, <1>2

(* Nothing is reserved, cancelled or published at first.                    *)
LEMMA SignInsInitInductive == SignInsInit => IInv
<1> SUFFICES ASSUME SignInsInit PROVE IInv
  OBVIOUS
<1> USE SignInsAssumption DEF SignInsInit
<1>1. canceled \in Seq(SignIn) /\ Len(canceled) = 0
  OBVIOUS
<1>2. enrolled \in BOOLEAN /\ removing \in BOOLEAN
  OBVIOUS
<1>3. SignInsTypeOK
  BY <1>1, <1>2 DEF SignInsTypeOK
<1>4. OneActive
  BY DEF OneActive, InProgress
<1>5. TicketsPast /\ PublishedOver
  BY DEF TicketsPast, PublishedOver, Ticketed
<1>6. Refusals /\ UnwantedStaysOut
  BY DEF Refusals, UnwantedStaysOut
<1>7. QED BY <1>3, <1>4, <1>5, <1>6 DEF IInv

(* Every stage a sign-in can be at.                                         *)
Stages == {"new", "reserved", "running", "signed in", "publishing", "over"}

(* What the type invariant says of each variable, in the form used below.   *)
LEMMA Shape ==
  ASSUME SignInsTypeOK
  PROVE  /\ stage \in [SignIn -> Stages]
         /\ again \subseteq SignIn /\ unwanted \subseteq SignIn /\ published \subseteq SignIn
         /\ active # NoSignIn => /\ active.id \in SignIn /\ active.cancel \in BOOLEAN
                                 /\ active = [id |-> active.id, cancel |-> active.cancel]
         /\ \A s \in SignIn : \A c \in BOOLEAN : [id |-> s, cancel |-> c] # NoSignIn
         /\ epoch \in Nat /\ ticket \in [SignIn -> Nat \cup {NoTicket}]
<1>1. /\ stage \in [SignIn -> Stages]
      /\ again \subseteq SignIn /\ unwanted \subseteq SignIn /\ published \subseteq SignIn
  BY DEF SignInsTypeOK, Stages
<1>2. ASSUME active # NoSignIn
      PROVE  /\ active.id \in SignIn /\ active.cancel \in BOOLEAN
             /\ active = [id |-> active.id, cancel |-> active.cancel]
  <2>1. active \in [id : SignIn, cancel : BOOLEAN]
    BY <1>2 DEF SignInsTypeOK
  <2>2. QED BY <2>1
<1>3. \A s \in SignIn : \A c \in BOOLEAN : [id |-> s, cancel |-> c] # NoSignIn
  <2>1. ASSUME NEW s \in SignIn, NEW c \in BOOLEAN
        PROVE  [id |-> s, cancel |-> c] \in [id : SignIn, cancel : BOOLEAN]
    OBVIOUS
  <2>2. QED BY <2>1, SignInsAssumption
<1>4. epoch \in Nat
  <2>1. epoch \in 0..MaxEpoch
    BY DEF SignInsTypeOK
  <2>2. QED BY <2>1, SignInsAssumption
<1>5. ticket \in [SignIn -> Nat \cup {NoTicket}]
  <2>1. ticket \in [SignIn -> 0..MaxEpoch \cup {NoTicket}]
    BY DEF SignInsTypeOK
  <2>2. QED BY <2>1, SignInsAssumption
<1>6. QED BY <1>1, <1>2, <1>3, <1>4, <1>5

(* Only the sign-in that moves changes its stage.                           *)
LEMMA Moved ==
  ASSUME SignInsTypeOK, NEW s \in SignIn, NEW next \in Stages, To(s, next)
  PROVE  /\ stage' \in [SignIn -> Stages] /\ stage'[s] = next
         /\ \A t \in SignIn : t # s => stage'[t] = stage[t]
BY Shape DEF To

(* An early cancellation refuses the reservation (login.rs reserve).        *)
LEMMA ReserveKeeps == ASSUME IInv, NEW s \in SignIn, Reserve(s) PROVE IInv'
<1> USE SignInsAssumption DEF IInv
<1>1. stage[s] = "new"
  BY DEF Reserve, OneActive, InProgress
<1>2. /\ canceled' = canceled /\ again' = again /\ ticket' = ticket /\ epoch' = epoch
      /\ enrolled' = enrolled /\ removing' = removing /\ cancels' = cancels
      /\ unwanted' = unwanted /\ published' = published
  BY DEF Reserve, Refused, registry, vault
<1>3. \/ To(s, "over") /\ active' = active
      \/ /\ active = NoSignIn /\ ~EarlyCancel(s) /\ To(s, "reserved")
         /\ active' = [id |-> s, cancel |-> FALSE]
  BY <1>1 DEF Reserve, Refused, registry, vault, IsActive, EarlyCancel
<1>4. CASE To(s, "over") /\ active' = active
  <2>1. SignInsTypeOK'
    BY <1>2, <1>4, Shape, Moved DEF SignInsTypeOK, Stages
  <2>2. OneActive'
    BY <1>1, <1>2, <1>4, Shape, Moved DEF Stages, OneActive, InProgress, IsActive
  <2>3. TicketsPast'
    BY <1>1, <1>2, <1>4, Shape, Moved DEF Stages, TicketsPast, Ticketed
  <2>4. PublishedOver'
    BY <1>1, <1>2, <1>4, Shape, Moved
    DEF Stages, PublishedOver, OneActive, InProgress, IsActive
  <2>5. Refusals'
    <3> SUFFICES ASSUME NEW t \in SignIn, t \in unwanted' PROVE StillRefused(t)'
      BY <1>2, Shape DEF Refusals
    <3>1. StillRefused(t)
      BY <1>2 DEF Refusals
    <3>2. EarlyCancel(t)' <=> EarlyCancel(t)
      BY <1>2 DEF EarlyCancel
    <3>3. CASE t = s
      BY <1>1, <1>2, <3>1, <3>2, <3>3, <1>4, Shape, Moved
      DEF StillRefused, Ticketed, Stages, IsActive
    <3>4. CASE t # s
      BY <1>1, <1>2, <3>1, <3>2, <3>4, <1>4, Shape, Moved
      DEF StillRefused, Ticketed, Stages, IsActive, OneActive, InProgress
    <3>5. QED BY <3>3, <3>4
  <2>6. UnwantedStaysOut'
    BY <1>1, <1>2, <1>4, Shape, Moved
    DEF Stages, UnwantedStaysOut, Refusals, StillRefused, PublishedOver
  <2>7. QED BY <2>1, <2>2, <2>3, <2>4, <2>5, <2>6
<1>5. CASE /\ active = NoSignIn /\ ~EarlyCancel(s) /\ To(s, "reserved")
           /\ active' = [id |-> s, cancel |-> FALSE]
  <2>1. SignInsTypeOK'
    BY <1>2, <1>5, Shape, Moved DEF SignInsTypeOK, Stages
  <2>2. OneActive'
    BY <1>1, <1>2, <1>5, Shape, Moved DEF Stages, OneActive, InProgress, IsActive
  <2>3. TicketsPast'
    BY <1>1, <1>2, <1>5, Shape, Moved DEF Stages, TicketsPast, Ticketed
  <2>4. PublishedOver'
    BY <1>1, <1>2, <1>5, Shape, Moved
    DEF Stages, PublishedOver, OneActive, InProgress, IsActive
  <2>5. Refusals'
    <3> SUFFICES ASSUME NEW t \in SignIn, t \in unwanted' PROVE StillRefused(t)'
      BY <1>2, Shape DEF Refusals
    <3>1. StillRefused(t)
      BY <1>2 DEF Refusals
    <3>2. EarlyCancel(t)' <=> EarlyCancel(t)
      BY <1>2 DEF EarlyCancel
    <3>3. CASE t = s
      BY <1>1, <1>2, <3>1, <3>2, <3>3, <1>5, Shape, Moved
      DEF StillRefused, Ticketed, Stages, IsActive
    <3>4. CASE t # s
      BY <1>1, <1>2, <3>1, <3>2, <3>4, <1>5, Shape, Moved
      DEF StillRefused, Ticketed, Stages, IsActive, OneActive, InProgress
    <3>5. QED BY <3>3, <3>4
  <2>6. UnwantedStaysOut'
    BY <1>1, <1>2, <1>5, Shape, Moved
    DEF Stages, UnwantedStaysOut, Refusals, StillRefused, PublishedOver
  <2>7. QED BY <2>1, <2>2, <2>3, <2>4, <2>5, <2>6
<1>6. QED BY <1>3, <1>4, <1>5

(* A sign-in that ends without having saved leaves nothing behind.          *)
LEMMA EndKeeps ==
  ASSUME IInv, NEW s \in SignIn, stage[s] \in InProgress, To(s, "over"), active' = NoSignIn,
         UNCHANGED <<canceled, again, ticket, epoch, enrolled, removing, cancels, unwanted,
                     published>>
  PROVE  IInv'
<1> USE SignInsAssumption DEF IInv
<1>1. IsActive(s)
  BY DEF OneActive
<1>2. SignInsTypeOK'
  BY Shape, Moved DEF SignInsTypeOK, Stages
<1>3. OneActive'
  BY <1>1, Shape, Moved DEF Stages, OneActive, InProgress, IsActive
<1>4. TicketsPast'
  BY Shape, Moved DEF Stages, TicketsPast, Ticketed
<1>5. PublishedOver'
  BY Shape, Moved DEF Stages, PublishedOver
<1>6. Refusals'
  <2> SUFFICES ASSUME NEW t \in SignIn, t \in unwanted' PROVE StillRefused(t)'
    BY Shape DEF Refusals
  <2>1. CASE t = s
    BY <2>1, Moved DEF StillRefused, Ticketed, Stages
  <2>2. CASE t # s
    <3>1. StillRefused(t) /\ stage[t] \notin InProgress
      BY <1>1, <2>2 DEF Refusals, OneActive, IsActive
    <3>2. EarlyCancel(t)' <=> EarlyCancel(t)
      BY DEF EarlyCancel
    <3>3. QED BY <2>2, <3>1, <3>2, Moved DEF StillRefused, InProgress, Ticketed, Stages
  <2>3. QED BY <2>1, <2>2
<1>7. UnwantedStaysOut'
  BY DEF UnwantedStaysOut
<1>8. QED BY <1>2, <1>3, <1>4, <1>5, <1>6, <1>7

(* The ticket is of the epoch of the start; a cancelled one keeps its flag. *)
LEMMA BeginKeeps == ASSUME IInv, NEW s \in SignIn, Begin(s) PROVE IInv'
<1> USE SignInsAssumption DEF IInv
<1>1. stage[s] = "reserved" /\ IsActive(s)
  BY DEF Begin, OneActive, InProgress
<1>2. /\ canceled' = canceled /\ again' = again /\ epoch' = epoch
      /\ enrolled' = enrolled /\ removing' = removing /\ cancels' = cancels
      /\ unwanted' = unwanted /\ published' = published
  BY DEF Begin, End, VaultFree, vault
<1>3. \/ To(s, "running") /\ ticket' = [ticket EXCEPT ![s] = epoch] /\ active' = active
      \/ To(s, "over") /\ active' = NoSignIn /\ ticket' = ticket
  BY <1>1 DEF Begin, End, VaultFree, vault, IsActive
<1>4. CASE To(s, "running") /\ ticket' = [ticket EXCEPT ![s] = epoch] /\ active' = active
  <2>1. SignInsTypeOK'
    BY <1>2, <1>4, Shape, Moved DEF SignInsTypeOK, Stages
  <2>2. OneActive'
    BY <1>1, <1>2, <1>4, Shape, Moved DEF Stages, OneActive, InProgress, IsActive
  <2>3. TicketsPast'
    <3> SUFFICES ASSUME NEW t \in SignIn, stage'[t] \in Ticketed
                 PROVE  ticket'[t] \in Nat /\ ticket'[t] <= epoch'
      BY DEF TicketsPast
    <3>1. CASE t = s
      <4>1. ticket'[s] = epoch /\ epoch' = epoch /\ epoch \in Nat
        BY <1>2, <1>4, Shape
      <4>2. QED BY <3>1, <4>1
    <3>2. CASE t # s
      <4>1. ticket[t] \in Nat /\ ticket[t] <= epoch /\ ticket'[t] = ticket[t]
        BY <1>2, <3>2, <1>4, Shape, Moved DEF TicketsPast, Stages
      <4>2. epoch' \in Nat /\ epoch <= epoch'
        BY <1>2, <1>4, Shape
      <4>3. QED BY <4>1, <4>2, Shape
    <3>3. QED BY <3>1, <3>2
  <2>4. PublishedOver'
    BY <1>1, <1>2, <1>4, Shape, Moved
    DEF Stages, PublishedOver, OneActive, InProgress, IsActive
  <2>5. Refusals'
    <3> SUFFICES ASSUME NEW t \in SignIn, t \in unwanted' PROVE StillRefused(t)'
      BY <1>2, Shape DEF Refusals
    <3>1. StillRefused(t)
      BY <1>2 DEF Refusals
    <3>2. EarlyCancel(t)' <=> EarlyCancel(t)
      BY <1>2 DEF EarlyCancel
    <3>3. CASE t = s
      BY <1>1, <1>2, <3>1, <3>2, <3>3, <1>4, Shape, Moved
      DEF StillRefused, Ticketed, Stages, IsActive
    <3>4. CASE t # s
      BY <1>1, <1>2, <3>1, <3>2, <3>4, <1>4, Shape, Moved
      DEF StillRefused, Ticketed, Stages, IsActive, OneActive, InProgress
    <3>5. QED BY <3>3, <3>4
  <2>6. UnwantedStaysOut'
    BY <1>1, <1>2, <1>4, Shape, Moved
    DEF Stages, UnwantedStaysOut, Refusals, StillRefused, PublishedOver
  <2>7. QED BY <2>1, <2>2, <2>3, <2>4, <2>5, <2>6
<1>5. CASE To(s, "over") /\ active' = NoSignIn /\ ticket' = ticket
  BY <1>1, <1>2, <1>5, EndKeeps DEF InProgress
<1>6. QED BY <1>3, <1>4, <1>5

(* The client runs to its end only if no cancellation came.                 *)
LEMMA RunKeeps == ASSUME IInv, NEW s \in SignIn, Run(s) PROVE IInv'
<1> USE SignInsAssumption DEF IInv
<1>1. stage[s] = "running" /\ IsActive(s)
  BY DEF Run, OneActive, InProgress
<1>2. /\ canceled' = canceled /\ again' = again /\ ticket' = ticket /\ epoch' = epoch
      /\ enrolled' = enrolled /\ removing' = removing /\ cancels' = cancels
      /\ unwanted' = unwanted /\ published' = published
  BY DEF Run, End, vault
<1>3. \/ ~active.cancel /\ To(s, "signed in") /\ active' = active
      \/ To(s, "over") /\ active' = NoSignIn
  BY <1>1 DEF Run, End, vault, IsActive
<1>4. CASE ~active.cancel /\ To(s, "signed in") /\ active' = active
  <2>1. SignInsTypeOK'
    BY <1>2, <1>4, Shape, Moved DEF SignInsTypeOK, Stages
  <2>2. OneActive'
    BY <1>1, <1>2, <1>4, Shape, Moved DEF Stages, OneActive, InProgress, IsActive
  <2>3. TicketsPast'
    BY <1>1, <1>2, <1>4, Shape, Moved DEF Stages, TicketsPast, Ticketed
  <2>4. PublishedOver'
    BY <1>1, <1>2, <1>4, Shape, Moved
    DEF Stages, PublishedOver, OneActive, InProgress, IsActive
  <2>5. Refusals'
    <3> SUFFICES ASSUME NEW t \in SignIn, t \in unwanted' PROVE StillRefused(t)'
      BY <1>2, Shape DEF Refusals
    <3>1. StillRefused(t)
      BY <1>2 DEF Refusals
    <3>2. EarlyCancel(t)' <=> EarlyCancel(t)
      BY <1>2 DEF EarlyCancel
    <3>3. CASE t = s
      BY <1>1, <1>2, <3>1, <3>2, <3>3, <1>4, Shape, Moved
      DEF StillRefused, Ticketed, Stages, IsActive
    <3>4. CASE t # s
      BY <1>1, <1>2, <3>1, <3>2, <3>4, <1>4, Shape, Moved
      DEF StillRefused, Ticketed, Stages, IsActive, OneActive, InProgress
    <3>5. QED BY <3>3, <3>4
  <2>6. UnwantedStaysOut'
    BY <1>1, <1>2, <1>4, Shape, Moved
    DEF Stages, UnwantedStaysOut, Refusals, StillRefused, PublishedOver
  <2>7. QED BY <2>1, <2>2, <2>3, <2>4, <2>5, <2>6
<1>5. CASE To(s, "over") /\ active' = NoSignIn
  BY <1>1, <1>2, <1>5, EndKeeps DEF InProgress
<1>6. QED BY <1>3, <1>4, <1>5

(* A publication starts only for a ticket of this epoch, not cancelled.     *)
LEMMA CommitKeeps == ASSUME IInv, NEW s \in SignIn, Commit(s) PROVE IInv'
<1> USE SignInsAssumption DEF IInv
<1>1. stage[s] = "signed in" /\ IsActive(s)
  BY DEF Commit, OneActive, InProgress
<1>2. /\ canceled' = canceled /\ again' = again /\ ticket' = ticket /\ epoch' = epoch
      /\ enrolled' = enrolled /\ removing' = removing /\ cancels' = cancels
      /\ unwanted' = unwanted /\ published' = published
  BY DEF Commit, Publishable, End, vault
<1>3. \/ ticket[s] = epoch /\ ~active.cancel /\ To(s, "publishing") /\ active' = active
      \/ To(s, "over") /\ active' = NoSignIn
  BY <1>1 DEF Commit, Publishable, End, vault, IsActive
<1>4. CASE ticket[s] = epoch /\ ~active.cancel /\ To(s, "publishing") /\ active' = active
  <2>1. SignInsTypeOK'
    BY <1>2, <1>4, Shape, Moved DEF SignInsTypeOK, Stages
  <2>2. OneActive'
    BY <1>1, <1>2, <1>4, Shape, Moved DEF Stages, OneActive, InProgress, IsActive
  <2>3. TicketsPast'
    BY <1>1, <1>2, <1>4, Shape, Moved DEF Stages, TicketsPast, Ticketed
  <2>4. PublishedOver'
    BY <1>1, <1>2, <1>4, Shape, Moved
    DEF Stages, PublishedOver, OneActive, InProgress, IsActive
  <2>5. Refusals'
    <3> SUFFICES ASSUME NEW t \in SignIn, t \in unwanted' PROVE StillRefused(t)'
      BY <1>2, Shape DEF Refusals
    <3>1. StillRefused(t)
      BY <1>2 DEF Refusals
    <3>2. EarlyCancel(t)' <=> EarlyCancel(t)
      BY <1>2 DEF EarlyCancel
    <3>3. CASE t = s
      BY <1>1, <1>2, <3>1, <3>2, <3>3, <1>4, Shape, Moved
      DEF StillRefused, Ticketed, Stages, IsActive
    <3>4. CASE t # s
      BY <1>1, <1>2, <3>1, <3>2, <3>4, <1>4, Shape, Moved
      DEF StillRefused, Ticketed, Stages, IsActive, OneActive, InProgress
    <3>5. QED BY <3>3, <3>4
  <2>6. UnwantedStaysOut'
    BY <1>1, <1>2, <1>4, Shape, Moved
    DEF Stages, UnwantedStaysOut, Refusals, StillRefused, PublishedOver
  <2>7. QED BY <2>1, <2>2, <2>3, <2>4, <2>5, <2>6
<1>5. CASE To(s, "over") /\ active' = NoSignIn
  BY <1>1, <1>2, <1>5, EndKeeps DEF InProgress
<1>6. QED BY <1>3, <1>4, <1>5

(* While a publication runs nobody can cancel it, so what it saves is wanted.*)
LEMMA SavedKeeps == ASSUME IInv, NEW s \in SignIn, Saved(s) PROVE IInv'
<1> USE SignInsAssumption DEF IInv
<1>1. stage[s] = "publishing" /\ IsActive(s)
  BY DEF Saved, OneActive, InProgress
<1>2. /\ canceled' = canceled /\ again' = again /\ ticket' = ticket
      /\ removing' = removing /\ cancels' = cancels /\ unwanted' = unwanted
  BY DEF Saved, End, vault
<1>3. \/ /\ To(s, "over") /\ active' = NoSignIn /\ epoch < MaxEpoch
         /\ epoch' = epoch + 1 /\ enrolled' = TRUE /\ published' = published \cup {s}
      \/ /\ To(s, "over") /\ active' = NoSignIn /\ epoch' = epoch
         /\ enrolled' = enrolled /\ published' = published
  BY <1>1 DEF Saved, End, vault, IsActive
<1>4. CASE /\ To(s, "over") /\ active' = NoSignIn /\ epoch < MaxEpoch
           /\ epoch' = epoch + 1 /\ enrolled' = TRUE /\ published' = published \cup {s}
  <2>1. SignInsTypeOK'
    <3>1. epoch' \in 0..MaxEpoch
      <4>1. epoch \in Nat /\ epoch + 1 <= MaxEpoch /\ epoch' = epoch + 1
        BY <1>4, Shape
      <4>2. QED BY <4>1
    <3>2. enrolled' \in BOOLEAN /\ published' \subseteq SignIn
      BY <1>4, Shape
    <3>3. QED BY <1>2, <3>1, <3>2, <1>4, Moved DEF SignInsTypeOK, Stages
  <2>2. OneActive'
    BY <1>1, <1>2, <1>4, Shape, Moved DEF Stages, OneActive, InProgress, IsActive
  <2>3. TicketsPast'
    <3> SUFFICES ASSUME NEW t \in SignIn, stage'[t] \in Ticketed
                 PROVE  ticket'[t] \in Nat /\ ticket'[t] <= epoch'
      BY DEF TicketsPast
    <3>1. CASE t = s
      BY <1>1, <1>2, <3>1, <1>4, Shape, Moved DEF Ticketed, Stages
    <3>2. CASE t # s
      <4>1. ticket[t] \in Nat /\ ticket[t] <= epoch /\ ticket'[t] = ticket[t]
        BY <1>2, <3>2, <1>4, Shape, Moved DEF TicketsPast, Stages
      <4>2. epoch' \in Nat /\ epoch <= epoch'
        BY <1>2, <1>4, Shape
      <4>3. QED BY <4>1, <4>2, Shape
    <3>3. QED BY <3>1, <3>2
  <2>4. PublishedOver'
    <3>1. \A t \in published : t \in SignIn /\ stage[t] = "over"
      BY Shape DEF PublishedOver
    <3>2. \A t \in published' : t = s \/ t \in published
      BY <1>4
    <3>3. stage'[s] = "over" /\ \A t \in SignIn : t # s => stage'[t] = stage[t]
      BY <1>4, Moved DEF Stages
    <3>4. QED BY <3>1, <3>2, <3>3 DEF PublishedOver
  <2>5. Refusals'
    <3> SUFFICES ASSUME NEW t \in SignIn, t \in unwanted' PROVE StillRefused(t)'
      BY <1>2, Shape DEF Refusals
    <3>1. StillRefused(t)
      BY <1>2 DEF Refusals
    <3>2. EarlyCancel(t)' <=> EarlyCancel(t)
      BY <1>2 DEF EarlyCancel
    <3>3. CASE t = s
      BY <1>1, <1>2, <3>1, <3>2, <3>3, <1>4, Shape, Moved
      DEF StillRefused, Ticketed, Stages, IsActive
    <3>4. CASE t # s
      BY <1>1, <1>2, <3>1, <3>2, <3>4, <1>4, Shape, Moved
      DEF StillRefused, Ticketed, Stages, IsActive, OneActive, InProgress, TicketsPast
    <3>5. QED BY <3>3, <3>4
  <2>6. UnwantedStaysOut'
    BY <1>1, <1>2, <1>4, Shape, Moved
    DEF Stages, UnwantedStaysOut, Refusals, StillRefused, PublishedOver
  <2>7. QED BY <2>1, <2>2, <2>3, <2>4, <2>5, <2>6
<1>5. CASE /\ To(s, "over") /\ active' = NoSignIn /\ epoch' = epoch
           /\ enrolled' = enrolled /\ published' = published
  BY <1>1, <1>2, <1>5, EndKeeps DEF InProgress
<1>6. QED BY <1>3, <1>4, <1>5

(* The running sign-in is flagged, another one remembered.                  *)
LEMMA CancelKeeps == ASSUME IInv, NEW s \in SignIn, Cancel(s) PROVE IInv'
<1> USE SignInsAssumption DEF IInv
<1>1. /\ stage' = stage /\ again' = again /\ ticket' = ticket /\ epoch' = epoch
      /\ enrolled' = enrolled /\ removing' = removing /\ published' = published
      /\ \A t \in SignIn : stage[t] # "publishing"
  BY DEF Cancel, RegistryFree, Publishing, vault
<1>2. cancels' \in 0..MaxCancels
  <2>1. cancels \in 0..MaxCancels
    BY DEF SignInsTypeOK
  <2>2. cancels < MaxCancels /\ cancels' = cancels + 1
    BY DEF Cancel
  <2>3. QED BY <2>1, <2>2
<1>3. unwanted' \subseteq SignIn /\ unwanted' \cap published = {}
  BY Shape DEF Cancel, UnwantedStaysOut
<1>4. CASE IsActive(s)
  <2>1. /\ active' = [active EXCEPT !.cancel = TRUE] /\ canceled' = canceled
        /\ unwanted' = unwanted \cup ({s} \ published)
    BY <1>4 DEF Cancel
  <2>2. active.id = s /\ active' = [id |-> s, cancel |-> TRUE] /\ active' # NoSignIn
    BY <1>4, <2>1, Shape DEF IsActive
  <2>3. SignInsTypeOK'
    BY <1>1, <1>2, <1>3, <2>1, <2>2 DEF SignInsTypeOK
  <2>4. OneActive'
    BY <1>1, <1>4, <2>2 DEF OneActive, IsActive
  <2>5. TicketsPast' /\ PublishedOver'
    BY <1>1 DEF TicketsPast, PublishedOver
  <2>6. Refusals'
    BY <1>1, <1>4, <2>1, <2>2, Shape
    DEF Refusals, StillRefused, OneActive, InProgress, IsActive, EarlyCancel, Ticketed, Stages
  <2>7. QED BY <1>1, <1>3, <2>3, <2>4, <2>5, <2>6 DEF UnwantedStaysOut
<1>5. CASE ~IsActive(s)
  <2>1. /\ active' = active /\ canceled' = Pushed(s)
        /\ unwanted' = (unwanted \ {t \in Forgotten : stage[t] = "new"}) \cup ({s} \ published)
    BY <1>5 DEF Cancel
  <2>2. /\ canceled \in Seq(SignIn) /\ Len(canceled) <= Remembered
    BY DEF SignInsTypeOK
  <2>3. /\ canceled' \in Seq(SignIn) /\ Len(canceled)' <= Remembered /\ EarlyCancel(s)'
        /\ \A t \in SignIn : EarlyCancel(t) /\ t \notin Forgotten => EarlyCancel(t)'
    <3>1. /\ Pushed(s) \in Seq(SignIn) /\ Len(Pushed(s)) <= Remembered
          /\ \E i \in 1..Len(Pushed(s)) : Pushed(s)[i] = s
          /\ \A t \in SignIn : EarlyCancel(t) /\ t \notin Forgotten =>
               \E i \in 1..Len(Pushed(s)) : Pushed(s)[i] = t
      BY <2>2, PushedKeeps
    <3>2. canceled' = Pushed(s)
      BY <2>1
    <3>3. \A t : EarlyCancel(t)' <=> \E i \in 1..Len(Pushed(s)) : Pushed(s)[i] = t
      BY <3>2 DEF EarlyCancel
    <3>4. QED BY <3>1, <3>2, <3>3
  <2>4. SignInsTypeOK'
    BY <1>1, <1>2, <1>3, <2>1, <2>3 DEF SignInsTypeOK
  <2>5. OneActive'
    BY <1>1, <2>1 DEF OneActive, IsActive
  <2>6. TicketsPast' /\ PublishedOver'
    BY <1>1 DEF TicketsPast, PublishedOver
  <2>7. stage[s] \in {"new", "over"}
    BY <1>1, <1>5, Shape DEF OneActive, InProgress, Stages
  <2>8. Refusals'
    <3> SUFFICES ASSUME NEW t \in SignIn, t \in unwanted' PROVE StillRefused(t)'
      BY <1>3 DEF Refusals
    <3>1. CASE t = s
      BY <1>1, <2>3, <2>7, <3>1 DEF StillRefused, Ticketed
    <3>2. CASE t # s
      <4>1. t \in unwanted /\ (stage[t] = "new" => t \notin Forgotten)
        BY <2>1, <3>2
      <4>2. StillRefused(t)
        BY <4>1 DEF Refusals
      <4>3. QED BY <1>1, <2>1, <2>3, <4>1, <4>2 DEF StillRefused
    <3>3. QED BY <3>1, <3>2
  <2>9. QED BY <1>1, <1>3, <2>4, <2>5, <2>6, <2>8 DEF UnwantedStaysOut
<1>6. QED BY <1>4, <1>5

(* A removal flags the sign-in of its profile, or leaves things alone.      *)
LEMMA CancelExpectedKeeps == ASSUME IInv, CancelExpected PROVE IInv'
<1> USE SignInsAssumption DEF IInv
<1>1. /\ canceled' = canceled /\ stage' = stage /\ again' = again /\ ticket' = ticket
      /\ epoch' = epoch /\ enrolled' = enrolled /\ cancels' = cancels
      /\ unwanted' = unwanted /\ published' = published /\ removing' = TRUE
  BY DEF CancelExpected, vault
<1>2. \/ active' = active
      \/ /\ active # NoSignIn /\ active' = [id |-> active.id, cancel |-> TRUE]
         /\ active' # NoSignIn
  BY Shape DEF CancelExpected
<1>3. SignInsTypeOK'
  <2>1. active' \in [id : SignIn, cancel : BOOLEAN] \cup {NoSignIn}
    <3>1. CASE active' = active
      BY <3>1 DEF SignInsTypeOK
    <3>2. CASE active # NoSignIn /\ active' = [id |-> active.id, cancel |-> TRUE]
      BY <3>2, Shape
    <3>3. QED BY <1>2, <3>1, <3>2
  <2>2. QED BY <1>1, <2>1 DEF SignInsTypeOK
<1>4. OneActive'
  BY <1>1, <1>2 DEF OneActive, IsActive
<1>5. TicketsPast' /\ PublishedOver' /\ UnwantedStaysOut'
  BY <1>1 DEF TicketsPast, PublishedOver, UnwantedStaysOut
<1>6. Refusals'
  BY <1>1, <1>2 DEF Refusals, StillRefused, EarlyCancel
<1>7. QED BY <1>3, <1>4, <1>5, <1>6

(* Any change of the vault makes the tickets taken before it void.          *)
LEMMA VaultChanges ==
  ASSUME IInv, VaultFree, epoch < MaxEpoch, epoch' = epoch + 1, enrolled' \in BOOLEAN,
         removing' \in BOOLEAN, unwanted \subseteq unwanted',
         \A s \in unwanted' \ unwanted : s \in SignIn /\ stage[s] \in Ticketed,
         UNCHANGED <<active, canceled, stage, again, ticket, cancels, published>>
  PROVE  IInv'
<1> USE SignInsAssumption DEF IInv
<1>1. epoch' \in 0..MaxEpoch /\ epoch' # epoch /\ epoch \in Nat
  <2>1. epoch \in Nat
    BY Shape
  <2>2. QED BY <2>1
<1>2. unwanted' \subseteq SignIn
  BY Shape
<1>3. SignInsTypeOK'
  BY <1>1, <1>2 DEF SignInsTypeOK
<1>4. OneActive' /\ PublishedOver'
  BY DEF OneActive, IsActive, PublishedOver
<1>5. ASSUME NEW s \in SignIn, stage[s] \in Ticketed
      PROVE  ticket[s] \in Nat /\ ticket[s] <= epoch' /\ ticket[s] # epoch'
  <2>1. ticket[s] \in Nat /\ ticket[s] <= epoch
    BY <1>5 DEF TicketsPast
  <2>2. QED BY <1>1, <2>1
<1>6. TicketsPast'
  BY <1>5 DEF TicketsPast
<1>7. Refusals'
  <2> SUFFICES ASSUME NEW s \in SignIn, s \in unwanted' PROVE StillRefused(s)'
    BY <1>2 DEF Refusals
  <2>1. CASE s \in unwanted
    BY <1>5, <2>1 DEF Refusals, StillRefused, EarlyCancel
  <2>2. CASE s \notin unwanted
    BY <1>5, <2>2 DEF StillRefused, Ticketed
  <2>3. QED BY <2>1, <2>2
<1>8. UnwantedStaysOut'
  BY DEF UnwantedStaysOut, PublishedOver, Ticketed
<1>9. QED BY <1>3, <1>4, <1>6, <1>7, <1>8

(* A removal makes void every ticket taken before it.                       *)
LEMMA RemoveKeeps == ASSUME IInv, Remove PROVE IInv'
<1>1. /\ VaultFree /\ epoch < MaxEpoch /\ epoch' = epoch + 1 /\ enrolled' \in BOOLEAN
      /\ removing' \in BOOLEAN /\ unwanted \subseteq unwanted'
      /\ \A s \in unwanted' \ unwanted : s \in SignIn /\ stage[s] \in Ticketed
      /\ UNCHANGED <<active, canceled, stage, again, ticket, cancels, published>>
  BY DEF Remove, registry, Ticketed
<1>2. QED BY <1>1, VaultChanges

(* So does any other account change.                                        *)
LEMMA ChangeKeeps == ASSUME IInv, Change PROVE IInv'
<1>1. /\ VaultFree /\ epoch < MaxEpoch /\ epoch' = epoch + 1
      /\ enrolled' = enrolled /\ removing' = removing /\ unwanted' = unwanted
      /\ UNCHANGED <<active, canceled, stage, again, ticket, cancels, published>>
  BY DEF Change, registry
<1>2. enrolled' \in BOOLEAN /\ removing' \in BOOLEAN
  BY <1>1 DEF IInv, SignInsTypeOK
<1>3. unwanted \subseteq unwanted' /\ unwanted' \ unwanted = {}
  BY <1>1
<1>4. QED BY <1>1, <1>2, <1>3, VaultChanges

(* A step that changes none of the variables keeps the invariant.           *)
LEMMA StutterKeeps == ASSUME IInv, UNCHANGED signVars PROVE IInv'
<1> USE DEF IInv, signVars, registry, vault
<1>1. SignInsTypeOK'
  BY DEF SignInsTypeOK
<1>2. OneActive' /\ TicketsPast' /\ PublishedOver'
  BY DEF OneActive, IsActive, TicketsPast, PublishedOver
<1>3. Refusals' /\ UnwantedStaysOut'
  BY DEF Refusals, StillRefused, EarlyCancel, UnwantedStaysOut
<1>4. QED BY <1>1, <1>2, <1>3

(* Every step keeps the invariant.                                          *)
LEMMA SignInsStepInductive == IInv /\ [SignInsNext]_signVars => IInv'
BY ReserveKeeps, BeginKeeps, RunKeeps, CommitKeeps, SavedKeeps, CancelKeeps,
   CancelExpectedKeeps, RemoveKeeps, ChangeKeeps, StutterKeeps
DEF SignInsNext

-----------------------------------------------------------------------------
(* The variables of a sign-in are always of their types; in particular the  *)
(* early cancellations (login.rs Registry) never outgrow their bound.       *)
THEOREM SignInsTypeCorrect == SignInsSpec => []SignInsTypeOK
<1>1. IInv => SignInsTypeOK
  BY DEF IInv
<1>2. QED BY <1>1, SignInsInitInductive, SignInsStepInductive, PTL DEF SignInsSpec

(* However a cancellation, a removal and a publication race, a sign-in that *)
(* was cancelled or whose account was removed before it was published is    *)
(* never saved (login.rs Registry, publish; mod.rs remove).                 *)
THEOREM UnwantedIsNeverSaved == SignInsSpec => []UnwantedStaysOut
<1>1. IInv => UnwantedStaysOut
  BY DEF IInv
<1>2. QED BY <1>1, SignInsInitInductive, SignInsStepInductive, PTL DEF SignInsSpec

-----------------------------------------------------------------------------
(* Account homes.                                                           *)

(* Every login in use was given out, so that a new one is nobody's.         *)
Given == 1..minted

Old(x) == x \in Logins => x \in Given

GivenOut == /\ Old(profile.login) /\ Old(native) /\ live \subseteq Given
            /\ \A h \in HomeId : Old(inside[h])
            /\ \A p \in Program : Old(db[p].login)

Elsewhere(x) == native = NoLogin \/ x # native

Settling == {"unnamed", "take back", "check in", "put", "clear"}

(* What a settle knows at each of its steps, and what a switch waits for.   *)
StepsFit ==
  /\ \A p \in Program : /\ pc[p] \in {"idle", "read"} => ~current[p]
                        /\ pc[p] \in {"put", "clear"} => Moves(p)
                        /\ pc[p] \in {"take back", "put", "clear", "read"} => at[p] \in HomeId
                        /\ pc[p] \notin {"load", "unnamed", "take back"} => found[p] = {}
  /\ change # "none" => /\ ~Reading /\ profile.saved /\ profile.login # NoLogin
  /\ change = "checked out" => profile.home # NoHome

NeedsBack(q) == q.saved /\ NeedsLogin(q) /\ ~q.signedOut

(* A saved account without a login or a home is one an older version wrote: *)
(* its login can only be in the home that version made forget.              *)
OnlyDropped ==
  /\ NeedsBack(profile) => /\ dropped # NoHome
                           /\ \A h \in HomeId \ {dropped} : inside[h] = Absent
  /\ \A p \in Program : NeedsBack(db[p]) => dropped # NoHome
  /\ \A p \in Program : pc[p] = "take back" => /\ NeedsBack(db[p])
                                               /\ NeedsBack(profile) => at[p] = dropped

(* What a settle moves, having found the account signed out, is not native. *)
MovedApart ==
  \A p \in Program : ~seen[p] => /\ pc[p] \in {"list", "load"} => Elsewhere(profile.login)
                                 /\ pc[p] \in Settling => Elsewhere(db[p].login)

(* Nor is what is in a home the account is read from, or taken back from.   *)
KeptApart ==
  /\ NeedsBack(profile) => Elsewhere(inside[dropped])
  /\ \A p \in Program : pc[p] \in {"clear", "read"} => Elsewhere(inside[at[p]])
  /\ OneCopy

Sound == StepsFit /\ OnlyDropped /\ MovedApart /\ KeptApart

(* A home that is torn down, by a settle or after a removal, is not the one *)
(* the account's login is reached through.                                  *)
Named ==
  \A p \in Program : pc[p] # "load" =>
    /\ profile.home \in found[p] => NeedsBack(db[p])
    /\ NeedsBack(profile) /\ dropped \in found[p] => NeedsBack(db[p])

Retired ==
  retiring # NoHome => profile.home # retiring /\ (NeedsBack(profile) => dropped # retiring)

(* What is taken out of the vault is in the home, or of no use any more.    *)
ClearKeeps ==
  \A p \in Program : pc[p] = "clear" /\ Holds(p) /\ profile.home = at[p] =>
    inside[at[p]] = db[p].login \/ db[p].login \notin live

(* A native login that is of no use takes the place of no other.            *)
DeadNative ==
  native # NoLogin /\ native \notin live =>
    /\ \A p \in Program : pc[p] \in Settling \cup {"list", "load"} => seen[p]
    /\ profile.saved /\ ~profile.pending => profile.login = native

WayBack == Named /\ Retired /\ ClearKeeps /\ DeadNative

-----------------------------------------------------------------------------
(* What the types say, and what a login that is given out is not.           *)
LEMMA Empty == NoProfile \in Profile
  BY DEF NoProfile, Profile

LEMMA Apart ==
  HomesTypeOK => /\ NoLogin \notin Logins /\ Absent \notin Logins /\ NoLogin # Absent
                 /\ native # Absent /\ Elsewhere(Absent) /\ Elsewhere(NoLogin)
  BY HomesAssumption DEF HomesTypeOK, Elsewhere

LEMMA Typed ==
  HomesTypeOK => /\ profile.home # NoHome => profile.home \in HomeId
                 /\ profile.login \in Logins \cup {NoLogin}
  BY DEF HomesTypeOK, Profile

(* Naming a home, or taking a login out, leaves the rest of a profile alone.*)
LEMMA HomeNamed ==
  ASSUME HomesTypeOK, NEW h, profile' = [profile EXCEPT !.home = h]
  PROVE  /\ profile'.home = h /\ profile'.login = profile.login
         /\ profile'.saved = profile.saved /\ profile'.pending = profile.pending
  BY DEF HomesTypeOK, Profile

LEMMA LoginTaken ==
  ASSUME HomesTypeOK, profile' = [profile EXCEPT !.login = NoLogin]
  PROVE  /\ profile' \in Profile /\ profile'.home = profile.home /\ profile'.login = NoLogin
         /\ profile'.saved = profile.saved
  BY DEF HomesTypeOK, Profile

LEMMA Mint ==
  ASSUME HomesTypeOK, GivenOut, NEW S, Minted(S)
  PROVE  /\ minted' \in 0..MaxLogin /\ minted + 1 \in Logins /\ live' \subseteq Logins
         /\ minted + 1 \notin Given /\ minted + 1 \in Given' /\ Given \subseteq Given'
         /\ live' \subseteq Given' /\ live' \subseteq live \cup {minted + 1}
<1>0. minted \in 0..MaxLogin /\ MaxLogin \in Nat
  BY HomesAssumption DEF HomesTypeOK
<1>1. minted \in Nat /\ minted < MaxLogin /\ minted' = minted + 1
  BY <1>0 DEF Minted
<1>2. minted' \in 0..MaxLogin /\ minted + 1 \in Logins
  BY <1>0, <1>1 DEF Logins
<1>3. minted + 1 \notin Given /\ minted + 1 \in Given' /\ Given \subseteq Given'
  BY <1>1 DEF Given
<1>4. live' \subseteq live \cup {minted + 1}
  BY DEF Minted
<1> QED BY <1>2, <1>3, <1>4 DEF HomesTypeOK, GivenOut

(* Every step keeps the types, race or no race.                             *)
LEMMA TypesKept ==
  ASSUME HomesTypeOK, GivenOut, HomesNext PROVE HomesTypeOK'
<1> USE HomesAssumption, Empty DEF HomesTypeOK
<1>1. ASSUME NEW p \in Program, ReadNative(p) PROVE HomesTypeOK'
  BY <1>1 DEF ReadNative, Goto, issuer
<1>2. ASSUME NEW p \in Program, List(p) PROVE HomesTypeOK'
  BY <1>2 DEF List, Goto, issuer
<1>3. ASSUME NEW p \in Program, Load(p) PROVE HomesTypeOK'
  BY <1>3 DEF Load, Goto, issuer
<1>4. ASSUME NEW p \in Program, Unnamed(p) PROVE HomesTypeOK'
  <2>1. CASE found[p] = {}
    BY <1>4, <2>1 DEF Unnamed, Goto, issuer
  <2>2. CASE found[p] # {}
    <3>1. found[p] \subseteq HomeId
      OBVIOUS
    <3>2. PICK h \in found[p] : /\ found' = [found EXCEPT ![p] = @ \ {h}]
                                /\ inside' = inside \/ inside' = [inside EXCEPT ![h] = Absent]
                                /\ pc' = pc \/ pc' = [pc EXCEPT ![p] = "take back"]
                                /\ at' = at \/ at' = [at EXCEPT ![p] = h]
      BY <1>4, <2>2 DEF Unnamed, Goto
    <3>3. h \in HomeId
      BY <3>1, <3>2
    <3>4. /\ found' \in [Program -> SUBSET HomeId]
          /\ inside' \in [HomeId -> Logins \cup {NoLogin, Absent}]
      BY <3>1, <3>2, <3>3
    <3>5. at' \in [Program -> HomeId \cup {NoHome}]
      <4>1. CASE at' = at
        BY <4>1
      <4>2. CASE at' = [at EXCEPT ![p] = h]
        BY <3>3, <4>2
      <4> QED BY <3>2, <4>1, <4>2
    <3>6. pc' \in [Program -> {"idle", "list", "load", "unnamed", "take back", "check in", "put",
                               "clear", "poll", "read"}]
      BY <3>2
    <3>7. UNCHANGED <<profile, native, live, minted, change, retiring, seen, db, current,
                    dropped, overtaken>>
      BY <1>4 DEF Unnamed, issuer
    <3> QED BY <3>4, <3>5, <3>6, <3>7
  <2> QED BY <2>1, <2>2
<1>5. ASSUME NEW p \in Program, TakeBack(p) PROVE HomesTypeOK'
  BY <1>5 DEF TakeBack, Goto, NeedsLogin, issuer, Profile
<1>6. ASSUME NEW p \in Program, CheckIn(p) PROVE HomesTypeOK'
  <2>1. profile' \in Profile
    <3>1. ASSUME NEW h \in HomeId, profile' = [profile EXCEPT !.home = h]
          PROVE  profile' \in Profile
      BY <3>1 DEF Profile
    <3>2. profile.home # NoHome => profile.home \in HomeId
      BY Typed
    <3> QED BY <1>6, <3>1, <3>2 DEF CheckIn, Unused
  <2>2. pc' = [pc EXCEPT ![p] = "put"] \/ pc' = [pc EXCEPT ![p] = "poll"]
    BY <1>6 DEF CheckIn, Goto
  <2>3. \E h \in HomeId \cup {NoHome} : at' = at \/ at' = [at EXCEPT ![p] = h]
    <3>1. profile.home \in HomeId \cup {NoHome} /\ db[p].home \in HomeId \cup {NoHome}
      BY DEF Profile
    <3> QED BY <1>6, <3>1 DEF CheckIn, Unused
  <2>4. at' \in [Program -> HomeId \cup {NoHome}]
    BY <2>3
  <2> QED BY <1>6, <2>1, <2>2, <2>4 DEF CheckIn, issuer
<1>7. ASSUME NEW p \in Program, Put(p) PROVE HomesTypeOK'
  <2>1. inside' \in [HomeId -> Logins \cup {NoLogin, Absent}]
    <3>1. db[p].login \in Logins \cup {NoLogin}
      BY DEF Profile
    <3> QED BY <1>7, <3>1 DEF Put
  <2>2. pc' = [pc EXCEPT ![p] = "clear"] \/ pc' = [pc EXCEPT ![p] = "poll"]
    BY <1>7 DEF Put, Goto
  <2>3. overtaken' \in BOOLEAN
    BY <1>7 DEF Put
  <2> QED BY <1>7, <2>1, <2>2, <2>3 DEF Put, issuer
<1>8. ASSUME NEW p \in Program, TakeOut(p) PROVE HomesTypeOK'
  <2>1. profile' \in Profile
    BY <1>8, LoginTaken DEF TakeOut
  <2> QED BY <1>8, <2>1 DEF TakeOut, Goto, issuer
<1>9. ASSUME NEW p \in Program, Poll(p) PROVE HomesTypeOK'
  <2>1. PICK s \in {"read", "idle"}, h \in HomeId \cup {NoHome} :
          pc' = [pc EXCEPT ![p] = s] /\ at' = [at EXCEPT ![p] = h]
    BY <1>9 DEF Poll, Goto, Profile
  <2> QED BY <1>9, <2>1 DEF Poll, issuer
<1>10. ASSUME NEW p \in Program, HomeRead(p) PROVE HomesTypeOK'
  <2>1. CASE UNCHANGED <<inside, issuer>>
    BY <1>10, <2>1 DEF HomeRead, Goto, HeldTwice, issuer
  <2>2. CASE Minted({inside[at[p]]}) /\ inside' = [inside EXCEPT ![at[p]] = minted + 1]
    BY <1>10, <2>2, Mint DEF HomeRead, Goto, HeldTwice, issuer
  <2> QED BY <1>10, <2>1, <2>2 DEF HomeRead, Goto, HeldTwice, issuer
<1>11. ASSUME NEW p \in Program, Stop(p) PROVE HomesTypeOK'
  BY <1>11 DEF Stop, Goto, NoProfile, issuer
<1>12. ASSUME CheckOut PROVE HomesTypeOK'
  <2>1. profile' \in Profile
    <3>1. CASE UNCHANGED profile
      BY <3>1
    <3>2. CASE /\ inside[profile.home] \in Logins
               /\ profile' = [profile EXCEPT !.login = inside[profile.home]]
      BY <3>2 DEF Profile
    <3> QED BY <1>12, <3>1, <3>2 DEF CheckOut, CheckedOut
  <2>2. change' \in {"checked out", "emptied"}
    BY <1>12 DEF CheckOut
  <2> QED BY <1>12, <2>1, <2>2 DEF CheckOut, Bump, issuer
<1>13. ASSUME EmptyHome PROVE HomesTypeOK'
  BY <1>13 DEF EmptyHome, settling, issuer
<1>14. ASSUME Activate PROVE HomesTypeOK'
  BY <1>14 DEF Activate, settling, issuer, Profile
<1>15. ASSUME FailUse PROVE HomesTypeOK'
  BY <1>15 DEF FailUse, settling, issuer
<1>16. ASSUME SwitchAway PROVE HomesTypeOK'
  BY <1>16 DEF SwitchAway, Captured, Bump, issuer, Profile
<1>17. ASSUME SignOut PROVE HomesTypeOK'
  BY <1>17 DEF SignOut, Bump, Profile
<1>18. ASSUME Remember PROVE HomesTypeOK'
  BY <1>18 DEF Remember, Captured, Overtakes, settling, issuer, Profile
<1>19. ASSUME SaveCurrent PROVE HomesTypeOK'
  BY <1>19 DEF SaveCurrent, Captured, Overtakes, Bump, issuer, Profile
<1>20. ASSUME SignedIn PROVE HomesTypeOK'
  <2>1. Minted({})
    BY <1>20 DEF SignedIn
  <2> QED BY <1>20, <2>1, Mint DEF SignedIn, Bump, Profile
<1>21. ASSUME Forget PROVE HomesTypeOK'
  BY <1>21 DEF Forget, Bump, NoProfile, issuer, Profile
<1>22. ASSUME Retire PROVE HomesTypeOK'
  BY <1>22 DEF Retire, settling, issuer
<1>23. ASSUME OldVersion PROVE HomesTypeOK'
  BY <1>23 DEF OldVersion, settling, issuer, Profile
<1>24. ASSUME UserSignsIn PROVE HomesTypeOK'
  <2>1. Minted({})
    BY <1>24 DEF UserSignsIn
  <2> QED BY <1>24, <2>1, Mint DEF UserSignsIn, settling
<1>25. ASSUME UserLeaves PROVE HomesTypeOK'
  BY <1>25 DEF UserLeaves, settling, issuer
<1>26. ASSUME ClientRenewsNative PROVE HomesTypeOK'
  <2>1. Minted({native})
    BY <1>26 DEF ClientRenewsNative
  <2> QED BY <1>26, <2>1, Mint DEF ClientRenewsNative, settling
<1> QED BY <1>1, <1>2, <1>3, <1>4, <1>5, <1>6, <1>7, <1>8, <1>9, <1>10, <1>11, <1>12, <1>13,
   <1>14, <1>15, <1>16, <1>17, <1>18, <1>19, <1>20, <1>21, <1>22, <1>23, <1>24, <1>25, <1>26
DEF HomesNext

(* Every login in use was given out before, race or no race.                *)
LEMMA GivenKept ==
  ASSUME HomesTypeOK, GivenOut, HomesNext PROVE GivenOut'
<1> USE HomesAssumption, Empty DEF HomesTypeOK, GivenOut, Old
<1>1. ASSUME NEW p \in Program, ReadNative(p) PROVE GivenOut'
  BY <1>1 DEF ReadNative, Goto, issuer, Given
<1>2. ASSUME NEW p \in Program, List(p) PROVE GivenOut'
  BY <1>2 DEF List, Goto, issuer, Given
<1>3. ASSUME NEW p \in Program, Load(p) PROVE GivenOut'
  BY <1>3 DEF Load, Goto, issuer, Given
<1>4. ASSUME NEW p \in Program, Unnamed(p) PROVE GivenOut'
  BY <1>4 DEF Unnamed, Goto, TakesBack, NeedsLogin, issuer, Given
<1>5. ASSUME NEW p \in Program, TakeBack(p) PROVE GivenOut'
  BY <1>5 DEF TakeBack, Goto, NeedsLogin, issuer, Profile, Given
<1>6. ASSUME NEW p \in Program, CheckIn(p) PROVE GivenOut'
  <2>1. UNCHANGED <<inside, native, live, minted, db>>
    BY <1>6 DEF CheckIn, issuer
  <2>2. profile' = profile \/ \E h : profile' = [profile EXCEPT !.home = h]
    BY <1>6 DEF CheckIn
  <2>3. profile'.login = profile.login
    BY <2>2, HomeNamed
  <2> QED BY <2>1, <2>3 DEF Given
<1>7. ASSUME NEW p \in Program, Put(p) PROVE GivenOut'
  BY <1>7 DEF Put, Goto, MovedBefore, issuer, Given
<1>8. ASSUME NEW p \in Program, TakeOut(p) PROVE GivenOut'
  <2>1. /\ profile'.login \in {profile.login, NoLogin}
        /\ UNCHANGED <<inside, native, live, minted, db>>
    BY <1>8, LoginTaken DEF TakeOut, issuer
  <2> QED BY <2>1 DEF Given
<1>9. ASSUME NEW p \in Program, Poll(p) PROVE GivenOut'
  BY <1>9 DEF Poll, Goto, ReadsHome, NoProfile, issuer, Given
<1>10. ASSUME NEW p \in Program, HomeRead(p) PROVE GivenOut'
  <2>1. CASE UNCHANGED <<inside, issuer>>
    BY <1>10, <2>1 DEF HomeRead, Goto, HeldTwice, issuer, Given
  <2>2. CASE Minted({inside[at[p]]}) /\ inside' = [inside EXCEPT ![at[p]] = minted + 1]
    BY <1>10, <2>2, Mint DEF HomeRead, Goto, HeldTwice, issuer
  <2> QED BY <1>10, <2>1, <2>2 DEF HomeRead, Goto, HeldTwice, issuer
<1>11. ASSUME NEW p \in Program, Stop(p) PROVE GivenOut'
  BY <1>11 DEF Stop, Goto, NoProfile, issuer, Given
<1>12. ASSUME CheckOut PROVE GivenOut'
  <2>1. UNCHANGED <<inside, native, live, minted, db>>
    BY <1>12 DEF CheckOut, issuer
  <2>2. \/ profile' = profile
        \/ profile.home # NoHome /\ profile'.login \in {profile.login, inside[profile.home]}
    BY <1>12 DEF CheckOut, CheckedOut, Profile
  <2> QED BY <2>1, <2>2, Typed DEF Given
<1>13. ASSUME EmptyHome PROVE GivenOut'
  BY <1>13 DEF EmptyHome, settling, issuer, Given
<1>14. ASSUME Activate PROVE GivenOut'
  BY <1>14 DEF Activate, settling, issuer, Profile, Given
<1>15. ASSUME FailUse PROVE GivenOut'
  BY <1>15 DEF FailUse, settling, issuer, Given
<1>16. ASSUME SwitchAway PROVE GivenOut'
  BY <1>16 DEF SwitchAway, Captured, Bump, issuer, Profile, Given
<1>17. ASSUME SignOut PROVE GivenOut'
  BY <1>17 DEF SignOut, Bump, Profile, Given
<1>18. ASSUME Remember PROVE GivenOut'
  BY <1>18 DEF Remember, Captured, Overtakes, settling, issuer, Profile, Given
<1>19. ASSUME SaveCurrent PROVE GivenOut'
  BY <1>19 DEF SaveCurrent, Captured, Overtakes, Bump, issuer, Profile, Given
<1>20. ASSUME SignedIn PROVE GivenOut'
  <2>1. Minted({})
    BY <1>20 DEF SignedIn
  <2> QED BY <1>20, <2>1, Mint DEF SignedIn, Bump, Profile
<1>21. ASSUME Forget PROVE GivenOut'
  BY <1>21 DEF Forget, Bump, NoProfile, issuer, Profile, Given
<1>22. ASSUME Retire PROVE GivenOut'
  <2>1. /\ UNCHANGED <<profile, native, live, minted, db>>
        /\ \A h \in HomeId : inside'[h] \in {inside[h], Absent}
    BY <1>22 DEF Retire, settling, issuer
  <2> QED BY <2>1 DEF Given
<1>23. ASSUME OldVersion PROVE GivenOut'
  BY <1>23 DEF OldVersion, settling, issuer, Profile, Given
<1>24. ASSUME UserSignsIn PROVE GivenOut'
  <2>1. Minted({})
    BY <1>24 DEF UserSignsIn
  <2> QED BY <1>24, <2>1, Mint DEF UserSignsIn, settling
<1>25. ASSUME UserLeaves PROVE GivenOut'
  BY <1>25 DEF UserLeaves, settling, issuer, Given
<1>26. ASSUME ClientRenewsNative PROVE GivenOut'
  <2>1. Minted({native})
    BY <1>26 DEF ClientRenewsNative
  <2> QED BY <1>26, <2>1, Mint DEF ClientRenewsNative, settling
<1> QED BY <1>1, <1>2, <1>3, <1>4, <1>5, <1>6, <1>7, <1>8, <1>9, <1>10, <1>11, <1>12, <1>13,
   <1>14, <1>15, <1>16, <1>17, <1>18, <1>19, <1>20, <1>21, <1>22, <1>23, <1>24, <1>25, <1>26
DEF HomesNext

-----------------------------------------------------------------------------
(* Each action, unless one of the races happens in it, keeps the logins     *)
(* apart: one lemma per action.                                             *)
LEMMA ReadNativeSound ==
  ASSUME HomesTypeOK, GivenOut, Sound, ~overtaken', NEW p \in Program, ReadNative(p)
  PROVE  Sound'
<1> USE Apart DEF HomesTypeOK, Sound
<1>1. StepsFit'
  BY DEF StepsFit, Reading, Moves, ReadNative, Goto, issuer
<1>2. OnlyDropped' /\ KeptApart'
  BY DEF OnlyDropped, KeptApart, OneCopy, Elsewhere, ReadNative, Goto, issuer
<1>3. MovedApart'
  BY DEF MovedApart, Elsewhere, Settling, ReadNative, Goto, issuer
<1> QED BY <1>1, <1>2, <1>3

LEMMA ListSound ==
  ASSUME HomesTypeOK, GivenOut, Sound, ~overtaken', NEW p \in Program, List(p) PROVE Sound'
  BY HomesAssumption, Empty, Apart
  DEF Sound, HomesTypeOK, StepsFit, Reading, Moves, List, Goto, issuer, OnlyDropped, NeedsBack,
      NeedsLogin, MovedApart, Elsewhere, Settling, KeptApart, OneCopy

LEMMA LoadSound ==
  ASSUME HomesTypeOK, GivenOut, Sound, ~overtaken', NEW p \in Program, Load(p) PROVE Sound'
<1> USE HomesAssumption, Empty DEF HomesTypeOK, Sound
<1>1. StepsFit'
  BY DEF StepsFit, Reading, Moves, Load, Goto, issuer
<1>2. OnlyDropped'
  BY DEF StepsFit, OnlyDropped, NeedsBack, NeedsLogin, Reading, Load, Goto, issuer
<1>3. MovedApart'
  BY DEF MovedApart, Elsewhere, Settling, StepsFit, Reading, Moves, Load, Goto, issuer
<1>4. KeptApart'
  BY DEF KeptApart, OneCopy, Elsewhere, NeedsBack, NeedsLogin, Settling, StepsFit, MovedApart,
         OnlyDropped, Reading, Moves, Load, Goto, issuer
<1> QED BY <1>1, <1>2, <1>3, <1>4

LEMMA UnnamedSound ==
  ASSUME HomesTypeOK, GivenOut, Sound, ~overtaken', NEW p \in Program, Unnamed(p) PROVE Sound'
<1> USE Apart DEF HomesTypeOK, Sound
<1>1. CASE found[p] = {}
  <2>1. Goto(p, "check in") /\ UNCHANGED <<inside, found, at>>
    BY <1>1 DEF Unnamed
  <2>2. StepsFit'
    BY <1>1, <2>1 DEF StepsFit, Reading, Moves, Unnamed, Goto, issuer
  <2>3. OnlyDropped'
    BY <2>1 DEF OnlyDropped, Unnamed, Goto, issuer
  <2>4. MovedApart'
    BY <2>1 DEF MovedApart, Elsewhere, Settling, Unnamed, Goto, issuer
  <2>5. KeptApart'
    BY <2>1 DEF KeptApart, OneCopy, Elsewhere, Unnamed, Goto, issuer
  <2> QED BY <2>2, <2>3, <2>4, <2>5
<1>2. ASSUME NEW h \in found[p], found' = [found EXCEPT ![p] = @ \ {h}],
             UNCHANGED <<pc, inside, at>>
      PROVE  Sound'
  <2>1. StepsFit'
    BY <1>2 DEF StepsFit, Reading, Moves, Unnamed, issuer
  <2>2. OnlyDropped' /\ MovedApart' /\ KeptApart'
    BY <1>2 DEF OnlyDropped, MovedApart, KeptApart, OneCopy, Elsewhere, Unnamed, issuer
  <2> QED BY <2>1, <2>2
<1>3. ASSUME NEW h \in found[p], found' = [found EXCEPT ![p] = @ \ {h}], inside[h] # Absent,
             TakesBack(p, h), Goto(p, "take back"), at' = [at EXCEPT ![p] = h], UNCHANGED inside
      PROVE  Sound'
  <2>0. h \in HomeId /\ NeedsBack(db[p])
    BY <1>3 DEF TakesBack, NeedsBack
  <2>1. StepsFit'
    BY <1>3, <2>0 DEF StepsFit, Reading, Moves, Unnamed, Goto, issuer
  <2>2. OnlyDropped'
    BY <1>3, <2>0 DEF OnlyDropped, Unnamed, Goto, issuer
  <2>3. MovedApart'
    BY <1>3 DEF MovedApart, Elsewhere, Settling, Unnamed, Goto, issuer
  <2>4. KeptApart'
    BY <1>3 DEF KeptApart, OneCopy, Elsewhere, Unnamed, Goto, issuer
  <2> QED BY <2>1, <2>2, <2>3, <2>4
<1>4. ASSUME NEW h \in found[p], found' = [found EXCEPT ![p] = @ \ {h}],
             inside' = [inside EXCEPT ![h] = Absent], UNCHANGED <<pc, at>>
      PROVE  Sound'
  <2>0. h \in HomeId /\ \A k \in HomeId : inside'[k] \in {inside[k], Absent}
    BY <1>4
  <2>1. StepsFit'
    BY <1>4 DEF StepsFit, Reading, Moves, Unnamed, issuer
  <2>2. OnlyDropped'
    BY <1>4, <2>0 DEF OnlyDropped, Unnamed, issuer
  <2>3. MovedApart'
    BY <1>4 DEF MovedApart, Elsewhere, Unnamed, issuer
  <2>4. KeptApart'
    <3>1. UNCHANGED <<profile, native, dropped, pc, at, overtaken>>
      BY <1>4 DEF Unnamed
    <3>2. \A k \in HomeId : Elsewhere(inside[k]) => Elsewhere(inside[k])'
      BY <2>0, <3>1 DEF Elsewhere
    <3>3. NeedsBack(profile') => Elsewhere(inside[dropped])'
      BY <3>1, <3>2 DEF KeptApart, OnlyDropped
    <3>4. ASSUME NEW q \in Program, pc'[q] \in {"clear", "read"} PROVE Elsewhere(inside[at[q]])'
      BY <3>1, <3>2, <3>4 DEF KeptApart, StepsFit, Elsewhere
    <3>5. OneCopy'
      BY <3>1, <3>2 DEF KeptApart, OneCopy, Elsewhere, Profile
    <3> QED BY <3>3, <3>4, <3>5 DEF KeptApart
  <2> QED BY <2>1, <2>2, <2>3, <2>4
<1> QED BY <1>1, <1>2, <1>3, <1>4 DEF Unnamed

LEMMA TakeBackSound ==
  ASSUME HomesTypeOK, GivenOut, Sound, ~overtaken', NEW p \in Program, TakeBack(p) PROVE Sound'
<1> USE HomesAssumption, Empty DEF HomesTypeOK, Sound
<1>1. StepsFit'
  BY DEF StepsFit, Reading, Moves, TakeBack, Goto, NeedsLogin, issuer, Profile
<1>2. OnlyDropped'
  BY DEF StepsFit, OnlyDropped, NeedsBack, NeedsLogin, Reading, TakeBack, Goto, issuer, Profile
<1>3. MovedApart'
  <2>1. /\ profile'.login = profile.login /\ UNCHANGED <<native, seen, db>>
        /\ \A q \in Program : pc'[q] \in Settling \cup {"list", "load"} =>
             pc[q] = pc'[q] \/ (q = p /\ pc'[q] = "unnamed")
    BY DEF TakeBack, Goto, Settling, Profile
  <2>2. pc[p] = "take back"
    BY DEF TakeBack
  <2> QED BY <2>1, <2>2 DEF MovedApart, Elsewhere, Settling
<1>4. KeptApart'
  BY DEF KeptApart, OneCopy, Elsewhere, NeedsBack, NeedsLogin, Settling, StepsFit, MovedApart,
         OnlyDropped, Reading, Moves, TakeBack, Goto, issuer, Profile
<1> QED BY <1>1, <1>2, <1>3, <1>4

LEMMA CheckInSound ==
  ASSUME HomesTypeOK, GivenOut, Sound, ~overtaken', NEW p \in Program, CheckIn(p) PROVE Sound'
<1> USE Apart DEF HomesTypeOK, Sound
<1>1. ASSUME Goto(p, "poll"), UNCHANGED <<profile, at>>
      PROVE  Sound'
  <2>1. StepsFit'
    BY <1>1 DEF StepsFit, Reading, Moves, CheckIn, Goto, issuer
  <2>2. OnlyDropped' /\ KeptApart'
    BY <1>1 DEF OnlyDropped, KeptApart, OneCopy, Elsewhere, CheckIn, Goto, issuer
  <2>3. MovedApart'
    BY <1>1 DEF MovedApart, Elsewhere, Settling, CheckIn, Goto, issuer
  <2> QED BY <2>1, <2>2, <2>3
<1>2. ASSUME Moves(p), db[p].home # NoHome, Goto(p, "put"), at' = [at EXCEPT ![p] = db[p].home],
             UNCHANGED profile
      PROVE  Sound'
  <2>0. db[p].home \in HomeId
    BY <1>2 DEF Profile
  <2>1. StepsFit'
    BY <1>2, <2>0 DEF StepsFit, Reading, Moves, CheckIn, Goto, issuer
  <2>2. OnlyDropped' /\ KeptApart'
    BY <1>2 DEF OnlyDropped, KeptApart, OneCopy, Elsewhere, CheckIn, Goto, issuer
  <2>3. MovedApart'
    BY <1>2 DEF MovedApart, Elsewhere, Settling, CheckIn, Goto, issuer
  <2> QED BY <2>1, <2>2, <2>3
<1>3. ASSUME Moves(p), Holds(p), NEW h \in HomeId, profile' = [profile EXCEPT !.home = h],
             Goto(p, "put"), at' = [at EXCEPT ![p] = h]
      PROVE  Sound'
  <2>0. /\ profile.login # NoLogin /\ profile'.login = profile.login
        /\ profile'.saved = profile.saved /\ change = "none"
        /\ ~NeedsBack(profile) /\ ~NeedsBack(profile')
    BY <1>3 DEF StepsFit, Reading, Moves, Holds, NeedsBack, NeedsLogin, Profile, CheckIn
  <2>1. StepsFit'
    BY <1>3, <2>0 DEF StepsFit, Reading, Moves, CheckIn, Goto, issuer
  <2>2. OnlyDropped' /\ KeptApart'
    BY <1>3, <2>0 DEF OnlyDropped, KeptApart, OneCopy, Elsewhere, CheckIn, Goto, issuer
  <2>3. MovedApart'
    BY <1>3, <2>0 DEF MovedApart, Elsewhere, Settling, CheckIn, Goto, issuer
  <2> QED BY <2>1, <2>2, <2>3
<1>4. profile.home # NoHome => profile.home \in HomeId
  BY Typed
<1> QED BY <1>1, <1>2, <1>3, <1>4 DEF CheckIn, Unused

LEMMA PutSound ==
  ASSUME HomesTypeOK, GivenOut, Sound, ~overtaken', NEW p \in Program, Put(p) PROVE Sound'
<1> USE Apart DEF HomesTypeOK, Sound
<1>1. /\ pc[p] = "put" /\ at[p] \in HomeId /\ Moves(p) /\ ~overtaken
      /\ UNCHANGED <<profile, native, change, seen, found, db, current, at, dropped>>
  BY DEF Put, StepsFit
<1>2. pc' = [pc EXCEPT ![p] = "clear"] \/ pc' = [pc EXCEPT ![p] = "poll"]
  BY DEF Put, Goto
<1>3. \/ inside' = inside
      \/ /\ inside' = [inside EXCEPT ![at[p]] = db[p].login]
         /\ ~(profile.saved /\ profile.login = NoLogin)
  BY DEF Put, MovedBefore
<1>4. \A h \in HomeId : Elsewhere(inside[h]) => Elsewhere(inside'[h])
  BY <1>1, <1>3 DEF MovedApart, Moves, Settling, Elsewhere
<1>5. StepsFit'
  <2>1. change' = "none"
    BY <1>1 DEF StepsFit, Reading
  <2>2. \A q \in Program : pc'[q] = pc[q] \/ (q = p /\ pc'[q] \in {"clear", "poll"})
    BY <1>2
  <2> QED BY <1>1, <2>1, <2>2 DEF StepsFit, Moves
<1>6. OnlyDropped'
  <2>1. NeedsBack(profile) => inside' = inside
    BY <1>3 DEF NeedsBack, NeedsLogin
  <2> QED BY <1>1, <1>2, <2>1 DEF OnlyDropped
<1>7. MovedApart'
  BY <1>1, <1>2 DEF MovedApart, Elsewhere, Settling
<1>8. KeptApart'
  <2>1. NeedsBack(profile') => Elsewhere(inside[dropped])'
    BY <1>1, <1>4 DEF KeptApart, OnlyDropped, Elsewhere
  <2>2. ASSUME NEW q \in Program, pc'[q] \in {"clear", "read"} PROVE Elsewhere(inside[at[q]])'
    <3>1. CASE q = p
      <4>1. inside'[at[p]] = db[p].login
        BY <2>2, <3>1, <1>1 DEF Put, Goto
      <4> QED BY <1>1, <3>1, <4>1 DEF MovedApart, Moves, Settling, Elsewhere
    <3>2. CASE q # p
      BY <1>1, <1>2, <1>4, <2>2, <3>2 DEF KeptApart, StepsFit, Elsewhere
    <3> QED BY <3>1, <3>2
  <2>3. OneCopy'
    BY <1>1, <1>4, Typed DEF KeptApart, OneCopy, Elsewhere
  <2> QED BY <2>1, <2>2, <2>3 DEF KeptApart
<1> QED BY <1>5, <1>6, <1>7, <1>8

LEMMA TakeOutSound ==
  ASSUME HomesTypeOK, GivenOut, Sound, ~overtaken', NEW p \in Program, TakeOut(p) PROVE Sound'
<1> USE Apart DEF HomesTypeOK, Sound
<1>1. CASE UNCHANGED profile
  <2>1. StepsFit'
    BY <1>1 DEF StepsFit, Reading, Moves, TakeOut, Goto, issuer
  <2>2. OnlyDropped' /\ KeptApart'
    BY <1>1 DEF OnlyDropped, KeptApart, OneCopy, Elsewhere, TakeOut, Goto, issuer
  <2>3. MovedApart'
    BY <1>1 DEF MovedApart, Elsewhere, Settling, TakeOut, Goto, issuer
  <2> QED BY <2>1, <2>2, <2>3
<1>2. CASE profile.home = at[p] /\ profile' = [profile EXCEPT !.login = NoLogin]
  <2>0. /\ at[p] \in HomeId /\ profile'.home = at[p] /\ profile'.login = NoLogin
        /\ profile'.saved = profile.saved /\ ~NeedsBack(profile')
        /\ change = "none" /\ Elsewhere(inside[at[p]])
    <3>1. pc[p] = "clear"
      BY DEF TakeOut
    <3>2. at[p] \in HomeId /\ change = "none" /\ Elsewhere(inside[at[p]])
      BY <3>1 DEF StepsFit, Reading, KeptApart
    <3>3. profile'.home = at[p] /\ profile'.login = NoLogin /\ profile'.saved = profile.saved
      BY <1>2 DEF Profile
    <3> QED BY <3>2, <3>3, HomesAssumption DEF NeedsBack, NeedsLogin
  <2>1. StepsFit'
    BY <2>0 DEF StepsFit, Reading, Moves, TakeOut, Goto, issuer
  <2>2. OnlyDropped'
    BY <2>0 DEF OnlyDropped, TakeOut, Goto, issuer
  <2>3. MovedApart'
    BY <2>0 DEF MovedApart, Elsewhere, Settling, TakeOut, Goto, issuer
  <2>4. KeptApart'
    BY <2>0 DEF KeptApart, OneCopy, Elsewhere, TakeOut, Goto, issuer
  <2> QED BY <2>1, <2>2, <2>3, <2>4
<1> QED BY <1>1, <1>2 DEF TakeOut

LEMMA PollSound ==
  ASSUME HomesTypeOK, GivenOut, Sound, ~overtaken', NEW p \in Program, Poll(p) PROVE Sound'
<1> USE Apart DEF HomesTypeOK, Sound
<1>1. PICK s \in {"read", "idle"}, h \in HomeId \cup {NoHome} :
        /\ pc' = [pc EXCEPT ![p] = s] /\ at' = [at EXCEPT ![p] = h]
        /\ (s = "read" => ReadsHome(p) /\ h = profile.home)
  BY Typed DEF Poll, Goto, ReadsHome
<1>2. s = "read" => h \in HomeId /\ Elsewhere(inside[h])
  BY <1>1, Typed DEF KeptApart, OneCopy, Elsewhere, ReadsHome, Poll
<1>3. ~NeedsBack(NoProfile)
  BY DEF NeedsBack, NoProfile
<1>4. StepsFit'
  BY <1>1, <1>2 DEF StepsFit, Reading, Moves, Poll, issuer
<1>5. OnlyDropped'
  BY <1>1, <1>3 DEF OnlyDropped, Poll, issuer
<1>6. MovedApart'
  BY <1>1 DEF MovedApart, Elsewhere, Settling, Poll, issuer
<1>7. KeptApart'
  BY <1>1, <1>2 DEF KeptApart, OneCopy, Elsewhere, Poll, issuer
<1> QED BY <1>4, <1>5, <1>6, <1>7

LEMMA HomeReadSound ==
  ASSUME HomesTypeOK, GivenOut, Sound, ~overtaken', NEW p \in Program, HomeRead(p) PROVE Sound'
<1> USE Apart DEF HomesTypeOK, Sound
<1>0. at[p] \in HomeId /\ pc[p] = "read"
  BY DEF StepsFit, HomeRead
<1>1. CASE UNCHANGED <<inside, issuer>>
  <2>1. StepsFit'
    BY <1>1 DEF StepsFit, Reading, Moves, HomeRead, Goto, issuer
  <2>2. OnlyDropped' /\ KeptApart'
    BY <1>1 DEF OnlyDropped, KeptApart, OneCopy, Elsewhere, HomeRead, Goto, issuer
  <2>3. MovedApart'
    BY <1>1 DEF MovedApart, Elsewhere, Settling, HomeRead, Goto, issuer
  <2> QED BY <2>1, <2>2, <2>3
<1>2. CASE /\ inside[at[p]] \in live /\ Minted({inside[at[p]]})
           /\ inside' = [inside EXCEPT ![at[p]] = minted + 1]
  <2>1. minted + 1 # native /\ inside[at[p]] # Absent
    BY <1>2, Mint DEF GivenOut, Old
  <2>2. \A h \in HomeId : /\ Elsewhere(inside[h]) => Elsewhere(inside'[h])
                          /\ inside[h] = Absent => inside'[h] = Absent
    BY <1>0, <1>2, <2>1 DEF Elsewhere
  <2>3. StepsFit'
    BY <1>0 DEF StepsFit, Reading, Moves, HomeRead, Goto
  <2>4. OnlyDropped'
    BY <1>0, <2>2 DEF OnlyDropped, HomeRead, Goto
  <2>5. MovedApart'
    BY DEF MovedApart, Elsewhere, Settling, HomeRead, Goto
  <2>6. KeptApart'
    <3>1. /\ UNCHANGED <<profile, native, dropped, overtaken>>
          /\ at' = [at EXCEPT ![p] = NoHome] /\ pc' = [pc EXCEPT ![p] = "idle"]
      BY DEF HomeRead, Goto
    <3>2. NeedsBack(profile') => Elsewhere(inside[dropped])'
      BY <2>2, <3>1 DEF KeptApart, OnlyDropped, Elsewhere
    <3>3. ASSUME NEW q \in Program, pc'[q] \in {"clear", "read"} PROVE Elsewhere(inside[at[q]])'
      BY <2>2, <3>1, <3>3 DEF KeptApart, StepsFit, Elsewhere
    <3>4. OneCopy'
      <4>1. profile.home # NoHome => profile.home \in HomeId
        BY Typed
      <4> QED BY <2>2, <3>1, <4>1 DEF KeptApart, OneCopy, Elsewhere
    <3> QED BY <3>2, <3>3, <3>4 DEF KeptApart
  <2> QED BY <2>3, <2>4, <2>5, <2>6
<1> QED BY <1>1, <1>2 DEF HomeRead

LEMMA StopSound ==
  ASSUME HomesTypeOK, GivenOut, Sound, ~overtaken', NEW p \in Program, Stop(p) PROVE Sound'
  BY HomesAssumption, Empty, Apart
  DEF Sound, HomesTypeOK, StepsFit, Reading, Moves, Stop, Goto, NoProfile, issuer, OnlyDropped,
      NeedsBack, NeedsLogin, MovedApart, Elsewhere, Settling, KeptApart, OneCopy

LEMMA CheckOutSound ==
  ASSUME HomesTypeOK, GivenOut, Sound, ~overtaken', CheckOut PROVE Sound'
<1> USE Apart DEF HomesTypeOK, Sound
<1>0. /\ ~Reading /\ native = NoLogin
      /\ UNCHANGED <<inside, native, pc, seen, found, db, at, dropped>>
  BY DEF CheckOut
<1>1. /\ profile'.saved /\ profile'.login # NoLogin /\ ~NeedsBack(profile')
      /\ (change' = "checked out" => profile'.home # NoHome)
  <2>1. CASE UNCHANGED profile /\ profile.login # NoLogin /\ change' = "emptied"
    BY <2>1 DEF CheckOut, NeedsBack, NeedsLogin
  <2>2. CASE /\ profile.home # NoHome /\ profile' = CheckedOut(profile)
             /\ inside[profile.home] \in Logins
    <3>1. /\ profile'.saved = profile.saved /\ profile'.home = profile.home
          /\ profile'.login # NoLogin
      BY <2>2 DEF CheckedOut, Profile
    <3> QED BY <2>2, <3>1 DEF CheckOut, NeedsBack, NeedsLogin
  <2> QED BY <2>1, <2>2 DEF CheckOut
<1>2. StepsFit'
  <2>1. \A q \in Program : pc[q] = "idle" /\ ~current'[q]
    BY <1>0 DEF Reading, CheckOut, Bump
  <2> QED BY <1>0, <1>1, <2>1 DEF StepsFit, Reading, Moves
<1>3. OnlyDropped'
  BY <1>0, <1>1 DEF OnlyDropped
<1>4. MovedApart'
  BY <1>0 DEF MovedApart, Elsewhere
<1>5. KeptApart'
  BY <1>0, <1>1 DEF KeptApart, OneCopy, Elsewhere
<1> QED BY <1>2, <1>3, <1>4, <1>5

LEMMA EmptyHomeSound ==
  ASSUME HomesTypeOK, GivenOut, Sound, ~overtaken', EmptyHome PROVE Sound'
  BY HomesAssumption, Empty, Apart
  DEF Sound, HomesTypeOK, StepsFit, Reading, Moves, EmptyHome, settling, issuer, OnlyDropped,
      NeedsBack, NeedsLogin, MovedApart, Elsewhere, Settling, KeptApart, OneCopy

LEMMA ActivateSound ==
  ASSUME HomesTypeOK, GivenOut, Sound, ~overtaken', Activate PROVE Sound'
  BY HomesAssumption, Empty, Apart
  DEF Sound, HomesTypeOK, StepsFit, Reading, Moves, Activate, settling, issuer, Profile,
      OnlyDropped, NeedsBack, NeedsLogin, MovedApart, Elsewhere, Settling, KeptApart, OneCopy

LEMMA FailUseSound ==
  ASSUME HomesTypeOK, GivenOut, Sound, ~overtaken', FailUse PROVE Sound'
  BY HomesAssumption, Empty, Apart
  DEF Sound, HomesTypeOK, StepsFit, Reading, Moves, FailUse, settling, issuer, OnlyDropped,
      NeedsBack, NeedsLogin, MovedApart, Elsewhere, Settling, KeptApart, OneCopy

LEMMA SwitchAwaySound ==
  ASSUME HomesTypeOK, GivenOut, Sound, ~overtaken', SwitchAway PROVE Sound'
  BY HomesAssumption, Empty, Apart
  DEF Sound, HomesTypeOK, StepsFit, Reading, Moves, SwitchAway, Captured, Bump, issuer, Profile,
      OnlyDropped, NeedsBack, NeedsLogin, MovedApart, Elsewhere, Settling, KeptApart, OneCopy

LEMMA SignOutSound ==
  ASSUME HomesTypeOK, GivenOut, Sound, ~overtaken', SignOut PROVE Sound'
  BY HomesAssumption, Empty, Apart
  DEF Sound, HomesTypeOK, StepsFit, Reading, Moves, SignOut, Bump, Profile, OnlyDropped,
      NeedsBack, NeedsLogin, MovedApart, Elsewhere, Settling, KeptApart, OneCopy

LEMMA RememberSound ==
  ASSUME HomesTypeOK, GivenOut, Sound, ~overtaken', Remember PROVE Sound'
  BY HomesAssumption, Empty, Apart
  DEF Sound, HomesTypeOK, StepsFit, Reading, Moves, Remember, Captured, Overtakes, settling,
      issuer, Profile, OnlyDropped, NeedsBack, NeedsLogin, MovedApart, Elsewhere, Settling,
      KeptApart, OneCopy

LEMMA SaveCurrentSound ==
  ASSUME HomesTypeOK, GivenOut, Sound, ~overtaken', SaveCurrent PROVE Sound'
  BY HomesAssumption, Empty, Apart
  DEF Sound, HomesTypeOK, StepsFit, Reading, Moves, SaveCurrent, Captured, Overtakes, Bump,
      issuer, Profile, OnlyDropped, NeedsBack, NeedsLogin, MovedApart, Elsewhere, Settling,
      KeptApart, OneCopy

LEMMA SignedInSound ==
  ASSUME HomesTypeOK, GivenOut, Sound, ~overtaken', SignedIn PROVE Sound'
<1> USE HomesAssumption, Empty DEF HomesTypeOK, Sound
<1>0. Minted({})
  BY DEF SignedIn
<1>1. StepsFit'
  BY <1>0, Mint DEF StepsFit, Reading, Moves, GivenOut, Old, SignedIn, Bump, Profile
<1>2. OnlyDropped'
  BY <1>0, Mint
  DEF StepsFit, OnlyDropped, NeedsBack, NeedsLogin, Reading, GivenOut, Old, SignedIn, Bump,
      Profile
<1>3. MovedApart'
  BY <1>0, Mint
  DEF MovedApart, Elsewhere, Settling, StepsFit, Reading, Moves, GivenOut, Old, SignedIn, Bump,
      Profile
<1>4. KeptApart'
  BY <1>0, Mint
  DEF KeptApart, OneCopy, Elsewhere, NeedsBack, NeedsLogin, Settling, StepsFit, MovedApart,
      OnlyDropped, Reading, Moves, GivenOut, Old, SignedIn, Bump, Profile
<1> QED BY <1>1, <1>2, <1>3, <1>4

LEMMA ForgetSound ==
  ASSUME HomesTypeOK, GivenOut, Sound, ~overtaken', Forget PROVE Sound'
  BY HomesAssumption, Empty, Apart
  DEF Sound, HomesTypeOK, StepsFit, Reading, Moves, Forget, Bump, NoProfile, issuer, Profile,
      OnlyDropped, NeedsBack, NeedsLogin, MovedApart, Elsewhere, Settling, KeptApart, OneCopy

LEMMA RetireSound ==
  ASSUME HomesTypeOK, GivenOut, Sound, ~overtaken', Retire PROVE Sound'
<1> USE Apart DEF HomesTypeOK, Sound
<1>0. \A h \in HomeId : inside'[h] \in {inside[h], Absent}
  BY DEF Retire
<1>1. StepsFit'
  BY DEF StepsFit, Reading, Moves, Retire, settling, issuer
<1>2. OnlyDropped'
  BY <1>0 DEF OnlyDropped, Retire, settling, issuer
<1>3. MovedApart'
  BY DEF MovedApart, Elsewhere, Retire, settling, issuer
<1>4. KeptApart'
  <2>1. UNCHANGED <<profile, native, dropped, pc, at, overtaken>>
    BY DEF Retire, settling
  <2>2. \A h \in HomeId : Elsewhere(inside[h]) => Elsewhere(inside[h])'
    BY <1>0, <2>1 DEF Elsewhere
  <2>3. NeedsBack(profile') => Elsewhere(inside[dropped])'
    BY <2>1, <2>2 DEF KeptApart, OnlyDropped
  <2>4. ASSUME NEW q \in Program, pc'[q] \in {"clear", "read"} PROVE Elsewhere(inside[at[q]])'
    BY <2>1, <2>2, <2>4 DEF KeptApart, StepsFit, Elsewhere
  <2>5. OneCopy'
    BY <2>1, <2>2 DEF KeptApart, OneCopy, Elsewhere, Profile
  <2> QED BY <2>3, <2>4, <2>5 DEF KeptApart
<1> QED BY <1>1, <1>2, <1>3, <1>4

LEMMA OldVersionSound ==
  ASSUME HomesTypeOK, GivenOut, Sound, ~overtaken', OldVersion PROVE Sound'
  BY HomesAssumption, Empty, Apart
  DEF Sound, HomesTypeOK, StepsFit, Reading, Moves, OldVersion, settling, issuer, Profile,
      OnlyDropped, NeedsBack, NeedsLogin, MovedApart, Elsewhere, Settling, KeptApart, OneCopy

LEMMA UserSignsInSound ==
  ASSUME HomesTypeOK, GivenOut, Sound, ~overtaken', UserSignsIn PROVE Sound'
<1> USE Apart DEF HomesTypeOK, Sound
<1>0. UNCHANGED <<profile, inside, change, settling, dropped, overtaken>>
  BY DEF UserSignsIn
<1>1. native' = minted + 1 /\ \A x : Old(x) => x # native'
  BY Mint DEF UserSignsIn, Old
<1>2. StepsFit' /\ OnlyDropped'
  BY <1>0 DEF StepsFit, Reading, Moves, OnlyDropped, settling
<1>3. MovedApart'
  BY <1>0, <1>1 DEF MovedApart, GivenOut, Elsewhere, settling
<1>4. KeptApart'
  <2>1. NeedsBack(profile') => Elsewhere(inside[dropped])'
    BY <1>0, <1>1 DEF OnlyDropped, GivenOut, Elsewhere
  <2>2. ASSUME NEW q \in Program, pc'[q] \in {"clear", "read"} PROVE Elsewhere(inside[at[q]])'
    BY <1>0, <1>1, <2>2 DEF StepsFit, GivenOut, Elsewhere, settling
  <2>3. OneCopy'
    BY <1>0, <1>1 DEF OneCopy, GivenOut, Profile
  <2> QED BY <2>1, <2>2, <2>3 DEF KeptApart
<1> QED BY <1>2, <1>3, <1>4

LEMMA UserLeavesSound ==
  ASSUME HomesTypeOK, GivenOut, Sound, ~overtaken', UserLeaves PROVE Sound'
  BY HomesAssumption, Empty, Apart
  DEF Sound, HomesTypeOK, StepsFit, Reading, Moves, UserLeaves, settling, issuer, OnlyDropped,
      NeedsBack, NeedsLogin, MovedApart, Elsewhere, Settling, KeptApart, OneCopy

LEMMA ClientRenewsNativeSound ==
  ASSUME HomesTypeOK, GivenOut, Sound, ~overtaken', ClientRenewsNative PROVE Sound'
<1> USE Apart DEF HomesTypeOK, Sound
<1>0. UNCHANGED <<profile, inside, change, settling, dropped, overtaken>>
  BY DEF ClientRenewsNative
<1>1. native' = minted + 1 /\ \A x : Old(x) => x # native'
  BY Mint DEF ClientRenewsNative, Old
<1>2. StepsFit' /\ OnlyDropped'
  BY <1>0 DEF StepsFit, Reading, Moves, OnlyDropped, settling
<1>3. MovedApart'
  BY <1>0, <1>1 DEF MovedApart, GivenOut, Elsewhere, settling
<1>4. KeptApart'
  <2>1. NeedsBack(profile') => Elsewhere(inside[dropped])'
    BY <1>0, <1>1 DEF OnlyDropped, GivenOut, Elsewhere
  <2>2. ASSUME NEW q \in Program, pc'[q] \in {"clear", "read"} PROVE Elsewhere(inside[at[q]])'
    BY <1>0, <1>1, <2>2 DEF StepsFit, GivenOut, Elsewhere, settling
  <2>3. OneCopy'
    BY <1>0, <1>1 DEF OneCopy, GivenOut, Profile
  <2> QED BY <2>1, <2>2, <2>3 DEF KeptApart
<1> QED BY <1>2, <1>3, <1>4

-----------------------------------------------------------------------------
(* Each action, likewise, leaves alone the way back to the account's login: *)
(* the home that way leads to is torn down by nobody.                       *)
LEMMA ReadNativeLeads ==
  ASSUME HomesTypeOK, GivenOut, Sound, WayBack, ~overtaken', NEW p \in Program, ReadNative(p)
  PROVE WayBack'
<1> USE HomesAssumption, Empty, Apart DEF HomesTypeOK, Sound, WayBack
<1>1. Named'
  BY DEF Named, StepsFit, OnlyDropped, NeedsBack, NeedsLogin, Reading, ReadNative, Goto, issuer
<1>2. Retired'
  BY DEF Retired, NeedsBack, NeedsLogin, StepsFit, OnlyDropped, ReadNative, Goto, issuer
<1>3. ClearKeeps'
  BY DEF ClearKeeps, Holds, StepsFit, MovedApart, Moves, Elsewhere, Settling, Reading,
         ReadNative, Goto, issuer
<1>4. DeadNative'
  BY DEF DeadNative, Settling, StepsFit, Moves, Reading, KeptApart, Elsewhere, ReadNative, Goto,
         issuer
<1> QED BY <1>1, <1>2, <1>3, <1>4

LEMMA ListLeads ==
  ASSUME HomesTypeOK, GivenOut, Sound, WayBack, ~overtaken', NEW p \in Program, List(p)
  PROVE WayBack'
<1> USE HomesAssumption, Empty, Apart DEF HomesTypeOK, Sound, WayBack
<1>1. Named'
  BY DEF Named, StepsFit, OnlyDropped, NeedsBack, NeedsLogin, Reading, List, Goto, issuer
<1>2. Retired'
  BY DEF Retired, NeedsBack, NeedsLogin, StepsFit, OnlyDropped, List, Goto, issuer
<1>3. ClearKeeps'
  BY DEF ClearKeeps, Holds, StepsFit, MovedApart, Moves, Elsewhere, Settling, Reading, List,
         Goto, issuer
<1>4. DeadNative'
  BY DEF DeadNative, Settling, StepsFit, Moves, Reading, KeptApart, Elsewhere, List, Goto,
         issuer
<1> QED BY <1>1, <1>2, <1>3, <1>4

LEMMA LoadLeads ==
  ASSUME HomesTypeOK, GivenOut, Sound, WayBack, ~overtaken', NEW p \in Program, Load(p)
  PROVE WayBack'
<1> USE HomesAssumption, Empty, Apart DEF HomesTypeOK, Sound, WayBack
<1>1. Named'
  BY DEF Named, StepsFit, OnlyDropped, NeedsBack, NeedsLogin, Reading, Load, Goto, issuer
<1>2. Retired'
  BY DEF Retired, NeedsBack, NeedsLogin, StepsFit, OnlyDropped, Load, Goto, issuer
<1>3. ClearKeeps'
  BY DEF ClearKeeps, Holds, StepsFit, MovedApart, Moves, Elsewhere, Settling, Reading, Load,
         Goto, issuer
<1>4. DeadNative'
  BY DEF DeadNative, Settling, StepsFit, Moves, Reading, KeptApart, Elsewhere, Load, Goto,
         issuer
<1> QED BY <1>1, <1>2, <1>3, <1>4

LEMMA UnnamedLeads ==
  ASSUME HomesTypeOK, GivenOut, Sound, WayBack, ~overtaken', NEW p \in Program, Unnamed(p)
  PROVE WayBack'
<1> USE HomesAssumption, Empty, Apart DEF HomesTypeOK, Sound, WayBack
<1>1. Named'
  <2>1. \A q \in Program : found'[q] \subseteq found[q] /\ (pc'[q] # "load" => pc[q] # "load")
    <3>1. pc' = pc \/ pc' = [pc EXCEPT ![p] = "take back"] \/ pc' = [pc EXCEPT ![p] = "check in"]
      BY DEF Unnamed, Goto
    <3>2. found' = found \/ \E h \in found[p] : found' = [found EXCEPT ![p] = @ \ {h}]
      BY DEF Unnamed
    <3>3. pc[p] = "unnamed"
      BY DEF Unnamed
    <3>4. ASSUME NEW q \in Program PROVE found'[q] \subseteq found[q]
      <4>1. CASE found' = found
        BY <4>1
      <4>2. ASSUME NEW h \in found[p], found' = [found EXCEPT ![p] = @ \ {h}]
            PROVE  found'[q] \subseteq found[q]
        <5>1. found'[q] = found[q] \/ found'[q] = found[q] \ {h}
          BY <4>2
        <5> QED BY <5>1
      <4> QED BY <3>2, <4>1, <4>2
    <3>5. \A q \in Program : pc'[q] # "load" => pc[q] # "load"
      BY <3>1, <3>3
    <3> QED BY <3>4, <3>5
  <2> QED BY <2>1 DEF Named, Unnamed
<1>2. Retired'
  BY DEF Retired, NeedsBack, NeedsLogin, StepsFit, OnlyDropped, Unnamed, Goto, TakesBack, issuer
<1>3. ClearKeeps'
  <2>1. ASSUME NEW q \in Program, pc'[q] = "clear", Holds(q)', profile'.home = at'[q]
        PROVE  inside'[at'[q]] = db'[q].login \/ db'[q].login \notin live'
    <3>1. /\ pc[q] = "clear" /\ at'[q] = at[q] /\ Holds(q) /\ profile.home = at[q]
          /\ UNCHANGED <<profile, db, live, native, current>>
      BY <2>1 DEF Unnamed, Goto, Holds, issuer
    <3>2. /\ at[q] \in HomeId /\ db[q].login # NoLogin
          /\ inside[at[q]] = db[q].login \/ db[q].login \notin live
      BY <3>1 DEF StepsFit, Moves, ClearKeeps
    <3>3. CASE inside'[at[q]] = inside[at[q]]
      BY <3>1, <3>2, <3>3
    <3>4. CASE inside'[at[q]] # inside[at[q]]
      <4>1. at[q] \in found[p] /\ ~TakesBack(p, at[q]) /\ pc[p] = "unnamed"
        BY <3>2, <3>4 DEF Unnamed
      <4>2. NeedsBack(db[p])
        BY <3>1, <4>1 DEF Named
      <4>3. inside[at[q]] = NoLogin
        BY <4>1, <4>2 DEF TakesBack, NeedsBack
      <4> QED BY <3>1, <3>2, <4>3
    <3> QED BY <3>3, <3>4
  <2> QED BY <2>1 DEF ClearKeeps
<1>4. DeadNative'
  <2>1. /\ UNCHANGED <<native, live, seen>> /\ profile'.saved = profile.saved
        /\ profile'.login = profile.login /\ profile'.pending = profile.pending
    BY DEF Unnamed, issuer, Profile
  <2>2. \A q \in Program : pc'[q] \in Settling \cup {"list", "load"} =>
          pc[q] \in Settling \cup {"list", "load"}
    BY DEF Unnamed, Goto, Settling
  <2> QED BY <2>1, <2>2 DEF DeadNative
<1> QED BY <1>1, <1>2, <1>3, <1>4

LEMMA TakeBackLeads ==
  ASSUME HomesTypeOK, GivenOut, Sound, WayBack, ~overtaken', NEW p \in Program, TakeBack(p)
  PROVE WayBack'
<1> USE HomesAssumption, Empty, Apart DEF HomesTypeOK, Sound, WayBack
<1>1. Named'
  <2>1. /\ UNCHANGED <<found, db, dropped>> /\ pc[p] = "take back"
        /\ \A q \in Program : pc'[q] # "load" => pc[q] # "load"
    BY DEF TakeBack, Goto
  <2>2. CASE profile' = profile
    BY <2>1, <2>2 DEF Named
  <2>3. CASE NeedsBack(profile) /\ profile' = [profile EXCEPT !.home = at[p]]
    <3>1. at[p] = dropped /\ dropped # NoHome
      BY <2>1, <2>3 DEF OnlyDropped
    <3>2. profile'.home = dropped /\ ~NeedsBack(profile')
      BY <2>3, <3>1 DEF NeedsBack, NeedsLogin, Profile
    <3> QED BY <2>1, <2>3, <3>2 DEF Named
  <2> QED BY <2>2, <2>3 DEF TakeBack, NeedsBack
<1>2. Retired'
  BY DEF Retired, NeedsBack, NeedsLogin, StepsFit, OnlyDropped, TakeBack, Goto, issuer, Profile
<1>3. ClearKeeps'
  <2>1. ASSUME NEW q \in Program, pc'[q] = "clear", Holds(q)', profile'.home = at'[q]
        PROVE  profile' = profile /\ pc[q] = "clear"
    <3>1. pc[q] = "clear" /\ UNCHANGED <<db, at, current>>
      BY <2>1 DEF TakeBack, Goto
    <3>2. db[q].login # NoLogin /\ profile'.login = db[q].login
      BY <2>1, <3>1 DEF StepsFit, Moves, Holds
    <3>3. profile' = profile \/ profile'.login = NoLogin
      BY DEF TakeBack, NeedsLogin, Profile
    <3> QED BY <3>1, <3>2, <3>3
  <2> QED BY <2>1 DEF ClearKeeps, Holds, TakeBack, issuer
<1>4. DeadNative'
  <2>1. /\ UNCHANGED <<native, live, seen>> /\ profile'.saved = profile.saved
        /\ profile'.login = profile.login /\ profile'.pending = profile.pending
    BY DEF TakeBack, issuer, Profile
  <2>2. \A q \in Program : pc'[q] \in Settling \cup {"list", "load"} =>
          pc[q] \in Settling \cup {"list", "load"}
    BY DEF TakeBack, Goto, Settling
  <2> QED BY <2>1, <2>2 DEF DeadNative
<1> QED BY <1>1, <1>2, <1>3, <1>4

LEMMA CheckInLeads ==
  ASSUME HomesTypeOK, GivenOut, Sound, WayBack, ~overtaken', NEW p \in Program, CheckIn(p)
  PROVE WayBack'
<1> USE HomesAssumption, Empty, Apart DEF HomesTypeOK, Sound, WayBack
<1>01. /\ UNCHANGED <<inside, native, live, retiring, seen, found, db, current, dropped>>
      /\ pc[p] = "check in" /\ (pc' = [pc EXCEPT ![p] = "put"] \/ pc' = [pc EXCEPT ![p] = "poll"])
  BY DEF CheckIn, Goto, issuer
<1>02. \/ profile' = profile /\ at' \in {at, [at EXCEPT ![p] = db[p].home]}
      \/ /\ profile.login # NoLogin
         /\ \E h \in HomeId : /\ profile' = [profile EXCEPT !.home = h]
                              /\ at' = [at EXCEPT ![p] = h]
                              /\ profile.home = h \/ h \in Unused
  <2>1. CASE UNCHANGED profile /\ (at' = at \/ at' = [at EXCEPT ![p] = db[p].home])
    BY <2>1
  <2>2. CASE /\ Moves(p) /\ Holds(p)
             /\ \E h \in IF profile.home = NoHome THEN Unused ELSE {profile.home} :
                  profile' = [profile EXCEPT !.home = h] /\ at' = [at EXCEPT ![p] = h]
    <3>1. profile.login # NoLogin /\ Unused \subseteq HomeId
      BY <2>2 DEF Holds, Moves, Unused
    <3> QED BY <2>2, <3>1, Typed
  <2> QED BY <2>1, <2>2 DEF CheckIn
<1>1. Named'
  <2>1. CASE UNCHANGED profile
    BY <1>01, <2>1 DEF Named
  <2>2. ASSUME NEW h \in HomeId, profile.login # NoLogin, profile' = [profile EXCEPT !.home = h],
               profile.home = h \/ h \in Unused
        PROVE  Named'
    <3>1. profile'.home = h /\ ~NeedsBack(profile')
      BY <2>2, HomesAssumption DEF NeedsBack, NeedsLogin, Profile
    <3>2. profile.home = h \/ \A q \in Program : h \notin found[q]
      BY <2>2 DEF Unused
    <3> QED BY <1>01, <3>1, <3>2 DEF Named
  <2> QED BY <1>02, <2>1, <2>2
<1>2. Retired'
  <2>1. CASE UNCHANGED profile
    BY <1>01, <2>1 DEF Retired
  <2>2. ASSUME NEW h \in HomeId, profile.login # NoLogin, profile' = [profile EXCEPT !.home = h],
               profile.home = h \/ h \in Unused
        PROVE  Retired'
    <3>1. profile'.home = h /\ ~NeedsBack(profile')
      BY <2>2, HomesAssumption DEF NeedsBack, NeedsLogin, Profile
    <3>2. profile.home = h \/ h # retiring
      BY <2>2 DEF Unused
    <3> QED BY <1>01, <3>1, <3>2 DEF Retired
  <2> QED BY <1>02, <2>1, <2>2
<1>3. ClearKeeps'
  <2>1. ASSUME NEW q \in Program, pc'[q] = "clear", Holds(q)', profile'.home = at'[q]
        PROVE  Holds(q) /\ profile.home = at[q] /\ at'[q] = at[q] /\ pc[q] = "clear"
    <3>1. q # p /\ pc[q] = "clear"
      BY <1>01, <2>1
    <3>2. at'[q] = at[q]
      BY <1>02, <3>1
    <3>3. profile'.login = profile.login /\ profile'.saved = profile.saved
      BY <1>02, HomeNamed
    <3>4. profile'.home = profile.home \/ profile'.home # at[q]
      BY <1>02, <3>1, HomeNamed DEF Unused
    <3> QED BY <1>01, <2>1, <3>1, <3>2, <3>3, <3>4 DEF Holds
  <2> QED BY <1>01, <2>1 DEF ClearKeeps
<1>4. DeadNative'
  <2>1. UNCHANGED <<native, live, seen>>
    BY <1>01
  <2>2. /\ profile'.saved = profile.saved
        /\ profile'.login = profile.login /\ profile'.pending = profile.pending
    BY <1>02, HomeNamed
  <2>3. \A q \in Program : pc'[q] \in Settling \cup {"list", "load"} =>
          pc[q] \in Settling \cup {"list", "load"}
    BY <1>01 DEF Settling
  <2> QED BY <2>1, <2>2, <2>3 DEF DeadNative
<1> QED BY <1>1, <1>2, <1>3, <1>4

LEMMA PutLeads ==
  ASSUME HomesTypeOK, GivenOut, Sound, WayBack, ~overtaken', NEW p \in Program, Put(p)
  PROVE WayBack'
<1> USE HomesAssumption, Empty, Apart DEF HomesTypeOK, Sound, WayBack
<1>1. Named'
  BY DEF Named, StepsFit, OnlyDropped, NeedsBack, NeedsLogin, Reading, Put, Goto, MovedBefore,
         issuer
<1>2. Retired'
  BY DEF Retired, NeedsBack, NeedsLogin, StepsFit, OnlyDropped, Put, Goto, MovedBefore, issuer
<1>3. ClearKeeps'
  <2>0. UNCHANGED <<profile, db, at, current, live>> /\ at[p] \in HomeId
    BY DEF Put, StepsFit, issuer
  <2>1. ASSUME NEW q \in Program, pc'[q] = "clear", Holds(q)', profile'.home = at'[q]
        PROVE  inside'[at'[q]] = db'[q].login \/ db'[q].login \notin live'
    <3>1. CASE q = p
      BY <2>0, <2>1, <3>1 DEF Put, Goto
    <3>2. CASE q # p
      <4>1. pc[q] = "clear" /\ Holds(q) /\ profile.home = at[q]
        BY <2>0, <2>1, <3>2 DEF Put, Goto, Holds
      <4>2. inside[at[q]] = db[q].login \/ db[q].login \notin live
        BY <4>1 DEF ClearKeeps
      <4>3. inside' = inside \/ at[q] # at[p] \/ db[q].login = db[p].login
        BY <4>1 DEF Put, MovedBefore
      <4>4. inside' = inside \/ inside' = [inside EXCEPT ![at[p]] = db[p].login]
        BY DEF Put
      <4>5. at[q] \in HomeId
        BY <4>1 DEF StepsFit
      <4> QED BY <2>0, <4>2, <4>3, <4>4, <4>5
    <3> QED BY <3>1, <3>2
  <2> QED BY <2>1 DEF ClearKeeps
<1>4. DeadNative'
  BY DEF DeadNative, Settling, StepsFit, Moves, Reading, KeptApart, Elsewhere, Put, Goto,
         MovedBefore, issuer
<1> QED BY <1>1, <1>2, <1>3, <1>4

LEMMA TakeOutLeads ==
  ASSUME HomesTypeOK, GivenOut, Sound, WayBack, ~overtaken', NEW p \in Program, TakeOut(p)
  PROVE WayBack'
<1> USE HomesAssumption, Empty, Apart DEF HomesTypeOK, Sound, WayBack
<1>0. \/ profile' = profile
      \/ /\ profile' = [profile EXCEPT !.login = NoLogin]
         /\ profile'.home = profile.home /\ profile'.login = NoLogin /\ ~NeedsBack(profile')
  <2>1. at[p] \in HomeId
    BY DEF TakeOut, StepsFit
  <2>2. CASE profile.home = at[p] /\ profile' = [profile EXCEPT !.login = NoLogin]
    <3>1. profile'.home = profile.home /\ profile'.login = NoLogin
      BY <2>2, LoginTaken
    <3> QED BY <2>1, <2>2, <3>1 DEF NeedsBack, NeedsLogin
  <2> QED BY <2>2 DEF TakeOut
<1>1. Named'
  <2>1. UNCHANGED <<found, db, dropped>> /\ \A q \in Program : pc'[q] # "load" => pc[q] # "load"
    BY DEF TakeOut, Goto
  <2> QED BY <1>0, <2>1 DEF Named
<1>2. Retired'
  BY <1>0 DEF Retired, TakeOut
<1>3. ClearKeeps'
  <2>1. /\ UNCHANGED <<inside, db, at, current, live>>
        /\ \A q \in Program : pc'[q] = "clear" => pc[q] = "clear"
    BY DEF TakeOut, Goto, issuer
  <2>2. \A q \in Program : pc'[q] = "clear" /\ Holds(q)' => UNCHANGED profile
    BY <1>0, <2>1 DEF StepsFit, Moves, Holds
  <2> QED BY <2>1, <2>2 DEF ClearKeeps, Holds
<1>4. DeadNative'
  BY DEF DeadNative, Settling, StepsFit, Moves, Reading, KeptApart, Elsewhere, TakeOut, Goto,
         Holds, issuer, Profile
<1> QED BY <1>1, <1>2, <1>3, <1>4

LEMMA PollLeads ==
  ASSUME HomesTypeOK, GivenOut, Sound, WayBack, ~overtaken', NEW p \in Program, Poll(p)
  PROVE WayBack'
<1>1. /\ UNCHANGED <<profile, inside, native, live, retiring, found, dropped>>
      /\ pc[p] = "poll" /\ pc'[p] \in {"read", "idle"}
      /\ \A q \in Program : q # p => UNCHANGED <<pc[q], seen[q], at[q], db[q], current[q]>>
  <2>1. pc' = [pc EXCEPT ![p] = "read"] \/ pc' = [pc EXCEPT ![p] = "idle"]
    BY DEF Poll, Goto
  <2> QED BY <2>1 DEF Poll, issuer, HomesTypeOK
<1>2. Named'
  <2>1. found[p] = {}
    BY <1>1 DEF Sound, StepsFit
  <2> QED BY <1>1, <2>1 DEF WayBack, Named, NeedsBack, NeedsLogin
<1>3. Retired'
  BY <1>1 DEF WayBack, Retired, NeedsBack, NeedsLogin
<1>4. ClearKeeps'
  BY <1>1 DEF WayBack, ClearKeeps, Holds
<1>5. DeadNative'
  BY <1>1 DEF WayBack, DeadNative, Settling
<1> QED BY <1>2, <1>3, <1>4, <1>5 DEF WayBack

LEMMA HomeReadLeads ==
  ASSUME HomesTypeOK, GivenOut, Sound, WayBack, ~overtaken', NEW p \in Program, HomeRead(p)
  PROVE WayBack'
<1> USE HomesAssumption, Empty, Apart DEF HomesTypeOK, Sound, WayBack
<1>1. Named'
  BY Mint
  DEF Named, StepsFit, OnlyDropped, NeedsBack, NeedsLogin, Reading, GivenOut, Old, HomeRead,
      Goto, HeldTwice, issuer
<1>2. Retired'
  BY Mint
  DEF Retired, NeedsBack, NeedsLogin, StepsFit, OnlyDropped, GivenOut, Old, HomeRead, Goto,
      HeldTwice, issuer
<1>3. ClearKeeps'
  <2>0. /\ UNCHANGED <<profile, db, current>> /\ at[p] \in HomeId
        /\ \A q \in Program : pc'[q] = "clear" => pc[q] = "clear" /\ at'[q] = at[q]
    BY DEF HomeRead, Goto, StepsFit
  <2>1. ASSUME NEW q \in Program, pc'[q] = "clear", Holds(q)', profile'.home = at'[q]
        PROVE  inside'[at'[q]] = db'[q].login \/ db'[q].login \notin live'
    <3>1. /\ pc[q] = "clear" /\ at'[q] = at[q] /\ at[q] \in HomeId
          /\ inside[at[q]] = db[q].login \/ db[q].login \notin live
      BY <2>0, <2>1 DEF ClearKeeps, Holds, StepsFit
    <3>2. CASE UNCHANGED <<inside, issuer>>
      BY <2>0, <3>1, <3>2 DEF issuer
    <3>3. CASE /\ inside[at[p]] \in live /\ Minted({inside[at[p]]})
               /\ inside' = [inside EXCEPT ![at[p]] = minted + 1]
      <4>1. db[q].login # minted + 1
        <5>1. minted + 1 \in Logins /\ minted + 1 \notin Given /\ Old(db[q].login)
          BY <3>3, Mint DEF GivenOut
        <5> QED BY <5>1 DEF Old
      <4>2. live' = (live \ {inside[at[p]]}) \cup {minted + 1}
        BY <3>3 DEF Minted
      <4>3. at[q] = at[p] \/ inside'[at[q]] = inside[at[q]]
        BY <3>1, <3>3
      <4> QED BY <2>0, <3>1, <4>1, <4>2, <4>3
    <3> QED BY <3>2, <3>3 DEF HomeRead
  <2> QED BY <2>1 DEF ClearKeeps
<1>4. DeadNative'
  <2>1. /\ UNCHANGED <<profile, native, seen>> /\ (inside[at[p]] # native \/ native = NoLogin)
        /\ \A q \in Program : pc'[q] = pc[q] \/ pc'[q] = "idle"
    BY DEF HomeRead, Goto, KeptApart, Elsewhere
  <2>2. native \notin live' => native \notin live \/ native = NoLogin
    <3>1. CASE UNCHANGED live
      BY <3>1
    <3>2. CASE Minted({inside[at[p]]})
      BY <2>1, <3>2 DEF Minted
    <3> QED BY <3>1, <3>2 DEF HomeRead, issuer
  <2> QED BY <2>1, <2>2 DEF DeadNative, Settling
<1> QED BY <1>1, <1>2, <1>3, <1>4

LEMMA StopLeads ==
  ASSUME HomesTypeOK, GivenOut, Sound, WayBack, ~overtaken', NEW p \in Program, Stop(p)
  PROVE WayBack'
<1> USE HomesAssumption, Empty, Apart DEF HomesTypeOK, Sound, WayBack
<1>1. Named'
  BY DEF Named, StepsFit, OnlyDropped, NeedsBack, NeedsLogin, Reading, Stop, Goto, NoProfile,
         issuer
<1>2. Retired'
  BY DEF Retired, NeedsBack, NeedsLogin, StepsFit, OnlyDropped, Stop, Goto, NoProfile, issuer
<1>3. ClearKeeps'
  BY DEF ClearKeeps, Holds, StepsFit, MovedApart, Moves, Elsewhere, Settling, Reading, Stop,
         Goto, NoProfile, issuer
<1>4. DeadNative'
  BY DEF DeadNative, Settling, StepsFit, Moves, Reading, KeptApart, Elsewhere, Stop, Goto,
         NoProfile, issuer
<1> QED BY <1>1, <1>2, <1>3, <1>4

LEMMA CheckOutLeads ==
  ASSUME HomesTypeOK, GivenOut, Sound, WayBack, ~overtaken', CheckOut PROVE WayBack'
<1> USE HomesAssumption, Empty, Apart DEF HomesTypeOK, Sound, WayBack
<1>1. Named'
  BY DEF Named, StepsFit, OnlyDropped, NeedsBack, NeedsLogin, Reading, CheckOut, Bump,
         CheckedOut, issuer, Profile
<1>2. Retired'
  <2>1. \/ profile' = profile
        \/ profile.home # NoHome /\ profile'.home = profile.home
    <3>1. CASE UNCHANGED profile
      BY <3>1
    <3>2. CASE profile.home # NoHome /\ profile' = CheckedOut(profile)
      BY <3>2 DEF CheckedOut, Profile
    <3> QED BY <3>1, <3>2 DEF CheckOut
  <2> QED BY <2>1 DEF Retired, NeedsBack, NeedsLogin, CheckOut
<1>3. ClearKeeps'
  BY DEF ClearKeeps, Holds, StepsFit, MovedApart, Moves, Elsewhere, Settling, Reading, CheckOut,
         Bump, CheckedOut, issuer, Profile
<1>4. DeadNative'
  BY DEF DeadNative, Settling, StepsFit, Moves, Reading, KeptApart, Elsewhere, CheckOut, Bump,
         CheckedOut, issuer, Profile
<1> QED BY <1>1, <1>2, <1>3, <1>4

LEMMA EmptyHomeLeads ==
  ASSUME HomesTypeOK, GivenOut, Sound, WayBack, ~overtaken', EmptyHome PROVE WayBack'
  BY HomesAssumption, Empty, Apart
  DEF WayBack, Sound, HomesTypeOK, Named, StepsFit, OnlyDropped, NeedsBack, NeedsLogin, Reading,
      EmptyHome, settling, issuer, Retired, ClearKeeps, Holds, MovedApart, Moves, Elsewhere,
      Settling, DeadNative, KeptApart

LEMMA ActivateLeads ==
  ASSUME HomesTypeOK, GivenOut, Sound, WayBack, ~overtaken', Activate PROVE WayBack'
  BY HomesAssumption, Empty, Apart
  DEF WayBack, Sound, HomesTypeOK, Named, StepsFit, OnlyDropped, NeedsBack, NeedsLogin, Reading,
      Activate, settling, issuer, Profile, Retired, ClearKeeps, Holds, MovedApart, Moves,
      Elsewhere, Settling, DeadNative, KeptApart

LEMMA FailUseLeads ==
  ASSUME HomesTypeOK, GivenOut, Sound, WayBack, ~overtaken', FailUse PROVE WayBack'
  BY HomesAssumption, Empty, Apart
  DEF WayBack, Sound, HomesTypeOK, Named, StepsFit, OnlyDropped, NeedsBack, NeedsLogin, Reading,
      FailUse, settling, issuer, Retired, ClearKeeps, Holds, MovedApart, Moves, Elsewhere,
      Settling, DeadNative, KeptApart

LEMMA SwitchAwayLeads ==
  ASSUME HomesTypeOK, GivenOut, Sound, WayBack, ~overtaken', SwitchAway PROVE WayBack'
  BY HomesAssumption, Empty, Apart
  DEF WayBack, Sound, HomesTypeOK, Named, StepsFit, OnlyDropped, NeedsBack, NeedsLogin, Reading,
      SwitchAway, Captured, Bump, issuer, Profile, Retired, ClearKeeps, Holds, MovedApart,
      Moves, Elsewhere, Settling, DeadNative, KeptApart

LEMMA SignOutLeads ==
  ASSUME HomesTypeOK, GivenOut, Sound, WayBack, ~overtaken', SignOut PROVE WayBack'
  BY HomesAssumption, Empty, Apart
  DEF WayBack, Sound, HomesTypeOK, Named, StepsFit, OnlyDropped, NeedsBack, NeedsLogin, Reading,
      SignOut, Bump, Profile, Retired, ClearKeeps, Holds, MovedApart, Moves, Elsewhere,
      Settling, DeadNative, KeptApart

LEMMA RememberLeads ==
  ASSUME HomesTypeOK, GivenOut, Sound, WayBack, ~overtaken', Remember PROVE WayBack'
  BY HomesAssumption, Empty, Apart
  DEF WayBack, Sound, HomesTypeOK, Named, StepsFit, OnlyDropped, NeedsBack, NeedsLogin, Reading,
      Remember, Captured, Overtakes, settling, issuer, Profile, Retired, ClearKeeps, Holds,
      MovedApart, Moves, Elsewhere, Settling, DeadNative, KeptApart

LEMMA SaveCurrentLeads ==
  ASSUME HomesTypeOK, GivenOut, Sound, WayBack, ~overtaken', SaveCurrent PROVE WayBack'
  BY HomesAssumption, Empty, Apart
  DEF WayBack, Sound, HomesTypeOK, Named, StepsFit, OnlyDropped, NeedsBack, NeedsLogin, Reading,
      SaveCurrent, Captured, Overtakes, Bump, issuer, Profile, Retired, ClearKeeps, Holds,
      MovedApart, Moves, Elsewhere, Settling, DeadNative, KeptApart

LEMMA SignedInLeads ==
  ASSUME HomesTypeOK, GivenOut, Sound, WayBack, ~overtaken', SignedIn PROVE WayBack'
<1> USE HomesAssumption, Empty, Apart DEF HomesTypeOK, Sound, WayBack
<1>0. Minted({})
  BY DEF SignedIn
<1>1. Named'
  BY <1>0, Mint
  DEF Named, StepsFit, OnlyDropped, NeedsBack, NeedsLogin, Reading, GivenOut, Old, SignedIn,
      Bump, Profile
<1>2. Retired'
  BY <1>0, Mint
  DEF Retired, NeedsBack, NeedsLogin, StepsFit, OnlyDropped, GivenOut, Old, SignedIn, Bump,
      Profile
<1>3. ClearKeeps'
  BY <1>0, Mint
  DEF ClearKeeps, Holds, StepsFit, MovedApart, Moves, Elsewhere, Settling, Reading, GivenOut,
      Old, SignedIn, Bump, Profile
<1>4. DeadNative'
  <2>1. UNCHANGED <<native, pc, seen>> /\ live \subseteq live' /\ profile'.pending
    BY DEF SignedIn, Minted, Profile
  <2> QED BY <2>1 DEF DeadNative
<1> QED BY <1>1, <1>2, <1>3, <1>4

LEMMA ForgetLeads ==
  ASSUME HomesTypeOK, GivenOut, Sound, WayBack, ~overtaken', Forget PROVE WayBack'
  BY HomesAssumption, Empty, Apart
  DEF WayBack, Sound, HomesTypeOK, Named, StepsFit, OnlyDropped, NeedsBack, NeedsLogin, Reading,
      Forget, Bump, NoProfile, issuer, Profile, Retired, ClearKeeps, Holds, MovedApart, Moves,
      Elsewhere, Settling, DeadNative, KeptApart

LEMMA RetireLeads ==
  ASSUME HomesTypeOK, GivenOut, Sound, WayBack, ~overtaken', Retire PROVE WayBack'
<1> USE HomesAssumption, Empty, Apart DEF HomesTypeOK, Sound, WayBack
<1>1. Named'
  BY DEF Named, StepsFit, OnlyDropped, NeedsBack, NeedsLogin, Reading, Retire, settling, issuer
<1>2. Retired'
  BY DEF Retired, NeedsBack, NeedsLogin, StepsFit, OnlyDropped, Retire, settling, issuer
<1>3. ClearKeeps'
  <2>1. UNCHANGED <<profile, db, at, pc, current, live>>
    BY DEF Retire, settling, issuer
  <2>2. ASSUME NEW q \in Program, pc[q] = "clear", Holds(q), profile.home = at[q]
        PROVE  inside'[at[q]] = inside[at[q]]
    <3>1. at[q] \in HomeId /\ at[q] # retiring
      BY <2>2 DEF Retired, StepsFit, Retire
    <3> QED BY <3>1 DEF Retire
  <2> QED BY <2>1, <2>2 DEF ClearKeeps, Holds
<1>4. DeadNative'
  BY DEF DeadNative, Settling, StepsFit, Moves, Reading, KeptApart, Elsewhere, Retire, settling,
         issuer
<1> QED BY <1>1, <1>2, <1>3, <1>4

LEMMA OldVersionLeads ==
  ASSUME HomesTypeOK, GivenOut, Sound, WayBack, ~overtaken', OldVersion PROVE WayBack'
<1> USE HomesAssumption, Empty, Apart DEF HomesTypeOK, Sound, WayBack
<1>1. Named'
  BY DEF Named, StepsFit, OnlyDropped, NeedsBack, NeedsLogin, Reading, OldVersion, settling,
         issuer, Profile
<1>2. Retired'
  BY DEF Retired, NeedsBack, NeedsLogin, StepsFit, OnlyDropped, OldVersion, settling, issuer,
         Profile
<1>3. ClearKeeps'
  <2>1. UNCHANGED <<inside, live, settling>> /\ profile'.home = NoHome
    BY DEF OldVersion, issuer, Profile
  <2> QED BY <2>1 DEF ClearKeeps, StepsFit, settling
<1>4. DeadNative'
  BY DEF DeadNative, Settling, StepsFit, Moves, Reading, KeptApart, Elsewhere, OldVersion,
         settling, issuer, Profile
<1> QED BY <1>1, <1>2, <1>3, <1>4

LEMMA UserSignsInLeads ==
  ASSUME HomesTypeOK, GivenOut, Sound, WayBack, ~overtaken', UserSignsIn PROVE WayBack'
<1> USE HomesAssumption, Empty, Apart DEF HomesTypeOK, Sound, WayBack
<1>0. Minted({})
  BY DEF UserSignsIn
<1>1. Named'
  BY <1>0, Mint
  DEF Named, StepsFit, OnlyDropped, NeedsBack, NeedsLogin, Reading, GivenOut, Old, UserSignsIn,
      settling
<1>2. Retired'
  BY <1>0, Mint
  DEF Retired, NeedsBack, NeedsLogin, StepsFit, OnlyDropped, GivenOut, Old, UserSignsIn,
      settling
<1>3. ClearKeeps'
  <2>1. UNCHANGED <<profile, inside, settling>> /\ live' \subseteq live \cup {minted + 1}
    BY DEF UserSignsIn, Minted
  <2>2. \A q \in Program : db[q].login # minted + 1
    BY <1>0, Mint DEF GivenOut, Old
  <2> QED BY <2>1, <2>2 DEF ClearKeeps, Holds, settling
<1>4. DeadNative'
  <2>1. native' = minted + 1 /\ minted + 1 \in live'
    BY <1>0 DEF UserSignsIn, Minted
  <2> QED BY <2>1 DEF DeadNative
<1> QED BY <1>1, <1>2, <1>3, <1>4

LEMMA UserLeavesLeads ==
  ASSUME HomesTypeOK, GivenOut, Sound, WayBack, ~overtaken', UserLeaves PROVE WayBack'
  BY HomesAssumption, Empty, Apart
  DEF WayBack, Sound, HomesTypeOK, Named, StepsFit, OnlyDropped, NeedsBack, NeedsLogin, Reading,
      UserLeaves, settling, issuer, Retired, ClearKeeps, Holds, MovedApart, Moves, Elsewhere,
      Settling, DeadNative, KeptApart

LEMMA ClientRenewsNativeLeads ==
  ASSUME HomesTypeOK, GivenOut, Sound, WayBack, ~overtaken', ClientRenewsNative PROVE WayBack'
<1> USE HomesAssumption, Empty, Apart DEF HomesTypeOK, Sound, WayBack
<1>0. Minted({native})
  BY DEF ClientRenewsNative
<1>1. Named'
  BY <1>0, Mint
  DEF Named, StepsFit, OnlyDropped, NeedsBack, NeedsLogin, Reading, GivenOut, Old,
      ClientRenewsNative, settling
<1>2. Retired'
  BY <1>0, Mint
  DEF Retired, NeedsBack, NeedsLogin, StepsFit, OnlyDropped, GivenOut, Old, ClientRenewsNative,
      settling
<1>3. ClearKeeps'
  <2>1. UNCHANGED <<profile, inside, settling>> /\ live' \subseteq live \cup {minted + 1}
    BY DEF ClientRenewsNative, Minted
  <2>2. \A q \in Program : db[q].login # minted + 1
    BY <1>0, Mint DEF GivenOut, Old
  <2> QED BY <2>1, <2>2 DEF ClearKeeps, Holds, settling
<1>4. DeadNative'
  <2>1. native' = minted + 1 /\ minted + 1 \in live'
    BY <1>0 DEF ClientRenewsNative, Minted
  <2> QED BY <2>1 DEF DeadNative
<1> QED BY <1>1, <1>2, <1>3, <1>4

-----------------------------------------------------------------------------
(* What is left of the account when it is not signed in natively.  Each     *)
(* action but a sign-out keeps it, or the native login, usable.             *)
Waiting == IF profile.login # NoLogin THEN {profile.login}
           ELSE IF profile.home # NoHome THEN {inside[profile.home]}
           ELSE IF profile.signedOut \/ dropped = NoHome THEN {} ELSE {inside[dropped]}

LEMMA UsableIs == Usable <=> profile.saved /\ (native \in live \/ \E x \in Waiting : x \in live)
  BY DEF Usable, Reachable, Waiting

LEMMA SameWay ==
  ASSUME Usable, profile'.saved, live \subseteq live', native' = native,
         \A x \in Waiting : x \in live => x \in Waiting'
  PROVE  Usable'
  BY UsableIs DEF Usable, Reachable, Waiting

LEMMA ReadNativeReach ==
  ASSUME HomesTypeOK, GivenOut, Sound, WayBack, ~overtaken', NEW p \in Program, ReadNative(p),
         Usable, profile'.saved
  PROVE  Usable'
  BY Apart, Typed DEF Usable, Reachable, ReadNative, Goto, issuer

LEMMA ListReach ==
  ASSUME HomesTypeOK, GivenOut, Sound, WayBack, ~overtaken', NEW p \in Program, List(p), Usable,
         profile'.saved
  PROVE  Usable'
  BY Apart, Typed DEF Usable, Reachable, List, Goto, issuer

LEMMA LoadReach ==
  ASSUME HomesTypeOK, GivenOut, Sound, WayBack, ~overtaken', NEW p \in Program, Load(p), Usable,
         profile'.saved
  PROVE  Usable'
  BY Apart, Typed DEF Usable, Reachable, Load, Goto, issuer

LEMMA UnnamedReach ==
  ASSUME HomesTypeOK, GivenOut, Sound, WayBack, ~overtaken', NEW p \in Program, Unnamed(p),
         Usable, profile'.saved
  PROVE  Usable'
<1> USE Apart, Typed DEF HomesTypeOK, Sound, WayBack
<1>1. UNCHANGED <<profile, native, live, dropped>> /\ pc[p] = "unnamed"
  BY DEF Unnamed, issuer
<1>2. ASSUME NEW h \in HomeId, inside'[h] # inside[h], NeedsBack(db[p])
      PROVE  inside[h] \notin live
  <2>1. ~TakesBack(p, h) /\ inside[h] # Absent
    BY <1>2 DEF Unnamed
  <2> QED BY <1>2, <2>1 DEF TakesBack, NeedsBack
<1>3. \A h \in HomeId : inside'[h] # inside[h] => h \in found[p]
  BY DEF Unnamed
<1>4. CASE profile.login = NoLogin /\ profile.home # NoHome
  BY <1>1, <1>2, <1>3, <1>4, SameWay DEF Named, Waiting
<1>5. CASE NeedsBack(profile)
  <2>1. dropped \in HomeId
    BY <1>5 DEF OnlyDropped
  <2> QED BY <1>1, <1>2, <1>3, <1>5, <2>1, SameWay DEF Named, Waiting, NeedsBack, NeedsLogin
<1>6. CASE profile.login # NoLogin \/ (profile.home = NoHome /\ profile.signedOut)
  BY <1>1, <1>6, SameWay DEF Waiting
<1> QED BY <1>4, <1>5, <1>6 DEF NeedsBack, NeedsLogin, Usable

LEMMA TakeBackReach ==
  ASSUME HomesTypeOK, GivenOut, Sound, WayBack, ~overtaken', NEW p \in Program, TakeBack(p),
         Usable, profile'.saved
  PROVE  Usable'
<1> USE Apart, Typed DEF HomesTypeOK, Sound, WayBack
<1>1. UNCHANGED <<inside, native, live, dropped>>
  BY DEF TakeBack, issuer
<1>2. CASE profile' = profile
  BY <1>1, <1>2, SameWay DEF Waiting
<1>3. CASE NeedsBack(profile) /\ profile' = [profile EXCEPT !.home = at[p]]
  <2>1. at[p] = dropped /\ dropped # NoHome
    BY <1>3 DEF OnlyDropped, TakeBack
  <2>2. profile'.login = NoLogin /\ profile'.home = dropped
    BY <1>3, <2>1 DEF NeedsBack, NeedsLogin, Profile
  <2> QED BY <1>1, <1>3, <2>1, <2>2, SameWay DEF Waiting, NeedsBack, NeedsLogin
<1> QED BY <1>2, <1>3 DEF TakeBack, NeedsBack

LEMMA CheckInReach ==
  ASSUME HomesTypeOK, GivenOut, Sound, WayBack, ~overtaken', NEW p \in Program, CheckIn(p),
         Usable, profile'.saved
  PROVE  Usable'
<1> USE Apart, Typed DEF HomesTypeOK, Sound, WayBack
<1>1. UNCHANGED <<inside, native, live, dropped>>
  BY DEF CheckIn, issuer
<1>2. CASE profile' = profile
  BY <1>1, <1>2, SameWay DEF Waiting
<1>3. CASE Moves(p) /\ Holds(p) /\ \E h \in HomeId : profile' = [profile EXCEPT !.home = h]
  <2>1. profile.login # NoLogin /\ profile'.login = profile.login
    BY <1>3 DEF Moves, Holds, Profile
  <2> QED BY <1>1, <2>1, SameWay DEF Waiting
<1>4. Unused \subseteq HomeId
  BY DEF Unused
<1> QED BY <1>2, <1>3, <1>4 DEF CheckIn

LEMMA PutReach ==
  ASSUME HomesTypeOK, GivenOut, Sound, WayBack, ~overtaken', NEW p \in Program, Put(p), Usable,
         profile'.saved
  PROVE  Usable'
  BY Apart, Typed DEF Usable, Reachable, Put, Goto, MovedBefore, issuer

LEMMA TakeOutReach ==
  ASSUME HomesTypeOK, GivenOut, Sound, WayBack, ~overtaken', NEW p \in Program, TakeOut(p),
         Usable, profile'.saved
  PROVE  Usable'
<1> USE Apart, Typed DEF HomesTypeOK, Sound, WayBack
<1>1. UNCHANGED <<inside, native, live, dropped>>
  BY DEF TakeOut, issuer
<1>2. CASE profile' = profile
  BY <1>1, <1>2, SameWay DEF Waiting
<1>3. CASE Holds(p) /\ profile.home = at[p] /\ profile' = [profile EXCEPT !.login = NoLogin]
  <2>1. at[p] \in HomeId /\ pc[p] = "clear" /\ db[p].login # NoLogin
    BY DEF TakeOut, StepsFit, Moves
  <2>2. inside[at[p]] = profile.login \/ profile.login \notin live
    BY <1>3, <2>1 DEF ClearKeeps, Holds
  <2>3. profile'.login = NoLogin /\ profile'.home = at[p] /\ profile.login # NoLogin
    BY <1>3, <2>1 DEF Holds, Profile
  <2> QED BY <1>1, <2>1, <2>2, <2>3, SameWay, HomesAssumption DEF Waiting
<1> QED BY <1>2, <1>3 DEF TakeOut

LEMMA PollReach ==
  ASSUME HomesTypeOK, GivenOut, Sound, WayBack, ~overtaken', NEW p \in Program, Poll(p), Usable,
         profile'.saved
  PROVE  Usable'
  BY Apart, Typed DEF Usable, Reachable, Poll, Goto, ReadsHome, NoProfile, issuer

LEMMA HomeReadReach ==
  ASSUME HomesTypeOK, GivenOut, Sound, WayBack, ~overtaken', NEW p \in Program, HomeRead(p),
         Usable, profile'.saved
  PROVE  Usable'
<1> USE Apart, Typed DEF HomesTypeOK, Sound, WayBack
<1>1. UNCHANGED <<profile, native, dropped>> /\ at[p] \in HomeId /\ pc[p] = "read"
  BY DEF HomeRead, StepsFit
<1>2. CASE UNCHANGED <<inside, issuer>>
  BY <1>1, <1>2, SameWay DEF Waiting, issuer
<1>3. CASE /\ inside[at[p]] \in live /\ Minted({inside[at[p]]}) /\ ~HeldTwice(p)
           /\ inside' = [inside EXCEPT ![at[p]] = minted + 1]
  <2>1. live' = (live \ {inside[at[p]]}) \cup {minted + 1} /\ inside'[at[p]] \in live'
    BY <1>1, <1>3 DEF Minted
  <2>2. native \in live => native \in live'
    BY <1>1, <2>1 DEF KeptApart, Elsewhere
  <2>3. profile.login # inside[at[p]]
    BY <1>3 DEF HeldTwice
  <2>4. CASE profile.login # NoLogin
    BY <1>1, <2>1, <2>2, <2>3, <2>4, UsableIs DEF Usable, Reachable, Waiting
  <2>5. CASE profile.login = NoLogin /\ profile.home # NoHome
    <3>1. \/ profile.home = at[p]
          \/ inside'[profile.home] = inside[profile.home] /\ inside[profile.home] # inside[at[p]]
      BY <1>1, <1>3, <2>5 DEF HeldTwice
    <3> QED BY <1>1, <2>1, <2>2, <2>5, <3>1, UsableIs DEF Usable, Reachable, Waiting
  <2>6. CASE NeedsBack(profile)
    <3>1. dropped = at[p] /\ dropped # NoHome
      BY <1>1, <1>3, <2>6 DEF OnlyDropped
    <3> QED BY <1>1, <2>1, <2>6, <3>1 DEF Usable, Reachable, NeedsBack, NeedsLogin
  <2>7. CASE profile.login = NoLogin /\ profile.home = NoHome /\ profile.signedOut
    BY <1>1, <2>2, <2>7, UsableIs DEF Usable, Reachable, Waiting
  <2> QED BY <2>4, <2>5, <2>6, <2>7 DEF NeedsBack, NeedsLogin, Usable
<1> QED BY <1>2, <1>3 DEF HomeRead

LEMMA StopReach ==
  ASSUME HomesTypeOK, GivenOut, Sound, WayBack, ~overtaken', NEW p \in Program, Stop(p), Usable,
         profile'.saved
  PROVE  Usable'
  BY Apart, Typed DEF Usable, Reachable, Stop, Goto, NoProfile, issuer

LEMMA CheckOutReach ==
  ASSUME HomesTypeOK, GivenOut, Sound, WayBack, ~overtaken', CheckOut, Usable, profile'.saved
  PROVE  Usable'
<1> USE Apart, Typed DEF HomesTypeOK, Sound, WayBack
<1>1. UNCHANGED <<inside, native, live, dropped>>
  BY DEF CheckOut, issuer
<1>2. CASE profile' = profile
  BY <1>1, <1>2, SameWay DEF Waiting
<1>3. CASE /\ profile.login = NoLogin /\ profile.home # NoHome
           /\ profile' = [profile EXCEPT !.login = inside[profile.home]]
  <2>1. profile'.login = inside[profile.home] /\ profile'.home = profile.home
    BY <1>3 DEF Profile
  <2> QED BY <1>1, <1>3, <2>1, SameWay DEF Waiting
<1> QED BY <1>2, <1>3 DEF CheckOut, CheckedOut

LEMMA EmptyHomeReach ==
  ASSUME HomesTypeOK, GivenOut, Sound, WayBack, ~overtaken', EmptyHome, Usable, profile'.saved
  PROVE  Usable'
<1> USE Apart, Typed DEF HomesTypeOK, Sound, WayBack
<1>1. UNCHANGED <<profile, native, live, dropped>> /\ profile.login # NoLogin
  BY DEF EmptyHome, issuer, StepsFit
<1> QED BY <1>1, SameWay DEF Waiting

LEMMA ActivateReach ==
  ASSUME HomesTypeOK, GivenOut, Sound, WayBack, ~overtaken', Activate, Usable, profile'.saved
  PROVE  Usable'
<1> USE Apart, Typed DEF HomesTypeOK, Sound, WayBack
<1>1. UNCHANGED <<inside, live, dropped>> /\ native = NoLogin /\ profile.login # NoLogin
  BY DEF Activate, issuer, StepsFit
<1>2. profile'.login = profile.login
  BY DEF Activate, Profile
<1> QED BY <1>1, <1>2, UsableIs DEF Usable, Reachable, Waiting

LEMMA FailUseReach ==
  ASSUME HomesTypeOK, GivenOut, Sound, WayBack, ~overtaken', FailUse, Usable, profile'.saved
  PROVE  Usable'
  BY Apart, Typed DEF Usable, Reachable, FailUse, settling, issuer

LEMMA SwitchAwayReach ==
  ASSUME HomesTypeOK, GivenOut, Sound, WayBack, ~overtaken', SwitchAway, Usable, profile'.saved
  PROVE  Usable' \/ UserLeaves
<1> USE Apart, Typed DEF HomesTypeOK, Sound, WayBack
<1>1. native # NoLogin /\ native' = NoLogin /\ UNCHANGED <<inside, live, dropped>>
  BY DEF SwitchAway, issuer
<1>2. CASE profile.ignored \/ profile.pending
  <2>1. \A q \in Program : current[q] = FALSE
    BY DEF StepsFit, Reading, SwitchAway
  <2>2. UNCHANGED current
    BY <2>1 DEF SwitchAway, Bump
  <2> QED BY <1>2, <2>2 DEF SwitchAway, UserLeaves, settling
<1>3. CASE ~profile.ignored /\ ~profile.pending
  <2>1. native \in live
    <3>1. CASE native \notin live
      <4>1. profile.saved /\ profile.login = native
        BY <1>1, <1>3, <3>1 DEF DeadNative, Usable
      <4> QED BY <1>1, <3>1, <4>1, UsableIs DEF Waiting
    <3> QED BY <3>1
  <2>2. profile'.login = native
    BY <1>3 DEF SwitchAway, Captured, Profile
  <2> QED BY <1>1, <2>1, <2>2 DEF Usable, Reachable
<1> QED BY <1>2, <1>3

LEMMA RememberReach ==
  ASSUME HomesTypeOK, GivenOut, Sound, WayBack, ~overtaken', Remember, Usable, profile'.saved
  PROVE  Usable'
<1> USE Apart, Typed DEF HomesTypeOK, Sound, WayBack
<1>1. native # NoLogin /\ UNCHANGED live
  BY DEF Remember, issuer
<1>3. native \in live
  <2>1. CASE native \notin live
    <3>1. profile.saved /\ ~profile.pending /\ profile.login = native
      BY <1>1, <2>1 DEF DeadNative, Usable, Remember
    <3> QED BY <1>1, <2>1, <3>1, UsableIs DEF Waiting
  <2> QED BY <2>1
<1>4. profile'.login = native
  BY DEF Remember, Captured, Profile
<1> QED BY <1>1, <1>3, <1>4 DEF Usable, Reachable

LEMMA SaveCurrentReach ==
  ASSUME HomesTypeOK, GivenOut, Sound, WayBack, ~overtaken', SaveCurrent, Usable, profile'.saved
  PROVE  Usable'
<1> USE Apart, Typed DEF HomesTypeOK, Sound, WayBack
<1>1. native # NoLogin /\ UNCHANGED live
  BY DEF SaveCurrent, issuer
<1>3. native \in live
  <2>1. CASE native \notin live
    <3>1. profile.saved /\ ~profile.pending /\ profile.login = native
      BY <1>1, <2>1 DEF DeadNative, Usable, SaveCurrent
    <3> QED BY <1>1, <2>1, <3>1, UsableIs DEF Waiting
  <2> QED BY <2>1
<1>4. profile'.login = native
  BY DEF SaveCurrent, Captured, Profile
<1> QED BY <1>1, <1>3, <1>4 DEF Usable, Reachable

LEMMA SignedInReach ==
  ASSUME HomesTypeOK, GivenOut, Sound, WayBack, ~overtaken', SignedIn, Usable, profile'.saved
  PROVE  Usable'
<1> USE Apart, Typed DEF HomesTypeOK, Sound, WayBack
<1>1. minted + 1 \in live' /\ minted + 1 \in Logins
  BY Mint DEF SignedIn, Minted
<1>2. profile'.login = minted + 1
  BY DEF SignedIn, Profile
<1> QED BY <1>1, <1>2 DEF Usable, Reachable

LEMMA ForgetReach ==
  ASSUME HomesTypeOK, GivenOut, Sound, WayBack, ~overtaken', Forget, Usable, profile'.saved
  PROVE  Usable'
  BY Apart, Typed DEF Usable, Reachable, Forget, Bump, NoProfile, issuer

LEMMA RetireReach ==
  ASSUME HomesTypeOK, GivenOut, Sound, WayBack, ~overtaken', Retire, Usable, profile'.saved
  PROVE  Usable'
<1> USE Apart, Typed DEF HomesTypeOK, Sound, WayBack
<1>1. UNCHANGED <<profile, native, live, dropped>> /\ retiring # NoHome
  BY DEF Retire, issuer
<1>2. \A h \in HomeId : h # retiring => inside'[h] = inside[h]
  BY DEF Retire
<1>3. CASE profile.login = NoLogin /\ profile.home # NoHome
  BY <1>1, <1>2, <1>3, SameWay DEF Retired, Waiting
<1>4. CASE NeedsBack(profile)
  <2>1. dropped \in HomeId
    BY <1>4 DEF OnlyDropped
  <2> QED BY <1>1, <1>2, <1>4, <2>1, SameWay DEF Retired, Waiting, NeedsBack, NeedsLogin
<1>5. CASE profile.login # NoLogin \/ (profile.home = NoHome /\ profile.signedOut)
  BY <1>1, <1>5, SameWay DEF Waiting
<1> QED BY <1>3, <1>4, <1>5 DEF NeedsBack, NeedsLogin, Usable

LEMMA OldVersionReach ==
  ASSUME HomesTypeOK, GivenOut, Sound, WayBack, ~overtaken', OldVersion, Usable, profile'.saved
  PROVE  Usable'
  BY Apart, Typed DEF Usable, Reachable, OldVersion, settling, issuer

LEMMA UserSignsInReach ==
  ASSUME HomesTypeOK, GivenOut, Sound, WayBack, ~overtaken', UserSignsIn, Usable, profile'.saved
  PROVE  Usable'
<1> USE Apart, Typed DEF HomesTypeOK, Sound, WayBack
<1>1. native' = minted + 1 /\ minted + 1 \in live'
  BY DEF UserSignsIn, Minted
<1> QED BY <1>1 DEF Usable, Reachable

LEMMA ClientRenewsNativeReach ==
  ASSUME HomesTypeOK, GivenOut, Sound, WayBack, ~overtaken', ClientRenewsNative, Usable,
         profile'.saved
  PROVE  Usable'
<1> USE Apart, Typed DEF HomesTypeOK, Sound, WayBack
<1>1. native' = minted + 1 /\ minted + 1 \in live'
  BY DEF ClientRenewsNative, Minted
<1> QED BY <1>1 DEF Usable, Reachable

-----------------------------------------------------------------------------
(* The invariant: once one of the races has happened, only types remain.    *)
HomesInv == HomesTypeOK /\ GivenOut /\ (overtaken \/ (Sound /\ WayBack))

(* Nothing is saved, and no program runs, at first.                         *)
LEMMA StartsSound == HomesInit => HomesInv
<1> SUFFICES ASSUME HomesInit PROVE HomesInv
  OBVIOUS
<1> USE HomesAssumption, Empty DEF HomesInit
<1>1. HomesTypeOK
  <2>1. minted \in 0..MaxLogin
    BY HomesAssumption
  <2> QED BY <2>1 DEF HomesTypeOK
<1>2. profile.login = NoLogin /\ profile.home = NoHome /\ ~profile.saved /\ ~NeedsBack(NoProfile)
  BY DEF NoProfile, NeedsBack
<1>3. GivenOut
  BY <1>2 DEF GivenOut, Old, Given
<1>4. Sound
  BY <1>2 DEF Sound, StepsFit, Reading, OnlyDropped, MovedApart, KeptApart, OneCopy, Elsewhere
<1>5. WayBack
  BY <1>2 DEF WayBack, Named, Retired, ClearKeeps, DeadNative
<1> QED BY <1>1, <1>3, <1>4, <1>5 DEF HomesInv

(* A race that has happened stays marked.                                   *)
LEMMA RaceRemembered ==
  ASSUME HomesNext, overtaken = TRUE PROVE overtaken' = TRUE
  BY DEF HomesNext, ReadNative, List, Load, Unnamed, TakeBack, CheckIn, Put, TakeOut, Poll,
         HomeRead, Stop, CheckOut, EmptyHome, Activate, FailUse, SwitchAway, SignOut, Remember,
         SaveCurrent, SignedIn, Forget, Retire, OldVersion, UserSignsIn, UserLeaves,
         ClientRenewsNative, settling

(* Every step keeps the invariant, and so does a step that changes nothing. *)
LEMMA HomesStepKeeps ==
  ASSUME HomesInv, HomesNext PROVE HomesInv'
<1>1. HomesTypeOK' /\ GivenOut'
  BY TypesKept, GivenKept DEF HomesInv
<1>2. CASE overtaken'
  BY <1>1, <1>2 DEF HomesInv
<1>3. CASE ~overtaken'
  <2>1. ~overtaken
    BY <1>3, RaceRemembered DEF HomesInv, HomesTypeOK
  <2>2. HomesTypeOK /\ GivenOut /\ Sound /\ WayBack
    BY <2>1 DEF HomesInv
  <2>3. Sound'
    BY <1>3, <2>2, ReadNativeSound, ListSound, LoadSound, UnnamedSound, TakeBackSound,
       CheckInSound, PutSound, TakeOutSound, PollSound, HomeReadSound, StopSound, CheckOutSound,
       EmptyHomeSound, ActivateSound, FailUseSound, SwitchAwaySound, SignOutSound,
       RememberSound, SaveCurrentSound, SignedInSound, ForgetSound, RetireSound,
       OldVersionSound, UserSignsInSound, UserLeavesSound, ClientRenewsNativeSound
    DEF HomesNext
  <2>4. WayBack'
    BY <1>3, <2>2, ReadNativeLeads, ListLeads, LoadLeads, UnnamedLeads, TakeBackLeads,
       CheckInLeads, PutLeads, TakeOutLeads, PollLeads, HomeReadLeads, StopLeads, CheckOutLeads,
       EmptyHomeLeads, ActivateLeads, FailUseLeads, SwitchAwayLeads, SignOutLeads,
       RememberLeads, SaveCurrentLeads, SignedInLeads, ForgetLeads, RetireLeads,
       OldVersionLeads, UserSignsInLeads, UserLeavesLeads, ClientRenewsNativeLeads
    DEF HomesNext
  <2> QED BY <1>1, <2>3, <2>4 DEF HomesInv
<1> QED BY <1>2, <1>3

LEMMA HomesStutterKeeps ==
  ASSUME HomesInv, UNCHANGED homesVars PROVE HomesInv'
<1> USE DEF homesVars, issuer, settling
<1>1. HomesTypeOK' /\ GivenOut'
  BY DEF HomesInv, HomesTypeOK, GivenOut, Old, Given
<1>2. Sound => Sound'
  BY DEF Sound, StepsFit, Reading, Moves, OnlyDropped, NeedsBack, NeedsLogin, MovedApart,
         KeptApart, OneCopy, Elsewhere
<1>3. WayBack => WayBack'
  BY DEF WayBack, Named, NeedsBack, NeedsLogin, Retired, ClearKeeps, Holds, DeadNative
<1> QED BY <1>1, <1>2, <1>3 DEF HomesInv

(* The invariant holds throughout.                                          *)
THEOREM HomesInvariant == HomesSpec => []HomesInv
<1>1. HomesInit => HomesInv
  BY StartsSound
<1>2. HomesInv /\ [HomesNext]_homesVars => HomesInv'
  BY HomesStepKeeps, HomesStutterKeeps
<1> QED BY <1>1, <1>2, PTL DEF HomesSpec

(* Profiles, homes and every step of a settle keep their types.             *)
THEOREM HomesTyped == HomesSpec => []HomesTypeOK
<1>1. HomesInv => HomesTypeOK
  BY DEF HomesInv
<1> QED BY <1>1, HomesInvariant, PTL

(* OneCopy, for any number of programs, homes and logins: as long as none   *)
(* of the known races is marked, check_in (homes.rs) moves no login into a  *)
(* home that the native store holds too.                                    *)
THEOREM OneClientRenews == HomesSpec => []OneCopy
<1>1. HomesInv => OneCopy
  BY DEF HomesInv, Sound, KeptApart, OneCopy
<1> QED BY <1>1, HomesInvariant, PTL

(* LoginKept, likewise: no read, move, switch, crash or older version takes *)
(* the last usable login of a saved account away (homes.rs settle; usage.rs *)
(* refresh_profiles; mod.rs use_profile).                                   *)
THEOREM LoginStaysWithinReach == HomesSpec => LoginKept
<1>1. ASSUME HomesInv, HomesNext, Usable, profile'.saved, ~Usable', ~overtaken'
      PROVE  SignOut \/ UserLeaves
  <2>1. ~overtaken
    BY <1>1, RaceRemembered DEF HomesInv, HomesTypeOK
  <2>2. HomesTypeOK /\ GivenOut /\ Sound /\ WayBack
    BY <1>1, <2>1 DEF HomesInv
  <2> QED BY <1>1, <2>2, ReadNativeReach, ListReach, LoadReach, UnnamedReach, TakeBackReach,
     CheckInReach, PutReach, TakeOutReach, PollReach, HomeReadReach, StopReach, CheckOutReach,
     EmptyHomeReach, ActivateReach, FailUseReach, SwitchAwayReach, RememberReach,
     SaveCurrentReach, SignedInReach, ForgetReach, RetireReach, OldVersionReach,
     UserSignsInReach, ClientRenewsNativeReach
  DEF HomesNext
<1>2. HomesInv /\ [HomesNext]_homesVars =>
        [Usable /\ profile'.saved /\ ~Usable' => SignOut \/ UserLeaves \/ overtaken']_homesVars
  BY <1>1
<1> QED BY <1>2, HomesInvariant, PTL DEF HomesSpec, LoginKept
=============================================================================
