SPECIFICATION MCSpec
CONSTANTS
  Account = {a}
  NoAccount = NoAccount
  NoReading = NoReading
  NoSpend = NoSpend
  NoHand = NoHand
  Delay = 1
  Late = 1
  MaxPoll = 1
  MaxCycle = 2
  MaxEvents = 2
CHECK_DEADLOCK FALSE
INVARIANTS
  OfferNotLost
  CancelledNotSpent
PROPERTIES
  AnnouncedOnce
  AnnouncedDecided
