SPECIFICATION FairSpec
CONSTANTS
  MaxRev = 2
  MaxTroubles = 2
  Unread = Unread
INVARIANTS LateByOnePoll NobodyWaitsInVain
PROPERTIES NeverBackwards CatchesUp
