SPECIFICATION FairSpec
CONSTANTS
  i1 = i1
  i2 = i2
  NoCall = NoCall
  Calls = {c1}
  Workers = {w1}
  Items <- MCItems
  Share <- MCShare
  MaxRetries = 2
  Faults = {"crash", "connection"}
  MaxFaults = 4
INVARIANTS
  TypeOK
  CallNotLost
  TotalMatchesScores
PROPERTIES
  DoneIsFinal
  ConfirmedIsKept
  FollowsLifecycle
  Settles
CHECK_DEADLOCK FALSE
