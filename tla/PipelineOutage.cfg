SPECIFICATION Spec
CONSTANTS
  i1 = i1
  i2 = i2
  NoCall = NoCall
  Items <- MCItems
  Share <- MCShare
  Calls = {c1}
  Workers = {w1}
  MaxRetries = 1
  Faults = {"database"}
  MaxFaults = 0
INVARIANTS
  CallNotLost
CHECK_DEADLOCK FALSE
