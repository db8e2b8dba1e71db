SPECIFICATION Spec
CONSTANTS
  i1 = i1
  i2 = i2
  NoCall = NoCall
  Calls = {c1, c2}
  Workers = {w1, w2}
  Items <- MCItems
  Share <- MCShare
  MaxRetries = 1
  Faults = {"database", "publish"}
  MaxFaults = 0
INVARIANTS
  OneAtATime
  ErrorMeansFailed
SYMMETRY SymmetryCalls
CHECK_DEADLOCK FALSE
