SPECIFICATION Spec
CONSTANTS
  i1 = i1
  i2 = i2
  NoCall = NoCall
  Items <- MCItems
  Share <- MCShare
  Calls = {c1}
  Workers = {w1, w2}
  MaxRetries = 1
  Faults = {"connection"}
  MaxFaults = 1
PROPERTIES
  DoneIsFinal
CHECK_DEADLOCK FALSE
