SPECIFICATION FairSpec
CONSTANTS
  Limit = 3
  Window = 4
  MaxDelay = 2
  FailOpen = FALSE
INVARIANTS
  TypeOK
  WindowLimit
PROPERTIES
  NothingForgotten
  AdmittedAgain
