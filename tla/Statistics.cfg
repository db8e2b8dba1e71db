SPECIFICATION Spec
CONSTANTS
  i1 = i1
  i2 = i2
  c1 = c1
  c2 = c2
  lead = lead
  op = op
  out = out
  o1 = o1
  o2 = o2
  other = other
  Items = {i1, i2}
  Unknown = {other}
  Weight <- MCWeight
  Required = {i1, i2}
  Calls = {c1, c2}
  MaxAnswer <- MCMaxAnswer
  Users = {lead, op, out}
  NoUser = NoUser
  Role <- MCRole
  Org <- MCOrg
  NoOrg = NoOrg
  Manager <- MCManager
  Uploaders <- MCUploaders
  CreatedAt <- MCCreatedAt
  Zone = 2
  Since = {20}
  Until = {23}
  Models = {m1, m2}
  NoModel = NoModel
  Distance <- MCDistance
  Limit = 1
INVARIANTS
  TypeOK
  ScoreIsShare
  DaysAddUpToOperators
  FailuresAgree
  ConfirmedAsSeen
  ExamplesAreOthers
CHECK_DEADLOCK FALSE
