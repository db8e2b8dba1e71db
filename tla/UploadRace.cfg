SPECIFICATION ListSpec
CONSTANTS
  Requests = {r1, r2, r3}
  NoRequest = NoRequest
  Orgs = {o1, o2}
  ExternalIds = {e1}
  NoExternalId = NoExternalId
  Failing = {r2}
  Earlier = {r3}
  Reader = o1
  Own = {r1, r3}
  Limit = 1
INVARIANTS
  ListTypeOK
  RepeatsAreIdempotent
  AnsweredMeansPublished
  NothingSkipped
  RepeatsComeFromUploads
PROPERTIES
  CallsGetPublished
CHECK_DEADLOCK FALSE
