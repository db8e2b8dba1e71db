SPECIFICATION Spec
CONSTANTS
  Requests = {r1, r2, r3}
  NoRequest = NoRequest
  Orgs = {o1}
  ExternalIds = {e1}
  NoExternalId = NoExternalId
  Failing = {}
INVARIANTS
  RepeatsReturnTheCall
CHECK_DEADLOCK FALSE
