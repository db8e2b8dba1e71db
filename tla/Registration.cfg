SPECIFICATION RegSpec
CONSTANTS
  r1 = r1
  r2 = r2
  Requests = {r1, r2}
  NoRequest = NoRequest
  Workers = {w1}
  MaxRetries = 1
  MailFaults = {"smtp", "broker", "crash"}
  MaxFaults = 2
  Parts <- MCParts
  Cut <- MCCut
  Numbers <- MCNumbers
  Forms <- MCForms
  Existing <- MCExisting
INVARIANTS
  RegTypeOK
  SlugRefusalsExplained
  DuplicatesNeedFaults
PROPERTIES
  OwnersAreMailed
CHECK_DEADLOCK FALSE
