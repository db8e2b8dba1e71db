SPECIFICATION Spec
CONSTANTS
  Users = {u1, u2, u3}
  NoUser = NoUser
  Orgs = {o1, o2}
  NoOrg = NoOrg
  MaxWaiting = 1
INVARIANTS
  TypeOK
  OrgBoundary
  KeysMatchUsers
  OneOwner
PROPERTIES
  TenantIsolation
SYMMETRY Symmetry
CHECK_DEADLOCK FALSE
