SPECIFICATION Spec
CONSTANTS
  Emails = {e1, e2}
  NoEmail = NoEmail
  Passwords = {p1}
  NoPassword = NoPassword
  Links = {l1, l2, l3}
  NoLink = NoLink
  Handlers = {h1, h2}
  Posts <- AnyPosts
INVARIANTS
  TypeOK
  NoDeadLinks
  LinkRemains
  NoLateUse
  VerifiedByLink
PROPERTIES
  PasswordNeedsLink
SYMMETRY Symmetry
