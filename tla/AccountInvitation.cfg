SPECIFICATION Spec
CONSTANTS
  Emails = {e1}
  NoEmail = NoEmail
  Passwords = {p1}
  NoPassword = NoPassword
  Links = {l1, l2}
  NoLink = NoLink
  Handlers = {h1}
  Posts <- PagePosts
INVARIANTS
  VerifiedHasPassword
SYMMETRY Symmetry
