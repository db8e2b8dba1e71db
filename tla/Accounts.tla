------------------------------ MODULE Accounts ------------------------------
(***************************************************************************)
(* Accounts and their one-time links: registration, resending, invitation,  *)
(* and following a link.  A handler reads in one step and commits in a      *)
(* later one, with other handlers in between; after the commit it mails.    *)
(*                                                                          *)
(* A link names the page that posts its token to the endpoint of that page; *)
(* either endpoint takes any token, so a client may post it to the other.   *)
(***************************************************************************)
EXTENDS Naturals

CONSTANTS
  Emails,     \* the addresses accounts are made for
  NoEmail,    \* the address of a link that was not issued
  Passwords,  \* what people choose
  NoPassword, \* the password of an account that was invited
  Links,      \* bound: the links that may be issued
  NoLink,     \* the link of a handler that has none
  Handlers,   \* bound: the requests handled at a time
  Posts       \* which page's links clients post to which endpoint

ASSUME NamesAssumption ==
  NoEmail \notin Emails /\ NoPassword \notin Passwords /\ NoLink \notin Links

VARIABLES
  accounts,  \* the addresses with a user
  password,  \* users.hashed_password
  verified,  \* the users with an email_verified_at
  inactive,  \* the users without is_active
  address,   \* the address a link was issued for
  page,      \* the page it names: "verify" or "invite"
  used,      \* the links with a used_at
  expired,   \* the links whose expires_at is over
  mailed,    \* the links that were handed to the mailer
  follows,   \* how many requests succeeded with a link
  replaced,  \* the links in whose place another was requested
  handler    \* what the handlers are about to commit

users == <<accounts, password, verified, inactive>>
links == <<address, page, used, expired, follows, replaced>>
vars == <<users, links, mailed, handler>>

Steps == {"idle", "create", "issue", "renew", "verify", "accept", "mail"}
Idle == [step |-> "idle", email |-> NoEmail, password |-> NoPassword, link |-> NoLink,
         over |-> FALSE]

TypeOK ==
  /\ accounts \subseteq Emails
  /\ password \in [Emails -> Passwords \cup {NoPassword}]
  /\ verified \subseteq accounts
  /\ inactive \subseteq accounts
  /\ address \in [Links -> Emails \cup {NoEmail}]
  /\ page \in [Links -> {"none", "verify", "invite"}]
  /\ used \subseteq Links /\ expired \subseteq Links /\ mailed \subseteq Links
  /\ follows \in [Links -> Nat]
  /\ replaced \subseteq Links
  /\ handler \in [Handlers -> [step : Steps, email : Emails \cup {NoEmail},
                               password : Passwords \cup {NoPassword},
                               link : Links \cup {NoLink}, over : BOOLEAN]]

Init ==
  /\ accounts = {} /\ verified = {} /\ inactive = {}
  /\ password = [e \in Emails |-> NoPassword]
  /\ address = [l \in Links |-> NoEmail]
  /\ page = [l \in Links |-> "none"]
  /\ used = {} /\ expired = {} /\ mailed = {} /\ replaced = {}
  /\ follows = [l \in Links |-> 0]
  /\ handler = [h \in Handlers |-> Idle]
-----------------------------------------------------------------------------
(* Reading.  A request that finds nothing to do ends without a change.     *)

Issued(l) == address[l] # NoEmail
LinksOf(e) == {l \in Links : address[l] = e}
MayVerify(e) == e \in accounts /\ e \notin verified /\ e \notin inactive

\* Bug: a link that was used is looked up as well.
PendingUnlessExpired(l) == Issued(l) /\ l \notin expired

\* get_pending.
Pending(l) == Issued(l) /\ l \notin used /\ l \notin expired

\* A link has done what it is for, or a resend has put another in its place.
Over(l) == l \in replaced \/ (l \in Links /\ follows[l] > 0)

\* Who begins keeps what it has read, and whether the link was over then.
Begin(h, step, e, p, l) ==
  /\ handler[h] = Idle
  /\ handler' = [handler EXCEPT ![h] =
       [step |-> step, email |-> e, password |-> p, link |-> l, over |-> Over(l)]]
  /\ UNCHANGED <<users, links, mailed>>

\* register: an address without a user is registered, an unverified one is sent
\* another link, and nothing happens for any other.
Register(h, e, p) ==
  \/ e \notin accounts /\ Begin(h, "create", e, p, NoLink)
  \/ MayVerify(e) /\ Begin(h, "issue", e, p, NoLink)

\* invite: a user who sets a password later.
Invite(h, e) == e \notin accounts /\ Begin(h, "create", e, NoPassword, NoLink)

\* resend.
Resend(h, e) == MayVerify(e) /\ Begin(h, "renew", e, NoPassword, NoLink)

\* verify, up to its commit: any pending link that was mailed.
OpenVerify(h, l) ==
  /\ l \in mailed /\ <<page[l], "verify">> \in Posts
  /\ Pending(l)
  /\ Begin(h, "verify", address[l], NoPassword, l)

\* accept_invitation, up to its commit: any pending link that was mailed.
OpenInvite(h, l, p) ==
  /\ l \in mailed /\ <<page[l], "invite">> \in Posts
  /\ Pending(l)
  /\ Begin(h, "accept", address[l], p, l)
-----------------------------------------------------------------------------
(* Committing.                                                             *)

At(h, step) == handler[h].step = step
EmailOf(h) == handler[h].email
LinkOf(h) == handler[h].link
End(h) == handler' = [handler EXCEPT ![h] = Idle]

\* _issue, in the transaction of its caller; the link is mailed after the commit.
Issue(h, l, toPage) ==
  /\ ~ Issued(l)
  /\ address' = [address EXCEPT ![l] = EmailOf(h)]
  /\ page' = [page EXCEPT ![l] = toPage]
  /\ handler' = [handler EXCEPT ![h].step = "mail", ![h].link = l]
  /\ UNCHANGED <<expired, follows, mailed>>

\* Bug: mailed before the commit.
CreateLater(h, l) ==
  /\ At(h, "create")
  /\ EmailOf(h) \notin accounts
  /\ handler' = [handler EXCEPT ![h].step = "mail", ![h].link = l]
  /\ UNCHANGED <<users, links, mailed>>

\* Bug: whoever invites vouches for the address.
CreateVerified(h, l) ==
  /\ At(h, "create")
  /\ EmailOf(h) \notin accounts
  /\ accounts' = accounts \cup {EmailOf(h)}
  /\ password' = [password EXCEPT ![EmailOf(h)] = handler[h].password]
  /\ verified' = IF handler[h].password = NoPassword
                 THEN verified \cup {EmailOf(h)} ELSE verified
  /\ Issue(h, l, IF handler[h].password = NoPassword THEN "invite" ELSE "verify")
  /\ UNCHANGED <<inactive, used, replaced>>

\* The user and the link of a registration or an invitation, in one transaction.
Create(h, l) ==
  /\ At(h, "create")
  /\ EmailOf(h) \notin accounts
  /\ accounts' = accounts \cup {EmailOf(h)}
  /\ password' = [password EXCEPT ![EmailOf(h)] = handler[h].password]
  /\ Issue(h, l, IF handler[h].password = NoPassword THEN "invite" ELSE "verify")
  /\ UNCHANGED <<verified, inactive, used, replaced>>

\* Bug: registering again replaces the password.
IssueAndReplace(h, l) ==
  /\ At(h, "issue")
  /\ Issue(h, l, "verify")
  /\ password' = [password EXCEPT ![EmailOf(h)] = handler[h].password]
  /\ UNCHANGED <<accounts, verified, inactive, used, replaced>>

\* Another verification link; those before it stay.
IssueAnother(h, l) ==
  /\ At(h, "issue")
  /\ Issue(h, l, "verify")
  /\ UNCHANGED <<users, used, replaced>>

\* Bug: the new link is invalidated as well.
RenewNothing(h, l) ==
  /\ At(h, "renew")
  /\ Issue(h, l, "verify")
  /\ used' = used \cup LinksOf(EmailOf(h)) \cup {l}
  /\ replaced' = replaced \cup LinksOf(EmailOf(h))
  /\ UNCHANGED users

\* invalidate_for_user and another verification link.
Renew(h, l) ==
  /\ At(h, "renew")
  /\ Issue(h, l, "verify")
  /\ used' = used \cup LinksOf(EmailOf(h))
  /\ replaced' = replaced \cup LinksOf(EmailOf(h))
  /\ UNCHANGED users

\* verify: whatever became of the link since it was read.
Verify(h) ==
  /\ At(h, "verify")
  /\ used' = used \cup {LinkOf(h)}
  /\ verified' = verified \cup {EmailOf(h)}
  /\ follows' = [follows EXCEPT ![LinkOf(h)] = @ + 1]
  /\ End(h)
  /\ UNCHANGED <<accounts, password, inactive, address, page, expired, replaced, mailed>>

\* accept_invitation.
Accept(h) ==
  /\ At(h, "accept")
  /\ used' = used \cup {LinkOf(h)}
  /\ verified' = verified \cup {EmailOf(h)}
  /\ password' = [password EXCEPT ![EmailOf(h)] = handler[h].password]
  /\ follows' = [follows EXCEPT ![LinkOf(h)] = @ + 1]
  /\ End(h)
  /\ UNCHANGED <<accounts, inactive, address, page, expired, replaced, mailed>>

\* The mailer takes the link, inline or through the queue.
Mail(h) ==
  /\ At(h, "mail")
  /\ mailed' = mailed \cup {LinkOf(h)}
  /\ End(h)
  /\ UNCHANGED <<users, links>>

\* A handler that raises before its commit is rolled back: the address or the
\* name of the organization was taken meanwhile, or the database fails.  One
\* whose mailer raises has committed, and only mails nothing.
Abort(h) ==
  /\ handler[h] # Idle
  /\ End(h)
  /\ UNCHANGED <<users, links, mailed>>
-----------------------------------------------------------------------------
\* Bug: an address without a user is deactivated.
SetActiveAny(e) ==
  /\ inactive' = IF e \in inactive THEN inactive \ {e} ELSE inactive \cup {e}
  /\ UNCHANGED <<accounts, password, verified, links, mailed, handler>>

\* PeopleService.update of is_active.
SetActive(e) ==
  /\ e \in accounts
  /\ inactive' = IF e \in inactive THEN inactive \ {e} ELSE inactive \cup {e}
  /\ UNCHANGED <<accounts, password, verified, links, mailed, handler>>

\* The lifetime of a link is over.
Expire(l) ==
  /\ Issued(l)
  /\ expired' = expired \cup {l}
  /\ UNCHANGED <<users, address, page, used, follows, replaced, mailed, handler>>

Request(h) ==
  \/ \E e \in Emails : Invite(h, e) \/ Resend(h, e) \/ \E p \in Passwords : Register(h, e, p)
  \/ \E l \in Links : OpenVerify(h, l) \/ \E p \in Passwords : OpenInvite(h, l, p)

Commit(h) ==
  \/ \E l \in Links : Create(h, l) \/ IssueAnother(h, l) \/ Renew(h, l)
  \/ Verify(h) \/ Accept(h) \/ Mail(h) \/ Abort(h)

Next ==
  \/ \E h \in Handlers : Request(h) \/ Commit(h)
  \/ \E e \in Emails : SetActive(e)
  \/ \E l \in Links : Expire(l)

Spec == Init /\ [][Next]_vars
-----------------------------------------------------------------------------
\* Nobody is mailed a link to an account that was rolled back.
NoDeadLinks == \A l \in mailed : address[l] \in accounts

\* An account is never left without a link: while it is not verified, one of its
\* links is unused, though it may have expired.
LinkRemains ==
  \A e \in accounts \ verified : \E l \in LinksOf(e) : l \notin used

\* Once a request has succeeded with a link, or a resend has put another in its
\* place, no request that reads the link later succeeds with it.  Those that had
\* read it before still do, also a second one: "one-time" holds but for overlaps.
NoLateUse ==
  \A h \in Handlers : At(h, "verify") \/ At(h, "accept") => ~ handler[h].over

\* An address is verified only by whoever was mailed a link to it.
VerifiedByLink ==
  \A e \in verified : \E l \in LinksOf(e) \cap mailed : follows[l] > 0

\* The password of an account changes only when a request succeeds with a link
\* that was mailed to its address: registering the address again with another
\* password does not.  The link of a verification will do, for either endpoint
\* takes it.
PasswordNeedsLink ==
  [][\A e \in accounts : password'[e] # password[e] =>
       \E l \in LinksOf(e) \cap mailed : follows'[l] > follows[l]]_vars

\* What the docs promise of invitations ("the link lets them set one", "the link
\* can be requested again"): once verified, an account has a password, because
\* no other link is ever issued for it.
VerifiedHasPassword == \A e \in verified : password[e] # NoPassword
=============================================================================
