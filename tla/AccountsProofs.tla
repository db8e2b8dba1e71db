--------------------------- MODULE AccountsProofs ---------------------------
(***************************************************************************)
(* Accounts and links for any number of addresses, links and handlers: what *)
(* a handler has read is still true enough when it commits.                 *)
(***************************************************************************)
EXTENDS Accounts, TLAPS

\* A handler on its way works on an account, or on an address to make one for;
\* the link it follows was mailed, and is one of the account.
Working ==
  \A h \in Handlers :
    /\ At(h, "create") => EmailOf(h) \in Emails
    /\ At(h, "issue") \/ At(h, "renew") => EmailOf(h) \in accounts
    /\ At(h, "verify") \/ At(h, "accept") =>
         /\ LinkOf(h) \in mailed /\ EmailOf(h) \in accounts
         /\ address[LinkOf(h)] = EmailOf(h)
    /\ At(h, "mail") => LinkOf(h) \in Links /\ address[LinkOf(h)] \in accounts

\* Only issued links are used, and only by an account.
Owned ==
  /\ \A l \in used : Issued(l)
  /\ \A l \in Links : Issued(l) => address[l] \in accounts

AccountsInv ==
  TypeOK /\ Working /\ Owned /\ NoDeadLinks /\ LinkRemains /\ VerifiedByLink

\* What a handler is about to commit.
HandlerRecords ==
  [step : Steps, email : Emails \cup {NoEmail},
   password : Passwords \cup {NoPassword}, link : Links \cup {NoLink}, over : BOOLEAN]

\* A handler that is idle has nothing to commit.
LEMMA IdleType == Idle \in HandlerRecords
BY DEF Idle, HandlerRecords, Steps

\* Initially there is no account, no link and no request.
LEMMA InitAccountsInv == Init => AccountsInv
<1> SUFFICES ASSUME Init PROVE AccountsInv
  OBVIOUS
<1>1. TypeOK
  BY IdleType DEF Init, TypeOK, HandlerRecords
<1>2. Working
  BY DEF Init, Working, At, Idle
<1>3. Owned /\ NoDeadLinks /\ LinkRemains /\ VerifiedByLink
  BY DEF Init, Owned, Issued, NoDeadLinks, LinkRemains, VerifiedByLink
<1> QED BY <1>1, <1>2, <1>3 DEF AccountsInv

\* A request begins with what it has read.
LEMMA BeginKeepsInv ==
  ASSUME AccountsInv, NEW h \in Handlers, NEW step \in Steps, NEW e \in Emails,
         NEW p \in Passwords \cup {NoPassword}, NEW l \in Links \cup {NoLink},
         Begin(h, step, e, p, l),
         step # "mail",
         step \in {"issue", "renew"} => e \in accounts,
         step \in {"verify", "accept"} => l \in mailed /\ e \in accounts /\ address[l] = e
  PROVE  AccountsInv'
<1> DEFINE r == [step |-> step, email |-> e, password |-> p, link |-> l, over |-> Over(l)]
<1>1. handler' = [handler EXCEPT ![h] = r] /\ UNCHANGED <<users, links, mailed>>
  BY DEF Begin
<1>2. r \in HandlerRecords
  BY DEF HandlerRecords, Over
<1>3. TypeOK'
  BY <1>1, <1>2 DEF AccountsInv, TypeOK, HandlerRecords, users, links
<1>4. \A g \in Handlers : handler'[g] = IF g = h THEN r ELSE handler[g]
  BY <1>1 DEF AccountsInv, TypeOK
<1>5. Working'
  BY <1>1, <1>4 DEF AccountsInv, Working, At, EmailOf, LinkOf, users, links
<1>6. (Owned /\ NoDeadLinks /\ LinkRemains /\ VerifiedByLink)'
  BY <1>1 DEF AccountsInv, Owned, Issued, NoDeadLinks, LinkRemains, VerifiedByLink,
              LinksOf, users, links
<1> QED BY <1>3, <1>5, <1>6 DEF AccountsInv

\* Every request begins with an account, an address or a link it has found.
LEMMA RequestKeepsInv ==
  ASSUME AccountsInv, NEW h \in Handlers, Request(h)
  PROVE  AccountsInv'
<1>1. ASSUME NEW e \in Emails, Invite(h, e) PROVE AccountsInv'
  BY <1>1, BeginKeepsInv DEF Invite, Steps
<1>2. ASSUME NEW e \in Emails, Resend(h, e) PROVE AccountsInv'
  BY <1>2, BeginKeepsInv DEF Resend, MayVerify, Steps
<1>3. ASSUME NEW e \in Emails, NEW p \in Passwords, Register(h, e, p) PROVE AccountsInv'
  BY <1>3, BeginKeepsInv DEF Register, MayVerify, Steps
<1>4. ASSUME NEW l \in Links, OpenVerify(h, l) PROVE AccountsInv'
  <2>1. l \in mailed /\ address[l] \in accounts /\ address[l] \in Emails
    BY <1>4 DEF OpenVerify, AccountsInv, NoDeadLinks, TypeOK
  <2> QED BY <1>4, <2>1, BeginKeepsInv DEF OpenVerify, Steps
<1>5. ASSUME NEW l \in Links, NEW p \in Passwords, OpenInvite(h, l, p) PROVE AccountsInv'
  <2>1. l \in mailed /\ address[l] \in accounts /\ address[l] \in Emails
    BY <1>5 DEF OpenInvite, AccountsInv, NoDeadLinks, TypeOK
  <2> QED BY <1>5, <2>1, BeginKeepsInv DEF OpenInvite, Steps
<1> QED BY <1>1, <1>2, <1>3, <1>4, <1>5 DEF Request

\* A link is issued to the account the handler works on.
LEMMA IssueKeepsInv ==
  ASSUME AccountsInv, NEW h \in Handlers, NEW l \in Links, NEW toPage \in {"verify", "invite"},
         Issue(h, l, toPage),
         EmailOf(h) \in accounts', EmailOf(h) \in Emails,
         accounts' = accounts \/ accounts' = accounts \cup {EmailOf(h)},
         password' \in [Emails -> Passwords \cup {NoPassword}],
         UNCHANGED <<verified, inactive>>,
         used' = used \/ used' = used \cup LinksOf(EmailOf(h)),
         replaced' = replaced \/ replaced' = replaced \cup LinksOf(EmailOf(h))
  PROVE  AccountsInv'
<1> DEFINE e == EmailOf(h)
           r == [handler[h] EXCEPT !.step = "mail", !.link = l]
<1>1. /\ address' = [address EXCEPT ![l] = e] /\ page' = [page EXCEPT ![l] = toPage]
      /\ handler' = [handler EXCEPT ![h] = r]
      /\ expired' = expired /\ follows' = follows /\ mailed' = mailed
      /\ ~ Issued(l)
  BY DEF Issue
<1>2. e # NoEmail /\ address[l] = NoEmail /\ l \notin used /\ l \notin mailed /\ l \notin LinksOf(e)
  BY <1>1, NamesAssumption DEF Issued, AccountsInv, Owned, NoDeadLinks, TypeOK, LinksOf
<1>3. /\ r \in HandlerRecords /\ r.step = "mail" /\ r.link = l
      /\ \A g \in Handlers : handler'[g] = IF g = h THEN r ELSE handler[g]
  BY <1>1 DEF AccountsInv, TypeOK, HandlerRecords, Steps
<1>4. \A k \in Links : /\ address'[k] = IF k = l THEN e ELSE address[k]
                       /\ page'[k] = IF k = l THEN toPage ELSE page[k]
  BY <1>1 DEF AccountsInv, TypeOK
<1>5. TypeOK'
  <2>1. handler' \in [Handlers -> HandlerRecords]
    BY <1>1, <1>3 DEF AccountsInv, TypeOK, HandlerRecords
  <2>2. /\ address' \in [Links -> Emails \cup {NoEmail}]
        /\ page' \in [Links -> {"none", "verify", "invite"}]
    BY <1>1 DEF AccountsInv, TypeOK
  <2>3. used' \subseteq Links /\ replaced' \subseteq Links /\ accounts' \subseteq Emails
    BY DEF AccountsInv, TypeOK, LinksOf
  <2> QED BY <1>1, <2>1, <2>2, <2>3 DEF AccountsInv, TypeOK, HandlerRecords
<1>6. Working'
  <2> SUFFICES ASSUME NEW g \in Handlers
               PROVE  Working!(g)'
    BY DEF Working
  <2>1. CASE g = h
    BY <1>3, <1>4, <2>1 DEF At, LinkOf
  <2>2. CASE g # h
    <3>1. handler'[g] = handler[g]
      BY <1>3, <2>2
    <3>2. At(g, "create") => EmailOf(g) \in Emails
      BY DEF AccountsInv, Working
    <3>3. At(g, "issue") \/ At(g, "renew") => EmailOf(g) \in accounts
      BY DEF AccountsInv, Working
    <3>4. At(g, "verify") \/ At(g, "accept") =>
            /\ LinkOf(g) \in mailed /\ LinkOf(g) \in Links /\ LinkOf(g) # l
            /\ EmailOf(g) \in accounts
            /\ address[LinkOf(g)] = EmailOf(g)
      BY <1>2 DEF AccountsInv, Working, TypeOK
    <3>5. At(g, "mail") => LinkOf(g) \in Links /\ address[LinkOf(g)] \in accounts /\ LinkOf(g) # l
      BY <1>2, NamesAssumption DEF AccountsInv, Working, TypeOK
    <3> QED BY <1>1, <1>4, <3>1, <3>2, <3>3, <3>4, <3>5 DEF At, EmailOf, LinkOf
  <2> QED BY <2>1, <2>2
<1>7. Owned'
  BY <1>2, <1>4 DEF AccountsInv, Owned, Issued, LinksOf, TypeOK
<1>8. NoDeadLinks'
  BY <1>1, <1>2, <1>4 DEF AccountsInv, NoDeadLinks, TypeOK
<1>9. LinkRemains'
  <2> SUFFICES ASSUME NEW f \in (accounts \ verified)'
               PROVE  \E k \in LinksOf(f)' : k \notin used'
    BY DEF LinkRemains
  <2>1. CASE f = e
    BY <1>2, <1>4, <2>1 DEF LinksOf
  <2>2. CASE f # e
    <3>1. PICK k \in LinksOf(f) : k \notin used
      BY <2>2 DEF AccountsInv, LinkRemains
    <3>2. k # l /\ k \notin LinksOf(e)
      BY <1>2, <2>2, <3>1, NamesAssumption DEF LinksOf, AccountsInv, TypeOK
    <3> QED BY <1>4, <3>1, <3>2 DEF LinksOf
  <2> QED BY <2>1, <2>2
<1>10. VerifiedByLink'
  <2> SUFFICES ASSUME NEW f \in verified
               PROVE  \E k \in LinksOf(f)' \cap mailed' : follows'[k] > 0
    BY DEF VerifiedByLink
  <2>1. PICK k \in LinksOf(f) \cap mailed : follows[k] > 0
    BY DEF AccountsInv, VerifiedByLink
  <2> QED BY <1>1, <1>2, <1>4, <2>1 DEF LinksOf
<1> QED BY <1>5, <1>6, <1>7, <1>8, <1>9, <1>10 DEF AccountsInv

\* Following a link verifies the account it belongs to.
LEMMA FollowKeepsInv ==
  ASSUME AccountsInv, NEW h \in Handlers, Verify(h) \/ Accept(h)
  PROVE  AccountsInv'
<1> DEFINE e == EmailOf(h)
           l == LinkOf(h)
<1>1. /\ l \in mailed /\ l \in Links /\ e \in accounts /\ e \in Emails /\ address[l] = e
      /\ handler[h] \in HandlerRecords
  BY DEF Verify, Accept, AccountsInv, Working, TypeOK, HandlerRecords
<1>2. /\ used' = used \cup {l} /\ verified' = verified \cup {e}
      /\ follows' = [follows EXCEPT ![l] = @ + 1]
      /\ handler' = [handler EXCEPT ![h] = Idle]
      /\ UNCHANGED <<accounts, inactive, address, page, expired, replaced, mailed>>
      /\ password' = password \/ password' = [password EXCEPT ![e] = handler[h].password]
  BY DEF Verify, Accept, End
<1>3. \A g \in Handlers : handler'[g] = IF g = h THEN Idle ELSE handler[g]
  BY <1>2 DEF AccountsInv, TypeOK
<1>4. TypeOK'
  <2>1. handler' \in [Handlers -> HandlerRecords]
    BY <1>2, IdleType DEF AccountsInv, TypeOK, HandlerRecords
  <2>2. follows' \in [Links -> Nat]
    BY <1>1, <1>2 DEF AccountsInv, TypeOK
  <2>3. password' \in [Emails -> Passwords \cup {NoPassword}]
    BY <1>1, <1>2 DEF AccountsInv, TypeOK, HandlerRecords
  <2> QED BY <1>1, <1>2, <2>1, <2>2, <2>3 DEF AccountsInv, TypeOK, HandlerRecords
<1>5. Working'
  BY <1>2, <1>3 DEF AccountsInv, Working, At, EmailOf, LinkOf, Idle
<1>6. Owned' /\ NoDeadLinks'
  BY <1>1, <1>2, NamesAssumption DEF AccountsInv, Owned, NoDeadLinks, Issued
<1>7. LinkRemains'
  <2> SUFFICES ASSUME NEW f \in accounts \ verified, f # e
               PROVE  \E k \in LinksOf(f)' : k \notin used'
    BY <1>2 DEF LinkRemains
  <2>1. PICK k \in LinksOf(f) : k \notin used
    BY DEF AccountsInv, LinkRemains
  <2> QED BY <1>1, <1>2, <2>1 DEF LinksOf
<1>8. VerifiedByLink'
  <2> SUFFICES ASSUME NEW f \in verified \cup {e}
               PROVE  \E k \in LinksOf(f) \cap mailed : follows'[k] > 0
    BY <1>2 DEF VerifiedByLink, LinksOf
  <2>1. CASE f = e
    BY <1>1, <1>2, <2>1 DEF LinksOf, AccountsInv, TypeOK
  <2>2. CASE f # e
    <3>1. PICK k \in LinksOf(f) \cap mailed : follows[k] > 0
      BY <2>2 DEF AccountsInv, VerifiedByLink
    <3> QED BY <1>1, <1>2, <2>2, <3>1 DEF LinksOf, AccountsInv, TypeOK
  <2> QED BY <2>1, <2>2
<1> QED BY <1>4, <1>5, <1>6, <1>7, <1>8 DEF AccountsInv

\* A handler that ends, after mailing its link or without.
LEMMA EndKeepsInv ==
  ASSUME AccountsInv, NEW h \in Handlers, Mail(h) \/ Abort(h)
  PROVE  AccountsInv'
<1>1. /\ handler' = [handler EXCEPT ![h] = Idle] /\ UNCHANGED <<users, links>>
      /\ \/ mailed' = mailed
         \/ At(h, "mail") /\ mailed' = mailed \cup {LinkOf(h)}
  BY DEF Mail, Abort, End
<1>2. \A g \in Handlers : handler'[g] = IF g = h THEN Idle ELSE handler[g]
  BY <1>1 DEF AccountsInv, TypeOK
<1>3. At(h, "mail") => LinkOf(h) \in Links /\ address[LinkOf(h)] \in accounts
  BY DEF AccountsInv, Working
<1>4. TypeOK'
  <2>1. handler' \in [Handlers -> HandlerRecords]
    BY <1>1, IdleType DEF AccountsInv, TypeOK, HandlerRecords
  <2> QED BY <1>1, <1>3, <2>1 DEF AccountsInv, TypeOK, HandlerRecords, users, links
<1>5. Working'
  BY <1>1, <1>2 DEF AccountsInv, Working, At, EmailOf, LinkOf, Idle, users, links
<1>6. (Owned /\ NoDeadLinks /\ LinkRemains /\ VerifiedByLink)'
  BY <1>1, <1>3 DEF AccountsInv, Owned, Issued, NoDeadLinks, LinkRemains, VerifiedByLink,
                    LinksOf, users, links
<1> QED BY <1>4, <1>5, <1>6 DEF AccountsInv

\* Deactivation, the lifetime of links and stuttering disturb nothing.
LEMMA RestKeepsInv ==
  ASSUME AccountsInv,
         \/ \E e \in Emails : SetActive(e)
         \/ \E l \in Links : Expire(l)
         \/ UNCHANGED vars
  PROVE  AccountsInv'
<1>1. UNCHANGED <<accounts, password, verified, address, page, used, follows, replaced, mailed,
                  handler>>
  BY DEF SetActive, Expire, vars, users, links
<1>2. inactive' \subseteq accounts /\ expired' \subseteq Links
  BY DEF SetActive, Expire, vars, users, links, AccountsInv, TypeOK
<1>3. TypeOK'
  BY <1>1, <1>2 DEF AccountsInv, TypeOK
<1> QED BY <1>1, <1>3 DEF AccountsInv, Working, At, EmailOf, LinkOf, Owned, Issued,
                          NoDeadLinks, LinkRemains, VerifiedByLink, LinksOf

\* Whatever a handler commits keeps the invariant.
LEMMA CommitKeepsInv ==
  ASSUME AccountsInv, NEW h \in Handlers, Commit(h)
  PROVE  AccountsInv'
<1>1. handler[h] \in HandlerRecords
  BY DEF AccountsInv, TypeOK, HandlerRecords
<1>2. ASSUME NEW l \in Links, Create(h, l) PROVE AccountsInv'
  <2>1. EmailOf(h) \in Emails
    BY <1>2 DEF Create, AccountsInv, Working
  <2>2. password' \in [Emails -> Passwords \cup {NoPassword}]
    BY <1>1, <1>2, <2>1 DEF Create, AccountsInv, TypeOK, HandlerRecords
  <2> QED BY <1>2, <2>1, <2>2, IssueKeepsInv DEF Create
<1>3. ASSUME NEW l \in Links, IssueAnother(h, l) \/ Renew(h, l) PROVE AccountsInv'
  <2>1. EmailOf(h) \in accounts /\ EmailOf(h) \in Emails
    BY <1>3 DEF IssueAnother, Renew, AccountsInv, Working, TypeOK
  <2>2. password' \in [Emails -> Passwords \cup {NoPassword}]
    BY <1>3 DEF IssueAnother, Renew, AccountsInv, TypeOK, users
  <2> QED BY <1>3, <2>1, <2>2, IssueKeepsInv DEF IssueAnother, Renew, users
<1> QED BY <1>2, <1>3, FollowKeepsInv, EndKeepsInv DEF Commit

\* The inductive invariant is kept by every step.
LEMMA NextAccountsInv == AccountsInv /\ [Next]_vars => AccountsInv'
BY RequestKeepsInv, CommitKeepsInv, RestKeepsInv DEF Next

\* It holds in every reachable state.
LEMMA AccountsInvariant == Spec => []AccountsInv
BY InitAccountsInv, NextAccountsInv, PTL DEF Spec

\* Accounts, links and handlers hold values of their types.
THEOREM TypeCorrect == Spec => []TypeOK
<1>1. AccountsInv => TypeOK
  BY DEF AccountsInv
<1> QED BY AccountsInvariant, <1>1, PTL

\* Every link that was mailed leads to an account.
THEOREM MailedLinksLive == Spec => []NoDeadLinks
<1>1. AccountsInv => NoDeadLinks
  BY DEF AccountsInv
<1> QED BY AccountsInvariant, <1>1, PTL

\* However registrations, resends and links that are followed overlap, an account
\* that is not verified has a link that was never used.
THEOREM LinksRemain == Spec => []LinkRemains
<1>1. AccountsInv => LinkRemains
  BY DEF AccountsInv
<1> QED BY AccountsInvariant, <1>1, PTL

\* No address is verified but by following a link mailed to it.
THEOREM OnlyLinksVerify == Spec => []VerifiedByLink
<1>1. AccountsInv => VerifiedByLink
  BY DEF AccountsInv
<1> QED BY AccountsInvariant, <1>1, PTL

\* No step but accepting a link that was mailed changes the password of an account.
THEOREM PasswordsNeedLinks == Spec => PasswordNeedsLink
<1> DEFINE Stays == \A e \in accounts : password'[e] # password[e] =>
             \E l \in LinksOf(e) \cap mailed : follows'[l] > follows[l]
<1>1. AccountsInv /\ [Next]_vars => [Stays]_vars
  <2> SUFFICES ASSUME AccountsInv, [Next]_vars, NEW e \in accounts, password'[e] # password[e]
               PROVE  \E l \in LinksOf(e) \cap mailed : follows'[l] > follows[l]
    OBVIOUS
  <2>1. password' # password
    OBVIOUS
  <2>2. PICK h \in Handlers : (\E l \in Links : Create(h, l)) \/ Accept(h)
    BY <2>1 DEF Next, Request, Commit, Register, Invite, Resend, OpenVerify, OpenInvite, Begin,
                IssueAnother, Renew, Verify, Mail, Abort, SetActive, Expire, vars, users
  <2>3. ~ \E l \in Links : Create(h, l)
    BY DEF Create, AccountsInv, TypeOK
  <2>4. /\ Accept(h) /\ EmailOf(h) = e
    BY <2>2, <2>3 DEF Accept, AccountsInv, TypeOK
  <2>5. LinkOf(h) \in LinksOf(e) \cap mailed
    BY <2>4 DEF Accept, AccountsInv, Working, LinksOf, TypeOK
  <2>6. follows'[LinkOf(h)] > follows[LinkOf(h)]
    BY <2>4, <2>5 DEF Accept, AccountsInv, TypeOK
  <2> QED BY <2>5, <2>6
<1>2. PasswordNeedsLink <=> [][Stays]_vars
  BY DEF PasswordNeedsLink
<1> QED BY AccountsInvariant, <1>1, <1>2, PTL DEF Spec
-----------------------------------------------------------------------------
(* When a link works.                                                      *)

\* A link that is over is used, so that nobody looks it up any more.
OverIsUsed == \A l \in Links : Over(l) => l \in used

LateInv == OverIsUsed /\ NoLateUse

\* A request begins with a link that is not over.
LEMMA RequestsAreNotLate ==
  ASSUME AccountsInv, LateInv, NEW h \in Handlers, Request(h)
  PROVE  LateInv'
<1>1. PICK step \in Steps, e \in Emails, p \in Passwords \cup {NoPassword},
           l \in Links \cup {NoLink} :
        /\ Begin(h, step, e, p, l)
        /\ step \in {"verify", "accept"} => l \in Links /\ l \notin used
  <2>1. CASE \E e \in Emails, p \in Passwords : Register(h, e, p)
    BY <2>1 DEF Register, Steps
  <2>2. CASE \E e \in Emails : Invite(h, e) \/ Resend(h, e)
    BY <2>2 DEF Invite, Resend, Steps
  <2>3. ASSUME NEW l \in Links, OpenVerify(h, l) \/ \E p \in Passwords : OpenInvite(h, l, p)
        PROVE  \E step \in Steps, e \in Emails, p \in Passwords \cup {NoPassword} :
                 Begin(h, step, e, p, l) /\ l \notin used
    BY <2>3 DEF OpenVerify, OpenInvite, Pending, Issued, AccountsInv, TypeOK, Steps
  <2> QED BY <2>1, <2>2, <2>3 DEF Request
<1>2. /\ UNCHANGED <<follows, used, replaced>>
      /\ \A g \in Handlers : handler'[g] =
           IF g = h
           THEN [step |-> step, email |-> e, password |-> p, link |-> l, over |-> Over(l)]
           ELSE handler[g]
  BY <1>1 DEF Begin, links, AccountsInv, TypeOK
<1>3. step \in {"verify", "accept"} => ~ Over(l)
  BY <1>1 DEF LateInv, OverIsUsed
<1>4. OverIsUsed'
  BY <1>2 DEF LateInv, OverIsUsed, Over
<1>5. NoLateUse'
  BY <1>2, <1>3 DEF LateInv, NoLateUse, At
<1> QED BY <1>4, <1>5 DEF LateInv

\* Whoever succeeds with a link, or replaces it, uses it up in the same commit.
LEMMA CommitsUseLinksUp ==
  ASSUME AccountsInv, LateInv, NEW h \in Handlers, Commit(h)
  PROVE  LateInv'
<1>1. /\ \A g \in Handlers : g # h => handler'[g] = handler[g]
      /\ handler'[h].step \in {"idle", "mail"}
  BY DEF Commit, Create, IssueAnother, Renew, Issue, Verify, Accept, Mail, Abort, End, Idle,
         AccountsInv, TypeOK
<1>2. NoLateUse'
  BY <1>1 DEF LateInv, NoLateUse, At
<1>3. CASE Verify(h) \/ Accept(h)
  <2>1. /\ LinkOf(h) \in Links /\ replaced' = replaced /\ used' = used \cup {LinkOf(h)}
        /\ follows' = [follows EXCEPT ![LinkOf(h)] = @ + 1]
    BY <1>3 DEF Verify, Accept, AccountsInv, Working, TypeOK
  <2>2. OverIsUsed'
    BY <2>1 DEF LateInv, OverIsUsed, Over, AccountsInv, TypeOK
  <2> QED BY <1>2, <2>2 DEF LateInv
<1>4. CASE \E l \in Links : Create(h, l) \/ IssueAnother(h, l) \/ Renew(h, l)
  <2>1. /\ UNCHANGED follows
        /\ \/ UNCHANGED <<used, replaced>>
           \/ /\ used' = used \cup LinksOf(EmailOf(h))
              /\ replaced' = replaced \cup LinksOf(EmailOf(h))
    BY <1>4 DEF Create, IssueAnother, Renew, Issue
  <2>2. OverIsUsed'
    BY <2>1 DEF LateInv, OverIsUsed, Over
  <2> QED BY <1>2, <2>2 DEF LateInv
<1>5. CASE Mail(h) \/ Abort(h)
  <2>1. UNCHANGED <<follows, used, replaced>>
    BY <1>5 DEF Mail, Abort, links
  <2>2. OverIsUsed'
    BY <2>1 DEF LateInv, OverIsUsed, Over
  <2> QED BY <1>2, <2>2 DEF LateInv
<1> QED BY <1>3, <1>4, <1>5 DEF Commit

\* Deactivation and lifetimes touch neither.
LEMMA RestIsNotLate ==
  ASSUME LateInv,
         \/ \E e \in Emails : SetActive(e)
         \/ \E l \in Links : Expire(l)
         \/ UNCHANGED vars
  PROVE  LateInv'
<1>1. UNCHANGED <<follows, used, replaced, handler>>
  BY DEF SetActive, Expire, vars, links
<1> QED BY <1>1 DEF LateInv, OverIsUsed, NoLateUse, Over, At

\* A link that has worked, or that a resend has replaced, works for no request
\* that reads it later, for any number of links and requests.
THEOREM LinksAreNotUsedLate == Spec => []NoLateUse
<1>1. Init => LateInv
  BY DEF Init, LateInv, OverIsUsed, NoLateUse, Over, At, Idle
<1>2. AccountsInv /\ LateInv /\ [Next]_vars => LateInv'
  BY RequestsAreNotLate, CommitsUseLinksUp, RestIsNotLate DEF Next
<1>3. LateInv => NoLateUse
  BY DEF LateInv
<1> QED BY AccountsInvariant, <1>1, <1>2, <1>3, PTL DEF Spec
=============================================================================
