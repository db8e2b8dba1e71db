---------------------------- MODULE Registration ----------------------------
(***************************************************************************)
(* POST /auth/register: concurrent registrations that may share an address *)
(* or the name of their organization.  A request reads in a few steps,     *)
(* inserts in a transaction whose rows lock their unique values until it   *)
(* ends, commits, and hands its mail to the mailer.                        *)
(***************************************************************************)
EXTENDS Slugs, Mail

CONSTANTS
  Forms,     \* the forms each request may send: an address, and what slugify
             \* makes of the name of an organization
  Existing   \* the slugs of organizations that are there already

VARIABLES
  pc,         \* the next step of each request
  email,      \* the address it registers
  base,       \* the slugified name of its organization
  slug,       \* the slug it chose
  before,     \* the registrations that were committed when it began
  registered  \* the requests whose organization and owner are committed

regVars == <<pc, email, base, slug, before, registered>>
vars == <<regVars, mailVars>>

Steps == {"start", "email", "slug", "organization", "owner", "commit", "issue",
          "mail", "inline", "answered", "slug_taken", "email_taken", "error", "died"}
Final == {"answered", "slug_taken", "email_taken", "error", "died"}

NoEmail == "none"
Emails == {f.email : f \in UNION {Forms[r] : r \in Requests}}
Bases == {f.base : f \in UNION {Forms[r] : r \in Requests}}
Slugs == Existing \cup {slug[r] : r \in registered}

RegTypeOK ==
  /\ MailTypeOK
  /\ pc \in [Requests -> Steps]
  /\ email \in [Requests -> Emails \cup {NoEmail}]
  /\ base \in [Requests -> Bases \cup {NoSlug}]
  /\ before \in [Requests -> SUBSET Requests]
  /\ registered \subseteq Requests
  \* unique and not null
  /\ \A r, s \in registered : r # s => slug[r] # slug[s] /\ email[r] # email[s]
  /\ \A r \in registered : slug[r] \notin Existing \cup {NoSlug}

RegInit ==
  /\ MailInit
  /\ pc = [r \in Requests |-> "start"]
  /\ email = [r \in Requests |-> NoEmail]
  /\ base = [r \in Requests |-> NoSlug]
  /\ slug = [r \in Requests |-> NoSlug]
  /\ before = [r \in Requests |-> {}]
  /\ registered = {}
-----------------------------------------------------------------------------
Go(r, from, to) == pc[r] = from /\ pc' = [pc EXCEPT ![r] = to]

Receive(r) ==
  /\ Go(r, "start", "email")
  /\ \E f \in Forms[r] :
       /\ email' = [email EXCEPT ![r] = f.email]
       /\ base' = [base EXCEPT ![r] = f.base]
  /\ before' = [before EXCEPT ![r] = registered]
  /\ UNCHANGED <<slug, registered, mailVars>>

\* get_by_email.  An address that is known is sent another link, or nothing if
\* it is verified or inactive by now.
ReadEmail(r) ==
  /\ IF \E s \in registered : email[s] = email[r]
     THEN Go(r, "email", "issue") \/ Go(r, "email", "answered")
     ELSE Go(r, "email", "slug")
  /\ UNCHANGED <<email, base, slug, before, registered, mailVars>>

\* taken_slugs and unique_slug, which raises when it runs out of numbers.
ChooseSlug(r) ==
  LET chosen == UniqueSlug(base[r], TakenSlugs(Slugs, base[r])) IN
  /\ Go(r, "slug", IF chosen = NoSlug THEN "error" ELSE "organization")
  /\ slug' = [slug EXCEPT ![r] = chosen]
  /\ UNCHANGED <<email, base, before, registered, mailVars>>

\* The flushed INSERT waits for an open transaction with the same unique value,
\* and fails once one is committed: the answer is 409 and names the constraint.
Insert(r, from, to, locked, taken, refusal) ==
  /\ ~ locked
  /\ Go(r, from, IF taken THEN refusal ELSE to)
  /\ UNCHANGED <<email, base, slug, before, registered, mailVars>>

InsertOrganization(r) ==
  Insert(r, "organization", "owner",
         \E s \in Requests : pc[s] \in {"owner", "commit"} /\ slug[s] = slug[r],
         slug[r] \in Slugs, "slug_taken")

InsertOwner(r) ==
  Insert(r, "owner", "commit",
         \E s \in Requests : pc[s] = "commit" /\ email[s] = email[r],
         \E s \in registered : email[s] = email[r], "email_taken")

\* The starter checklist, the link, and _deliver's commit.
Commit(r) ==
  /\ Go(r, "commit", "mail")
  /\ registered' = registered \cup {r}
  /\ UNCHANGED <<email, base, slug, before, mailVars>>

\* send_verification of an account that was there: its link is committed.
IssueLink(r) ==
  /\ Go(r, "issue", "mail")
  /\ UNCHANGED <<email, base, slug, before, registered, mailVars>>

\* Bug: what the queue took is sent inline as well.
EnqueueAndSend(r) ==
  /\ Go(r, "mail", "inline")
  /\ Enqueued(r)
  /\ UNCHANGED <<email, base, slug, before, registered>>

Enqueue(r) ==
  /\ Go(r, "mail", "answered")
  /\ Enqueued(r)
  /\ UNCHANGED <<email, base, slug, before, registered>>

\* Bug: nothing is sent when the queue is unavailable.
EnqueueOrForget(r) ==
  /\ Go(r, "mail", "answered")
  /\ NotEnqueued(r)
  /\ UNCHANGED <<email, base, slug, before, registered>>

EnqueueRaises(r) ==
  /\ Go(r, "mail", "inline")
  /\ NotEnqueued(r)
  /\ UNCHANGED <<email, base, slug, before, registered>>

\* Delivery inline: a failure is logged, and the request answered all the same.
SendInline(r) ==
  /\ Go(r, "inline", "answered")
  /\ Sent(r) \/ NotSent(r)
  /\ UNCHANGED <<email, base, slug, before, registered, queue, sending>>

\* The database fails, or the process of the API dies: what is open is rolled
\* back, and what is committed stays.
Abort(r) ==
  /\ \/ \E step \in {"email", "slug", "organization", "owner", "commit", "issue"} :
          Go(r, step, "error")
     \/ \E step \in {"mail", "inline"} : Go(r, step, "died")
  /\ UNCHANGED <<email, base, slug, before, registered, mailVars>>

Handle(r) ==
  \/ ReadEmail(r) \/ ChooseSlug(r) \/ InsertOrganization(r) \/ InsertOwner(r)
  \/ Commit(r) \/ IssueLink(r) \/ Enqueue(r) \/ EnqueueRaises(r) \/ SendInline(r)

RegNext ==
  \/ \E r \in Requests : Receive(r) \/ Handle(r) \/ Abort(r)
  \/ MailNext /\ UNCHANGED regVars

\* Handlers run to their end, processes take messages and go on.
RegSpec ==
  /\ RegInit /\ [][RegNext]_vars
  /\ \A r \in Requests : WF_vars(Handle(r))
  /\ \A w \in Workers : WF_vars(TakeAny(w) /\ UNCHANGED regVars)
                        /\ WF_vars(Work(w) /\ UNCHANGED regVars)
-----------------------------------------------------------------------------
\* A registration is refused for the name of its organization only because another
\* took the slug it had chosen after it began, or because the slug was cut for its
\* number, so that taken_slugs did not find it: then repeating it does not help.
SlugRefusalsExplained ==
  \A r \in Requests : pc[r] = "slug_taken" =>
    \/ \E s \in registered \ before[r] : slug[s] = slug[r]
    \/ ~ IsPrefix(Root(base[r]), slug[r])

\* A mail arrives more than once only because of faults, at most once for each.
DuplicatesNeedFaults ==
  \A r \in Requests : delivered[r] <= 1 + FaultsOf(r)

\* However registrations wait for each other's rows, every one is answered; and
\* the mail of a registration arrives unless its process died before, or the
\* SMTP server and the broker both failed it, or the server every attempt.
OwnersAreMailed ==
  \A r \in Requests :
    /\ pc[r] = "email" ~> pc[r] \in Final
    /\ r \in registered ~>
         \/ delivered[r] > 0
         \/ pc[r] = "died"
         \/ faults[r]["smtp"] > 0 /\ faults[r]["broker"] > 0
         \/ faults[r]["smtp"] > MaxRetries
=============================================================================
