-------------------------- MODULE RegistrationProofs --------------------------
(***************************************************************************)
(* The safety of concurrent registrations, proved for any requests, forms, *)
(* existing organizations, worker processes and faults.                    *)
(***************************************************************************)
EXTENDS Registration, SequenceTheorems, FiniteSetTheorems, WellFoundedInduction, TLAPS

\* A set of numbers up to n that is not empty has a least one: of the intervals
\* up to its members, one contains none of the others.
LEMMA MinIsMember ==
  ASSUME NEW n \in Nat, NEW S \in SUBSET (1..n), S # {}
  PROVE  Min(S) \in S
<1> DEFINE intervals == {1..x : x \in S}
<1>1. intervals \subseteq SUBSET (1..n) /\ intervals # {}
  <2>1. \A x \in S : 1..x \subseteq 1..n
    OBVIOUS
  <2> QED
    BY <2>1
<1>2. IsWellFoundedOn(StrictSubsetOrdering(1..n), SUBSET (1..n))
  <2>1. FiniteSubsetsOf(1..n) = SUBSET (1..n)
    <3>1. IsFiniteSet(1..n)
      BY FS_Interval
    <3> QED
      BY <3>1, FS_FiniteSubsetsOfFinite, Zenon
  <2>2. IsWellFoundedOn(StrictSubsetOrdering(1..n), FiniteSubsetsOf(1..n))
    BY FS_StrictSubsetOrderingWellFounded
  <2> QED
    BY <2>1, <2>2
<1>3. PICK I \in intervals : \A J \in intervals : ~ (<<J, I>> \in StrictSubsetOrdering(1..n))
  <2> HIDE DEF intervals
  <2> QED
    BY <1>1, <1>2, WFMin
<1>4. PICK x \in S : I = 1..x
  OBVIOUS
<1>5. \A y \in S : x =< y
  <2> SUFFICES ASSUME NEW y \in S, y < x PROVE FALSE
    OBVIOUS
  <2>1. 1..y \subseteq I /\ x \in I /\ x \notin 1..y
    BY <1>4
  <2>2. <<1..y, I>> \in StrictSubsetOrdering(1..n)
    BY <1>1, <1>3, <2>1 DEF StrictSubsetOrdering
  <2> QED
    BY <1>3, <2>2
<1> QED
  BY <1>5 DEF Min

\* unique_slug: a slug it returns that taken_slugs would have found is free.
LEMMA UniqueSlugIsFree ==
  ASSUME NEW b, NEW slugs, UniqueSlug(b, TakenSlugs(slugs, b)) # NoSlug,
         IsPrefix(Root(b), UniqueSlug(b, TakenSlugs(slugs, b)))
  PROVE  UniqueSlug(b, TakenSlugs(slugs, b)) \notin slugs
<1> DEFINE taken == TakenSlugs(slugs, b)
           free == {i \in DOMAIN Numbers : Candidate(b, i) \notin taken}
<1>1. CASE b # NoBase /\ b \notin taken
  <2>1. UniqueSlug(b, taken) = b /\ Root(b) = b
    BY <1>1 DEF UniqueSlug, Root
  <2> QED
    BY <1>1, <2>1 DEF TakenSlugs
<1>2. CASE ~ (b # NoBase /\ b \notin taken)
  <2>1. free # {} /\ UniqueSlug(b, taken) = Candidate(b, Min(free))
    BY <1>2 DEF UniqueSlug
  <2>2. Len(Numbers) \in Nat /\ free \in SUBSET (1..Len(Numbers))
    BY SlugsAssumption, LenProperties
  <2>3. Min(free) \in free
    BY <2>1, <2>2, MinIsMember
  <2> QED
    BY <2>1, <2>3 DEF TakenSlugs
<1> QED
  BY <1>1, <1>2
-----------------------------------------------------------------------------
(* The mail.                                                               *)

Kinds == {"smtp", "broker", "crash"}

\* A fault is counted.
LEMMA FaultIsCounted ==
  ASSUME MailTypeOK, NEW r \in Requests, NEW kind \in Kinds, Fault(r, kind)
  PROVE  faults' \in [Requests -> [Kinds -> Nat]]
<1>1. faults' = [faults EXCEPT ![r][kind] = @ + 1]
  BY DEF Fault
<1> QED
  BY <1>1 DEF MailTypeOK, Kinds

\* A message enters the queue.
LEMMA PutKeepsType ==
  ASSUME MailTypeOK, NEW r \in Requests, NEW n \in Retries, Put(r, n)
  PROVE  queue' \in [Requests -> [Retries -> Nat]]
BY DEF MailTypeOK, Put

\* A mail arrives.
LEMMA DeliverKeepsType ==
  ASSUME MailTypeOK, NEW r \in Requests, Deliver(r)
  PROVE  delivered' \in [Requests -> Nat]
BY DEF MailTypeOK, Deliver

\* QueuedMailer keeps the types of the mail.
LEMMA EnqueuedKeepsType ==
  ASSUME MailTypeOK, NEW r \in Requests, Enqueued(r) \/ NotEnqueued(r)
  PROVE  MailTypeOK'
<1>1. 0 \in Retries
  BY MailAssumption DEF Retries
<1>2. CASE Enqueued(r)
  BY <1>1, <1>2, PutKeepsType DEF Enqueued, MailTypeOK
<1>3. CASE NotEnqueued(r)
  <2>1. faults' \in [Requests -> [Kinds -> Nat]]
    BY <1>3, FaultIsCounted DEF NotEnqueued, Kinds
  <2>2. queue' \in [Requests -> [Retries -> Nat]]
    BY <1>1, <1>3, PutKeepsType DEF NotEnqueued, MailTypeOK
  <2> QED
    BY <1>3, <2>1, <2>2 DEF NotEnqueued, MailTypeOK, Kinds
<1> QED
  BY <1>2, <1>3

\* A transport keeps the types of what it counts.
LEMMA SentKeepsType ==
  ASSUME MailTypeOK, NEW r \in Requests, Sent(r) \/ NotSent(r)
  PROVE  /\ delivered' \in [Requests -> Nat]
         /\ faults' \in [Requests -> [Kinds -> Nat]]
<1>1. CASE Sent(r)
  BY <1>1, DeliverKeepsType DEF Sent, MailTypeOK, Kinds
<1>2. CASE NotSent(r)
  <2>1. faults' \in [Requests -> [Kinds -> Nat]]
    BY <1>2, FaultIsCounted DEF NotSent, Kinds
  <2>2. delivered' \in [Requests -> Nat]
    BY <1>2, DeliverKeepsType DEF NotSent, MailTypeOK
  <2> QED
    BY <2>1, <2>2
<1> QED
  BY <1>1, <1>2

\* The send_email task keeps the types of the mail.
LEMMA MailNextKeepsType ==
  ASSUME MailTypeOK, MailNext
  PROVE  MailTypeOK'
<1> DEFINE Mailing == [request : Requests, retries : Retries, step : {"send", "retry", "ack"}]
<1>1. PICK w \in Workers : TakeAny(w) \/ Work(w) \/ CrashMailing(w)
  BY DEF MailNext
<1>2. sending[w] \in Mailing \cup {Idle} /\ Idle.step = "idle"
  BY DEF MailTypeOK, Idle
<1>3. CASE TakeAny(w)
  <2>1. PICK r \in Requests, n \in Retries : Take(w, r, n)
    BY <1>3 DEF TakeAny
  <2>2. queue' \in [Requests -> [Retries -> Nat]]
    BY <2>1 DEF Take, MailTypeOK
  <2>3. sending' \in [Workers -> Mailing \cup {Idle}]
    BY <2>1 DEF Take, MailTypeOK
  <2> QED
    BY <2>1, <2>2, <2>3 DEF Take, MailTypeOK
<1>4. CASE Send(w)
  <2>1. sending[w] \in Mailing
    BY <1>2, <1>4 DEF Send, Step
  <2>2. delivered' \in [Requests -> Nat] /\ faults' \in [Requests -> [Kinds -> Nat]]
    BY <1>4, <2>1, SentKeepsType DEF Send
  <2>3. sending' \in [Workers -> Mailing \cup {Idle}]
    <3>1. PICK step \in {"ack", "retry"} : Goto(w, step)
      BY <1>4 DEF Send
    <3>2. [sending[w] EXCEPT !.step = step] \in Mailing
      BY <2>1
    <3> QED
      BY <3>1, <3>2 DEF Goto, MailTypeOK
  <2> QED
    BY <1>4, <2>2, <2>3 DEF Send, MailTypeOK, Kinds
<1>5. CASE Retry(w)
  <2>1. sending[w] \in Mailing
    BY <1>2, <1>5 DEF Retry, Step
  <2>2. sending' \in [Workers -> Mailing \cup {Idle}]
    BY <1>5, <2>1 DEF Retry, Goto, MailTypeOK
  <2>3. queue' \in [Requests -> [Retries -> Nat]]
    <3>1. CASE UNCHANGED queue
      BY <3>1 DEF MailTypeOK
    <3>2. CASE sending[w].retries < MaxRetries /\ Put(sending[w].request, sending[w].retries + 1)
      <4>1. sending[w].retries + 1 \in Retries
        BY <2>1, <3>2, MailAssumption DEF Retries
      <4> QED
        BY <2>1, <3>2, <4>1, PutKeepsType
    <3> QED
      BY <1>5, <3>1, <3>2 DEF Retry
  <2>4. faults' \in [Requests -> [Kinds -> Nat]]
    <3>1. CASE UNCHANGED faults
      BY <3>1 DEF MailTypeOK, Kinds
    <3>2. CASE Fault(sending[w].request, "broker")
      BY <2>1, <3>2, FaultIsCounted DEF Kinds
    <3> QED
      BY <1>5, <3>1, <3>2 DEF Retry
  <2> QED
    BY <1>5, <2>2, <2>3, <2>4 DEF Retry, MailTypeOK, Kinds
<1>6. CASE Ack(w)
  BY <1>6 DEF Ack, MailTypeOK
<1>7. CASE CrashMailing(w)
  <2>1. sending[w] \in Mailing
    BY <1>2, <1>7 DEF CrashMailing
  <2>2. faults' \in [Requests -> [Kinds -> Nat]]
    BY <1>7, <2>1, FaultIsCounted DEF CrashMailing, Kinds
  <2>3. queue' \in [Requests -> [Retries -> Nat]]
    BY <1>7, <2>1, PutKeepsType DEF CrashMailing
  <2> QED
    BY <1>7, <2>2, <2>3 DEF CrashMailing, MailTypeOK, Kinds
<1> QED
  BY <1>1, <1>3, <1>4, <1>5, <1>6, <1>7 DEF Work
-----------------------------------------------------------------------------
(* The registrations.                                                      *)

Inserted == {"owner", "commit"}
Chosen == {"organization"} \cup Inserted

\* The variables have their types; of a slug only that each request has one.
Typed ==
  /\ MailTypeOK
  /\ pc \in [Requests -> Steps]
  /\ email \in [Requests -> Emails \cup {NoEmail}]
  /\ base \in [Requests -> Bases \cup {NoSlug}]
  /\ slug = [r \in Requests |-> slug[r]]
  /\ before \in [Requests -> SUBSET Requests]
  /\ registered \subseteq Requests

\* A committed request has nothing left but its mail.
CommittedByStep == \A r \in registered : pc[r] \in {"mail", "inline", "answered", "died"}

\* The unique columns hold for what is committed.
UniqueRows ==
  /\ \A r, s \in registered : r # s => slug[r] # slug[s] /\ email[r] # email[s]
  /\ \A r \in registered : slug[r] \notin Existing \cup {NoSlug}

\* What open transactions inserted differs from each other and from what is
\* committed.
InsertedRows ==
  /\ \A r \in Requests : pc[r] \in Chosen => slug[r] # NoSlug
  /\ \A r, s \in Requests : r # s /\ pc[r] \in Inserted /\ pc[s] \in Inserted => slug[r] # slug[s]
  /\ \A r, s \in Requests : r # s /\ pc[r] = "commit" /\ pc[s] = "commit" => email[r] # email[s]
  /\ \A r \in Requests : pc[r] \in Inserted =>
       slug[r] \notin Existing /\ \A s \in registered : slug[s] # slug[r]
  /\ \A r \in Requests : pc[r] = "commit" => \A s \in registered : email[s] # email[r]

\* A request that got past a read differs from what was committed before it began.
ReadsBefore ==
  /\ \A r \in Requests : before[r] \subseteq registered
  /\ \A r \in Requests : pc[r] \in {"slug"} \cup Chosen =>
       \A s \in before[r] : email[s] # email[r]
  /\ \A r \in Requests : pc[r] \in Chosen /\ IsPrefix(Root(base[r]), slug[r]) =>
       slug[r] \notin Existing /\ \A s \in before[r] : slug[s] # slug[r]

RegInv ==
  /\ Typed /\ CommittedByStep /\ UniqueRows /\ InsertedRows /\ ReadsBefore
  /\ SlugRefusalsExplained

\* Everything but the mail is left alone, or only the step of one request is
\* moved to one at which nothing is claimed.
LEMMA MoveKeepsInv ==
  ASSUME RegInv, MailTypeOK', UNCHANGED <<email, base, slug, before, registered>>,
         NEW r \in Requests, NEW step \in {"issue", "mail", "inline", "answered", "error", "died"},
         pc[r] # "start", pc' = [pc EXCEPT ![r] = step],
         r \in registered => step \in {"mail", "inline", "answered", "died"}
  PROVE  RegInv'
<1>1. \A s \in Requests : s # r => pc'[s] = pc[s]
  BY DEF RegInv, Typed
<1>2. pc'[r] = step
  BY DEF RegInv, Typed
<1>3. Typed'
  BY DEF RegInv, Typed, Steps, Emails, Bases
<1>4. CommittedByStep' /\ UniqueRows'
  BY <1>1, <1>2 DEF RegInv, Typed, CommittedByStep, UniqueRows
<1>5. InsertedRows'
  BY <1>1, <1>2 DEF RegInv, InsertedRows, Inserted, Chosen
<1>6. ReadsBefore'
  BY <1>1, <1>2 DEF RegInv, ReadsBefore, Inserted, Chosen
<1>7. SlugRefusalsExplained'
  BY <1>1, <1>2 DEF RegInv, SlugRefusalsExplained
<1> QED
  BY <1>3, <1>4, <1>5, <1>6, <1>7 DEF RegInv

\* A form arrives; what is committed is what was there before.
LEMMA ReceiveKeepsInv ==
  ASSUME RegInv, NEW r \in Requests, Receive(r)
  PROVE  RegInv'
<1>1. PICK f \in Forms[r] :
        email' = [email EXCEPT ![r] = f.email] /\ base' = [base EXCEPT ![r] = f.base]
  BY DEF Receive
<1>2. pc[r] = "start" /\ pc' = [pc EXCEPT ![r] = "email"] /\ r \notin registered
  BY DEF Receive, Go, RegInv, CommittedByStep
<1>3. \A s \in Requests : s # r =>
        pc'[s] = pc[s] /\ email'[s] = email[s] /\ base'[s] = base[s] /\ before'[s] = before[s]
  BY <1>1, <1>2 DEF Receive, RegInv, Typed
<1>4. pc'[r] = "email" /\ base'[r] = f.base /\ before'[r] = registered
  BY <1>1, <1>2 DEF Receive, RegInv, Typed
<1>5. f.email \in Emails /\ f.base \in Bases
  BY <1>1 DEF Emails, Bases
<1>6. Typed'
  <2>1. MailTypeOK'
    BY DEF RegInv, Typed, MailTypeOK, Receive, mailVars
  <2>2. email' \in [Requests -> Emails \cup {NoEmail}] /\ base' \in [Requests -> Bases \cup {NoSlug}]
    BY <1>1, <1>5 DEF RegInv, Typed
  <2>3. pc' \in [Requests -> Steps] /\ before' \in [Requests -> SUBSET Requests]
    BY <1>2 DEF RegInv, Typed, Receive, Steps
  <2> QED
    BY <2>1, <2>2, <2>3 DEF RegInv, Typed, Receive, Emails, Bases
<1>7. CommittedByStep' /\ UniqueRows'
  <2>1. UNCHANGED <<slug, registered>> /\ Existing' = Existing
    BY DEF Receive
  <2>2. \A s \in registered : s # r /\ pc'[s] = pc[s] /\ email'[s] = email[s]
    BY <1>2, <1>3 DEF RegInv, Typed
  <2> QED
    BY <2>1, <2>2 DEF RegInv, CommittedByStep, UniqueRows
<1>8. InsertedRows'
  <2>1. /\ UNCHANGED <<slug, registered>> /\ Existing' = Existing
        /\ \A s \in Requests : pc'[s] \in Chosen => s # r /\ pc[s] = pc'[s] /\ email'[s] = email[s]
    BY <1>2, <1>3, <1>4 DEF Receive, Inserted, Chosen
  <2>2. \A s \in registered : s \in Requests /\ email'[s] = email[s]
    BY <1>2, <1>3 DEF RegInv, Typed
  <2>3. Inserted \subseteq Chosen /\ "commit" \in Inserted
    BY DEF Inserted, Chosen
  <2> QED
    BY <2>1, <2>2, <2>3 DEF RegInv, InsertedRows
<1>9. ReadsBefore'
  <2> SUFFICES ASSUME NEW s \in Requests
               PROVE  /\ before'[s] \subseteq registered'
                      /\ pc'[s] \in {"slug"} \cup Chosen =>
                           \A t \in before'[s] : email'[t] # email'[s]
                      /\ pc'[s] \in Chosen /\ IsPrefix(Root(base'[s]), slug'[s]) =>
                           slug'[s] \notin Existing /\ \A t \in before'[s] : slug'[t] # slug'[s]
    BY DEF ReadsBefore
  <2>1. CASE s = r
    BY <1>4, <1>5, <2>1 DEF Receive, Inserted, Chosen
  <2>2. CASE s # r
    <3>1. before[s] \subseteq registered /\ r \notin before[s]
      BY <1>2 DEF RegInv, ReadsBefore
    <3>2. UNCHANGED <<slug, registered>>
      BY DEF Receive
    <3>3. \A t \in before[s] : email'[t] = email[t]
      BY <1>3, <3>1 DEF RegInv, Typed
    <3>4. pc'[s] = pc[s] /\ email'[s] = email[s] /\ base'[s] = base[s] /\ before'[s] = before[s]
      BY <1>3, <2>2
    <3> QED
      BY <3>1, <3>2, <3>3, <3>4 DEF RegInv, ReadsBefore
  <2> QED
    BY <2>1, <2>2
<1>10. SlugRefusalsExplained'
  BY <1>2, <1>3, <1>4 DEF RegInv, Typed, SlugRefusalsExplained, Receive
<1> QED
  BY <1>6, <1>7, <1>8, <1>9, <1>10 DEF RegInv

\* What a step that moves only the step of one request leaves to show.
LEMMA StepKeepsInv ==
  ASSUME RegInv, UNCHANGED <<email, base, slug, before, registered, mailVars>>,
         NEW r \in Requests, NEW step \in {"slug", "owner", "commit", "slug_taken", "email_taken"},
         r \notin registered, pc[r] # "start", pc' = [pc EXCEPT ![r] = step],
         InsertedRows', ReadsBefore', SlugRefusalsExplained'
  PROVE  RegInv'
<1>1. Typed'
  <2>1. MailTypeOK'
    BY DEF RegInv, Typed, MailTypeOK, mailVars
  <2> QED
    BY <2>1 DEF RegInv, Typed, Steps, Emails, Bases
<1>2. CommittedByStep' /\ UniqueRows'
  BY DEF RegInv, Typed, CommittedByStep, UniqueRows
<1> QED
  BY <1>1, <1>2 DEF RegInv

\* A request that reads no account of its address was overtaken by none.
LEMMA ReadEmailKeepsInv ==
  ASSUME RegInv, NEW r \in Requests, ReadEmail(r)
  PROVE  RegInv'
<1>1. pc[r] = "email" /\ r \notin registered /\ pc \in [Requests -> Steps]
  BY DEF ReadEmail, Go, RegInv, Typed, CommittedByStep
<1>2. MailTypeOK' /\ UNCHANGED <<email, base, slug, before, registered, mailVars>>
  BY DEF ReadEmail, RegInv, Typed, MailTypeOK, mailVars
<1>3. CASE \E step \in {"issue", "answered"} : pc' = [pc EXCEPT ![r] = step]
  BY <1>1, <1>2, <1>3, MoveKeepsInv
<1>4. CASE pc' = [pc EXCEPT ![r] = "slug"] /\ \A s \in registered : email[s] # email[r]
  <2>1. pc'[r] = "slug" /\ \A s \in Requests : s # r => pc'[s] = pc[s]
    BY <1>1, <1>4
  <2>2. InsertedRows'
    BY <1>2, <2>1 DEF RegInv, InsertedRows, Inserted, Chosen
  <2>3. ReadsBefore'
    BY <1>1, <1>2, <1>4, <2>1 DEF RegInv, ReadsBefore, Inserted, Chosen
  <2>4. SlugRefusalsExplained'
    BY <1>2, <2>1 DEF RegInv, SlugRefusalsExplained
  <2> QED
    BY <1>1, <1>2, <1>4, <2>2, <2>3, <2>4, StepKeepsInv
<1> QED
  BY <1>3, <1>4 DEF ReadEmail, Go

\* A slug that is chosen is free, unless it was cut and no longer begins with the
\* base.
LEMMA ChooseSlugKeepsInv ==
  ASSUME RegInv, NEW r \in Requests, ChooseSlug(r)
  PROVE  RegInv'
<1> DEFINE chosen == UniqueSlug(base[r], TakenSlugs(Slugs, base[r]))
           step == IF chosen = NoSlug THEN "error" ELSE "organization"
<1>1. pc[r] = "slug" /\ r \notin registered /\ pc' = [pc EXCEPT ![r] = step]
  BY DEF ChooseSlug, Go, RegInv, CommittedByStep
<1>2. UNCHANGED <<email, base, before, registered, mailVars>> /\ slug' = [slug EXCEPT ![r] = chosen]
  BY DEF ChooseSlug
<1>3. IsPrefix(Root(base[r]), chosen) /\ chosen # NoSlug =>
        chosen \notin Existing /\ \A s \in registered : slug[s] # chosen
  BY UniqueSlugIsFree DEF Slugs
<1> HIDE DEF chosen
<1>4. pc'[r] = step /\ slug'[r] = chosen
  BY <1>1, <1>2 DEF RegInv, Typed
<1>5. \A s \in Requests : s # r => pc'[s] = pc[s] /\ slug'[s] = slug[s]
  BY <1>1, <1>2 DEF RegInv, Typed
<1>6. Typed'
  <2>1. MailTypeOK'
    BY <1>2 DEF RegInv, Typed, MailTypeOK, mailVars
  <2>2. pc' \in [Requests -> Steps] /\ slug' = [s \in Requests |-> slug'[s]]
    BY <1>1, <1>2 DEF RegInv, Typed, Steps
  <2> QED
    BY <1>2, <2>1, <2>2 DEF RegInv, Typed, Emails, Bases
<1>7. CommittedByStep' /\ UniqueRows'
  BY <1>1, <1>2, <1>5 DEF RegInv, Typed, CommittedByStep, UniqueRows
<1>8. InsertedRows'
  BY <1>1, <1>2, <1>4, <1>5 DEF RegInv, Typed, InsertedRows, Inserted, Chosen
<1>9. ReadsBefore'
  <2> SUFFICES ASSUME NEW s \in Requests
               PROVE  /\ before[s] \subseteq registered
                      /\ pc'[s] \in {"slug"} \cup Chosen =>
                           \A t \in before[s] : email[t] # email[s]
                      /\ pc'[s] \in Chosen /\ IsPrefix(Root(base[s]), slug'[s]) =>
                           slug'[s] \notin Existing /\ \A t \in before[s] : slug'[t] # slug'[s]
    BY <1>2 DEF ReadsBefore
  <2>1. before[s] \subseteq registered /\ r \notin before[s] /\ \A t \in before[s] : slug'[t] = slug[t]
    BY <1>1, <1>5 DEF RegInv, Typed, ReadsBefore
  <2>2. CASE s = r
    BY <1>1, <1>3, <1>4, <2>1, <2>2 DEF RegInv, ReadsBefore, Inserted, Chosen
  <2>3. CASE s # r
    BY <1>5, <2>1, <2>3 DEF RegInv, ReadsBefore
  <2> QED
    BY <2>2, <2>3
<1>10. SlugRefusalsExplained'
  <2>1. \A s \in registered : slug'[s] = slug[s]
    BY <1>1, <1>5 DEF RegInv, Typed
  <2> QED
    BY <1>2, <1>4, <1>5, <2>1 DEF RegInv, Typed, SlugRefusalsExplained
<1> QED
  BY <1>6, <1>7, <1>8, <1>9, <1>10 DEF RegInv

\* An organization's row waits for the open one of its slug; it is refused for one
\* that was not committed when the request began, or for a slug that was cut.
LEMMA InsertOrganizationKeepsInv ==
  ASSUME RegInv, NEW r \in Requests, InsertOrganization(r)
  PROVE  RegInv'
<1>1. /\ pc[r] = "organization" /\ r \notin registered
      /\ UNCHANGED <<email, base, slug, before, registered, mailVars>>
      /\ \A s \in Requests : pc[s] \in Inserted => slug[s] # slug[r]
  BY DEF InsertOrganization, Insert, Go, RegInv, CommittedByStep, Inserted
<1>2. CASE slug[r] \in Slugs /\ pc' = [pc EXCEPT ![r] = "slug_taken"]
  <2>1. pc'[r] = "slug_taken" /\ \A s \in Requests : s # r => pc'[s] = pc[s]
    BY <1>2 DEF RegInv, Typed
  <2>2. InsertedRows'
    BY <1>1, <2>1 DEF RegInv, InsertedRows, Inserted, Chosen
  <2>3. ReadsBefore'
    BY <1>1, <2>1 DEF RegInv, ReadsBefore, Inserted, Chosen
  <2>4. IsPrefix(Root(base[r]), slug[r]) => \E s \in registered \ before[r] : slug[s] = slug[r]
    BY <1>1, <1>2 DEF RegInv, ReadsBefore, Chosen, Slugs
  <2>5. SlugRefusalsExplained'
    BY <1>1, <2>1, <2>4 DEF RegInv, SlugRefusalsExplained
  <2> QED
    BY <1>1, <1>2, <2>2, <2>3, <2>5, StepKeepsInv
<1>3. CASE slug[r] \notin Slugs /\ pc' = [pc EXCEPT ![r] = "owner"]
  <2>1. pc'[r] = "owner" /\ \A s \in Requests : s # r => pc'[s] = pc[s]
    BY <1>3 DEF RegInv, Typed
  <2>2. InsertedRows'
    BY <1>1, <1>3, <2>1 DEF RegInv, InsertedRows, Inserted, Chosen, Slugs
  <2>3. ReadsBefore'
    BY <1>1, <2>1 DEF RegInv, ReadsBefore, Inserted, Chosen
  <2>4. SlugRefusalsExplained'
    BY <1>1, <2>1 DEF RegInv, SlugRefusalsExplained
  <2> QED
    BY <1>1, <1>3, <2>2, <2>3, <2>4, StepKeepsInv
<1> QED
  BY <1>2, <1>3 DEF InsertOrganization, Insert, Go

\* An owner's row waits for the open one of its address.
LEMMA InsertOwnerKeepsInv ==
  ASSUME RegInv, NEW r \in Requests, InsertOwner(r)
  PROVE  RegInv'
<1>1. /\ pc[r] = "owner" /\ r \notin registered
      /\ UNCHANGED <<email, base, slug, before, registered, mailVars>>
      /\ \A s \in Requests : pc[s] = "commit" => email[s] # email[r]
  BY DEF InsertOwner, Insert, Go, RegInv, CommittedByStep
<1>2. CASE (\E s \in registered : email[s] = email[r]) /\ pc' = [pc EXCEPT ![r] = "email_taken"]
  <2>1. pc'[r] = "email_taken" /\ \A s \in Requests : s # r => pc'[s] = pc[s]
    BY <1>2 DEF RegInv, Typed
  <2>2. InsertedRows'
    BY <1>1, <2>1 DEF RegInv, InsertedRows, Inserted, Chosen
  <2>3. ReadsBefore'
    BY <1>1, <2>1 DEF RegInv, ReadsBefore, Inserted, Chosen
  <2>4. SlugRefusalsExplained'
    BY <1>1, <2>1 DEF RegInv, SlugRefusalsExplained
  <2> QED
    BY <1>1, <1>2, <2>2, <2>3, <2>4, StepKeepsInv
<1>3. CASE (\A s \in registered : email[s] # email[r]) /\ pc' = [pc EXCEPT ![r] = "commit"]
  <2>1. pc'[r] = "commit" /\ \A s \in Requests : s # r => pc'[s] = pc[s]
    BY <1>3 DEF RegInv, Typed
  <2>2. InsertedRows'
    BY <1>1, <1>3, <2>1 DEF RegInv, InsertedRows, Inserted, Chosen
  <2>3. ReadsBefore'
    BY <1>1, <2>1 DEF RegInv, ReadsBefore, Inserted, Chosen
  <2>4. SlugRefusalsExplained'
    BY <1>1, <2>1 DEF RegInv, SlugRefusalsExplained
  <2> QED
    BY <1>1, <1>3, <2>2, <2>3, <2>4, StepKeepsInv
<1> QED
  BY <1>2, <1>3 DEF InsertOwner, Insert, Go

\* What is committed was inserted, and differs from all there is.
LEMMA CommitKeepsInv ==
  ASSUME RegInv, NEW r \in Requests, Commit(r)
  PROVE  RegInv'
<1>1. /\ pc[r] = "commit" /\ r \notin registered /\ registered' = registered \cup {r}
      /\ UNCHANGED <<email, base, slug, before, mailVars>>
      /\ pc' = [pc EXCEPT ![r] = "mail"]
  BY DEF Commit, Go, RegInv, CommittedByStep
<1>2. pc'[r] = "mail" /\ \A s \in Requests : s # r => pc'[s] = pc[s]
  BY <1>1 DEF RegInv, Typed
<1>3. Typed'
  <2>1. MailTypeOK'
    BY <1>1 DEF RegInv, Typed, MailTypeOK, mailVars
  <2> QED
    BY <1>1, <2>1 DEF RegInv, Typed, Steps, Emails, Bases
<1>4. CommittedByStep'
  BY <1>1, <1>2 DEF RegInv, Typed, CommittedByStep
<1>5. slug[r] \notin Existing \cup {NoSlug} /\ \A s \in registered : slug[s] # slug[r] /\ email[s] # email[r]
  BY <1>1 DEF RegInv, InsertedRows, Inserted, Chosen
<1>6. UniqueRows'
  BY <1>1, <1>5 DEF RegInv, UniqueRows
<1>7. InsertedRows'
  BY <1>1, <1>2 DEF RegInv, InsertedRows, Inserted, Chosen
<1>8. ReadsBefore'
  BY <1>1, <1>2 DEF RegInv, ReadsBefore, Inserted, Chosen
<1>9. SlugRefusalsExplained'
  BY <1>1, <1>2 DEF RegInv, SlugRefusalsExplained
<1> QED
  BY <1>3, <1>4, <1>6, <1>7, <1>8, <1>9 DEF RegInv

\* The steps of a request that mails, and the end of one that is aborted.
LEMMA MailingKeepsInv ==
  ASSUME RegInv, NEW r \in Requests,
         IssueLink(r) \/ Enqueue(r) \/ EnqueueRaises(r) \/ SendInline(r) \/ Abort(r)
  PROVE  RegInv'
<1>1. MailTypeOK /\ UNCHANGED <<email, base, slug, before, registered>>
  BY DEF RegInv, Typed, IssueLink, Enqueue, EnqueueRaises, SendInline, Abort
<1>2. r \in registered => pc[r] \in {"mail", "inline", "answered", "died"}
  BY DEF RegInv, CommittedByStep
<1>3. CASE IssueLink(r)
  <2>1. MailTypeOK'
    BY <1>1, <1>3 DEF IssueLink, MailTypeOK, mailVars
  <2> QED
    BY <1>1, <1>3, <2>1, MoveKeepsInv DEF IssueLink, Go
<1>4. CASE Enqueue(r) \/ EnqueueRaises(r)
  <2>1. MailTypeOK'
    BY <1>1, <1>4, EnqueuedKeepsType DEF Enqueue, EnqueueRaises
  <2> QED
    BY <1>1, <1>4, <2>1, MoveKeepsInv DEF Enqueue, EnqueueRaises, Go
<1>5. CASE SendInline(r)
  <2>1. MailTypeOK'
    BY <1>1, <1>5, SentKeepsType DEF SendInline, MailTypeOK, Kinds
  <2> QED
    BY <1>1, <1>5, <2>1, MoveKeepsInv DEF SendInline, Go
<1>6. CASE Abort(r)
  <2>1. MailTypeOK'
    BY <1>1, <1>6 DEF Abort, MailTypeOK, mailVars
  <2> QED
    BY <1>1, <1>2, <1>6, <2>1, MoveKeepsInv DEF Abort, Go
<1> QED
  BY <1>3, <1>4, <1>5, <1>6

\* The invariant is inductive.
LEMMA RegistrationInvariant == RegSpec => []RegInv
<1>1. RegInit => RegInv
  <2> SUFFICES ASSUME RegInit PROVE RegInv
    OBVIOUS
  <2>1. MailTypeOK
    BY MailAssumption DEF RegInit, MailInit, MailTypeOK
  <2>2. Typed
    BY <2>1 DEF RegInit, Typed, Steps
  <2> QED
    BY <2>2 DEF RegInit, RegInv, CommittedByStep, UniqueRows, InsertedRows, ReadsBefore,
                SlugRefusalsExplained, Inserted, Chosen
<1>2. RegInv /\ [RegNext]_vars => RegInv'
  <2> SUFFICES ASSUME RegInv, [RegNext]_vars PROVE RegInv'
    OBVIOUS
  <2>1. ASSUME NEW r \in Requests, Receive(r) \/ Handle(r) \/ Abort(r) PROVE RegInv'
    BY <2>1, ReceiveKeepsInv, ReadEmailKeepsInv, ChooseSlugKeepsInv, InsertOrganizationKeepsInv,
       InsertOwnerKeepsInv, CommitKeepsInv, MailingKeepsInv DEF Handle
  <2>2. CASE UNCHANGED regVars /\ MailTypeOK'
    <3>1. UNCHANGED <<pc, email, base, slug, before, registered>>
      BY <2>2 DEF regVars
    <3>2. Typed'
      BY <2>2, <3>1 DEF RegInv, Typed, Emails, Bases
    <3>3. CommittedByStep' /\ UniqueRows' /\ InsertedRows'
      BY <3>1 DEF RegInv, CommittedByStep, UniqueRows, InsertedRows
    <3>4. ReadsBefore'
      BY <3>1 DEF RegInv, ReadsBefore
    <3>5. SlugRefusalsExplained'
      BY <3>1 DEF RegInv, SlugRefusalsExplained
    <3> QED
      BY <3>2, <3>3, <3>4, <3>5 DEF RegInv
  <2>3. CASE MailNext /\ UNCHANGED regVars
    BY <2>2, <2>3, MailNextKeepsType DEF RegInv, Typed
  <2>4. CASE UNCHANGED vars
    BY <2>2, <2>4 DEF vars, mailVars, RegInv, Typed, MailTypeOK
  <2> QED
    BY <2>1, <2>3, <2>4 DEF RegNext
<1> QED
  BY <1>1, <1>2, PTL DEF RegSpec

\* RegTypeOK is an invariant: whatever registrations overlap, fail and
\* are mailed, no two organizations share a slug and no two owners an address.
THEOREM RegistrationsAreUnique == RegSpec => []RegTypeOK
<1>1. RegInv => RegTypeOK
  BY DEF RegInv, Typed, UniqueRows, RegTypeOK
<1> QED
  BY <1>1, RegistrationInvariant, PTL

\* SlugRefusalsExplained is an invariant: unique_slug's choice is refused only where
\* another registration took it meanwhile, or where it is a slug taken_slugs cannot
\* find, cut so far that it no longer begins with the name's own.
THEOREM SlugRefusalsAreExplained == RegSpec => []SlugRefusalsExplained
<1>1. RegInv => SlugRefusalsExplained
  BY DEF RegInv
<1> QED
  BY <1>1, RegistrationInvariant, PTL
-----------------------------------------------------------------------------
(* How often a mail arrives.                                               *)

\* What may still send the mail of a request: its queued messages, the processes
\* that send it or are about to retry, and its handler.
QueuedMail(r) == {m \in Retries \X Nat : m[2] < queue[r][m[1]]}
Senders(r) == {w \in Workers : sending[w].request = r /\ sending[w].step # "ack"}
Open(r) == IF pc[r] \in Final THEN 0 ELSE 1

\* Each of them has a fault of its own to answer for, but one.
Accounted(r) ==
  /\ IsFiniteSet(QueuedMail(r))
  /\ IsFiniteSet(Senders(r))
  /\ delivered[r] + Cardinality(QueuedMail(r)) + Cardinality(Senders(r)) + Open(r) =< 1 + FaultsOf(r)

AllAccounted == \A r \in Requests : Accounted(r)

If(condition) == IF condition THEN 1 ELSE 0

\* A message more in the queue.
LEMMA PutAddsOne ==
  ASSUME MailTypeOK, NEW r \in Requests, NEW n \in Retries, Put(r, n),
         NEW s \in Requests, IsFiniteSet(QueuedMail(s))
  PROVE  /\ IsFiniteSet(QueuedMail(s)')
         /\ Cardinality(QueuedMail(s)') = Cardinality(QueuedMail(s)) + If(s = r)
<1>1. CASE s = r
  <2> DEFINE m == <<n, queue[r][n]>>
  <2>1. queue[r][n] \in Nat /\ queue[r] \in [Retries -> Nat]
    BY DEF MailTypeOK
  <2>2. queue'[r] = [queue[r] EXCEPT ![n] = @ + 1]
    BY DEF Put, MailTypeOK
  <2>3. QueuedMail(r)' = QueuedMail(r) \cup {m} /\ m \notin QueuedMail(r)
    BY <2>1, <2>2 DEF QueuedMail
  <2> HIDE DEF m
  <2> QED
    BY <1>1, <2>3, FS_AddElement DEF If
<1>2. CASE s # r
  <2>1. queue'[s] = queue[s]
    BY <1>2 DEF Put, MailTypeOK
  <2>2. QueuedMail(s)' = QueuedMail(s)
    BY <2>1 DEF QueuedMail
  <2>3. Cardinality(QueuedMail(s)) \in Nat
    BY FS_CardinalityType
  <2> QED
    BY <1>2, <2>2, <2>3 DEF If
<1> QED
  BY <1>1, <1>2

\* A message taken from it.
LEMMA TakeRemovesOne ==
  ASSUME MailTypeOK, NEW w \in Workers, NEW r \in Requests, NEW n \in Retries, Take(w, r, n),
         NEW s \in Requests, IsFiniteSet(QueuedMail(s))
  PROVE  /\ IsFiniteSet(QueuedMail(s)')
         /\ Cardinality(QueuedMail(s)') = Cardinality(QueuedMail(s)) - If(s = r)
<1>1. CASE s = r
  <2> DEFINE m == <<n, queue[r][n] - 1>>
  <2>1. queue[r][n] \in Nat \ {0} /\ queue[r] \in [Retries -> Nat]
    BY DEF MailTypeOK, Take
  <2>2. queue'[r] = [queue[r] EXCEPT ![n] = @ - 1]
    BY DEF Take, MailTypeOK
  <2>3. QueuedMail(r)' = QueuedMail(r) \ {m} /\ m \in QueuedMail(r)
    BY <2>1, <2>2 DEF QueuedMail
  <2> HIDE DEF m
  <2> QED
    BY <1>1, <2>3, FS_RemoveElement DEF If
<1>2. CASE s # r
  <2>1. queue'[s] = queue[s]
    BY <1>2 DEF Take, MailTypeOK
  <2>2. QueuedMail(s)' = QueuedMail(s)
    BY <2>1 DEF QueuedMail
  <2>3. Cardinality(QueuedMail(s)) \in Nat
    BY FS_CardinalityType
  <2> QED
    BY <1>2, <2>2, <2>3 DEF If
<1> QED
  BY <1>1, <1>2

\* A process goes on to something else.
LEMMA SendersChange ==
  ASSUME MailTypeOK, NEW w \in Workers, NEW to, sending' = [sending EXCEPT ![w] = to],
         NEW s \in Requests, IsFiniteSet(Senders(s))
  PROVE  /\ IsFiniteSet(Senders(s)')
         /\ Cardinality(Senders(s)') =
              Cardinality(Senders(s)) - If(w \in Senders(s)) + If(to.request = s /\ to.step # "ack")
<1> DEFINE rest == Senders(s) \ {w}
<1>1. IsFiniteSet(rest) /\ Cardinality(rest) = Cardinality(Senders(s)) - If(w \in Senders(s))
  <2>1. Cardinality(Senders(s)) \in Nat
    BY FS_CardinalityType
  <2>2. w \notin Senders(s) => rest = Senders(s)
    OBVIOUS
  <2> QED
    BY <2>1, <2>2, FS_RemoveElement DEF If
<1>2. sending'[w] = to /\ \A v \in Workers : v # w => sending'[v] = sending[v]
  BY DEF MailTypeOK
<1>3. Senders(s)' = IF to.request = s /\ to.step # "ack" THEN rest \cup {w} ELSE rest
  BY <1>2 DEF Senders
<1>4. w \notin rest
  OBVIOUS
<1>5. Cardinality(rest) \in Nat
  BY <1>1, FS_CardinalityType
<1> HIDE DEF rest
<1>6. CASE to.request = s /\ to.step # "ack"
  <2>1. IsFiniteSet(rest \cup {w}) /\ Cardinality(rest \cup {w}) = Cardinality(rest) + 1
    BY <1>1, <1>4, FS_AddElement
  <2> QED
    BY <1>1, <1>3, <1>6, <2>1 DEF If
<1>7. CASE ~ (to.request = s /\ to.step # "ack")
  BY <1>1, <1>3, <1>5, <1>7 DEF If
<1> QED
  BY <1>6, <1>7

\* A fault more.
LEMMA FaultAddsOne ==
  ASSUME MailTypeOK, NEW r \in Requests, NEW kind \in Kinds, Fault(r, kind), NEW s \in Requests
  PROVE  FaultsOf(s)' = FaultsOf(s) + If(s = r)
<1>1. faults' = [faults EXCEPT ![r][kind] = @ + 1]
  BY DEF Fault
<1>2. faults \in [Requests -> [Kinds -> Nat]]
  BY DEF MailTypeOK, Kinds
<1>3. CASE s = r
  <2>1. /\ faults[r]["smtp"] \in Nat /\ faults[r]["broker"] \in Nat /\ faults[r]["crash"] \in Nat
        /\ \A k \in Kinds : faults'[r][k] = faults[r][k] + If(k = kind)
    BY <1>1, <1>2 DEF Kinds, If
  <2> QED
    BY <1>3, <2>1 DEF FaultsOf, Kinds, If
<1>4. CASE s # r
  <2>1. /\ faults[s]["smtp"] \in Nat /\ faults[s]["broker"] \in Nat /\ faults[s]["crash"] \in Nat
        /\ faults'[s] = faults[s]
    BY <1>1, <1>2, <1>4 DEF Kinds
  <2> QED
    BY <1>4, <2>1 DEF FaultsOf, If
<1> QED
  BY <1>3, <1>4

\* The numbers an account is made of.
LEMMA AccountIsNumbers ==
  ASSUME MailTypeOK, NEW s \in Requests, Accounted(s)
  PROVE  /\ delivered[s] \in Nat /\ Cardinality(QueuedMail(s)) \in Nat
         /\ Cardinality(Senders(s)) \in Nat /\ FaultsOf(s) \in Nat
<1>1. Cardinality(QueuedMail(s)) \in Nat /\ Cardinality(Senders(s)) \in Nat
  BY FS_CardinalityType DEF Accounted
<1>2. faults[s] \in [{"smtp", "broker", "crash"} -> Nat] /\ delivered[s] \in Nat
  BY DEF MailTypeOK
<1> QED
  BY <1>1, <1>2 DEF FaultsOf

\* The account of s after a step that delivers d, queues q, hires n senders and
\* counts f faults, when the handler closes it (c) or not.
LEMMA AccountKept ==
  ASSUME MailTypeOK, NEW s \in Requests, Accounted(s),
         NEW d \in Int, NEW q \in Int, NEW n \in Int, NEW f \in Int, NEW c \in Int,
         d + q + n =< f + c,
         delivered'[s] = delivered[s] + d,
         IsFiniteSet(QueuedMail(s)'), Cardinality(QueuedMail(s)') = Cardinality(QueuedMail(s)) + q,
         IsFiniteSet(Senders(s)'), Cardinality(Senders(s)') = Cardinality(Senders(s)) + n,
         FaultsOf(s)' = FaultsOf(s) + f, Open(s)' =< Open(s) - c
  PROVE  Accounted(s)'
<1>1. /\ delivered[s] \in Nat /\ Cardinality(QueuedMail(s)) \in Nat
      /\ Cardinality(Senders(s)) \in Nat /\ FaultsOf(s) \in Nat
  BY AccountIsNumbers
<1>2. Open(s) \in {0, 1} /\ Open(s)' \in {0, 1}
  BY DEF Open
<1>3. delivered[s] + Cardinality(QueuedMail(s)) + Cardinality(Senders(s)) + Open(s) =< 1 + FaultsOf(s)
  BY DEF Accounted
<1>4. delivered'[s] + Cardinality(QueuedMail(s)') + Cardinality(Senders(s)') + Open(s)' =< 1 + FaultsOf(s)'
  BY <1>1, <1>2, <1>3
<1> QED
  BY <1>4 DEF Accounted

\* What does not touch the mail leaves every account as it is.
LEMMA SameAccount ==
  ASSUME MailTypeOK, NEW s \in Requests, Accounted(s)
  PROVE  /\ UNCHANGED delivered => delivered'[s] = delivered[s] + 0
         /\ UNCHANGED queue => /\ IsFiniteSet(QueuedMail(s)')
                               /\ Cardinality(QueuedMail(s)') = Cardinality(QueuedMail(s)) + 0
         /\ UNCHANGED sending => /\ IsFiniteSet(Senders(s)')
                                 /\ Cardinality(Senders(s)') = Cardinality(Senders(s)) + 0
         /\ UNCHANGED faults => FaultsOf(s)' = FaultsOf(s) + 0
<1>1. /\ delivered[s] \in Nat /\ Cardinality(QueuedMail(s)) \in Nat
      /\ Cardinality(Senders(s)) \in Nat /\ FaultsOf(s) \in Nat
  BY AccountIsNumbers
<1>2. UNCHANGED queue => QueuedMail(s)' = QueuedMail(s)
  BY DEF QueuedMail
<1>3. UNCHANGED sending => Senders(s)' = Senders(s)
  BY DEF Senders
<1>4. UNCHANGED faults => FaultsOf(s)' = FaultsOf(s)
  BY DEF FaultsOf
<1>5. IsFiniteSet(QueuedMail(s)) /\ IsFiniteSet(Senders(s))
  BY DEF Accounted
<1> QED
  BY <1>1, <1>2, <1>3, <1>4, <1>5

\* A delivery more.
LEMMA DeliverAddsOne ==
  ASSUME MailTypeOK, NEW r \in Requests, Deliver(r), NEW s \in Requests
  PROVE  delivered'[s] = delivered[s] + If(s = r)
BY DEF MailTypeOK, Deliver, If

\* The handler of a request keeps the accounts: it is closed by a message that
\* is queued or by a delivery, and what it does twice takes a fault.
LEMMA HandlerKeepsAccounts ==
  ASSUME Typed, AllAccounted, NEW r \in Requests, Receive(r) \/ Handle(r) \/ Abort(r), NEW s \in Requests
  PROVE  Accounted(s)'
<1> DEFINE one == If(s = r)
<1>1. MailTypeOK /\ Accounted(s) /\ IsFiniteSet(QueuedMail(s)) /\ one \in {0, 1} /\ "open" \notin Final
  BY DEF AllAccounted, Typed, Accounted, If, Final
<1>2. PICK to \in Steps : pc' = [pc EXCEPT ![r] = to] /\ pc[r] \notin Final
  BY DEF Receive, Handle, ReadEmail, ChooseSlug, InsertOrganization, InsertOwner, Insert, Commit,
         IssueLink, Enqueue, EnqueueRaises, SendInline, Abort, Go, Steps, Final
<1>3. Open(s)' =< Open(s) - 0 /\ (pc'[r] \in Final => Open(s)' =< Open(s) - one)
  BY <1>2 DEF Typed, Open, If
<1>4. 0 \in Retries
  BY MailAssumption DEF Retries
<1>5. pc[r] \in Steps /\ pc'[r] = to
  BY <1>2 DEF Typed
<1>6. CASE UNCHANGED mailVars
  <2>1. UNCHANGED <<queue, sending, delivered, faults>>
    BY <1>6 DEF mailVars
  <2> QED
    BY <1>1, <1>3, <2>1, SameAccount, AccountKept
<1>7. CASE Enqueue(r)
  <2>1. Put(r, 0) /\ UNCHANGED <<sending, delivered, faults>> /\ pc'[r] \in Final
    BY <1>7 DEF Enqueue, Enqueued, Go, Typed, Final
  <2>2. /\ IsFiniteSet(QueuedMail(s)')
        /\ Cardinality(QueuedMail(s)') = Cardinality(QueuedMail(s)) + one
    BY <1>1, <1>4, <2>1, PutAddsOne
  <2>3. 0 + one + 0 =< 0 + one /\ 0 \in Int /\ one \in Int
    BY <1>1
  <2> HIDE DEF one
  <2> QED
    BY <1>1, <1>3, <2>1, <2>2, <2>3, SameAccount, AccountKept
<1>8. CASE EnqueueRaises(r)
  <2>1. Fault(r, "broker") /\ (Put(r, 0) \/ UNCHANGED queue) /\ UNCHANGED <<sending, delivered>>
    BY <1>8 DEF EnqueueRaises, NotEnqueued
  <2>2. PICK q \in {0, one} : /\ IsFiniteSet(QueuedMail(s)')
                              /\ Cardinality(QueuedMail(s)') = Cardinality(QueuedMail(s)) + q
    BY <1>1, <1>4, <2>1, PutAddsOne, SameAccount
  <2>3. FaultsOf(s)' = FaultsOf(s) + one
    BY <1>1, <2>1, FaultAddsOne DEF Kinds
  <2>4. 0 + q + 0 =< one + 0 /\ 0 \in Int /\ q \in Int /\ one \in Int
    BY <1>1
  <2> HIDE DEF one
  <2> QED
    BY <1>1, <1>3, <2>1, <2>2, <2>3, <2>4, SameAccount, AccountKept
<1>9. CASE SendInline(r)
  <2>1. UNCHANGED <<queue, sending>> /\ pc'[r] \in Final
    BY <1>9 DEF SendInline, Go, Typed, Final
  <2>2. CASE Sent(r)
    <3>1. delivered'[s] = delivered[s] + one /\ UNCHANGED faults
      BY <1>1, <2>2, DeliverAddsOne DEF Sent
    <3>2. one + 0 + 0 =< 0 + one /\ 0 \in Int /\ one \in Int
      BY <1>1
    <3> HIDE DEF one
    <3> QED
      BY <1>1, <1>3, <2>1, <3>1, <3>2, SameAccount, AccountKept
  <2>3. CASE NotSent(r)
    <3>1. PICK d \in {0, one} : delivered'[s] = delivered[s] + d
      BY <1>1, <2>3, DeliverAddsOne, SameAccount DEF NotSent
    <3>2. FaultsOf(s)' = FaultsOf(s) + one
      BY <1>1, <2>3, FaultAddsOne DEF NotSent, Kinds
    <3>3. d + 0 + 0 =< one + 0 /\ 0 \in Int /\ d \in Int /\ one \in Int
      BY <1>1
    <3> HIDE DEF one
    <3> QED
      BY <1>1, <1>3, <2>1, <3>1, <3>2, <3>3, SameAccount, AccountKept
  <2> QED
    BY <1>9, <2>2, <2>3 DEF SendInline
<1> QED
  BY <1>6, <1>7, <1>8, <1>9
     DEF Receive, Handle, ReadEmail, ChooseSlug, InsertOrganization, InsertOwner, Insert, Commit,
         IssueLink, Abort

\* A process keeps them: it takes a message for every delivery, and what it
\* delivers or queues besides takes a fault.
LEMMA TaskKeepsAccounts ==
  ASSUME Typed, AllAccounted, MailNext, UNCHANGED regVars, NEW s \in Requests
  PROVE  Accounted(s)'
<1> DEFINE Mailing == [request : Requests, retries : Retries, step : {"send", "retry", "ack"}]
<1>1. PICK w \in Workers : TakeAny(w) \/ Work(w) \/ CrashMailing(w)
  BY DEF MailNext
<1>2. /\ MailTypeOK /\ Accounted(s) /\ IsFiniteSet(QueuedMail(s)) /\ IsFiniteSet(Senders(s))
      /\ sending[w] \in Mailing \cup {Idle}
  BY DEF AllAccounted, Typed, Accounted, MailTypeOK
<1>3. Open(s)' =< Open(s) - 0
  BY DEF regVars, Open
<1>4. Idle.request # s /\ Idle.step = "idle"
  BY MailAssumption DEF Idle
<1>5. CASE TakeAny(w)
  <2>1. PICK r \in Requests, n \in Retries : Take(w, r, n)
    BY <1>5 DEF TakeAny
  <2> DEFINE one == If(s = r)
             to == [request |-> r, retries |-> n, step |-> "send"]
  <2>2. /\ IsFiniteSet(QueuedMail(s)')
        /\ Cardinality(QueuedMail(s)') = Cardinality(QueuedMail(s)) - one
    BY <1>2, <2>1, TakeRemovesOne
  <2>3. sending' = [sending EXCEPT ![w] = to] /\ UNCHANGED <<delivered, faults>> /\ w \notin Senders(s)
    BY <1>4, <2>1 DEF Take, Senders
  <2>4. /\ IsFiniteSet(Senders(s)')
        /\ Cardinality(Senders(s)') =
             Cardinality(Senders(s)) - If(w \in Senders(s)) + If(to.request = s /\ to.step # "ack")
    BY <1>2, <2>3, SendersChange
  <2>5. If(w \in Senders(s)) = 0 /\ If(to.request = s /\ to.step # "ack") = one /\ one \in {0, 1}
    BY <2>3 DEF If
  <2> HIDE DEF one, to
  <2>6. /\ Cardinality(QueuedMail(s)') = Cardinality(QueuedMail(s)) + (0 - one)
        /\ Cardinality(Senders(s)') = Cardinality(Senders(s)) + one
    BY <1>2, <2>2, <2>4, <2>5, AccountIsNumbers
  <2>7. 0 + (0 - one) + one =< 0 + 0 /\ 0 \in Int /\ one \in Int /\ 0 - one \in Int
    BY <2>5
  <2> QED
    BY <1>2, <1>3, <2>2, <2>3, <2>4, <2>6, <2>7, SameAccount, AccountKept
<1>6. ASSUME NEW to, sending' = [sending EXCEPT ![w] = to],
             NEW d \in Int, NEW q \in Int, NEW f \in Int,
             d + q + If(to.request = s /\ to.step # "ack") =< f + If(w \in Senders(s)),
             delivered'[s] = delivered[s] + d, FaultsOf(s)' = FaultsOf(s) + f,
             IsFiniteSet(QueuedMail(s)'), Cardinality(QueuedMail(s)') = Cardinality(QueuedMail(s)) + q
      PROVE  Accounted(s)'
  <2> DEFINE old == If(w \in Senders(s))
             new == If(to.request = s /\ to.step # "ack")
  <2>1. /\ IsFiniteSet(Senders(s)')
        /\ Cardinality(Senders(s)') = Cardinality(Senders(s)) - old + new
    BY <1>2, <1>6, SendersChange
  <2>2. old \in {0, 1} /\ new \in {0, 1} /\ d + q + new =< f + old
    BY <1>6 DEF If
  <2> HIDE DEF old, new
  <2>3. Cardinality(Senders(s)') = Cardinality(Senders(s)) + (new - old)
    BY <1>2, <2>1, <2>2, AccountIsNumbers
  <2>4. d + q + (new - old) =< f + 0 /\ 0 \in Int /\ new - old \in Int
    BY <1>6, <2>2
  <2> QED
    BY <1>2, <1>3, <1>6, <2>1, <2>3, <2>4, AccountKept
<1>7. CASE Work(w) \/ CrashMailing(w)
  <2> DEFINE r == sending[w].request
             one == If(s = r)
  <2>1. sending[w] \in Mailing
    BY <1>2, <1>4, <1>7 DEF Work, Send, Retry, Ack, Step, CrashMailing
  <2>2. r \in Requests /\ sending[w].retries \in Retries /\ one \in {0, 1}
        /\ If(w \in Senders(s)) \in {0, 1} /\ 0 \in Int /\ one \in Int
    BY <2>1 DEF If
  <2>3. sending[w].step # "ack" => If(w \in Senders(s)) = one
    BY DEF Senders, If
  <2>4. ASSUME NEW step \in {"ack", "retry"}, Goto(w, step)
        PROVE  \E to : /\ sending' = [sending EXCEPT ![w] = to]
                       /\ If(to.request = s /\ to.step # "ack") = IF step = "ack" THEN 0 ELSE one
    <3> DEFINE to == [sending[w] EXCEPT !.step = step]
    <3>1. sending' = [sending EXCEPT ![w] = to]
      BY <2>4 DEF Goto
    <3>2. to.request = r /\ to.step = step
      BY <2>1
    <3> HIDE DEF to
    <3>3. If(to.request = s /\ to.step # "ack") = IF step = "ack" THEN 0 ELSE one
      BY <3>2 DEF If
    <3> QED
      BY <3>1, <3>3
  <2>5. CASE Send(w) /\ Goto(w, "ack") /\ Sent(r)
    <3>1. delivered'[s] = delivered[s] + one /\ UNCHANGED <<queue, faults>> /\ sending[w].step = "send"
      BY <1>2, <2>2, <2>5, DeliverAddsOne DEF Send, Sent, Step
    <3>2. PICK to : /\ sending' = [sending EXCEPT ![w] = to]
                    /\ If(to.request = s /\ to.step # "ack") = 0
      BY <2>4, <2>5
    <3>3. one + 0 + 0 =< 0 + If(w \in Senders(s))
      BY <2>2, <2>3, <3>1
    <3> HIDE DEF one
    <3> QED
      BY <1>2, <1>6, <2>2, <3>1, <3>2, <3>3, SameAccount
  <2>6. CASE Send(w) /\ Goto(w, "retry") /\ NotSent(r)
    <3>1. UNCHANGED queue /\ sending[w].step = "send"
      BY <2>6 DEF Send, Step
    <3>2. PICK d \in {0, one} : delivered'[s] = delivered[s] + d
      BY <1>2, <2>2, <2>6, DeliverAddsOne, SameAccount DEF NotSent
    <3>3. FaultsOf(s)' = FaultsOf(s) + one
      BY <1>2, <2>2, <2>6, FaultAddsOne DEF NotSent, Kinds
    <3>4. PICK to : /\ sending' = [sending EXCEPT ![w] = to]
                    /\ If(to.request = s /\ to.step # "ack") = one
      BY <2>4, <2>6
    <3>5. d + 0 + one =< one + If(w \in Senders(s)) /\ d \in Int
      BY <2>2, <2>3, <3>1
    <3> HIDE DEF one
    <3> QED
      BY <1>2, <1>6, <2>2, <3>1, <3>2, <3>3, <3>4, <3>5, SameAccount
  <2>7. CASE Retry(w)
    <3>1. UNCHANGED delivered /\ sending[w].step = "retry"
      BY <2>7 DEF Retry, Step
    <3>2. PICK to : /\ sending' = [sending EXCEPT ![w] = to]
                    /\ If(to.request = s /\ to.step # "ack") = 0
      BY <2>4, <2>7 DEF Retry
    <3>3. PICK q \in {0, one} : /\ IsFiniteSet(QueuedMail(s)')
                                /\ Cardinality(QueuedMail(s)') = Cardinality(QueuedMail(s)) + q
      <4>1. sending[w].retries < MaxRetries => sending[w].retries + 1 \in Retries
        BY <2>2, MailAssumption DEF Retries
      <4>2. UNCHANGED queue \/ \E n \in Retries : Put(r, n)
        BY <2>7, <4>1 DEF Retry
      <4> QED
        BY <1>2, <2>2, <4>2, PutAddsOne, SameAccount
    <3>4. PICK f \in {0, one} : FaultsOf(s)' = FaultsOf(s) + f
      BY <1>2, <2>2, <2>7, FaultAddsOne, SameAccount DEF Retry, Kinds
    <3>5. /\ 0 + q + If(to.request = s /\ to.step # "ack") =< f + If(w \in Senders(s))
          /\ q \in Int /\ f \in Int
      BY <2>2, <2>3, <3>1, <3>2
    <3>6. delivered'[s] = delivered[s] + 0
      BY <1>2, <3>1, SameAccount
    <3> QED
      BY <1>6, <2>2, <3>2, <3>3, <3>4, <3>5, <3>6
  <2>8. CASE Ack(w)
    <3>1. UNCHANGED <<queue, delivered, faults>> /\ sending' = [sending EXCEPT ![w] = Idle]
      BY <2>8 DEF Ack
    <3>2. 0 + 0 + If(Idle.request = s /\ Idle.step # "ack") =< 0 + If(w \in Senders(s))
      BY <1>4, <2>2 DEF If
    <3> QED
      BY <1>2, <1>6, <2>2, <3>1, <3>2, SameAccount
  <2>9. CASE CrashMailing(w)
    <3>1. /\ Fault(r, "crash") /\ Put(r, sending[w].retries) /\ UNCHANGED delivered
          /\ sending' = [sending EXCEPT ![w] = Idle]
      BY <2>9 DEF CrashMailing
    <3>2. /\ IsFiniteSet(QueuedMail(s)')
          /\ Cardinality(QueuedMail(s)') = Cardinality(QueuedMail(s)) + one
      BY <1>2, <2>2, <3>1, PutAddsOne
    <3>3. FaultsOf(s)' = FaultsOf(s) + one
      BY <1>2, <2>2, <3>1, FaultAddsOne DEF Kinds
    <3>4. 0 + one + If(Idle.request = s /\ Idle.step # "ack") =< one + If(w \in Senders(s))
      BY <1>4, <2>2 DEF If
    <3> HIDE DEF one
    <3> QED
      BY <1>2, <1>6, <2>2, <3>1, <3>2, <3>3, <3>4, SameAccount
  <2> QED
    BY <1>7, <2>5, <2>6, <2>7, <2>8, <2>9 DEF Work, Send
<1> QED
  BY <1>1, <1>5, <1>7

\* DuplicatesNeedFaults is an invariant: however handlers and processes
\* interleave, crash and retry, a mail reaches the server at most once, and once
\* more for each fault of the server, the broker or a process.
THEOREM DuplicatesAreFaults == RegSpec => []DuplicatesNeedFaults
<1>1. RegInit => AllAccounted
  <2> SUFFICES ASSUME RegInit, NEW s \in Requests PROVE Accounted(s)
    BY DEF AllAccounted
  <2>1. QueuedMail(s) = {}
    BY DEF RegInit, MailInit, QueuedMail
  <2>2. Senders(s) = {}
    BY MailAssumption DEF RegInit, MailInit, Senders, Idle
  <2>3. delivered[s] = 0 /\ FaultsOf(s) = 0 /\ Open(s) = 1
    BY DEF RegInit, MailInit, FaultsOf, Open, Final
  <2> QED
    BY <2>1, <2>2, <2>3, FS_EmptySet DEF Accounted
<1>2. RegInv /\ AllAccounted /\ [RegNext]_vars => AllAccounted'
  <2> SUFFICES ASSUME RegInv, AllAccounted, [RegNext]_vars, NEW s \in Requests
               PROVE  Accounted(s)'
    BY DEF AllAccounted
  <2>1. Typed /\ Accounted(s)
    BY DEF RegInv, AllAccounted
  <2>2. CASE UNCHANGED vars
    BY <2>1, <2>2 DEF vars, regVars, mailVars, Accounted, QueuedMail, Senders, Open, FaultsOf
  <2> QED
    BY <2>1, <2>2, HandlerKeepsAccounts, TaskKeepsAccounts DEF RegNext
<1>3. RegInv /\ AllAccounted => DuplicatesNeedFaults
  <2> SUFFICES ASSUME RegInv, NEW s \in Requests, Accounted(s) PROVE delivered[s] =< 1 + FaultsOf(s)
    BY DEF DuplicatesNeedFaults, AllAccounted
  <2>1. /\ delivered[s] \in Nat /\ Cardinality(QueuedMail(s)) \in Nat
        /\ Cardinality(Senders(s)) \in Nat /\ FaultsOf(s) \in Nat
    BY AccountIsNumbers DEF RegInv, Typed
  <2> QED
    BY <2>1 DEF Accounted, Open
<1> QED
  BY <1>1, <1>2, <1>3, RegistrationInvariant, PTL DEF RegSpec
-----------------------------------------------------------------------------
(* Why a mail is missing.                                                  *)

Failures(r) == faults[r]["smtp"]
Refusals(r) == faults[r]["broker"]

\* The handler, a message or a process has yet to send the mail.
Pending(r) ==
  \/ pc[r] \in {"mail", "inline"}
  \/ \E n \in Retries : queue[r][n] > 0
  \/ \E w \in Workers : sending[w].request = r /\ sending[w].step # "ack"

\* What OwnersAreMailed allows for: the process of the API died, the server and
\* the broker both failed the mail, or the server failed it at every attempt.
GivenUp(r) ==
  \/ pc[r] = "died"
  \/ Failures(r) > 0 /\ Refusals(r) > 0
  \/ Failures(r) > MaxRetries

OwnerNotForgotten(r) == r \in registered => Pending(r) \/ delivered[r] > 0 \/ GivenUp(r)

\* No mail is forgotten: one that did not arrive is on its way or given up.
NoOwnerForgotten == \A r \in Requests : OwnerNotForgotten(r)

\* An attempt was preceded by as many failures as it counts, and a mail is sent
\* inline after a refusal.
AttemptsCounted(r) ==
  /\ \A n \in Retries : queue[r][n] > 0 => n =< Failures(r)
  /\ \A w \in Workers : sending[w].request = r =>
       /\ sending[w].retries =< Failures(r)
       /\ sending[w].step = "retry" => sending[w].retries < Failures(r)
  /\ pc[r] = "inline" => Refusals(r) > 0

MailGoesOn(r) == AttemptsCounted(r) /\ OwnerNotForgotten(r)

\* The counts of a request do not shrink, and those of a fault grow.
LEMMA CountsAreNumbers ==
  ASSUME MailTypeOK, NEW s \in Requests
  PROVE  Failures(s) \in Nat /\ Refusals(s) \in Nat
BY DEF MailTypeOK, Failures, Refusals

LEMMA CountsGrow ==
  ASSUME MailTypeOK, NEW r \in Requests, NEW kind \in Kinds, Fault(r, kind), NEW s \in Requests
  PROVE  /\ Failures(s)' = Failures(s) + If(s = r /\ kind = "smtp")
         /\ Refusals(s)' = Refusals(s) + If(s = r /\ kind = "broker")
<1>1. faults \in [Requests -> [Kinds -> Nat]] /\ faults' = [faults EXCEPT ![r][kind] = @ + 1]
  BY DEF MailTypeOK, Kinds, Fault
<1>2. faults[s]["smtp"] \in Nat /\ faults[s]["broker"] \in Nat
  BY <1>1 DEF Kinds
<1>3. \A k \in Kinds : faults'[s][k] = IF s = r /\ k = kind THEN faults[s][k] + 1 ELSE faults[s][k]
  BY <1>1
<1> QED
  BY <1>2, <1>3 DEF Failures, Refusals, Kinds, If

\* A message more, and the other requests as before.
LEMMA PutQueues ==
  ASSUME MailTypeOK, NEW r \in Requests, NEW n \in Retries, Put(r, n)
  PROVE  /\ \A s \in Requests : s # r => queue'[s] = queue[s]
         /\ \A m \in Retries : m # n => queue'[r][m] = queue[r][m]
         /\ queue'[r][n] > 0
BY DEF MailTypeOK, Put

\* A mail more, and none less.
LEMMA DeliverCounts ==
  ASSUME MailTypeOK, NEW r \in Requests, Deliver(r) \/ UNCHANGED delivered, NEW s \in Requests
  PROVE  delivered[s] \in Nat /\ delivered'[s] \in Nat /\ delivered'[s] >= delivered[s] /\ (Deliver(r) => delivered'[r] > 0)
BY DEF MailTypeOK, Deliver

\* The handler of a request leaves its mail to the queue, delivers it, or fails
\* after a refusal and a failure.
LEMMA HandlerGoesOn ==
  ASSUME Typed, CommittedByStep, NEW r \in Requests, Receive(r) \/ Handle(r) \/ Abort(r),
         NEW s \in Requests, MailGoesOn(s)
  PROVE  MailGoesOn(s)'
<1>1. MailTypeOK /\ pc \in [Requests -> Steps] /\ Failures(s) \in Nat /\ Refusals(s) \in Nat
  BY CountsAreNumbers DEF Typed
<1>2. 0 \in Retries
  BY MailAssumption DEF Retries
<1>3. CASE \/ Receive(r) \/ ReadEmail(r) \/ ChooseSlug(r) \/ InsertOrganization(r) \/ InsertOwner(r)
           \/ Commit(r) \/ IssueLink(r) \/ Abort(r)
  <2>1. UNCHANGED <<queue, sending, delivered, faults>>
    BY <1>3 DEF Receive, ReadEmail, ChooseSlug, InsertOrganization, InsertOwner, Insert, Commit,
                IssueLink, Abort, mailVars
  <2>2. \A t \in Requests : t # r => pc'[t] = pc[t] /\ (t \in registered' => t \in registered)
    BY <1>1, <1>3
       DEF Receive, ReadEmail, ChooseSlug, InsertOrganization, InsertOwner, Insert, Commit,
           IssueLink, Abort, Go
  <2>3. pc'[r] # "inline" /\ (r \in registered' => pc'[r] \in {"mail", "died"})
    BY <1>1, <1>3
       DEF Receive, ReadEmail, ChooseSlug, InsertOrganization, InsertOwner, Insert, Commit,
           IssueLink, Abort, Go, CommittedByStep
  <2> QED
    BY <2>1, <2>2, <2>3
       DEF MailGoesOn, AttemptsCounted, OwnerNotForgotten, Pending, GivenUp, Failures, Refusals
<1>4. CASE Enqueue(r) \/ EnqueueRaises(r) \/ SendInline(r)
  <2>1. UNCHANGED <<registered, sending>> /\ \A t \in Requests : t # r => pc'[t] = pc[t]
    BY <1>1, <1>4 DEF Enqueue, EnqueueRaises, SendInline, Enqueued, NotEnqueued, Go
  <2>2. /\ Failures(s)' \in Nat /\ Refusals(s)' \in Nat
        /\ Failures(s)' >= Failures(s) /\ Refusals(s)' >= Refusals(s)
    <3>1. CASE UNCHANGED faults
      BY <1>1, <3>1 DEF Failures, Refusals
    <3>2. CASE \E kind \in Kinds : Fault(r, kind)
      BY <1>1, <3>2, CountsGrow DEF If
    <3> QED
      BY <1>4, <3>1, <3>2
         DEF Enqueue, EnqueueRaises, SendInline, Enqueued, NotEnqueued, Sent, NotSent, Kinds
  <2>3. delivered[s] \in Nat /\ delivered'[s] \in Nat /\ delivered'[s] >= delivered[s]
    BY <1>1, <1>4, DeliverCounts
       DEF Enqueue, EnqueueRaises, SendInline, Enqueued, NotEnqueued, Sent, NotSent
  <2>4. \A n \in Retries : queue'[s][n] > 0 => queue[s][n] > 0 \/ n = 0
    BY <1>1, <1>2, <1>4, PutQueues DEF Enqueue, EnqueueRaises, SendInline, Enqueued, NotEnqueued
  <2>5. \A n \in Retries : queue[s][n] > 0 => queue'[s][n] > 0
    BY <1>1, <1>2, <1>4, PutQueues DEF Enqueue, EnqueueRaises, SendInline, Enqueued, NotEnqueued
  <2>6. AttemptsCounted(s)'
    <3>1. s = r /\ pc'[r] = "inline" => Refusals(r)' > 0
      <4>1. pc'[r] = "inline" => Fault(r, "broker")
        BY <1>1, <1>4 DEF Enqueue, EnqueueRaises, SendInline, NotEnqueued, Go
      <4> QED
        BY <1>1, <4>1, CountsGrow DEF Kinds, If
    <3>2. pc'[s] = "inline" => Refusals(s)' > 0
      BY <1>1, <2>1, <2>2, <3>1 DEF MailGoesOn, AttemptsCounted
    <3>3. \A n \in Retries : queue'[s][n] > 0 => n =< Failures(s)'
      BY <1>1, <2>2, <2>4 DEF MailGoesOn, AttemptsCounted, Retries
    <3>4. \A w \in Workers : sending[w].request = s =>
            sending[w].retries \in Nat /\ sending[w].request \in Requests
      BY <1>1, MailAssumption DEF MailTypeOK, Retries, Idle
    <3>5. \A w \in Workers : sending[w].request = s =>
            /\ sending[w].retries =< Failures(s)'
            /\ sending[w].step = "retry" => sending[w].retries < Failures(s)'
      BY <1>1, <2>2, <3>4 DEF MailGoesOn, AttemptsCounted
    <3> QED
      BY <2>1, <3>2, <3>3, <3>5 DEF AttemptsCounted
  <2>7. OwnerNotForgotten(s)'
    <3>1. CASE s # r
      <4>1. pc'[s] = pc[s]
        BY <2>1, <3>1
      <4>2. Pending(s) => Pending(s)'
        BY <2>1, <2>5, <4>1 DEF Pending
      <4>3. GivenUp(s) => GivenUp(s)'
        BY <1>1, <2>2, <4>1, MailAssumption DEF GivenUp
      <4>4. delivered[s] > 0 => delivered'[s] > 0
        BY <1>1, <2>3
      <4> QED
        BY <2>1, <4>2, <4>3, <4>4 DEF MailGoesOn, OwnerNotForgotten
    <3>2. CASE s = r /\ Enqueue(r)
      BY <1>1, <1>2, <3>2, PutQueues DEF Enqueue, Enqueued, OwnerNotForgotten, Pending
    <3>3. CASE s = r /\ EnqueueRaises(r)
      BY <1>1, <3>3 DEF EnqueueRaises, Go, OwnerNotForgotten, Pending
    <3>4. CASE s = r /\ SendInline(r)
      <4>1. CASE Sent(r)
        BY <1>1, <3>4, <4>1, DeliverCounts DEF Sent, OwnerNotForgotten
      <4>2. CASE NotSent(r)
        <5>1. Failures(r)' > 0
          BY <1>1, <3>4, <4>2, CountsGrow DEF NotSent, Kinds, If
        <5>2. Refusals(r)' > 0
          BY <1>1, <2>2, <3>4 DEF SendInline, Go, MailGoesOn, AttemptsCounted
        <5> QED
          BY <3>4, <5>1, <5>2 DEF OwnerNotForgotten, GivenUp
      <4> QED
        BY <3>4, <4>1, <4>2 DEF SendInline
    <3> QED
      BY <1>4, <3>1, <3>2, <3>3, <3>4
  <2> QED
    BY <2>6, <2>7 DEF MailGoesOn
<1> QED
  BY <1>3, <1>4 DEF Handle
\* What a step of a process leaves to show: the attempt it is at and the mail it
\* is about, when it counts no less and delivers no less.
LEMMA TaskStepGoesOn ==
  ASSUME Typed, UNCHANGED regVars, NEW w \in Workers, NEW to,
         sending' = [sending EXCEPT ![w] = to], NEW s \in Requests, MailGoesOn(s),
         MailTypeOK', Failures(s)' >= Failures(s), Refusals(s)' >= Refusals(s),
         delivered'[s] >= delivered[s],
         to.request = s => to.retries =< Failures(s)' /\ (to.step = "retry" => to.retries < Failures(s)'),
         \A n \in Retries : queue'[s][n] > 0 => n =< Failures(s)',
         (w \in Senders(s) \/ (\E n \in Retries : queue[s][n] > 0 /\ ~ (queue'[s][n] > 0)))
            => OwnerNotForgotten(s)'
  PROVE  MailGoesOn(s)'
<1>1. /\ MailTypeOK /\ MailTypeOK'
      /\ Failures(s) \in Nat /\ Refusals(s) \in Nat /\ Failures(s)' \in Nat /\ Refusals(s)' \in Nat
      /\ delivered[s] \in Nat /\ delivered'[s] \in Nat
  <2>1. MailTypeOK
    BY DEF Typed
  <2>2. Failures(s)' \in Nat /\ Refusals(s)' \in Nat /\ delivered'[s] \in Nat
    BY DEF MailTypeOK, Failures, Refusals
  <2> QED
    BY <2>1, <2>2, CountsAreNumbers DEF MailTypeOK
<1>2. pc' = pc /\ registered' = registered
  BY DEF regVars
<1>3. sending'[w] = to /\ \A v \in Workers : v # w => sending'[v] = sending[v]
  BY <1>1 DEF MailTypeOK
<1>4. AttemptsCounted(s)'
  <2>1. ASSUME NEW v \in Workers, sending'[v].request = s
        PROVE  /\ sending'[v].retries =< Failures(s)'
               /\ sending'[v].step = "retry" => sending'[v].retries < Failures(s)'
    <3>1. CASE v = w
      BY <1>3, <2>1, <3>1
    <3>2. CASE v # w
      <4>1. sending'[v] = sending[v]
        BY <1>3, <3>2
      <4>2. sending[v].retries \in Nat
        <5>1. /\ 0 \in Nat /\ \A n \in Retries : n \in Nat
              /\ \/ sending[v] = Idle
                 \/ sending[v] \in [request : Requests, retries : Retries, step : {"send", "retry", "ack"}]
          BY <1>1 DEF MailTypeOK, Retries
        <5> QED
          BY <5>1 DEF Idle
      <4> QED
        BY <1>1, <2>1, <4>1, <4>2 DEF MailGoesOn, AttemptsCounted
    <3> QED
      BY <3>1, <3>2
  <2>2. pc'[s] = "inline" => Refusals(s)' > 0
    BY <1>1, <1>2 DEF MailGoesOn, AttemptsCounted
  <2> QED
    BY <2>1, <2>2 DEF AttemptsCounted
<1>5. OwnerNotForgotten(s)'
  <2> SUFFICES ASSUME w \notin Senders(s), \A n \in Retries : queue[s][n] > 0 => queue'[s][n] > 0
               PROVE  OwnerNotForgotten(s)'
    OBVIOUS
  <2>1. Pending(s) => Pending(s)'
    BY <1>2, <1>3 DEF Pending, Senders
  <2>2. GivenUp(s) => GivenUp(s)'
    BY <1>1, <1>2, MailAssumption DEF GivenUp
  <2>3. delivered[s] > 0 => delivered'[s] > 0
    BY <1>1
  <2> QED
    BY <1>2, <2>1, <2>2, <2>3 DEF MailGoesOn, OwnerNotForgotten
<1> QED
  BY <1>4, <1>5 DEF MailGoesOn

\* A process keeps a mail on its way until it delivered it or gave it up.
LEMMA TaskGoesOn ==
  ASSUME Typed, MailNext, UNCHANGED regVars, NEW s \in Requests, MailGoesOn(s)
  PROVE  MailGoesOn(s)'
<1> DEFINE Mailing == [request : Requests, retries : Retries, step : {"send", "retry", "ack"}]
<1>1. PICK w \in Workers : TakeAny(w) \/ Work(w) \/ CrashMailing(w)
  BY DEF MailNext
<1>2. /\ MailTypeOK /\ MailTypeOK' /\ sending[w] \in Mailing \cup {Idle}
      /\ Failures(s) \in Nat /\ Refusals(s) \in Nat /\ delivered[s] \in Nat
  BY MailNextKeepsType, CountsAreNumbers DEF Typed, MailTypeOK
<1>3. Idle.request # s /\ Idle.step = "idle"
  BY MailAssumption DEF Idle
<1>4. UNCHANGED faults => Failures(s)' >= Failures(s) /\ Refusals(s)' >= Refusals(s)
  BY <1>2 DEF Failures, Refusals
<1>5. UNCHANGED delivered => delivered'[s] >= delivered[s]
  BY <1>2
<1>6. UNCHANGED queue => \A n \in Retries : queue'[s][n] > 0 <=> queue[s][n] > 0
  OBVIOUS
<1>7. \A n \in Retries : queue[s][n] > 0 => n =< Failures(s)
  BY DEF MailGoesOn, AttemptsCounted
<1>8. \A n \in Retries : n \in Nat
  BY DEF Retries
<1>9. CASE TakeAny(w)
  <2>1. PICK r \in Requests, n \in Retries : Take(w, r, n)
    BY <1>9 DEF TakeAny
  <2> DEFINE to == [request |-> r, retries |-> n, step |-> "send"]
  <2>2. /\ sending' = [sending EXCEPT ![w] = to] /\ UNCHANGED <<delivered, faults>>
        /\ w \notin Senders(s) /\ queue[r][n] > 0
    BY <1>3, <2>1 DEF Take, Senders
  <2>3. \A m \in Retries : queue'[s][m] > 0 => queue[s][m] > 0
    BY <1>2, <2>1 DEF Take, MailTypeOK
  <2>4. /\ \A m \in Retries : queue'[s][m] > 0 => m =< Failures(s)'
        /\ r = s => n =< Failures(s)'
    BY <1>7, <2>2, <2>3 DEF Failures
  <2>5. r # s => queue'[s] = queue[s]
    BY <1>2, <2>1 DEF Take, MailTypeOK
  <2>6. r = s => OwnerNotForgotten(s)'
    <3>1. sending'[w] = to
      BY <1>2, <2>2 DEF MailTypeOK
    <3> QED
      BY <3>1 DEF OwnerNotForgotten, Pending
  <2>7. to.request = r /\ to.retries = n /\ to.step = "send"
    OBVIOUS
  <2> HIDE DEF to
  <2> QED
    BY <1>2, <1>4, <1>5, <2>2, <2>4, <2>5, <2>6, <2>7, TaskStepGoesOn
<1>10. CASE Work(w) \/ CrashMailing(w)
  <2> DEFINE r == sending[w].request
             n == sending[w].retries
  <2>1. sending[w] \in Mailing
    BY <1>2, <1>3, <1>10 DEF Work, Send, Retry, Ack, Step, CrashMailing
  <2>2. r \in Requests /\ n \in Retries /\ n \in Nat
    BY <1>8, <2>1
  <2>3. r = s => n =< Failures(s) /\ (sending[w].step = "retry" => n < Failures(s))
    BY DEF MailGoesOn, AttemptsCounted
  <2>4. w \in Senders(s) => r = s /\ sending[w].step # "ack"
    BY DEF Senders
  <2>5. ASSUME NEW step \in {"ack", "retry"}, Goto(w, step)
        PROVE  \E to : /\ sending' = [sending EXCEPT ![w] = to]
                       /\ to.request = r /\ to.retries = n /\ to.step = step
    <3> DEFINE to == [sending[w] EXCEPT !.step = step]
    <3>1. sending' = [sending EXCEPT ![w] = to]
      BY <2>5 DEF Goto
    <3>2. to.request = r /\ to.retries = n /\ to.step = step
      BY <2>1
    <3> QED
      BY <3>1, <3>2
  <2>6. \A kind \in Kinds : Fault(r, kind) =>
          /\ Failures(s)' >= Failures(s) /\ Refusals(s)' >= Refusals(s)
          /\ s = r /\ kind = "smtp" => Failures(s)' > Failures(s)
          /\ s = r /\ kind = "broker" => Refusals(s)' > 0
          /\ kind # "smtp" => Failures(s)' = Failures(s)
    BY <1>2, <2>2, CountsGrow DEF If
  <2>7. CASE Send(w) /\ Goto(w, "ack") /\ Sent(r)
    <3>1. UNCHANGED <<queue, faults>> /\ Deliver(r)
      BY <2>7 DEF Send, Sent
    <3>2. delivered'[s] >= delivered[s] /\ (r = s => OwnerNotForgotten(s)')
      BY <1>2, <2>2, <3>1, DeliverCounts DEF OwnerNotForgotten
    <3>3. PICK to : /\ sending' = [sending EXCEPT ![w] = to]
                    /\ to.request = r /\ to.retries = n /\ to.step = "ack"
      BY <2>5, <2>7
    <3>4. Failures(s)' = Failures(s)
      BY <3>1 DEF Failures
    <3> HIDE DEF r, n
    <3> QED
      BY <1>2, <1>4, <1>6, <1>7, <2>3, <2>4, <3>1, <3>2, <3>3, <3>4, TaskStepGoesOn
  <2>8. CASE Send(w) /\ Goto(w, "retry") /\ NotSent(r)
    <3>1. UNCHANGED queue /\ Fault(r, "smtp") /\ (Deliver(r) \/ UNCHANGED delivered)
      BY <2>8 DEF Send, NotSent
    <3>2. delivered'[s] >= delivered[s]
      BY <1>2, <2>2, <3>1, DeliverCounts
    <3>3. PICK to : /\ sending' = [sending EXCEPT ![w] = to]
                    /\ to.request = r /\ to.retries = n /\ to.step = "retry"
      BY <2>5, <2>8
    <3>4. r = s => OwnerNotForgotten(s)'
      <4>1. sending'[w] = to
        BY <1>2, <3>3 DEF MailTypeOK
      <4> QED
        BY <3>3, <4>1 DEF OwnerNotForgotten, Pending
    <3>5. /\ Failures(s)' >= Failures(s) /\ Refusals(s)' >= Refusals(s)
          /\ r = s => Failures(s)' > Failures(s)
      BY <2>6, <3>1 DEF Kinds
    <3>6. Failures(s)' \in Nat
      BY <1>2 DEF MailTypeOK, Failures
    <3>7. r = s => n < Failures(s)'
      BY <1>2, <2>2, <2>3, <3>5, <3>6
    <3>8. \A m \in Retries : queue'[s][m] > 0 => m =< Failures(s)'
      BY <1>2, <1>6, <1>7, <1>8, <3>1, <3>5, <3>6
    <3>9. r = s => n =< Failures(s)'
      BY <2>2, <3>6, <3>7
    <3> HIDE DEF r, n
    <3> QED
      BY <1>2, <1>6, <2>4, <3>1, <3>2, <3>3, <3>4, <3>5, <3>7, <3>8, <3>9, TaskStepGoesOn
  <2>9. CASE Ack(w)
    <3>1. /\ UNCHANGED <<queue, delivered, faults>> /\ sending' = [sending EXCEPT ![w] = Idle]
          /\ sending[w].step = "ack"
      BY <2>9 DEF Ack, Step
    <3>2. Failures(s)' = Failures(s)
      BY <3>1 DEF Failures
    <3> HIDE DEF r, n
    <3> QED
      BY <1>2, <1>3, <1>4, <1>5, <1>6, <1>7, <2>4, <3>1, <3>2, TaskStepGoesOn
  <2>10. ASSUME NEW m \in Retries, Put(r, m), UNCHANGED delivered,
                Failures(s)' = Failures(s), Refusals(s)' >= Refusals(s), r = s => m =< Failures(s),
                NEW to, sending' = [sending EXCEPT ![w] = to],
                to.request = s => r = s /\ to.retries = n /\ to.step = "ack"
         PROVE  MailGoesOn(s)'
    <3>1. /\ \A t \in Requests : t # r => queue'[t] = queue[t]
          /\ \A k \in Retries : k # m => queue'[r][k] = queue[r][k]
          /\ queue'[r][m] > 0
      BY <1>2, <2>2, <2>10, PutQueues
    <3>2. r = s => OwnerNotForgotten(s)'
      BY <2>10, <3>1 DEF OwnerNotForgotten, Pending
    <3>3. \A k \in Retries : queue'[s][k] > 0 => k =< Failures(s)'
      BY <1>7, <2>10, <3>1
    <3>4. \A k \in Retries : queue[s][k] > 0 => queue'[s][k] > 0
      BY <3>1
    <3>5. Failures(s)' >= Failures(s)
      BY <1>2, <2>10
    <3> HIDE DEF r, n
    <3> QED
      BY <1>2, <1>5, <2>3, <2>4, <2>10, <3>2, <3>3, <3>4, <3>5, TaskStepGoesOn
  <2>11. CASE Retry(w)
    <3>1. UNCHANGED delivered /\ sending[w].step = "retry"
      BY <2>11 DEF Retry, Step
    <3>2. PICK to : /\ sending' = [sending EXCEPT ![w] = to]
                    /\ to.request = r /\ to.retries = n /\ to.step = "ack"
      BY <2>5, <2>11 DEF Retry
    <3>3. CASE n < MaxRetries /\ Put(r, n + 1) /\ UNCHANGED faults
      <4>1. n + 1 \in Retries /\ (r = s => n + 1 =< Failures(s))
        BY <1>2, <2>2, <2>3, <3>1, <3>3, MailAssumption DEF Retries
      <4>2. Failures(s)' = Failures(s)
        BY <3>3 DEF Failures
      <4> QED
        BY <1>4, <2>10, <3>1, <3>2, <3>3, <4>1, <4>2
    <3>4. CASE UNCHANGED queue /\ (Fault(r, "broker") \/ (n = MaxRetries /\ UNCHANGED faults))
      <4>1. Failures(s)' = Failures(s) /\ Refusals(s)' >= Refusals(s)
        <5>1. CASE UNCHANGED faults
          BY <1>2, <5>1 DEF Failures, Refusals
        <5>2. CASE Fault(r, "broker")
          BY <2>6, <5>2 DEF Kinds
        <5> QED
          BY <3>4, <5>1, <5>2
      <4>2. r = s => GivenUp(s)'
        <5>1. Fault(r, "broker") => (r = s => Refusals(s)' > 0)
          BY <2>6 DEF Kinds
        <5>2. r = s => n < Failures(s)' /\ Failures(s)' > 0
          BY <1>2, <2>2, <2>3, <3>1, <4>1
        <5> QED
          BY <3>4, <5>1, <5>2 DEF GivenUp
      <4>3. r = s => OwnerNotForgotten(s)'
        BY <4>2 DEF OwnerNotForgotten
      <4>4. Failures(s)' >= Failures(s)
        BY <1>2, <4>1
      <4> HIDE DEF r, n
      <4> QED
        BY <1>2, <1>5, <1>6, <1>7, <2>3, <2>4, <3>1, <3>2, <3>4, <4>1, <4>3, <4>4, TaskStepGoesOn
    <3>5. \/ n < MaxRetries /\ Put(r, n + 1) /\ UNCHANGED faults
          \/ UNCHANGED queue /\ (Fault(r, "broker") \/ (n = MaxRetries /\ UNCHANGED faults))
      BY <2>11 DEF Retry
    <3> QED
      BY <3>3, <3>4, <3>5
  <2>12. CASE CrashMailing(w)
    <3>1. /\ Fault(r, "crash") /\ Put(r, n) /\ UNCHANGED delivered
          /\ sending' = [sending EXCEPT ![w] = Idle]
      BY <2>12 DEF CrashMailing
    <3>2. Failures(s)' = Failures(s) /\ Refusals(s)' >= Refusals(s)
      BY <2>6, <3>1 DEF Kinds
    <3> QED
      BY <1>3, <2>2, <2>3, <2>10, <3>1, <3>2
  <2> QED
    BY <1>10, <2>7, <2>8, <2>9, <2>11, <2>12 DEF Work, Send
<1> QED
  BY <1>1, <1>9, <1>10

\* However handlers and processes interleave, crash and retry, the mail
\* of a committed registration is on its way, has arrived, or was given up by the
\* code: its handler died, the server and the broker both failed it, or the
\* server failed every attempt.  It is what OwnersAreMailed needs of safety.
THEOREM NoMailIsForgotten == RegSpec => []NoOwnerForgotten
<1> DEFINE GoesOn == \A s \in Requests : MailGoesOn(s)
<1>1. RegInit => GoesOn
  BY MailAssumption
     DEF RegInit, MailInit, MailGoesOn, AttemptsCounted, OwnerNotForgotten, Failures, Refusals, Idle
<1>2. RegInv /\ GoesOn /\ [RegNext]_vars => GoesOn'
  <2> SUFFICES ASSUME RegInv, GoesOn, [RegNext]_vars, NEW s \in Requests PROVE MailGoesOn(s)'
    OBVIOUS
  <2>1. Typed /\ CommittedByStep /\ MailGoesOn(s)
    BY DEF RegInv
  <2>2. CASE UNCHANGED vars
    BY <2>1, <2>2
       DEF vars, regVars, mailVars, MailGoesOn, AttemptsCounted, OwnerNotForgotten, Pending, GivenUp,
           Failures, Refusals
  <2> QED
    BY <2>1, <2>2, HandlerGoesOn, TaskGoesOn DEF RegNext
<1>3. GoesOn => NoOwnerForgotten
  BY DEF MailGoesOn, NoOwnerForgotten
<1> HIDE DEF GoesOn
<1> QED
  BY <1>1, <1>2, <1>3, RegistrationInvariant, PTL DEF RegSpec
=============================================================================
