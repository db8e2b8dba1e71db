------------------------------ MODULE Listing -------------------------------
(***************************************************************************)
(* GET /calls: an owner turns the pages of the call list of an             *)
(* organization, sorted by created_at, while uploads go on.  created_at is *)
(* when the transaction of the upload began and id when its row was        *)
(* inserted, so a call may appear anywhere in the list; a page is two      *)
(* statements, its rows and the total.                                     *)
(***************************************************************************)
EXTENDS CallUpload, SequencesExt

CONSTANTS
  Earlier,  \* the requests that have uploaded their call before
  Reader,   \* the organization of the client
  Own,      \* the requests of that organization, others may be of any
  Limit     \* the page size

ASSUME EarlierAssumption == Earlier \subseteq Requests /\ IsFiniteSet(Requests)
ASSUME ReaderAssumption == Reader \in Orgs /\ Own \subseteq Requests
ASSUME LimitAssumption == Limit \in Nat \ {0}

VARIABLES
  created,  \* calls.created_at, when the upload's transaction began
  id,       \* calls.id, in the order of insertion, 0 before it
  order,    \* the order the client asked for
  at,       \* what the client waits for
  offset,   \* the offset of the page it asks for
  page,     \* the rows of that page
  seen,     \* how often it was shown each call
  listed,   \* the calls that were there when it began
  added     \* how many were committed since

keys == <<created, id>>
walk == <<order, at, offset, page, seen, listed, added>>
listVars == <<vars, keys, walk>>

SortOrder == {"asc", "desc"}

\* visible_calls: the calls of the client's organization.
Visible == {c \in calls : org[c] = Reader}

ListTypeOK ==
  /\ TypeOK
  /\ created \in [Requests -> Nat]
  /\ id \in [Requests -> Nat]
  /\ \A c, d \in calls : id[c] > 0 /\ (c # d => id[c] # id[d])
  /\ order \in SortOrder
  /\ at \in {"start", "rows", "total", "end"}
  /\ offset \in Nat
  /\ page \subseteq Visible
  /\ Cardinality(page) <= Limit
  /\ seen \in [Requests -> Nat]
  /\ listed \subseteq Visible
  /\ added \in Nat

\* The calls of Earlier are stored and published; the other requests are to come.
ListInit ==
  /\ pc = [r \in Requests |-> IF r \in Earlier THEN "answered" ELSE "start"]
  /\ org \in [Requests -> Orgs]
  /\ \A r \in Own : org[r] = Reader
  /\ external = [r \in Requests |-> NoExternalId]
  /\ before = [r \in Requests |-> {}]
  /\ answer = [r \in Requests |-> IF r \in Earlier THEN r ELSE NoRequest]
  /\ files = Earlier
  /\ calls = Earlier
  /\ published = Earlier
  /\ created \in [Requests -> {0, 1}]
  /\ \A r \in Requests \ Earlier : created[r] = 0
  /\ id = LET ranks == SetToSeq(Earlier) IN
          [r \in Requests |-> IF r \in Earlier THEN CHOOSE i \in DOMAIN ranks : ranks[i] = r ELSE 0]
  /\ order \in SortOrder
  /\ at = "start"
  /\ offset = 0
  /\ page = {}
  /\ seen = [r \in Requests |-> 0]
  /\ listed = {}
  /\ added = 0
-----------------------------------------------------------------------------
\* A request authenticates: its transaction, and with it created_at, begins,
\* possibly in the same microsecond as the latest other one.
Begin(r) ==
  LET latest == Max({created[s] : s \in Requests}) IN
  /\ Receive(r)
  /\ \E t \in {latest, latest + 1} : created' = [created EXCEPT ![r] = t]
  /\ UNCHANGED <<id, walk>>

\* A call that is committed has the next id, and may be in the client's list.
Numbered(r) ==
  /\ id' = IF r \in calls' \ calls THEN [id EXCEPT ![r] = Cardinality(calls) + 1] ELSE id
  /\ added' = IF r \in Visible' \ Visible THEN added + 1 ELSE added
  /\ UNCHANGED <<created, order, at, offset, page, seen, listed>>

Proceed(r) == Handle(r) /\ Numbered(r)
Break(r) == Fail(r) /\ Numbered(r)
-----------------------------------------------------------------------------
\* Bug: no tiebreaker, so that nothing orders calls of one created_at.
BeforeByTime(c, d) ==
  IF order = "asc" THEN created[c] < created[d] ELSE created[c] > created[d]

\* apply_sort: created_at and then id, in the order asked for.
Before(c, d) ==
  LET smaller(x, y) ==
        created[x] < created[y] \/ (created[x] = created[y] /\ id[x] < id[y])
  IN IF order = "asc" THEN smaller(c, d) ELSE smaller(d, c)

\* OFFSET k LIMIT n of the sorted calls: the first k, and the n after them, in
\* any order that ORDER BY allows.
FirstCalls(k) ==
  {S \in SUBSET Visible :
     /\ Cardinality(S) = Min({k, Cardinality(Visible)})
     /\ \A c \in S, d \in Visible \ S : ~ Before(d, c)}
Pages == {T \ S : S \in FirstCalls(offset), T \in FirstCalls(offset + Limit)}

StartWalk ==
  /\ at = "start"
  /\ at' = "rows"
  /\ listed' = Visible
  /\ added' = 0
  /\ UNCHANGED <<order, offset, page, seen>>

\* list_calls, rows_stmt
SelectRows ==
  /\ at = "rows"
  /\ at' = "total"
  /\ page' \in {P \in Pages : Cardinality(P) <= Limit}
  /\ seen' = [c \in Requests |-> IF c \in page' THEN seen[c] + 1 ELSE seen[c]]
  /\ UNCHANGED <<order, offset, listed, added>>

\* Bug: off by one, a single call that is left is not worth a page.
HasMoreAfterFull == offset + Limit + 1 < Cardinality(Visible)

\* CallPage.has_more
HasMore == offset + Cardinality(page) < Cardinality(Visible)

\* list_calls, total_stmt; the client goes on while there is more.
CountTotal ==
  /\ at = "total"
  /\ IF HasMore
     THEN at' = "rows" /\ offset' = offset + Limit
     ELSE at' = "end" /\ UNCHANGED offset
  /\ UNCHANGED <<order, page, seen, listed, added>>

TurnPages == (StartWalk \/ SelectRows \/ CountTotal) /\ UNCHANGED <<vars, keys>>

ListNext == TurnPages \/ \E r \in Requests : Begin(r) \/ Proceed(r) \/ Break(r)

ListSpec ==
  /\ ListInit /\ [][ListNext]_listVars
  /\ \A r \in Requests : WF_listVars(Proceed(r))
-----------------------------------------------------------------------------
\* Every time the client was shown a call again.
Again == UNION {{c} \X (2..seen[c]) : c \in Requests}

\* A call that was there when the client began is on one of its pages, however
\* many are uploaded meanwhile and wherever in the list they appear.
NothingSkipped ==
  at = "end" => \A c \in listed : seen[c] > 0

\* The client sees a call again only because of one that was added meanwhile,
\* and at most once for each; undisturbed, every call is shown exactly once.
RepeatsComeFromUploads == Cardinality(Again) <= added
=============================================================================
