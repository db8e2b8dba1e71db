-------------------------- MODULE CallUploadProofs --------------------------
(***************************************************************************)
(* The safety of concurrent uploads, proved for any requests,              *)
(* organizations, external ids and failures; and of a client that turns    *)
(* the pages of the list meanwhile, for any page size.                     *)
(***************************************************************************)
EXTENDS Listing, FiniteSetTheorems, WellFoundedInduction, TLAPS

\* Every step keeps the types of the upload handler's variables.
LEMMA NextTypeOK == TypeOK /\ [Next]_vars => TypeOK'
<1> SUFFICES ASSUME TypeOK, [Next]_vars PROVE TypeOK'
  OBVIOUS
<1>1. ASSUME NEW r \in Requests, Receive(r) PROVE TypeOK'
  BY <1>1 DEF TypeOK, Receive, Go, Steps
<1>2. ASSUME NEW r \in Requests, ResolveOperator(r) PROVE TypeOK'
  <2>1. \E step \in Steps : pc' = [pc EXCEPT ![r] = step]
    BY <1>2 DEF ResolveOperator, Go, Steps
  <2> QED
    BY <1>2, <2>1 DEF TypeOK, ResolveOperator
<1>3. ASSUME NEW r \in Requests, Lookup(r) PROVE TypeOK'
  BY <1>3 DEF TypeOK, Lookup, Go, Steps, WithExternalId
<1>4. ASSUME NEW r \in Requests, SaveAudio(r) PROVE TypeOK'
  BY <1>4 DEF TypeOK, SaveAudio, Go, Steps
<1>5. ASSUME NEW r \in Requests, CreateCall(r) PROVE TypeOK'
  BY <1>5 DEF TypeOK, CreateCall, Go, Steps
<1>6. ASSUME NEW r \in Requests, PublishCall(r) PROVE TypeOK'
  BY <1>6 DEF TypeOK, PublishCall, Go, Steps
<1>7. ASSUME NEW r \in Requests, Fail(r) PROVE TypeOK'
  <2>1. pc' = [pc EXCEPT ![r] = "error"]
    BY <1>7 DEF Fail, Go
  <2>2. files' \subseteq Requests /\ calls' \subseteq Requests /\ published' \subseteq Requests
    BY <1>7 DEF TypeOK, Fail
  <2> QED
    BY <1>7, <2>1, <2>2 DEF TypeOK, Fail, Steps
<1>8. CASE UNCHANGED vars
  BY <1>8 DEF TypeOK, vars
<1> QED
  BY <1>1, <1>2, <1>3, <1>4, <1>5, <1>6, <1>7, <1>8 DEF Next, Handle

\* Every variable of the upload handler keeps its type.
THEOREM TypeCorrect == Spec => []TypeOK
<1>1. Init => TypeOK
  BY DEF Init, TypeOK, Steps
<1> QED
  BY <1>1, NextTypeOK, PTL DEF Spec
-----------------------------------------------------------------------------
\* The step a request is at says whether its call is stored.
StoredByStep ==
  /\ \A r \in calls : pc[r] \in {"publish", "answered", "error"}
  /\ \A r \in Requests : pc[r] = "publish" => r \in calls

\* An external_id is one call's.
OneCallPerExternalId ==
  \A c, d \in calls : external[c] = external[d] /\ external[c] # NoExternalId => c = d

\* A request is answered with its own call, or with the one of its external_id.
AnswerFits ==
  \A r \in Requests : pc[r] = "answered" =>
    /\ answer[r] \in calls
    /\ answer[r] = r \/ (external[answer[r]] = external[r] /\ external[r] # NoExternalId)

\* A stored call is published, or about to be, or failed to be.
PublishedByStep ==
  \A c \in calls :
    \/ c \in published
    \/ pc[c] = "publish"
    \/ c \in Failing /\ pc[c] = "error"

\* A request that got past the lookup began when no call had its external_id, and
\* only such a request has a file.
StoredByNeed ==
  /\ \A r \in Requests : before[r] \subseteq calls
  /\ \A r \in Requests : \A c \in before[r] :
       external[r] = external[c] /\ external[r] # NoExternalId =>
         r \notin files /\ pc[r] \notin {"save", "create", "publish", "conflict"}
  /\ \A r \in files : pc[r] \notin {"start", "resolve", "lookup"}

UploadInv ==
  /\ TypeOK /\ StoredByStep /\ OneCallPerExternalId /\ AnswerFits /\ PublishedByStep
  /\ StoredByNeed

\* Every step of an upload keeps these facts together.
LEMMA NextUploadInv == UploadInv /\ [Next]_vars => UploadInv'
<1> SUFFICES ASSUME UploadInv, TypeOK', [Next]_vars PROVE UploadInv'
  BY NextTypeOK DEF UploadInv
<1> USE DEF UploadInv, StoredByStep, OneCallPerExternalId, AnswerFits, PublishedByStep,
        StoredByNeed
<1>1. ASSUME NEW r \in Requests, Receive(r) PROVE UploadInv'
  BY <1>1 DEF TypeOK, Receive, Go
<1>2. ASSUME NEW r \in Requests, ResolveOperator(r) PROVE UploadInv'
  <2>1. /\ pc[r] = "resolve"
        /\ UNCHANGED <<org, external, before, answer, files, calls, published>>
        /\ \/ \E step \in {"denied", "lookup"} : pc' = [pc EXCEPT ![r] = step]
           \/ external[r] = NoExternalId /\ pc' = [pc EXCEPT ![r] = "save"]
    BY <1>2 DEF ResolveOperator, Go
  <2> QED
    BY <2>1 DEF TypeOK
<1>3. ASSUME NEW r \in Requests, Lookup(r) PROVE UploadInv'
  BY <1>3 DEF TypeOK, Lookup, Go, WithExternalId
<1>4. ASSUME NEW r \in Requests, SaveAudio(r) PROVE UploadInv'
  BY <1>4 DEF TypeOK, SaveAudio, Go
<1>5. ASSUME NEW r \in Requests, CreateCall(r) PROVE UploadInv'
  BY <1>5 DEF TypeOK, CreateCall, Go, WithExternalId
<1>6. ASSUME NEW r \in Requests, PublishCall(r) PROVE UploadInv'
  BY <1>6 DEF TypeOK, PublishCall, Go
<1>7. ASSUME NEW r \in Requests, Fail(r) PROVE UploadInv'
  BY <1>7 DEF TypeOK, Fail, Go, WithExternalId
<1>8. CASE UNCHANGED vars
  BY <1>8 DEF vars
<1> QED
  BY <1>1, <1>2, <1>3, <1>4, <1>5, <1>6, <1>7, <1>8 DEF Next, Handle

\* So they hold in every reachable state.
LEMMA UploadInvariant == Spec => []UploadInv
<1>1. Init => UploadInv
  BY DEF Init, UploadInv, TypeOK, Steps, StoredByStep, OneCallPerExternalId,
    AnswerFits, PublishedByStep, StoredByNeed
<1> QED
  BY <1>1, NextUploadInv, PTL DEF Spec

\* An answer to a repeated external_id is the one call that has it, and what began
\* after that call stores nothing.
LEMMA RepeatsFollowSteps == UploadInv => RepeatsAreIdempotent
<1> SUFFICES ASSUME UploadInv, NEW r \in Requests, NEW c \in Requests, Repeats(r, c)
             PROVE  /\ pc[r] = "answered" => answer[r] = c
                    /\ c \in before[r] => r \notin files /\ pc[r] # "conflict"
  BY DEF RepeatsAreIdempotent
<1>1. c \in calls /\ external[r] = external[c] /\ external[r] # NoExternalId
  BY DEF Repeats
<1>2. ASSUME pc[r] = "answered" PROVE answer[r] = c
  <2>1. answer[r] \in calls /\ external[answer[r]] = external[r]
    BY <1>2 DEF UploadInv, AnswerFits
  <2> QED
    BY <1>1, <2>1 DEF UploadInv, OneCallPerExternalId
<1>3. ASSUME c \in before[r] PROVE r \notin files /\ pc[r] # "conflict"
  BY <1>1, <1>3 DEF UploadInv, StoredByNeed
<1> QED
  BY <1>2, <1>3

\* What is answered is stored, and what is stored is published by its step.
LEMMA AnswersFollowSteps == UploadInv => AnsweredMeansPublished
BY DEF UploadInv, AnswerFits, PublishedByStep, AnsweredMeansPublished

\* However many uploads of an organization repeat an external_id, overlap and fail,
\* all that are answered are answered with the one call, and those that began when it
\* was there store no file and are not refused; the loser of two that overlap is.
THEOREM RepeatedUploads == Spec => []RepeatsAreIdempotent
BY RepeatsFollowSteps, UploadInvariant, PTL

\* Nobody is answered with a call that is not stored, or that is neither
\* published nor about to be, but for the call of a request that failed after its
\* commit.
THEOREM AnswersArePublished == Spec => []AnsweredMeansPublished
BY AnswersFollowSteps, UploadInvariant, PTL
-----------------------------------------------------------------------------
(* The pages of the call list.                                             *)

\* The calls that stand before c in the list, and how many they are.
Preceding(c) == {d \in Visible : Before(d, c)}
Rank(c) == Cardinality(Preceding(c))

\* The calls have different ids, the next one is free, and a call's keys are
\* numbers.
KeysOK ==
  /\ created \in [Requests -> Nat]
  /\ id \in [Requests -> Nat]
  /\ \A c \in calls : id[c] > 0 /\ id[c] <= Cardinality(calls)
  /\ \A c, d \in calls : id[c] = id[d] => c = d

WalkOK ==
  /\ order \in SortOrder
  /\ at \in {"start", "rows", "total", "end"}
  /\ offset \in Nat
  /\ page \subseteq Visible
  /\ Cardinality(page) <= Limit
  /\ seen \in [Requests -> Nat]
  /\ listed \subseteq Visible
  /\ added \in Nat

KeysInv == UploadInv /\ KeysOK /\ WalkOK

\* The calls of a list are finitely many, and so is any part of them.
LEMMA FinitelyManyCalls ==
  ASSUME Visible \subseteq Requests, NEW S \in SUBSET Visible
  PROVE  IsFiniteSet(S) /\ Cardinality(S) \in Nat /\ Cardinality(S) <= Cardinality(Visible)
         /\ IsFiniteSet(Visible) /\ Cardinality(Visible) \in Nat
         /\ (Cardinality(S) = Cardinality(Visible) => S = Visible)
<1>1. IsFiniteSet(Visible)
  BY EarlierAssumption, FS_Subset
<1>2. IsFiniteSet(S) /\ Cardinality(S) <= Cardinality(Visible)
      /\ (Cardinality(Visible) = Cardinality(S) => Visible = S)
  BY <1>1, FS_Subset
<1> QED BY <1>1, <1>2, FS_CardinalityType

\* They are calls.
LEMMA VisibleCalls ==
  ASSUME KeysInv
  PROVE  Visible \subseteq calls /\ Visible \subseteq Requests /\ calls \subseteq Requests
         /\ IsFiniteSet(calls) /\ Cardinality(calls) \in Nat
<1>1. Visible \subseteq calls /\ calls \subseteq Requests
  BY DEF Visible, KeysInv, UploadInv, TypeOK
<1>2. IsFiniteSet(calls)
  BY <1>1, EarlierAssumption, FS_Subset
<1> QED BY <1>1, <1>2, FS_CardinalityType

\* The list is a total order of the calls.
LEMMA BeforeIsOrder ==
  ASSUME KeysInv
  PROVE  /\ \A c \in Visible : ~ Before(c, c)
         /\ \A c, d \in Visible : c # d => Before(c, d) \/ Before(d, c)
         /\ \A c, d \in Visible : Before(c, d) => ~ Before(d, c)
         /\ \A c, d, e \in Visible : Before(c, d) /\ Before(d, e) => Before(c, e)
<1>1. /\ \A c \in Visible : created[c] \in Nat /\ id[c] \in Nat
      /\ \A c, d \in Visible : c # d => id[c] # id[d]
  BY VisibleCalls DEF KeysInv, KeysOK
<1>2. \A c, d \in Visible :
        Before(c, d) <=>
          IF order = "asc"
          THEN created[c] < created[d] \/ (created[c] = created[d] /\ id[c] < id[d])
          ELSE created[d] < created[c] \/ (created[d] = created[c] /\ id[d] < id[c])
  BY DEF Before
<1>3. \A c \in Visible : ~ Before(c, c)
  BY <1>1, <1>2
<1>4. \A c, d \in Visible : c # d => Before(c, d) \/ Before(d, c)
  BY <1>1, <1>2
<1>5. \A c, d \in Visible : Before(c, d) => ~ Before(d, c)
  BY <1>1, <1>2
<1>6. ASSUME NEW c \in Visible, NEW d \in Visible, NEW e \in Visible, Before(c, d), Before(d, e)
      PROVE  Before(c, e)
  BY <1>1, <1>2, <1>6
<1> QED BY <1>3, <1>4, <1>5, <1>6

\* Ranks are natural numbers below the number of calls.
LEMMA RankBound ==
  ASSUME KeysInv, NEW c \in Visible
  PROVE  Rank(c) \in Nat /\ Rank(c) < Cardinality(Visible)
<1>1. Visible \subseteq Requests /\ Preceding(c) \in SUBSET Visible
  BY VisibleCalls DEF Preceding
<1>2. c \notin Preceding(c)
  BY BeforeIsOrder DEF Preceding
<1> QED BY <1>1, <1>2, FinitelyManyCalls DEF Rank

\* A call that stands before another has the smaller rank.
LEMMA RanksIncrease ==
  ASSUME KeysInv, NEW c \in Visible, NEW d \in Visible, Before(c, d)
  PROVE  Rank(c) < Rank(d)
<1>1. /\ Visible \subseteq Requests
      /\ Preceding(c) \in SUBSET Visible /\ Preceding(d) \in SUBSET Visible
  BY VisibleCalls DEF Preceding
<1>2. Preceding(c) \in SUBSET Preceding(d)
  BY BeforeIsOrder DEF Preceding
<1>3. c \in Preceding(d) /\ c \notin Preceding(c)
  BY BeforeIsOrder DEF Preceding
<1>4. IsFiniteSet(Preceding(d))
  BY <1>1, FinitelyManyCalls
<1>5. Cardinality(Preceding(c)) <= Cardinality(Preceding(d))
      /\ Cardinality(Preceding(c)) # Cardinality(Preceding(d))
  BY <1>2, <1>3, <1>4, FS_Subset
<1> QED BY <1>5, RankBound DEF Rank

\* No two calls have one rank.
LEMMA RanksDiffer ==
  ASSUME KeysInv, NEW c \in Visible, NEW d \in Visible, Rank(c) = Rank(d)
  PROVE  c = d
BY BeforeIsOrder, RanksIncrease, RankBound

\* The first k calls of any sorted list are those with a rank below k.
LEMMA FirstCallsByRank ==
  ASSUME KeysInv, NEW k \in Nat, NEW S \in FirstCalls(k), NEW c \in Visible
  PROVE  c \in S <=> Rank(c) < k
<1>1. /\ S \in SUBSET Visible /\ Visible \subseteq Requests
      /\ Preceding(c) \in SUBSET Visible
      /\ \A e \in S, d \in Visible \ S : ~ Before(d, e)
  BY VisibleCalls DEF FirstCalls, Preceding
<1>2. /\ IsFiniteSet(S) /\ Cardinality(S) \in Nat /\ Cardinality(Visible) \in Nat
      /\ IsFiniteSet(Preceding(c)) /\ Cardinality(Preceding(c)) \in Nat
      /\ (Cardinality(S) = Cardinality(Visible) => S = Visible)
  BY <1>1, FinitelyManyCalls
<1>3. Cardinality(S) = IF k <= Cardinality(Visible) THEN k ELSE Cardinality(Visible)
  <2>1. Cardinality(S) = Min({k, Cardinality(Visible)})
    BY DEF FirstCalls
  <2>2. \E m \in {k, Cardinality(Visible)} : \A n \in {k, Cardinality(Visible)} : m <= n
    BY <1>2
  <2>3. /\ Min({k, Cardinality(Visible)}) \in {k, Cardinality(Visible)}
        /\ \A n \in {k, Cardinality(Visible)} : Min({k, Cardinality(Visible)}) <= n
    BY <2>2 DEF Min
  <2> QED BY <1>2, <2>1, <2>3
<1>4. CASE c \in S
  <2>1. Preceding(c) \in SUBSET (S \ {c})
    BY <1>1, <1>4, BeforeIsOrder DEF Preceding
  <2>2. IsFiniteSet(S \ {c}) /\ Cardinality(S \ {c}) = Cardinality(S) - 1
    BY <1>2, <1>4, FS_RemoveElement
  <2>3. Cardinality(Preceding(c)) <= Cardinality(S) - 1
    BY <2>1, <2>2, FS_Subset
  <2> QED BY <1>2, <1>3, <1>4, <2>3 DEF Rank
<1>5. CASE c \notin S
  <2>1. S \in SUBSET Preceding(c)
    BY <1>1, <1>5, BeforeIsOrder DEF Preceding
  <2>2. Cardinality(S) <= Cardinality(Preceding(c))
    BY <1>2, <2>1, FS_Subset
  <2>3. Cardinality(S) # Cardinality(Visible)
    BY <1>2, <1>5
  <2> QED BY <1>2, <1>3, <1>5, <2>2, <2>3 DEF Rank
<1> QED BY <1>4, <1>5

\* A page has the calls of the ranks it stands for.
LEMMA PageByRank ==
  ASSUME KeysInv, NEW P \in Pages
  PROVE  P = {c \in Visible : offset <= Rank(c) /\ Rank(c) < offset + Limit}
<1>1. offset \in Nat /\ offset + Limit \in Nat
  BY LimitAssumption DEF KeysInv, WalkOK
<1>2. PICK S \in FirstCalls(offset), T \in FirstCalls(offset + Limit) : P = T \ S
  BY DEF Pages
<1>3. P \subseteq Visible
  BY <1>2 DEF FirstCalls
<1>4. ASSUME NEW c \in Visible
      PROVE  c \in P <=> offset <= Rank(c) /\ Rank(c) < offset + Limit
  <2>1. (c \in S <=> Rank(c) < offset) /\ (c \in T <=> Rank(c) < offset + Limit)
    BY <1>1, FirstCallsByRank
  <2>2. Rank(c) \in Nat
    BY RankBound
  <2> QED BY <1>1, <1>2, <2>1, <2>2
<1> QED BY <1>3, <1>4
-----------------------------------------------------------------------------
(* Uploads while a client turns the pages.                                 *)

\* A list step of an upload is one of CallUpload, any other leaves uploads alone.
LEMMA ListStepIsUploadStep ==
  ASSUME [ListNext]_listVars PROVE [Next]_vars
<1>1. ASSUME NEW r \in Requests, Begin(r) \/ Proceed(r) \/ Break(r) PROVE Next
  BY <1>1 DEF Begin, Proceed, Break, Next
<1> QED BY <1>1 DEF ListNext, TurnPages, listVars

\* A finite set of natural numbers that is not empty has a largest member.
LEMMA MaxIsMember ==
  ASSUME NEW S, IsFiniteSet(S), S # {}, NEW f \in [S -> Nat]
  PROVE  Max({f[s] : s \in S}) \in Nat
<1> DEFINE W == {T \in SUBSET S : T # {} /\ ~ \E m \in T : \A t \in T : f[m] >= f[t]}
<1>1. IsWellFoundedOn(StrictSubsetOrdering(S), SUBSET S)
  BY FS_StrictSubsetOrderingWellFounded, FS_FiniteSubsetsOfFinite
<1>2. CASE W # {}
  <2>1. PICK T \in W : \A U \in W : <<U, T>> \notin StrictSubsetOrdering(S)
    BY <1>1, <1>2, WFMin
  <2>2. PICK x \in T : TRUE
    OBVIOUS
  <2>3. CASE T = {x}
    <3>1. \A t \in T : f[x] >= f[t]
      BY <2>3
    <3> QED BY <2>3, <3>1
  <2>4. CASE T # {x}
    <3>0. <<T \ {x}, T>> \in StrictSubsetOrdering(S)
      BY <2>2 DEF StrictSubsetOrdering
    <3>1. T \ {x} \in SUBSET S /\ T \ {x} # {} /\ T \ {x} \notin W
      BY <2>1, <2>2, <2>4, <3>0
    <3>2. PICK m \in T \ {x} : \A t \in T \ {x} : f[m] >= f[t]
      BY <3>1
    <3>3. f[m] \in Nat /\ f[x] \in Nat /\ \A t \in T : f[t] \in Nat
      BY <2>2
    <3>4. \E k \in T : \A t \in T : f[k] >= f[t]
      <4>1. CASE f[m] >= f[x]
        BY <3>2, <4>1
      <4>2. CASE f[x] >= f[m]
        <5>1. \A t \in T : f[x] >= f[t]
          BY <3>2, <3>3, <4>2
        <5> QED BY <5>1
      <4> QED BY <3>3, <4>1, <4>2
    <3> QED BY <3>4
  <2> QED BY <2>3, <2>4
<1>3. CASE W = {}
  <2>1. PICK m \in S : \A t \in S : f[m] >= f[t]
    BY <1>3
  <2>2. \E n \in {f[s] : s \in S} : \A k \in {f[s] : s \in S} : n >= k
    BY <2>1
  <2>3. Max({f[s] : s \in S}) \in {f[s] : s \in S}
    BY <2>2 DEF Max
  <2> QED BY <2>3
<1> QED BY <1>2, <1>3

\* A step of an upload adds at most its own call, with a new id, and leaves the
\* keys of the other calls alone.
LEMMA UploadStepKeys ==
  ASSUME KeysInv, NEW r \in Requests, Begin(r) \/ Proceed(r) \/ Break(r)
  PROVE  /\ created' \in [Requests -> Nat] /\ id' \in [Requests -> Nat]
         /\ \A c \in calls : created'[c] = created[c] /\ id'[c] = id[c]
         /\ \/ calls' = calls
            \/ r \notin calls /\ calls' = calls \cup {r} /\ id'[r] = Cardinality(calls) + 1
         /\ \/ Visible' = Visible /\ added' = added
            \/ r \notin Visible /\ Visible' = Visible \cup {r} /\ added' = added + 1
         /\ UNCHANGED <<order, at, offset, page, seen, listed>>
<1>0. /\ created \in [Requests -> Nat] /\ id \in [Requests -> Nat]
      /\ \A c \in calls : pc[c] \in {"publish", "answered", "error"}
  BY DEF KeysInv, KeysOK, UploadInv, StoredByStep
<1>1. CASE Begin(r)
  <2>1. pc[r] = "start" /\ calls' = calls /\ org' = org
    BY <1>1 DEF Begin, Receive, Go
  <2> DEFINE latest == Max({created[s] : s \in Requests})
  <2>2. latest \in Nat
    BY <1>0, EarlierAssumption, MaxIsMember
  <2>3. \E t \in {latest, latest + 1} : created' = [created EXCEPT ![r] = t]
    BY <1>1 DEF Begin
  <2> HIDE DEF latest
  <2>4. created' \in [Requests -> Nat] /\ \A c \in calls : created'[c] = created[c]
    BY <1>0, <2>1, <2>2, <2>3
  <2>5. Visible' = Visible
    BY <2>1 DEF Visible
  <2> QED BY <1>0, <1>1, <2>1, <2>4, <2>5 DEF Begin, walk
<1>2. CASE Proceed(r) \/ Break(r)
  <2>1. Numbered(r) /\ (Handle(r) \/ Fail(r))
    BY <1>2 DEF Proceed, Break
  <2>2. /\ org' = org
        /\ calls' = calls \/ (pc[r] = "create" /\ calls' = calls \cup {r})
    BY <2>1 DEF Handle, ResolveOperator, Lookup, SaveAudio, CreateCall, PublishCall, Fail, Go
  <2>3. /\ created' = created
        /\ id' = IF r \in calls' \ calls THEN [id EXCEPT ![r] = Cardinality(calls) + 1] ELSE id
        /\ added' = IF r \in Visible' \ Visible THEN added + 1 ELSE added
        /\ UNCHANGED <<order, at, offset, page, seen, listed>>
    BY <2>1 DEF Numbered
  <2>4. CASE calls' = calls
    <3>1. Visible' = Visible
      BY <2>2, <2>4 DEF Visible
    <3> QED BY <1>0, <2>3, <2>4, <3>1
  <2>5. CASE pc[r] = "create" /\ calls' = calls \cup {r}
    <3>1. r \notin calls /\ r \notin Visible
      BY <1>0, <2>5 DEF Visible
    <3>2. id' = [id EXCEPT ![r] = Cardinality(calls) + 1]
      BY <2>3, <2>5, <3>1
    <3>3. id' \in [Requests -> Nat] /\ id'[r] = Cardinality(calls) + 1
          /\ \A c \in calls : id'[c] = id[c]
      BY <1>0, <3>1, <3>2, VisibleCalls
    <3>4. Visible' = Visible \/ Visible' = Visible \cup {r}
      BY <2>2, <2>5 DEF Visible
    <3> QED BY <1>0, <2>3, <2>5, <3>1, <3>3, <3>4
  <2> QED BY <2>2, <2>4, <2>5
<1> QED BY <1>1, <1>2

\* A page has at most Limit rows, the keys stay numbers, and ids stay different.
LEMMA NextKeysInv == KeysInv /\ [ListNext]_listVars => KeysInv'
<1> SUFFICES ASSUME KeysInv, [ListNext]_listVars PROVE KeysInv'
  OBVIOUS
<1>0. UploadInv'
  BY ListStepIsUploadStep, NextUploadInv DEF KeysInv
<1>1. CASE UNCHANGED listVars
  <2>1. Visible' = Visible
    BY <1>1 DEF listVars, vars, Visible
  <2> QED BY <1>0, <1>1, <2>1 DEF KeysInv, KeysOK, WalkOK, listVars, vars, keys, walk
<1>2. CASE TurnPages
  <2>1. KeysOK'
    BY <1>2 DEF TurnPages, KeysInv, KeysOK, keys, vars
  <2>2. Visible' = Visible
    BY <1>2 DEF TurnPages, vars, Visible
  <2>3. ASSUME StartWalk PROVE WalkOK'
    BY <2>2, <2>3 DEF StartWalk, KeysInv, WalkOK
  <2>4. ASSUME SelectRows PROVE WalkOK'
    <3>1. page' \subseteq Visible /\ Cardinality(page') <= Limit
      BY <2>4 DEF SelectRows, Pages, FirstCalls
    <3>2. seen' \in [Requests -> Nat]
      BY <2>4 DEF SelectRows, KeysInv, WalkOK
    <3> QED BY <2>2, <2>4, <3>1, <3>2 DEF SelectRows, KeysInv, WalkOK
  <2>5. ASSUME CountTotal PROVE WalkOK'
    BY <2>2, <2>5, LimitAssumption DEF CountTotal, KeysInv, WalkOK
  <2>6. WalkOK'
    BY <1>2, <2>3, <2>4, <2>5 DEF TurnPages
  <2> QED BY <1>0, <2>1, <2>6 DEF KeysInv
<1>3. ASSUME NEW r \in Requests, Begin(r) \/ Proceed(r) \/ Break(r) PROVE KeysInv'
  <2>1. /\ created' \in [Requests -> Nat] /\ id' \in [Requests -> Nat]
        /\ \A c \in calls : created'[c] = created[c] /\ id'[c] = id[c]
        /\ UNCHANGED <<order, at, offset, page, seen, listed>>
    BY <1>3, UploadStepKeys
  <2>2. IsFiniteSet(calls) /\ Cardinality(calls) \in Nat
    BY VisibleCalls
  <2>3. WalkOK'
    <3>1. Visible \subseteq Visible' /\ added' \in {added, added + 1}
      BY <1>3, UploadStepKeys
    <3> QED BY <2>1, <3>1 DEF KeysInv, WalkOK
  <2>4. CASE calls' = calls
    BY <1>0, <2>1, <2>3, <2>4 DEF KeysInv, KeysOK
  <2>5. CASE r \notin calls /\ calls' = calls \cup {r} /\ id'[r] = Cardinality(calls) + 1
    <3>1. Cardinality(calls') = Cardinality(calls) + 1
      BY <2>2, <2>5, FS_AddElement
    <3>2. \A c \in calls : id'[c] > 0 /\ id'[c] <= Cardinality(calls)
      BY <2>1 DEF KeysInv, KeysOK
    <3>3. \A c \in calls' : id'[c] > 0 /\ id'[c] <= Cardinality(calls')
      <4> SUFFICES ASSUME NEW c \in calls'
                   PROVE  id'[c] > 0 /\ id'[c] <= Cardinality(calls')
        OBVIOUS
      <4>1. CASE c \in calls
        <5>1. c \in Requests /\ id'[c] \in Nat
          BY <2>1, <4>1, VisibleCalls
        <5> QED BY <2>2, <3>1, <3>2, <4>1, <5>1
      <4>2. CASE c = r
        BY <2>2, <2>5, <3>1, <4>2
      <4> QED BY <2>5, <4>1, <4>2
    <3>4. \A c, d \in calls' : id'[c] = id'[d] => c = d
      BY <2>1, <2>2, <2>5, <3>2 DEF KeysInv, KeysOK
    <3>5. KeysOK'
      BY <2>1, <3>3, <3>4 DEF KeysOK
    <3> QED BY <1>0, <2>3, <3>5 DEF KeysInv
  <2> QED BY <1>3, <2>4, <2>5, UploadStepKeys
<1> QED BY <1>1, <1>2, <1>3 DEF ListNext

\* One more element adds at most one to a finite set.
LEMMA AddAtMostOne ==
  ASSUME NEW S, NEW x, IsFiniteSet(S)
  PROVE  /\ IsFiniteSet(S \cup {x}) /\ Cardinality(S \cup {x}) \in Nat
         /\ Cardinality(S \cup {x}) <= Cardinality(S) + 1
<1>1. Cardinality(S) \in Nat
  BY FS_CardinalityType
<1>2. /\ IsFiniteSet(S \cup {x})
      /\ Cardinality(S \cup {x}) = IF x \in S THEN Cardinality(S) ELSE Cardinality(S) + 1
  BY FS_AddElement
<1> QED BY <1>1, <1>2

\* Where no upload adds a call, no rank changes; one that does raises some by one.
LEMMA RanksGrow ==
  ASSUME KeysInv, NEW r \in Requests, Begin(r) \/ Proceed(r) \/ Break(r), NEW c \in Visible
  PROVE  /\ Rank(c) <= Rank(c)' /\ Rank(c)' <= Rank(c) + 1
         /\ Visible' = Visible => Rank(c)' = Rank(c)
         /\ Rank(c)' \in Nat
<1>0. /\ order' = order
      /\ \A d \in Visible : created'[d] = created[d] /\ id'[d] = id[d]
      /\ Visible' = Visible \/ (r \notin Visible /\ Visible' = Visible \cup {r})
  BY UploadStepKeys, VisibleCalls
<1>1. \A d \in Visible : Before(d, c)' <=> Before(d, c)
  BY <1>0 DEF Before
<1>2. /\ Preceding(c) \in SUBSET Preceding(c)'
      /\ Preceding(c)' \in SUBSET (Preceding(c) \cup {r})
      /\ Visible' = Visible => Preceding(c)' = Preceding(c)
  BY <1>0, <1>1 DEF Preceding
<1>3. Visible \subseteq Requests /\ Preceding(c) \in SUBSET Visible
  BY VisibleCalls DEF Preceding
<1>4. IsFiniteSet(Preceding(c)) /\ Cardinality(Preceding(c)) \in Nat
  BY <1>3, FinitelyManyCalls
<1>5. /\ IsFiniteSet(Preceding(c) \cup {r})
      /\ Cardinality(Preceding(c) \cup {r}) <= Cardinality(Preceding(c)) + 1
      /\ Cardinality(Preceding(c) \cup {r}) \in Nat
  BY <1>4, AddAtMostOne
<1>6. /\ IsFiniteSet(Preceding(c)') /\ Cardinality(Preceding(c)') \in Nat
      /\ Cardinality(Preceding(c)') <= Cardinality(Preceding(c) \cup {r})
  BY <1>2, <1>5, FS_Subset, FS_CardinalityType
<1>7. Cardinality(Preceding(c)) <= Cardinality(Preceding(c)')
  BY <1>2, <1>6, FS_Subset
<1> QED BY <1>2, <1>4, <1>5, <1>6, <1>7 DEF Rank
-----------------------------------------------------------------------------
(* What the client has seen and has yet to see.                            *)

\* The first rank of the page that the client reads next.
Frontier == IF at = "total" THEN offset + Limit ELSE offset

\* The calls it was shown and is going to be shown again, if none is added.
Returning == {c \in Visible : seen[c] > 0 /\ Rank(c) >= Frontier}

\* A call that was there when the client began is seen, or stands where it is
\* still going to read; every repetition so far or to come has its upload.
ShownInv ==
  /\ \A c \in Requests : seen[c] > 0 => c \in Visible
  /\ at = "start" => offset = 0 /\ \A c \in Requests : seen[c] = 0
  /\ at # "end" => \A c \in listed : seen[c] > 0 \/ Rank(c) >= Frontier
  /\ at # "end" => Cardinality(Again) + Cardinality(Returning) <= added
  /\ NothingSkipped /\ RepeatsComeFromUploads

\* The repetitions are finitely many.
LEMMA FinitelyManyRepeats ==
  ASSUME KeysInv PROVE IsFiniteSet(Again) /\ Cardinality(Again) \in Nat
<1> DEFINE of(c) == {c} \X (2..seen[c])
<1>1. \A c \in Requests : IsFiniteSet(of(c))
  <2> SUFFICES ASSUME NEW c \in Requests PROVE IsFiniteSet(of(c))
    OBVIOUS
  <2>1. seen[c] \in Int
    BY DEF KeysInv, WalkOK
  <2>2. IsFiniteSet(2..seen[c])
    BY <2>1, FS_Interval
  <2>3. IsFiniteSet({c})
    BY FS_Singleton
  <2> QED BY <2>2, <2>3, FS_Product
<1> DEFINE f == [c \in Requests |-> of(c)]
           T == {of(c) : c \in Requests}
<1>2. f \in Surjection(Requests, T)
  BY DEF Surjection
<1>3. IsFiniteSet(T)
  BY <1>2, EarlierAssumption, FS_Surjection
<1>4. IsFiniteSet(UNION T)
  BY <1>1, <1>3, FS_UNION
<1> QED BY <1>4, FS_CardinalityType DEF Again

\* Nothing about what is shown changes at an upload but the ranks.
LEMMA UploadShownInv ==
  ASSUME KeysInv, KeysInv', ShownInv, NEW r \in Requests, Begin(r) \/ Proceed(r) \/ Break(r)
  PROVE  ShownInv'
<1>0. /\ UNCHANGED <<order, at, offset, page, seen, listed>>
      /\ Again' = Again /\ Frontier' = Frontier
      /\ Visible \subseteq Visible' /\ Visible \subseteq Requests
      /\ listed \subseteq Visible /\ added \in Nat /\ Frontier \in Nat
      /\ seen \in [Requests -> Nat]
      /\ \/ Visible' = Visible /\ added' = added
         \/ r \notin Visible /\ Visible' = Visible \cup {r} /\ added' = added + 1
  <2>1. /\ UNCHANGED <<order, at, offset, page, seen, listed>>
        /\ \/ Visible' = Visible /\ added' = added
           \/ r \notin Visible /\ Visible' = Visible \cup {r} /\ added' = added + 1
    BY UploadStepKeys
  <2>2. Again' = Again /\ Frontier' = Frontier
    BY <2>1 DEF Again, Frontier
  <2>3. /\ Visible \subseteq Requests /\ listed \subseteq Visible /\ added \in Nat
        /\ offset \in Nat /\ seen \in [Requests -> Nat]
    BY VisibleCalls DEF KeysInv, WalkOK
  <2>4. Frontier \in Nat
    BY <2>3, LimitAssumption DEF Frontier
  <2> QED BY <2>1, <2>2, <2>3, <2>4
<1>1. \A c \in Visible : /\ Rank(c) \in Nat /\ Rank(c)' \in Nat
                         /\ Rank(c) <= Rank(c)' /\ Rank(c)' <= Rank(c) + 1
                         /\ Visible' = Visible => Rank(c)' = Rank(c)
  BY RanksGrow, RankBound
<1>2. IsFiniteSet(Again) /\ Cardinality(Again) \in Nat
  BY FinitelyManyRepeats
<1>3. at # "end" => \A c \in listed : seen[c] > 0 \/ Rank(c)' >= Frontier
  <2> SUFFICES ASSUME at # "end", NEW c \in listed, seen[c] = 0 PROVE Rank(c)' >= Frontier
    BY <1>0
  <2>1. Rank(c) >= Frontier
    BY DEF ShownInv
  <2> QED BY <1>0, <1>1, <2>1
<1>4. Returning \in SUBSET Visible /\ Returning' \in SUBSET Visible
  BY <1>0 DEF Returning, ShownInv
<1>5. /\ IsFiniteSet(Returning) /\ Cardinality(Returning) \in Nat
      /\ IsFiniteSet(Returning') /\ Cardinality(Returning') \in Nat
  BY <1>0, <1>4, FinitelyManyCalls
<1>6. Visible' = Visible => Returning' = Returning
  BY <1>0, <1>1 DEF Returning
<1>7. Cardinality(Returning') <= Cardinality(Returning) + 1
  <2> DEFINE New == {c \in Returning' : Rank(c) < Frontier}
  <2>1. \A c, d \in New : c = d
    <3> SUFFICES ASSUME NEW c \in New, NEW d \in New PROVE c = d
      OBVIOUS
    <3>1. c \in Visible /\ d \in Visible /\ Rank(c)' >= Frontier /\ Rank(d)' >= Frontier
      BY <1>0, <1>4 DEF Returning
    <3>2. Rank(c) = Rank(d)
      BY <1>0, <1>1, <3>1
    <3> QED BY <3>1, <3>2, RanksDiffer
  <2>2. Returning' \in SUBSET (Returning \cup New)
    <3> SUFFICES ASSUME NEW c \in Returning', c \notin New PROVE c \in Returning
      OBVIOUS
    <3>1. c \in Visible /\ seen[c] > 0
      BY <1>0, <1>4 DEF Returning
    <3>2. Rank(c) >= Frontier
      BY <1>0, <1>1, <3>1
    <3> QED BY <3>1, <3>2 DEF Returning
  <2>3. CASE New = {}
    BY <1>5, <2>2, <2>3, FS_Subset
  <2>4. CASE New # {}
    <3>1. PICK c \in New : TRUE
      BY <2>4
    <3>2. Returning' \in SUBSET (Returning \cup {c})
      BY <2>1, <2>2, <3>1
    <3>3. /\ IsFiniteSet(Returning \cup {c})
          /\ Cardinality(Returning \cup {c}) <= Cardinality(Returning) + 1
          /\ Cardinality(Returning \cup {c}) \in Nat
      BY <1>5, AddAtMostOne
    <3>4. Cardinality(Returning') <= Cardinality(Returning \cup {c})
      BY <3>2, <3>3, FS_Subset
    <3> QED BY <1>5, <3>3, <3>4
  <2> QED BY <2>3, <2>4
<1>8. at # "end" => Cardinality(Again) + Cardinality(Returning') <= added'
  BY <1>0, <1>2, <1>5, <1>6, <1>7 DEF ShownInv
<1>9. NothingSkipped' /\ RepeatsComeFromUploads'
  BY <1>0, <1>2 DEF ShownInv, NothingSkipped, RepeatsComeFromUploads
<1> QED BY <1>0, <1>3, <1>8, <1>9 DEF ShownInv

\* What the client reads of a page, and its next step, keep the count.
LEMMA WalkShownInv ==
  ASSUME KeysInv, KeysInv', ShownInv, TurnPages
  PROVE  ShownInv'
<1>0. /\ UNCHANGED <<Visible, created, id>> /\ order' = order
      /\ Visible \subseteq Requests /\ listed \subseteq Visible
      /\ offset \in Nat /\ added \in Nat /\ Limit \in Nat /\ offset + Limit \in Nat
      /\ seen \in [Requests -> Nat]
  <2>1. Visible' = Visible
    BY DEF TurnPages, vars, Visible
  <2> QED
    BY <2>1, LimitAssumption, VisibleCalls
       DEF TurnPages, StartWalk, SelectRows, CountTotal, keys, KeysInv, WalkOK
<1>1. \A c \in Visible : Rank(c)' = Rank(c) /\ Rank(c) \in Nat
  BY <1>0, RankBound DEF Rank, Preceding, Before
<1>2. IsFiniteSet(Again) /\ Cardinality(Again) \in Nat
  BY FinitelyManyRepeats
<1>3. Returning \in SUBSET Visible
  BY DEF Returning
<1>4. IsFiniteSet(Returning) /\ Cardinality(Returning) \in Nat
  BY <1>0, <1>3, FinitelyManyCalls
<1>5. CASE StartWalk
  <2>1. /\ at = "start" /\ at' = "rows" /\ seen' = seen /\ offset' = 0 /\ added' = 0
        /\ listed' = Visible /\ offset = 0 /\ \A c \in Requests : seen[c] = 0
    BY <1>5 DEF StartWalk, ShownInv
  <2>2. Again' = {}
    BY <2>1 DEF Again
  <2>3. Returning' = {}
    BY <1>0, <2>1 DEF Returning
  <2>4. Cardinality({}) = 0
    BY FS_EmptySet
  <2>5. Cardinality(Again') + Cardinality(Returning') <= added'
    BY <2>1, <2>2, <2>3, <2>4
  <2>6. \A c \in listed' : Rank(c)' >= Frontier'
    BY <1>1, <2>1 DEF Frontier
  <2>7. RepeatsComeFromUploads' /\ NothingSkipped'
    BY <2>1, <2>2, <2>4 DEF RepeatsComeFromUploads, NothingSkipped
  <2> QED BY <1>0, <2>1, <2>5, <2>6, <2>7 DEF ShownInv
<1>6. CASE SelectRows
  <2> DEFINE Seen == {c \in Visible : seen[c] > 0 /\ c \in page'}
             again == [c \in Seen |-> <<c, seen[c] + 1>>]
             New == {<<c, seen[c] + 1>> : c \in Seen}
  <2>1. /\ at = "rows" /\ at' = "total" /\ offset' = offset /\ added' = added
        /\ listed' = listed
        /\ seen' = [c \in Requests |-> IF c \in page' THEN seen[c] + 1 ELSE seen[c]]
        /\ Frontier = offset /\ Frontier' = offset + Limit
    BY <1>6 DEF SelectRows, Frontier
  <2>2. page' = {c \in Visible : offset <= Rank(c) /\ Rank(c) < offset + Limit}
    BY <1>6, PageByRank DEF SelectRows
  <2>3. \A c \in listed' : seen'[c] > 0 \/ Rank(c)' >= Frontier'
    <3> SUFFICES ASSUME NEW c \in listed PROVE seen'[c] > 0 \/ Rank(c) >= offset + Limit
      BY <1>0, <1>1, <2>1
    <3>1. c \in Visible /\ c \in Requests /\ (seen[c] > 0 \/ Rank(c) >= offset)
      BY <1>0, <2>1 DEF ShownInv
    <3> QED BY <1>0, <1>1, <2>1, <2>2, <3>1
  <2>4. Seen \cap Returning' = {} /\ Returning = Seen \cup Returning'
    <3>1. Returning' = {c \in Visible : seen'[c] > 0 /\ Rank(c) >= offset + Limit}
      BY <1>0, <1>1, <2>1 DEF Returning
    <3>2. Returning' = {c \in Visible : seen[c] > 0 /\ Rank(c) >= offset + Limit}
      <4>1. \A c \in Visible : Rank(c) >= offset + Limit => seen'[c] = seen[c]
        BY <1>0, <1>1, <2>1, <2>2
      <4> QED BY <3>1, <4>1
    <3>3. Returning = {c \in Visible : seen[c] > 0 /\ Rank(c) >= offset}
      BY <2>1 DEF Returning
    <3>4. Seen = {c \in Visible : seen[c] > 0 /\ offset <= Rank(c) /\ Rank(c) < offset + Limit}
      BY <2>2
    <3>5. \A c \in Visible : Rank(c) >= offset <=>
            (offset <= Rank(c) /\ Rank(c) < offset + Limit) \/ Rank(c) >= offset + Limit
      BY <1>0, <1>1
    <3>6. \A c \in Visible : ~ (Rank(c) < offset + Limit /\ Rank(c) >= offset + Limit)
      BY <1>0, <1>1
    <3> QED BY <3>2, <3>3, <3>4, <3>5, <3>6
  <2>5. /\ IsFiniteSet(Seen) /\ IsFiniteSet(Returning')
        /\ Cardinality(Seen) \in Nat /\ Cardinality(Returning') \in Nat
        /\ Cardinality(Returning) = Cardinality(Seen) + Cardinality(Returning')
    <3>1. Seen \in SUBSET Returning /\ Returning' \in SUBSET Returning
      BY <2>4
    <3>2. IsFiniteSet(Seen) /\ IsFiniteSet(Returning')
      BY <1>4, <3>1, FS_Subset
    <3>3. Cardinality(Seen) \in Nat /\ Cardinality(Returning') \in Nat
      BY <3>2, FS_CardinalityType
    <3>4. Cardinality(Seen \cup Returning') =
            Cardinality(Seen) + Cardinality(Returning') - Cardinality(Seen \cap Returning')
      BY <3>2, FS_Union
    <3>5. Cardinality(Seen \cap Returning') = 0
      BY <2>4, FS_EmptySet
    <3> QED BY <2>4, <3>2, <3>3, <3>4, <3>5
  <2>6. IsFiniteSet(New) /\ Cardinality(New) \in Nat /\ Cardinality(New) <= Cardinality(Seen)
    <3>1. again \in Surjection(Seen, New)
      BY DEF Surjection
    <3> QED BY <2>5, <3>1, FS_Surjection, FS_CardinalityType
  <2>7. Again' \in SUBSET (Again \cup New)
    <3> SUFFICES ASSUME NEW c \in Requests, NEW k \in 2..seen'[c]
                 PROVE  <<c, k>> \in Again \cup New
      BY DEF Again
    <3>1. seen[c] \in Nat /\ seen'[c] = (IF c \in page' THEN seen[c] + 1 ELSE seen[c])
      BY <1>0, <2>1
    <3>2. CASE k <= seen[c]
      BY <3>1, <3>2 DEF Again
    <3>3. CASE k > seen[c]
      <4>1. c \in page' /\ k = seen[c] + 1 /\ seen[c] > 0
        BY <3>1, <3>3
      <4>2. c \in Seen
        BY <2>2, <4>1
      <4> QED BY <4>1, <4>2
    <3> QED BY <3>1, <3>2, <3>3
  <2>8. Cardinality(Again') <= Cardinality(Again) + Cardinality(New)
        /\ Cardinality(Again') \in Nat
    <3>1. /\ IsFiniteSet(Again \cup New)
          /\ Cardinality(Again \cup New) =
               Cardinality(Again) + Cardinality(New) - Cardinality(Again \cap New)
      BY <1>2, <2>6, FS_Union
    <3>2. Cardinality(Again \cap New) \in Nat
      BY <1>2, FS_Intersection, FS_CardinalityType
    <3>3. /\ IsFiniteSet(Again') /\ Cardinality(Again') <= Cardinality(Again \cup New)
      BY <2>7, <3>1, FS_Subset
    <3>4. Cardinality(Again') \in Nat
      BY <3>3, FS_CardinalityType
    <3> QED BY <1>2, <2>6, <3>1, <3>2, <3>3, <3>4
  <2>9. Cardinality(Again) + Cardinality(Returning) <= added
    BY <2>1 DEF ShownInv
  <2>10. Cardinality(Again') + Cardinality(Returning') <= added'
    BY <1>0, <1>2, <1>4, <2>1, <2>5, <2>6, <2>8, <2>9
  <2>11. \A c \in Requests : seen'[c] > 0 => c \in Visible
    BY <1>0, <2>1, <2>2 DEF ShownInv
  <2>12. RepeatsComeFromUploads' /\ NothingSkipped'
    BY <2>1, <2>5, <2>8, <2>10, <1>0 DEF RepeatsComeFromUploads, NothingSkipped
  <2> QED BY <1>0, <2>1, <2>3, <2>10, <2>11, <2>12 DEF ShownInv
<1>7. CASE CountTotal
  <2>1. /\ at = "total" /\ Frontier = offset + Limit
        /\ seen' = seen /\ listed' = listed /\ added' = added
        /\ Again' = Again
    BY <1>7 DEF CountTotal, Frontier, Again
  <2>2. /\ \A c \in listed : seen[c] > 0 \/ Rank(c) >= offset + Limit
        /\ Cardinality(Again) + Cardinality(Returning) <= added
    BY <2>1 DEF ShownInv
  <2>3. RepeatsComeFromUploads'
    BY <1>0, <1>2, <1>4, <2>1, <2>2 DEF RepeatsComeFromUploads
  <2>4. CASE HasMore
    <3>1. at' = "rows" /\ Frontier' = offset + Limit
      BY <1>7, <2>4 DEF CountTotal, Frontier
    <3>2. Returning' = Returning
      BY <1>0, <1>1, <2>1, <3>1 DEF Returning
    <3> QED BY <1>0, <1>1, <2>1, <2>2, <2>3, <3>1, <3>2 DEF ShownInv, NothingSkipped
  <2>5. CASE ~ HasMore
    <3>1. at' = "end"
      BY <1>7, <2>5 DEF CountTotal
    <3>2. Cardinality(page) <= Limit /\ Cardinality(page) \in Nat /\ Cardinality(Visible) \in Nat
      BY FinitelyManyCalls, VisibleCalls DEF KeysInv, WalkOK
    <3>3. Cardinality(Visible) <= offset + Limit
      BY <1>0, <2>5, <3>2 DEF HasMore
    <3>4. \A c \in listed : seen[c] > 0
      BY <1>0, <1>1, <2>2, <3>2, <3>3, RankBound
    <3> QED BY <1>0, <2>1, <2>3, <3>1, <3>4 DEF ShownInv, NothingSkipped
  <2> QED BY <2>4, <2>5
<1> QED BY <1>5, <1>6, <1>7 DEF TurnPages
-----------------------------------------------------------------------------
(* The list as a client finds it.                                          *)

\* Numbering a finite set gives each member a number of its own.
LEMMA SetToSeqNumbers ==
  ASSUME NEW S, IsFiniteSet(S)
  PROVE  /\ DOMAIN SetToSeq(S) = 1..Cardinality(S)
         /\ \A s \in S : \E i \in 1..Cardinality(S) : SetToSeq(S)[i] = s
<1> DEFINE n == Cardinality(S)
           Rows == {f \in [1..n -> S] : IsInjective(f)}
<1>1. n \in Nat /\ ExistsBijection(1..n, S)
  BY FS_CardinalityType
<1>2. PICK g \in Bijection(1..n, S) : TRUE
  BY <1>1 DEF ExistsBijection
<1>3. g \in [1..n -> S] /\ IsInjective(g)
  BY <1>2 DEF Bijection, Injection, IsInjective
<1>4. SetToSeq(S) \in [1..n -> S] /\ IsInjective(SetToSeq(S))
  BY <1>3 DEF SetToSeq
<1>5. SetToSeq(S) \in Injection(1..n, S)
  BY <1>4 DEF Injection, IsInjective
<1>6. Cardinality(1..n) = n /\ IsFiniteSet(1..n)
  BY <1>1, FS_Interval
<1>7. SetToSeq(S) \in Surjection(1..n, S)
  BY <1>5, <1>6, FS_Injection
<1> QED BY <1>4, <1>7 DEF Surjection

\* The calls of Earlier are stored, published and numbered.
LEMMA InitListInv == ListInit => KeysInv /\ ShownInv
<1> SUFFICES ASSUME ListInit PROVE KeysInv /\ ShownInv
  OBVIOUS
<1>1. UploadInv
  BY NamesAssumption, EarlierAssumption
  DEF ListInit, UploadInv, TypeOK, Steps, StoredByStep, OneCallPerExternalId,
      AnswerFits, PublishedByStep, StoredByNeed
<1> DEFINE n == Cardinality(Earlier)
           ranks == SetToSeq(Earlier)
<1>2. IsFiniteSet(Earlier) /\ n \in Nat
  BY EarlierAssumption, FS_Subset, FS_CardinalityType
<1>3. DOMAIN ranks = 1..n /\ \A r \in Earlier : \E i \in 1..n : ranks[i] = r
  BY <1>2, SetToSeqNumbers
<1>4. id = [r \in Requests |->
              IF r \in Earlier THEN CHOOSE i \in DOMAIN ranks : ranks[i] = r ELSE 0]
  BY DEF ListInit
<1> HIDE DEF ranks
<1>5. \A r \in Earlier : id[r] \in 1..n /\ ranks[id[r]] = r
  <2> SUFFICES ASSUME NEW r \in Earlier PROVE id[r] \in 1..n /\ ranks[id[r]] = r
    OBVIOUS
  <2>1. id[r] = CHOOSE i \in 1..n : ranks[i] = r
    BY <1>3, <1>4, EarlierAssumption
  <2> QED BY <1>3, <2>1
<1>6. KeysOK
  <2>1. id \in [Requests -> Nat]
    <3>1. \A r \in Requests : id[r] \in Nat
      BY <1>2, <1>4, <1>5
    <3> QED BY <1>4, <3>1
  <2>2. created \in [Requests -> Nat]
    BY DEF ListInit
  <2>3. \A c \in Earlier : id[c] > 0 /\ id[c] <= Cardinality(Earlier)
    BY <1>2, <1>5
  <2>4. \A c, d \in Earlier : id[c] = id[d] => c = d
    BY <1>5
  <2> QED BY <2>1, <2>2, <2>3, <2>4 DEF KeysOK, ListInit
<1>7. WalkOK
  BY FS_EmptySet, LimitAssumption DEF WalkOK, ListInit
<1>8. Again = {} /\ Returning = {}
  <2>1. \A c \in Requests : seen[c] = 0
    BY DEF ListInit
  <2>2. Visible \subseteq Requests
    BY <1>1 DEF UploadInv, TypeOK, Visible
  <2> QED BY <2>1, <2>2 DEF Again, Returning
<1>9. Cardinality({}) = 0
  BY FS_EmptySet
<1>10. Cardinality(Again) + Cardinality(Returning) <= added /\ RepeatsComeFromUploads
  BY <1>8, <1>9 DEF ListInit, RepeatsComeFromUploads
<1>11. ShownInv
  BY <1>10 DEF ListInit, ShownInv, NothingSkipped
<1> QED BY <1>1, <1>6, <1>7, <1>11 DEF KeysInv

\* Every step of the uploads and of the client keeps keys and count.
LEMMA NextListInv == KeysInv /\ ShownInv /\ [ListNext]_listVars => (KeysInv /\ ShownInv)'
<1> SUFFICES ASSUME KeysInv, ShownInv, [ListNext]_listVars PROVE (KeysInv /\ ShownInv)'
  OBVIOUS
<1>1. KeysInv'
  BY NextKeysInv
<1>2. CASE UNCHANGED listVars
  <2>1. Visible' = Visible
    BY <1>2 DEF listVars, vars, Visible
  <2> QED
    BY <1>1, <1>2, <2>1 DEF ShownInv, Again, Returning, Frontier, Rank, Preceding, Before,
       NothingSkipped, RepeatsComeFromUploads, listVars, keys, walk
<1> QED BY <1>1, <1>2, UploadShownInv, WalkShownInv DEF ListNext

\* They hold in every state of the list.
LEMMA ListInvariant == ListSpec => [](KeysInv /\ ShownInv)
BY InitListInv, NextListInv, PTL DEF ListSpec

\* Every table and what the client holds keep their types, ids stay different.
THEOREM ListTypeCorrect == ListSpec => []ListTypeOK
<1>1. KeysInv => ListTypeOK
  BY DEF KeysInv, UploadInv, KeysOK, WalkOK, ListTypeOK
<1> QED BY <1>1, ListInvariant, PTL

\* However many calls are uploaded while a client turns the pages, and wherever
\* they come to stand, the last page is reached with every call that was there.
THEOREM PagesSkipNothing == ListSpec => []NothingSkipped
<1>1. ShownInv => NothingSkipped
  BY DEF ShownInv
<1> QED BY <1>1, ListInvariant, PTL

\* Each repetition has an upload of its own.
THEOREM UploadsPayForRepeats == ListSpec => []RepeatsComeFromUploads
<1>1. ShownInv => RepeatsComeFromUploads
  BY DEF ShownInv
<1> QED BY <1>1, ListInvariant, PTL

\* What a listing client sees of the uploads is as safe as without it.
THEOREM ListedUploadsAreSafe ==
  ListSpec => [](RepeatsAreIdempotent /\ AnsweredMeansPublished)
<1>1. KeysInv => RepeatsAreIdempotent /\ AnsweredMeansPublished
  BY RepeatsFollowSteps, AnswersFollowSteps DEF KeysInv
<1> QED BY <1>1, ListInvariant, PTL
=============================================================================
