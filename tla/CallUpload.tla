----------------------------- MODULE CallUpload -----------------------------
(***************************************************************************)
(* POST /calls, CallService.create_from_audio: concurrent upload requests, *)
(* some with the same external_id.  A request resolves the operator, looks *)
(* for a call with its external_id, writes the audio file, inserts the     *)
(* call and publishes it; the others run between any two of these steps.   *)
(* A call is named by the request that created it.  An external_id names   *)
(* one call whatever organization asks: neither the lookup nor the unique  *)
(* index looks at organizations.                                           *)
(***************************************************************************)
EXTENDS FiniteSets

CONSTANTS
  Requests,       \* the upload requests
  NoRequest,      \* the answer of a request that has no call
  Orgs,           \* the organizations they come from
  ExternalIds,    \* the external ids clients use
  NoExternalId,   \* an upload without one
  Failing         \* the requests that storage, database, broker or process may fail

ASSUME NamesAssumption ==
  NoRequest \notin Requests /\ NoExternalId \notin ExternalIds

VARIABLES
  pc,        \* the next step of each request
  org,       \* the organization of its user
  external,  \* its external_id
  before,    \* the calls that were committed when it began
  answer,    \* the call it is answered with
  files,     \* the requests whose audio file is stored
  calls,     \* the committed calls
  published  \* the calls whose process_call message was published

vars == <<pc, org, external, before, answer, files, calls, published>>

Steps == {"start", "resolve", "lookup", "save", "create", "publish",
          "answered", "denied", "conflict", "error"}
Final == {"answered", "denied", "conflict", "error"}

TypeOK ==
  /\ pc \in [Requests -> Steps]
  /\ org \in [Requests -> Orgs]
  /\ external \in [Requests -> ExternalIds \cup {NoExternalId}]
  /\ before \in [Requests -> SUBSET Requests]
  /\ answer \in [Requests -> Requests \cup {NoRequest}]
  /\ files \subseteq Requests
  /\ calls \subseteq Requests
  /\ published \subseteq Requests

Init ==
  /\ pc = [r \in Requests |-> "start"]
  /\ org \in [Requests -> Orgs]
  /\ external = [r \in Requests |-> NoExternalId]
  /\ before = [r \in Requests |-> {}]
  /\ answer = [r \in Requests |-> NoRequest]
  /\ files = {}
  /\ calls = {}
  /\ published = {}

Go(r, from, to) == pc[r] = from /\ pc' = [pc EXCEPT ![r] = to]

\* The calls an external_id names: the column is unique and nullable.
WithExternalId(e) == {c \in calls : e # NoExternalId /\ external[c] = e}

\* A client sends a file, with or without an external_id.
Receive(r) ==
  /\ Go(r, "start", "resolve")
  /\ \E e \in ExternalIds \cup {NoExternalId} : external' = [external EXCEPT ![r] = e]
  /\ before' = [before EXCEPT ![r] = calls]
  /\ UNCHANGED <<org, answer, files, calls, published>>

\* _resolve_operator refuses an operator outside the actor's scope.
ResolveOperator(r) ==
  /\ \/ Go(r, "resolve", "denied")
     \/ Go(r, "resolve", IF external[r] = NoExternalId THEN "save" ELSE "lookup")
  /\ UNCHANGED <<org, external, before, answer, files, calls, published>>

\* Bug: answers with the list of calls found.
LookupAll(r) ==
  /\ \/ /\ Go(r, "lookup", "answered")
        /\ WithExternalId(external[r]) # {}
        /\ answer' = [answer EXCEPT ![r] = WithExternalId(external[r])]
     \/ /\ Go(r, "lookup", "save")
        /\ WithExternalId(external[r]) = {}
        /\ UNCHANGED answer
  /\ UNCHANGED <<org, external, before, files, calls, published>>

\* get_by_external_id: an existing call is the answer.
Lookup(r) ==
  /\ \/ /\ Go(r, "lookup", "answered")
        /\ \E c \in WithExternalId(external[r]) : answer' = [answer EXCEPT ![r] = c]
     \/ /\ Go(r, "lookup", "save")
        /\ WithExternalId(external[r]) = {}
        /\ UNCHANGED answer
  /\ UNCHANGED <<org, external, before, files, calls, published>>

\* save_audio, under a name of its own.
SaveAudio(r) ==
  /\ Go(r, "save", "create")
  /\ files' = files \cup {r}
  /\ UNCHANGED <<org, external, before, answer, calls, published>>

\* Bug: external_id is not unique.
CreateAnyCall(r) ==
  /\ Go(r, "create", "publish")
  /\ calls' = calls \cup {r}
  /\ UNCHANGED <<org, external, before, answer, files, published>>

\* repo.create and commit: the unique index lets one call have an external_id.
CreateCall(r) ==
  /\ \/ /\ Go(r, "create", "publish")
        /\ WithExternalId(external[r]) = {}
        /\ calls' = calls \cup {r}
     \/ /\ Go(r, "create", "conflict")
        /\ WithExternalId(external[r]) # {}
        /\ UNCHANGED calls
  /\ UNCHANGED <<org, external, before, answer, files, published>>

\* Bug: nothing is published.
PublishNothing(r) ==
  /\ Go(r, "publish", "answered")
  /\ answer' = [answer EXCEPT ![r] = r]
  /\ UNCHANGED <<org, external, before, files, calls, published>>

\* process_call.delay, then the response.
PublishCall(r) ==
  /\ Go(r, "publish", "answered")
  /\ answer' = [answer EXCEPT ![r] = r]
  /\ published' = published \cup {r}
  /\ UNCHANGED <<org, external, before, files, calls>>

\* Storage, the database or the broker raises, or the process dies: the request
\* ends in an error, with what it was about to do done or not.
Fail(r) ==
  /\ r \in Failing
  /\ \E step \in {"resolve", "lookup", "save", "create", "publish"} : Go(r, step, "error")
  /\ files' = files \/ (pc[r] = "save" /\ files' = files \cup {r})
  /\ calls' = calls \/ (/\ pc[r] = "create" /\ WithExternalId(external[r]) = {}
                        /\ calls' = calls \cup {r})
  /\ published' = published \/ (pc[r] = "publish" /\ published' = published \cup {r})
  /\ UNCHANGED <<org, external, before, answer>>

Handle(r) ==
  \/ ResolveOperator(r) \/ Lookup(r) \/ SaveAudio(r) \/ CreateCall(r) \/ PublishCall(r)

Next == \E r \in Requests : Receive(r) \/ Handle(r) \/ Fail(r)

Spec == Init /\ [][Next]_vars

\* The event loop runs every handler to its end; no client has to upload.
FairSpec == Spec /\ \A r \in Requests : WF_vars(Handle(r))
-----------------------------------------------------------------------------
\* Whoever is answered with a call, its own or an existing one with the same
\* external_id, that call is published or about to be by the request that
\* created it; only a request that failed after its commit leaves its call
\* unpublished, and later ones are answered with it all the same.
AnsweredMeansPublished ==
  \A r \in Requests : pc[r] = "answered" =>
    /\ answer[r] \in calls
    /\ \/ answer[r] \in published
       \/ pc[answer[r]] = "publish"
       \/ answer[r] \in Failing /\ pc[answer[r]] = "error"

\* The uploads of an organization that repeat an external_id.
Repeats(r, c) ==
  /\ c \in calls
  /\ external[r] = external[c] /\ external[r] # NoExternalId
  /\ org[r] = org[c]

\* However uploads overlap and fail: one that repeats the external_id of a call is
\* answered with no other, and one that began after that call was committed is
\* neither stored nor refused for it.
RepeatsAreIdempotent ==
  \A r, c \in Requests : Repeats(r, c) =>
    /\ pc[r] = "answered" => answer[r] = c
    /\ c \in before[r] => r \notin files /\ pc[r] # "conflict"

\* What ARCHITECTURE.md says: "Uploads with the same external_id return the
\* existing call."  The loser of two that overlap is answered 409 instead.
RepeatsReturnTheCall ==
  \A r, c \in Requests : Repeats(r, c) => pc[r] # "conflict"

\* Every call that is stored while nothing fails is eventually published,
\* and every upload is answered in the end.
CallsGetPublished ==
  /\ \A r \in Requests \ Failing : r \in calls ~> r \in published
  /\ \A r \in Requests : pc[r] = "resolve" ~> pc[r] \in Final
=============================================================================
