---------------------------- MODULE CallPipeline ----------------------------
(***************************************************************************)
(* The call analysis pipeline: POST /calls stores a call and publishes a   *)
(* process_call message; the processes of the Celery workers consume the   *)
(* messages, write transcript, verdict rows, total score and status of the *)
(* call, and retry on failure; people confirm verdict rows meanwhile.      *)
(*                                                                         *)
(* One action per transaction or external effect of the code, so the steps *)
(* of two worker processes (and the requests) interleave between commits.  *)
(*                                                                         *)
(* What the task knows of the call is what its SQLAlchemy session loaded   *)
(* first (expire_on_commit=False): `session' keeps that view, and a column *)
(* is only UPDATEd when it differs from the view, see Flush.               *)
(***************************************************************************)
EXTENDS Naturals, FiniteSets

CONSTANTS
  Calls,       \* the calls that may be uploaded
  NoCall,      \* what an idle worker process is working on
  Workers,     \* the processes of all Celery worker pools
  Items,       \* the active checklist items of the calls' organization
  Share(_),    \* _weighted_score of the set of items that passed
  MaxRetries,  \* max_retries of process_call
  Faults,      \* the kinds of fault that may happen
  MaxFaults    \* bound: how many times a worker crashes or is disconnected

FaultKinds ==
  { "crash",       \* a worker process dies; its unacked message is requeued
    "connection",  \* the broker drops a worker that goes on running its task
    "publish",     \* publishing a message raises (or the publisher dies)
    "database" }   \* a statement of the task, or of _mark_failed, raises

ASSUME CallsAssumption == NoCall \notin Calls
ASSUME RetriesAssumption == MaxRetries \in Nat
ASSUME FaultsAssumption == Faults \subseteq FaultKinds /\ MaxFaults \in Nat
ASSUME ShareAssumption == \A S \in SUBSET Items : Share(S) \in Nat

VARIABLES
  \* the database
  status,      \* calls.status, "absent" before the upload
  error,       \* the calls with a non-null calls.error
  total,       \* calls.total_score, NoTotal when null
  rows,        \* the verdict of each item's call_scores row, "none" without
  verified,    \* the items whose row has is_verified
  transcripts, \* the calls with an (embedded) transcript
  \* the API and the broker
  uploading,   \* the calls committed by an upload that has yet to publish
  queue,       \* the number of queued messages of each call and retry count
  \* the worker processes
  pc,          \* the next step of each process
  job,         \* the message it works on
  own,         \* whether the broker still holds that message for it
  session,     \* the view and the uncommitted work of its database session
  faults       \* crashes and disconnections so far

callVars == <<status, error, total, rows, verified, transcripts>>
scoreVars == <<total, rows, verified>>
vars == <<callVars, uploading, queue, pc, job, own, session, faults>>

CallStatus == {"queued", "transcribing", "analyzing", "done", "failed"}
Active == {"queued", "transcribing", "analyzing"}
Verdicts == {"none", "fail", "pass"}
NoTotal == 0 - 1
Totals == {Share(S) : S \in SUBSET Items} \cup {NoTotal}
Retries == 0..MaxRetries

Jobs == [call : Calls, retries : Retries]
NoJob == [call |-> NoCall, retries |-> 0]
Steps == {"load", "start", "transcribe", "insert", "embed", "mark", "analyze",
          "score", "finish", "fail", "record", "retry", "ack"}

NoVerdicts == [i \in Items |-> "none"]
Closed == [status |-> "queued", error |-> FALSE, total |-> NoTotal,
           verdicts |-> NoVerdicts, doomed |-> {}]
Sessions == [status : CallStatus, error : BOOLEAN, total : Totals,
             verdicts : [Items -> Verdicts], doomed : SUBSET Items]

Given(v) == {i \in Items : v[i] # "none"}
Passed(v) == {i \in Items : v[i] = "pass"}

Init ==
  /\ status = [c \in Calls |-> "absent"]
  /\ error = {}
  /\ total = [c \in Calls |-> NoTotal]
  /\ rows = [c \in Calls |-> NoVerdicts]
  /\ verified = [c \in Calls |-> {}]
  /\ transcripts = {}
  /\ uploading = {}
  /\ queue = [c \in Calls |-> [r \in Retries |-> 0]]
  /\ pc = [w \in Workers |-> "idle"]
  /\ job = [w \in Workers |-> NoJob]
  /\ own = [w \in Workers |-> FALSE]
  /\ session = [w \in Workers |-> Closed]
  /\ faults = 0
-----------------------------------------------------------------------------
(* The upload request and the broker.                                      *)

Send(c, r) == queue' = [queue EXCEPT ![c][r] = @ + 1]

\* create_from_audio up to its commit: the call exists, nothing is published.
Upload(c) ==
  /\ status[c] = "absent"
  /\ status' = [status EXCEPT ![c] = "queued"]
  /\ uploading' = uploading \cup {c}
  /\ UNCHANGED <<error, scoreVars, transcripts, queue, pc, job, own, session, faults>>

\* process_call.delay(call.id) after the commit.
Publish(c) ==
  /\ c \in uploading
  /\ uploading' = uploading \ {c}
  /\ Send(c, 0)
  /\ UNCHANGED <<callVars, pc, job, own, session, faults>>

\* delay() raises, or the API process dies first: the call stays committed.
PublishFails(c) ==
  /\ "publish" \in Faults
  /\ c \in uploading
  /\ uploading' = uploading \ {c}
  /\ UNCHANGED <<callVars, queue, pc, job, own, session, faults>>

\* The broker hands a message to an idle process (prefetch of one, late ack).
Deliver(w, c, r) ==
  /\ pc[w] = "idle"
  /\ queue[c][r] > 0
  /\ queue' = [queue EXCEPT ![c][r] = @ - 1]
  /\ pc' = [pc EXCEPT ![w] = "load"]
  /\ job' = [job EXCEPT ![w] = [call |-> c, retries |-> r]]
  /\ own' = [own EXCEPT ![w] = TRUE]
  /\ UNCHANGED <<callVars, uploading, session, faults>>
-----------------------------------------------------------------------------
(* _process_call.  A session writes a column only if its new value differs *)
(* from the one the session loaded, whatever the database holds by now.    *)

Flush(stored, known, new) == IF new = known THEN stored ELSE new

At(w, step) == pc[w] = step
Goto(w, step) == pc' = [pc EXCEPT ![w] = step]
CallOf(w) == job[w].call
SameCall(w) == {v \in Workers \ {w} : CallOf(v) = CallOf(w)}
CloseSession(w) == session' = [session EXCEPT ![w] = Closed]

\* What a new session knows of a call it has loaded.
View(c) == [status |-> status[c], error |-> (c \in error), total |-> total[c],
            verdicts |-> NoVerdicts, doomed |-> {}]

\* call_repo.get; a call that is gone or done ends the task.
Load(w) ==
  LET c == CallOf(w) IN
  /\ At(w, "load")
  /\ \/ /\ status[c] \in {"absent", "done"}
        /\ Goto(w, "ack")
        /\ UNCHANGED session
     \/ /\ status[c] \notin {"absent", "done"}
        /\ Goto(w, "start")
        /\ session' = [session EXCEPT ![w] = View(c)]
  /\ UNCHANGED <<callVars, uploading, queue, job, own, faults>>

\* Bug: the status is not set.
StartKeepsStatus(w) ==
  /\ At(w, "start")
  /\ error' = error \ {CallOf(w)}
  /\ session' = [session EXCEPT ![w].error = FALSE]
  /\ Goto(w, "transcribe")
  /\ UNCHANGED <<status, scoreVars, transcripts, uploading, queue, job, own, faults>>

\* status TRANSCRIBING, error None, commit.
Start(w) ==
  LET c == CallOf(w) IN
  /\ At(w, "start")
  /\ status' = [status EXCEPT
       ![c] = Flush(@, session[w].status, "transcribing")]
  /\ error' = IF Flush(c \in error, session[w].error, FALSE)
              THEN error \cup {c} ELSE error \ {c}
  /\ session' = [session EXCEPT ![w].status = "transcribing", ![w].error = FALSE]
  /\ Goto(w, "transcribe")
  /\ UNCHANGED <<scoreVars, transcripts, uploading, queue, job, own, faults>>

\* get_by_call_id: a transcript that is there is kept; it is embedded once more
\* if the model has changed (see Raises for a failure of that).
Transcribe(w) ==
  /\ At(w, "transcribe")
  /\ Goto(w, IF CallOf(w) \in transcripts THEN "mark" ELSE "insert")
  /\ UNCHANGED <<callVars, uploading, queue, job, own, session, faults>>

\* The flushed INSERT waits for an uncommitted one of the same call_id, and
\* violates the unique index when that one has been committed.
InsertTranscript(w) ==
  /\ At(w, "insert")
  /\ \A v \in SameCall(w) : ~ At(v, "embed")
  /\ Goto(w, IF CallOf(w) \in transcripts THEN "fail" ELSE "embed")
  /\ IF CallOf(w) \in transcripts THEN CloseSession(w) ELSE UNCHANGED session
  /\ UNCHANGED <<callVars, uploading, queue, job, own, faults>>

\* The embedder answers; transcript and embedding are committed together.
Embed(w) ==
  /\ At(w, "embed")
  /\ transcripts' = transcripts \cup {CallOf(w)}
  /\ Goto(w, "mark")
  /\ UNCHANGED <<status, error, scoreVars, uploading, queue, job, own, session, faults>>

\* Bug: DONE is committed before the analysis.
MarkDone(w) ==
  /\ At(w, "mark")
  /\ status' = [status EXCEPT ![CallOf(w)] = "done"]
  /\ session' = [session EXCEPT ![w].status = "done"]
  /\ Goto(w, "analyze")
  /\ UNCHANGED <<error, scoreVars, transcripts, uploading, queue, job, own, faults>>

\* status ANALYZING, commit.
MarkAnalyzing(w) ==
  /\ At(w, "mark")
  /\ status' = [status EXCEPT
       ![CallOf(w)] = Flush(@, session[w].status, "analyzing")]
  /\ session' = [session EXCEPT ![w].status = "analyzing"]
  /\ Goto(w, "analyze")
  /\ UNCHANGED <<error, scoreVars, transcripts, uploading, queue, job, own, faults>>

\* Bug: the rows of an earlier attempt are not deleted.
AnalyzeKeepsRows(w) ==
  /\ At(w, "analyze")
  /\ \E v \in [Items -> Verdicts] : session' = [session EXCEPT ![w].verdicts = v]
  /\ Goto(w, "score")
  /\ UNCHANGED <<callVars, uploading, queue, job, own, faults>>

\* analyze_call up to its DELETE: the model answers with a verdict for some
\* items, and the rows that are there now are marked deleted, uncommitted.
\* The wait of a DELETE for the marks of another session is left out: it only
\* orders the two commits, and either order is reached without it.
Analyze(w) ==
  /\ At(w, "analyze")
  /\ \E v \in [Items -> Verdicts] :
       session' = [session EXCEPT ![w].verdicts = v,
                                  ![w].doomed = Given(rows[CallOf(w)])]
  /\ Goto(w, "score")
  /\ UNCHANGED <<callVars, uploading, queue, job, own, faults>>

\* Inserting a row for an item that kept its own violates uq_score_per_item.
Conflict(w) ==
  LET s == session[w] IN
  (Given(rows[CallOf(w)]) \ s.doomed) \cap Given(s.verdicts) # {}

\* Bug: the total counts the passed items and leaves their weights out.
CommitUnweighted(w) ==
  LET c == CallOf(w)
      s == session[w]
  IN
  /\ At(w, "score")
  /\ ~ Conflict(w)
  /\ rows' = [rows EXCEPT ![c] = s.verdicts]
  /\ verified' = [verified EXCEPT ![c] = {}]
  /\ total' = [total EXCEPT ![c] = Cardinality(Passed(s.verdicts))]
  /\ session' = [session EXCEPT ![w] = [Closed EXCEPT !.status = s.status]]
  /\ Goto(w, "finish")
  /\ UNCHANGED <<status, error, transcripts, uploading, queue, job, own, faults>>

\* The commit of analyze_call: DELETE, INSERTs and UPDATE of the total.  The
\* rows deleted here are gone for every other session that marked them.
CommitScores(w) ==
  LET c == CallOf(w)
      s == session[w]
  IN
  /\ At(w, "score")
  /\ ~ Conflict(w)
  /\ rows' = [rows EXCEPT ![c] =
       [i \in Items |-> IF s.verdicts[i] # "none" THEN s.verdicts[i]
                        ELSE IF i \in s.doomed THEN "none" ELSE @[i]]]
  /\ verified' = [verified EXCEPT ![c] = @ \ s.doomed]
  /\ total' = [total EXCEPT ![c] = Flush(@, s.total, Share(Passed(s.verdicts)))]
  /\ session' = [v \in Workers |->
       IF v = w THEN [Closed EXCEPT !.status = s.status]
       ELSE IF v \in SameCall(w)
            THEN [session[v] EXCEPT !.doomed = @ \ s.doomed]
       ELSE session[v]]
  /\ Goto(w, "finish")
  /\ UNCHANGED <<status, error, transcripts, uploading, queue, job, own, faults>>

\* status DONE, commit.
Finish(w) ==
  /\ At(w, "finish")
  /\ status' = [status EXCEPT
       ![CallOf(w)] = Flush(@, session[w].status, "done")]
  /\ CloseSession(w)
  /\ Goto(w, "ack")
  /\ UNCHANGED <<error, scoreVars, transcripts, uploading, queue, job, own, faults>>
-----------------------------------------------------------------------------
(* process_call around it: any exception rolls the session back, is        *)
(* recorded by _mark_failed and retried.                                   *)

\* The embedder and the model may fail at any call, and an answer that names
\* an item twice, like a Conflict, fails the flush; every other exception is
\* the database's.
Raises(w) ==
  /\ \/ pc[w] \in {"embed", "analyze", "score"}
     \/ At(w, "transcribe") /\ CallOf(w) \in transcripts
     \/ "database" \in Faults /\ pc[w] \in Steps \ {"fail", "record", "retry", "ack"}
  /\ Goto(w, "fail")
  /\ CloseSession(w)
  /\ UNCHANGED <<callVars, uploading, queue, job, own, faults>>

\* _mark_failed reads the call in a session of its own.
ReadFailed(w) ==
  LET c == CallOf(w) IN
  /\ At(w, "fail")
  /\ \/ /\ status[c] = "absent"
        /\ Goto(w, "retry")
        /\ UNCHANGED session
     \/ /\ status[c] # "absent"
        /\ Goto(w, "record")
        /\ session' = [session EXCEPT ![w] = View(c)]
  /\ UNCHANGED <<callVars, uploading, queue, job, own, faults>>

\* Bug: the error is not stored.
MarkFailedSilently(w) ==
  /\ At(w, "record")
  /\ status' = [status EXCEPT ![CallOf(w)] = "failed"]
  /\ CloseSession(w)
  /\ Goto(w, "retry")
  /\ UNCHANGED <<error, scoreVars, transcripts, uploading, queue, job, own, faults>>

\* Its commit, whatever the call's status was; an error that reads like the one
\* it has loaded is not written.
MarkFailed(w) ==
  LET c == CallOf(w) IN
  /\ At(w, "record")
  /\ status' = [status EXCEPT ![c] = Flush(@, session[w].status, "failed")]
  /\ \/ error' = error \cup {c}
     \/ session[w].error /\ UNCHANGED error
  /\ CloseSession(w)
  /\ Goto(w, "retry")
  /\ UNCHANGED <<scoreVars, transcripts, uploading, queue, job, own, faults>>

\* _mark_failed raises too: the exception leaves the task, which is acked.
MarkFailedRaises(w) ==
  /\ "database" \in Faults
  /\ At(w, "fail") \/ At(w, "record")
  /\ CloseSession(w)
  /\ Goto(w, "ack")
  /\ UNCHANGED <<callVars, uploading, queue, job, own, faults>>

\* Bug: the message of the failed attempt is requeued as well.
RetryAndRequeue(w) ==
  /\ At(w, "retry")
  /\ job[w].retries < MaxRetries
  /\ queue' = [queue EXCEPT ![CallOf(w)][job[w].retries] = @ + 1,
                            ![CallOf(w)][job[w].retries + 1] = @ + 1]
  /\ Goto(w, "ack")
  /\ UNCHANGED <<callVars, uploading, job, own, session, faults>>

\* self.retry publishes the next attempt, or gives up after max_retries.
Retry(w) ==
  /\ At(w, "retry")
  /\ IF job[w].retries < MaxRetries
     THEN Send(CallOf(w), job[w].retries + 1) ELSE UNCHANGED queue
  /\ Goto(w, "ack")
  /\ UNCHANGED <<callVars, uploading, job, own, session, faults>>

\* The publication in self.retry raises: rejected without being requeued.
RetryFails(w) ==
  /\ "publish" \in Faults
  /\ At(w, "retry")
  /\ job[w].retries < MaxRetries
  /\ Goto(w, "ack")
  /\ UNCHANGED <<callVars, uploading, queue, job, own, session, faults>>

Release(w) ==
  /\ Goto(w, "idle")
  /\ job' = [job EXCEPT ![w] = NoJob]
  /\ own' = [own EXCEPT ![w] = FALSE]

Ack(w) ==
  /\ At(w, "ack")
  /\ Release(w)
  /\ UNCHANGED <<callVars, uploading, queue, session, faults>>

Requeue(w) == Send(CallOf(w), job[w].retries)

\* Bug: the message of a process that dies is acked (task_reject_on_worker_lost
\* not set).
CrashAcked(w) ==
  /\ "crash" \in Faults
  /\ faults < MaxFaults
  /\ ~ At(w, "idle")
  /\ faults' = faults + 1
  /\ Release(w)
  /\ CloseSession(w)
  /\ UNCHANGED <<callVars, uploading, queue>>

\* The process dies (reject_on_worker_lost) with what it had not committed.
Crash(w) ==
  /\ "crash" \in Faults
  /\ faults < MaxFaults
  /\ ~ At(w, "idle")
  /\ faults' = faults + 1
  /\ IF own[w] THEN Requeue(w) ELSE UNCHANGED queue
  /\ Release(w)
  /\ CloseSession(w)
  /\ UNCHANGED <<callVars, uploading>>

\* The broker loses the worker and requeues its message; the task runs on.
ConnectionLoss(w) ==
  /\ "connection" \in Faults
  /\ faults < MaxFaults
  /\ own[w]
  /\ faults' = faults + 1
  /\ Requeue(w)
  /\ own' = [own EXCEPT ![w] = FALSE]
  /\ UNCHANGED <<callVars, uploading, pc, job, session>>
-----------------------------------------------------------------------------
(* PATCH /calls/{id}/scores/{id}: a person confirms a verdict row or takes *)
(* it back.  A row an open transaction has marked deleted is locked.       *)

SetVerified(c, i) ==
  /\ rows[c][i] # "none"
  /\ \A w \in Workers : CallOf(w) = c => i \notin session[w].doomed
  /\ verified' = [verified EXCEPT
       ![c] = IF i \in @ THEN @ \ {i} ELSE @ \cup {i}]
  /\ UNCHANGED <<status, error, total, rows, transcripts, uploading, queue,
                 pc, job, own, session, faults>>
-----------------------------------------------------------------------------
\* A step of the code of process_call in process w.
Process(w) ==
  \/ Load(w) \/ Start(w) \/ Transcribe(w) \/ InsertTranscript(w) \/ Embed(w)
  \/ MarkAnalyzing(w) \/ Analyze(w) \/ CommitScores(w) \/ Finish(w)
  \/ Raises(w) \/ ReadFailed(w) \/ MarkFailed(w) \/ MarkFailedRaises(w)
  \/ Retry(w) \/ RetryFails(w) \/ Ack(w)

Request(c) == Upload(c) \/ \E i \in Items : SetVerified(c, i)
Publication(c) == Publish(c) \/ PublishFails(c)
Delivery(w) == \E c \in Calls, r \in Retries : Deliver(w, c, r)
Fault(w) == Crash(w) \/ ConnectionLoss(w)

Next ==
  \/ \E c \in Calls : Request(c) \/ Publication(c)
  \/ \E w \in Workers : Delivery(w) \/ Process(w) \/ Fault(w)

Spec == Init /\ [][Next]_vars

\* A request that has committed goes on, a free process takes a message and a
\* running task proceeds: the event loop, the broker and the operating system
\* see to it.  Nobody has to upload or confirm, and no fault has to happen.
Fairness ==
  /\ \A c \in Calls : WF_vars(Publication(c))
  /\ \A w \in Workers : WF_vars(Delivery(w)) /\ WF_vars(Process(w))

FairSpec == Spec /\ Fairness
-----------------------------------------------------------------------------
\* The tables, the broker and the processes hold values of their types.
TypeOK ==
  /\ status \in [Calls -> CallStatus \cup {"absent"}]
  /\ error \subseteq Calls
  /\ total \in [Calls -> Totals]
  /\ rows \in [Calls -> [Items -> Verdicts]]
  /\ verified \in [Calls -> SUBSET Items]
  /\ transcripts \subseteq Calls
  /\ uploading \subseteq Calls
  /\ queue \in [Calls -> [Retries -> Nat]]
  /\ pc \in [Workers -> Steps \cup {"idle"}]
  /\ job \in [Workers -> Jobs \cup {NoJob}]
  /\ own \in [Workers -> BOOLEAN]
  /\ session \in [Workers -> Sessions]
  /\ faults \in Nat

Queued(c) == \E r \in Retries : queue[c][r] > 0
WorkedOn(c) ==
  \E w \in Workers : pc[w] \notin {"idle", "retry", "ack"} /\ CallOf(w) = c

\* A call that is neither done nor failed is still going to be worked on: its
\* upload has yet to publish, a message is queued, or a process will write
\* its outcome.  This is what acks_late and reject_on_worker_lost are for.
CallNotLost ==
  \A c \in Calls : status[c] \in Active =>
    c \in uploading \/ Queued(c) \/ WorkedOn(c)

\* The faults under which the task settings keep that promise: publishing and
\* the database work, and a process that dies was not disconnected before.
Reliable ==
  /\ {"publish", "database"} \cap Faults = {}
  /\ ~ ({"crash", "connection"} \subseteq Faults)

NoCallLost == Reliable => CallNotLost

\* Without crashes and disconnections the broker delivers no message twice.
SingleDelivery == {"crash", "connection"} \cap Faults = {}

Busy(w) == pc[w] \notin {"idle", "ack"}

\* No two processes work on the same call.
OneAtATime ==
  \A v, w \in Workers : v # w /\ Busy(v) /\ Busy(w) => CallOf(v) # CallOf(w)

\* A done call has its transcript and a total, whoever else works on it.
DoneMeansAnalysed ==
  \A c \in Calls : status[c] = "done" =>
    c \in transcripts /\ total[c] # NoTotal

\* The stored total is the score of the stored rows: what lists and statistics
\* show of a call agrees with its report.
TotalMatchesScores ==
  \A c \in Calls : total[c] # NoTotal => total[c] = Share(Passed(rows[c]))

\* A call has an error exactly while its last attempt has failed, so a retry
\* that succeeds leaves none behind.
ErrorMeansFailed ==
  \A c \in Calls : c \in error <=> status[c] = "failed"

\* A done call stays done: a redelivered or retried message skips it.
DoneIsFinal ==
  [][\A c \in Calls : status[c] = "done" => status'[c] = "done"]_vars

\* What a person confirmed on a done call is taken back only by a person: its
\* verdict rows are neither replaced nor unconfirmed by the pipeline.
ConfirmedIsKept ==
  [][\A c \in Calls : status[c] = "done" =>
       /\ rows'[c] = rows[c]
       /\ verified'[c] # verified[c] => \E i \in Items : SetVerified(c, i)]_vars

\* The statuses, scores and confirmations of calls change as the lifecycle says.
Lifecycle == INSTANCE CallLifecycle
FollowsLifecycle == Lifecycle!Spec

\* Every uploaded call is eventually done, or failed for good after its last
\* retry.
Settles ==
  \A c \in Calls : status[c] = "queued" ~>
    [](status[c] = "done") \/ [](status[c] = "failed")
=============================================================================
