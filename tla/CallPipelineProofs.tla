------------------------- MODULE CallPipelineProofs -------------------------
(***************************************************************************)
(* What CallPipeline guarantees for any numbers of calls, workers, items   *)
(* and retries.                                                            *)
(***************************************************************************)
EXTENDS CallPipeline, TLAPS

\* A process is idle exactly when it works on no message.
JobOK ==
  \A w \in Workers :
    IF pc[w] = "idle" THEN job[w] = NoJob /\ ~ own[w] ELSE job[w] \in Jobs

TypeInv == TypeOK /\ JobOK
-----------------------------------------------------------------------------
(* The values the actions store.                                           *)

\* A flushed column holds its old or its new value.
LEMMA FlushType ==
  ASSUME NEW S, NEW stored \in S, NEW known, NEW new \in S
  PROVE  Flush(stored, known, new) \in S
BY DEF Flush

\* What a closed session knows has the type of a session.
LEMMA ClosedType == Closed \in Sessions
<1>1. NoVerdicts \in [Items -> Verdicts]
  BY DEF NoVerdicts, Verdicts
<1>2. NoTotal \in Totals
  BY DEF Totals
<1> QED BY <1>1, <1>2 DEF Closed, Sessions, CallStatus

\* Adding a message to the queue keeps its type.
LEMMA SendType ==
  ASSUME queue \in [Calls -> [Retries -> Nat]], NEW c \in Calls, NEW r \in Retries,
         Send(c, r)
  PROVE  queue' \in [Calls -> [Retries -> Nat]]
BY DEF Send

\* The message of a busy process names a call and a retry count.
LEMMA JobType ==
  ASSUME TypeInv, NEW w \in Workers, pc[w] # "idle"
  PROVE  CallOf(w) \in Calls /\ job[w].retries \in Retries
BY DEF TypeInv, JobOK, CallOf, Jobs
-----------------------------------------------------------------------------
\* Initial states are well typed.
LEMMA InitTypeInv == Init => TypeInv
<1> SUFFICES ASSUME Init PROVE TypeInv
  OBVIOUS
<1>1. NoVerdicts \in [Items -> Verdicts] /\ NoTotal \in Totals
  BY DEF NoVerdicts, Verdicts, Totals
<1>2. TypeOK
  BY <1>1, ClosedType DEF Init, TypeOK
<1>3. JobOK
  BY DEF Init, JobOK
<1> QED BY <1>2, <1>3 DEF TypeInv

\* The type invariant is kept by every step: one lemma per group of actions.
LEMMA RequestTypeInv ==
  ASSUME TypeInv, NEW c \in Calls, Request(c) \/ Publication(c)
  PROVE  TypeInv'
<1>1. CASE Upload(c)
  BY <1>1 DEF Upload, TypeInv, TypeOK, JobOK, CallStatus, scoreVars
<1>2. CASE \E i \in Items : SetVerified(c, i)
  BY <1>2 DEF SetVerified, TypeInv, TypeOK, JobOK
<1>3. CASE Publish(c)
  <2>1. 0 \in Retries
    BY RetriesAssumption DEF Retries
  <2>2. queue' \in [Calls -> [Retries -> Nat]]
    BY <1>3, <2>1, SendType DEF Publish, TypeInv, TypeOK
  <2> QED BY <1>3, <2>2 DEF Publish, TypeInv, TypeOK, JobOK, callVars
<1>4. CASE PublishFails(c)
  BY <1>4 DEF PublishFails, TypeInv, TypeOK, JobOK, callVars
<1> QED BY <1>1, <1>2, <1>3, <1>4 DEF Request, Publication


\* A delivery keeps the types.
LEMMA DeliveryTypeInv ==
  ASSUME TypeInv, NEW w \in Workers, Delivery(w)
  PROVE  TypeInv'
<1> PICK c \in Calls, r \in Retries : Deliver(w, c, r)
  BY DEF Delivery
<1>1. [call |-> c, retries |-> r] \in Jobs
  BY DEF Jobs
<1>2. queue' \in [Calls -> [Retries -> Nat]]
  BY DEF Deliver, TypeInv, TypeOK
<1>3. TypeOK'
  BY <1>1, <1>2 DEF Deliver, TypeInv, TypeOK, callVars, Steps
<1>4. JobOK'
  BY <1>1 DEF Deliver, TypeInv, TypeOK, JobOK, callVars, Steps
<1> QED BY <1>3, <1>4 DEF TypeInv

\* Steps that move one process on and write at most its session.
LEMMA MoveTypeInv ==
  ASSUME TypeInv, NEW w \in Workers, NEW step \in Steps,
         pc[w] # "idle", Goto(w, step), session' \in [Workers -> Sessions],
         UNCHANGED <<callVars, uploading, queue, job, own, faults>>
  PROVE  TypeInv'
<1>1. TypeOK'
  BY DEF TypeInv, TypeOK, Goto, callVars
<1>2. JobOK'
  BY DEF TypeInv, TypeOK, JobOK, Goto, Steps
<1> QED BY <1>1, <1>2 DEF TypeInv

\* Ending a task keeps the types of its process.
LEMMA CloseType ==
  ASSUME TypeInv, NEW w \in Workers, CloseSession(w)
  PROVE  session' \in [Workers -> Sessions]
BY ClosedType DEF CloseSession, TypeInv, TypeOK

\* What a session loads of an uploaded call is a session.
LEMMA ViewType ==
  ASSUME TypeInv, NEW c \in Calls, status[c] # "absent"
  PROVE  View(c) \in Sessions
<1>1. status[c] \in CallStatus /\ total[c] \in Totals
  BY DEF TypeInv, TypeOK
<1> QED BY <1>1, ClosedType DEF View, Closed, Sessions

\* The steps that write no call keep the types.
LEMMA ReadTypeInv ==
  ASSUME TypeInv, NEW w \in Workers,
         \/ Load(w) \/ Transcribe(w) \/ InsertTranscript(w) \/ Analyze(w)
         \/ Raises(w) \/ ReadFailed(w)
  PROVE  TypeInv'
<1>0. session \in [Workers -> Sessions]
  BY DEF TypeInv, TypeOK
<1>1. CASE Load(w)
  <2> DEFINE c == CallOf(w)
  <2>1. c \in Calls
    BY <1>1, JobType DEF Load, At
  <2>2. CASE UNCHANGED session /\ Goto(w, "ack")
    BY <1>0, <1>1, <2>2, MoveTypeInv DEF Load, At, Steps
  <2>3. CASE /\ status[c] \notin {"absent", "done"}
             /\ Goto(w, "start")
             /\ session' = [session EXCEPT ![w] = View(c)]
    <3>1. session' \in [Workers -> Sessions]
      BY <1>0, <2>1, <2>3, ViewType
    <3> QED BY <1>1, <2>3, <3>1, MoveTypeInv DEF Load, At, Steps
  <2> QED BY <1>1, <2>2, <2>3 DEF Load
<1>2. CASE Transcribe(w)
  BY <1>0, <1>2, MoveTypeInv DEF Transcribe, At, Steps
<1>3. CASE InsertTranscript(w)
  BY <1>0, <1>3, CloseType, MoveTypeInv DEF InsertTranscript, At, Steps
<1>4. CASE Analyze(w)
  <2> PICK v \in [Items -> Verdicts] :
        session' = [session EXCEPT ![w].verdicts = v,
                                   ![w].doomed = Given(rows[CallOf(w)])]
    BY <1>4 DEF Analyze
  <2>1. session' \in [Workers -> Sessions]
    BY <1>0 DEF Sessions, Given
  <2> QED BY <1>4, <2>1, MoveTypeInv DEF Analyze, At, Steps
<1>5. CASE Raises(w)
  <2>1. pc[w] # "idle"
    BY <1>5 DEF Raises, At, Steps
  <2> QED BY <1>5, <2>1, CloseType, MoveTypeInv DEF Raises, Steps
<1>6. CASE ReadFailed(w)
  <2> DEFINE c == CallOf(w)
  <2>1. c \in Calls /\ pc[w] # "idle"
    BY <1>6, JobType DEF ReadFailed, At
  <2>2. CASE UNCHANGED session /\ Goto(w, "retry")
    BY <1>0, <1>6, <2>1, <2>2, MoveTypeInv DEF ReadFailed, Steps
  <2>3. CASE /\ status[c] # "absent"
             /\ Goto(w, "record")
             /\ session' = [session EXCEPT ![w] = View(c)]
    <3>1. session' \in [Workers -> Sessions]
      BY <1>0, <2>1, <2>3, ViewType
    <3> QED BY <1>6, <2>1, <2>3, <3>1, MoveTypeInv DEF ReadFailed, Steps
  <2> QED BY <1>6, <2>2, <2>3 DEF ReadFailed
<1> QED BY <1>1, <1>2, <1>3, <1>4, <1>5, <1>6

\* Steps that commit to the call of their process.
LEMMA CommitTypeInv ==
  ASSUME TypeInv, NEW w \in Workers,
         Start(w) \/ Embed(w) \/ MarkAnalyzing(w) \/ Finish(w) \/ MarkFailed(w)
  PROVE  TypeInv'
<1> DEFINE c == CallOf(w)
<1>1. pc[w] # "idle"
  BY DEF Start, Embed, MarkAnalyzing, Finish, MarkFailed, At
<1>2. c \in Calls
  BY <1>1, JobType
<1>3. JobOK'
  <2>1. PICK step \in {"transcribe", "mark", "analyze", "ack", "retry"} : Goto(w, step)
    BY DEF Start, Embed, MarkAnalyzing, Finish, MarkFailed
  <2>2. UNCHANGED <<job, own>>
    BY DEF Start, Embed, MarkAnalyzing, Finish, MarkFailed
  <2>3. \A v \in Workers : pc'[v] = "idle" => pc[v] = "idle"
    BY <1>1, <2>1 DEF TypeInv, TypeOK, Goto
  <2>4. pc'[w] # "idle" /\ \A v \in Workers : v # w => pc'[v] = pc[v]
    BY <2>1 DEF TypeInv, TypeOK, Goto
  <2> QED
    BY <1>1, <2>2, <2>3, <2>4 DEF TypeInv, JobOK
<1>4. \A new \in CallStatus : \A known :
        Flush(status[c], known, new) \in CallStatus \cup {"absent"}
  BY <1>2, FlushType DEF TypeInv, TypeOK
<1>5. session' \in [Workers -> Sessions]
  <2>0. session \in [Workers -> Sessions]
    BY DEF TypeInv, TypeOK
  <2>1. CASE Start(w)
    <3>1. [session[w] EXCEPT !.status = "transcribing", !.error = FALSE] \in Sessions
      BY <2>0 DEF Sessions, CallStatus
    <3> QED
      BY <2>0, <2>1, <3>1 DEF Start
  <2>2. CASE MarkAnalyzing(w)
    <3>1. [session[w] EXCEPT !.status = "analyzing"] \in Sessions
      BY <2>0 DEF Sessions, CallStatus
    <3> QED
      BY <2>0, <2>2, <3>1 DEF MarkAnalyzing
  <2>3. CASE Finish(w) \/ MarkFailed(w)
    BY <2>3, CloseType DEF Finish, MarkFailed
  <2>4. CASE Embed(w)
    BY <2>0, <2>4 DEF Embed
  <2> QED BY <2>1, <2>2, <2>3, <2>4
<1>6. status' \in [Calls -> CallStatus \cup {"absent"}]
  BY <1>2, <1>4 DEF TypeInv, TypeOK, Start, Embed, MarkAnalyzing, Finish,
                    MarkFailed, CallStatus
<1>7. error' \subseteq Calls /\ transcripts' \subseteq Calls
  BY <1>2 DEF TypeInv, TypeOK, Start, Embed, MarkAnalyzing, Finish, MarkFailed
<1>8. TypeOK'
  BY <1>5, <1>6, <1>7 DEF TypeInv, TypeOK, Start, Embed, MarkAnalyzing, Finish,
                          MarkFailed, Goto, Steps, scoreVars
<1> QED BY <1>3, <1>8 DEF TypeInv

\* Taking rows out of what a session marked leaves it a session.
LEMMA UnmarkType ==
  ASSUME NEW s \in Sessions, NEW gone
  PROVE  [s EXCEPT !.doomed = @ \ gone] \in Sessions
BY DEF Sessions

\* The commit of verdicts keeps the types.
LEMMA ScoresTypeInv ==
  ASSUME TypeInv, NEW w \in Workers, CommitScores(w)
  PROVE  TypeInv'
<1> DEFINE c == CallOf(w)
           s == session[w]
<1>1. pc[w] # "idle" /\ c \in Calls /\ s \in Sessions
  BY JobType DEF CommitScores, At, TypeInv, TypeOK
<1>2. rows' \in [Calls -> [Items -> Verdicts]]
  <2>1. s.verdicts \in [Items -> Verdicts] /\ "none" \in Verdicts
    BY <1>1 DEF Sessions, Verdicts
  <2> QED BY <1>1, <2>1 DEF CommitScores, TypeInv, TypeOK
<1>3. verified' \in [Calls -> SUBSET Items]
  BY <1>1 DEF CommitScores, TypeInv, TypeOK
<1>4. total' \in [Calls -> Totals]
  <2>1. Share(Passed(s.verdicts)) \in Totals
    BY DEF Totals, Passed
  <2>2. Flush(total[c], s.total, Share(Passed(s.verdicts))) \in Totals
    BY <1>1, <2>1, FlushType DEF TypeInv, TypeOK
  <2> QED BY <1>1, <2>2 DEF CommitScores, TypeInv, TypeOK
<1>5. session' \in [Workers -> Sessions]
  <2>1. [Closed EXCEPT !.status = s.status] \in Sessions
    BY <1>1, ClosedType DEF Sessions
  <2>2. \A v \in Workers : [session[v] EXCEPT !.doomed = @ \ s.doomed] \in Sessions
    BY UnmarkType DEF TypeInv, TypeOK
  <2>3. \A v \in Workers : session[v] \in Sessions
    BY DEF TypeInv, TypeOK
  <2> DEFINE new(v) == IF v = w THEN [Closed EXCEPT !.status = s.status]
                       ELSE IF v \in SameCall(w)
                            THEN [session[v] EXCEPT !.doomed = @ \ s.doomed]
                       ELSE session[v]
  <2>4. session' = [v \in Workers |-> new(v)]
    BY DEF CommitScores
  <2>5. \A v \in Workers : new(v) \in Sessions
    BY <2>1, <2>2, <2>3, Zenon
  <2> HIDE DEF new
  <2> QED BY <2>4, <2>5
<1>6. TypeOK'
  BY <1>2, <1>3, <1>4, <1>5 DEF CommitScores, TypeInv, TypeOK, Goto, Steps
<1>7. JobOK'
  BY <1>1 DEF CommitScores, TypeInv, TypeOK, JobOK, Goto, Steps
<1> QED BY <1>6, <1>7 DEF TypeInv

\* Steps that hand the message of a process back to the broker, or drop it.
LEMMA MessageTypeInv ==
  ASSUME TypeInv, NEW w \in Workers,
         \/ MarkFailedRaises(w) \/ Retry(w) \/ RetryFails(w) \/ Ack(w)
         \/ Fault(w)
  PROVE  TypeInv'
<1>0. session \in [Workers -> Sessions] /\ NoJob \notin Jobs
  BY CallsAssumption DEF TypeInv, TypeOK, NoJob, Jobs
<1>1. CASE MarkFailedRaises(w) \/ RetryFails(w)
  BY <1>0, <1>1, CloseType, MoveTypeInv DEF MarkFailedRaises, RetryFails, At, Steps
<1>2. CASE Retry(w)
  <2>1. job[w].retries < MaxRetries => job[w].retries + 1 \in Retries
    BY <1>2, JobType, RetriesAssumption DEF Retry, At, Retries
  <2>2. queue' \in [Calls -> [Retries -> Nat]]
    BY <1>2, <2>1, JobType, SendType DEF Retry, At, TypeInv, TypeOK
  <2> QED BY <1>2, <2>2 DEF Retry, At, Goto, TypeInv, TypeOK, JobOK, callVars, Steps
<1>3. CASE Ack(w)
  BY <1>3 DEF Ack, At, Release, Goto, TypeInv, TypeOK, JobOK, callVars
<1>4. CASE Crash(w)
  <2>1. queue' \in [Calls -> [Retries -> Nat]]
    BY <1>4, JobType, SendType DEF Crash, Requeue, At, TypeInv, TypeOK
  <2>2. session' \in [Workers -> Sessions]
    BY <1>4, CloseType DEF Crash
  <2>3. faults' \in Nat
    BY <1>4 DEF Crash, TypeInv, TypeOK
  <2> QED BY <1>4, <2>1, <2>2, <2>3
          DEF Crash, Release, Goto, TypeInv, TypeOK, JobOK, callVars
<1>5. CASE ConnectionLoss(w)
  <2>1. pc[w] # "idle"
    BY <1>5 DEF ConnectionLoss, TypeInv, JobOK
  <2>2. queue' \in [Calls -> [Retries -> Nat]]
    BY <1>5, <2>1, JobType, SendType DEF ConnectionLoss, Requeue, TypeInv, TypeOK
  <2>3. faults' \in Nat
    BY <1>5 DEF ConnectionLoss, TypeInv, TypeOK
  <2> QED BY <1>5, <2>1, <2>2, <2>3
          DEF ConnectionLoss, TypeInv, TypeOK, JobOK, callVars
<1> QED BY <1>1, <1>2, <1>3, <1>4, <1>5 DEF Fault

\* A stuttering step keeps the types.
LEMMA StutterTypeInv ==
  ASSUME TypeInv, UNCHANGED vars
  PROVE  TypeInv'
BY DEF TypeInv, TypeOK, JobOK, vars, callVars

\* The type invariant is inductive.
LEMMA NextTypeInv == TypeInv /\ [Next]_vars => TypeInv'
BY RequestTypeInv, DeliveryTypeInv, ReadTypeInv, CommitTypeInv, ScoresTypeInv,
   MessageTypeInv, StutterTypeInv DEF Next, Process

\* The tables, the broker and the processes always hold values of their types,
\* and a process is busy exactly while it has a message.
THEOREM TypeCorrect == Spec => []TypeOK
<1>1. TypeInv => TypeOK
  BY DEF TypeInv
<1> QED BY InitTypeInv, NextTypeInv, <1>1, PTL DEF Spec
-----------------------------------------------------------------------------
(* No call is lost, and a done call is an analysed one.  Neither is         *)
(* inductive: the steps of a process rely on what it did before.            *)

\* Only a process that has loaded a call knows a total, and a total is never
\* taken back; the transcript is there once a process has passed its step.
Passage(w) ==
  /\ pc[w] \in {"idle", "load", "fail", "retry", "ack"} => session[w].total = NoTotal
  /\ session[w].total # NoTotal => total[CallOf(w)] # NoTotal
  /\ pc[w] \in {"mark", "analyze", "score", "finish"} => CallOf(w) \in transcripts
  /\ pc[w] \in {"analyze", "score", "finish"} => session[w].status = "analyzing"
  /\ pc[w] = "finish" => total[CallOf(w)] # NoTotal

Passages == \A w \in Workers : Passage(w)

\* A process that will write the outcome of its call, or hand its message back:
\* one that records a failure and knows the call as failed already writes nothing.
Responsible(w) ==
  /\ pc[w] \notin {"idle", "retry", "ack"}
  /\ pc[w] = "record" => session[w].status # "failed"

Attended(c) == \E w \in Workers : Responsible(w) /\ CallOf(w) = c

\* What CallNotLost says of a call, with processes that are responsible for it.
Kept(c) == status[c] \in Active => c \in uploading \/ Queued(c) \/ Attended(c)

AllKept == \A c \in Calls : Kept(c)
CallsKept == Reliable => AllKept

\* Without disconnections the broker holds the message of every busy process.
Owned ==
  "connection" \notin Faults => \A w \in Workers : pc[w] # "idle" => own[w]

PipelineInv ==
  TypeInv /\ Passages /\ Owned /\ DoneMeansAnalysed /\ CallsKept

\* Initial states satisfy the inductive invariant.
LEMMA InitPipelineInv == Init => PipelineInv
<1> SUFFICES ASSUME Init PROVE PipelineInv
  OBVIOUS
<1>1. Passages
  BY DEF Init, Passages, Passage, Closed
<1>2. Owned
  BY DEF Init, Owned
<1>3. DoneMeansAnalysed /\ CallsKept
  BY DEF Init, DoneMeansAnalysed, CallsKept, AllKept, Kept, Active
<1> QED BY <1>1, <1>2, <1>3, InitTypeInv DEF PipelineInv

\* No step removes a transcript or a total.
LEMMA NothingIsTakenBack ==
  ASSUME TypeInv, Passages, [Next]_vars
  PROVE  /\ transcripts \subseteq transcripts'
         /\ \A c \in Calls : total[c] # NoTotal => total'[c] # NoTotal
<1>1. CASE UNCHANGED vars
  BY <1>1 DEF vars, callVars
<1>2. ASSUME NEW c \in Calls, Request(c) \/ Publication(c)
      PROVE  UNCHANGED <<total, transcripts>>
  BY <1>2 DEF Request, Publication, Upload, SetVerified, Publish, PublishFails,
              scoreVars, callVars
<1>3. ASSUME NEW w \in Workers, CommitScores(w)
      PROVE  transcripts' = transcripts
             /\ \A c \in Calls : total[c] # NoTotal => total'[c] # NoTotal
  <2> DEFINE c == CallOf(w)
  <2>1. Share(Passed(session[w].verdicts)) \in Nat
    BY ShareAssumption DEF Passed
  <2>2. session[w].total # NoTotal => total[c] # NoTotal
    BY DEF Passages, Passage
  <2>3. total'= [total EXCEPT ![c] =
          Flush(@, session[w].total, Share(Passed(session[w].verdicts)))]
    BY <1>3 DEF CommitScores
  <2>4. Flush(total[c], session[w].total, Share(Passed(session[w].verdicts))) # NoTotal
    BY <2>1, <2>2 DEF Flush, NoTotal
  <2> QED BY <1>3, <2>3, <2>4 DEF CommitScores, TypeInv, TypeOK
<1>4. ASSUME NEW w \in Workers, Embed(w)
      PROVE  total' = total /\ transcripts \subseteq transcripts'
  BY <1>4 DEF Embed, scoreVars
<1>5. ASSUME NEW w \in Workers,
             Delivery(w) \/ Fault(w) \/ (Process(w) /\ ~ CommitScores(w) /\ ~ Embed(w))
      PROVE  UNCHANGED <<total, transcripts>>
  BY <1>5 DEF Delivery, Deliver, Fault, Crash, ConnectionLoss, Process, Load, Start,
              Transcribe, InsertTranscript, MarkAnalyzing, Analyze, Finish,
              Raises, ReadFailed, MarkFailed, MarkFailedRaises, Retry, RetryFails, Ack,
              scoreVars, callVars
<1> QED BY <1>1, <1>2, <1>3, <1>4, <1>5 DEF Next

\* A step of a process leaves what the others do and know of totals as it is.
LEMMA OthersGoOn ==
  ASSUME TypeInv, NEW w \in Workers, Delivery(w) \/ Process(w) \/ Fault(w),
         NEW v \in Workers, v # w
  PROVE  /\ pc'[v] = pc[v] /\ job'[v] = job[v] /\ own'[v] = own[v]
         /\ session'[v].total = session[v].total
         /\ session'[v].status = session[v].status
<1>0. session \in [Workers -> Sessions]
  BY DEF TypeInv, TypeOK
<1>1. CASE CommitScores(w)
  <2>1. pc'[v] = pc[v] /\ job' = job /\ own' = own
    BY <1>1 DEF CommitScores, Goto, TypeInv, TypeOK
  <2>2. session'[v] = session[v]
        \/ session'[v] = [session[v] EXCEPT !.doomed = @ \ session[w].doomed]
    BY <1>1 DEF CommitScores
  <2> QED BY <1>0, <2>1, <2>2 DEF Sessions
<1>2. CASE ~ CommitScores(w)
  BY <1>2 DEF Delivery, Deliver, Fault, Crash, ConnectionLoss, Process, Load, Start,
              Transcribe, InsertTranscript, Embed, MarkAnalyzing, Analyze, Finish,
              Raises, ReadFailed, MarkFailed, MarkFailedRaises, Retry, RetryFails, Ack,
              Goto, Release, CloseSession, TypeInv, TypeOK
<1> QED BY <1>1, <1>2

\* A session that learns a status or an error still knows the same total.
LEMMA StatusKeepsTotal ==
  ASSUME session \in [Workers -> Sessions], NEW w \in Workers, Start(w) \/ MarkAnalyzing(w)
  PROVE  /\ session'[w].total = session[w].total
         /\ MarkAnalyzing(w) => session'[w].status = "analyzing"
<1>1. ASSUME NEW s \in Sessions, NEW new, NEW failed
      PROVE  /\ [s EXCEPT !.status = new, !.error = failed].total = s.total
             /\ [s EXCEPT !.status = new].total = s.total
             /\ [s EXCEPT !.status = new].status = new
  BY DEF Sessions
<1>2. ASSUME Start(w) PROVE session'[w].total = session[w].total
  <2>1. session'[w] = [session[w] EXCEPT !.status = "transcribing", !.error = FALSE]
    BY <1>2 DEF Start
  <2> QED
    BY <1>1, <2>1
<1>3. ASSUME MarkAnalyzing(w)
      PROVE  session'[w].total = session[w].total /\ session'[w].status = "analyzing"
  <2>1. session'[w] = [session[w] EXCEPT !.status = "analyzing"]
    BY <1>3 DEF MarkAnalyzing
  <2> QED
    BY <1>1, <2>1
<1> QED
  BY <1>2, <1>3

\* A process establishes what its later steps rely on.
LEMMA ItsPassage ==
  ASSUME TypeInv, TypeInv', Passages, NEW w \in Workers,
         Delivery(w) \/ Process(w) \/ Fault(w)
  PROVE  Passage(w)'
<1>0. /\ Passage(w)
      /\ session \in [Workers -> Sessions] /\ pc \in [Workers -> Steps \cup {"idle"}]
      /\ Closed.total = NoTotal
  BY DEF Passages, TypeInv, TypeOK, Closed
<1>1. CASE Delivery(w)
  <2>1. pc[w] = "idle" /\ pc'[w] = "load" /\ session' = session
    BY <1>0, <1>1 DEF Delivery, Deliver
  <2> QED BY <1>0, <2>1 DEF Passage
<1>2. CASE Fault(w)
  <2>1. CASE Crash(w)
    <3>1. pc'[w] = "idle" /\ session'[w].total = NoTotal
      BY <1>0, <2>1 DEF Crash, Release, Goto, CloseSession
    <3> QED BY <3>1 DEF Passage
  <2>2. CASE ConnectionLoss(w)
    BY <1>0, <2>2 DEF ConnectionLoss, Passage, callVars, CallOf
  <2> QED BY <1>2, <2>1, <2>2 DEF Fault
<1>3. CASE Load(w)
  BY <1>0, <1>3 DEF Load, At, Goto, View, Passage, callVars, CallOf
<1>4. CASE Start(w) \/ MarkAnalyzing(w)
  <2>1. /\ session'[w].total = session[w].total
        /\ MarkAnalyzing(w) => session'[w].status = "analyzing"
    BY <1>0, <1>4, StatusKeepsTotal
  <2>2. /\ CallOf(w)' = CallOf(w) /\ total' = total /\ transcripts' = transcripts
        /\ Start(w) => pc'[w] = "transcribe"
        /\ MarkAnalyzing(w) => pc'[w] = "analyze"
    BY <1>0, <1>4 DEF Start, MarkAnalyzing, Goto, scoreVars, CallOf
  <2> QED BY <1>0, <1>4, <2>1, <2>2 DEF MarkAnalyzing, At, Passage
<1>5. CASE Transcribe(w) \/ InsertTranscript(w) \/ Embed(w)
  BY <1>0, <1>5 DEF Transcribe, InsertTranscript, Embed, At, Goto, CloseSession,
                    Passage, scoreVars, callVars, CallOf
<1>6. CASE Analyze(w)
  BY <1>0, <1>6 DEF Analyze, At, Goto, Passage, callVars, CallOf, Sessions
<1>7. CASE CommitScores(w)
  <2> DEFINE c == CallOf(w)
             new == Flush(total[c], session[w].total, Share(Passed(session[w].verdicts)))
  <2>1. new # NoTotal
    <3>1. Share(Passed(session[w].verdicts)) \in Nat
      BY ShareAssumption DEF Passed
    <3> QED BY <1>0, <3>1 DEF Passage, Flush, NoTotal
  <2>2. total'[c] = new
    BY <1>7, JobType DEF CommitScores, At, TypeInv, TypeOK
  <2>3. pc'[w] = "finish" /\ job' = job /\ transcripts' = transcripts
    BY <1>0, <1>7 DEF CommitScores, Goto
  <2>4. session'[w] = [Closed EXCEPT !.status = session[w].status]
    BY <1>7 DEF CommitScores
  <2>5. session'[w].total = NoTotal /\ session'[w].status = "analyzing"
    BY <1>0, <1>7, <2>4 DEF CommitScores, At, Passage, Closed
  <2>6. CallOf(w)' = c /\ c \in transcripts
    BY <1>0, <1>7, <2>3 DEF CommitScores, At, Passage, CallOf
  <2> QED BY <2>1, <2>2, <2>3, <2>5, <2>6 DEF Passage
<1>8. CASE Finish(w) \/ Raises(w)
  BY <1>0, <1>8 DEF Finish, Raises, Goto, CloseSession, Passage
<1>9. CASE MarkFailed(w) \/ MarkFailedRaises(w)
  BY <1>0, <1>9 DEF MarkFailed, MarkFailedRaises, Goto, CloseSession, Passage
<1>10. CASE Retry(w) \/ RetryFails(w) \/ Ack(w)
  BY <1>0, <1>10 DEF Retry, RetryFails, Ack, At, Goto, Release, Passage
<1>11. CASE ReadFailed(w)
  BY <1>0, <1>11 DEF ReadFailed, At, Goto, View, Passage, callVars, CallOf
<1> QED BY <1>1, <1>2, <1>3, <1>4, <1>5, <1>6, <1>7, <1>8, <1>9, <1>10, <1>11 DEF Process

\* Requests leave the processes alone.
LEMMA RequestsKeepProcesses ==
  ASSUME NEW c \in Calls, Request(c) \/ Publication(c)
  PROVE  UNCHANGED <<pc, job, own, session>>
BY DEF Request, Publication, Upload, SetVerified, Publish, PublishFails

\* No step breaks what the program counter says of the call.
LEMMA NextPassages ==
  ASSUME TypeInv, TypeInv', Passages, [Next]_vars
  PROVE  Passages'
<1>1. /\ transcripts \subseteq transcripts'
      /\ \A c \in Calls : total[c] # NoTotal => total'[c] # NoTotal
  BY NothingIsTakenBack
<1>2. SUFFICES ASSUME NEW v \in Workers PROVE Passage(v)'
  BY DEF Passages
<1>3. SUFFICES ASSUME /\ pc'[v] = pc[v] /\ job'[v] = job[v]
                      /\ session'[v].total = session[v].total
                      /\ session'[v].status = session[v].status
               PROVE  Passage(v)'
  <2>1. CASE UNCHANGED vars
    BY <1>3, <2>1 DEF vars
  <2>2. ASSUME NEW c \in Calls, Request(c) \/ Publication(c) PROVE Passage(v)'
    BY <1>3, <2>2, RequestsKeepProcesses
  <2>3. ASSUME NEW w \in Workers, Delivery(w) \/ Process(w) \/ Fault(w)
        PROVE  Passage(v)'
    BY <1>3, <2>3, ItsPassage, OthersGoOn
  <2> QED BY <2>1, <2>2, <2>3 DEF Next
<1>4. Passage(v) /\ (pc[v] # "idle" => CallOf(v) \in Calls)
  BY JobType DEF Passages
<1> QED BY <1>1, <1>3, <1>4 DEF Passage, CallOf

\* No step takes a message from the process that owns it.
LEMMA NextOwned ==
  ASSUME TypeInv, Owned, [Next]_vars
  PROVE  Owned'
<1> SUFFICES ASSUME "connection" \notin Faults, NEW v \in Workers, pc'[v] # "idle"
             PROVE  own'[v]
  BY DEF Owned
<1>1. CASE UNCHANGED vars
  BY <1>1 DEF vars, Owned
<1>2. ASSUME NEW c \in Calls, Request(c) \/ Publication(c) PROVE own'[v]
  BY <1>2, RequestsKeepProcesses DEF Owned
<1>3. ASSUME NEW w \in Workers, Delivery(w) \/ Process(w) \/ Fault(w) PROVE own'[v]
  <2>1. CASE v # w
    BY <1>3, <2>1, OthersGoOn DEF Owned
  <2>2. CASE v = w /\ Delivery(w)
    BY <2>2 DEF Delivery, Deliver, TypeInv, TypeOK
  <2>3. CASE v = w /\ Fault(w)
    BY <2>3 DEF Fault, Crash, ConnectionLoss, Release, Goto, TypeInv, TypeOK
  <2>4. CASE v = w /\ Ack(w)
    BY <2>4 DEF Ack, Release, Goto, TypeInv, TypeOK
  <2>5. CASE v = w /\ Process(w) /\ ~ Ack(w)
    <3>1. own' = own /\ pc[w] # "idle"
      BY <2>5 DEF Process, Load, Start, Transcribe, InsertTranscript, Embed,
                  MarkAnalyzing, Analyze, CommitScores, Finish, Raises, ReadFailed, MarkFailed,
                  MarkFailedRaises, Retry, RetryFails, At, Steps
    <3> QED BY <2>5, <3>1 DEF Owned
  <2> QED BY <1>3, <2>1, <2>2, <2>3, <2>4, <2>5
<1> QED BY <1>1, <1>2, <1>3 DEF Next

\* The only step that makes a call done is the last one of a process on it.
LEMMA OnlyFinishMakesDone ==
  ASSUME TypeInv, [Next]_vars, NEW c \in Calls, status'[c] = "done", status[c] # "done"
  PROVE  \E w \in Workers : Finish(w) /\ CallOf(w) = c
<1>1. status' # status
  OBVIOUS
<1>2. ~ UNCHANGED vars
  BY <1>1 DEF vars, callVars
<1>3. ASSUME NEW d \in Calls, Request(d) \/ Publication(d) PROVE FALSE
  BY <1>3 DEF Request, Publication, Upload, SetVerified, Publish, PublishFails,
              callVars, TypeInv, TypeOK
<1>4. ASSUME NEW w \in Workers, Delivery(w) \/ Process(w) \/ Fault(w)
      PROVE  Finish(w) /\ CallOf(w) = c
  <2>1. CASE Start(w) \/ MarkAnalyzing(w) \/ Finish(w) \/ MarkFailed(w)
    BY <2>1 DEF Start, MarkAnalyzing, Finish, MarkFailed, Flush, TypeInv, TypeOK
  <2>2. CASE ~ (Start(w) \/ MarkAnalyzing(w) \/ Finish(w) \/ MarkFailed(w))
    BY <1>1, <1>4, <2>2
       DEF Delivery, Deliver, Fault, Crash, ConnectionLoss, Process, Load, Transcribe,
           InsertTranscript, Embed, Analyze, CommitScores, Raises, ReadFailed,
           MarkFailedRaises, Retry, RetryFails, Ack, callVars
  <2> QED BY <2>1, <2>2
<1> QED BY <1>2, <1>3, <1>4 DEF Next

\* No step makes a call done without transcript and total.
LEMMA NextDoneMeansAnalysed ==
  ASSUME TypeInv, Passages, DoneMeansAnalysed, [Next]_vars
  PROVE  DoneMeansAnalysed'
<1>1. /\ transcripts \subseteq transcripts'
      /\ \A c \in Calls : total[c] # NoTotal => total'[c] # NoTotal
  BY NothingIsTakenBack
<1> SUFFICES ASSUME NEW c \in Calls, status'[c] = "done", status[c] # "done"
             PROVE  c \in transcripts /\ total[c] # NoTotal
  BY <1>1 DEF DoneMeansAnalysed
<1>2. PICK w \in Workers : Finish(w) /\ CallOf(w) = c
  BY OnlyFinishMakesDone
<1> QED BY <1>2 DEF Finish, At, Passages, Passage

-----------------------------------------------------------------------------
(* CallsKept, one action at a time.                                       *)

\* Uploads, publications and confirmations lose no call.
LEMMA RequestsLoseNoCall ==
  ASSUME TypeInv, "publish" \notin Faults, AllKept, NEW d \in Calls,
         Request(d) \/ Publication(d), NEW c \in Calls
  PROVE  Kept(c)'
<1>0. Kept(c) /\ UNCHANGED <<pc, job, session>>
  BY RequestsKeepProcesses DEF AllKept
<1>1. Attended(c)' <=> Attended(c)
  BY <1>0 DEF Attended, Responsible, CallOf
<1>2. CASE Upload(d)
  BY <1>0, <1>1, <1>2 DEF Upload, Kept, Queued, TypeInv, TypeOK
<1>3. CASE \E i \in Items : SetVerified(d, i)
  BY <1>0, <1>1, <1>3 DEF SetVerified, Kept, Queued
<1>4. CASE Publish(d)
  <2>1. 0 \in Retries /\ queue'[d][0] > 0
    BY <1>4, RetriesAssumption DEF Publish, Send, Retries, TypeInv, TypeOK
  <2>2. Queued(c) => Queued(c)'
    BY <1>4 DEF Publish, Send, Queued, TypeInv, TypeOK
  <2>3. Queued(d)'
    BY <2>1 DEF Queued
  <2> QED BY <1>0, <1>1, <1>4, <2>2, <2>3 DEF Publish, Kept, callVars
<1>5. CASE PublishFails(d)
  BY <1>5 DEF PublishFails
<1> QED BY <1>2, <1>3, <1>4, <1>5 DEF Request, Publication

\* A delivery loses no call.
LEMMA DeliveryLosesNoCall ==
  ASSUME TypeInv, AllKept, NEW w \in Workers, Delivery(w), NEW c \in Calls
  PROVE  Kept(c)'
<1> PICK d \in Calls, r \in Retries : Deliver(w, d, r)
  BY DEF Delivery
<1>1. Kept(c) /\ status' = status /\ uploading' = uploading
  BY DEF Deliver, callVars, AllKept
<1>2. Attended(d)'
  BY DEF Deliver, Attended, Responsible, CallOf, TypeInv, TypeOK
<1>3. c # d => (Queued(c)' <=> Queued(c))
  BY DEF Deliver, Queued, TypeInv, TypeOK
<1>4. Attended(c) => Attended(c)'
  <2> SUFFICES ASSUME NEW v \in Workers, Responsible(v), CallOf(v) = c
               PROVE  Responsible(v)' /\ CallOf(v)' = c
    BY DEF Attended, Responsible
  <2> QED BY DEF Deliver, Responsible, CallOf, TypeInv, TypeOK
<1> QED BY <1>1, <1>2, <1>3, <1>4 DEF Kept

\* A step of process w loses no call that w goes on working on, whose message
\* it hands back, or whose status it has just settled.
LEMMA ProcessKeepsCall ==
  ASSUME TypeInv, AllKept, NEW w \in Workers, Process(w) \/ Fault(w),
         NEW c \in Calls, uploading' = uploading,
         Queued(c) => Queued(c)',
         CallOf(w) # c => status'[c] = status[c],
         Responsible(w) /\ CallOf(w) = c =>
           \/ Responsible(w)' /\ CallOf(w)' = c
           \/ Queued(c)'
           \/ status'[c] \notin Active,
         CallOf(w) = c /\ status'[c] \in Active => Responsible(w) \/ status'[c] = status[c]
  PROVE  Kept(c)'
<1>1. Kept(c)
  BY DEF AllKept
<1>2. Attended(c) =>
        Attended(c)' \/ Queued(c)' \/ status'[c] \notin Active
  <2> SUFFICES ASSUME NEW v \in Workers, Responsible(v), CallOf(v) = c
               PROVE  Attended(c)' \/ Queued(c)' \/ status'[c] \notin Active
    BY DEF Attended, Responsible
  <2>1. CASE v = w
    BY <2>1 DEF Attended, Responsible
  <2>2. CASE v # w
    BY <2>2, OthersGoOn DEF Attended, Responsible, CallOf
  <2> QED BY <2>1, <2>2
<1>3. Responsible(w) /\ CallOf(w) = c => Attended(c)
  BY DEF Attended, Responsible
<1> QED BY <1>1, <1>2, <1>3 DEF Kept

\* A message that is sent is queued, and no other message goes away.
LEMMA SendQueues ==
  ASSUME TypeInv, NEW c \in Calls, NEW r \in Retries, Send(c, r), NEW d \in Calls
  PROVE  Queued(c)' /\ (Queued(d) => Queued(d)')
<1>1. queue \in [Calls -> [Retries -> Nat]]
  BY DEF TypeInv, TypeOK
<1>2. queue'[c][r] > 0
  BY <1>1 DEF Send
<1>3. \A s \in Retries : queue[d][s] > 0 => queue'[d][s] > 0
  BY <1>1 DEF Send
<1> QED BY <1>2, <1>3 DEF Queued

\* The steps of a task lose no call, if the broker has the message of a process
\* that dies while it works.
LEMMA ProcessLosesNoCall ==
  ASSUME TypeInv, Passages, {"publish", "database"} \cap Faults = {}, AllKept,
         NEW w \in Workers, Process(w) \/ Fault(w), NEW c \in Calls,
         Crash(w) /\ Responsible(w) => own[w] \/ Queued(CallOf(w))
  PROVE  Kept(c)'
<1>0. /\ Passage(w)
      /\ pc[w] # "idle" => CallOf(w) \in Calls /\ job[w].retries \in Retries
      /\ "database" \notin Faults /\ "publish" \notin Faults
  BY JobType DEF Passages
<1>1. CASE Load(w)
  <2>1. CASE status[CallOf(w)] \in {"absent", "done"}
    BY <1>1, <2>1, ProcessKeepsCall DEF Load, Queued, Active, callVars
  <2>2. CASE status[CallOf(w)] \notin {"absent", "done"}
    BY <1>1, <2>2, ProcessKeepsCall
       DEF Load, At, Goto, Queued, Responsible, CallOf, callVars, TypeInv, TypeOK
  <2> QED BY <2>1, <2>2
<1>2. CASE Start(w) \/ Transcribe(w) \/ InsertTranscript(w) \/ Embed(w)
           \/ MarkAnalyzing(w) \/ Analyze(w) \/ CommitScores(w) \/ Raises(w)
  <2>1. /\ Responsible(w) /\ Responsible(w)' /\ CallOf(w)' = CallOf(w)
        /\ uploading' = uploading /\ queue' = queue
    BY <1>0, <1>2 DEF Start, Transcribe, InsertTranscript, Embed, MarkAnalyzing, Analyze,
                CommitScores, Raises, At, Goto, Responsible, CallOf, Steps, TypeInv, TypeOK
  <2>2. CallOf(w) # c => status'[c] = status[c]
    BY <1>2 DEF Start, Transcribe, InsertTranscript, Embed, MarkAnalyzing, Analyze,
                CommitScores, Raises, callVars, TypeInv, TypeOK
  <2> QED BY <1>2, <2>1, <2>2, ProcessKeepsCall DEF Process, Queued
<1>3. CASE Finish(w) \/ (MarkFailed(w) /\ session[w].status # "failed")
  <2>1. /\ Responsible(w) /\ uploading' = uploading /\ queue' = queue
        /\ CallOf(w) # c => status'[c] = status[c]
    BY <1>3 DEF Finish, MarkFailed, At, Responsible, TypeInv, TypeOK
  <2>2. CallOf(w) = c => status'[c] \in {"done", "failed"}
    BY <1>0, <1>3 DEF Finish, MarkFailed, At, Flush, Passage, TypeInv, TypeOK
  <2> QED BY <1>3, <2>1, <2>2, ProcessKeepsCall DEF Process, Queued, Active
<1>7. CASE MarkFailed(w) /\ session[w].status = "failed"
  <2>1. ~ Responsible(w) /\ uploading' = uploading /\ queue' = queue
    BY <1>7 DEF MarkFailed, At, Responsible
  <2>2. status'[c] = status[c]
    BY <1>7 DEF MarkFailed, Flush, TypeInv, TypeOK
  <2> QED BY <1>7, <2>1, <2>2, ProcessKeepsCall DEF Process, Queued
<1>8. CASE ReadFailed(w)
  <2>1. uploading' = uploading /\ queue' = queue /\ status' = status /\ job' = job
    BY <1>8 DEF ReadFailed, callVars
  <2>2. CASE status[CallOf(w)] \in {"absent", "failed"}
    BY <1>8, <2>1, <2>2, ProcessKeepsCall DEF Process, Queued, Active
  <2>3. CASE status[CallOf(w)] \notin {"absent", "failed"}
    <3>1. Responsible(w) /\ pc'[w] = "record" /\ session'[w].status # "failed"
      BY <1>8, <2>3 DEF ReadFailed, At, Goto, View, Responsible, TypeInv, TypeOK
    <3>2. Responsible(w)' /\ CallOf(w)' = CallOf(w)
      BY <2>1, <3>1 DEF Responsible, CallOf
    <3> QED BY <1>8, <2>1, <3>1, <3>2, ProcessKeepsCall DEF Process, Queued
  <2> QED BY <2>2, <2>3
<1>4. CASE Retry(w) \/ Ack(w) \/ MarkFailedRaises(w) \/ RetryFails(w)
  <2>1. /\ ~ Responsible(w) /\ uploading' = uploading /\ status' = status
        /\ Queued(c) => Queued(c)'
    <3>1. CASE Retry(w)
      <4>1. job[w].retries < MaxRetries => job[w].retries + 1 \in Retries
        BY <1>0, <3>1, RetriesAssumption DEF Retry, At, Retries
      <4> QED BY <1>0, <3>1, <4>1, SendQueues DEF Retry, At, Responsible, Queued, callVars
    <3>2. CASE Ack(w)
      BY <3>2 DEF Ack, At, Responsible, Queued, callVars
    <3> QED BY <1>0, <1>4, <3>1, <3>2 DEF MarkFailedRaises, RetryFails
  <2> QED BY <1>4, <2>1, ProcessKeepsCall DEF Process
<1>5. CASE Crash(w)
  <2>1. pc[w] # "idle"
    BY <1>5 DEF Crash, At
  <2>2. Queued(c) => Queued(c)'
    <3>1. CASE own[w]
      BY <1>0, <1>5, <2>1, <3>1, SendQueues DEF Crash, Requeue
    <3>2. CASE ~ own[w]
      BY <1>5, <3>2 DEF Crash, Queued
    <3> QED BY <3>1, <3>2
  <2>3. Responsible(w) /\ CallOf(w) = c => Queued(c)'
    <3>1. CASE own[w]
      BY <1>0, <1>5, <2>1, <3>1, SendQueues DEF Crash, Requeue
    <3>2. CASE ~ own[w]
      BY <1>5, <2>2, <3>2
    <3> QED BY <3>1, <3>2
  <2> QED BY <1>5, <2>2, <2>3, ProcessKeepsCall DEF Fault, Crash, callVars
<1>6. CASE ConnectionLoss(w)
  <2>1. pc[w] # "idle"
    BY <1>6 DEF ConnectionLoss, TypeInv, JobOK
  <2>2. Requeue(w) /\ job[w].retries \in Retries
    BY <1>6, <2>1, JobType DEF ConnectionLoss
  <2>3. Queued(c) => Queued(c)'
    BY <1>0, <2>1, <2>2, SendQueues DEF Requeue
  <2> QED BY <1>6, <2>3, ProcessKeepsCall
          DEF Fault, ConnectionLoss, Responsible, CallOf, callVars
<1> QED BY <1>1, <1>2, <1>3, <1>4, <1>5, <1>6, <1>7, <1>8 DEF Process, Fault

\* No step loses a call.
LEMMA NextCallsKept ==
  ASSUME TypeInv, Passages, Owned, CallsKept, [Next]_vars
  PROVE  CallsKept'
<1> SUFFICES ASSUME Reliable, NEW c \in Calls PROVE Kept(c)'
  BY DEF CallsKept, AllKept, Reliable
<1>1. AllKept /\ {"publish", "database"} \cap Faults = {}
  BY DEF CallsKept, Reliable
<1>2. CASE UNCHANGED vars
  BY <1>1, <1>2 DEF AllKept, Kept, Queued, Attended, Responsible, CallOf, vars, callVars
<1>3. \A w \in Workers : Crash(w) => own[w]
  BY DEF Crash, At, Owned, Reliable
<1> QED BY <1>1, <1>2, <1>3, RequestsLoseNoCall, DeliveryLosesNoCall, ProcessLosesNoCall
        DEF Next

\* The inductive invariant is kept by every step.
LEMMA NextPipelineInv == PipelineInv /\ [Next]_vars => PipelineInv'
<1> SUFFICES ASSUME PipelineInv, [Next]_vars PROVE PipelineInv'
  OBVIOUS
<1>1. TypeInv'
  BY NextTypeInv DEF PipelineInv
<1> QED BY <1>1, NextPassages, NextOwned, NextDoneMeansAnalysed, NextCallsKept
        DEF PipelineInv

\* The inductive invariant holds in every reachable state.
LEMMA PipelineInvariant == Spec => []PipelineInv
BY InitPipelineInv, NextPipelineInv, PTL DEF Spec

\* What a responsible process works on is worked on.
LEMMA KeptIsNotLost == AllKept => CallNotLost
BY DEF AllKept, Kept, Attended, Responsible, CallNotLost, WorkedOn

\* However many processes, crashes and duplicated messages there are: as long
\* as publishing and the database work, and no disconnected process crashes, a
\* call that is neither done nor failed is queued or worked on.
THEOREM CallsAreKept == Spec => []NoCallLost
<1>1. PipelineInv => NoCallLost
  BY KeptIsNotLost DEF PipelineInv, CallsKept, NoCallLost
<1> QED BY <1>1, PipelineInvariant, PTL

\* Under all faults, a done call has its transcript and a total.
THEOREM DoneCallsAreAnalysed == Spec => []DoneMeansAnalysed
<1>1. PipelineInv => DoneMeansAnalysed
  BY DEF PipelineInv
<1> QED BY <1>1, PipelineInvariant, PTL
=============================================================================
