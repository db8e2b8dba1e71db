---------------------- MODULE CallPipelineSerialProofs ----------------------
(***************************************************************************)
(* What holds while no two processes work on one call, crashes and         *)
(* disconnections included: the stored total is the score of the stored    *)
(* rows, errors and confirmations are right, the pipeline implements the   *)
(* lifecycle of CallLifecycle, and no call is lost.  And two reasons why   *)
(* no two ever do: no message is delivered twice, or there is one process. *)
(***************************************************************************)
EXTENDS CallPipelineProofs

-----------------------------------------------------------------------------
(* The total and the rows.                                                 *)

Analyzing == {"start", "transcribe", "insert", "embed", "mark", "analyze", "score"}

\* A process knows the stored total until it replaces it, and it deletes all
\* the rows there are.
UpToDate(w) ==
  /\ pc[w] \in Analyzing => session[w].total = total[CallOf(w)]
  /\ pc[w] = "score" => session[w].doomed = Given(rows[CallOf(w)])

ScoreInv == TypeInv /\ TotalMatchesScores /\ \A w \in Workers : UpToDate(w)

\* Initial states have the scores right.
LEMMA InitScoreInv == Init => ScoreInv
<1> SUFFICES ASSUME Init PROVE ScoreInv
  OBVIOUS
<1>1. TotalMatchesScores
  BY DEF Init, TotalMatchesScores
<1>2. \A w \in Workers : UpToDate(w)
  BY DEF Init, UpToDate, Analyzing
<1> QED BY <1>1, <1>2, InitTypeInv DEF ScoreInv

\* Only CommitScores writes a total or a row.
LEMMA OnlyCommitScoresWrites ==
  ASSUME [Next]_vars, ~ \E w \in Workers : CommitScores(w)
  PROVE  UNCHANGED <<total, rows>>
BY DEF Next, Request, Publication, Upload, SetVerified, Publish, PublishFails,
       Delivery, Deliver, Fault, Crash, ConnectionLoss, Process, Load, Start,
       Transcribe, InsertTranscript, Embed, MarkAnalyzing, Analyze, Finish, Raises,
       ReadFailed, MarkFailed, MarkFailedRaises, Retry, RetryFails, Ack, vars, callVars, scoreVars

\* A process that scores a call alone leaves it with its own verdicts.
LEMMA CommitScoresReplaces ==
  ASSUME ScoreInv, NEW w \in Workers, CommitScores(w)
  PROVE  /\ CallOf(w) \in Calls
         /\ rows' = [rows EXCEPT ![CallOf(w)] = session[w].verdicts]
         /\ total' = [total EXCEPT ![CallOf(w)] = Share(Passed(session[w].verdicts))]
<1> DEFINE c == CallOf(w)
           s == session[w]
<1>1. c \in Calls /\ s \in Sessions /\ pc[w] = "score"
  BY JobType DEF CommitScores, At, ScoreInv, TypeInv, TypeOK
<1>2. s.doomed = Given(rows[c]) /\ s.total = total[c]
  BY <1>1 DEF ScoreInv, UpToDate, Analyzing
<1>3. Flush(total[c], s.total, Share(Passed(s.verdicts))) = Share(Passed(s.verdicts))
  BY <1>2 DEF Flush
<1>4. [i \in Items |-> IF s.verdicts[i] # "none" THEN s.verdicts[i]
                       ELSE IF i \in s.doomed THEN "none" ELSE rows[c][i]]
      = s.verdicts
  <2>1. s.verdicts \in [Items -> Verdicts]
    BY <1>1 DEF Sessions
  <2> QED BY <1>2, <2>1 DEF Given
<1> QED BY <1>1, <1>3, <1>4 DEF CommitScores

\* Any other step of a process keeps its own view of the call up to date.
LEMMA ItsOwnView ==
  ASSUME TypeInv, NEW w \in Workers, UpToDate(w), UNCHANGED <<total, rows>>,
         Delivery(w) \/ Process(w) \/ Fault(w), ~ CommitScores(w)
  PROVE  UpToDate(w)'
<1>0. session \in [Workers -> Sessions] /\ pc \in [Workers -> Steps \cup {"idle"}]
  BY DEF TypeInv, TypeOK
<1>1. CASE Delivery(w) \/ Crash(w) \/ Finish(w) \/ Raises(w) \/ ReadFailed(w) \/ MarkFailed(w)
           \/ MarkFailedRaises(w) \/ Retry(w) \/ RetryFails(w) \/ Ack(w)
  <2>1. pc'[w] \in {"load", "idle", "ack", "fail", "record", "retry"}
    BY <1>0, <1>1 DEF Delivery, Deliver, Crash, Finish, Raises, ReadFailed, MarkFailed,
                 MarkFailedRaises, Retry, RetryFails, Ack, Release, Goto
  <2> QED BY <2>1 DEF UpToDate, Analyzing
<1>2. CASE Load(w)
  BY <1>0, <1>2 DEF Load, Goto, View, UpToDate, Analyzing, CallOf
<1>3. CASE Start(w) \/ MarkAnalyzing(w)
  <2>1. session'[w].total = session[w].total /\ CallOf(w)' = CallOf(w)
    <3>1. CallOf(w)' = CallOf(w)
      BY <1>3 DEF Start, MarkAnalyzing, CallOf
    <3>2. session'[w].total = session[w].total
      BY <1>0, <1>3, StatusKeepsTotal
    <3> QED
      BY <3>1, <3>2
  <2>2. pc[w] \in Analyzing /\ pc'[w] # "score"
    BY <1>0, <1>3 DEF Start, MarkAnalyzing, At, Goto, Analyzing
  <2> QED BY <2>1, <2>2 DEF UpToDate
<1>4. CASE Analyze(w)
  <2>1. /\ session'[w].total = session[w].total /\ CallOf(w)' = CallOf(w)
        /\ session'[w].doomed = Given(rows[CallOf(w)])
    BY <1>0, <1>4 DEF Analyze, Sessions, CallOf
  <2>2. pc[w] \in Analyzing
    BY <1>4 DEF Analyze, At, Analyzing
  <2> QED BY <2>1, <2>2 DEF UpToDate
<1>5. CASE Transcribe(w) \/ InsertTranscript(w) \/ Embed(w)
  BY <1>0, <1>5 DEF Transcribe, InsertTranscript, Embed, At, Goto, UpToDate,
                    Analyzing, CallOf
<1>6. CASE ConnectionLoss(w)
  BY <1>6 DEF ConnectionLoss, UpToDate, CallOf
<1> QED BY <1>1, <1>2, <1>3, <1>4, <1>5, <1>6 DEF Process, Fault

\* A step of one process leaves the sessions of the others alone.
LEMMA OthersKeepSession ==
  ASSUME TypeInv, NEW w \in Workers, Delivery(w) \/ Process(w) \/ Fault(w),
         ~ CommitScores(w), NEW v \in Workers, v # w
  PROVE  session'[v] = session[v]
<1>0. session \in [Workers -> Sessions]
  BY DEF TypeInv, TypeOK
<1>1. CASE Load(w) \/ Start(w) \/ MarkAnalyzing(w) \/ Analyze(w) \/ ReadFailed(w)
  BY <1>0, <1>1 DEF Load, Start, MarkAnalyzing, Analyze, ReadFailed
<1>2. CASE InsertTranscript(w) \/ Finish(w) \/ Raises(w) \/ Crash(w)
           \/ MarkFailed(w) \/ MarkFailedRaises(w)
  BY <1>0, <1>2 DEF InsertTranscript, Finish, Raises, Crash, MarkFailed, MarkFailedRaises,
                    CloseSession
<1>3. CASE Delivery(w) \/ Transcribe(w) \/ Embed(w) \/ Retry(w) \/ RetryFails(w)
           \/ Ack(w) \/ ConnectionLoss(w)
  BY <1>3 DEF Delivery, Deliver, Transcribe, Embed, Retry, RetryFails, Ack, ConnectionLoss
<1> QED BY <1>1, <1>2, <1>3 DEF Process, Fault

\* No step breaks the scores while a call has one process.
LEMMA NextScoreInv == ScoreInv /\ OneAtATime /\ [Next]_vars => ScoreInv'
<1> SUFFICES ASSUME ScoreInv, OneAtATime, [Next]_vars PROVE ScoreInv'
  OBVIOUS
<1>0. TypeInv /\ TypeInv'
  BY NextTypeInv DEF ScoreInv
<1>1. TotalMatchesScores'
  <2>1. CASE UNCHANGED <<total, rows>>
    BY <2>1 DEF ScoreInv, TotalMatchesScores
  <2>2. ASSUME NEW w \in Workers, CommitScores(w) PROVE TotalMatchesScores'
    <3> SUFFICES ASSUME NEW c \in Calls, total'[c] # NoTotal
                 PROVE  total'[c] = Share(Passed(rows'[c]))
      BY DEF TotalMatchesScores
    <3>1. /\ rows' = [rows EXCEPT ![CallOf(w)] = session[w].verdicts]
          /\ total' = [total EXCEPT ![CallOf(w)] = Share(Passed(session[w].verdicts))]
      BY <2>2, CommitScoresReplaces
    <3>2. CASE c = CallOf(w)
      <4>1. rows'[c] = session[w].verdicts
            /\ total'[c] = Share(Passed(session[w].verdicts))
        BY <1>0, <3>1, <3>2 DEF TypeInv, TypeOK
      <4> QED BY <4>1, Zenon
    <3>3. CASE c # CallOf(w)
      <4>1. rows'[c] = rows[c] /\ total'[c] = total[c]
        BY <1>0, <3>1, <3>3 DEF TypeInv, TypeOK
      <4>2. total[c] = Share(Passed(rows[c]))
        BY <4>1 DEF ScoreInv, TotalMatchesScores
      <4> QED BY <4>1, <4>2, Zenon
    <3> QED BY <3>2, <3>3
  <2> QED BY <2>1, <2>2, OnlyCommitScoresWrites
<1>2. ASSUME NEW v \in Workers PROVE UpToDate(v)'
  <2>0. UpToDate(v) /\ session \in [Workers -> Sessions]
        /\ pc \in [Workers -> Steps \cup {"idle"}]
    BY <1>0 DEF ScoreInv, TypeInv, TypeOK
  <2>1. CASE UNCHANGED vars
    BY <2>0, <2>1 DEF UpToDate, CallOf, vars, callVars
  <2>2. ASSUME NEW c \in Calls, Request(c) \/ Publication(c) PROVE UpToDate(v)'
    <3>1. UNCHANGED <<total, rows, pc, job, session>>
      BY <2>2 DEF Request, Publication, Upload, SetVerified, Publish, PublishFails,
                  callVars, scoreVars
    <3> QED BY <2>0, <3>1 DEF UpToDate, CallOf
  <2>3. ASSUME NEW w \in Workers, CommitScores(w) PROVE UpToDate(v)'
    <3>1. CASE v = w
      BY <2>0, <2>3, <3>1 DEF CommitScores, Goto, UpToDate, Analyzing
    <3>2. CASE v # w /\ pc[v] \in Analyzing
      <4>1. Busy(v) /\ Busy(w)
        BY <2>3, <3>2 DEF Busy, Analyzing, CommitScores, At
      <4>2. CallOf(v) # CallOf(w)
        BY <3>2, <4>1 DEF OneAtATime
      <4>3. session'[v] = session[v] /\ pc'[v] = pc[v] /\ CallOf(v)' = CallOf(v)
        BY <2>0, <2>3, <3>2, <4>2 DEF CommitScores, SameCall, Goto, CallOf
      <4>4. total'[CallOf(v)] = total[CallOf(v)] /\ rows'[CallOf(v)] = rows[CallOf(v)]
        <5>1. CallOf(v) \in Calls
          BY <1>0, <3>2, JobType DEF Analyzing
        <5> QED BY <1>0, <2>3, <4>2, <5>1, CommitScoresReplaces DEF TypeInv, TypeOK
      <4> QED BY <2>0, <4>3, <4>4 DEF UpToDate
    <3>3. CASE v # w /\ pc[v] \notin Analyzing
      BY <2>0, <2>3, <3>3 DEF CommitScores, Goto, UpToDate, Analyzing
    <3> QED BY <3>1, <3>2, <3>3
  <2>4. ASSUME NEW w \in Workers, Delivery(w) \/ Process(w) \/ Fault(w),
               ~ CommitScores(w)
        PROVE  UpToDate(v)'
    <3>1. UNCHANGED <<total, rows>>
      BY <2>4 DEF Delivery, Deliver, Fault, Crash, ConnectionLoss, Process, Load, Start,
           Transcribe, InsertTranscript, Embed, MarkAnalyzing, Analyze, Finish, Raises,
           ReadFailed, MarkFailed, MarkFailedRaises, Retry, RetryFails, Ack, callVars, scoreVars
    <3>2. CASE v # w
      <4>1. session'[v] = session[v]
        BY <1>0, <2>4, <3>2, OthersKeepSession
      <4>2. pc'[v] = pc[v] /\ job'[v] = job[v]
        BY <1>0, <2>4, <3>2, OthersGoOn
      <4> QED BY <2>0, <3>1, <4>1, <4>2 DEF UpToDate, CallOf
    <3>3. CASE v = w
      <4>1. UpToDate(w)
        BY DEF ScoreInv
      <4>2. UpToDate(w)'
        BY <1>0, <2>4, <3>1, <4>1, ItsOwnView
      <4> QED BY <3>3, <4>2
    <3> QED BY <3>2, <3>3
  <2> QED BY <2>1, <2>2, <2>3, <2>4 DEF Next
<1> QED BY <1>0, <1>1, <1>2 DEF ScoreInv

\* While no two processes work on one call, every stored total is the score of
\* the stored rows, whatever else fails, crashes or is delivered twice.
THEOREM TotalsMatchScores == Spec /\ []OneAtATime => []TotalMatchesScores
<1>1. ScoreInv => TotalMatchesScores
  BY DEF ScoreInv
<1> QED BY InitScoreInv, NextScoreInv, <1>1, PTL DEF Spec
-----------------------------------------------------------------------------
(* One delivery per call.                                                  *)

BusyOn(c) == \E w \in Workers : Busy(w) /\ CallOf(w) = c

\* A call has one upload that is about to publish, one message or one busy
\* process, and none before it is uploaded and after it is done.
Single(c) ==
  /\ c \in uploading => status[c] = "queued" /\ ~ Queued(c) /\ ~ BusyOn(c)
  /\ Queued(c) => ~ BusyOn(c)
  /\ \A r, s \in Retries : queue[c][r] > 0 /\ queue[c][s] > 0 => r = s /\ queue[c][r] = 1
  /\ status[c] \in {"absent", "done"} => ~ Queued(c) /\ ~ BusyOn(c)

SingleInv == TypeInv /\ OneAtATime /\ \A c \in Calls : Single(c)

\* Initially no call has a message or a process.
LEMMA InitSingleInv == Init => SingleInv
<1> SUFFICES ASSUME Init PROVE SingleInv
  OBVIOUS
<1>1. OneAtATime
  BY DEF Init, OneAtATime, Busy
<1>2. \A c \in Calls : Single(c)
  BY DEF Init, Single, Queued, BusyOn, Busy
<1> QED BY <1>1, <1>2, InitTypeInv DEF SingleInv

\* Requests keep a call at one message or process.
LEMMA RequestSingle ==
  ASSUME SingleInv, NEW d \in Calls, Request(d) \/ Publication(d)
  PROVE  OneAtATime' /\ \A c \in Calls : Single(c)'
<1>0. UNCHANGED <<pc, job>>
  BY RequestsKeepProcesses
<1>1. OneAtATime'
  BY <1>0 DEF SingleInv, OneAtATime, Busy, CallOf
<1>2. ASSUME NEW c \in Calls PROVE Single(c)'
  <2>0. Single(c) /\ (BusyOn(c)' <=> BusyOn(c))
    BY <1>0 DEF SingleInv, BusyOn, Busy, CallOf
  <2>1. CASE Upload(d)
    BY <2>0, <2>1 DEF Upload, Single, Queued, SingleInv, TypeInv, TypeOK
  <2>2. CASE \E i \in Items : SetVerified(d, i)
    BY <2>0, <2>2 DEF SetVerified, Single, Queued
  <2>3. CASE Publish(d)
    <3>1. CASE c = d
      <4>1. ~ Queued(c) /\ ~ BusyOn(c) /\ status[c] = "queued"
        BY <2>0, <2>3, <3>1 DEF Publish, Single
      <4>2. \A r \in Retries : queue[c][r] = 0
        BY <4>1 DEF Queued, SingleInv, TypeInv, TypeOK
      <4>3. \A r \in Retries : queue'[c][r] = IF r = 0 THEN 1 ELSE 0
        BY <2>3, <3>1, <4>2 DEF Publish, Send, SingleInv, TypeInv, TypeOK
      <4> QED BY <2>0, <2>3, <3>1, <4>1, <4>3 DEF Publish, Single, callVars
    <3>2. CASE c # d
      <4>1. queue'[c] = queue[c]
        BY <2>3, <3>2 DEF Publish, Send, SingleInv, TypeInv, TypeOK
      <4> QED BY <2>0, <2>3, <3>2, <4>1 DEF Publish, Single, Queued, callVars
    <3> QED BY <3>1, <3>2
  <2>4. CASE PublishFails(d)
    BY <2>0, <2>4 DEF PublishFails, Single, Queued, callVars
  <2> QED BY <2>1, <2>2, <2>3, <2>4 DEF Request, Publication
<1> QED BY <1>1, <1>2

\* A delivery keeps a call at one message or process.
LEMMA DeliverySingle ==
  ASSUME SingleInv, NEW w \in Workers, Delivery(w)
  PROVE  OneAtATime' /\ \A c \in Calls : Single(c)'
<1> PICK d \in Calls, r \in Retries : Deliver(w, d, r)
  BY DEF Delivery
<1>0. /\ pc[w] = "idle" /\ Queued(d) /\ Single(d)
      /\ status' = status /\ uploading' = uploading
      /\ CallOf(w)' = d
      /\ \A v \in Workers \ {w} : (Busy(v)' <=> Busy(v)) /\ CallOf(v)' = CallOf(v)
  BY DEF Deliver, Queued, Busy, CallOf, callVars, SingleInv, TypeInv, TypeOK
<1>1. OneAtATime'
  <2>1. \A v \in Workers : Busy(v) => CallOf(v) # d
    BY <1>0 DEF Single, BusyOn
  <2> QED BY <1>0, <2>1 DEF SingleInv, OneAtATime
<1>2. ASSUME NEW c \in Calls PROVE Single(c)'
  <2>1. CASE c = d
    <3>1. \A s \in Retries : queue'[c][s] = 0
      BY <1>0, <2>1 DEF Deliver, Single, SingleInv, TypeInv, TypeOK
    <3> QED BY <1>0, <2>1, <3>1 DEF Single, Queued
  <2>2. CASE c # d
    <3>1. queue'[c] = queue[c]
      BY <2>2 DEF Deliver, SingleInv, TypeInv, TypeOK
    <3>2. BusyOn(c)' => BusyOn(c)
      BY <1>0, <2>2 DEF BusyOn
    <3> QED BY <1>0, <3>1, <3>2 DEF SingleInv, Single, Queued
  <2> QED BY <2>1, <2>2
<1> QED BY <1>1, <1>2

\* What a step of the task in process w can do to the tokens of the calls.
LEMMA ProcessTokens ==
  ASSUME TypeInv, NEW w \in Workers, Process(w)
  PROVE  /\ uploading' = uploading
         /\ \A c \in Calls : c # CallOf(w) => status'[c] = status[c] /\ queue'[c] = queue[c]
         /\ Busy(w) \/ (queue' = queue /\ status' = status)
         /\ Busy(w)' => Busy(w) /\ CallOf(w)' = CallOf(w) /\ queue' = queue
         /\ Busy(w)' => status'[CallOf(w)] \in
                          {status[CallOf(w)], "transcribing", "analyzing", "failed"}
         /\ status'[CallOf(w)] = "absent" => status[CallOf(w)] = "absent"
<1>0. pc \in [Workers -> Steps \cup {"idle"}] /\ queue \in [Calls -> [Retries -> Nat]]
  BY DEF TypeInv, TypeOK
<1>1. CASE Start(w) \/ MarkAnalyzing(w) \/ Finish(w) \/ MarkFailed(w)
  BY <1>0, <1>1 DEF Start, MarkAnalyzing, Finish, MarkFailed, At, Goto, Flush, Busy,
                    CallOf, TypeInv, TypeOK
<1>2. CASE Load(w) \/ Transcribe(w) \/ InsertTranscript(w) \/ Embed(w) \/ Analyze(w)
  BY <1>0, <1>2 DEF Load, Transcribe, InsertTranscript, Embed, Analyze, At, Goto, Busy,
                    CallOf, callVars
<1>3. CASE CommitScores(w) \/ Raises(w)
  BY <1>0, <1>3 DEF CommitScores, Raises, At, Goto, Busy, Steps, CallOf, callVars
<1>4. CASE MarkFailedRaises(w) \/ RetryFails(w) \/ Ack(w)
  BY <1>0, <1>4 DEF MarkFailedRaises, RetryFails, Ack, Release, At, Goto, Busy, CallOf,
                    callVars
<1>5. CASE Retry(w)
  BY <1>0, <1>5 DEF Retry, Send, At, Goto, Busy, CallOf, callVars
<1>6. CASE ReadFailed(w)
  BY <1>0, <1>6 DEF ReadFailed, At, Goto, Busy, CallOf, callVars
<1> QED BY <1>1, <1>2, <1>3, <1>4, <1>5, <1>6 DEF Process

\* Of the steps that end the work on a call, self.retry alone sends a message.
LEMMA OnlyRetrySends ==
  ASSUME NEW w \in Workers, Process(w)
  PROVE  queue' = queue \/ (Retry(w) /\ status' = status)
BY DEF Process, Load, Start, Transcribe, InsertTranscript, Embed, MarkAnalyzing,
       Analyze, CommitScores, Finish, Raises, ReadFailed, MarkFailed, MarkFailedRaises, Retry,
       RetryFails, Ack, callVars

\* The steps of a task keep a call at one message or process.
LEMMA ProcessSingle ==
  ASSUME SingleInv, NEW w \in Workers, Process(w)
  PROVE  OneAtATime' /\ \A c \in Calls : Single(c)'
<1> DEFINE d == CallOf(w)
<1>0. /\ TypeInv
      /\ \A v \in Workers \ {w} : (Busy(v)' <=> Busy(v)) /\ CallOf(v)' = CallOf(v)
  BY OthersGoOn DEF SingleInv, Busy, CallOf
<1>1. OneAtATime'
  BY <1>0, ProcessTokens DEF SingleInv, OneAtATime
<1>2. ASSUME NEW c \in Calls, c # d PROVE Single(c)'
  <2>1. status'[c] = status[c] /\ queue'[c] = queue[c] /\ uploading' = uploading
    BY <1>0, <1>2, ProcessTokens
  <2>2. BusyOn(c)' => BusyOn(c)
    BY <1>0, <1>2, ProcessTokens DEF BusyOn
  <2> QED BY <2>1, <2>2 DEF SingleInv, Single, Queued
<1>3. CASE Busy(w)
  <2>1. d \in Calls /\ BusyOn(d)
    BY <1>0, <1>3, JobType DEF Busy, BusyOn
  <2>2. /\ d \notin uploading /\ ~ Queued(d) /\ status[d] \notin {"absent", "done"}
    BY <2>1 DEF SingleInv, Single
  <2>3. \A v \in Workers \ {w} : Busy(v) => CallOf(v) # d
    BY <1>3 DEF SingleInv, OneAtATime
  <2>4. CASE Busy(w)'
    <3>1. queue' = queue /\ uploading' = uploading /\ status'[d] \notin {"absent", "done"}
      BY <1>0, <2>2, <2>4, ProcessTokens
    <3>2. \A c \in Calls : c = d => Single(c)'
      BY <2>2, <3>1 DEF SingleInv, Single, Queued
    <3> QED BY <1>1, <1>2, <3>2
  <2>5. CASE ~ Busy(w)'
    <3>1. \A c \in Calls : c = d => ~ BusyOn(c)'
      BY <1>0, <2>3, <2>5 DEF BusyOn
    <3>2. uploading' = uploading
      BY <1>0, ProcessTokens
    <3>3. \A r \in Retries : queue[d][r] = 0
      BY <2>1, <2>2 DEF Queued, SingleInv, TypeInv, TypeOK
    <3>4. CASE queue' = queue
      BY <1>1, <1>2, <2>2, <3>1, <3>2, <3>3, <3>4 DEF Single, Queued
    <3>5. CASE Retry(w) /\ status' = status
      <4>1. \A r, s \in Retries :
              queue'[d][r] > 0 /\ queue'[d][s] > 0 => r = s /\ queue'[d][r] = 1
        BY <2>1, <3>3, <3>5 DEF Retry, Send, SingleInv, TypeInv, TypeOK
      <4> QED BY <1>1, <1>2, <2>2, <3>1, <3>2, <3>5, <4>1 DEF Single
    <3> QED BY <3>4, <3>5, OnlyRetrySends
  <2> QED BY <2>4, <2>5
<1>4. CASE ~ Busy(w)
  <2>1. /\ queue' = queue /\ status' = status /\ uploading' = uploading /\ ~ Busy(w)'
    BY <1>0, <1>4, ProcessTokens
  <2>2. \A c \in Calls : BusyOn(c)' => BusyOn(c)
    BY <1>0, <2>1 DEF BusyOn
  <2> QED BY <1>1, <2>1, <2>2 DEF SingleInv, Single, Queued
<1> QED BY <1>3, <1>4

\* With single delivery a call never has two messages or processes.
LEMMA NextSingleInv ==
  ASSUME SingleDelivery
  PROVE  SingleInv /\ [Next]_vars => SingleInv'
<1> SUFFICES ASSUME SingleInv, [Next]_vars PROVE SingleInv'
  OBVIOUS
<1>1. TypeInv'
  BY NextTypeInv DEF SingleInv
<1>2. CASE UNCHANGED vars
  BY <1>1, <1>2 DEF SingleInv, OneAtATime, Single, Queued, BusyOn, Busy, CallOf,
                    vars, callVars
<1>3. \A w \in Workers : ~ Fault(w)
  BY DEF SingleDelivery, Fault, Crash, ConnectionLoss
<1> QED BY <1>1, <1>2, <1>3, RequestSingle, DeliverySingle, ProcessSingle DEF Next, SingleInv

\* There is at most one worker process.
OneWorker == \A v, w \in Workers : v = w

\* Where no message is delivered twice, or one process does all the work, no two
\* processes work on one call.
THEOREM OneProcessPerCall ==
  ASSUME SingleDelivery \/ OneWorker PROVE Spec => []OneAtATime
<1>1. CASE SingleDelivery
  <2>1. SingleInv => OneAtATime
    BY DEF SingleInv
  <2>2. SingleInv /\ [Next]_vars => SingleInv'
    BY <1>1, NextSingleInv
  <2> QED BY InitSingleInv, <2>1, <2>2, PTL DEF Spec
<1>2. CASE OneWorker
  <2>1. OneAtATime
    BY <1>2 DEF OneWorker, OneAtATime
  <2> QED BY <2>1, PTL
<1> QED BY <1>1, <1>2
-----------------------------------------------------------------------------
(* What a process knows of its call.                                        *)

Loaded(w) == pc[w] \notin {"idle", "load", "ack"}

\* A call that is worked on is neither absent nor done, what a session knows of
\* its status and error is so, and the step a process is at says how far it is.
Knows(w) ==
  LET c == CallOf(w)
      s == session[w]
  IN
  /\ Loaded(w) => status[c] \in {"queued", "transcribing", "analyzing", "failed"}
  /\ pc[w] \in {"start", "record"} => s.status = status[c] /\ (s.error <=> c \in error)
  /\ pc[w] \in {"transcribe", "insert", "embed", "mark"} =>
       s.status = "transcribing" /\ status[c] = "transcribing"
  /\ pc[w] \in {"insert", "embed"} => c \notin transcripts
  /\ pc[w] \in {"mark", "analyze", "score", "finish"} => c \in transcripts
  /\ pc[w] \in {"analyze", "score", "finish"} =>
       s.status = "analyzing" /\ status[c] = "analyzing"
  /\ pc[w] = "finish" => total[c] # NoTotal

\* Only rows that are there are confirmed.
VerifiedRows == \A c \in Calls : verified[c] \subseteq Given(rows[c])

StepInv ==
  /\ ScoreInv
  /\ ErrorMeansFailed
  /\ VerifiedRows
  /\ \A w \in Workers : Knows(w)

\* Initially no process knows anything.
LEMMA InitStepInv == Init => StepInv
<1> SUFFICES ASSUME Init PROVE StepInv
  OBVIOUS
<1>1. ErrorMeansFailed /\ VerifiedRows
  BY DEF Init, ErrorMeansFailed, VerifiedRows
<1>2. \A w \in Workers : Knows(w)
  BY DEF Init, Knows, Loaded
<1> QED BY <1>1, <1>2, InitScoreInv DEF StepInv

\* A statement that raises while a process loads its call finds the call as a
\* busy process does: the error is not recorded over a done call.
NoLateError ==
  "database" \in Faults =>
    \A w \in Workers : At(w, "load") => status[CallOf(w)] \notin {"absent", "done"}

\* That is so where no message is delivered twice, or the database does not fail.
LEMMA NoErrorIsLate ==
  ASSUME SingleDelivery \/ "database" \notin Faults PROVE Spec => []NoLateError
<1>1. CASE SingleDelivery
  <2>1. SingleInv => NoLateError
    <3> SUFFICES ASSUME SingleInv, NEW w \in Workers, At(w, "load")
                 PROVE  status[CallOf(w)] \notin {"absent", "done"}
      BY DEF NoLateError
    <3>1. CallOf(w) \in Calls /\ BusyOn(CallOf(w))
      BY JobType DEF SingleInv, At, BusyOn, Busy
    <3> QED BY <3>1 DEF SingleInv, Single
  <2>2. SingleInv /\ [Next]_vars => SingleInv'
    BY <1>1, NextSingleInv
  <2> QED BY InitSingleInv, <2>1, <2>2, PTL DEF Spec
<1>2. CASE "database" \notin Faults
  <2>1. NoLateError
    BY <1>2 DEF NoLateError
  <2> QED BY <2>1, PTL
<1> QED BY <1>1, <1>2

\* A process changes nothing about calls other than the one it has loaded.
LEMMA OtherCallsStay ==
  ASSUME TypeInv, NEW w \in Workers, Delivery(w) \/ Process(w) \/ Fault(w),
         NEW c \in Calls, Loaded(w) => CallOf(w) # c
  PROVE  /\ status'[c] = status[c] /\ total'[c] = total[c]
         /\ rows'[c] = rows[c] /\ verified'[c] = verified[c]
         /\ c \in error' <=> c \in error
         /\ c \in transcripts' <=> c \in transcripts
<1>0. /\ status \in [Calls -> CallStatus \cup {"absent"}]
      /\ total \in [Calls -> Totals]
      /\ rows \in [Calls -> [Items -> Verdicts]]
      /\ verified \in [Calls -> SUBSET Items]
  BY DEF TypeInv, TypeOK
<1>1. CASE Delivery(w) \/ Fault(w)
  BY <1>1 DEF Delivery, Deliver, Fault, Crash, ConnectionLoss, callVars
<1>2. CASE Load(w) \/ Transcribe(w) \/ InsertTranscript(w) \/ Analyze(w)
           \/ Raises(w) \/ ReadFailed(w) \/ MarkFailedRaises(w) \/ Retry(w)
           \/ RetryFails(w) \/ Ack(w)
  BY <1>2 DEF Load, Transcribe, InsertTranscript, Analyze, Raises, ReadFailed,
              MarkFailedRaises, Retry, RetryFails, Ack, callVars
<1>3. CASE Start(w)
  BY <1>0, <1>3 DEF Start, At, Loaded, scoreVars
<1>4. CASE Embed(w)
  BY <1>0, <1>4 DEF Embed, At, Loaded, scoreVars
<1>5. CASE MarkAnalyzing(w) \/ Finish(w)
  BY <1>0, <1>5 DEF MarkAnalyzing, Finish, At, Loaded, scoreVars
<1>6. CASE CommitScores(w)
  BY <1>0, <1>6 DEF CommitScores, At, Loaded
<1>7. CASE MarkFailed(w)
  BY <1>0, <1>7 DEF MarkFailed, At, Loaded, scoreVars
<1> QED BY <1>1, <1>2, <1>3, <1>4, <1>5, <1>6, <1>7 DEF Process
-----------------------------------------------------------------------------
\* What a process that has loaded its call may assume of it.
LEMMA LoadedCall ==
  ASSUME StepInv, NEW w \in Workers, Loaded(w)
  PROVE  /\ CallOf(w) \in Calls
         /\ status[CallOf(w)] \in {"queued", "transcribing", "analyzing", "failed"}
BY JobType DEF StepInv, ScoreInv, Knows, Loaded

\* What the commit of the analysis does when nobody else works on the call.
LEMMA ScoresCommitted ==
  ASSUME StepInv, NEW w \in Workers, CommitScores(w)
  PROVE  /\ CallOf(w) \in Calls
         /\ session[w].verdicts \in [Items -> Verdicts]
         /\ rows' = [rows EXCEPT ![CallOf(w)] = session[w].verdicts]
         /\ total' = [total EXCEPT ![CallOf(w)] = Share(Passed(session[w].verdicts))]
         /\ verified' = [verified EXCEPT ![CallOf(w)] = {}]
         /\ Share(Passed(session[w].verdicts)) # NoTotal
<1> DEFINE c == CallOf(w)
           s == session[w]
<1>1. /\ c \in Calls
      /\ rows' = [rows EXCEPT ![c] = s.verdicts]
      /\ total' = [total EXCEPT ![c] = Share(Passed(s.verdicts))]
  BY CommitScoresReplaces DEF StepInv
<1>2. s \in Sessions
  BY DEF StepInv, ScoreInv, TypeInv, TypeOK
<1>3. s.verdicts \in [Items -> Verdicts]
  BY <1>2 DEF Sessions
<1>4. s.doomed = Given(rows[c])
  BY DEF StepInv, ScoreInv, UpToDate, CommitScores, At
<1>5. verified[c] \ s.doomed = {}
  BY <1>1, <1>4 DEF StepInv, VerifiedRows
<1>6. verified' = [verified EXCEPT ![c] = {}]
  BY <1>5 DEF CommitScores
<1>7. Share(Passed(s.verdicts)) # NoTotal
  <2>1. Passed(s.verdicts) \in SUBSET Items
    BY DEF Passed
  <2>2. Share(Passed(s.verdicts)) \in Nat
    BY <2>1, ShareAssumption
  <2> QED BY <2>2 DEF NoTotal
<1> QED BY <1>1, <1>3, <1>6, <1>7
-----------------------------------------------------------------------------
\* A step of a process keeps what it knows.
LEMMA OwnKnows ==
  ASSUME StepInv, NoLateError, NEW w \in Workers, Delivery(w) \/ Process(w) \/ Fault(w)
  PROVE  Knows(w)'
<1> DEFINE c == CallOf(w)
<1>0. /\ pc \in [Workers -> Steps \cup {"idle"}]
      /\ session \in [Workers -> Sessions]
      /\ status \in [Calls -> CallStatus \cup {"absent"}]
      /\ total \in [Calls -> Totals]
      /\ Knows(w)
  BY DEF StepInv, ScoreInv, TypeInv, TypeOK
<1>1. CASE Delivery(w) \/ Crash(w) \/ Finish(w) \/ MarkFailedRaises(w)
           \/ Retry(w) \/ RetryFails(w) \/ Ack(w)
  <2>1. pc'[w] \in {"load", "idle", "ack"}
    BY <1>0, <1>1 DEF Delivery, Deliver, Crash, Finish, MarkFailedRaises, Retry,
                      RetryFails, Ack, Release, Goto
  <2> QED BY <2>1 DEF Knows, Loaded
<1>2. CASE Load(w)
  <2>1. CallOf(w)' = c /\ UNCHANGED <<status, error>> /\ pc'[w] \in {"ack", "start"}
    BY <1>0, <1>2 DEF Load, Goto, CallOf, callVars
  <2>2. pc'[w] = "start" => session'[w] = View(c)
    BY <1>0, <1>2 DEF Load, Goto
  <2>3. View(c).status = status[c] /\ View(c).error = (c \in error)
    BY DEF View
  <2>4. pc'[w] = "start" =>
          session'[w].status = status[c] /\ session'[w].error = (c \in error)
    BY <2>2, <2>3
  <2>5. pc'[w] = "start" => status[c] \notin {"absent", "done"} /\ c \in Calls
    BY <1>0, <1>2, JobType DEF Load, At, Goto, StepInv, ScoreInv
  <2>6. pc'[w] = "start" => status[c] \in {"queued", "transcribing", "analyzing", "failed"}
    BY <1>0, <2>5 DEF CallStatus
  <2> QED BY <2>1, <2>4, <2>6 DEF Knows, Loaded
<1>3. CASE Start(w)
  <2>1. c \in Calls
    BY <1>3, LoadedCall DEF Start, At, Loaded
  <2>2. CallOf(w)' = c /\ pc'[w] = "transcribe" /\ session'[w].status = "transcribing"
    BY <1>0, <1>3 DEF Start, Goto, CallOf, Sessions
  <2>3. session[w].status = status[c]
    BY <1>0, <1>3 DEF Start, At, Knows
  <2>4. status'[c] = "transcribing"
    BY <1>0, <1>3, <2>1, <2>3 DEF Start, Flush
  <2> QED BY <2>2, <2>4 DEF Knows, Loaded
<1>4. CASE Transcribe(w) \/ InsertTranscript(w)
  <2>1. CallOf(w)' = c /\ UNCHANGED <<status, transcripts>>
    BY <1>4 DEF Transcribe, InsertTranscript, CallOf, callVars
  <2>2. \/ pc'[w] = "fail"
        \/ pc'[w] = "mark" /\ c \in transcripts /\ session'[w] = session[w]
        \/ pc'[w] \in {"insert", "embed"} /\ c \notin transcripts /\ session'[w] = session[w]
    BY <1>0, <1>4 DEF Transcribe, InsertTranscript, Goto
  <2>3. session[w].status = "transcribing" /\ status[c] = "transcribing"
    BY <1>0, <1>4 DEF Transcribe, InsertTranscript, At, Knows
  <2> QED BY <2>1, <2>2, <2>3 DEF Knows, Loaded
<1>5. CASE Embed(w)
  BY <1>0, <1>5 DEF Embed, At, Goto, Knows, Loaded, CallOf
<1>6. CASE MarkAnalyzing(w)
  <2>1. c \in Calls
    BY <1>6, LoadedCall DEF MarkAnalyzing, At, Loaded
  <2>2. CallOf(w)' = c /\ pc'[w] = "analyze" /\ session'[w].status = "analyzing"
        /\ transcripts' = transcripts
    BY <1>0, <1>6 DEF MarkAnalyzing, Goto, CallOf, Sessions
  <2>3. session[w].status = "transcribing" /\ c \in transcripts
    BY <1>0, <1>6 DEF MarkAnalyzing, At, Knows
  <2>4. status'[c] = "analyzing"
    BY <1>0, <1>6, <2>1, <2>3 DEF MarkAnalyzing, Flush
  <2> QED BY <2>2, <2>3, <2>4 DEF Knows, Loaded
<1>7. CASE Analyze(w)
  <2>1. session'[w].status = session[w].status
    BY <1>0, <1>7 DEF Analyze, Sessions
  <2>2. /\ pc[w] = "analyze" /\ pc'[w] = "score" /\ CallOf(w)' = c
        /\ status' = status /\ transcripts' = transcripts
    BY <1>0, <1>7 DEF Analyze, At, Goto, CallOf, callVars
  <2> QED BY <1>0, <2>1, <2>2 DEF Knows, Loaded
<1>8. CASE CommitScores(w)
  <2>1. /\ pc[w] = "score" /\ pc'[w] = "finish" /\ CallOf(w)' = c
        /\ status' = status /\ transcripts' = transcripts
    BY <1>0, <1>8 DEF CommitScores, At, Goto, CallOf
  <2>2. session'[w].status = session[w].status
    BY <1>0, <1>8 DEF CommitScores, Closed
  <2>3. total'[c] # NoTotal
    BY <1>0, <1>8, ScoresCommitted
  <2> QED BY <1>0, <2>1, <2>2, <2>3 DEF Knows, Loaded
<1>9. CASE Raises(w)
  <2>1. CallOf(w)' = c /\ status' = status /\ pc'[w] = "fail"
    BY <1>0, <1>9 DEF Raises, Goto, CallOf, callVars
  <2>2. CASE At(w, "load")
    <3>1. c \in Calls /\ status[c] \notin {"absent", "done"}
      BY <1>9, <2>2, JobType DEF Raises, At, NoLateError, StepInv, ScoreInv
    <3>2. status[c] \in {"queued", "transcribing", "analyzing", "failed"}
      BY <1>0, <3>1 DEF CallStatus
    <3> QED BY <2>1, <3>2 DEF Knows
  <2>3. CASE ~ At(w, "load")
    <3>1. Loaded(w)
      BY <1>9, <2>3 DEF Raises, At, Loaded, Steps
    <3> QED BY <1>0, <2>1, <3>1 DEF Knows
  <2> QED BY <2>2, <2>3
<1>10. CASE MarkFailed(w)
  <2>1. c \in Calls
    BY <1>10, LoadedCall DEF MarkFailed, At, Loaded
  <2>2. session[w].status = status[c]
    BY <1>0, <1>10 DEF MarkFailed, At, Knows
  <2>3. CallOf(w)' = c /\ status'[c] = "failed" /\ pc'[w] = "retry"
    BY <1>0, <1>10, <2>1, <2>2 DEF MarkFailed, Goto, Flush, CallOf
  <2> QED BY <2>3 DEF Knows
<1>12. CASE ReadFailed(w)
  <2>1. status[c] \in {"queued", "transcribing", "analyzing", "failed"}
    BY <1>12, LoadedCall DEF ReadFailed, At, Loaded
  <2>2. CallOf(w)' = c /\ UNCHANGED <<status, error>> /\ pc'[w] = "record"
        /\ session'[w] = View(c)
    BY <1>0, <1>12, <2>1 DEF ReadFailed, Goto, CallOf, callVars
  <2>3. View(c).status = status[c] /\ View(c).error = (c \in error)
    BY DEF View
  <2> QED BY <2>1, <2>2, <2>3 DEF Knows
<1>11. CASE ConnectionLoss(w)
  BY <1>0, <1>11 DEF ConnectionLoss, Knows, Loaded, CallOf, callVars
<1> QED BY <1>1, <1>2, <1>3, <1>4, <1>5, <1>6, <1>7, <1>8, <1>9, <1>10, <1>11, <1>12
        DEF Process, Fault

\* A step of a process leaves what the others know true.
LEMMA OthersKnow ==
  ASSUME StepInv, OneAtATime, NEW w \in Workers, Delivery(w) \/ Process(w) \/ Fault(w),
         NEW v \in Workers, v # w
  PROVE  Knows(v)'
<1> DEFINE c == CallOf(v)
<1>0. TypeInv /\ Knows(v)
  BY DEF StepInv, ScoreInv
<1>1. pc'[v] = pc[v] /\ CallOf(v)' = c
  BY <1>0, OthersGoOn DEF CallOf
<1>2. CASE Loaded(v)
  <2>1. c \in Calls /\ (Busy(w) => CallOf(w) # c)
    BY <1>2, LoadedCall DEF OneAtATime, Busy, Loaded
  <2>2. /\ status'[c] = status[c] /\ total'[c] = total[c]
        /\ c \in error' <=> c \in error
        /\ c \in transcripts' <=> c \in transcripts
    BY <1>0, <2>1, OtherCallsStay DEF Busy, Loaded
  <2>3. session'[v] = session[v]
    <3>1. CASE ~ CommitScores(w)
      BY <1>0, <3>1, OthersKeepSession
    <3>2. CASE CommitScores(w)
      <4>1. v \notin SameCall(w)
        BY <2>1, <3>2 DEF SameCall, CommitScores, At, Busy
      <4> QED BY <3>2, <4>1 DEF CommitScores
    <3> QED BY <3>1, <3>2
  <2> QED BY <1>0, <1>1, <2>2, <2>3 DEF Knows, Loaded
<1>3. CASE ~ Loaded(v)
  BY <1>1, <1>3 DEF Knows, Loaded
<1> QED BY <1>2, <1>3

\* Requests leave what the processes know true.
LEMMA RequestsKnow ==
  ASSUME StepInv, NEW d \in Calls, Request(d) \/ Publication(d), NEW v \in Workers
  PROVE  Knows(v)'
<1>0. /\ Knows(v) /\ UNCHANGED <<pc, job, session, error, total, transcripts>>
  BY DEF StepInv, Request, Publication, Upload, SetVerified, Publish, PublishFails,
         callVars, scoreVars
<1>1. CASE status' = status
  BY <1>0, <1>1 DEF Knows, Loaded, CallOf
<1>2. CASE Upload(d) /\ Loaded(v)
  <2>1. CallOf(v) \in Calls /\ status[CallOf(v)] # "absent"
    BY <1>2, LoadedCall
  <2>2. status'[CallOf(v)] = status[CallOf(v)]
    BY <1>2, <2>1 DEF Upload, StepInv, ScoreInv, TypeInv, TypeOK
  <2> QED BY <1>0, <2>2 DEF Knows, Loaded, CallOf
<1>3. CASE ~ Loaded(v)
  BY <1>0, <1>3 DEF Knows, Loaded
<1> QED BY <1>1, <1>2, <1>3 DEF Request, Publication, SetVerified, Publish, PublishFails,
                                callVars
-----------------------------------------------------------------------------
\* A call has an error exactly while it is failed, after every step.
LEMMA NextErrors ==
  ASSUME StepInv, [Next]_vars
  PROVE  ErrorMeansFailed'
<1>0. /\ TypeInv /\ ErrorMeansFailed
      /\ status \in [Calls -> CallStatus \cup {"absent"}]
      /\ error \subseteq Calls
  BY DEF StepInv, ScoreInv, TypeInv, TypeOK
<1>1. CASE UNCHANGED vars
  BY <1>0, <1>1 DEF ErrorMeansFailed, vars, callVars
<1>2. ASSUME NEW d \in Calls, Request(d) \/ Publication(d) PROVE ErrorMeansFailed'
  BY <1>0, <1>2 DEF Request, Publication, Upload, SetVerified, Publish, PublishFails,
                    callVars, ErrorMeansFailed
<1>3. ASSUME NEW w \in Workers, Delivery(w) \/ Process(w) \/ Fault(w)
      PROVE  ErrorMeansFailed'
  <2> SUFFICES ASSUME NEW c \in Calls PROVE c \in error' <=> status'[c] = "failed"
    BY DEF ErrorMeansFailed
  <2>0. c \in error <=> status[c] = "failed"
    BY <1>0 DEF ErrorMeansFailed
  <2>1. CASE Loaded(w) => CallOf(w) # c
    BY <1>0, <1>3, <2>0, <2>1, OtherCallsStay
  <2>2. CASE Loaded(w) /\ CallOf(w) = c
    <3>1. CASE UNCHANGED <<status, error>>
      BY <2>0, <3>1
    <3>2. CASE Start(w)
      <4>1. session[w].status = status[c] /\ (session[w].error <=> c \in error)
        BY <2>2, <3>2 DEF StepInv, Knows, Start, At
      <4> QED BY <1>0, <2>2, <3>2, <4>1 DEF Start, Flush
    <3>3. CASE MarkAnalyzing(w)
      <4>1. session[w].status = "transcribing" /\ status[c] = "transcribing"
        BY <2>2, <3>3 DEF StepInv, Knows, MarkAnalyzing, At
      <4> QED BY <1>0, <2>0, <2>2, <3>3, <4>1 DEF MarkAnalyzing, Flush
    <3>4. CASE Finish(w)
      <4>1. session[w].status = "analyzing" /\ status[c] = "analyzing"
        BY <2>2, <3>4 DEF StepInv, Knows, Finish, At
      <4> QED BY <1>0, <2>0, <2>2, <3>4, <4>1 DEF Finish, Flush
    <3>5. CASE MarkFailed(w)
      <4>1. session[w].status = status[c] /\ (session[w].error <=> c \in error)
        BY <2>2, <3>5 DEF StepInv, Knows, MarkFailed, At
      <4> QED BY <1>0, <2>2, <3>5, <4>1 DEF MarkFailed, Flush
    <3> QED BY <1>3, <3>1, <3>2, <3>3, <3>4, <3>5
         DEF Delivery, Deliver, Fault, Crash, ConnectionLoss, Process, Load, Transcribe, InsertTranscript, Embed,
             Analyze, CommitScores, Raises, ReadFailed, MarkFailedRaises, Retry, RetryFails,
             Ack, callVars
  <2> QED BY <2>1, <2>2
<1> QED BY <1>1, <1>2, <1>3 DEF Next

\* Only rows that are there are confirmed, after every step.
LEMMA NextVerified ==
  ASSUME StepInv, [Next]_vars
  PROVE  VerifiedRows'
<1>0. /\ VerifiedRows
      /\ rows \in [Calls -> [Items -> Verdicts]]
      /\ verified \in [Calls -> SUBSET Items]
  BY DEF StepInv, ScoreInv, TypeInv, TypeOK
<1>1. ASSUME NEW w \in Workers, CommitScores(w) PROVE VerifiedRows'
  <2>1. /\ rows' = [rows EXCEPT ![CallOf(w)] = session[w].verdicts]
        /\ verified' = [verified EXCEPT ![CallOf(w)] = {}]
    BY <1>1, ScoresCommitted
  <2> QED BY <1>0, <2>1 DEF VerifiedRows
<1>2. ASSUME NEW d \in Calls, NEW i \in Items, SetVerified(d, i) PROVE VerifiedRows'
  BY <1>0, <1>2 DEF SetVerified, VerifiedRows, Given
<1>3. CASE UNCHANGED <<rows, verified>>
  BY <1>0, <1>3 DEF VerifiedRows
<1> QED BY <1>1, <1>2, <1>3
  DEF Next, Request, Publication, Upload, Publish, PublishFails,
      Delivery, Deliver, Fault, Crash, ConnectionLoss, Process, Load, Start,
      Transcribe, InsertTranscript, Embed, MarkAnalyzing, Analyze, Finish, Raises,
      ReadFailed, MarkFailed, MarkFailedRaises, Retry, RetryFails, Ack, vars, callVars, scoreVars

\* Every step keeps the invariant while a call has one process.
LEMMA NextStepInv == StepInv /\ OneAtATime /\ NoLateError /\ [Next]_vars => StepInv'
<1> SUFFICES ASSUME StepInv, OneAtATime, NoLateError, [Next]_vars PROVE StepInv'
  OBVIOUS
<1>1. ScoreInv'
  BY NextScoreInv DEF StepInv
<1>2. ErrorMeansFailed' /\ VerifiedRows'
  BY NextErrors, NextVerified
<1>3. ASSUME NEW v \in Workers PROVE Knows(v)'
  <2>1. CASE UNCHANGED vars
    BY <2>1 DEF StepInv, Knows, Loaded, CallOf, vars, callVars
  <2>2. ASSUME NEW d \in Calls, Request(d) \/ Publication(d) PROVE Knows(v)'
    BY <2>2, RequestsKnow
  <2>3. ASSUME NEW w \in Workers, Delivery(w) \/ Process(w) \/ Fault(w) PROVE Knows(v)'
    BY <2>3, OwnKnows, OthersKnow
  <2> QED BY <2>1, <2>2, <2>3 DEF Next
<1> QED BY <1>1, <1>2, <1>3 DEF StepInv

\* While a call has one process, what the processes know is so.
LEMMA StepInvariant ==
  ASSUME SingleDelivery \/ "database" \notin Faults
  PROVE  Spec /\ []OneAtATime => []StepInv
BY InitStepInv, NextStepInv, NoErrorIsLate, PTL DEF Spec

\* A call has an error exactly while its last attempt has failed.
THEOREM ErrorsAreFailures ==
  ASSUME SingleDelivery \/ "database" \notin Faults
  PROVE  Spec /\ []OneAtATime => []ErrorMeansFailed
<1>1. StepInv => ErrorMeansFailed
  BY DEF StepInv
<1> QED BY <1>1, StepInvariant, PTL

\* A call that a process works on is not done.
LEMMA DoneCallsAreFree ==
  ASSUME StepInv, NEW c \in Calls, status[c] = "done", NEW w \in Workers, Loaded(w)
  PROVE  CallOf(w) # c
BY LoadedCall

\* A done call stays done, whatever fails, crashes or is delivered twice.
THEOREM DoneCallsStayDone ==
  ASSUME SingleDelivery \/ "database" \notin Faults
  PROVE  Spec /\ []OneAtATime => DoneIsFinal
<1>1. StepInv /\ [Next]_vars =>
        [\A c \in Calls : status[c] = "done" => status'[c] = "done"]_vars
  <2> SUFFICES ASSUME StepInv, [Next]_vars, NEW c \in Calls, status[c] = "done"
               PROVE  status'[c] = "done"
    OBVIOUS
  <2>0. TypeInv
    BY DEF StepInv, ScoreInv
  <2>1. CASE UNCHANGED vars
    BY <2>1 DEF vars, callVars
  <2>2. ASSUME NEW d \in Calls, Request(d) \/ Publication(d) PROVE status'[c] = "done"
    BY <2>0, <2>2 DEF Request, Publication, Upload, SetVerified, Publish, PublishFails,
                      callVars, TypeInv, TypeOK
  <2>3. ASSUME NEW w \in Workers, Delivery(w) \/ Process(w) \/ Fault(w)
        PROVE  status'[c] = "done"
    BY <2>0, <2>3, DoneCallsAreFree, OtherCallsStay
  <2> QED BY <2>1, <2>2, <2>3 DEF Next
<1> QED BY <1>1, StepInvariant, PTL DEF Spec, DoneIsFinal

\* Nothing but a person touches the verdicts and confirmations of a done call.
THEOREM ConfirmationsAreKept ==
  ASSUME SingleDelivery \/ "database" \notin Faults
  PROVE  Spec /\ []OneAtATime => ConfirmedIsKept
<1> DEFINE OnlyPeople(c) ==
      status[c] = "done" =>
        /\ rows'[c] = rows[c]
        /\ verified'[c] # verified[c] => \E i \in Items : SetVerified(c, i)
<1>1. StepInv /\ [Next]_vars => [\A c \in Calls : OnlyPeople(c)]_vars
  <2> SUFFICES ASSUME StepInv, [Next]_vars, NEW c \in Calls, status[c] = "done"
               PROVE  /\ rows'[c] = rows[c]
                      /\ verified'[c] # verified[c] => \E i \in Items : SetVerified(c, i)
    OBVIOUS
  <2>0. TypeInv
    BY DEF StepInv, ScoreInv
  <2>1. CASE UNCHANGED vars
    BY <2>1 DEF vars, callVars, scoreVars
  <2>2. ASSUME NEW d \in Calls, Upload(d) \/ Publication(d)
        PROVE  rows'[c] = rows[c] /\ verified'[c] = verified[c]
    BY <2>2 DEF Upload, Publication, Publish, PublishFails, callVars, scoreVars
  <2>3. ASSUME NEW d \in Calls, NEW i \in Items, SetVerified(d, i)
        PROVE  rows'[c] = rows[c] /\ (d = c \/ verified'[c] = verified[c])
    BY <2>0, <2>3 DEF SetVerified, TypeInv, TypeOK
  <2>4. ASSUME NEW w \in Workers, Delivery(w) \/ Process(w) \/ Fault(w)
        PROVE  rows'[c] = rows[c] /\ verified'[c] = verified[c]
    BY <2>0, <2>4, DoneCallsAreFree, OtherCallsStay
  <2> QED BY <2>1, <2>2, <2>3, <2>4 DEF Next, Request
<1> QED BY <1>1, StepInvariant, PTL DEF Spec, ConfirmedIsKept
-----------------------------------------------------------------------------
(* The refinement: each step of the pipeline is one of the lifecycle, or   *)
(* leaves what the lifecycle tells of the calls as it is.                  *)

\* Initial states are initial states of the lifecycle.
LEMMA InitRefines == Init => Lifecycle!Init
BY DEF Init, Lifecycle!Init, NoVerdicts, Lifecycle!NoRows

\* The requests create a call or confirm a verdict.
LEMMA RequestRefines ==
  ASSUME StepInv, NEW d \in Calls, Request(d) \/ Publication(d)
  PROVE  [Lifecycle!Next]_(Lifecycle!vars)
<1>1. CASE Upload(d)
  <2>1. Lifecycle!Create(d)
    BY <1>1 DEF Upload, scoreVars, Lifecycle!Create, Lifecycle!Become, Lifecycle!scores
  <2> QED BY <2>1 DEF Lifecycle!Next
<1>2. ASSUME NEW i \in Items, SetVerified(d, i) PROVE Lifecycle!Next
  <2>1. Lifecycle!Confirm(d, i)
    BY <1>2 DEF SetVerified, Lifecycle!Confirm
  <2> QED BY <2>1 DEF Lifecycle!Next
<1>3. CASE Publication(d)
  BY <1>3 DEF Publication, Publish, PublishFails, callVars, scoreVars, Lifecycle!vars
<1> QED BY <1>1, <1>2, <1>3 DEF Request

\* Each step of a task is one of its call.
LEMMA ProcessRefines ==
  ASSUME StepInv, NEW w \in Workers, Delivery(w) \/ Process(w) \/ Fault(w)
  PROVE  [Lifecycle!Next]_(Lifecycle!vars)
<1> DEFINE c == CallOf(w)
           s == session[w]
<1>0. /\ Knows(w)
      /\ Loaded(w) => c \in Calls
      /\ Loaded(w) => status[c] \in {"queued", "transcribing", "analyzing", "failed"}
      /\ Loaded(w) => (c \in error <=> status[c] = "failed")
      /\ status \in [Calls -> CallStatus \cup {"absent"}]
      /\ transcripts \subseteq Calls
  BY LoadedCall DEF StepInv, ScoreInv, TypeInv, TypeOK, ErrorMeansFailed
<1>1. CASE Delivery(w) \/ Fault(w) \/ Load(w) \/ Transcribe(w) \/ InsertTranscript(w) \/ Analyze(w)
           \/ Raises(w) \/ ReadFailed(w) \/ MarkFailedRaises(w) \/ Retry(w) \/ RetryFails(w)
           \/ Ack(w)
  BY <1>1 DEF Delivery, Deliver, Fault, Crash, ConnectionLoss, Load, Transcribe, InsertTranscript, Analyze, Raises,
              ReadFailed, MarkFailedRaises, Retry, RetryFails, Ack, callVars, scoreVars, Lifecycle!vars
<1>2. CASE Start(w)
  <2>1. /\ c \in Calls
        /\ status[c] \in {"queued", "transcribing", "analyzing", "failed"}
        /\ s.status = status[c] /\ (s.error <=> c \in error)
    BY <1>0, <1>2 DEF Start, At, Loaded, Knows
  <2>2. status' = [status EXCEPT ![c] = "transcribing"]
    BY <1>2, <2>1 DEF Start, Flush
  <2>3. error' = error \ {c}
    BY <1>2, <2>1 DEF Start, Flush
  <2>4. Lifecycle!Begin(c)
    BY <1>2, <2>1, <2>2, <2>3
    DEF Start, scoreVars, Lifecycle!Begin, Lifecycle!Become, Lifecycle!scores
  <2> QED BY <2>1, <2>4 DEF Lifecycle!Next
<1>3. CASE Embed(w)
  <2>1. c \in Calls /\ status[c] = "transcribing" /\ c \notin transcripts
    BY <1>0, <1>3 DEF Embed, At, Loaded, Knows
  <2>2. Lifecycle!Transcribe(c)
    BY <1>3, <2>1 DEF Embed, scoreVars, Lifecycle!Transcribe, Lifecycle!scores
  <2> QED BY <2>1, <2>2 DEF Lifecycle!Next
<1>4. CASE MarkAnalyzing(w)
  <2>1. /\ c \in Calls /\ c \in transcripts
        /\ status[c] = "transcribing" /\ s.status = "transcribing"
    BY <1>0, <1>4 DEF MarkAnalyzing, At, Loaded, Knows
  <2>2. status' = [status EXCEPT ![c] = "analyzing"]
    BY <1>4, <2>1 DEF MarkAnalyzing, Flush
  <2>3. Lifecycle!Examine(c)
    BY <1>4, <2>1, <2>2
    DEF MarkAnalyzing, scoreVars, Lifecycle!Examine, Lifecycle!Become, Lifecycle!scores
  <2> QED BY <2>1, <2>3 DEF Lifecycle!Next
<1>5. CASE CommitScores(w)
  <2>1. status[c] = "analyzing"
    BY <1>0, <1>5 DEF CommitScores, At, Knows
  <2>2. s.verdicts \in [Items -> {"none", "fail", "pass"}] /\ c \in Calls
        /\ rows' = [rows EXCEPT ![c] = s.verdicts]
        /\ verified' = [verified EXCEPT ![c] = {}]
        /\ total' = [total EXCEPT ![c] = Share(Passed(s.verdicts))]
    BY <1>5, ScoresCommitted DEF Verdicts
  <2>3. Lifecycle!PassedOf(s.verdicts) = Passed(s.verdicts)
    BY DEF Lifecycle!PassedOf, Passed
  <2>4. total' = [total EXCEPT ![c] = Share(Lifecycle!PassedOf(s.verdicts))]
    BY <2>2, <2>3, Zenon
  <2>5. Lifecycle!Score(c)
    BY <1>5, <2>1, <2>2, <2>4 DEF CommitScores, Lifecycle!Score
  <2> QED BY <2>2, <2>5 DEF Lifecycle!Next
<1>6. CASE Finish(w)
  <2>1. /\ c \in Calls /\ total[c] # NoTotal
        /\ status[c] = "analyzing" /\ s.status = "analyzing"
    BY <1>0, <1>6 DEF Finish, At, Loaded, Knows
  <2>2. status' = [status EXCEPT ![c] = "done"]
    BY <1>6, <2>1 DEF Finish, Flush
  <2>3. Lifecycle!Complete(c)
    BY <1>6, <2>1, <2>2
    DEF Finish, scoreVars, Lifecycle!Complete, Lifecycle!Become, Lifecycle!scores
  <2> QED BY <2>1, <2>3 DEF Lifecycle!Next
<1>7. CASE MarkFailed(w)
  <2>1. /\ c \in Calls
        /\ status[c] \in {"queued", "transcribing", "analyzing", "failed"}
        /\ c \in error <=> status[c] = "failed"
        /\ s.status = status[c] /\ (s.error <=> c \in error)
    BY <1>0, <1>7 DEF MarkFailed, At, Loaded, Knows
  <2>2. CASE status[c] = "failed"
    <3>1. status' = status /\ error' = error
      BY <1>0, <1>7, <2>1, <2>2 DEF MarkFailed, Flush
    <3> QED BY <1>7, <3>1 DEF MarkFailed, scoreVars, Lifecycle!vars
  <2>3. CASE status[c] # "failed"
    <3>1. status' = [status EXCEPT ![c] = "failed"] /\ error' = error \cup {c}
      BY <1>7, <2>1, <2>3 DEF MarkFailed, Flush
    <3>2. Lifecycle!Fail(c)
      BY <1>7, <2>1, <2>3, <3>1
      DEF MarkFailed, scoreVars, Lifecycle!Fail, Lifecycle!Become, Lifecycle!scores
    <3> QED BY <2>1, <3>2 DEF Lifecycle!Next
  <2> QED BY <2>2, <2>3
<1> QED BY <1>1, <1>2, <1>3, <1>4, <1>5, <1>6, <1>7 DEF Process

\* The pipeline implements the lifecycle: whatever fails or crashes, and however
\* calls and processes interleave, the commits of a call follow one another as
\* its lifecycle says.
THEOREM PipelineFollowsLifecycle ==
  ASSUME SingleDelivery \/ "database" \notin Faults
  PROVE  Spec /\ []OneAtATime => FollowsLifecycle
<1>1. StepInv /\ [Next]_vars => [Lifecycle!Next]_(Lifecycle!vars)
  <2> SUFFICES ASSUME StepInv, [Next]_vars PROVE [Lifecycle!Next]_(Lifecycle!vars)
    OBVIOUS
  <2>1. CASE UNCHANGED vars
    BY <2>1 DEF vars, callVars, scoreVars, Lifecycle!vars
  <2> QED BY <2>1, RequestRefines, ProcessRefines DEF Next
<1> QED BY InitRefines, <1>1, StepInvariant, PTL DEF Spec, FollowsLifecycle, Lifecycle!Spec
-----------------------------------------------------------------------------
(* No call is lost, although a disconnected process may die as well.        *)

\* While a process is busy with a message that the broker has taken back, the
\* call has a message in the queue: nobody else may take it meanwhile.
HandedBack == \A w \in Workers : Busy(w) /\ ~ own[w] => Queued(CallOf(w))

\* Every step keeps what was handed back in the queue.
LEMMA NextHandedBack ==
  ASSUME TypeInv, HandedBack, OneAtATime', [Next]_vars
  PROVE  HandedBack'
<1> SUFFICES ASSUME NEW v \in Workers, Busy(v)', ~ own'[v]
             PROVE  Queued(CallOf(v))'
  BY DEF HandedBack
<1>1. CASE UNCHANGED vars
  BY <1>1 DEF HandedBack, Busy, Queued, CallOf, vars
<1>2. ASSUME NEW d \in Calls, Request(d) \/ Publication(d) PROVE Queued(CallOf(v))'
  <2>1. UNCHANGED <<pc, job, own>>
    BY <1>2, RequestsKeepProcesses
  <2>2. Queued(CallOf(v)) /\ CallOf(v)' = CallOf(v) /\ CallOf(v) \in Calls
    BY <2>1, JobType DEF HandedBack, Busy, CallOf
  <2>3. CASE Publish(d)
    <3>1. 0 \in Retries
      BY RetriesAssumption DEF Retries
    <3>2. Send(d, 0)
      BY <2>3 DEF Publish
    <3>3. \A c \in Calls : Queued(c) => Queued(c)'
      BY <3>1, <3>2, SendQueues
    <3> QED BY <2>1, <2>2, <3>3 DEF Queued, CallOf
  <2>4. CASE queue' = queue
    BY <2>2, <2>4 DEF Queued
  <2> QED BY <1>2, <2>3, <2>4 DEF Request, Publication, Upload, SetVerified, PublishFails
<1>3. ASSUME NEW w \in Workers, Delivery(w) PROVE Queued(CallOf(v))'
  <2> PICK d \in Calls, r \in Retries : Deliver(w, d, r)
    BY <1>3 DEF Delivery
  <2>1. v # w /\ Busy(w)' /\ CallOf(w)' = d
    BY DEF Deliver, Busy, CallOf, TypeInv, TypeOK
  <2>2. Busy(v) /\ ~ own[v] /\ CallOf(v)' = CallOf(v) /\ CallOf(v) \in Calls
    BY <2>1, JobType DEF Deliver, Busy, CallOf, TypeInv, TypeOK
  <2>3. CallOf(v) # d
    BY <2>1, <2>2 DEF OneAtATime
  <2>4. queue'[CallOf(v)] = queue[CallOf(v)]
    BY <2>2, <2>3 DEF Deliver, TypeInv, TypeOK
  <2> QED BY <2>2, <2>4 DEF HandedBack, Queued
<1>4. ASSUME NEW w \in Workers, Process(w) PROVE Queued(CallOf(v))'
  <2>1. CASE v = w
    <3>1. Busy(w) /\ CallOf(w)' = CallOf(w) /\ queue' = queue
      BY <1>4, <2>1, ProcessTokens
    <3>2. own' = own
      BY <1>4, <2>1 DEF Process, Load, Start, Transcribe, InsertTranscript, Embed,
           MarkAnalyzing, Analyze, CommitScores, Finish, Raises, ReadFailed, MarkFailed,
           MarkFailedRaises, Retry, RetryFails, Ack, Release, Goto, Busy, TypeInv, TypeOK
    <3> QED BY <2>1, <3>1, <3>2 DEF HandedBack, Queued
  <2>2. CASE v # w
    <3>1. Busy(v) /\ ~ own[v] /\ CallOf(v)' = CallOf(v)
      BY <1>4, <2>2, OthersGoOn DEF Busy, CallOf
    <3>2. Queued(CallOf(v)) /\ CallOf(v) \in Calls
      BY <3>1, JobType DEF HandedBack, Busy
    <3>3. Queued(CallOf(v)) => \E r \in Retries : queue'[CallOf(v)][r] > 0
      <4>1. CASE queue' = queue
        BY <4>1 DEF Queued
      <4>2. CASE Retry(w) /\ queue' # queue
        <5>1. /\ CallOf(w) \in Calls /\ job[w].retries + 1 \in Retries
              /\ Send(CallOf(w), job[w].retries + 1)
          BY <4>2, JobType, RetriesAssumption DEF Retry, At, Retries
        <5> QED BY <3>2, <5>1, SendQueues DEF Queued
      <4> QED BY <1>4, <4>1, <4>2, OnlyRetrySends
    <3> QED BY <3>1, <3>2, <3>3 DEF Queued
  <2> QED BY <2>1, <2>2
<1>5. ASSUME NEW w \in Workers, Fault(w) PROVE Queued(CallOf(v))'
  <2>0. pc[w] # "idle"
    BY <1>5 DEF Fault, Crash, ConnectionLoss, At, TypeInv, JobOK
  <2>1. CallOf(w) \in Calls /\ job[w].retries \in Retries
    BY <2>0, JobType
  <2>2. queue' = queue \/ Send(CallOf(w), job[w].retries)
    BY <1>5 DEF Fault, Crash, ConnectionLoss, Requeue
  <2>3. ASSUME NEW c \in Calls, Queued(c) PROVE \E r \in Retries : queue'[c][r] > 0
    BY <2>1, <2>2, <2>3, SendQueues DEF Queued
  <2>4. CASE v = w
    <3>1. ConnectionLoss(w)
      BY <1>5, <2>4 DEF Fault, Crash, Release, Goto, Busy, TypeInv, TypeOK
    <3>2. Send(CallOf(w), job[w].retries) /\ CallOf(w)' = CallOf(w)
      BY <3>1 DEF ConnectionLoss, Requeue, CallOf
    <3>3. \E r \in Retries : queue'[CallOf(w)][r] > 0
      BY <2>1, <3>2, SendQueues DEF Queued
    <3> QED BY <2>4, <3>2, <3>3 DEF Queued
  <2>5. CASE v # w
    <3>1. Busy(v) /\ ~ own[v] /\ CallOf(v)' = CallOf(v)
      BY <1>5, <2>5, OthersGoOn DEF Busy, CallOf
    <3>2. Queued(CallOf(v)) /\ CallOf(v) \in Calls
      BY <3>1, JobType DEF HandedBack, Busy
    <3>3. \E r \in Retries : queue'[CallOf(v)][r] > 0
      BY <2>3, <3>2
    <3> QED BY <3>1, <3>3 DEF Queued
  <2> QED BY <2>4, <2>5
<1> QED BY <1>1, <1>2, <1>3, <1>4, <1>5 DEF Next

\* No step loses a call whose process has handed its message back.
LEMMA NextAllKept ==
  ASSUME {"publish", "database"} \cap Faults = {},
         TypeInv, Passages, HandedBack, AllKept, [Next]_vars
  PROVE  AllKept'
<1> SUFFICES ASSUME NEW c \in Calls PROVE Kept(c)'
  BY DEF AllKept
<1>1. CASE UNCHANGED vars
  BY <1>1 DEF AllKept, Kept, Queued, Attended, Responsible, CallOf, vars, callVars
<1>2. \A w \in Workers : Responsible(w) => own[w] \/ Queued(CallOf(w))
  BY DEF HandedBack, Responsible, Busy
<1> QED BY <1>1, <1>2, RequestsLoseNoCall, DeliveryLosesNoCall, ProcessLosesNoCall DEF Next

\* Crashes and disconnections together lose no call while it has one process at a
\* time, as long as publishing and the database work.
THEOREM SerialCallsAreKept ==
  ASSUME {"publish", "database"} \cap Faults = {}
  PROVE  Spec /\ []OneAtATime => []CallNotLost
<1>1. Init => HandedBack /\ AllKept
  BY DEF Init, HandedBack, Busy, AllKept, Kept, Active
<1>2. TypeInv /\ HandedBack /\ OneAtATime' /\ [Next]_vars => HandedBack'
  BY NextHandedBack
<1>3. TypeInv /\ Passages /\ HandedBack /\ AllKept /\ [Next]_vars => AllKept'
  BY NextAllKept
<1>4. PipelineInv => TypeInv /\ Passages
  BY DEF PipelineInv
<1> QED BY <1>1, <1>2, <1>3, <1>4, PipelineInvariant, KeptIsNotLost, PTL DEF Spec

\* One worker process is enough for all of this, whatever crashes or is delivered
\* twice, and so is single delivery for any number of them.
THEOREM SerialPipelineIsCorrect ==
  ASSUME SingleDelivery \/ (OneWorker /\ "database" \notin Faults)
  PROVE  Spec => /\ []TotalMatchesScores /\ []ErrorMeansFailed
                 /\ DoneIsFinal /\ ConfirmedIsKept /\ FollowsLifecycle
<1>1. /\ SingleDelivery \/ OneWorker
      /\ SingleDelivery \/ "database" \notin Faults
  OBVIOUS
<1>2. Spec => []OneAtATime
  BY <1>1, OneProcessPerCall
<1>3. Spec /\ []OneAtATime => []ErrorMeansFailed
  BY <1>1, ErrorsAreFailures
<1>4. Spec /\ []OneAtATime => DoneIsFinal
  BY <1>1, DoneCallsStayDone
<1>5. Spec /\ []OneAtATime => ConfirmedIsKept
  BY <1>1, ConfirmationsAreKept
<1>6. Spec /\ []OneAtATime => FollowsLifecycle
  BY <1>1, PipelineFollowsLifecycle
<1> QED BY <1>2, <1>3, <1>4, <1>5, <1>6, TotalsMatchScores, PTL

\* With one worker process no call is lost, crashes and disconnections together
\* included.
THEOREM OneWorkerKeepsCalls ==
  ASSUME OneWorker, {"publish", "database"} \cap Faults = {}
  PROVE  Spec => []CallNotLost
BY OneProcessPerCall, SerialCallsAreKept, PTL
=============================================================================
