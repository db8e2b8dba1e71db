-------------------------------- MODULE Mail --------------------------------
(***************************************************************************)
(* Mail of requests: QueuedMailer hands the message to the broker, or sends *)
(* it inline when that raises; the send_email task sends it, retries with   *)
(* the next count and acks its message at the end.  An SMTP server or a     *)
(* broker may have taken what the caller sees fail.                         *)
(***************************************************************************)
EXTENDS Naturals, FiniteSetsExt

CONSTANTS
  Requests,    \* the requests that mail, one message each
  NoRequest,   \* what an idle worker process sends
  Workers,     \* the processes of the Celery workers
  MaxRetries,  \* max_retries of send_email, 5
  MailFaults,  \* the kinds of fault that may happen
  MaxFaults    \* bound: how many happen

ASSUME MailAssumption ==
  /\ NoRequest \notin Requests
  /\ MaxRetries \in Nat
  /\ MailFaults \subseteq {"smtp", "broker", "crash"}
  /\ MaxFaults \in Nat

VARIABLES
  queue,      \* the queued messages of each request and retry count
  sending,    \* what each process sends: a request, its retries, its step
  delivered,  \* how often the mail of a request reached the SMTP server
  faults      \* how often each fault hit the mail of a request

mailVars == <<queue, sending, delivered, faults>>

Retries == 0..MaxRetries
Idle == [request |-> NoRequest, retries |-> 0, step |-> "idle"]

MailTypeOK ==
  /\ queue \in [Requests -> [Retries -> Nat]]
  /\ sending \in [Workers -> [request : Requests, retries : Retries,
                              step : {"send", "retry", "ack"}] \cup {Idle}]
  /\ delivered \in [Requests -> Nat]
  /\ faults \in [Requests -> [{"smtp", "broker", "crash"} -> Nat]]

MailInit ==
  /\ queue = [r \in Requests |-> [n \in Retries |-> 0]]
  /\ sending = [w \in Workers |-> Idle]
  /\ delivered = [r \in Requests |-> 0]
  /\ faults = [r \in Requests |-> [k \in {"smtp", "broker", "crash"} |-> 0]]
-----------------------------------------------------------------------------
FaultsOf(r) == faults[r]["smtp"] + faults[r]["broker"] + faults[r]["crash"]

Fault(r, kind) ==
  /\ kind \in MailFaults
  /\ MapThenSumSet(FaultsOf, Requests) < MaxFaults
  /\ faults' = [faults EXCEPT ![r][kind] = @ + 1]

Put(r, n) == queue' = [queue EXCEPT ![r][n] = @ + 1]
Deliver(r) == delivered' = [delivered EXCEPT ![r] = @ + 1]

\* send_email.delay is through.
Enqueued(r) == Put(r, 0) /\ UNCHANGED <<sending, delivered, faults>>

\* It raises, and the broker may have the message all the same.
NotEnqueued(r) ==
  /\ Fault(r, "broker")
  /\ Put(r, 0) \/ UNCHANGED queue
  /\ UNCHANGED <<sending, delivered>>

\* A transport delivers the mail ...
Sent(r) == Deliver(r) /\ UNCHANGED faults

\* ... or raises: it was refused, or it was taken and the answer was lost.
NotSent(r) == Fault(r, "smtp") /\ (Deliver(r) \/ UNCHANGED delivered)
-----------------------------------------------------------------------------
(* send_email in process w.                                                *)

Step(w, step) == sending[w].step = step
Goto(w, step) == sending' = [sending EXCEPT ![w].step = step]

Take(w, r, n) ==
  /\ sending[w] = Idle
  /\ queue[r][n] > 0
  /\ queue' = [queue EXCEPT ![r][n] = @ - 1]
  /\ sending' = [sending EXCEPT ![w] = [request |-> r, retries |-> n, step |-> "send"]]
  /\ UNCHANGED <<delivered, faults>>

Send(w) ==
  /\ Step(w, "send")
  /\ \/ Goto(w, "ack") /\ Sent(sending[w].request)
     \/ Goto(w, "retry") /\ NotSent(sending[w].request)
  /\ UNCHANGED queue

\* Bug: no limit to the retries.
RetryForever(w) ==
  /\ Step(w, "retry")
  /\ queue' = [queue EXCEPT ![sending[w].request] =
       [n \in Retries \cup {sending[w].retries + 1} |->
          IF n = sending[w].retries + 1 THEN 1 ELSE @[n]]]
  /\ Goto(w, "ack")
  /\ UNCHANGED <<delivered, faults>>

\* self.retry: publishes the next attempt or gives up; publishing may raise,
\* and then the message is rejected, not requeued.
Retry(w) ==
  LET r == sending[w].request IN
  /\ Step(w, "retry")
  /\ Goto(w, "ack")
  /\ \/ /\ sending[w].retries < MaxRetries
        /\ Put(r, sending[w].retries + 1)
        /\ UNCHANGED faults
     \/ /\ sending[w].retries < MaxRetries
        /\ Fault(r, "broker")
        /\ UNCHANGED queue
     \/ /\ sending[w].retries = MaxRetries
        /\ UNCHANGED <<queue, faults>>
  /\ UNCHANGED delivered

Ack(w) ==
  /\ Step(w, "ack")
  /\ sending' = [sending EXCEPT ![w] = Idle]
  /\ UNCHANGED <<queue, delivered, faults>>

\* The process dies before it acked (reject_on_worker_lost): the message is
\* delivered again.
CrashMailing(w) ==
  /\ sending[w] # Idle
  /\ Fault(sending[w].request, "crash")
  /\ Put(sending[w].request, sending[w].retries)
  /\ sending' = [sending EXCEPT ![w] = Idle]
  /\ UNCHANGED delivered

Work(w) == Send(w) \/ Retry(w) \/ Ack(w)
TakeAny(w) == \E r \in Requests, n \in Retries : Take(w, r, n)

MailNext == \E w \in Workers : TakeAny(w) \/ Work(w) \/ CrashMailing(w)
=============================================================================
