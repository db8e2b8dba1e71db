--------------------------- MODULE CallLifecycle ---------------------------
(***************************************************************************)
(* What the pipeline promises about a call, without queue and workers: the *)
(* status follows the lifecycle, the analysis replaces rows and total in   *)
(* one step, and a done call only ever has its verdicts confirmed.         *)
(***************************************************************************)
EXTENDS Integers

CONSTANTS
  Calls,     \* the calls that may be uploaded
  Items,     \* the checklist items they are scored by
  Share(_),  \* the score of the set of items that passed
  NoTotal    \* the total of a call without a score

VARIABLES status, total, rows, verified, transcripts, error
vars == <<status, total, rows, verified, transcripts, error>>
scores == <<total, rows, verified>>

NoRows == [i \in Items |-> "none"]
PassedOf(v) == {i \in Items : v[i] = "pass"}

Init ==
  /\ status = [c \in Calls |-> "absent"]
  /\ error = {}
  /\ total = [c \in Calls |-> NoTotal]
  /\ rows = [c \in Calls |-> NoRows]
  /\ verified = [c \in Calls |-> {}]
  /\ transcripts = {}

Become(c, from, to) ==
  /\ status[c] \in from
  /\ status' = [status EXCEPT ![c] = to]

\* The call is created.
Create(c) ==
  /\ Become(c, {"absent"}, "queued")
  /\ UNCHANGED <<scores, transcripts, error>>

\* An attempt begins, the first one or one after a failure or a crash.
Begin(c) ==
  /\ Become(c, {"queued", "transcribing", "analyzing", "failed"}, "transcribing")
  /\ error' = error \ {c}
  /\ UNCHANGED <<scores, transcripts>>

\* The call gets its one transcript.
Transcribe(c) ==
  /\ status[c] = "transcribing"
  /\ c \notin transcripts
  /\ transcripts' = transcripts \cup {c}
  /\ UNCHANGED <<status, scores, error>>

Examine(c) ==
  /\ Become(c, {"transcribing"}, "analyzing")
  /\ c \in transcripts
  /\ UNCHANGED <<scores, transcripts, error>>

\* All verdicts of a call, and the total, are replaced together.
Score(c) ==
  /\ status[c] = "analyzing"
  /\ \E v \in [Items -> {"none", "fail", "pass"}] :
       /\ rows' = [rows EXCEPT ![c] = v]
       /\ total' = [total EXCEPT ![c] = Share(PassedOf(v))]
  /\ verified' = [verified EXCEPT ![c] = {}]
  /\ UNCHANGED <<status, transcripts, error>>

Complete(c) ==
  /\ Become(c, {"analyzing"}, "done")
  /\ total[c] # NoTotal
  /\ UNCHANGED <<scores, transcripts, error>>

\* An attempt fails.
Fail(c) ==
  /\ Become(c, {"queued", "transcribing", "analyzing"}, "failed")
  /\ error' = error \cup {c}
  /\ UNCHANGED <<scores, transcripts>>

\* A person confirms a verdict, or takes that back.
Confirm(c, i) ==
  /\ rows[c][i] # "none"
  /\ \/ verified' = [verified EXCEPT ![c] = @ \cup {i}]
     \/ verified' = [verified EXCEPT ![c] = @ \ {i}]
  /\ UNCHANGED <<status, total, rows, transcripts, error>>

Next ==
  \E c \in Calls :
    \/ Create(c) \/ Begin(c) \/ Transcribe(c) \/ Examine(c) \/ Score(c)
    \/ Complete(c) \/ Fail(c)
    \/ \E i \in Items : Confirm(c, i)

Spec == Init /\ [][Next]_vars
=============================================================================
