----------------------------- MODULE Retrieval ------------------------------
(***************************************************************************)
(* Similar calls: transcripts get an embedding of the configured model, and *)
(* another when an attempt finds one of another model; people search them  *)
(* within their scope, and an analysis takes the nearest confirmed calls   *)
(* as examples for its prompt.  Calls change between the search and the    *)
(* commit of the analysis; those changes are the ones of Statistics.       *)
(***************************************************************************)
EXTENDS Statistics

CONSTANTS
  Models,    \* the embedding models that are configured over time
  NoModel,   \* of a transcript without an embedding
  Distance,  \* the cosine distance of two transcripts of one model, by pair
  Limit      \* the number of examples, or of similar calls, asked for

ASSUME RetrievalAssumption ==
  /\ NoModel \notin Models
  /\ Distance \in [Calls \X Calls -> Nat]
  /\ Limit \in Nat \ {0}

VARIABLES
  model,      \* the embedding_model of each call's transcript
  analysing,  \* the calls whose analysis has found its examples
  found       \* the examples it found

search == <<model, analysing, found>>
vars == <<calls, search>>

Embedded == {c \in Calls : model[c] # NoModel}

TypeOK ==
  /\ StatTypeOK
  /\ model \in [Calls -> Models \cup {NoModel}]
  /\ Embedded \subseteq Uploaded
  /\ analysing \subseteq Embedded
  /\ found \in [Calls -> SUBSET Calls]
  /\ \A c \in Calls : Cardinality(found[c]) <= Limit

Init ==
  /\ StatInit
  /\ model = [c \in Calls |-> NoModel]
  /\ analysing = {}
  /\ found = [c \in Calls |-> {}]
-----------------------------------------------------------------------------
\* embed_transcript, of any attempt; an embedding of the configured model stays.
EmbedTranscript(c) ==
  /\ c \in Uploaded
  /\ \E m \in Models \ {model[c]} : model' = [model EXCEPT ![c] = m]
  /\ UNCHANGED <<calls, analysing, found>>

\* Bug: the call itself is not excluded.
ComparableWithItself(c) == {d \in Embedded : model[d] = model[c]}

\* The transcripts a distance to that of c can be computed for.
Comparable(c) == {d \in Embedded \ {c} : model[d] = model[c]}

\* ORDER BY distance LIMIT: what it may return of S, ties in any order.
Nearest(S, c) ==
  {T \in SUBSET S :
     /\ Cardinality(T) = Min({Limit, Cardinality(S)})
     /\ \A d \in T, e \in S \ T : Distance[c, d] <= Distance[c, e]}

\* find_similar_scored
Confirmed(c) ==
  {d \in Comparable(c) :
     d \in done /\ organization[d] = organization[c] /\ verified[d] # {}}

SimilarScored(c) == Nearest(Confirmed(c), c)

\* find_similar, for a viewer who asks for calls like c.
InScope(v, c) == {d \in Comparable(c) : Sees(v, d)}
Similar(v, c) == Nearest(InScope(v, c), c)

\* find_examples.  Attempts at one call follow each other here: CallPipeline has
\* those that overlap.
FindExamples(c) ==
  /\ c \in Embedded \ analysing
  /\ analysing' = analysing \cup {c}
  /\ \E T \in SimilarScored(c) : found' = [found EXCEPT ![c] = T]
  /\ UNCHANGED <<calls, model>>

\* The prompt is sent; the answer is committed, or the attempt fails.
UseExamples(c) ==
  /\ c \in analysing
  /\ analysing' = analysing \ {c}
  /\ found' = [found EXCEPT ![c] = {}]
  /\ UNCHANGED model
  /\ \/ \E a \in Answers(c) : Analyse(c, a)
     \/ UNCHANGED calls

\* Uploads, other attempts and people change calls meanwhile.
Meanwhile(c) ==
  /\ \/ \E u \in Users : Upload(c, u)
     \/ Finish(c) \/ Reopen(c)
     \/ \E v \in Users : OpenReport(v, c) \/ \E i \in Items : SetVerified(v, c, i)
  /\ UNCHANGED search

Next ==
  \E c \in Calls :
    EmbedTranscript(c) \/ FindExamples(c) \/ UseExamples(c) \/ Meanwhile(c)

Spec == Init /\ [][Next]_vars
-----------------------------------------------------------------------------
\* The examples of a prompt are other calls of the organization, that have a score;
\* and they stay so until the answer is committed, whatever other attempts and
\* people do to them meanwhile.
ExamplesAreOthers ==
  \A c \in analysing : \A d \in found[c] :
    d # c /\ organization[d] = organization[c] /\ total[d] # NoTotal
=============================================================================
