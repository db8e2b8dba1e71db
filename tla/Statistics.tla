----------------------------- MODULE Statistics -----------------------------
(***************************************************************************)
(* What people see of calls: reports, the statistics by operator, day and  *)
(* checklist item, and whom each of them shows what.  Uploads, analyses    *)
(* and confirmations change the calls between any two reads; people, roles *)
(* and teams stand still (they change in Access).                          *)
(***************************************************************************)
EXTENDS Scoring

CONSTANTS
  Calls,      \* the calls that may be uploaded
  MaxAnswer,  \* bound: the number of verdicts in an answer about each call
  Users,      \* the people
  NoUser,     \* no operator, no manager
  Role,       \* users.role
  Org,        \* users.organization_id
  NoOrg,      \* the organization of a call that is not uploaded
  Manager,    \* users.manager_id
  Uploaders,  \* bound: who uploads each call
  CreatedAt,  \* the hour (UTC) at which a call's upload begins
  Zone,       \* REPORT_TIMEZONE: hours ahead of UTC
  Since,      \* the hours from which queries ask for calls
  Until       \* the hours up to which they ask

ASSUME PeopleAssumption ==
  /\ NoUser \notin Users
  /\ Manager \in [Users -> Users \cup {NoUser}]
  /\ \A u \in Users : Org[u] # NoOrg
  \* Access!OrgBoundary
  /\ \A u \in Users : Manager[u] # NoUser => Org[Manager[u]] = Org[u]
ASSUME TimeAssumption == CreatedAt \in [Calls -> Nat] /\ Zone \in Nat

VARIABLES
  organization,  \* calls.organization_id
  operator,      \* calls.operator_id
  rows,          \* the verdict of each item's call_scores row, "none" without
  verified,      \* the items whose row has is_verified
  total,         \* calls.total_score, NoTotal when null
  done,          \* the calls with status DONE
  shown          \* the verdicts on the screen of somebody who may confirm them:
                 \* the rows of the last report, while they have the ids it shows

calls == <<organization, operator, rows, verified, total, done, shown>>

NoTotal == 0 - 1
FullScore == 10000  \* 100.00
Verdicts == {"none", "fail", "pass"}
NoRows == [i \in Items |-> "none"]
WHOLE_ORG == {"owner", "admin"}
MANAGE_PEOPLE == {"owner", "admin", "manager"}
VERIFY_SCORES == {"owner", "admin", "manager"}

Uploaded == {c \in Calls : organization[c] # NoOrg}
Given(c) == {i \in Items : rows[c][i] # "none"}
Passed(c) == {i \in Items : rows[c][i] = "pass"}

StatTypeOK ==
  /\ organization \in [Calls -> {Org[u] : u \in Users} \cup {NoOrg}]
  /\ operator \in [Calls -> Users \cup {NoUser}]
  /\ rows \in [Calls -> [Items -> Verdicts]]
  /\ verified \in [Calls -> SUBSET Items]
  /\ total \in [Calls -> 0..FullScore \cup {NoTotal}]
  /\ done \subseteq Uploaded
  /\ \A c \in Calls : verified[c] \subseteq Given(c)
  /\ shown \in [Calls -> [Items -> Verdicts]]

StatInit ==
  /\ organization = [c \in Calls |-> NoOrg]
  /\ operator = [c \in Calls |-> NoUser]
  /\ rows = [c \in Calls |-> NoRows]
  /\ verified = [c \in Calls |-> {}]
  /\ total = [c \in Calls |-> NoTotal]
  /\ done = {}
  /\ shown = [c \in Calls |-> NoRows]
-----------------------------------------------------------------------------
(* Scopes.                                                                 *)

InTeam(u, v) == u # NoUser /\ Manager[u] = v

\* visible_calls
Sees(v, c) ==
  /\ organization[c] = Org[v]
  /\ \/ Role[v] \in WHOLE_ORG
     \/ operator[c] = v
     \/ Role[v] = "manager" /\ InTeam(operator[c], v)

\* Bug: a manager does not see themselves among the operators.
TeamOnly(v) ==
  {u \in Users : Org[u] = Org[v] /\ (Role[v] \in WHOLE_ORG \/ InTeam(u, v))}

\* visible_operators
VisibleOperators(v) ==
  {u \in Users :
     /\ Org[u] = Org[v]
     /\ Role[v] \in WHOLE_ORG \/ u = v \/ (Role[v] = "manager" /\ InTeam(u, v))}

\* _resolve_operator: whose call an upload of u may be.
ResolvedOperators(u) ==
  IF Role[u] \notin MANAGE_PEOPLE THEN {u} ELSE VisibleOperators(u) \cup {NoUser}
-----------------------------------------------------------------------------
(* What changes calls, one action per transaction.                         *)

Upload(c, u) ==
  /\ c \notin Uploaded
  /\ u \in Uploaders[c]
  /\ organization' = [organization EXCEPT ![c] = Org[u]]
  /\ \E o \in ResolvedOperators(u) : operator' = [operator EXCEPT ![c] = o]
  /\ UNCHANGED <<rows, verified, total, done, shown>>

Answers(c) == UNION {[1..n -> Answered] : n \in 0..MaxAnswer[c]}

RowsOf(a) ==
  [i \in Items |->
     IF i \in Missing(a) THEN "none"
     ELSE IF \E n \in ScoresOf(a) : a[n].code = i /\ a[n].passed THEN "pass"
     ELSE "fail"]

\* Bug: the confirmations of the rows that are replaced stay.
AnalyseKeepsVerified(c, a) ==
  /\ c \in Uploaded
  /\ Stored(a)
  /\ rows' = [rows EXCEPT ![c] = RowsOf(a)]
  /\ total' = [total EXCEPT ![c] = WeightedScore(a)]
  /\ shown' = [shown EXCEPT ![c] = NoRows]
  /\ UNCHANGED <<organization, operator, verified, done>>

\* Bug: rows are updated in place, with the ids they had.
AnalyseInPlace(c, a) ==
  /\ c \in Uploaded
  /\ Stored(a)
  /\ rows' = [rows EXCEPT ![c] = RowsOf(a)]
  /\ verified' = [verified EXCEPT ![c] = {}]
  /\ total' = [total EXCEPT ![c] = WeightedScore(a)]
  /\ UNCHANGED <<organization, operator, done, shown>>

\* The commit of analyze_call, for the answer a; of any attempt, whatever the call's
\* status is by now.  The rows are deleted and inserted with ids of their own.
Analyse(c, a) ==
  /\ c \in Uploaded
  /\ Stored(a)
  /\ rows' = [rows EXCEPT ![c] = RowsOf(a)]
  /\ verified' = [verified EXCEPT ![c] = {}]
  /\ total' = [total EXCEPT ![c] = WeightedScore(a)]
  /\ shown' = [shown EXCEPT ![c] = NoRows]
  /\ UNCHANGED <<organization, operator, done>>

Finish(c) ==
  /\ c \in Uploaded \ done
  /\ total[c] # NoTotal
  /\ done' = done \cup {c}
  /\ UNCHANGED <<organization, operator, rows, verified, total, shown>>

\* An attempt that read the call before another one finished it (CallPipeline)
\* makes it TRANSCRIBING again, or FAILED.
Reopen(c) ==
  /\ c \in done
  /\ done' = done \ {c}
  /\ UNCHANGED <<organization, operator, rows, verified, total, shown>>

MayConfirm(v, c) == Role[v] \in VERIFY_SCORES /\ Sees(v, c)

\* get_report, by somebody who may confirm what it shows.
OpenReport(v, c) ==
  /\ MayConfirm(v, c)
  /\ shown' = [shown EXCEPT ![c] = rows[c]]
  /\ UNCHANGED <<organization, operator, rows, verified, total, done>>

\* CallScoreService.set_verified, of a row by the id on the screen.
SetVerified(v, c, i) ==
  /\ MayConfirm(v, c)
  /\ shown[c][i] # "none"
  /\ verified' = [verified EXCEPT ![c] = IF i \in @ THEN @ \ {i} ELSE @ \cup {i}]
  /\ UNCHANGED <<organization, operator, rows, total, done, shown>>
-----------------------------------------------------------------------------
(* StatsRepository: one statement each.                                    *)

\* StatsQuery with its check_range.
Queries ==
  {q \in [operator : Users \cup {NoUser}, from : Since, to : Until] :
     q.from <= q.to}

\* _call_conditions with the scope of the viewer.
CallConditions(v, q) ==
  {c \in Uploaded :
     /\ Sees(v, c)
     /\ q.operator # NoUser => operator[c] = q.operator
     /\ q.from <= CreatedAt[c] /\ CreatedAt[c] <= q.to}

\* CallReport.from_model
CallReport(c) ==
  [total_score |-> total[c],
   failed_required |-> \E i \in Given(c) \cap Required : i \notin Passed(c),
   verified_count |-> Cardinality(verified[c])]

\* failed_required_exists
FailedRequiredExists(c) == \E i \in Required : rows[c][i] = "fail"

\* Bug: joined with the failed rows instead of EXISTS.
CountFailedRows(S) ==
  Cardinality({x \in S \X Required : rows[x[1]][x[2]] = "fail"})

CountFailedRequired(S) == Cardinality({c \in S : FailedRequiredExists(c)})

Scored(S) == {c \in S : total[c] # NoTotal}
Sum(S) == MapThenSumSet(LAMBDA c : total[c], S)

\* func.round(func.avg(...), 2), half away from zero.
Average(S) ==
  (2 * Sum(Scored(S)) + Cardinality(Scored(S))) \div (2 * Cardinality(Scored(S)))

Totals(S) == {total[c] : c \in Scored(S)}

\* A row of the operator and daily statistics, for the calls of its group.
Metrics(S) ==
  [calls_total |-> Cardinality(S),
   calls_scored |-> Cardinality(Scored(S)),
   avg_score |-> IF Scored(S) = {} THEN NoTotal ELSE Average(S),
   min_score |-> IF Scored(S) = {} THEN NoTotal ELSE Min(Totals(S)),
   max_score |-> IF Scored(S) = {} THEN NoTotal ELSE Max(Totals(S)),
   failed_required |-> CountFailedRequired(S)]

\* The rows of a GROUP BY key: a function of the keys that occur.
GroupBy(key, S) ==
  [k \in {key[c] : c \in S} |-> Metrics({c \in S : key[c] = k})]

\* operators: an inner join, so calls without an operator are in no row.
OperatorStats(v, q) ==
  GroupBy(operator, {c \in CallConditions(v, q) : operator[c] \in VisibleOperators(v)})

LocalDay == [c \in Calls |-> (CreatedAt[c] + Zone) \div 24]

DailyStats(v, q) == GroupBy(LocalDay, CallConditions(v, q))

\* checklist: the items with rows, inactive or not.
ChecklistStats(v, q) ==
  LET S == CallConditions(v, q) IN
  [i \in UNION {Given(c) : c \in S} |->
     [scored |-> Cardinality({c \in S : i \in Given(c)}),
      passed |-> Cardinality({c \in S : i \in Passed(c)})]]
-----------------------------------------------------------------------------
\* A stored total depends only on which items passed: neither the order of the
\* verdicts nor unknown codes matter, and a missing verdict counts as failed.
ScoreIsShare ==
  \A c \in Calls : total[c] # NoTotal => total[c] = ScoreOf(Passed(c))

ColumnSum(stats, column) ==
  MapThenSumSet(LAMBDA k : stats[k][column], DOMAIN stats)

\* Whoever asks and for whatever period and operator, the days add up to the
\* operators and the calls that are nobody's: no call is counted twice, lost
\* by a join, or shown on one page and hidden on the other.
DaysAddUpToOperators ==
  \A v \in Users, q \in Queries :
    LET days == DailyStats(v, q)
        people == OperatorStats(v, q)
        rest == Metrics({c \in CallConditions(v, q) : operator[c] = NoUser})
    IN \A column \in {"calls_total", "calls_scored", "failed_required"} :
         ColumnSum(days, column) = ColumnSum(people, column) + rest[column]

\* The daily and the checklist page agree with the reports on failures: a call
\* counts once, however many required items it failed, and no failed verdict of
\* a required item goes uncounted.
FailuresAgree ==
  \A v \in Users, q \in Queries :
    LET items == ChecklistStats(v, q)
        failures(i) == items[i].scored - items[i].passed
        failed == ColumnSum(DailyStats(v, q), "failed_required")
        required == Required \cap DOMAIN items
    IN /\ failed = Cardinality({c \in CallConditions(v, q) : CallReport(c).failed_required})
       /\ failed <= MapThenSumSet(failures, required)
       /\ \A i \in required : failures(i) <= failed

\* What is confirmed is what the person who confirmed it had on the screen: however
\* analyses of the call and people overlap, a verdict nobody read is not confirmed.
ConfirmedAsSeen ==
  \A c \in Calls : \A i \in verified[c] : rows[c][i] = shown[c][i]
=============================================================================
