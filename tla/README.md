# Formal models of call insight

TLA+ models of the call-analysis service in `src/app`, checked with TLC on small
instances and, for the statements listed under *Proofs*, proved with TLAPS for all
values of the constants. Every definition names the lines it stands for in
`PROJECT.json` ("map").

## 1. The system and its parts

| Part | State it keeps | Operations | Interacts with |
|---|---|---|---|
| Upload (`services/call.py`, `api/calls.py`) | audio files, `calls` rows | `create_from_audio` | publishes `process_call` after its commit |
| Pipeline (`workers/tasks.py`, `services/analysis.py`, `services/embedding.py`) | `calls.status/error/total_score`, `transcripts`, `call_scores`, the queue in RabbitMQ, the view of each task's session | `process_call` with six commits, `_mark_failed`, retry; broker delivery and redelivery | database, broker, model and embedder |
| Confirmation (`services/score.py`) | `call_scores.is_verified` | `set_verified` | rows the pipeline replaces |
| Scoring (`services/analysis.py`, `schemas/output/report.py`) | none, a function of the model's answer | stored rows, `_weighted_score`, report | rows and total the pipeline stores |
| Organizations, people, API keys (`services/people.py`, `services/api_key.py`, `api/deps.py`, `repositories/scope.py`) | `users`, `api_keys` | register, invite, update, create and revoke a key | every request acts with the user it loaded when it authenticated |
| Accounts and links (`services/auth.py`, `services/invitation.py`) | `users` (password, verification), `email_verifications` | register, resend, invite, verify, accept | mailer, after the commit |
| Registration and slugs (`services/auth.py`, `core/slug.py`, `repositories/organization.py`) | `organizations.slug`, `users.email`, open transactions and the unique rows they lock | `register`, `taken_slugs`, `unique_slug` | mailer, after the commit |
| Mail (`integrations/mail/client.py`, `workers/tasks.py`) | the queue of `send_email`, its retries | `QueuedMailer` with its inline fallback, the task | broker, SMTP server |
| Rate limit (`core/rate_limit.py`) | counters with expiry in Redis | the Lua script, `hit` | all routers |
| Statistics and reports (`repositories/stats.py`, `schemas/output/report.py`, `repositories/scope.py`) | none | operators, days, checklist items, the report of a call, within the viewer's scope | read calls and rows the pipeline and people change |
| Call list (`repositories/call.py`, `core/sorting.py`) | none; the client keeps its offset | pages of the sorted list | read calls uploads add |
| Retrieval (`repositories/transcript.py`, `services/embedding.py`) | `transcripts.embedding` | embed, similar calls, examples for the prompt | examples are read by the pipeline, changed by people |
| Model and embedding clients, schemas, settings, demo data, migrations, frontend | none that the parts above do not keep | I/O and rendering | see *Not modelled* |

Services own the transaction; between two `await`s any other request or worker may
commit. What makes the parts hard:

* **Pipeline.** Delivery is at least once (`acks_late`, `reject_on_worker_lost`), the
  worker runs with Celery's default concurrency (`docker-compose.yml:87`), each task
  commits six times, and a session never reloads what it has loaded
  (`expire_on_commit=False`, `core/db.py:10`). Crash, redelivery, retry, failure of the
  failure handler and a person's confirmation can come between any two commits.
* **Upload.** Commit and publication are two steps, and the process may die between them; two
  uploads may carry one `external_id`.
* **Access.** A request is served with the role its user had when it authenticated.
* **Registration.** Two requests choose the same slug or register one address; inserts
  wait for each other's open transactions and fail when those commit.
* **Mail.** It is queued after the commit, sent inline if queueing raises, retried when
  sending raises, and sent again when a process dies: at least once, and each of these
  may have worked although it failed.
* **Reads.** A page of a list is two statements and the next page another request, while
  calls are inserted anywhere in it; the examples of a prompt are found in one statement and
  read in another; one number appears on several pages, by different queries, days and zones.
* **Accounts.** A link is looked up in one step and marked used in another; resending
  invalidates links others are just following.
* **Rate limit.** The time is taken by the API process, the counting is done in Redis;
  hits arrive late; keys expire.

What makes each part correct is stated by the properties in section 4.

## 2. Modules and how they correspond to the code

| Module | Models | Extends or composes |
|---|---|---|
| `CallPipeline` | upload, publication, broker, worker processes, `process_call`, `_mark_failed`, retry, `set_verified` | instantiates `CallLifecycle` |
| `CallLifecycle` | the abstract promise: status lifecycle of `ARCHITECTURE.md:43`, rows and total replaced together, a done call is only confirmed | |
| `Scoring` | stored rows, missing items and total as functions of the model's answer (operators only) | |
| `Statistics` | scopes, reports and the three statistics; what uploads, analyses and confirmations do to the calls they read | extends `Scoring` |
| `Retrieval` | embeddings of changing models, similar calls, the examples of an analysis until its commit | extends `Statistics` |
| `CallUpload` | `create_from_audio` of overlapping requests of several organizations, each of which may fail at any step | |
| `Listing` | a client that turns the pages of the call list while uploads go on | extends `CallUpload` |
| `Slugs` | `unique_slug`, `taken_slugs` (operators only) | |
| `Mail` | `QueuedMailer`, the `send_email` task, broker, server and process faults | |
| `Registration` | `POST /auth/register` with its row locks and its mail | extends `Slugs` and `Mail` |
| `Access` | organizations, roles, teams, keys, requests with stale roles | |
| `Accounts` | users' passwords and verification, links, handlers between read and commit | |
| `RateLimit` | the Lua script, key expiry, time, late hits | |
| `MC*` | instances for TLC: symmetry and functions a `.cfg` cannot write; for the pipeline the weights whose scores `Scoring` computes | |
| `*Proofs` | theorems about the module they extend | `CallPipelineSerialProofs` extends `CallPipelineProofs`; `CallUploadProofs` is about `CallUpload` and `Listing`, `RetrievalProofs` about `Scoring`, `Statistics` and `Retrieval` |

**CallPipeline.** One action per transaction or external effect: `Upload`/`Publish`
(`create_from_audio`), `Deliver`, then `Load`, `Start`, `Transcribe`,
`InsertTranscript`, `Embed`, `MarkAnalyzing`, `Analyze`, `CommitScores`, `Finish`, `Ack`;
`Raises`, `ReadFailed` and `MarkFailed` (the read and the commit of `_mark_failed`, in a session
of its own), `MarkFailedRaises`, `Retry`, `RetryFails` for the exception paths; `Raises` also
covers an embedder that fails on a transcript an earlier attempt left behind; `Crash` and `ConnectionLoss` for the broker's redelivery. `session[w]` is what the
task's SQLAlchemy session believes of the call. `Flush` is the ORM rule that matters: a
column is only updated if the new value differs from the *believed* one, whatever the
database holds by now. `doomed` are the rows marked by the DELETE of `analyze_call`, which
other sessions still see until the commit.

**Scoring.** An answer is a sequence of verdicts over known and invented codes, with
repetitions, which the unique index refuses (`Stored`). Weights are integers in hundredths
(`Numeric(5, 2)`) and `Percent` is `quantize(0.01, ROUND_HALF_UP)` on integers.

**Statistics.** The actions are the transactions that change what the pages read: `Upload`
(with `ResolvedOperators`), `Analyse` (the commit of `analyze_call` for any answer, of any
attempt, also at a call that is done), `Finish`, `Reopen` (an attempt that passed the done check
before makes the call transcribing again, or failed), `SetVerified`. A person confirms a row by the
id a report has shown: `shown` is what is on a screen whose ids still exist, so `Analyse`, which
gives its rows new ids, empties it. The queries are operators on the state, each in
the shape of its statement: `GroupBy` is a function of the keys that occur, `OperatorStats`
joins (calls of nobody drop out), `DailyStats` shifts by the zone before it cuts days,
`FailedRequiredExists` is the `EXISTS` of `stats.py`. People stand still here; they change in
`Access`. A run of the pipeline is reduced to its commits here: what comes between them is
`CallPipeline`.

**Retrieval.** `Nearest` returns every set `ORDER BY distance LIMIT n` may return. `model` is the
`embedding_model` of each transcript: `EmbedTranscript` embeds one for the first time, or anew when
another model is configured. An analysis keeps in `found` what it found while `Meanwhile` changes
calls, until its answer is committed (`UseExamples`). Attempts at one call follow each other here,
in any number; attempts that overlap are in `CallPipeline`, where their rows can mix.

**CallUpload.** One step per `await` of `create_from_audio`; a request stands for the call
and the audio file it may create. `org` is the organization of its user, which neither the lookup
nor the unique index looks at; `before` is what was committed when the request began. `Fail` is a
failure of storage, database, broker or process at any step, with what the step was about to do
done or not.

**Listing.** `created_at` is the time the upload's transaction began (`Begin`), `id` the order
of insertion (`Numbered`), so a call can appear behind calls that are newer. `Pages` are the
windows the sort order allows; if the order is not total, several. The client stops when
`has_more` says so. Rows are only added: the program deletes no call.

**Slugs, Registration.** A slug is a root followed by numbers, so that prefixes and numbers
mean what they mean in the code; `slugify` is which base a name has, and `Cut` what
`root[: max_length - len(tail)]` makes of a root for each number. `Insert` is a flushed INSERT: it waits while an
open transaction holds the same unique value and is refused once one is committed
(`slug_taken`, `email_taken`). An address
that is known gets another link or nothing. `Abort` is a failing database or a process that
dies: before the commit everything is rolled back, after it only the mail is lost.

**Mail.** `queue[r][n]` counts the messages of request `r` with `n` retries. Each fault
(`smtp`, `broker`, `crash`) leaves open whether the thing was done all the same, and is
counted by the mail it hit.

**Access.** A request is a record of a user and the role it had. `Wait` keeps it in
`waiting` while others commit; `Served` lets it act either from there or at once. The
operations themselves are single steps: the columns they write are exactly those the
request gives, `organization_id` never changes, and nothing they read besides the actor
is written back. `MC` bounds one waiting request at a time.

**Accounts.** `handler[h]` holds what a request has read and is about to commit. A link
names a page (`/verify` or `/invite`), which posts the token to its endpoint; either endpoint
takes any pending token, so `Posts` says which page's links clients post to which endpoint: any
to any, or those of the pages. `follows` counts the requests a link has worked for, `replaced`
the links a resend has put another in place of, and `over` whether a handler's link was either
when the handler read it. Mail is a set: a
link in it may be followed at any later time or never, which covers the queue, its
retries and lost mail.

**RateLimit.** Windows are named by their age, so the state is finite though time is not.
Estimates are compared in hits times `Window`, exactly; Lua computes them in floating
point. Clocks are one clock: a hit carries a time up to `MaxDelay` ago, below one window.

Idealizations shared by all: a transaction is atomic and READ COMMITTED; a lock wait is
left out where it only orders two commits that are also reached in that order. Definitions
marked `Bug:` are variants that only serve to show that a property notices them.

## 3. Bounds and fairness

| Run | Instance | Why it is enough |
|---|---|---|
| `PipelineSerial` | 1 call, 1 process, 2 items, 2 retries, 4 faults (crash or disconnection) | faults on the first delivery, on the redelivered message and on both retries; weights 1 and 2 tell all four sets of passed items apart |
| `PipelineParallel` | 2 calls, 2 processes, 1 retry, database and publishing may fail at any step | both calls in progress together, each failing and retried |
| `PipelineRedelivery`, `PipelineOutage` | the smallest instance with a disconnection, resp. a database fault | shortest counterexamples |
| `Statistics` | 2 calls (20 and 23 o'clock UTC, zone 2 hours ahead), one uploaded by the operator, the other by the manager or by the owner of another organization; 2 required items of weights 1 and 2, one invented code, answers of up to 2 verdicts about one call and up to 1 about the other; 2 embedding models, limit 1 | the two calls are of one UTC day and two local days; calls of oneself, of one's operator, of nobody and of others; all orders, omissions and inventions of two items, on a call that is analysed again with less; with a limit of 1 the call itself, at distance 0, is found before any other |
| `UploadRace` | 3 requests of which 1 has uploaded before, 2 organizations, 1 external id or none, one of the new requests may fail anywhere; pages of 1 call | a race for an id and its loser, within one organization and across two, an answer with the other's call, calls inserted before, at and after the page being read, ties of `created_at` |
| `UploadConflict` | the requests of one organization, 1 external id, no failures | shortest counterexample |
| `Registration` | 2 requests of 1 or 2 addresses; names that are taken, each other with a number, empty, or with room for the number 2 but not for 3; 1 worker process, 1 retry, 2 faults | both orders of every two steps of two registrations; queueing and sending both fail, an attempt and its retry both fail |
| `AccessTeams` | 3 users, 2 organizations, 1 waiting request | actor, target and manager, or an outsider; a request overtaken by any number of others |
| `AccountLinks` | 2 addresses, 3 links, 1 password, 2 handlers, any link posted to either endpoint | two links of one account and one of another; two requests on one link, or on a link and its replacement; an invited account has no password, so one is enough to see it change |
| `AccountInvitation` | 1 address, 2 links, 1 handler, links posted by their pages | shortest counterexample |
| `RateLimitWindows` | limit 3, window of 4 ticks, delay up to 2 | hits late across a window boundary, weights other than 0 and 1 |

`MaxRetries` is 3 in the code for `process_call` and 5 for `send_email`, 1 or 2 in the runs:
one more retry repeats the same steps. Numbers of slugs go up to 999 in the code and to 3 in
the run, as far as two registrations of a name that is taken get; the theorems hold for any. The zone of the reports is a
constant offset, so days of 23 or 25 hours are not met. `MaxFaults`, `MaxAnswer`, `Uploaders`,
`MaxWaiting`, `Links` and `Handlers` are bounds of the model only.
Deadlock checking is off where the system may really be finished (every call settled,
every request answered, every user created).

Fairness. `CallPipeline!Fairness`: weak fairness of publication, of the delivery to each
process and of the steps of each process; the event loop, the broker and the operating
system give that, and nobody is obliged to upload or confirm and no fault has to occur.
`CallUpload`, `Listing`: weak fairness of each handler once its request has arrived.
`Registration`: the same, and worker processes take messages and go on; no fault and no
recovery is fair, and a handler that waits for a lock is only obliged to go on when it is
released, which is what its liveness property is about. `RateLimit`: time
goes on, and the client *tries again* in every tick, which is the premise of its property
and not a guarantee of the code.

## 4. What the runs check

*PipelineSerial*: a process that crashes and is disconnected anywhere loses no call
(`CallNotLost`), and every uploaded call settles for good as done or failed (`Settles`,
liveness); total and rows agree (`TotalMatchesScores`), done stays done (`DoneIsFinal`),
confirmations of a done call are kept (`ConfirmedIsKept`), and every step is a step of
`CallLifecycle` or stutters (`FollowsLifecycle`, a refinement with the identity mapping).

*PipelineParallel*: two processes work while the database and publishing fail. Without
redelivery no two of them share a call (`OneAtATime`), and an error is shown exactly while
the call is failed (`ErrorMeansFailed`).

*Statistics*: a stored total depends only on which items passed (`ScoreIsShare`); for every
viewer, period and operator the days add up to the operators and the calls of nobody
(`DaysAddUpToOperators`), and the days, the checklist items and the reports agree on failures
(`FailuresAgree`), so that no call is counted twice, dropped by a join or shown on one page
and hidden on another. However analyses and people overlap, a verdict is confirmed only as
somebody saw it (`ConfirmedAsSeen`): replaced rows have new ids. The examples of a prompt are other
calls of the organization with a score, and stay so until the answer is committed, whatever is
analysed again, reopened or embedded anew meanwhile (`ExamplesAreOthers`).

*UploadRace*: an upload that repeats the external id of a call of its organization is answered with
no other call, and if it began after that call was committed it stores nothing and is not refused
(`RepeatsAreIdempotent`; for the loser of two that overlap see `UploadConflict`); an answer means a
call that is or will be published unless its own upload failed after the commit
(`AnsweredMeansPublished`), and everything is published and answered in the end
(`CallsGetPublished`, liveness). Of the list, no call is skipped (`NothingSkipped`) and each
repetition is due to a call that was added meanwhile (`RepeatsComeFromUploads`).

*Registration*: slugs and addresses are unique (in `RegTypeOK`), a registration is refused for its
slug only if another took it meanwhile or the slug was cut for its number
(`SlugRefusalsExplained`), a mail arrives at most once more for
each fault (`DuplicatesNeedFaults`), and all requests are answered and owners mailed as far as
the faults allow (`OwnersAreMailed`, liveness): transactions that wait for each other's rows
cannot block, since all insert the organization before the owner.

*AccessTeams*: links of a team stay inside an organization (`OrgBoundary`), a key works
exactly until it is revoked (`KeysMatchUsers`), one owner (`OneOwner`), and nobody is changed
from outside or by themselves (`TenantIsolation`), with roles that are stale when used.

*AccountLinks*: mailed links lead to accounts (`NoDeadLinks`), an unverified account always
has an unused link (`LinkRemains`), no request that reads a link after another succeeded with it,
or after a resend replaced it, succeeds with it (`NoLateUse`), only a mailed link verifies
(`VerifiedByLink`), and only success with a mailed link changes a password (`PasswordNeedsLink`).

*RateLimitWindows*: no window admits more than the limit (`WindowLimit`), no counter is
forgotten while it weighs (`NothingForgotten`), refused attempts do not prolong the wait
(`AdmittedAgain`, liveness).

### Where code and documents disagree

* `PipelineRedelivery`: a message redelivered while its first delivery still runs turns a
  done call back into transcribing or failed; `ARCHITECTURE.md:62` says a done call is
  skipped on redelivery. The check is one read before three commits (`tasks.py:77`).
* `PipelineOutage`: when the database is what failed, `_mark_failed` raises before
  `self.retry` is reached: no error, no retry, and the call stays active
  (`ARCHITECTURE.md:45`).
* `UploadConflict`: of two uploads with one external id that overlap, the second to be inserted
  is answered 409 (`base_repository.py:68`), its audio file left behind; `ARCHITECTURE.md:49` says
  that uploads with the same `external_id` return the existing call. The test
  (`test_upload_is_idempotent_by_external_id`) uploads one after the other.
* `AccountInvitation`: asking for the link again (or registering) with an invited address
  sends a verification link; following it leaves a verified account without a password and
  without a way to get one (`ARCHITECTURE.md:93` and `:140`).

Observed while modelling, without a run of their own:

* A required item the model left out is failed in the outcome of the analysis
  (`tests/test_analysis.py:134`, `ARCHITECTURE.md:58`), which is only logged; report
  (`schemas/output/report.py:85`) and statistics (`repositories/stats.py:58-67`, `:123-132`) look
  for its row and show no failure.
* Of two overlapping registrations of one address the second is answered 409 (`email_taken` in
  `Registration`), unlike every other registration of a known address
  (`ARCHITECTURE.md:96`, `test_registering_a_taken_email_reveals_nothing`).
* External ids are unique across organizations (`models/calls.py:36`), and the lookup has no scope
  (`services/call.py:34`): an upload that uses an id of another organization is answered with that
  organization's call, or refused; `ARCHITECTURE.md:69-84` scopes everything else. No property of
  `CallUpload` asks for either; `Repeats` is about one organization.
* Two requests that overlap both succeed with one "one-time" link (`ARCHITECTURE.md:92`, `:94`);
  `NoLateUse` says exactly what is left of it.
* A verification link is also accepted by `POST /auth/accept-invite`, which sets a password.

Further: a call committed while the broker is down is never published, also not by repeating the
upload; an owner can be deactivated or demoted; a client that waits exactly `Retry-After` is
refused again while the previous window has full weight; a manager's upload without
`operator_id` is invisible to the manager; under duplicate delivery the total may be that of
rows that are gone; a name of nearly 64 characters is cut for its number, its candidates are not
found by `LIKE 'base%'`, and the third organization of the name is refused for good; after a
switch of the embedder the older calls are never compared again; a list sorted by a key the
pipeline changes can skip calls.

## 5. Proofs

All theorems hold for every value of the constants under the named assumptions of the
modules. Each follows the pattern: an inductive invariant, one lemma per group of actions,
and a temporal step from `Spec`. `NoCallLost` and `DoneMeansAnalysed` are stated only in
`CallPipeline` and proved; no run repeats them.

* `CallPipelineProofs`: `TypeCorrect`, `CallsAreKept` (`NoCallLost`), `DoneCallsAreAnalysed`
  (`DoneMeansAnalysed`), for any calls, processes, items, retries and kinds of fault.
  For `NoCallLost` the invariant keeps more than it says: a call in progress has somebody
  attending to it, an upload, a message or a process that is `Responsible`: not one at `record`
  that knows the call as failed, since it may write nothing.
  Inductive invariant `PipelineInv`: types; `Passages` (what a process at a step has seen
  committed: from `mark` on there is a transcript, at `finish` a total); `Owned` (a process
  on its way still holds its message, unless it was disconnected); and the two properties.
  `Passages` is what makes it inductive: `Finish` writes DONE from a session that is long
  out of date, and transcript and total are there only because nothing ever takes them back
  (`NothingIsTakenBack`).
* `CallPipelineSerialProofs`: `OneProcessPerCall` holds for two reasons, which are two
  theorems in one. Without redelivery (`SingleDelivery`: no crash, no disconnection) by
  counting tokens: upload, message or busy process, a call has at most one (`SingleInv`); with
  one process (`OneWorker`) because there is no second. All else follows from `[]OneAtATime`,
  whichever reason it holds for. `TotalsMatchScores` uses `UpToDate`: the session's view of
  the total is right and the marked rows are all rows. `DoneCallsStayDone`,
  `ErrorsAreFailures`, `ConfirmationsAreKept` and `PipelineFollowsLifecycle` (the refinement
  `FollowsLifecycle`: every step of the pipeline is a step of `CallLifecycle` or leaves its
  variables alone) use `StepInv`, which joins the rows' `ScoreInv` with `Knows`: what a process
  at each step believes of its call's status and error is what the database holds. The refinement
  needs it because guards of the abstract steps speak of the database and those of the code
  of the session. They ask for single delivery or a database that works: `PipelineOutage` shows
  what a failing `_mark_failed` leaves behind, and a redelivery would find it.
  `SerialCallsAreKept` (`CallNotLost`) lets processes crash and lose their connection in any
  order and number, if publishing and the database work. `HandedBack` makes it inductive: a
  process that lost its connection is busy with a message that waits in the queue again, and
  nobody takes that message before the process is through. `OneWorkerKeepsCalls` and
  `SerialPipelineIsCorrect` put these together: their conditions are on the constants only, and
  cover the instances of `PipelineSerial` and `PipelineParallel`. With two processes and
  redelivery the statements are false (`PipelineRedelivery`).
* `CallUploadProofs`: `TypeCorrect`, `RepeatedUploads` (`RepeatsAreIdempotent`) and
  `AnswersArePublished`, for any requests, organizations, ids and failures. `UploadInv`: calls have
  distinct ids, an answer is a stored call with the id asked for, the step a request is at says
  whether its call is stored and published, and a request that got past the lookup began when no
  call had its id (`StoredByNeed`). Of `Listing`, `ListTypeCorrect`, `PagesSkipNothing`, `UploadsPayForRepeats`, and
  `ListedUploadsAreSafe`, the upload's two properties in the composition; for any finite set of
  requests, any page size and either order. A call's place is its `Rank`, the number of calls
  before it. Rows are only added, so ranks only grow, each by at most one for an upload; and a
  page is the calls whose ranks are in its window, whatever the ties (`created_at` alone would not
  do, `id` makes the order total). `ShownInv`: a call that was there when the client began is
  seen or ranks behind the `Frontier`; and the repetitions so far (`Again`) together with those
  to come if nothing is added (`Returning`, seen calls whose rank has moved behind the frontier)
  are at most the calls `added`.
* `RetrievalProofs`, for any people, calls, finite checklist, weights, answers, zones and
  distances: `RetrievalTypeCorrect` (`TypeOK`; a total is between 0 and 100.00), `ScoresAreShares`
  (`ScoreIsShare`), `DaysAreOperators` (`DaysAddUpToOperators`), `PagesAgreeOnFailures`
  (`FailuresAgree`), `ConfirmationsWereSeen` (`ConfirmedAsSeen`), `ExamplesStayOthers`
  (`ExamplesAreOthers`). The sums of the model are folds of the community modules, which
  define a recursive function by CHOOSE. Two things make them tractable. A sum of numbers over a finite
  set is the cardinality of the *area* below them (`SumOf`), and areas can be split, joined and
  compared with the theorems on finite sets. And that a fold is such a sum (`FoldIsSum`) is an
  induction over the subsets of a finite set, done with a *set* of good subsets as its parameter
  (`SubsetInduction`, from the well-foundedness of the strict subset order), which needs no
  operator as an argument. So `GroupByAddsUp` holds for any key: no group is counted twice and
  none is left out; `OperatorsAreVisible` is what the join of the statistics relies on: an
  operator of a call in scope is in scope, since uploads resolve operators of their organization
  and teams are inside one (`OperatorsBelong` in `CallsInv`, `PeopleAssumption`, which is proved
  of `Access` as `TeamsStayInside`). `ScreensAreLive` carries `ConfirmedAsSeen`: what is on a
  screen is the current rows or nothing. `DoneAreScored` and `SearchInv` carry `ExamplesAreOthers`:
  a done call has a total, and no step takes a total away, not even one that reopens the call.
* `RegistrationProofs`: `RegistrationsAreUnique` (`RegTypeOK`) and `SlugRefusalsAreExplained`, for
  any forms, existing slugs, cuts, numbers, processes and faults. `UniqueSlugIsFree` says that the
  chosen slug was free among all slugs, not only those read, if it begins with the base; the chosen
  number is one of those there are (`MinIsMember`, by well-foundedness). `RegInv` adds that what open transactions inserted differs
  from each other and from what is committed (`InsertedRows`), and that a request past its
  reads differs from all that was committed before it began (`ReadsBefore`).
  `DuplicatesAreFaults` (`DuplicatesNeedFaults`) counts, for each mail, what can still arrive
  once more: messages in the queue (`QueuedMail`), processes that are about to send or
  retry (`Senders`) and the handler (`Open`). `Accounted`: these and the mails delivered are at most one
  more than the faults, since every step that makes one of something takes one of another or
  is a fault. `NoMailIsForgotten` is the safety half of `OwnersAreMailed`: the mail of a
  committed registration is pending, has arrived, or was given up for the reasons that property
  allows. `AttemptsCounted` makes it inductive: an attempt with n retries has seen n failures.
* `AccessProofs`: `TypeCorrect`, `TeamsStayInside`, `KeysWorkUntilRevoked`, `OwnerIsUnique`,
  `ChangesComeFromColleagues`. `AccessInv` adds `Links`: a user that does not exist is nobody's
  manager and in no organization, so that creating one disturbs nothing, and a request of a
  key waits with no role but admin.
* `AccountsProofs`: `TypeCorrect`, `MailedLinksLive`, `LinksRemain`, `OnlyLinksVerify`,
  `PasswordsNeedLinks` from `AccountsInv`, which adds `Working` (what a handler has read is still
  true enough when it commits: accounts stay, a link keeps its address) and `Owned` (only
  issued links are used); `LinksAreNotUsedLate` from `LateInv`, which adds `OverIsUsed`: a link that
  has worked or was replaced is used, so that `get_pending` finds it no more.
* `RateLimitProofs`: `TypeCorrect`, `LimitHolds`, `NoneForgotten`. `RateInv` adds `Counted`:
  the counters of the two newest windows are what was admitted, and their keys outlive the
  end of the following window.

Every safety invariant and action property of the passing runs is stated by a theorem. Only
model-checked is liveness (`Settles`, `CallsGetPublished`, `OwnersAreMailed`, `AdmittedAgain`),
which is out of the prover's reach, and what the runs show to be violated. The theorems are
about the models with their idealizations; assumptions beyond typing are that requests of the
list and items of the checklist are finitely many, that a weight fits `Numeric(5, 2)`, that a
late hit is less than a window late, and that teams are inside one organization where people
stand still.

## 6. Not modelled

* The filters of the call list, its other sort keys and the list of people: they are built as
  the list by `created_at` is. Keys the pipeline changes while the client turns pages are
  listed as a hazard.
* The free-text search, which is the query for similar calls with a vector that is no call's;
  the tokenizer and the distance themselves.
* `slugify` character by character. Names that leave no room for a number are in the run of
  `Registration`, and their refusals, which repeating does not help, are one of the two that
  `SlugRefusalsExplained` allows.
* A commit of the pipeline whose answer is lost. The outcome of an analysis, which is only logged.
  Login and profile, which change no state. `super_admin` and
  the demo account, which no operation creates. How a request picks its rate-limit rule, and
  the response headers.
* Model and embedding clients: the pipeline takes any answer and any failure of them.
* Settings, logging, schemas' bounds, demo data, migrations.
* The frontend: rendering, and its session (a 401 that answers an old token, the profile
  request of `auth-provider.tsx`, answers of the call list out of order, "next" pressed while
  a page loads).

## 7. What could come next

1. `FrontendSession`: the token in `lib/api.ts`, late answers, and the profile request.
2. `Visibility`: scopes over the state of `Access`, with roles that change between two reads of
   one page, against the table in `ARCHITECTURE.md:74`.
3. `Listing` with keys that change, to say how much a client may miss.
4. What still holds of the pipeline when a redelivery overlaps its first delivery: which of
   the two decides the status, and that the call settles once both are through.
5. `Access` composed with `Statistics`, so that `PeopleAssumption` is discharged in one
   specification and not by a theorem next to an assumption.
