# Formal models of the agent observability platform

TLA+ models of `src/obs_platform`: what the platform stores when producers,
evaluations and regressions run at the same time, fail half way or repeat
themselves. TLC checks the models on small instances; TLAPS proves the central
results for every value of the constants. `PROJECT.json` lists the components,
runs, mutants, mapped source lines, findings, hazards and theorems. All source
paths below are relative to `src/src/obs_platform` unless they start with `docs/`.

## The system

The platform is a FastAPI service over Postgres. Every handler is an asyncio
coroutine with its own database session at READ COMMITTED; there is no shared
memory and the code takes no locks of its own. Everything that can go wrong
between actors goes wrong through rows, so the models are about committed rows
and about the steps between two commits.

| component | state | operations | hard part |
|---|---|---|---|
| telemetry contract (`telemetry/v1`) | none | validate an `ExtendedRunEvent` | which snapshots get in at all |
| ingestion (`ingestion/runs.py`, `POST /runs`) | `agent_runs`, `spans`, `tool_calls`, `llm_calls` | guard, upserts, usage refresh, one transaction | interleaved and repeated snapshots of one run, rollback, totals against rows |
| run API, reading (`routes/runs.py`) | none | `list_runs`, `get_run` | one answer from several statements |
| evaluation (`evaluation/service.py`, `persistence.py`) | `evaluation_results`, `judge_calls`, `run_failures` | run seven evaluators, store each result, classify | many commits per call, partial failure, concurrent calls |
| classifier (`evaluation/classifier.py`) | none | `classify` | precedence among outcomes |
| evaluators (`evaluation/evaluators.py`, `contracts.py`) | none | five rules over a run view | trajectory order, approval |
| judges (`evaluation/judges`) | none; a call log | `generate_structured`: up to three attempts | retries, every attempt accounted |
| regression runner and API (`regressions/`, `routes/regressions.py`) | `regression_runs`, linkage columns of `agent_runs` | create, run scenarios, HITL gate, link, evaluate | background task that may die, gate before resume, baseline uniqueness |
| aggregation and analytics (`regressions/aggregation.py`, `routes/analytics.py`) | none | aggregates over several queries | sums that must add up, torn reads |
| startup (`main.py`, `database.py`, `routes/health.py`) | engine | wait for the database | bounded retries |

Interactions: producers and the regression runner call ingestion; clients and
the runner call evaluation; evaluation reads what ingestion stores and the
regression id that linkage writes; the reading APIs join all of it.

What makes each part correct:

* ingestion: a snapshot is stored as a whole or not at all, children are never
  lost, repeating a snapshot changes nothing, totals are those of the rows, a
  stored run satisfies the contract its input satisfied, a decided run is not
  reopened, every call is answered;
* evaluation: a stored classification comes from one complete evaluation, judge
  spending is recorded, a bookkeeping error costs no result, the failure block
  agrees with the latest results, every call is answered;
* classifier and evaluators: more findings never make a run look better, and the
  verdict is about what the agent did: authorisation decides, the contract is
  kept, only a judge can fail a run without a reason anyone could count;
* judges: an answer is asked for again only to correct the last one, at most
  twice, and every attempt is logged;
* regressions: the gate holds before a resume, a counted repetition is linked and
  evaluated in its final state, failed means a gate violation, a regression ends;
* reports and analytics: a report that says completed is final, a poller sees
  progress only, breakdowns add up to their totals unless a write comes in
  between, and never lose a row if one does.

## Modules

| module | what it is |
|---|---|
| `Basics` | NULL and the sum of a function's values |
| `Telemetry` | the contract: snapshots as records, the pydantic validators as predicates |
| `RunTables` | rows built from a snapshot, upsert, usage totals, the INTEGER limit |
| `SnapshotStore` | the abstract specification: each accepted snapshot is merged in one step |
| `Ingestion` | `POST /runs` as concurrent transactions; properties; refinement of `SnapshotStore` |
| `RunTablesProofs`, `IngestionProofs` | proofs about `RunTables`, `Ingestion` and `IngestionHistory` |
| `IngestionHistory` | `Ingestion` with a history variable: which calls were overtaken after their guard |
| `RunView` | one run read in four SELECTs while snapshots arrive, beside `SnapshotStore` |
| `RunViewProofs` | proofs about `RunView` |
| `Snapshots` | example request bodies |
| `RegressionLifecycle` | the abstract specification of a `regression_runs` row |
| `Regression` | `POST /regressions` and its background runner; refinement of `RegressionLifecycle` |
| `RegressionReport` | `GET /regressions/{id}`, asked statement by statement while `Regression` runs |
| `RegressionProofs` | proofs about these two |
| `Analytics` | the five `GET /analytics` handlers and `GET /runs`, statement by statement beside their writers |
| `AnalyticsProofs` | proofs about `Analytics` |
| `MCRegression`, `MCRegressionReport`, `MCAnalytics` | instances of `Regression`, `RegressionReport`, `Analytics` |
| `MCIngestion`, `MCRunView` | instances of `Ingestion` and `RunView` |
| `Classifier` | `FailureClassifier.classify` over sets of outcomes |
| `Evaluation` | `POST /runs/{run_id}/evaluate` as a series of commits, with ingestion and linkage around it |
| `EvaluationHistory` | `Evaluation` with a history variable: which calls overlapped another of their run |
| `Evaluators` | the five deterministic evaluators as functions of the stored run |
| `JudgeClient` | `generate_structured`: attempts, prompts, call log |
| `Assessment` | one evaluation from the inside: registry loop, `Evaluators`, `JudgeClient`, `Classifier` |
| `CommonProofs` | proofs about `Classifier` and about counts and sums |
| `EvaluationProofs`, `AssessmentProofs` | proofs about `Evaluation` and `EvaluationHistory`, `Assessment` |
| `MCEvaluation`, `MCAssessment` | instances of `Evaluation` and `Assessment` |

How they build on each other: `Telemetry`, `Classifier` and `Regression` extend
`Basics`; `RunTables` extends `Telemetry`; `SnapshotStore`, `Ingestion` and
`RunView` extend `RunTables`; `Ingestion` implements `SnapshotStore`, which
`RunView` instantiates in its place. `Evaluation`, `Evaluators` and `Analytics`
extend `Classifier`; `Assessment` extends `Evaluators` and `JudgeClient`.
`RegressionReport` extends `Classifier` and `Regression`, which implements
`RegressionLifecycle`. Both refinements are `INSTANCE ... WITH`.

A definition named `X_Something` next to a definition `X` is `X` with a
plausible bug. The specifications never use it; `PROJECT.json` says which
property tells the two apart.

### Ingestion

State: the four committed tables (rows per run, children keyed by their id);
`row_lock`, the holder of each run's row lock; per request `pc` (the statement
it executes next, or its answer), `event` (its body) and `draft` (the writes of
its open transaction).

| action | code |
|---|---|
| `Post` | body validation and `create_run` |
| `GuardHITL` | `_reject_pending_after_terminal_hitl_state`: a plain SELECT, sees committed rows only |
| `UpsertAgentRun` | `_upsert_agent_run`: takes the row lock; the usage columns are not restated |
| `UpsertSpans`, `ResolveSpanParents` | `_upsert_spans` (no parents yet), `_resolve_span_parents` |
| `UpsertToolCalls`, `UpsertLLMCalls` | the two loops |
| `RefreshUsage`, `UsageOutOfRange` | `_refresh_run_usage_totals`, and its failure when a SUM does not fit the column |
| `Commit`, `Abort` | `session.begin()` left normally, or by any exception, cancellation or crash |

Abstractions. A loop over children is one step: its writes are invisible to
others and `Abort` can strike on either side of it. Columns nobody inspects are
left out; optional ones are present or absent. `spans.id` is 1-1 with
`(run_id, span_id)`, so references are span ids. Cost is a float summed like
tokens and left out. Children of a run are written only by transactions that
hold its row lock, so no lock on child rows is needed in the model; that this
is so is `OneWriterPerRun`.

The HITL guard is the one statement that reads without the lock. A pending
snapshot that passed it before a concurrent decision commits waits for the row
lock and then overwrites the decision. `IngestionHistory` records which calls
were overtaken like that, and `DecisionNeverReopened` says that no other call
ever reopens a decision.

### Reading a run

`evaluation_run_view` and `get_run` take the same four SELECTs (`ReadRun`,
`ReadSpans`, `ReadToolCalls`, `ReadLLMCalls`), each seeing what is committed by
then, and `Assemble` looks the spans of the children up among the spans read.
The rest of the system is `Ingest`, a step of `SnapshotStore`, which is sound
because `Ingestion` implements it. `overtaken` records whether a snapshot of the
run committed during the read; only the properties use it.

A read overtaken by a snapshot that brings a new span can find a call on that
span and raise `KeyError`, a 500 for the client and an exception out of
`run_evaluation`. `FailedReadIsTransient` shows that this is the only way to
fail and that the missing span is stored by then. No document promises an
atomic view, so this is an observation and not a finding; reading the spans
last would avoid it, because children are never removed.

### Evaluation

State: `agent_runs` reduced to existence and `regression_run_id`;
`evaluation_results` and `judge_calls` as sequences in insertion order;
`run_failures`; per call its step, run, settings, the regression id it read,
its outcomes, the judge calls still to persist and the errors it remembers.

| action | code |
|---|---|
| `IngestRun`, `LinkRun` | the rest of the system: a snapshot arrives, `persist_regression_linkage` |
| `Post`, `ReadView`, `ReadRegression` | `evaluate_run`, `evaluation_run_view`, the scalar SELECT |
| `EvaluateNext` | one turn of the loop: skip, run or catch, then `persist_evaluation_result` and its commit |
| `EvaluateConflicts` | the UNIQUE constraint refuses that insert; the exception leaves `run_evaluation` |
| `PersistJudgeCall`, `JudgeCallFails` | one entry of the call log, stored or failed (before or after its commit), with the rollback |
| `PersistRunFailure` | `classify` and the upsert of `run_failures` |
| `Respond`, `Abort` | the remembered error is raised or 200; anything else that ends a call |

What an evaluator may come to is the constant `Outcomes`: completed with a
label and findings or failed, and for judges the number of attempts. The four
SELECTs of the view are one step here (`RunView` takes them apart). Rows carry
the call that wrote them, for the properties only. `created_at` is taken just
before each insert, so the order of insertion stands for the order of
`(created_at, id)`.

### Regressions

State: `regression_runs`, the runs the regressions create (linkage, HITL state,
whether a work order was submitted), their evaluations and the classification
of each run; per creation its place in the request and then in the background
task (`pc`), its body, the scenario and repetition under way, the snapshot the
agent answered, `created_run_ids`, and `in_transaction`: whether the runner's
session has begun a transaction, which decides whether `session.begin` raises.
A regression is named by the call that creates it and a run by regression,
scenario and repetition, from which `_regression_run_event_id` builds its id.

| action | code |
|---|---|
| `CheckBaseline`, `CreateRegression`, `CreateConflicts`, `Accept` | `create_regression`: the check, the insert, its IntegrityError, the 202 |
| `MarkRunning`, `LoadContract`, `MarkCompleted` | `RegressionRunner.run` outside its `try` |
| `Dispatch`, `IngestEvent`, `Link`, `Evaluate` | `_run_one`, statement by statement; `...Raises` and `...Conflicts` are the ways they fail by themselves |
| `PassGate`, `RefuseGate`, `Resume` | `_assert_hitl_gate_held` and the second half of `_run_one_hitl`, which goes through `IngestEvent` and `Link` again |
| `Recover`, `FailRegression` | the two `except` clauses |
| `RequestFails`, `RepetitionFails`, `TaskDies` | faults: before or after a step's commit; cancellation and restarts |
| `EvaluateByClient` | `POST /runs/{run_id}/evaluate` for any run that is stored |

Ingestion and evaluation are one step each, as far as the runner depends on
them; a failing evaluation may leave a part of its rows. Whatever an evaluation
comes to is any of `Assessments`, whoever evaluates and whatever another
evaluation of that run came to before. `run_evaluation` reads the run's
regression once, before the judges are asked. A client's call that read it
after the linkage stores its results for the regression and takes the place the
UNIQUE constraint has for one evaluation (they stand under the run in
`evaluation_results`). One that read it before stores them for no regression,
where the constraint holds nothing up, even when it ends after the linkage or
after the runner's own evaluation; such a call stands under its client. Either
way it overwrites `run_failures`, of which a run has one row. Nobody but the
runner posts snapshots of a regression's runs in the model, so between the
gate's transaction and the resumption nothing changes the run, and
`GateHeldAtResume` is about a weak gate, a gate asked too early and what
linkage does to the row, not about that window. What the agent answers is a
constant: `AgentTarget` is abstract, and `_mock_target` is one instance. The
gate reads the run from the database: the session keeps only weak references,
and nobody holds the object that linkage loaded.

### Reading a regression

`RegressionReport` adds a client that asks for the report of one regression
over and over. `query` is the statement that comes next, `report` what the
earlier ones found.

| action | code |
|---|---|
| `ReadRecord` | `session.get` or 404; nothing reads the row again, so its status is that of the first statement |
| `ReadOverall` ... `ReadEvaluationMetrics` | the six SELECTs of `aggregate_regression_run` in its order |
| `ReadBaseline` | the baseline and the answer |

That the status is read first is what makes a report that says `completed`
final: the runner sets it after its last linkage, so the aggregates that follow
see everything. `CompletedReportIsFinal` holds for that reason and its mutant,
which reads the status last, breaks it. Faults do not change that: a repetition
that fails half way leaves the regression running, and what it left behind is
in the report. If it failed between its approved snapshot and the linkage, the
run stays under the scenario its agent names, or under none and out of
`by_scenario`; the property says so (`named`).

The aggregates join on `run_id` alone, so they count evaluations of linked runs
that were stored for no regression, and `run_failures` is whatever the last
evaluation made of it. `ReportsNeverGoBack` says what a poller can rely on all
the same: runs, evaluations, results per evaluator and judge calls are never
counted less than before, and neither are the classified runs as a whole. A
single bucket of the pass rate or a single failure category can lose a run to
another one, when a client's evaluation that had read the run before its
linkage is overwritten by the runner's, or the other way round. The property
admits that for exactly those runs (`ClassifiedUnlinked`) and for no other, and
in its run with clients it happens. `by_scenario` can go back while the
regression runs, too: an approved snapshot overwrites the scenario with what the
agent names, until linkage restores it. A partial evaluation is one that ended
after its first result.

### What an evaluation finds

`Evaluation` takes the outcomes of evaluators as given; `Assessment` computes
them. A *case* is what an agent did (its trace, in order), how it ended, and what
of that is reported; `View` is what is stored of it. The evaluators see the
view, the properties compare their verdict with the deed.

| action | code |
|---|---|
| `EvaluateDeterministic` | `active_evaluator.evaluate(run)`: one of the functions of `Evaluators` |
| `SkipJudge` | no credentials: `_judge_unavailable_result` |
| `CreateClientFails` | `judge_client_factory` raises, and is asked again for the second judge |
| `JudgeNotApplicable` | no final answer to judge |
| `AskJudge`, `ProviderAnswers` | `evaluate_async` and the attempts of `JudgeClient` |
| `JudgeReturns`, `JudgeRaises` | the result built from the answer, or `_evaluator_exception_result` |
| `ClassifyRun` | `classify` |

`JudgeClient` has one action per outcome of a round trip: `AttemptSucceeds`,
`AttemptRetried`, `AttemptExhausted`, `AttemptRaises`. A prompt is the set of
the answers it asks to correct; `requests` and `answers` are histories.
Findings are their codes, scores the two terms of their quotient.
`numbering` says whether spans and tool calls are numbered together, as the
evaluator's unknown-asset rule assumes, or each for itself, as the fixtures do.

### Analytics and the run list

`Analytics` keeps the rows the handlers aggregate, three writers of one step
each (`Ingest`, `LinkRun`, `EvaluateRun`; what they do in several steps is the
business of the other modules), and one reader at a time whose `Statements`
follow each other with writes in between. `overtaken` says whether one came
since the first of them; only the properties use it.

Failed runs without a category or severity are in no entry of `by_failure_type`
or `by_severity`. `UndisturbedAnswersAddUp` therefore says that these entries
and the runs without one (`FailedWithout`) sum to the failed runs. That the
entries alone do is what the Phase 5 document says, and
`FailureTypesSumToFailed` states it (finding 5).

| action | code |
|---|---|
| `GetOverview`, `GetTools`, `GetUsage`, `GetFailures`, `GetScenarios` | one SELECT of the handler of that name |
| `ListRuns` | the count and the page of `list_runs` |

Readers share no state, so one at a time is every reader.

## Runs

| run | shows |
|---|---|
| `ingestion` | three interleaved calls: types, totals, references, lifecycle, exclusion, no child lost, 200 means stored, replay changes nothing, a decision reopened only by an overtaken call, the implementation of `SnapshotStore`, every call answered |
| `evaluation` | two interleaved evaluations with faults between any two commits: what is stored, the failure block of calls that do not overlap, every call answered |
| `evaluation_race` | with overlapping calls the failure block need not be current (finding) |
| `assessment` | every trace of up to three steps against three contracts, and every sequence of judge answers: the verdict, authorisation, retries, unexplained failures, every assessment ends |
| `unknown_asset_stop` | the unknown-asset rule orders calls by numbers that do not order them (finding) |
| `run_view` | reads interleaved with snapshots: torn views, failing reads |
| `regression` | one regression under every fault beside a second baseline, with an unruly agent and meddling clients: gate, life cycle, the one baseline, meaning of `failed`, counted repetitions, every regression ends unless its process does |
| `regression_report` | a client polling a regression whose every step may fail, or whose runs another client evaluates, from a read before or after their linkage and perhaps with another result: completed reports are final, what is counted stays counted, only runs read too early change their bucket or category |
| `regression_baseline_race` | the loser of two baseline creations gets a 500 (finding) |
| `regression_repetitions` | every second repetition is lost (finding) |
| `analytics` | five handlers and the run list between writes: undisturbed answers add up, torn ones lose nothing |
| `analytics_uncategorised` | the entries of `by_failure_type` need not sum to the failed runs (finding) |

Bounds. Ingestion: three requests, two runs, two ids per table, `IntMax` 3. A
pair of snapshots suffices for every conflict (both write the same run, one
restates, adds or omits children of the other), the third request sees what
they leave; the second run shows that locks and rows of runs are separate. The
payloads are a pending snapshot, its approval with one more span and tool call,
a crash that restates less, a run without approval, and four bodies the
validators must refuse. `IntMax` is as low as it can be for the totals of two
snapshots to overflow together and not alone. Evaluation: two calls, one run,
one regression, two evaluators (a deterministic one and a judge); `RunView`:
two readers, two runs, the four valid snapshots in any order and number; every
class of outcome occurs: pass, fail with one or two categories, exception,
retried judge, and a judge skipped for want of credentials. Regressions: one
runner with two scenarios of two repetitions where everything may fail, which
makes every order of HITL and ordinary, of failed and successful repetitions
occur. Tasks share nothing but the baseline index, so all the second creation
does is ask for it, with a scenario no manifest lists (`RegressionProofs`
proves that the steps of a task leave the others alone). One client makes one
evaluation that read its run before linkage, and any number of others: one is
enough to come before, between or after the runner's steps. `RegressionReport`:
one regression of an approved and an ordinary scenario under every fault, an
agent that submits before the gate, and once approved names no scenario or that
of the other run, so that refused, lost, displaced and successful repetitions
are all among what is reported. A behaviour of its instance has faults and a
second creation or it has clients (`disturbance`), since together they make
more states than TLC visits in minutes; the proofs have both at once. An
evaluation of any run passes or fails, so that two of one run may disagree.
`Assessment`: traces of up to three steps over four tools and the unknown
asset, the shortest that can meet GS-08's contract and violate every clause of
it; six endings; the packaged contracts of GS-07, GS-08 and GS-DEBUG-TRAJ-01,
cut down to these tools, and no contract; judges answer anything at each of the
three attempts. `Analytics`: three runs, two of them started together, one out
of the narrow range; every endpoint, and four filters and pages of the run
list.

Deadlock is checked everywhere: only a server with every request answered may
stand still (`Idle`).

Fairness. `FairSpec` asks weak fairness of the steps of each request and, in
`Regression`, of each background task: asyncio keeps scheduling coroutines that
can run, Postgres hands a free row lock to its waiters, an evaluator or provider
call eventually returns or raises, and the agent answers or raises. Nothing is
assumed of clients (`Post`, `CheckBaseline`, `EvaluateByClient`), of other parts
of the system (`IngestRun`, `LinkRun`) or of faults (`Abort`). Weak fairness of
taking the row lock suffices in the model because the requests are finitely
many. `HFairSpec` asks the same with the history variables, and `FairSpec` of
`Assessment` of the one evaluation: the provider's client answers or times out.
A task that dies with a restart never ends its regression, so `RegressionEnds`
says that every other one ends; without faults none dies.

## Findings

1. `evaluation_race`. Two evaluations of one run can insert results in one
   order and upsert `run_failures` in the other. Both callers are answered, and
   `failure` contradicts `evaluation_summary` until somebody evaluates again,
   against "always-current" in `docs/phase-5-implementation-details.md:326`.
2. `regression_repetitions`. `persist_run_failure` commits and then reads its
   row back, so `run_evaluation` returns with a transaction open in the session
   it was given. For a request that is harmless: the session ends with it. The
   runner goes on to the next repetition with the same session, where
   `ingest_run_event` calls `session.begin()`, which raises. The repetition is
   noted as an error, the rollback clears the session, and the one after it
   succeeds again: of 40 runs, 20 are created, in a regression that ends
   `completed`. The tests do not see it because they replace the evaluation
   (`tests/test_regression_runner.py:450`) or roll back before ingesting (`:209`).
3. `regression_baseline_race`. The check for a baseline and the insert are
   apart, so the second of two concurrent creations gets the 500 that
   `docs/phase-7-implementation-details.md:294` rules out. The index holds:
   there is one baseline at most (`regression`).
4. `unknown_asset_stop`. The policy evaluator compares the sequence of a tool
   call with that of the `unknown_asset` span. Each event numbers its spans and
   its tool calls for itself (in `telemetry/v1/fixtures/hitl_approved.json`
   spans 1 to 3 contain tool calls 1 to 7), so calls made before are flagged
   and calls made after missed. With one numbering for both the rule is right:
   `VerdictMatchesDeed` says so.
5. `analytics_uncategorised`. A judge's output schema does not tie `passed` to
   its list of claims (`evaluation/judges/groundedness.py:70`), so a run can be
   `fail` without a category; `UnexplainedFailureIsAJudges` shows that nothing
   else can. `get_failures` leaves such a run out of `by_failure_type`
   (`routes/analytics.py:313`), whose counts then do not "sum to the total
   `FAIL`-status run count" (`docs/phase-5-implementation-details.md:283`).

Observations without a run of their own.

* The HITL guard's SELECT takes no lock (above). The Phase 2 document expects
  one request at a time (`docs/phase-2-implementation-details.md:194`).
* Breakdowns of one answer come from several statements. They add up unless a
  write commits in between (`docs/phase-5-implementation-details.md:272` says
  that they sum back); torn, the shares of failures can exceed one.
* A client's evaluation that read a run of a regression before its linkage and
  the runner's own can both be stored, and disagree: the run is classified by
  whichever ended last, is counted twice by evaluator and its judge calls are
  summed over both (`regressions/aggregation.py:90`, `evaluation/service.py:58`).
* Contracts are loaded outside the runner's `try` (`regressions/runner.py:129`),
  and the API takes any scenario id: an unknown one kills the background task
  and the row says `running` for ever, where
  `docs/phase-7-implementation-details.md:125` has `failed` for what "genuinely
  aborts the orchestrator itself". The model's `LoadContract` does so, too, and
  `RegressionEnds` excepts it. A restart has the same effect.
* Runs are listed by `started_at` alone, so two that started together may swap
  places between two pages.
* An answer without the forced tool call is logged with no tokens although the
  provider counted them (`evaluation/judges/client.py:66`, `:132`): the judge
  spend of `judge_calls` is a lower bound.
* An approved run that crashes after its submission must report `not_required`
  and is classified as an unauthorised action (`AuthorisationIsDecisive`).
* If the judge client cannot be created, judges that had nothing to judge count
  as failed, and the run is `incomplete` (`VerdictMatchesDeed`).

## Proofs

TLAPS proves every safety property and every refinement the passing runs check,
for any values of the constants that satisfy the named assumptions: any number
of requests, calls, readers, tasks, runs, scenarios and ids (finite where rows
are counted), any payloads within the contract, any behaviour of evaluators,
judges and agents. Each theorem stands beside the run that checks the same
property on a small instance.

| module | theorems |
|---|---|
| `RunTablesProofs` | lemmas only: value builders and upserts keep the types, only add, count right |
| `IngestionProofs` | `TypeCorrect`, `UsageCorrect`, `SingleWriter`, `LifecycleCorrect`, `ReferencesCorrect`, `NoChildIsLost`, `AnsweredIsStored`, `ReplayIsIdle`, `DecisionsStand` (of `IngestionHistory`), `Refinement` to `SnapshotStore` |
| `RunViewProofs` | `TypeCorrect`, `FailureIsTransient`, `TotalsCovered`, `UndisturbedIsStored` |
| `CommonProofs` | `ClassifyMonotone`, `ClassifyCoherent`; lemmas: which outcomes decide a classification, sums over finite sets |
| `EvaluationProofs` | `TypeCorrect`, `RegressionOnce`, `FailureTraceable`, `JudgeErrorIsHarmless`, `SpendRecorded`, `NothingMasked`, `FailureCurrent` (of `EvaluationHistory`) |
| `AssessmentProofs` | `TypeCorrect`, `RetriesCorrect`, `OnlyJudgesFailUnexplained`, `AuthorisationDecides`, `VerdictIsDeed` |
| `RegressionProofs` | `TypeCorrect`, `GateStands`, `FailureIsTheGates`, `RefinesLifecycle` to `RegressionLifecycle`, `CountedIsEvaluated`; of `RegressionReport`: `ReportsGrow`, `CompletedIsFinal`, `ReportsRefineLifecycle` |
| `AnalyticsProofs` | `TablesAreTyped`, `AnswersAddUp`, `AnswersLoseNothing` |

The properties are not inductive: each is about an end that was prepared many
steps earlier, while others were at work. So each model has an invariant that
says what holds on the way, TLC has checked it on the model's instance, and the
theorems follow from it.

* **Ingestion**, `IInv`. A commit publishes a draft built many steps before. The
  request is valid (`RequestInv`); whoever executes a locked statement holds its
  run's lock, and nobody else does (`LockInv`); the draft holds exactly what the
  statements executed so far put there (`DraftInv`). Totals computed by
  `RefreshUsage` are still those of the rows at `Commit`, because `LockInv` lets
  no other request commit to this run in between. A commit is then one step of
  `SnapshotStore!Apply` and everything else a stutter (`CommitIsApply`); the
  theorems about stored rows and about answers and replays follow from the same
  facts (`CommitFacts`). For `DecisionsStand`, `GuardInv` adds to it: a request
  that has passed the guard of a pending snapshot finds its run undecided, or
  is in `overtaken`.
* **RunView**, `IInv`. What a reader has read resolves in the spans stored by
  now, though not in the ones it read (`ResolveInv`); as long as nobody overtook
  it, it agrees with the tables (`FreshInv`); the totals it read are at most the
  rows there were (`CoverInv`).
* **Classifier.** `Classify` looks at sets only. Severities and priorities are
  injective rankings, so the decisive finding of a larger set ranks at least as
  high, from which monotonicity follows and that one critical policy violation
  decides. `ClassifyCoherent`: a severity comes with a category, and a category
  with a failure.
* **Evaluation**, `IInv`. A row of a call is the outcome at its place in the
  registry and the other way round, in the order of the registry (`ResultsInv`),
  an attempt has one row of its call log, stored or still to come or counted as
  error (`SpendInv`), a stored failure has a call whose outcomes are complete
  (`FailureInv`). For `FailureCurrent`, `OverlapInv` orders the results of calls
  that do not overlap, and `WriterInv` says who wrote the failure last.
* **Assessment**, `IInv`. Every outcome so far is one that the case allows at its
  place in the registry (`LoopInv`), and a prompt corrects the answer just
  given (`JudgeInv`). What remains is about the evaluators as functions of a
  trace: `View` numbers what the agent did in order, the first call of a tool is
  the minimum of a set, and each clause of a contract is decided by the same
  events in the view as in the deed.
* **Regression**, `IInv`: `TypeOK`, what the row of a regression says at each
  place of its task (`StatusInv`), and that the run under way is linked and as
  the gate saw it (`GateInv`). Steps of one task leave the others alone
  (`StepsAreLocal`). `CountedIsEvaluated` needs more (`DInv`): which runs the
  task has behind it. It has a hypothesis, `ApprovalIsFinal`, about the agent,
  which is not part of the repository: what it reports after an approval is not
  pending. With another agent the counted run could be left waiting.
* **RegressionReport**, `RInv`. Linked runs stay linked, evaluations stay, a
  classified run has one, for its regression or for none (`ClassifiedInv`), and
  a run is under its own scenario unless its approved snapshot waits for
  linkage or the repetition failed meanwhile (`TablesInv`). The counts of a
  report are at most those of now (`ProgressInv`): per bucket and category, at
  most those runs that are in it or were classified unlinked (`CountedAmong`),
  a set that no step makes smaller (`PerhapsStays`). A report that has read
  `completed` has read of a task that takes no more steps, so what it reads
  next is all there will be (`FinalInv`). That buckets and scenarios add up to
  the runs is `SumOfCounts`: cardinalities of disjoint sets sum to that of
  their union.
* **Analytics**, `IInv`. The rows are typed, a classification belongs to a stored
  run and is coherent (`TablesInv`). As long as no write came in between, every
  statement answered so far would return the same now (`FreshInv`), so
  `AnswersAddUp` is about the operators alone: grouping by a column splits the
  rows into disjoint sets, hence counts add up to the count of the whole
  (`GroupsAddUp`) and sums of tokens to the sum of the whole (`GroupSumsAddUp`,
  which rests on `SumOfSums`); failed runs are those with an entry and those
  without (`FailuresAgree`); that no share of a failure exceeds one needs
  `Coherent`. For torn answers the invariant says what survives a write
  (`CoverInv`): what an earlier statement has totalled is covered by the rows
  there are until the next one has broken them down, because a write only adds
  to the runs in a range, their calls and their classifications (`OnlyAdds`,
  `WriteAdds`).

Facts about all finite sets (a sum is a number, grows with its set, adds up
over disjoint sets) are inductions, and the induction theorems of the library
take an operator no installed prover can instantiate. They are proved by
minimal counterexample: a subset of smallest cardinality for which the claim
fails is not empty, and taking out the element the fold takes gives a smaller
one. The same serves for sequences by index.

Assumptions are the named `ASSUME`s of the modules, which TLC evaluates on each
instance: NULL is no id, row, label, rate or name (`NoneIsNo...`,
`NoneAssumption`), sets whose rows are counted are finite
(`FiniteIdsAssumption`, `FiniteRunsAssumption`), payloads belong to the
contract's type, `IntMax` and bounds are natural numbers, the registry, the
outcomes and the manifest have their shape. What `Analytics` assumes of the
classifications that may arrive (`ClassificationsAssumption`) is what
`ClassifyType` and `ClassifyCoherent` prove of `Classify`; that the snapshots of
a run agree on when it started (`StartedAtAssumption`) is left to the producer,
as in the code, which stores what it is sent. No theorem assumes the absence of
faults.

Model-checked only. Liveness (`EveryRequestAnswered`, `EveryCallAnswered`,
`AssessmentEnds`, `RegressionEnds`) and ENABLED are out of the prover's reach.
What recursive or folded definitions compute is proved as far as the minimal
counterexamples above reach, which is all the theorems need.

## What is open

Every component with state or concurrency of its own is modelled, and every
safety property and refinement is proved. No property covers an approved run
that reports a crash and then, in a delayed snapshot, is pending again
(`ingestion/runs.py:84`): `docs/phase-2-implementation-details.md:232` defines
the guard by the state stored last, as the code does, and says nothing of what
was stored before it.

## Not modelled

Text and payload contents, timestamps other than as order, floats, latency,
cost, filters of the run list shaped like those modelled, indexes and
migrations, logging: none of them takes part in the properties above.

Components: startup (`main.py`, `database.py`) is one bounded loop of one
process before it serves, and the health answer reads no state; settings
(`config.py`) appear as constants; `list_regressions` is one SELECT; the judge
calibration compares stored answers with labels offline; fixtures, scripts,
notebooks and tests are evidence of what is intended.
