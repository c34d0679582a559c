--------------------------- MODULE RegressionReport ---------------------------
(***************************************************************************)
(* GET /regressions/{regression_run_id}, asked again and again while the   *)
(* runner works: the row of the regression, six aggregates over its runs   *)
(* and the baseline it is compared with, each a statement of its own that  *)
(* sees what is committed by then.  Nothing is stored in between: a report *)
(* of a running regression is how its progress is watched.                 *)
(*                                                                         *)
(* Regression is the rest of the system, its faults and its clients        *)
(* included.  Averages are reduced to what they are taken over.  X_... is  *)
(* X with a bug in it.                                                     *)
(***************************************************************************)
EXTENDS Regression, Classifier

CONSTANTS
    Polled,        \* the regression that is asked for
    Evaluators     \* those whose results are stored, in that order

\* What a complete evaluation stores: the classification, per evaluator
\* passed, skipped or neither, and its judge calls.
Assessment ==
    [overall_status : OverallEvaluationStatus, primary_category : FailureType \cup {None},
     results : [ToSet(Evaluators) -> {"passed", "skipped", "failed"}],
     judge_calls : Nat]

ASSUME PolledAssumption == Polled \in Creates
ASSUME AssessmentsAssumption ==
    Evaluators # << >> /\ Assessments \subseteq Assessment

\* What is asked for can be counted, and NULL is none of it.
ASSUME FiniteRunsAssumption == IsFiniteSet(RunIds) /\ IsFiniteSet(Clients)
ASSUME NoneIsNoName == None \notin Creates \cup Scenarios
ASSUME NoneIsNoRate == None \notin Nat \X Nat

VARIABLES
    query,     \* the statement of the handler that comes next
    report     \* what it has read so far; with "record" next, the last answer

rvars == <<vars, query, report>>

NoReport ==
    [status |-> None, overall |-> None, by_scenario |-> None,
     by_evaluator |-> None, failure_distribution |-> None, agent |-> None,
     evaluation |-> None, baseline |-> None]

-----------------------------------------------------------------------------
(* The tables, as the aggregates see them.                                 *)

Linked(g) ==
    {r \in RunIds : agent_runs[r] # None /\ agent_runs[r].regression_run_id = g}

Classified(r) == run_failures[r] # None

\* The evaluations of those runs, whatever regression they were stored for.
Evaluations(g) ==
    {x \in DOMAIN evaluation_results :
        evaluation_results[x] # None /\ evaluation_results[x].run_id \in Linked(g)}

\* The evaluators with a stored result.  The partial evaluation taken here is
\* the one that ended after its first result.
Evaluated(x) ==
    IF evaluation_results[x].complete THEN ToSet(Evaluators) ELSE {Head(Evaluators)}

ResultOf(x, e) == evaluation_results[x].assessment.results[e]

Count(runs, Test(_)) == Cardinality({r \in runs : Test(r)})

\* A rate as its two terms, None when there is nothing to divide by.
Rate(part, whole) == IF whole = 0 THEN None ELSE <<part, whole>>

\* Runs without a classification weigh in the rate and are in no bucket.
PassRateSummary(runs) ==
    LET counts == [s \in OverallEvaluationStatus |->
            Count(runs, LAMBDA r : Classified(r) /\ run_failures[r].overall_status = s)]
    IN [counts |-> counts, pass_rate |-> Rate(counts["pass"], Cardinality(runs))]

ScenarioPassRates(g) ==
    LET Of(s) == {r \in Linked(g) : agent_runs[r].scenario_id = s}
    IN [s \in {agent_runs[r].scenario_id : r \in Linked(g)} \ {None} |->
            PassRateSummary(Of(s))]

EvaluatorPassRates(g) ==
    LET With(e, results) ==
            Count(Evaluations(g), LAMBDA x :
                e \in Evaluated(x) /\ ResultOf(x, e) \in results)
        Summary(e) ==
            LET total == With(e, {"passed", "skipped", "failed"})
            IN [total_count |-> total, skipped_count |-> With(e, {"skipped"}),
                passed_count |-> With(e, {"passed"}),
                pass_rate |-> Rate(With(e, {"passed"}), total - With(e, {"skipped"}))]
    IN [e \in UNION {Evaluated(x) : x \in Evaluations(g)} |-> Summary(e)]

FailureDistribution(g) ==
    LET failures == {r \in Linked(g) : Classified(r)}
    IN [c \in {run_failures[r].primary_category : r \in failures} \ {None} |->
            Count(failures, LAMBDA r : run_failures[r].primary_category = c)]

\* How many runs the latency, token and cost averages are over.
AgentMetrics(g) == Cardinality(Linked(g))

\* How many judge calls are summed up.
EvaluationMetrics(g) ==
    SumOf([x \in {y \in Evaluations(g) : evaluation_results[y].complete} |->
              evaluation_results[x].assessment.judge_calls])

-----------------------------------------------------------------------------
(* The handler.                                                            *)

RInit ==
    /\ Init
    /\ query = "record"
    /\ report = NoReport

\* session.get, and 404 for None.  What it finds is not read again.
ReadRecord ==
    /\ query = "record"
    /\ IF regression_runs[Polled] = None
       THEN report' = NoReport /\ UNCHANGED query
       ELSE /\ report' = [NoReport EXCEPT !.status = regression_runs[Polled].status]
            /\ query' = "overall"

Read(this, found, next) ==
    /\ query = this
    /\ report' = [report EXCEPT ![this] = found]
    /\ query' = next

ReadOverall == Read("overall", PassRateSummary(Linked(Polled)), "by_scenario")
ReadByScenario == Read("by_scenario", ScenarioPassRates(Polled), "by_evaluator")
ReadByEvaluator ==
    Read("by_evaluator", EvaluatorPassRates(Polled), "failure_distribution")
ReadFailureDistribution ==
    Read("failure_distribution", FailureDistribution(Polled), "agent")
ReadAgentMetrics == Read("agent", AgentMetrics(Polled), "evaluation")
ReadEvaluationMetrics == Read("evaluation", EvaluationMetrics(Polled), "baseline")

Baselines ==
    {g \in Creates : regression_runs[g] # None /\ regression_runs[g].selection.is_baseline}

\* A baseline is not compared with itself.
Comparison ==
    IF Baselines \ {Polled} = {} THEN None ELSE CHOOSE g \in Baselines : TRUE

ReadBaseline_RefreshesRecord ==
    /\ query = "baseline"
    /\ report' = [report EXCEPT !.baseline = Comparison,
                                !.status = regression_runs[Polled].status]
    /\ query' = "record"

\* The last statement, and the answer from all that was read.
ReadBaseline == Read("baseline", Comparison, "record")

GetRegression ==
    \/ ReadRecord
    \/ ReadOverall \/ ReadByScenario \/ ReadByEvaluator
    \/ ReadFailureDistribution \/ ReadAgentMetrics \/ ReadEvaluationMetrics
    \/ ReadBaseline

Work ==
    \/ \E g \in Creates : Request(g) \/ Execute(g) \/ Fail(g)
    \/ \E c \in Clients, r \in RunIds : EvaluateByClient(c, r)

RNext ==
    \/ Work /\ UNCHANGED <<query, report>>
    \/ GetRegression /\ UNCHANGED vars

RSpec == RInit /\ [][RNext]_rvars

-----------------------------------------------------------------------------
(* Properties                                                              *)

\* The runs a summary is about.
Total(summary) == IF summary.pass_rate = None THEN 0 ELSE summary.pass_rate[2]

Answered == query = "record" /\ report.status # None

\* A report that says completed or failed is the last word on which runs there
\* are, however long it took to put together: every run of the regression is
\* in its pass rate and in its averages, now and for ever, each that has a
\* scenario under exactly one, and every repetition the runner counted as done
\* is in a bucket (get_regression reads the status before it aggregates,
\* phase-7 Task 7).  A run has a scenario unless its repetition failed between
\* its approved snapshot and the linkage.
CompletedReportIsFinal ==
    Answered /\ report.status \in {"completed", "failed"} =>
        LET runs == Cardinality(Linked(Polled))
            named == {r \in Linked(Polled) : agent_runs[r].scenario_id # None}
        IN /\ Total(report.overall) = runs
           /\ report.agent = runs
           /\ SumOf([s \in DOMAIN report.by_scenario |->
                       Total(report.by_scenario[s])]) = Cardinality(named)
           /\ named = Linked(Polled) \/ Faults
           /\ SumOf(report.overall.counts) >= Cardinality(created_run_ids[Polled])

Grows(old, new) ==
    DOMAIN old \subseteq DOMAIN new /\ \A x \in DOMAIN old : old[x] <= new[x]

\* One column of the results by evaluator.
Column(by_evaluator, counts) ==
    [e \in DOMAIN by_evaluator |-> by_evaluator[e][counts]]

\* An evaluation that had read the run before it was linked was stored for no
\* regression, and so was no obstacle to the one for its regression: each of
\* them overwrites the classification.
ClassifiedUnlinked(r) ==
    \E c \in Clients :
        /\ evaluation_results[c] # None /\ evaluation_results[c].complete
        /\ evaluation_results[c].run_id = r

\* The runs classified with a value now, or perhaps before.
PerhapsClassified(column, value) ==
    {r \in Linked(Polled) :
        Classified(r) /\ (run_failures[r][column] = value \/ ClassifiedUnlinked(r))}

CountedAmong(counts, column) ==
    \A value \in DOMAIN counts :
        counts[value] <= Cardinality(PerhapsClassified(column, value))

\* Who polls a running regression sees progress only: whatever a query of an
\* earlier report, or an earlier query of this one, has counted is still
\* counted by the same query now, although snapshots and linkage rewrite the
\* rows and clients evaluate them meanwhile.  What a run is classified as is
\* the one exception: a run leaves a bucket of the pass rate, for another one,
\* or a category of the failures only if a client's evaluation read it before
\* it was linked (aggregate_regression_run, phase-7 Task 8; run_evaluation).
\* The pass rates by scenario are left out: from the approved snapshot to its
\* linkage a run is under the scenario its agent names.
ReportsNeverGoBack ==
    /\ report.overall # None =>
          LET now == PassRateSummary(Linked(Polled))
          IN /\ Total(report.overall) <= Total(now)
             /\ SumOf(report.overall.counts) <= SumOf(now.counts)
             /\ CountedAmong(report.overall.counts, "overall_status")
    /\ report.by_evaluator # None =>
          \A counts \in {"total_count", "skipped_count", "passed_count"} :
              Grows(Column(report.by_evaluator, counts),
                    Column(EvaluatorPassRates(Polled), counts))
    /\ report.failure_distribution # None =>
          CountedAmong(report.failure_distribution, "primary_category")
    /\ report.agent # None => report.agent <= AgentMetrics(Polled)
    /\ report.evaluation # None => report.evaluation <= EvaluationMetrics(Polled)
    /\ report.baseline # None => report.baseline = Comparison

=============================================================================
