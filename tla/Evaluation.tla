------------------------------ MODULE Evaluation ------------------------------
(***************************************************************************)
(* POST /runs/{run_id}/evaluate: run_evaluation as concurrent calls that   *)
(* share evaluation_results, judge_calls and run_failures.                 *)
(*                                                                         *)
(* A call is not a transaction: each result, each judge call and the       *)
(* final classification is a commit of its own, so every action here is    *)
(* one commit and anything may happen between two of them.  Running an     *)
(* evaluator touches only the call's memory and is one step with the       *)
(* insert of its result.                                                   *)
(*                                                                         *)
(* Rows carry the call that wrote them.  The code has no such column; it   *)
(* is there to state properties and no action reads it.                    *)
(*                                                                         *)
(* A definition named X_... beside a definition X is X with a bug in it:   *)
(* no behaviour of the model uses it, it shows which property would tell.  *)
(***************************************************************************)
EXTENDS Classifier, Sequences, SequencesExt

CONSTANTS
    Calls,            \* POST /evaluate calls; a retry is another call
    RunIds,
    RegressionIds,    \* regression_runs.id values
    ALL_EVALUATORS,   \* the registry: evaluator names in order
    Judges,           \* those of type LLM_BASED
    Outcomes,         \* what each evaluator may come to, see Outcome
    JudgeSettings,    \* whether judge credentials are configured: BOOLEANs
    MaxInFlight       \* how many calls the deployment serves at a time

Evaluators == ToSet(ALL_EVALUATORS)

\* An EvaluatorOutcome and how many entries it left in the call log.
Outcome ==
    [execution_status : EvaluatorExecutionStatus,
     label : {"pass", "fail", "not_applicable", None},
     findings : SUBSET FindingCode, attempts : Nat]

ASSUME RegistryAssumption ==
    /\ ALL_EVALUATORS \in Seq(STRING) /\ ALL_EVALUATORS # << >>
    /\ IsInjective(ALL_EVALUATORS)
    /\ Judges \subseteq Evaluators
ASSUME OutcomesAssumption ==
    \A e \in Evaluators : \A o \in Outcomes[e] :
        /\ o \in Outcome
        /\ o.execution_status \in {"completed", "failed"}
        /\ o.label = None <=> o.execution_status = "failed"
        /\ e \notin Judges => o.attempts = 0
ASSUME JudgeSettingsAssumption == JudgeSettings \subseteq BOOLEAN
ASSUME MaxInFlightAssumption == MaxInFlight \in Nat \ {0}

VARIABLES
    agent_runs,           \* per run, None or its regression_run_id
    evaluation_results,   \* every result row, in insertion order
    judge_calls,          \* every judge call row, in insertion order
    run_failures,         \* per run, None or its classification
    pc, run, configured,  \* of each call: step, path parameter, settings
    regression,           \* regression_run_id as the call read it
    outcomes,             \* outcomes so far, in registry order
    call_log,             \* judge calls of the last outcome still to persist
    judge_errors          \* judge_persistence_errors, counted

tables == <<agent_runs, evaluation_results, judge_calls, run_failures>>
memory == <<run, configured, regression, outcomes, call_log, judge_errors>>
vars == <<tables, pc, memory>>

InProgress == {"view", "regression", "evaluate", "respond"}

\* 200, 404, the remembered judge persistence error, any other exception.
Answers == {"ok", "not_found", "judge_error", "failed"}

Linkage == [regression_run_id : RegressionIds \cup {None}]

ASSUME NoneIsNoLinkage == None \notin Linkage   \* "no row" is not a row

Init ==
    /\ agent_runs = [r \in RunIds |-> None]
    /\ evaluation_results = << >>
    /\ judge_calls = << >>
    /\ run_failures = [r \in RunIds |-> None]
    /\ pc = [c \in Calls |-> "unsent"]
    /\ run = [c \in Calls |-> None]
    /\ configured = [c \in Calls |-> FALSE]
    /\ regression = [c \in Calls |-> None]
    /\ outcomes = [c \in Calls |-> << >>]
    /\ call_log = [c \in Calls |-> 0]
    /\ judge_errors = [c \in Calls |-> 0]

-----------------------------------------------------------------------------
(* The rest of the system.                                                 *)

\* A snapshot of a run arrives; an upsert leaves regression_run_id alone.
IngestRun(r) ==
    /\ agent_runs[r] = None
    /\ agent_runs' = [agent_runs EXCEPT ![r] = [regression_run_id |-> None]]
    /\ UNCHANGED <<evaluation_results, judge_calls, run_failures, pc, memory>>

\* persist_regression_linkage, from the regression runner.
LinkRun(r, g) ==
    /\ agent_runs[r] # None
    /\ agent_runs' = [agent_runs EXCEPT ![r] = [regression_run_id |-> g]]
    /\ UNCHANGED <<evaluation_results, judge_calls, run_failures, pc, memory>>

-----------------------------------------------------------------------------

\* evaluate_run is entered and reads the judge settings.
Post(c) ==
    /\ pc[c] = "unsent"
    /\ Cardinality({d \in Calls : pc[d] \in InProgress}) < MaxInFlight
    /\ \E r \in RunIds, settings \in JudgeSettings :
          /\ run' = [run EXCEPT ![c] = r]
          /\ configured' = [configured EXCEPT ![c] = settings]
    /\ pc' = [pc EXCEPT ![c] = "view"]
    /\ UNCHANGED <<tables, regression, outcomes, call_log, judge_errors>>

\* evaluation_run_view: 404 without a run.
ReadView(c) ==
    /\ pc[c] = "view"
    /\ pc' = [pc EXCEPT ![c] =
                IF agent_runs[run[c]] = None THEN "not_found" ELSE "regression"]
    /\ UNCHANGED <<tables, memory>>

ReadRegression(c) ==
    /\ pc[c] = "regression"
    /\ regression' =
          [regression EXCEPT ![c] = agent_runs[run[c]].regression_run_id]
    /\ pc' = [pc EXCEPT ![c] = "evaluate"]
    /\ UNCHANGED <<tables, run, configured, outcomes, call_log, judge_errors>>

\* _judge_unavailable_result
Skipped == [execution_status |-> "skipped", label |-> None,
            findings |-> {"judge_unavailable"}, attempts |-> 0]

\* What evaluator e may come to in call c.
OutcomesOf(c, e) ==
    IF e \in Judges /\ ~configured[c] THEN {Skipped} ELSE Outcomes[e]

NextEvaluator(c) == ALL_EVALUATORS[Len(outcomes[c]) + 1]

\* There is an evaluator left and the judge calls of the last one are done.
MayEvaluate(c) ==
    /\ pc[c] = "evaluate"
    /\ call_log[c] = 0
    /\ Len(outcomes[c]) < Len(ALL_EVALUATORS)

Conflicts_Never(c) == FALSE

\* The UNIQUE constraint of evaluation_results; NULLs never conflict.  Its
\* fourth column, evaluator_version, is a constant of the program.
Conflicts(c) ==
    /\ regression[c] # None
    /\ \E row \in ToSet(evaluation_results) :
          /\ row.run_id = run[c]
          /\ row.evaluator_name = NextEvaluator(c)
          /\ row.regression_run_id = regression[c]

\* The label is stored for completed evaluators only.
ResultRow(c, e, o) ==
    [run_id |-> run[c], evaluator_name |-> e,
     regression_run_id |-> regression[c], status |-> o.execution_status,
     label |-> IF o.execution_status = "completed" THEN o.label ELSE None,
     findings |-> o.findings, call |-> c]

EvaluateNext_OnlyCompleted(c) ==
    /\ MayEvaluate(c)
    /\ ~Conflicts(c)
    /\ \E o \in OutcomesOf(c, NextEvaluator(c)) :
          /\ evaluation_results' =
                IF o.execution_status # "completed" THEN evaluation_results
                ELSE Append(evaluation_results, ResultRow(c, NextEvaluator(c), o))
          /\ outcomes' = [outcomes EXCEPT ![c] = Append(@, o)]
          /\ call_log' = [call_log EXCEPT ![c] = o.attempts]
    /\ UNCHANGED <<agent_runs, judge_calls, run_failures, pc,
                   run, configured, regression, judge_errors>>

\* One turn of the loop up to persist_evaluation_result's commit.
EvaluateNext(c) ==
    /\ MayEvaluate(c)
    /\ ~Conflicts(c)
    /\ \E o \in OutcomesOf(c, NextEvaluator(c)) :
          /\ evaluation_results' =
                Append(evaluation_results, ResultRow(c, NextEvaluator(c), o))
          /\ outcomes' = [outcomes EXCEPT ![c] = Append(@, o)]
          /\ call_log' = [call_log EXCEPT ![c] = o.attempts]
    /\ UNCHANGED <<agent_runs, judge_calls, run_failures, pc,
                   run, configured, regression, judge_errors>>

Answer(c, answer) ==
    /\ pc' = [pc EXCEPT ![c] = answer]
    /\ UNCHANGED <<tables, memory>>

\* IntegrityError: whatever the evaluator found or spent is lost.
EvaluateConflicts(c) ==
    /\ MayEvaluate(c)
    /\ Conflicts(c)
    /\ Answer(c, "failed")

JudgeCallRow(c) ==
    LET k == Len(outcomes[c])
    IN [run_id |-> run[c], evaluator_name |-> ALL_EVALUATORS[k],
        succeeded |-> outcomes[c][k].execution_status = "completed", call |-> c]

PersistJudgeCall_OnlySucceeded(c) ==
    /\ pc[c] = "evaluate"
    /\ call_log[c] > 0
    /\ call_log' = [call_log EXCEPT ![c] = @ - 1]
    /\ judge_calls' = IF JudgeCallRow(c).succeeded
                      THEN Append(judge_calls, JudgeCallRow(c)) ELSE judge_calls
    /\ UNCHANGED <<agent_runs, evaluation_results, run_failures, pc,
                   run, configured, regression, outcomes, judge_errors>>

PersistJudgeCall(c) ==
    /\ pc[c] = "evaluate"
    /\ call_log[c] > 0
    /\ call_log' = [call_log EXCEPT ![c] = @ - 1]
    /\ judge_calls' = Append(judge_calls, JudgeCallRow(c))
    /\ UNCHANGED <<agent_runs, evaluation_results, run_failures, pc,
                   run, configured, regression, outcomes, judge_errors>>

JudgeCallFails_EndsCall(c) ==
    /\ pc[c] = "evaluate"
    /\ call_log[c] > 0
    /\ judge_errors' = [judge_errors EXCEPT ![c] = @ + 1]
    /\ pc' = [pc EXCEPT ![c] = "judge_error"]
    /\ UNCHANGED <<tables, run, configured, regression, outcomes, call_log>>

\* persist_judge_call raises, before its commit or (refresh) after it: roll
\* back, remember the error, go on with the next entry.
JudgeCallFails(c) ==
    /\ pc[c] = "evaluate"
    /\ call_log[c] > 0
    /\ call_log' = [call_log EXCEPT ![c] = @ - 1]
    /\ judge_errors' = [judge_errors EXCEPT ![c] = @ + 1]
    /\ \/ judge_calls' = judge_calls
       \/ judge_calls' = Append(judge_calls, JudgeCallRow(c))
    /\ UNCHANGED <<agent_runs, evaluation_results, run_failures, pc,
                   run, configured, regression, outcomes>>

PersistRunFailure_DoNothing(c) ==
    /\ pc[c] = "evaluate"
    /\ call_log[c] = 0
    /\ Len(outcomes[c]) = Len(ALL_EVALUATORS)
    /\ run_failures' = [run_failures EXCEPT ![run[c]] =
                          IF @ = None THEN Classify(ToSet(outcomes[c])) ELSE @]
    /\ pc' = [pc EXCEPT ![c] = "respond"]
    /\ UNCHANGED <<agent_runs, evaluation_results, judge_calls, memory>>

PersistRunFailure_UnlessErrors(c) ==
    /\ pc[c] = "evaluate"
    /\ call_log[c] = 0 /\ judge_errors[c] = 0
    /\ Len(outcomes[c]) = Len(ALL_EVALUATORS)
    /\ run_failures' =
          [run_failures EXCEPT ![run[c]] = Classify(ToSet(outcomes[c]))]
    /\ pc' = [pc EXCEPT ![c] = "respond"]
    /\ UNCHANGED <<agent_runs, evaluation_results, judge_calls, memory>>

\* classify, then persist_run_failure's upsert and commit.
PersistRunFailure(c) ==
    /\ pc[c] = "evaluate"
    /\ call_log[c] = 0
    /\ Len(outcomes[c]) = Len(ALL_EVALUATORS)
    /\ run_failures' =
          [run_failures EXCEPT ![run[c]] = Classify(ToSet(outcomes[c]))]
    /\ pc' = [pc EXCEPT ![c] = "respond"]
    /\ UNCHANGED <<agent_runs, evaluation_results, judge_calls, memory>>

\* The first remembered judge error is raised only now.
Respond(c) ==
    /\ pc[c] = "respond"
    /\ Answer(c, IF judge_errors[c] > 0 THEN "judge_error" ELSE "ok")

\* Any other statement fails, the client goes away or the process dies.
Abort(c) == pc[c] \in InProgress /\ Answer(c, "failed")

Serve(c) ==
    \/ ReadView(c)
    \/ ReadRegression(c)
    \/ EvaluateNext(c)
    \/ EvaluateConflicts(c)
    \/ PersistJudgeCall(c)
    \/ JudgeCallFails(c)
    \/ PersistRunFailure(c)
    \/ Respond(c)

AllAnswered == \A c \in Calls : pc[c] \in Answers

Idle == AllAnswered /\ UNCHANGED vars

Next ==
    \/ \E r \in RunIds : IngestRun(r)
    \/ \E r \in RunIds, g \in RegressionIds : LinkRun(r, g)
    \/ \E c \in Calls : Post(c) \/ Serve(c) \/ Abort(c)
    \/ Idle

Spec == Init /\ [][Next]_vars

\* asyncio resumes what can run and every evaluator returns or raises.
FairSpec == Spec /\ \A c \in Calls : WF_vars(Serve(c))

-----------------------------------------------------------------------------
(* Properties                                                              *)

\* A row of evaluation_results.
EvaluationResult ==
    [run_id : RunIds, evaluator_name : Evaluators,
     regression_run_id : RegressionIds \cup {None},
     status : EvaluatorExecutionStatus,
     label : {"pass", "fail", "not_applicable", None},
     findings : SUBSET FindingCode, call : Calls]

\* A row of judge_calls.
JudgeCall ==
    [run_id : RunIds, evaluator_name : Judges, succeeded : BOOLEAN, call : Calls]

TypeOK ==
    /\ agent_runs \in [RunIds -> Linkage \cup {None}]
    /\ evaluation_results \in Seq(EvaluationResult)
    /\ \A row \in ToSet(evaluation_results) :
          row.label # None <=> row.status = "completed"
    /\ judge_calls \in Seq(JudgeCall)
    /\ run_failures \in [RunIds -> RunFailure \cup {None}]
    /\ pc \in [Calls -> {"unsent"} \cup InProgress \cup Answers]
    /\ run \in [Calls -> RunIds \cup {None}]
    /\ configured \in [Calls -> BOOLEAN]
    /\ regression \in [Calls -> RegressionIds \cup {None}]
    /\ outcomes \in [Calls -> Seq(Outcome)]
    /\ \A c \in Calls : Len(outcomes[c]) <= Len(ALL_EVALUATORS)
    /\ call_log \in [Calls -> Nat] /\ judge_errors \in [Calls -> Nat]

ResultsOf(c) ==
    {i \in DOMAIN evaluation_results : evaluation_results[i].call = c}

\* Call c has stored a result for each registered evaluator, in their order.
FullyEvaluated(c) ==
    /\ {evaluation_results[i].evaluator_name : i \in ResultsOf(c)} = Evaluators
    /\ \A i, j \in ResultsOf(c), k, l \in DOMAIN ALL_EVALUATORS :
          /\ evaluation_results[i].evaluator_name = ALL_EVALUATORS[k]
          /\ evaluation_results[j].evaluator_name = ALL_EVALUATORS[l]
          => (i < j <=> k < l)

\* An outcome as far as a result row tells it.
RowOutcome(row) ==
    [execution_status |-> row.status, label |-> row.label,
     findings |-> row.findings]

RowOutcomes(rows) == {RowOutcome(row) : row \in rows}

\* Every stored classification can be traced to one call that stored a result
\* for each registered evaluator, in order, and is what those rows classify
\* to: no crash, fault or interleaving leaves a classification of a partial
\* or mixed evaluation (run_evaluation, phase-5 Task 6).
FailureFromFullEvaluation ==
    \A r \in RunIds : run_failures[r] # None =>
        \E c \in Calls :
            /\ run[c] = r
            /\ FullyEvaluated(c)
            /\ run_failures[r] =
                  Classify(RowOutcomes({evaluation_results[i] : i \in ResultsOf(c)}))

\* A judge_calls row is one that call c paid evaluator e to come to o.
PaidFor(row, c, e, o) ==
    /\ row.call = c /\ row.evaluator_name = e
    /\ row.succeeded <=> o.execution_status = "completed"

JudgeCallsOf(c, k) ==
    {i \in DOMAIN judge_calls :
        PaidFor(judge_calls[i], c, ALL_EVALUATORS[k], outcomes[c][k])}

\* A judge call costs money: a call answered 200 has a judge_calls row for
\* every attempt its judges made, failed judges included (phase-6 Task 3).
JudgeSpendRecorded ==
    \A c \in Calls : pc[c] = "ok" =>
        \A k \in 1..Len(ALL_EVALUATORS) :
            outcomes[c][k].attempts = Cardinality(JudgeCallsOf(c, k))

\* A judge call that could not be stored never costs the run its evaluation:
\* by the time the error is answered, every result and a classification of
\* the run are stored (phase-6 Task 3, "Independent commit").
JudgeErrorKeepsEvaluation ==
    \A c \in Calls : pc[c] = "judge_error" =>
        /\ judge_errors[c] > 0
        /\ FullyEvaluated(c)
        /\ run_failures[run[c]] # None

\* The results of one run for one regression come from one evaluation: two
\* calls never interleave their rows, because the first row decides
\* (uq_evaluation_results_run_evaluator_version_regression).
RegressionEvaluatedOnce ==
    \A x, y \in ToSet(evaluation_results) :
        /\ x.run_id = y.run_id
        /\ x.regression_run_id # None
        /\ x.regression_run_id = y.regression_run_id
        => x.call = y.call

\* No evaluator's outcome makes the ones before it look better: a crash does
\* not hide a confirmed failure, a warning does not lower a severity
\* (phase-5 Task 3, "FAIL takes precedence over INCOMPLETE").
NoEvaluatorMasksAnother ==
    [][\A c \in Calls :
          NoBetter(Classify(ToSet(outcomes'[c])), Classify(ToSet(outcomes[c])))]_vars

Settled(r) == \A c \in Calls : run[c] = r => pc[c] \notin InProgress

RowsOf(r) ==
    {i \in DOMAIN evaluation_results : evaluation_results[i].run_id = r}

\* _latest_evaluation_summary: the last row of each evaluator.
LatestRows(r) ==
    {evaluation_results[i] :
        i \in {j \in RowsOf(r) : \A k \in RowsOf(r) :
                  evaluation_results[k].evaluator_name =
                     evaluation_results[j].evaluator_name => k <= j}}

\* What evaluation_summary and failure say of a run, once the evaluations that
\* stored what they show have finished.
FailureIsCurrentOf(r) ==
    /\ LatestRows(r) # {}
    /\ Settled(r)
    /\ \A row \in LatestRows(r) : pc[row.call] \in {"ok", "judge_error"}
    => run_failures[r] = Classify(RowOutcomes(LatestRows(r)))

\* When no evaluation of a run is under way and those that stored what its
\* evaluation_summary shows have finished, the failure block beside it says
\* the same (get_run, phase-5 Task 7 "always-current failure block").
FailureIsCurrent == \A r \in RunIds : FailureIsCurrentOf(r)

\* Every evaluation is answered, whatever judges and commits fail.
EveryCallAnswered ==
    \A c \in Calls : pc[c] \in InProgress ~> pc[c] \in Answers

=============================================================================
