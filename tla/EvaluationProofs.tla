--------------------------- MODULE EvaluationProofs ---------------------------
(***************************************************************************)
(* Theorems about Evaluation and EvaluationHistory, for any number of      *)
(* concurrent calls, runs and regressions, any registry of evaluators and  *)
(* any outcomes they may come to.                                          *)
(***************************************************************************)
EXTENDS EvaluationHistory, CommonProofs

-----------------------------------------------------------------------------
(* The inductive invariant.                                                *)

\* The last evaluator is done and run_failures written.
Persisted == {"respond", "ok", "judge_error"}

\* Where a call is tells what it has read, found and still has to store.
CallInv ==
    \A c \in Calls :
        /\ pc[c] # "unsent" => run[c] \in RunIds
        /\ pc[c] = "regression" => agent_runs[run[c]] # None
        /\ pc[c] \in {"unsent", "view", "regression"} =>
              outcomes[c] = << >> /\ judge_errors[c] = 0
        /\ call_log[c] > 0 =>
              outcomes[c] # << >> /\ ALL_EVALUATORS[Len(outcomes[c])] \in Judges
        /\ pc[c] \in Persisted =>
              /\ Len(outcomes[c]) = Len(ALL_EVALUATORS) /\ call_log[c] = 0
              /\ run_failures[run[c]] # None
        /\ pc[c] = "ok" => judge_errors[c] = 0
        /\ pc[c] = "judge_error" => judge_errors[c] > 0

\* What a result row keeps of an outcome.
Stored(o) ==
    [execution_status |-> o.execution_status, label |-> o.label,
     findings |-> o.findings]

\* The rows of a call are its outcomes, each once and in registry order.
RowsAreOutcomes ==
    \A i \in DOMAIN evaluation_results :
        LET row == evaluation_results[i]
            c == row.call
        IN /\ row.run_id = run[c] /\ row.regression_run_id = regression[c]
           /\ \E k \in DOMAIN outcomes[c] :
                 /\ row.evaluator_name = ALL_EVALUATORS[k]
                 /\ RowOutcome(row) = Stored(outcomes[c][k])
OutcomesAreRows ==
    \A c \in Calls : \A k \in DOMAIN outcomes[c] : \E i \in ResultsOf(c) :
        evaluation_results[i].evaluator_name = ALL_EVALUATORS[k]
RowsInOrder ==
    \A i, j \in DOMAIN evaluation_results, k, l \in DOMAIN ALL_EVALUATORS :
        /\ evaluation_results[i].call = evaluation_results[j].call
        /\ evaluation_results[i].evaluator_name = ALL_EVALUATORS[k]
        /\ evaluation_results[j].evaluator_name = ALL_EVALUATORS[l]
        => (i < j <=> k < l)
ResultsInv == RowsAreOutcomes /\ OutcomesAreRows /\ RowsInOrder

\* The judge calls of a call are those of its outcomes; as long as none was
\* refused, only those in the call log are missing.
JudgeCallsAreOutcomes ==
    \A i \in DOMAIN judge_calls :
        \E k \in DOMAIN outcomes[judge_calls[i].call] :
            judge_calls[i].evaluator_name = ALL_EVALUATORS[k]
SpendIsStored ==
    \A c \in Calls :
        pc[c] \in {"evaluate"} \cup Persisted /\ judge_errors[c] = 0 =>
            \A k \in DOMAIN outcomes[c] :
                outcomes[c][k].attempts = Cardinality(JudgeCallsOf(c, k))
                    + IF k = Len(outcomes[c]) THEN call_log[c] ELSE 0
SpendInv == JudgeCallsAreOutcomes /\ SpendIsStored

\* A classification is that of a call that got through the registry.
Classified(r, c) ==
    /\ run[c] = r
    /\ Len(outcomes[c]) = Len(ALL_EVALUATORS)
    /\ run_failures[r] = Classify(ToSet(outcomes[c]))
FailureInv ==
    \A r \in RunIds : run_failures[r] # None => \E c \in Calls : Classified(r, c)

IInv ==
    /\ TypeOK
    /\ CallInv
    /\ ResultsInv
    /\ SpendInv
    /\ FailureInv
    /\ RegressionEvaluatedOnce

-----------------------------------------------------------------------------
(* The registry and what its evaluators come to.                           *)

\* Appending to a sequence adds one index, beyond the others.
LEMMA AppendFacts ==
    ASSUME NEW S, NEW s \in Seq(S), NEW e \in S
    PROVE  /\ Append(s, e) \in Seq(S)
           /\ DOMAIN Append(s, e) = DOMAIN s \cup {Len(s) + 1}
           /\ Append(s, e)[Len(s) + 1] = e
           /\ \A i \in DOMAIN s : i < Len(s) + 1 /\ Append(s, e)[i] = s[i]
OBVIOUS

\* The registry numbers the evaluators, each once (ALL_EVALUATORS).
LEMMA RegistryFacts ==
    /\ Len(ALL_EVALUATORS) \in Nat \ {0}
    /\ DOMAIN ALL_EVALUATORS = 1..Len(ALL_EVALUATORS)
    /\ \A k \in DOMAIN ALL_EVALUATORS : ALL_EVALUATORS[k] \in Evaluators
    /\ \A e \in Evaluators : \E k \in DOMAIN ALL_EVALUATORS : ALL_EVALUATORS[k] = e
    /\ \A k, l \in DOMAIN ALL_EVALUATORS :
          ALL_EVALUATORS[k] = ALL_EVALUATORS[l] => k = l
BY RegistryAssumption DEF Evaluators, ToSet, IsInjective

\* What the types say of rows and calls.
LEMMA TypeFacts ==
    ASSUME TypeOK
    PROVE  /\ evaluation_results \in Seq(EvaluationResult)
           /\ DOMAIN evaluation_results = 1..Len(evaluation_results)
           /\ Len(evaluation_results) \in Nat
           /\ \A i \in DOMAIN evaluation_results :
                 /\ evaluation_results[i] \in EvaluationResult
                 /\ evaluation_results[i].call \in Calls
                 /\ evaluation_results[i].run_id \in RunIds
                 /\ evaluation_results[i].evaluator_name \in Evaluators
           /\ DOMAIN judge_calls = 1..Len(judge_calls)
           /\ Len(judge_calls) \in Nat
           /\ \A i \in DOMAIN judge_calls : judge_calls[i].call \in Calls
           /\ \A c \in Calls :
                 /\ outcomes[c] \in Seq(Outcome)
                 /\ Len(outcomes[c]) \in 0..Len(ALL_EVALUATORS)
                 /\ DOMAIN outcomes[c] = 1..Len(outcomes[c])
                 /\ DOMAIN outcomes[c] \subseteq DOMAIN ALL_EVALUATORS
                 /\ call_log[c] \in Nat /\ judge_errors[c] \in Nat
<1>1. \A i \in DOMAIN evaluation_results : evaluation_results[i] \in EvaluationResult
  BY DEF TypeOK
<1>2. \A i \in DOMAIN judge_calls : judge_calls[i] \in JudgeCall
  BY DEF TypeOK
<1>3. \A i \in DOMAIN judge_calls : judge_calls[i].call \in Calls
  BY <1>2 DEF JudgeCall
<1>4. \A i \in DOMAIN evaluation_results :
         /\ evaluation_results[i].call \in Calls
         /\ evaluation_results[i].run_id \in RunIds
         /\ evaluation_results[i].evaluator_name \in Evaluators
  BY <1>1 DEF EvaluationResult
<1>5. ASSUME NEW c \in Calls
      PROVE  /\ outcomes[c] \in Seq(Outcome)
             /\ Len(outcomes[c]) \in 0..Len(ALL_EVALUATORS)
             /\ DOMAIN outcomes[c] = 1..Len(outcomes[c])
             /\ DOMAIN outcomes[c] \subseteq DOMAIN ALL_EVALUATORS
             /\ call_log[c] \in Nat /\ judge_errors[c] \in Nat
  BY RegistryFacts DEF TypeOK
<1>. QED
  BY <1>1, <1>3, <1>4, <1>5 DEF TypeOK

\* Whatever an evaluator comes to, a completed one has a label, the others
\* have none, and only judges call anybody.
LEMMA OutcomeFacts ==
    ASSUME NEW c \in Calls, NEW e \in Evaluators, NEW o \in OutcomesOf(c, e)
    PROVE  /\ o \in Outcome
           /\ o.label # None <=> o.execution_status = "completed"
           /\ e \notin Judges => o.attempts = 0
<1>1. CASE e \in Judges /\ ~configured[c]
  <2>1. o = Skipped
    BY <1>1 DEF OutcomesOf
  <2>. QED
    BY <1>1, <2>1 DEF Skipped, Outcome, EvaluatorExecutionStatus, FindingCode
<1>2. CASE ~(e \in Judges /\ ~configured[c])
  <2>1. o \in Outcomes[e]
    BY <1>2 DEF OutcomesOf
  <2>. QED
    BY <2>1, OutcomesAssumption
<1>. QED
  BY <1>1, <1>2

\* The row of an outcome holds all of it that the classifier reads.
LEMMA ResultRowFacts ==
    ASSUME TypeOK, NEW c \in Calls, run[c] \in RunIds,
           NEW e \in Evaluators, NEW o \in OutcomesOf(c, e)
    PROVE  LET row == ResultRow(c, e, o)
           IN /\ row \in EvaluationResult
              /\ row.label # None <=> row.status = "completed"
              /\ row.call = c /\ row.run_id = run[c] /\ row.evaluator_name = e
              /\ row.regression_run_id = regression[c]
              /\ RowOutcome(row) = Stored(o)
<1>1. /\ o \in Outcome
      /\ o.label # None <=> o.execution_status = "completed"
  BY OutcomeFacts
<1>2. (IF o.execution_status = "completed" THEN o.label ELSE None) = o.label
  BY <1>1
<1>3. ResultRow(c, e, o) =
        [run_id |-> run[c], evaluator_name |-> e,
         regression_run_id |-> regression[c], status |-> o.execution_status,
         label |-> o.label, findings |-> o.findings, call |-> c]
  BY <1>2 DEF ResultRow
<1>. QED
  BY <1>1, <1>3 DEF TypeOK, EvaluationResult, Outcome, RowOutcome, Stored

-----------------------------------------------------------------------------
(* Every step keeps the invariant.                                         *)

\* A database without results and without calls satisfies the invariant.
LEMMA InitIInv == Init => IInv
<1>. SUFFICES ASSUME Init PROVE IInv
  OBVIOUS
<1>. USE DEF Init
<1>1. TypeOK
  BY RegistryFacts DEF TypeOK, ToSet
<1>2. CallInv
  BY DEF CallInv, Persisted
<1>3. ResultsInv
  BY DEF ResultsInv, RowsAreOutcomes, OutcomesAreRows, RowsInOrder
<1>4. SpendInv
  BY DEF SpendInv, JudgeCallsAreOutcomes, SpendIsStored, Persisted
<1>5. FailureInv /\ RegressionEvaluatedOnce
  BY DEF FailureInv, RegressionEvaluatedOnce, ToSet
<1>. QED
  BY <1>1, <1>2, <1>3, <1>4, <1>5 DEF IInv

\* Steps of the rest of the system touch agent_runs alone.
LEMMA AgentRunsStep ==
    ASSUME IInv, NEW r \in RunIds, NEW g \in RegressionIds \cup {None},
           agent_runs' = [agent_runs EXCEPT ![r] = [regression_run_id |-> g]],
           UNCHANGED <<evaluation_results, judge_calls, run_failures, pc, memory>>
    PROVE  IInv'
<1>. USE DEF memory
<1>1. TypeOK'
  BY DEF IInv, TypeOK, Linkage
<1>2. CallInv'
  <2>1. [regression_run_id |-> g] # None
    BY NoneIsNoLinkage DEF Linkage
  <2>. QED
    BY <2>1 DEF IInv, TypeOK, CallInv
<1>3. ResultsInv'
  BY DEF IInv, ResultsInv, RowsAreOutcomes, OutcomesAreRows, RowsInOrder, ResultsOf
<1>4. SpendInv'
  BY DEF IInv, SpendInv, JudgeCallsAreOutcomes, SpendIsStored, JudgeCallsOf
<1>5. FailureInv' /\ RegressionEvaluatedOnce'
  BY DEF IInv, FailureInv, Classified, RegressionEvaluatedOnce
<1>. QED
  BY <1>1, <1>2, <1>3, <1>4, <1>5 DEF IInv

\* A new call has found nothing yet, so nothing refers to it.
LEMMA PostStep == ASSUME IInv, NEW c \in Calls, Post(c) PROVE IInv'
<1>. USE DEF Post, tables
<1>1. outcomes[c] = << >> /\ judge_errors[c] = 0
  BY DEF IInv, CallInv
<1>2. TypeOK'
  BY JudgeSettingsAssumption DEF IInv, TypeOK, InProgress
<1>3. CallInv'
  BY <1>1 DEF IInv, TypeOK, CallInv, Persisted
<1>4. \A i \in DOMAIN evaluation_results : evaluation_results[i].call # c
  BY <1>1 DEF IInv, ResultsInv, RowsAreOutcomes
<1>5. ResultsInv'
  <2>1. \A d \in Calls : d # c => run'[d] = run[d]
    BY DEF IInv, TypeOK
  <2>2. RowsAreOutcomes'
    BY <1>4, <2>1, TypeFacts DEF IInv, ResultsInv, RowsAreOutcomes
  <2>. QED
    BY <2>2 DEF IInv, ResultsInv, OutcomesAreRows, RowsInOrder, ResultsOf
<1>6. SpendInv'
  <2>1. \A d \in Calls :
           pc'[d] \in {"evaluate"} \cup Persisted
              => pc[d] \in {"evaluate"} \cup Persisted
    BY DEF IInv, TypeOK, Persisted
  <2>2. \A d, k : JudgeCallsOf(d, k)' = JudgeCallsOf(d, k)
    BY DEF JudgeCallsOf
  <2>. QED
    BY <2>1, <2>2 DEF IInv, SpendInv, JudgeCallsAreOutcomes, SpendIsStored
<1>7. FailureInv'
  BY <1>1, RegistryFacts DEF IInv, TypeOK, FailureInv, Classified
<1>8. RegressionEvaluatedOnce'
  BY DEF IInv, RegressionEvaluatedOnce
<1>. QED
  BY <1>2, <1>3, <1>5, <1>6, <1>7, <1>8 DEF IInv

\* A step that only moves a call on keeps everything that CallInv does not
\* say of where it is.
LEMMA MoveStep ==
    ASSUME IInv, NEW c \in Calls,
           NEW to \in {"unsent"} \cup InProgress \cup Answers,
           pc' = [pc EXCEPT ![c] = to], UNCHANGED <<tables, memory>>,
           CallInv',
           to \in {"evaluate"} \cup Persisted => pc[c] \in {"evaluate"} \cup Persisted
    PROVE  IInv'
<1>. USE DEF tables, memory
<1>1. TypeOK'
  BY DEF IInv, TypeOK
<1>2. ResultsInv'
  BY DEF IInv, ResultsInv, RowsAreOutcomes, OutcomesAreRows, RowsInOrder, ResultsOf
<1>3. SpendInv'
  <2>1. \A d \in Calls :
           pc'[d] \in {"evaluate"} \cup Persisted
              => pc[d] \in {"evaluate"} \cup Persisted
    BY DEF IInv, TypeOK
  <2>2. \A d, k : JudgeCallsOf(d, k)' = JudgeCallsOf(d, k)
    BY DEF JudgeCallsOf
  <2>. QED
    BY <2>1, <2>2 DEF IInv, SpendInv, JudgeCallsAreOutcomes, SpendIsStored
<1>4. FailureInv' /\ RegressionEvaluatedOnce'
  BY DEF IInv, FailureInv, Classified, RegressionEvaluatedOnce
<1>. QED
  BY <1>1, <1>2, <1>3, <1>4 DEF IInv

\* Reading the run changes no row (evaluation_run_view).
LEMMA ReadViewStep == ASSUME IInv, NEW c \in Calls, ReadView(c) PROVE IInv'
<1>1. CallInv'
  BY DEF IInv, TypeOK, CallInv, ReadView, tables, memory, Persisted
<1>. QED
  BY <1>1, MoveStep DEF ReadView, InProgress, Answers, Persisted

\* Nor does an answer: what it changes is which calls are in progress.
LEMMA AnswerStep ==
    ASSUME IInv, NEW c \in Calls,
           \/ pc[c] \in InProgress /\ Answer(c, "failed")
           \/ Respond(c)
    PROVE  IInv'
<1>. DEFINE to == IF judge_errors[c] > 0 THEN "judge_error" ELSE "ok"
<1>1. CASE pc[c] \in InProgress /\ Answer(c, "failed")
  <2>1. CallInv'
    BY <1>1 DEF IInv, TypeOK, CallInv, Answer, tables, memory, Persisted, InProgress
  <2>. QED
    BY <1>1, <2>1, MoveStep DEF Answer, InProgress, Answers, Persisted
<1>2. CASE Respond(c)
  <2>1. judge_errors[c] \in Nat
    BY DEF IInv, TypeOK
  <2>2. pc[c] = "respond" /\ pc' = [pc EXCEPT ![c] = to] /\ UNCHANGED <<tables, memory>>
    BY <1>2 DEF Respond, Answer
  <2>3. CallInv'
    BY <2>1, <2>2 DEF IInv, TypeOK, CallInv, tables, memory, Persisted
  <2>. QED
    BY <2>2, <2>3, MoveStep DEF InProgress, Answers, Persisted
<1>. QED
  BY <1>1, <1>2

\* The call's rows have not been written yet when it reads the regression.
LEMMA ReadRegressionStep ==
    ASSUME IInv, NEW c \in Calls, ReadRegression(c) PROVE IInv'
<1>. USE DEF ReadRegression, tables
<1>1. /\ outcomes[c] = << >> /\ judge_errors[c] = 0 /\ run[c] \in RunIds
      /\ agent_runs[run[c]] \in Linkage
  BY DEF IInv, TypeOK, CallInv
<1>2. agent_runs[run[c]].regression_run_id \in RegressionIds \cup {None}
  BY <1>1 DEF Linkage
<1>3. TypeOK'
  BY <1>2 DEF IInv, TypeOK, InProgress
<1>4. CallInv'
  BY <1>1 DEF IInv, TypeOK, CallInv, Persisted
<1>5. ResultsInv'
  <2>1. \A i \in DOMAIN evaluation_results : evaluation_results[i].call # c
    BY <1>1 DEF IInv, ResultsInv, RowsAreOutcomes
  <2>2. \A d \in Calls : d # c => regression'[d] = regression[d]
    BY DEF IInv, TypeOK
  <2>3. RowsAreOutcomes'
    BY <2>1, <2>2, TypeFacts DEF IInv, ResultsInv, RowsAreOutcomes
  <2>. QED
    BY <2>3 DEF IInv, ResultsInv, OutcomesAreRows, RowsInOrder, ResultsOf
<1>6. SpendInv'
  <2>1. \A d \in Calls : d # c => pc'[d] = pc[d]
    BY DEF IInv, TypeOK
  <2>2. DOMAIN outcomes[c] = {}
    BY <1>1
  <2>. QED
    BY <2>1, <2>2 DEF IInv, SpendInv, JudgeCallsAreOutcomes, SpendIsStored, JudgeCallsOf
<1>7. FailureInv' /\ RegressionEvaluatedOnce'
  BY DEF IInv, FailureInv, Classified, RegressionEvaluatedOnce
<1>. QED
  BY <1>3, <1>4, <1>5, <1>6, <1>7 DEF IInv

\* The classification of all outcomes replaces what was stored.
LEMMA PersistRunFailureStep ==
    ASSUME IInv, NEW c \in Calls, PersistRunFailure(c) PROVE IInv'
<1>. USE DEF PersistRunFailure, memory
<1>1. /\ run[c] \in RunIds
      /\ Classify(ToSet(outcomes[c])) \in RunFailure
      /\ Classify(ToSet(outcomes[c])) # None
  BY ClassifyType, NoneIsNoFailure DEF IInv, CallInv
<1>2. TypeOK'
  BY <1>1 DEF IInv, TypeOK, InProgress
<1>3. CallInv'
  BY <1>1 DEF IInv, TypeOK, CallInv, Persisted
<1>4. ResultsInv'
  BY DEF IInv, ResultsInv, RowsAreOutcomes, OutcomesAreRows, RowsInOrder, ResultsOf
<1>5. SpendInv'
  <2>1. \A d \in Calls :
           pc'[d] \in {"evaluate"} \cup Persisted
              => pc[d] \in {"evaluate"} \cup Persisted
    BY DEF IInv, TypeOK
  <2>2. \A d, k : JudgeCallsOf(d, k)' = JudgeCallsOf(d, k)
    BY DEF JudgeCallsOf
  <2>. QED
    BY <2>1, <2>2 DEF IInv, SpendInv, JudgeCallsAreOutcomes, SpendIsStored
<1>6. FailureInv'
  <2>1. Classified(run[c], c)'
    BY <1>1 DEF IInv, TypeOK, Classified
  <2>2. ASSUME NEW r \in RunIds, r # run[c], NEW d \in Calls, Classified(r, d)
        PROVE  Classified(r, d)'
    BY <2>2 DEF IInv, TypeOK, Classified
  <2>. QED
    BY <2>1, <2>2 DEF IInv, TypeOK, FailureInv
<1>7. RegressionEvaluatedOnce'
  BY DEF IInv, RegressionEvaluatedOnce
<1>. QED
  BY <1>2, <1>3, <1>4, <1>5, <1>6, <1>7 DEF IInv

\* The rows counted for an evaluator are finitely many.
LEMMA JudgeCallsFinite ==
    ASSUME TypeOK, NEW c \in Calls, NEW k
    PROVE  /\ IsFiniteSet(JudgeCallsOf(c, k))
           /\ Cardinality(JudgeCallsOf(c, k)) \in Nat
<1>1. IsFiniteSet(1..Len(judge_calls))
  BY TypeFacts, FS_Interval
<1>2. JudgeCallsOf(c, k) \subseteq 1..Len(judge_calls)
  BY TypeFacts DEF JudgeCallsOf
<1>. QED
  BY <1>1, <1>2, FS_Subset, FS_CardinalityType

\* A row that pays for an attempt names its call and its evaluator.
LEMMA PaidForNames ==
    ASSUME NEW row, NEW c, NEW e, NEW o, PaidFor(row, c, e, o)
    PROVE  row.call = c /\ row.evaluator_name = e
BY Zenon DEF PaidFor

\* One entry of the call log is dealt with: its row is stored or the error
\* is remembered, or both.
LEMMA JudgeCallStep ==
    ASSUME IInv, NEW c \in Calls, PersistJudgeCall(c) \/ JudgeCallFails(c)
    PROVE  IInv'
<1>. DEFINE n == Len(outcomes[c])
            row == JudgeCallRow(c)
<1>1. /\ pc[c] = "evaluate" /\ call_log[c] \in Nat /\ call_log[c] > 0
      /\ call_log' = [call_log EXCEPT ![c] = @ - 1]
      /\ judge_calls' \in {judge_calls, Append(judge_calls, row)}
      /\ \/ judge_errors' = judge_errors /\ judge_calls' = Append(judge_calls, row)
         \/ judge_errors' = [judge_errors EXCEPT ![c] = @ + 1]
      /\ UNCHANGED <<agent_runs, evaluation_results, run_failures, pc,
                     run, configured, regression, outcomes>>
  BY TypeFacts DEF IInv, PersistJudgeCall, JudgeCallFails
<1>2. /\ n \in DOMAIN outcomes[c] /\ n \in DOMAIN ALL_EVALUATORS
      /\ ALL_EVALUATORS[n] \in Judges /\ run[c] \in RunIds
  BY <1>1, TypeFacts DEF IInv, CallInv
<1>3. /\ row \in JudgeCall
      /\ row.call = c /\ row.evaluator_name = ALL_EVALUATORS[n]
      /\ PaidFor(row, c, ALL_EVALUATORS[n], outcomes[c][n])
  <2>1. row = [run_id |-> run[c], evaluator_name |-> ALL_EVALUATORS[n],
               succeeded |-> outcomes[c][n].execution_status = "completed",
               call |-> c]
    BY DEF JudgeCallRow
  <2>2. (outcomes[c][n].execution_status = "completed") \in BOOLEAN
    BY Zenon
  <2>3. row \in JudgeCall
    BY <1>2, <2>1, <2>2 DEF JudgeCall
  <2>4. row.succeeded = (outcomes[c][n].execution_status = "completed")
    BY <2>1
  <2>5. row.call = c /\ row.evaluator_name = ALL_EVALUATORS[n]
    BY <2>1
  <2>6. PaidFor(row, c, ALL_EVALUATORS[n], outcomes[c][n])
    BY <2>4, <2>5, Zenon DEF PaidFor
  <2>. QED
    BY <2>3, <2>5, <2>6
<1>. HIDE DEF row, n
<1>4. /\ judge_calls' \in Seq(JudgeCall)
      /\ DOMAIN judge_calls \subseteq DOMAIN judge_calls'
      /\ \A i \in DOMAIN judge_calls : judge_calls'[i] = judge_calls[i]
      /\ \A i \in DOMAIN judge_calls' :
            i \in DOMAIN judge_calls \/ judge_calls'[i] = row
  <2>1. judge_calls \in Seq(JudgeCall)
    BY DEF IInv, TypeOK
  <2>2. CASE judge_calls' = judge_calls
    BY <2>1, <2>2
  <2>3. CASE judge_calls' = Append(judge_calls, row)
    BY <1>3, <2>1, <2>3, AppendFacts
  <2>. QED
    BY <1>1, <2>2, <2>3
<1>5. TypeOK'
  <2>1. call_log' \in [Calls -> Nat]
    <3>1. call_log[c] - 1 \in Nat
      BY <1>1
    <3>. QED
      BY <1>1, <3>1 DEF IInv, TypeOK
  <2>2. judge_errors' \in [Calls -> Nat]
    <3>1. judge_errors \in [Calls -> Nat] /\ judge_errors[c] + 1 \in Nat
      BY DEF IInv, TypeOK
    <3>. QED
      BY <1>1, <3>1
  <2>. QED
    BY <1>1, <1>4, <2>1, <2>2 DEF IInv, TypeOK
<1>6. CallInv'
  BY <1>1, <1>2 DEF IInv, TypeOK, CallInv, Persisted
<1>7. ResultsInv'
  BY <1>1
  DEF IInv, ResultsInv, RowsAreOutcomes, OutcomesAreRows, RowsInOrder, ResultsOf
<1>8. JudgeCallsAreOutcomes'
  BY <1>1, <1>2, <1>3, <1>4 DEF IInv, SpendInv, JudgeCallsAreOutcomes
<1>9. SpendIsStored'
  <2>. SUFFICES ASSUME NEW d \in Calls,
                       pc[d] \in {"evaluate"} \cup Persisted, judge_errors'[d] = 0,
                       NEW k \in DOMAIN outcomes[d]
                PROVE  outcomes[d][k].attempts = Cardinality(JudgeCallsOf(d, k)')
                          + IF k = Len(outcomes[d]) THEN call_log'[d] ELSE 0
    BY <1>1 DEF SpendIsStored
  <2>1. judge_errors[d] = 0 /\ (d = c => judge_calls' = Append(judge_calls, row))
    BY <1>1, TypeFacts DEF IInv, TypeOK
  <2>2. outcomes[d][k].attempts = Cardinality(JudgeCallsOf(d, k))
                          + IF k = Len(outcomes[d]) THEN call_log[d] ELSE 0
    BY <2>1 DEF IInv, SpendInv, SpendIsStored
  <2>3. CASE d = c /\ k = n
    <3>1. JudgeCallsOf(c, n)' = JudgeCallsOf(c, n) \cup {Len(judge_calls) + 1}
      <4>1. /\ DOMAIN judge_calls' = DOMAIN judge_calls \cup {Len(judge_calls) + 1}
            /\ judge_calls'[Len(judge_calls) + 1] = row
        BY <1>3, <2>1, <2>3, AppendFacts DEF IInv, TypeOK
      <4>. DEFINE Mine(other) ==
                    PaidFor(other, c, ALL_EVALUATORS[n], outcomes[c][n])
      <4>2. JudgeCallsOf(c, n) = {i \in DOMAIN judge_calls : Mine(judge_calls[i])}
        BY DEF JudgeCallsOf
      <4>3. JudgeCallsOf(c, n)' = {i \in DOMAIN judge_calls' : Mine(judge_calls'[i])}
        BY <1>1 DEF JudgeCallsOf, n
      <4>4. Mine(row)
        BY <1>3
      <4>. HIDE DEF Mine
      <4>. QED
        BY <1>4, <4>1, <4>2, <4>3, <4>4
    <3>2. Len(judge_calls) + 1 \notin JudgeCallsOf(c, n)
      BY TypeFacts DEF IInv, JudgeCallsOf
    <3>3. Cardinality(JudgeCallsOf(c, n)') = Cardinality(JudgeCallsOf(c, n)) + 1
      BY <3>1, <3>2, JudgeCallsFinite, FS_AddElement DEF IInv
    <3>4. Cardinality(JudgeCallsOf(c, n)) \in Nat
      BY JudgeCallsFinite DEF IInv
    <3>5. call_log'[c] = call_log[c] - 1
      BY <1>1 DEF IInv, TypeOK
    <3>. QED
      BY <1>1, <2>2, <2>3, <3>3, <3>4, <3>5 DEF n
  <2>4. CASE ~(d = c /\ k = n)
    <3>1. d = c => ALL_EVALUATORS[k] # ALL_EVALUATORS[n]
      BY <1>2, <2>4, TypeFacts, RegistryFacts DEF IInv
    <3>2. JudgeCallsOf(d, k)' = JudgeCallsOf(d, k)
      BY <1>1, <1>3, <1>4, <3>1, PaidForNames DEF JudgeCallsOf
    <3>3. (IF k = Len(outcomes[d]) THEN call_log'[d] ELSE 0)
             = IF k = Len(outcomes[d]) THEN call_log[d] ELSE 0
      BY <1>1, <2>4 DEF IInv, TypeOK, n
    <3>. QED
      BY <2>2, <3>2, <3>3
  <2>. QED
    BY <2>3, <2>4
<1>10. FailureInv' /\ RegressionEvaluatedOnce'
  BY <1>1 DEF IInv, FailureInv, Classified, RegressionEvaluatedOnce
<1>. QED
  BY <1>5, <1>6, <1>7, <1>8, <1>9, <1>10 DEF IInv, SpendInv

\* One turn of the loop adds one outcome and its row: the next one in the
\* registry, so the rows stay in order; and the constraint on the first row
\* of a regression keeps every other call out.
LEMMA EvaluateNextStep ==
    ASSUME IInv, NEW c \in Calls, EvaluateNext(c) PROVE IInv'
<1>. DEFINE rows == evaluation_results
            e == NextEvaluator(c)
            n == Len(outcomes[c]) + 1
            m == Len(rows) + 1
<1>1. /\ pc[c] = "evaluate" /\ call_log[c] = 0 /\ ~Conflicts(c)
      /\ Len(outcomes[c]) < Len(ALL_EVALUATORS)
      /\ UNCHANGED <<agent_runs, judge_calls, run_failures, pc,
                     run, configured, regression, judge_errors>>
  BY DEF EvaluateNext, MayEvaluate
<1>2. PICK o \in OutcomesOf(c, e) :
         /\ evaluation_results' = Append(rows, ResultRow(c, e, o))
         /\ outcomes' = [outcomes EXCEPT ![c] = Append(@, o)]
         /\ call_log' = [call_log EXCEPT ![c] = o.attempts]
  BY DEF EvaluateNext
<1>. DEFINE row == ResultRow(c, e, o)
<1>3. /\ run[c] \in RunIds
      /\ n \in DOMAIN ALL_EVALUATORS /\ e = ALL_EVALUATORS[n] /\ e \in Evaluators
  <2>1. Len(outcomes[c]) \in Nat
    BY TypeFacts DEF IInv
  <2>. QED
    BY <1>1, <2>1, RegistryFacts DEF IInv, CallInv, NextEvaluator
<1>4. /\ o \in Outcome /\ o.attempts \in Nat
      /\ e \notin Judges => o.attempts = 0
  BY <1>3, OutcomeFacts DEF Outcome
<1>5. /\ row \in EvaluationResult
      /\ row.label # None <=> row.status = "completed"
      /\ row.call = c /\ row.run_id = run[c] /\ row.evaluator_name = e
      /\ row.regression_run_id = regression[c]
      /\ RowOutcome(row) = Stored(o)
  BY <1>3, ResultRowFacts DEF IInv
<1>. HIDE DEF row, e
<1>6. /\ rows' \in Seq(EvaluationResult)
      /\ DOMAIN rows' = DOMAIN rows \cup {m}
      /\ rows'[m] = row
      /\ \A i \in DOMAIN rows : i < m /\ i \in Nat /\ rows'[i] = rows[i]
  BY <1>2, <1>5, AppendFacts, TypeFacts DEF row, IInv
<1>7. /\ outcomes'[c] \in Seq(Outcome) /\ Len(outcomes'[c]) = n
      /\ DOMAIN outcomes'[c] = DOMAIN outcomes[c] \cup {n}
      /\ outcomes'[c][n] = o
      /\ \A k \in DOMAIN outcomes[c] : k < n /\ outcomes'[c][k] = outcomes[c][k]
      /\ \A d \in Calls : d # c => outcomes'[d] = outcomes[d]
  <2>1. outcomes'[c] = Append(outcomes[c], o)
    BY <1>2 DEF IInv, TypeOK
  <2>2. outcomes[c] \in Seq(Outcome)
    BY DEF IInv, TypeOK
  <2>3. \A d \in Calls : d # c => outcomes'[d] = outcomes[d]
    BY <1>2 DEF IInv, TypeOK
  <2>. QED
    BY <1>4, <2>1, <2>2, <2>3, AppendFacts
<1>8. /\ \A d \in Calls : call_log'[d] = IF d = c THEN o.attempts ELSE call_log[d]
      /\ call_log' \in [Calls -> Nat]
  BY <1>2, <1>4 DEF IInv, TypeOK
<1>. HIDE DEF n, m
<1>9. TypeOK'
  <2>1. outcomes' \in [Calls -> Seq(Outcome)]
    BY <1>2, <1>7 DEF IInv, TypeOK
  <2>2. \A d \in Calls : Len(outcomes'[d]) <= Len(ALL_EVALUATORS)
    <3>1. n <= Len(ALL_EVALUATORS)
      BY <1>3, RegistryFacts
    <3>. QED
      BY <1>7, <3>1 DEF IInv, TypeOK
  <2>3. \A other \in ToSet(rows') : other.label # None <=> other.status = "completed"
    BY <1>5, <1>6 DEF IInv, TypeOK, ToSet
  <2>. QED
    BY <1>1, <1>6, <1>8, <2>1, <2>2, <2>3 DEF IInv, TypeOK
<1>10. CallInv'
  <2>1. o.attempts > 0 => e \in Judges
    BY <1>4
  <2>2. outcomes'[c] # << >> /\ Len(outcomes'[c]) = n
    BY <1>7
  <2>. QED
    BY <1>1, <1>3, <1>7, <1>8, <2>1, <2>2 DEF IInv, CallInv, Persisted
<1>11. RowsAreOutcomes'
  <2>. SUFFICES ASSUME NEW i \in DOMAIN rows'
                PROVE  LET d == rows'[i].call
                       IN /\ rows'[i].run_id = run[d]
                          /\ rows'[i].regression_run_id = regression[d]
                          /\ \E k \in DOMAIN outcomes'[d] :
                                /\ rows'[i].evaluator_name = ALL_EVALUATORS[k]
                                /\ RowOutcome(rows'[i]) = Stored(outcomes'[d][k])
    BY <1>1 DEF RowsAreOutcomes, RowOutcome, Stored
  <2>1. CASE i = m
    BY <1>3, <1>5, <1>6, <1>7, <2>1
  <2>2. CASE i \in DOMAIN rows
    <3>1. rows'[i] = rows[i] /\ rows[i].call \in Calls
      BY <1>6, <2>2, TypeFacts DEF IInv
    <3>2. /\ rows[i].run_id = run[rows[i].call]
          /\ rows[i].regression_run_id = regression[rows[i].call]
      BY <2>2 DEF IInv, ResultsInv, RowsAreOutcomes
    <3>3. PICK k \in DOMAIN outcomes[rows[i].call] :
              /\ rows[i].evaluator_name = ALL_EVALUATORS[k]
              /\ RowOutcome(rows[i]) = Stored(outcomes[rows[i].call][k])
      BY <2>2 DEF IInv, ResultsInv, RowsAreOutcomes
    <3>4. /\ k \in DOMAIN outcomes'[rows[i].call]
          /\ outcomes'[rows[i].call][k] = outcomes[rows[i].call][k]
      BY <1>7, <3>1, <3>3
    <3>. QED
      BY <3>1, <3>2, <3>3, <3>4
  <2>. QED
    BY <1>6, <2>1, <2>2
<1>12. OutcomesAreRows'
  <2>. SUFFICES ASSUME NEW d \in Calls, NEW k \in DOMAIN outcomes'[d]
                PROVE  \E i \in DOMAIN rows' :
                          rows'[i].call = d /\ rows'[i].evaluator_name = ALL_EVALUATORS[k]
    BY DEF OutcomesAreRows, ResultsOf
  <2>1. CASE d = c /\ k = n
    BY <1>3, <1>5, <1>6, <2>1
  <2>2. CASE k \in DOMAIN outcomes[d]
    <3>1. PICK i \in DOMAIN rows :
              rows[i].call = d /\ rows[i].evaluator_name = ALL_EVALUATORS[k]
      BY <2>2 DEF IInv, ResultsInv, OutcomesAreRows, ResultsOf
    <3>. QED
      BY <1>6, <3>1
  <2>. QED
    BY <1>7, <2>1, <2>2
<1>13. RowsInOrder'
  <2>. SUFFICES ASSUME NEW i \in DOMAIN rows', NEW j \in DOMAIN rows',
                       NEW k \in DOMAIN ALL_EVALUATORS, NEW l \in DOMAIN ALL_EVALUATORS,
                       rows'[i].call = rows'[j].call,
                       rows'[i].evaluator_name = ALL_EVALUATORS[k],
                       rows'[j].evaluator_name = ALL_EVALUATORS[l]
                PROVE  i < j <=> k < l
    BY DEF RowsInOrder
  <2>1. \A a \in DOMAIN rows, b \in DOMAIN ALL_EVALUATORS :
           rows[a].call = c /\ rows[a].evaluator_name = ALL_EVALUATORS[b] => b < n
    <3>. SUFFICES ASSUME NEW a \in DOMAIN rows, NEW b \in DOMAIN ALL_EVALUATORS,
                         rows[a].call = c, rows[a].evaluator_name = ALL_EVALUATORS[b]
                  PROVE  b < n
      OBVIOUS
    <3>1. PICK x \in DOMAIN outcomes[c] : rows[a].evaluator_name = ALL_EVALUATORS[x]
      BY DEF IInv, ResultsInv, RowsAreOutcomes
    <3>2. x = b
      BY <3>1, TypeFacts, RegistryFacts DEF IInv
    <3>. QED
      BY <1>7, <3>2
  <2>2. n \in Nat /\ m \in Nat /\ k \in Nat /\ l \in Nat
    BY <1>3, TypeFacts, RegistryFacts DEF IInv, m
  <2>3. CASE i = m /\ j = m
    BY <1>6, <2>2, <2>3, RegistryFacts
  <2>4. CASE i = m /\ j \in DOMAIN rows
    <3>1. k = n /\ l < n
      BY <1>3, <1>5, <1>6, <2>1, <2>4, RegistryFacts
    <3>. QED
      BY <1>6, <2>2, <2>4, <3>1
  <2>5. CASE i \in DOMAIN rows /\ j = m
    <3>1. l = n /\ k < n
      BY <1>3, <1>5, <1>6, <2>1, <2>5, RegistryFacts
    <3>. QED
      BY <1>6, <2>2, <2>5, <3>1
  <2>6. CASE i \in DOMAIN rows /\ j \in DOMAIN rows
    BY <1>6, <2>6 DEF IInv, ResultsInv, RowsInOrder
  <2>. QED
    BY <1>6, <2>3, <2>4, <2>5, <2>6
<1>14. JudgeCallsAreOutcomes'
  BY <1>1, <1>7, TypeFacts DEF IInv, SpendInv, JudgeCallsAreOutcomes
<1>15. SpendIsStored'
  <2>. SUFFICES ASSUME NEW d \in Calls,
                       pc[d] \in {"evaluate"} \cup Persisted, judge_errors[d] = 0,
                       NEW k \in DOMAIN outcomes'[d]
                PROVE  outcomes'[d][k].attempts = Cardinality(JudgeCallsOf(d, k)')
                          + IF k = Len(outcomes'[d]) THEN call_log'[d] ELSE 0
    BY <1>1 DEF SpendIsStored
  <2>1. CASE d = c /\ k = n
    <3>1. JudgeCallsOf(d, k)' = {}
      <4>1. ASSUME NEW i \in DOMAIN judge_calls, judge_calls[i].call = c
            PROVE  judge_calls[i].evaluator_name # ALL_EVALUATORS[n]
        <5>1. PICK x \in DOMAIN outcomes[c] :
                  judge_calls[i].evaluator_name = ALL_EVALUATORS[x]
          BY <4>1 DEF IInv, SpendInv, JudgeCallsAreOutcomes
        <5>2. x # n /\ x \in DOMAIN ALL_EVALUATORS
          BY <1>7, <5>1, TypeFacts DEF IInv
        <5>. QED
          BY <1>3, <5>1, <5>2, RegistryFacts
      <4>. QED
        BY <1>1, <2>1, <4>1, PaidForNames DEF JudgeCallsOf
    <3>. QED
      BY <1>4, <1>7, <1>8, <2>1, <3>1, FS_EmptySet
  <2>2. CASE k \in DOMAIN outcomes[d]
    <3>1. /\ outcomes'[d][k] = outcomes[d][k]
          /\ d = c => k # n
      BY <1>7, <2>2
    <3>2. JudgeCallsOf(d, k)' = JudgeCallsOf(d, k)
      BY <1>1, <3>1 DEF JudgeCallsOf
    <3>3. outcomes[d][k].attempts = Cardinality(JudgeCallsOf(d, k))
                          + IF k = Len(outcomes[d]) THEN call_log[d] ELSE 0
      BY <2>2 DEF IInv, SpendInv, SpendIsStored
    <3>4. (IF k = Len(outcomes'[d]) THEN call_log'[d] ELSE 0)
             = IF k = Len(outcomes[d]) THEN call_log[d] ELSE 0
      BY <1>1, <1>7, <1>8, <3>1
    <3>. QED
      BY <3>1, <3>2, <3>3, <3>4
  <2>. QED
    BY <1>7, <2>1, <2>2
<1>16. FailureInv'
  <2>1. ASSUME NEW r \in RunIds, NEW d \in Calls, Classified(r, d)
        PROVE  Classified(r, d)'
    <3>1. d # c
      BY <1>1, <2>1, TypeFacts, RegistryFacts DEF Classified, IInv
    <3>. QED
      BY <1>1, <1>7, <2>1, <3>1 DEF Classified
  <2>. QED
    BY <1>1, <2>1 DEF IInv, FailureInv
<1>17. RegressionEvaluatedOnce'
  <2>1. ASSUME NEW i \in DOMAIN rows,
               rows[i].run_id = run[c], rows[i].regression_run_id = regression[c],
               regression[c] # None
        PROVE  rows[i].call = c
    <3>. DEFINE d == rows[i].call
    <3>1. d \in Calls /\ run[d] = run[c] /\ regression[d] = regression[c]
      BY <2>1, TypeFacts DEF IInv, ResultsInv, RowsAreOutcomes
    <3>2. 1 \in DOMAIN outcomes[d]
      <4>1. PICK k \in DOMAIN outcomes[d] : TRUE
        BY DEF IInv, ResultsInv, RowsAreOutcomes
      <4>. QED
        BY <3>1, <4>1, TypeFacts DEF IInv
    <3>3. PICK j \in DOMAIN rows :
              rows[j].call = d /\ rows[j].evaluator_name = ALL_EVALUATORS[1]
      BY <3>1, <3>2 DEF IInv, ResultsInv, OutcomesAreRows, ResultsOf
    <3>4. rows[j].run_id = run[c] /\ rows[j].regression_run_id = regression[c]
      BY <3>1, <3>3 DEF IInv, ResultsInv, RowsAreOutcomes
    <3>5. CASE n = 1
      \* The first row of d is in the way.
      <4>1. Conflicts(c)
        BY <1>3, <2>1, <3>3, <3>4, <3>5 DEF Conflicts, ToSet, e
      <4>. QED
        BY <1>1, <4>1
    <3>6. CASE n # 1
      \* The first row of c is there already.
      <4>1. 1 \in DOMAIN outcomes[c]
        BY <3>6, TypeFacts DEF IInv, n
      <4>2. PICK x \in DOMAIN rows : rows[x].call = c
        BY <4>1 DEF IInv, ResultsInv, OutcomesAreRows, ResultsOf
      <4>3. rows[x].run_id = run[c] /\ rows[x].regression_run_id = regression[c]
        BY <4>2 DEF IInv, ResultsInv, RowsAreOutcomes
      <4>. QED
        BY <2>1, <4>2, <4>3 DEF IInv, RegressionEvaluatedOnce, ToSet
    <3>. QED
      BY <3>5, <3>6
  <2>. QED
    BY <1>5, <1>6, <2>1 DEF IInv, RegressionEvaluatedOnce, ToSet
<1>. QED
  BY <1>9, <1>10, <1>11, <1>12, <1>13, <1>14, <1>15, <1>16, <1>17
  DEF IInv, ResultsInv, SpendInv

\* Every step of an evaluation and of the system around it keeps the
\* invariant.
LEMMA NextIInv == IInv /\ [Next]_vars => IInv'
<1>. SUFFICES ASSUME IInv, [Next]_vars PROVE IInv'
  OBVIOUS
<1>1. ASSUME NEW r \in RunIds, IngestRun(r) PROVE IInv'
  BY <1>1, AgentRunsStep DEF IngestRun
<1>2. ASSUME NEW r \in RunIds, NEW g \in RegressionIds, LinkRun(r, g) PROVE IInv'
  BY <1>2, AgentRunsStep DEF LinkRun
<1>3. ASSUME NEW c \in Calls, Post(c) PROVE IInv'
  BY <1>3, PostStep
<1>4. ASSUME NEW c \in Calls, Serve(c) PROVE IInv'
  <2>1. CASE EvaluateConflicts(c)
    BY <2>1, AnswerStep DEF EvaluateConflicts, MayEvaluate, InProgress
  <2>. QED
    BY <1>4, <2>1, ReadViewStep, ReadRegressionStep, EvaluateNextStep,
       JudgeCallStep, PersistRunFailureStep, AnswerStep DEF Serve
<1>5. ASSUME NEW c \in Calls, Abort(c) PROVE IInv'
  BY <1>5, AnswerStep DEF Abort
<1>6. CASE UNCHANGED vars
  <2>. USE <1>6 DEF vars, tables, memory
  <2>1. \A d, k : JudgeCallsOf(d, k)' = JudgeCallsOf(d, k)
    BY DEF JudgeCallsOf
  <2>2. TypeOK' /\ CallInv' /\ FailureInv' /\ RegressionEvaluatedOnce'
    BY DEF IInv, TypeOK, CallInv, FailureInv, Classified, RegressionEvaluatedOnce
  <2>3. ResultsInv'
    BY DEF IInv, ResultsInv, RowsAreOutcomes, OutcomesAreRows, RowsInOrder, ResultsOf
  <2>4. SpendInv'
    BY <2>1 DEF IInv, SpendInv, JudgeCallsAreOutcomes, SpendIsStored
  <2>. QED
    BY <2>2, <2>3, <2>4 DEF IInv
<1>. QED
  BY <1>1, <1>2, <1>3, <1>4, <1>5, <1>6 DEF Next, Idle

\* The invariant holds in every reachable state of the evaluation service.
THEOREM Invariance == Spec => []IInv
BY InitIInv, NextIInv, PTL DEF Spec

-----------------------------------------------------------------------------
(* What follows from it.                                                   *)

\* Rows, calls in progress and classifications stay well typed.
THEOREM TypeCorrect == Spec => []TypeOK
BY Invariance, PTL DEF IInv

\* The results of one run for one regression come from one evaluation, for
\* any number of concurrent calls
\* (uq_evaluation_results_run_evaluator_version_regression).
THEOREM RegressionOnce == Spec => []RegressionEvaluatedOnce
BY Invariance, PTL DEF IInv

\* A call that got through the registry has stored a row for each evaluator,
\* in order, and they classify to what its outcomes do.
LEMMA FullEvaluation ==
    ASSUME IInv, NEW c \in Calls, Len(outcomes[c]) = Len(ALL_EVALUATORS)
    PROVE  /\ FullyEvaluated(c)
           /\ Classify(RowOutcomes({evaluation_results[i] : i \in ResultsOf(c)}))
                 = Classify(ToSet(outcomes[c]))
<1>. DEFINE rows == evaluation_results
<1>1. DOMAIN outcomes[c] = DOMAIN ALL_EVALUATORS
  BY TypeFacts, RegistryFacts DEF IInv
<1>2. ASSUME NEW k \in DOMAIN ALL_EVALUATORS
      PROVE  \E i \in ResultsOf(c) :
                /\ rows[i].evaluator_name = ALL_EVALUATORS[k]
                /\ RowOutcome(rows[i]) = Stored(outcomes[c][k])
  <2>1. PICK i \in ResultsOf(c) : rows[i].evaluator_name = ALL_EVALUATORS[k]
    BY <1>1 DEF IInv, ResultsInv, OutcomesAreRows
  <2>2. PICK l \in DOMAIN outcomes[c] :
           /\ rows[i].evaluator_name = ALL_EVALUATORS[l]
           /\ RowOutcome(rows[i]) = Stored(outcomes[c][l])
    BY <2>1 DEF IInv, ResultsInv, RowsAreOutcomes, ResultsOf
  <2>3. l = k
    BY <1>1, <2>1, <2>2, RegistryFacts
  <2>. QED
    BY <2>1, <2>2, <2>3
<1>3. ASSUME NEW i \in ResultsOf(c)
      PROVE  \E k \in DOMAIN outcomes[c] :
                /\ rows[i].evaluator_name = ALL_EVALUATORS[k]
                /\ RowOutcome(rows[i]) = Stored(outcomes[c][k])
  BY <1>3 DEF IInv, ResultsInv, RowsAreOutcomes, ResultsOf
<1>4. FullyEvaluated(c)
  <2>1. {rows[i].evaluator_name : i \in ResultsOf(c)} = Evaluators
    BY <1>1, <1>2, <1>3, RegistryFacts
  <2>2. \A i, j \in ResultsOf(c), k, l \in DOMAIN ALL_EVALUATORS :
           /\ rows[i].evaluator_name = ALL_EVALUATORS[k]
           /\ rows[j].evaluator_name = ALL_EVALUATORS[l]
           => (i < j <=> k < l)
    BY DEF IInv, ResultsInv, RowsInOrder, ResultsOf
  <2>. QED
    BY <2>1, <2>2 DEF FullyEvaluated
<1>5. Classify(RowOutcomes({rows[i] : i \in ResultsOf(c)})) = Classify(ToSet(outcomes[c]))
  <2>. DEFINE S == RowOutcomes({rows[i] : i \in ResultsOf(c)})
              T == ToSet(outcomes[c])
              Alike(o, p) == /\ o.execution_status = p.execution_status
                             /\ o.label = p.label /\ o.findings = p.findings
  <2>1. \A o : Alike(Stored(o), o)
    BY DEF Stored
  <2>2. S = {RowOutcome(rows[i]) : i \in ResultsOf(c)}
    BY DEF RowOutcomes
  <2>3. T = {outcomes[c][k] : k \in DOMAIN outcomes[c]}
    BY DEF ToSet
  <2>4. \A o \in S : \E p \in T : Alike(o, p)
    <3>. HIDE DEF Alike, S, T
    <3>. QED
      BY <1>3, <2>1, <2>2, <2>3
  <2>5. \A p \in T : \E o \in S : Alike(o, p)
    <3>. HIDE DEF Alike, S, T
    <3>. QED
      BY <1>1, <1>2, <2>1, <2>2, <2>3
  <2>. HIDE DEF S, T
  <2>6. Classify(S) = Classify(T)
    BY <2>4, <2>5, ClassifyReads
  <2>. QED
    BY <2>6 DEF S, T
<1>. QED
  BY <1>4, <1>5

\* No crash, fault or interleaving leaves a classification of a partial or
\* mixed evaluation (phase-5 Task 6).
THEOREM FailureTraceable == Spec => []FailureFromFullEvaluation
<1>1. IInv => FailureFromFullEvaluation
  <2>. SUFFICES ASSUME IInv, NEW r \in RunIds, run_failures[r] # None
                PROVE  \E c \in Calls :
                          /\ run[c] = r
                          /\ FullyEvaluated(c)
                          /\ run_failures[r] = Classify(RowOutcomes(
                                {evaluation_results[i] : i \in ResultsOf(c)}))
    BY DEF FailureFromFullEvaluation
  <2>1. PICK c \in Calls : Classified(r, c)
    BY DEF IInv, FailureInv
  <2>. QED
    BY <2>1, FullEvaluation DEF Classified
<1>. QED
  BY <1>1, Invariance, PTL

\* A judge call that could not be stored never costs the run its evaluation
\* (phase-6 Task 3, "Independent commit").
THEOREM JudgeErrorIsHarmless == Spec => []JudgeErrorKeepsEvaluation
<1>1. IInv => JudgeErrorKeepsEvaluation
  BY FullEvaluation DEF IInv, CallInv, Persisted, JudgeErrorKeepsEvaluation
<1>. QED
  BY <1>1, Invariance, PTL

\* A call answered 200 has stored every judge call that was paid for (phase-6
\* Task 3).
THEOREM SpendRecorded == Spec => []JudgeSpendRecorded
<1>1. IInv => JudgeSpendRecorded
  <2>. SUFFICES ASSUME IInv, NEW c \in Calls, pc[c] = "ok",
                       NEW k \in 1..Len(ALL_EVALUATORS)
                PROVE  outcomes[c][k].attempts = Cardinality(JudgeCallsOf(c, k))
    BY DEF JudgeSpendRecorded
  <2>1. /\ judge_errors[c] = 0 /\ call_log[c] = 0
        /\ Len(outcomes[c]) = Len(ALL_EVALUATORS)
    BY DEF IInv, CallInv, Persisted
  <2>2. k \in DOMAIN outcomes[c]
    BY <2>1, TypeFacts DEF IInv
  <2>3. outcomes[c][k].attempts = Cardinality(JudgeCallsOf(c, k)) + 0
    BY <2>1, <2>2 DEF IInv, SpendInv, SpendIsStored, Persisted
  <2>. QED
    BY <2>3, JudgeCallsFinite DEF IInv
<1>. QED
  BY <1>1, Invariance, PTL

\* A call never forgets an outcome.
LEMMA OutcomesGrow ==
    ASSUME IInv, [Next]_vars, NEW c \in Calls
    PROVE  ToSet(outcomes[c]) \subseteq ToSet(outcomes'[c])
<1>1. CASE UNCHANGED outcomes
  BY <1>1
<1>2. ASSUME NEW d \in Calls, EvaluateNext(d)
      PROVE  ToSet(outcomes[c]) \subseteq ToSet(outcomes'[c])
  <2>1. PICK o \in OutcomesOf(d, NextEvaluator(d)) :
            outcomes' = [outcomes EXCEPT ![d] = Append(@, o)]
    BY <1>2 DEF EvaluateNext
  <2>2. CASE c # d
    BY <2>1, <2>2 DEF IInv, TypeOK
  <2>3. CASE c = d
    <3>1. outcomes'[c] = Append(outcomes[c], o) /\ outcomes[c] \in Seq(Outcome)
      BY <2>1, <2>3 DEF IInv, TypeOK
    <3>2. o \in Outcome
      <4>1. NextEvaluator(d) \in Evaluators
        BY <1>2, TypeFacts, RegistryFacts DEF IInv, EvaluateNext, MayEvaluate, NextEvaluator
      <4>. QED
        BY <2>1, <4>1, OutcomeFacts
    <3>. QED
      BY <3>1, <3>2, AppendFacts DEF ToSet
  <2>. QED
    BY <2>2, <2>3
<1>. QED
  BY <1>1, <1>2 DEF Next, Idle, IngestRun, LinkRun, Post, Serve, ReadView,
     ReadRegression, EvaluateConflicts, PersistJudgeCall, JudgeCallFails,
     PersistRunFailure, Respond, Abort, Answer, vars, memory

\* No evaluator makes what the ones before it found look better, whatever the
\* registry and the outcomes (phase-5 Task 3).
THEOREM NothingMasked == Spec => NoEvaluatorMasksAnother
<1>. DEFINE Worse == \A c \in Calls :
                NoBetter(Classify(ToSet(outcomes'[c])), Classify(ToSet(outcomes[c])))
<1>1. IInv /\ [Next]_vars => Worse
  BY OutcomesGrow, ClassifyMonotone
<1>. QED
  BY <1>1, Invariance, PTL DEF Spec, NoEvaluatorMasksAnother

-----------------------------------------------------------------------------
(* The same with the history variable.                                     *)

\* All results of c are stored before those of d.
Before(c, d) == \A i \in ResultsOf(c), j \in ResultsOf(d) : i < j

\* Two evaluations of one run that did not overlap with each other.
Apart(c, d) == c # d /\ run[c] = run[d] /\ ~({c, d} \subseteq overlapped)

\* They come one after the other.
OverlapInv ==
    \A c, d \in Calls : Apart(c, d) =>
        /\ pc[d] \in InProgress => pc[c] \notin InProgress /\ Before(c, d)
        /\ Before(c, d) \/ Before(d, c)

\* The stored classification is that of the last one.
WriterInv ==
    \A r \in RunIds : run_failures[r] # None =>
        \E w \in Calls :
            /\ Classified(r, w)
            /\ \A c \in Calls : Apart(c, w) /\ pc[c] \in Persisted => Before(c, w)

HIInv == IInv /\ OverlapInv /\ WriterInv

\* The invariant with history holds initially.
LEMMA InitHIInv == HInit => HIInv
<1>. SUFFICES ASSUME HInit PROVE HIInv
  OBVIOUS
<1>1. IInv
  BY InitIInv DEF HInit
<1>2. OverlapInv /\ WriterInv
  BY DEF HInit, Init, OverlapInv, WriterInv, InProgress, Before, ResultsOf
<1>. QED
  BY <1>1, <1>2 DEF HIInv

\* The history variable takes nothing away from Evaluation.
LEMMA HistoryIsNext == [HNext]_history_vars => [Next]_vars
BY DEF HNext, HPost, HServe, Next, Serve, history_vars

\* A step that stores no result and starts no call.
LEMMA QuietStep ==
    ASSUME HIInv, UNCHANGED <<evaluation_results, run, overlapped>>,
           \A c \in Calls : pc'[c] \in InProgress => pc[c] \in InProgress
    PROVE  OverlapInv'
<1>1. \A c, d : Apart(c, d)' <=> Apart(c, d)
  BY DEF Apart
<1>2. \A c, d : Before(c, d)' <=> Before(c, d)
  BY DEF Before, ResultsOf
<1>. QED
  BY <1>1, <1>2 DEF HIInv, OverlapInv

\* A step that also leaves what is classified alone.
LEMMA SameWriterStep ==
    ASSUME HIInv, UNCHANGED <<evaluation_results, run, overlapped, outcomes, run_failures>>,
           \A c \in Calls : pc'[c] \in Persisted => pc[c] \in Persisted
    PROVE  WriterInv'
<1>1. \A c, d : Apart(c, d)' <=> Apart(c, d)
  BY DEF Apart
<1>2. \A c, d : Before(c, d)' <=> Before(c, d)
  BY DEF Before, ResultsOf
<1>3. \A r, c : Classified(r, c)' <=> Classified(r, c)
  BY DEF Classified
<1>. QED
  BY <1>1, <1>2, <1>3 DEF HIInv, WriterInv

\* A new call overlaps with every call of its run that is under way.
LEMMA HPostStep ==
    ASSUME HIInv, NEW c \in Calls, HPost(c)
    PROVE  OverlapInv' /\ WriterInv'
<1>1. /\ pc[c] = "unsent" /\ pc' = [pc EXCEPT ![c] = "view"]
      /\ \A d \in Calls : d # c => run'[d] = run[d] /\ pc'[d] = pc[d]
      /\ pc'[c] = "view"
      /\ UNCHANGED <<evaluation_results, outcomes, run_failures>>
      /\ overlapped \subseteq overlapped'
      /\ UnderWay(run'[c]) # {} =>
            UnderWay(run'[c]) \subseteq overlapped' /\ c \in overlapped'
  BY DEF HPost, Post, HIInv, IInv, TypeOK, tables
<1>2. ResultsOf(c) = {}
  BY <1>1 DEF HIInv, IInv, CallInv, ResultsInv, RowsAreOutcomes, ResultsOf
<1>3. \A x, y : Before(x, y)' <=> Before(x, y)
  BY <1>1 DEF Before, ResultsOf
<1>4. \A x : Before(c, x) /\ Before(x, c)
  BY <1>2 DEF Before
<1>5. ASSUME NEW x \in Calls, NEW y \in Calls, x # c, y # c, Apart(x, y)'
      PROVE  Apart(x, y)
  BY <1>1, <1>5 DEF Apart
<1>6. ASSUME NEW x \in Calls, x # c, pc[x] \in InProgress, run'[c] = run'[x]
      PROVE  x \in overlapped' /\ c \in overlapped'
  <2>1. x \in UnderWay(run'[c])
    BY <1>1, <1>6 DEF UnderWay
  <2>. QED
    BY <1>1, <2>1
<1>7. OverlapInv'
  <2>. SUFFICES ASSUME NEW x \in Calls, NEW y \in Calls, Apart(x, y)'
                PROVE  /\ pc'[y] \in InProgress =>
                             pc'[x] \notin InProgress /\ Before(x, y)'
                       /\ Before(x, y)' \/ Before(y, x)'
    BY DEF OverlapInv
  <2>1. CASE x # c /\ y # c
    BY <1>1, <1>3, <1>5, <2>1 DEF HIInv, OverlapInv
  <2>2. CASE x = c \/ y = c
    <3>1. ~(pc'[x] \in InProgress /\ pc'[y] \in InProgress)
      BY <1>1, <1>6, <2>2 DEF Apart
    <3>. QED
      BY <1>3, <1>4, <2>2, <3>1
  <2>. QED
    BY <2>1, <2>2
<1>8. WriterInv'
  <2>. SUFFICES ASSUME NEW r \in RunIds, run_failures[r] # None
                PROVE  \E w \in Calls :
                          /\ Classified(r, w)'
                          /\ \A x \in Calls :
                                Apart(x, w)' /\ pc'[x] \in Persisted => Before(x, w)'
    BY <1>1 DEF WriterInv
  <2>1. PICK w \in Calls :
            /\ Classified(r, w)
            /\ \A x \in Calls : Apart(x, w) /\ pc[x] \in Persisted => Before(x, w)
    BY DEF HIInv, WriterInv
  <2>2. w # c
    BY <1>1, <2>1, RegistryFacts DEF HIInv, IInv, CallInv, Classified
  <2>3. Classified(r, w)'
    BY <1>1, <2>1, <2>2 DEF Classified
  <2>. QED
    BY <1>1, <1>3, <1>4, <1>5, <2>1, <2>2, <2>3
<1>. QED
  BY <1>7, <1>8

\* A result is stored behind those of every call that is not under way.
LEMMA HEvaluateNextStep ==
    ASSUME HIInv, NEW c \in Calls, EvaluateNext(c), UNCHANGED overlapped
    PROVE  OverlapInv' /\ WriterInv'
<1>. DEFINE rows == evaluation_results
            m == Len(rows) + 1
<1>1. /\ pc[c] = "evaluate" /\ UNCHANGED <<run, pc, run_failures>>
      /\ Len(outcomes[c]) < Len(ALL_EVALUATORS)
      /\ \A d \in Calls : d # c => outcomes'[d] = outcomes[d]
  BY DEF EvaluateNext, MayEvaluate, HIInv, IInv, TypeOK
<1>2. /\ DOMAIN rows' = DOMAIN rows \cup {m}
      /\ rows'[m].call = c
      /\ \A i \in DOMAIN rows : i < m /\ rows'[i] = rows[i]
  <2>1. PICK row : rows' = Append(rows, row) /\ row.call = c
    BY DEF EvaluateNext, ResultRow
  <2>2. rows \in Seq(EvaluationResult) /\ rows \in Seq(EvaluationResult \cup {row})
    BY DEF HIInv, IInv, TypeOK
  <2>. HIDE DEF rows
  <2>3. rows' = Append(rows, row) /\ row \in EvaluationResult \cup {row}
    BY <2>1
  <2>. QED
    BY <2>1, <2>2, <2>3, AppendFacts
<1>3. /\ ResultsOf(c)' = ResultsOf(c) \cup {m}
      /\ \A d : d # c => ResultsOf(d)' = ResultsOf(d)
      /\ \A d : \A i \in ResultsOf(d) : i < m
  <2>. HIDE DEF m
  <2>. QED
    BY <1>2 DEF ResultsOf
<1>4. \A x, y : Apart(x, y)' <=> Apart(x, y)
  BY <1>1 DEF Apart
<1>5. \A d : d # c => (Before(d, c)' <=> Before(d, c))
  BY <1>3 DEF Before
<1>6. \A x, y : x # c /\ y # c => (Before(x, y)' <=> Before(x, y))
  BY <1>3 DEF Before
<1>7. ASSUME NEW d \in Calls, Apart(c, d)
      PROVE  pc[d] \notin InProgress /\ Before(d, c)
  BY <1>1, <1>7 DEF HIInv, OverlapInv, Apart, InProgress
<1>8. OverlapInv'
  <2>. SUFFICES ASSUME NEW x \in Calls, NEW y \in Calls, Apart(x, y)
                PROVE  /\ pc[y] \in InProgress =>
                             pc[x] \notin InProgress /\ Before(x, y)'
                       /\ Before(x, y)' \/ Before(y, x)'
    BY <1>1, <1>4 DEF OverlapInv
  <2>1. CASE x # c
    BY <1>5, <1>6, <1>7, <2>1 DEF HIInv, OverlapInv, Apart
  <2>2. CASE x = c
    BY <1>5, <1>7, <2>2 DEF HIInv, OverlapInv, Apart
  <2>. QED
    BY <2>1, <2>2
<1>9. WriterInv'
  <2>. SUFFICES ASSUME NEW r \in RunIds, run_failures[r] # None
                PROVE  \E w \in Calls :
                          /\ Classified(r, w)'
                          /\ \A x \in Calls :
                                Apart(x, w)' /\ pc[x] \in Persisted => Before(x, w)'
    BY <1>1 DEF WriterInv
  <2>1. PICK w \in Calls :
            /\ Classified(r, w)
            /\ \A x \in Calls : Apart(x, w) /\ pc[x] \in Persisted => Before(x, w)
    BY DEF HIInv, WriterInv
  <2>2. w # c
    BY <1>1, <2>1, TypeFacts, RegistryFacts DEF HIInv, IInv, Classified
  <2>3. Classified(r, w)'
    BY <1>1, <2>1, <2>2 DEF Classified
  <2>4. pc[c] \notin Persisted
    BY <1>1 DEF Persisted
  <2>. QED
    BY <1>4, <1>6, <2>1, <2>2, <2>3, <2>4
<1>. QED
  BY <1>8, <1>9

\* Who stores a classification is under way, so those that were not under way
\* with it have stored their results before.
LEMMA HPersistRunFailureStep ==
    ASSUME HIInv, NEW c \in Calls, PersistRunFailure(c), UNCHANGED overlapped
    PROVE  OverlapInv' /\ WriterInv'
<1>. USE DEF PersistRunFailure, memory
<1>1. OverlapInv'
  BY QuietStep DEF HIInv, IInv, TypeOK, InProgress
<1>2. /\ \A x, y : Apart(x, y)' <=> Apart(x, y)
      /\ \A x, y : Before(x, y)' <=> Before(x, y)
      /\ run[c] \in RunIds
      /\ \A d \in Calls : d # c => pc'[d] = pc[d]
  BY DEF Apart, Before, ResultsOf, HIInv, IInv, TypeOK, CallInv
<1>3. WriterInv'
  <2>. SUFFICES ASSUME NEW r \in RunIds, run_failures'[r] # None
                PROVE  \E w \in Calls :
                          /\ Classified(r, w)'
                          /\ \A x \in Calls :
                                Apart(x, w)' /\ pc'[x] \in Persisted => Before(x, w)'
    BY DEF WriterInv
  <2>1. CASE r = run[c]
    <3>1. Classified(r, c)'
      BY <1>2, <2>1 DEF Classified, HIInv, IInv, TypeOK
    <3>2. \A x \in Calls : Apart(x, c) => Before(x, c)
      BY DEF HIInv, OverlapInv, InProgress
    <3>. QED
      BY <1>2, <3>1, <3>2
  <2>2. CASE r # run[c]
    <3>1. run_failures'[r] = run_failures[r]
      BY <1>2, <2>2 DEF HIInv, IInv, TypeOK
    <3>2. PICK w \in Calls :
            /\ Classified(r, w)
            /\ \A x \in Calls : Apart(x, w) /\ pc[x] \in Persisted => Before(x, w)
      BY <3>1 DEF HIInv, WriterInv
    <3>3. Classified(r, w)'
      BY <3>1, <3>2 DEF Classified
    <3>4. ~Apart(c, w)
      BY <2>2, <3>2 DEF Apart, Classified
    <3>. QED
      BY <1>2, <3>2, <3>3, <3>4
  <2>. QED
    BY <2>1, <2>2
<1>. QED
  BY <1>1, <1>3

\* Every step with its history keeps the invariant with history.
LEMMA NextHIInv == HIInv /\ [HNext]_history_vars => HIInv'
<1>. SUFFICES ASSUME HIInv, [HNext]_history_vars PROVE HIInv'
  OBVIOUS
<1>1. IInv'
  BY HistoryIsNext, NextIInv DEF HIInv
<1>2. ASSUME UNCHANGED <<evaluation_results, run, overlapped, outcomes, run_failures>>,
             \A d \in Calls : pc'[d] \in InProgress => pc[d] \in InProgress,
             \A d \in Calls : pc'[d] \in Persisted => pc[d] \in Persisted
      PROVE  HIInv'
  BY <1>1, <1>2, QuietStep, SameWriterStep DEF HIInv
<1>3. CASE UNCHANGED <<evaluation_results, run, overlapped, outcomes, run_failures, pc>>
  BY <1>2, <1>3
<1>4. ASSUME NEW c \in Calls, HPost(c) PROVE HIInv'
  BY <1>1, <1>4, HPostStep DEF HIInv
<1>5. ASSUME NEW c \in Calls, HServe(c) PROVE HIInv'
  <2>1. CASE EvaluateNext(c) /\ UNCHANGED overlapped
    BY <1>1, <2>1, HEvaluateNextStep DEF HIInv
  <2>2. CASE PersistRunFailure(c) /\ UNCHANGED overlapped
    BY <1>1, <2>2, HPersistRunFailureStep DEF HIInv
  <2>3. CASE (ReadView(c) \/ ReadRegression(c)) /\ UNCHANGED overlapped
    BY <1>2, <2>3
    DEF ReadView, ReadRegression, tables, memory, HIInv, IInv, TypeOK, InProgress, Persisted
  <2>4. CASE EvaluateConflicts(c) /\ UNCHANGED overlapped
    BY <1>2, <2>4
    DEF EvaluateConflicts, Answer, tables, memory, HIInv, IInv, TypeOK, InProgress, Persisted
  <2>5. CASE Respond(c) /\ UNCHANGED overlapped
    BY <1>2, <2>5
    DEF Respond, Answer, tables, memory, HIInv, IInv, TypeOK, InProgress, Persisted
  <2>6. CASE (PersistJudgeCall(c) \/ JudgeCallFails(c)) /\ UNCHANGED overlapped
    BY <1>3, <2>6 DEF PersistJudgeCall, JudgeCallFails
  <2>. QED
    BY <1>5, <2>1, <2>2, <2>3, <2>4, <2>5, <2>6 DEF HServe
<1>6. ASSUME NEW c \in Calls, Abort(c), UNCHANGED overlapped PROVE HIInv'
  BY <1>2, <1>6 DEF Abort, Answer, tables, memory, HIInv, IInv, TypeOK, InProgress, Persisted
<1>7. ASSUME NEW r \in RunIds, IngestRun(r), UNCHANGED overlapped PROVE HIInv'
  BY <1>3, <1>7 DEF IngestRun, memory
<1>8. ASSUME NEW r \in RunIds, NEW g \in RegressionIds, LinkRun(r, g), UNCHANGED overlapped
      PROVE  HIInv'
  BY <1>3, <1>8 DEF LinkRun, memory
<1>9. CASE UNCHANGED history_vars
  BY <1>3, <1>9 DEF history_vars, vars, tables, memory
<1>. QED
  BY <1>4, <1>5, <1>6, <1>7, <1>8, <1>9 DEF HNext, Idle, history_vars

\* The invariant with history holds in every reachable state.
THEOREM HistoryInvariance == HSpec => []HIInv
BY InitHIInv, NextHIInv, PTL DEF HSpec

\* Some indices of a sequence have a last one.
LEMMA LastOf ==
    ASSUME NEW n \in Nat, NEW S \in SUBSET (1..n), S # {}
    PROVE  \E m \in S : \A k \in S : k <= m
<1>0. n \in Int /\ \A i \in S : i \in Int
  OBVIOUS
<1>. DEFINE T == {n - i : i \in S}
<1>1. T \subseteq Nat /\ T # {}
  <2>1. PICK i \in S : TRUE
    OBVIOUS
  <2>2. n - i \in T
    BY <2>1
  <2>. QED
    BY <2>2
<1>2. PICK x \in T : \A y \in T : <<y, x>> \notin OpToRel(<, Nat)
  BY <1>1, NatLessThanWellFounded, WFMin
<1>3. \A y \in T : ~(y < x)
  BY <1>1, <1>2 DEF OpToRel
<1>4. PICK m \in S : x = n - m
  BY <1>2
<1>5. ASSUME NEW k \in S PROVE k <= m
  <2>1. n - k \in T
    OBVIOUS
  <2>2. ~(n - k < n - m)
    BY <1>3, <1>4, <2>1
  <2>. HIDE DEF T
  <2>3. n \in Int /\ k \in Int /\ m \in Int
    BY ONLY <1>0, <1>4, <1>5
  <2>. QED
    BY ONLY <2>2, <2>3
<1>. QED
  BY <1>5

\* Every row of a run is followed by, or is, one its summary shows.
LEMMA LatestOf ==
    ASSUME TypeOK, NEW r \in RunIds, NEW i \in RowsOf(r)
    PROVE  \E m \in RowsOf(r) :
              /\ i <= m
              /\ evaluation_results[m] \in LatestRows(r)
              /\ evaluation_results[m].evaluator_name = evaluation_results[i].evaluator_name
<1>. DEFINE rows == evaluation_results
            S == {j \in RowsOf(r) : rows[j].evaluator_name = rows[i].evaluator_name}
<1>1. S \subseteq 1..Len(rows) /\ S # {} /\ Len(rows) \in Nat
  BY TypeFacts DEF RowsOf
<1>2. PICK m \in S : \A k \in S : k <= m
  BY <1>1, LastOf
<1>3. \A k \in RowsOf(r) : rows[k].evaluator_name = rows[m].evaluator_name => k <= m
  BY <1>2
<1>4. rows[m] \in LatestRows(r)
  BY <1>2, <1>3 DEF LatestRows
<1>. QED
  BY <1>2, <1>4

\* Of a run whose evaluations did not overlap, the failure block says what the
\* evaluation summary beside it says (get_run, phase-5 Task 7 "always-current
\* failure block").
THEOREM FailureCurrent == HSpec => []FailureIsCurrentUnlessOverlapped
<1>1. HIInv => FailureIsCurrentUnlessOverlapped
  <2>. DEFINE rows == evaluation_results
  <2>. SUFFICES ASSUME HIInv, NEW r \in RunIds,
                       \A row \in LatestRows(r) :
                          row.call \notin overlapped /\ pc[row.call] \in {"ok", "judge_error"},
                       LatestRows(r) # {}
                PROVE  run_failures[r] = Classify(RowOutcomes(LatestRows(r)))
    BY DEF FailureIsCurrentUnlessOverlapped, FailureIsCurrentOf
  <2>1. \A i \in RowsOf(r) : i \in DOMAIN rows /\ rows[i].run_id = r /\ rows[i].call \in Calls
                             /\ run[rows[i].call] = r /\ i \in ResultsOf(rows[i].call)
    BY TypeFacts DEF RowsOf, ResultsOf, HIInv, IInv, ResultsInv, RowsAreOutcomes
  <2>2. PICK i0 \in RowsOf(r) : rows[i0] \in LatestRows(r)
    BY DEF LatestRows
  <2>. DEFINE c == rows[i0].call
  <2>3. /\ c \in Calls /\ run[c] = r /\ c \notin overlapped
        /\ pc[c] \in Persisted /\ run_failures[r] # None
    BY <2>1, <2>2 DEF HIInv, IInv, CallInv, Persisted
  <2>4. PICK w \in Calls :
            /\ Classified(r, w)
            /\ \A x \in Calls : Apart(x, w) /\ pc[x] \in Persisted => Before(x, w)
    BY <2>3 DEF HIInv, WriterInv
  <2>5. run[w] = r /\ Len(outcomes[w]) = Len(ALL_EVALUATORS)
    BY <2>4 DEF Classified
  \* The writer of the classification has stored the rows that are shown.
  <2>6. ASSUME NEW i \in RowsOf(r), rows[i] \in LatestRows(r)
        PROVE  rows[i].call = w
    <3>. DEFINE d == rows[i].call
    <3>1. d \in Calls /\ run[d] = r /\ d \notin overlapped /\ pc[d] \in Persisted
      BY <2>1, <2>6 DEF Persisted
    <3>2. PICK k \in DOMAIN outcomes[w] : rows[i].evaluator_name = ALL_EVALUATORS[k]
      BY <2>1, <2>5, TypeFacts, RegistryFacts DEF HIInv, IInv
    <3>3. PICK j \in ResultsOf(w) : rows[j].evaluator_name = rows[i].evaluator_name
      BY <3>2 DEF HIInv, IInv, ResultsInv, OutcomesAreRows
    <3>4. j \in RowsOf(r)
      BY <2>5, <3>3 DEF ResultsOf, RowsOf, HIInv, IInv, ResultsInv, RowsAreOutcomes
    <3>5. PICK a \in RowsOf(r) : rows[a] = rows[i] /\ j <= a
      BY <2>6, <3>3, <3>4 DEF LatestRows
    <3>6. ASSUME d # w PROVE FALSE
      <4>1. Before(d, w)
        BY <2>4, <2>5, <3>1, <3>6 DEF Apart
      <4>2. a \in ResultsOf(d)
        BY <2>1, <3>5
      <4>3. a < j /\ a \in Nat /\ j \in Nat
        BY <3>3, <4>1, <4>2, TypeFacts DEF Before, ResultsOf, HIInv, IInv
      <4>. QED
        BY <3>5, <4>3
    <3>. QED
      BY <3>6
  <2>7. c = w
    BY <2>2, <2>6
  \* And nobody else has stored one after it.
  <2>8. ASSUME NEW i \in ResultsOf(w)
        PROVE  rows[i] \in LatestRows(r)
    <3>1. i \in RowsOf(r)
      BY <2>5 DEF ResultsOf, RowsOf, HIInv, IInv, ResultsInv, RowsAreOutcomes
    <3>2. PICK m \in RowsOf(r) : /\ i <= m /\ rows[m] \in LatestRows(r)
                                 /\ rows[m].evaluator_name = rows[i].evaluator_name
      BY <3>1, LatestOf DEF HIInv, IInv
    <3>3. m \in ResultsOf(w)
      BY <2>1, <2>6, <3>2
    <3>4. PICK k \in DOMAIN ALL_EVALUATORS : rows[i].evaluator_name = ALL_EVALUATORS[k]
      BY <3>1, TypeFacts, RegistryFacts DEF RowsOf, HIInv, IInv
    <3>5. ~(i < m) /\ i \in Nat /\ m \in Nat
      BY <3>1, <3>2, <3>3, <3>4, TypeFacts, RegistryFacts
      DEF ResultsOf, HIInv, IInv, ResultsInv, RowsInOrder
    <3>. QED
      BY <3>2, <3>5
  <2>9. LatestRows(r) = {rows[i] : i \in ResultsOf(w)}
    <3>1. \A row \in LatestRows(r) : \E i \in RowsOf(r) : row = rows[i]
      BY DEF LatestRows
    <3>. QED
      BY <2>1, <2>6, <2>8, <3>1
  <2>. QED
    BY <2>4, <2>5, <2>9, FullEvaluation DEF Classified, HIInv
<1>. QED
  BY <1>1, HistoryInvariance, PTL

=============================================================================
