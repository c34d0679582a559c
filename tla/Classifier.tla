------------------------------ MODULE Classifier ------------------------------
(***************************************************************************)
(* FailureClassifier: what the evaluators found about a run, summed up in  *)
(* one overall status, a primary and a secondary failure type and a        *)
(* severity.  Only which outcomes there are matters, not their order, so   *)
(* the list of outcomes is a set here.  X_... is X with a bug in it.       *)
(***************************************************************************)
EXTENDS Integers, FiniteSets, Basics

EvaluatorExecutionStatus == {"completed", "failed", "skipped"}
OverallEvaluationStatus == {"pass", "fail", "incomplete"}

FAILURE_TYPE_PRIORITY ==
    <<"policy_violation", "output_validation_error", "tool_failure",
      "trajectory_error", "retrieval_failure", "unsupported_claim", "unknown">>

FailureType == {FAILURE_TYPE_PRIORITY[i] : i \in 1..7}

\* The index in FAILURE_TYPE_PRIORITY: the lower, the more important.
Priority(type) == CHOOSE i \in 1..7 : FAILURE_TYPE_PRIORITY[i] = type

FAILURE_TYPE_SEVERITY(type) ==
    CASE type = "policy_violation" -> "critical"
      [] type = "retrieval_failure" -> "warning"
      [] type = "unknown" -> None
      [] OTHER -> "error"

ASSUME NoneIsNoWord ==
    None \notin FailureType \cup {"warning", "error", "critical"}

SeverityOrder(severity) ==
    CASE severity = "warning" -> 1
      [] severity = "error" -> 2
      [] severity = "critical" -> 3
      [] OTHER -> -1   \* None: weighs nothing

\* The codes of the findings evaluators make.  The last two say that an
\* evaluator did not get to find anything.
FindingCode ==
    {"tool_call_failed", "tool_call_error", "empty_output",
     "missing_required_tool", "forbidden_tool_used", "ordering_violation",
     "terminal_condition_mismatch", "unknown_asset_downstream_call",
     "missing_required_evidence", "unauthorized_consequential_action",
     "unsupported_claim", "overconfident_hypothesis",
     "evaluator_exception", "judge_unavailable"}

FINDING_TO_FAILURE_TYPE(code) ==
    CASE code \in {"tool_call_failed", "tool_call_error"} -> "tool_failure"
      [] code = "empty_output" -> "output_validation_error"
      [] code \in {"missing_required_tool", "forbidden_tool_used",
                   "ordering_violation", "terminal_condition_mismatch",
                   "unknown_asset_downstream_call"} -> "trajectory_error"
      [] code = "missing_required_evidence" -> "retrieval_failure"
      [] code = "unauthorized_consequential_action" -> "policy_violation"
      [] code \in {"unsupported_claim", "overconfident_hypothesis"} ->
            "unsupported_claim"
      [] OTHER -> "unknown"

-----------------------------------------------------------------------------

Failures(outcomes) ==
    {o \in outcomes : o.execution_status = "completed" /\ o.label = "fail"}

OverallStatus_IncompleteFirst(outcomes) ==
    IF \E o \in outcomes : o.execution_status = "failed" THEN "incomplete"
    ELSE IF Failures(outcomes) # {} THEN "fail"
    ELSE "pass"

\* A confirmed failure outranks an evaluator that could not answer.
OverallStatus(outcomes) ==
    IF Failures(outcomes) # {} THEN "fail"
    ELSE IF \E o \in outcomes : o.execution_status = "failed" THEN "incomplete"
    ELSE "pass"

DetectedFailureTypes_OfSevere(outcomes) ==
    {FINDING_TO_FAILURE_TYPE(code) :
        code \in UNION {o.findings : o \in {f \in Failures(outcomes) : f.severity # None}}}

DetectedFailureTypes(outcomes) ==
    {FINDING_TO_FAILURE_TYPE(code) : code \in UNION {o.findings : o \in Failures(outcomes)}}

\* The type ranked first among some; None among none.
First(types) ==
    IF types = {} THEN None
    ELSE CHOOSE t \in types : \A u \in types : Priority(t) <= Priority(u)

MaxSeverity_DefaultsToInfo(types) ==
    LET severities == {FAILURE_TYPE_SEVERITY(t) : t \in types} \ {None}
    IN IF severities = {} THEN "info"
       ELSE CHOOSE s \in severities :
               \A u \in severities : SeverityOrder(u) <= SeverityOrder(s)

MaxSeverity(types) ==
    LET severities == {FAILURE_TYPE_SEVERITY(t) : t \in types} \ {None}
    IN IF severities = {} THEN None
       ELSE CHOOSE s \in severities :
               \A u \in severities : SeverityOrder(u) <= SeverityOrder(s)

Classify(outcomes) ==
    LET types == DetectedFailureTypes(outcomes)
        primary == First(types)
    IN [overall_status |-> OverallStatus(outcomes),
        primary_category |-> primary,
        secondary_category |-> First(types \ {primary}),
        max_severity |-> MaxSeverity(types)]

RunFailure ==
    [overall_status : OverallEvaluationStatus,
     primary_category : FailureType \cup {None},
     secondary_category : FailureType \cup {None},
     max_severity : {"warning", "error", "critical", None}]

\* A severity comes with a category, and a category with a confirmed failure.
Coherent(failure) ==
    /\ failure.max_severity # None => failure.primary_category # None
    /\ failure.primary_category # None => failure.overall_status = "fail"

ASSUME NoneIsNoFailure == None \notin RunFailure   \* "no row" is not a row

-----------------------------------------------------------------------------
(* How bad a classification is, for comparing two of them.                 *)

StatusOrder(status) ==
    CASE status = "pass" -> 0 [] status = "incomplete" -> 1 [] OTHER -> 2

\* worse is at least as bad as failure in every column that says how bad.
NoBetter(worse, failure) ==
    /\ StatusOrder(failure.overall_status) <= StatusOrder(worse.overall_status)
    /\ SeverityOrder(failure.max_severity) <= SeverityOrder(worse.max_severity)
    /\ failure.primary_category # None =>
          /\ worse.primary_category # None
          /\ Priority(worse.primary_category) <= Priority(failure.primary_category)

=============================================================================
