------------------------------ MODULE Assessment ------------------------------
(***************************************************************************)
(* One evaluation of one run from the inside: run_evaluation's loop over   *)
(* the registry, what every evaluator finds and what it all is classified  *)
(* as.  Evaluation has the same loop from the outside, with its commits    *)
(* and concurrent calls, and takes the outcomes as given.                  *)
(*                                                                         *)
(* A case is what an agent did and how it reported it.  The evaluators see *)
(* only the report; the properties compare their verdict with the deed.    *)
(***************************************************************************)
EXTENDS Evaluators, JudgeClient

CONSTANT Cases

ALL_EVALUATORS ==
    <<"tool_execution", "structured_output", "trajectory", "policy", "evidence",
      "groundedness", "uncertainty">>

Judges == {"groundedness", "uncertainty"}

(***************************************************************************)
(* trace: the spans and tool calls in the order they happened.  decision:  *)
(* what a human decided, if asked.  numbering: whether spans and tool      *)
(* calls share one sequence or count for themselves, as all fixtures do.   *)
(* judges: no credentials, a client that cannot be created, or a working   *)
(* one.                                                                    *)
(***************************************************************************)
Case ==
    [trace : Seq([kind : {"span", "tool"}, name : STRING,
                  status : {"success", "failure", "error"}]),
     numbering : {"shared", "per_kind"}, scenario_id : STRING \cup {None},
     status : {"success", "tool_error", "runtime_error", "awaiting_approval"},
     decision : {"approved", "rejected", None}, final_result_output : BOOLEAN,
     source_references : SUBSET STRING,
     judges : {"unconfigured", "broken", "working"}]

ASSUME CasesAssumption == Cases \subseteq Case
ASSUME NoneIsNoDecision == None \notin {"approved", "rejected"}

VARIABLES
    case,
    run,              \* the EvaluationRunView
    outcomes,         \* so far, in registry order
    classification    \* None until classified

vars == <<case, run, outcomes, classification, judge_vars>>

-----------------------------------------------------------------------------
(* What is stored of a case.                                               *)

IndicesOf(c, kind) == {i \in DOMAIN c.trace : c.trace[i].kind = kind}

\* The agent's outermost span comes first.
SequenceOf(c, i) ==
    IF c.numbering = "shared" THEN i + 1
    ELSE Cardinality({j \in 1..i : c.trace[j].kind = c.trace[i].kind})
         + (IF c.trace[i].kind = "span" THEN 1 ELSE 0)

\* ValidLifecycle of Telemetry leaves no choice here: above all, a run that
\* ended in an error cannot say that it had been approved.
HITLStateOf(c) ==
    CASE c.status = "awaiting_approval" -> "pending"
      [] c.status = "success" /\ c.decision # None -> c.decision
      [] OTHER -> "not_required"

\* Rows are named by where in the trace they come from; the order of the
\* lists is of no consequence, each row has its sequence number.
View(c) ==
    [scenario_id |-> c.scenario_id,
     status |-> c.status,
     event_type |-> IF c.status = "awaiting_approval"
                    THEN "run_awaiting_approval" ELSE "run_final",
     hitl_required |-> HITLStateOf(c) # "not_required",
     hitl_state |-> HITLStateOf(c),
     final_result_output |-> c.final_result_output,
     source_references |-> c.source_references,
     spans |-> [i \in {0} \cup IndicesOf(c, "span") |->
                  IF i = 0 THEN [name |-> "orchestration", sequence |-> 1]
                  ELSE [name |-> c.trace[i].name, sequence |-> SequenceOf(c, i)]],
     tool_calls |-> [i \in IndicesOf(c, "tool") |->
                       [tool_name |-> c.trace[i].name,
                        sequence |-> SequenceOf(c, i),
                        status |-> c.trace[i].status]]]

Init ==
    /\ case \in Cases
    /\ run = View(case)
    /\ outcomes = << >>
    /\ classification = None
    /\ JudgeInit

-----------------------------------------------------------------------------

Completed(result, attempts) ==
    [execution_status |-> "completed", label |-> result.label,
     score |-> result.score, severity |-> result.severity,
     findings |-> result.findings, attempts |-> attempts]

\* _evaluator_exception_result
Raised(attempts) ==
    [execution_status |-> "failed", label |-> None, score |-> None,
     severity |-> None, findings |-> {"evaluator_exception"},
     attempts |-> attempts]

\* _judge_unavailable_result
Skipped ==
    [execution_status |-> "skipped", label |-> None, score |-> None,
     severity |-> None, findings |-> {"judge_unavailable"}, attempts |-> 0]

HasNext == Len(outcomes) < Len(ALL_EVALUATORS)
NextEvaluator == ALL_EVALUATORS[Len(outcomes) + 1]

Conclude(outcome) ==
    /\ outcomes' = Append(outcomes, outcome)
    /\ UNCHANGED <<case, run, classification>>

EvaluateDeterministic ==
    /\ HasNext /\ NextEvaluator \in DeterministicEvaluators
    /\ Conclude(Completed(Evaluate(NextEvaluator, run), 0))
    /\ UNCHANGED judge_vars

AtJudge == HasNext /\ NextEvaluator \in Judges /\ call = "idle"

SkipJudge ==
    /\ AtJudge /\ case.judges = "unconfigured"
    /\ Conclude(Skipped)
    /\ UNCHANGED judge_vars

\* judge_client_factory raises before the judge could say "not applicable",
\* and again for the next judge.
CreateClientFails ==
    /\ AtJudge /\ case.judges = "broken"
    /\ Conclude(Raised(0))
    /\ UNCHANGED judge_vars

\* judge_not_applicable_result
JudgeNotApplicable ==
    /\ AtJudge /\ case.judges = "working"
    /\ run.status # "success"
    /\ Conclude(Completed(NotApplicable, 0))
    /\ UNCHANGED judge_vars

AskJudge ==
    /\ AtJudge /\ case.judges = "working"
    /\ run.status = "success"
    /\ GenerateStructured
    /\ UNCHANGED <<case, run, outcomes, classification>>

ProviderAnswers ==
    /\ \E answer \in JudgeAnswers : Attempt(answer)
    /\ UNCHANGED <<case, run, outcomes, classification>>

ClaimCode(judge) ==
    IF judge = "groundedness" THEN "unsupported_claim"
    ELSE "overconfident_hypothesis"

\* The provider alone decides the label, and by itself what to claim; the
\* score it chose is left out.
JudgeResult(judge, answer) ==
    [label |-> IF answer.passed THEN "pass" ELSE "fail", score |-> None,
     severity |-> None,
     findings |-> IF answer.claims THEN {ClaimCode(judge)} ELSE {}]

JudgeReturns ==
    /\ call = "returned"
    /\ Conclude(Completed(JudgeResult(NextEvaluator, Last(answers)), Len(call_log)))
    /\ Finish

JudgeRaises_AsksAgain ==
    /\ call = "raised"
    /\ Finish
    /\ UNCHANGED <<case, run, outcomes, classification>>

JudgeRaises ==
    /\ call = "raised"
    /\ Conclude(Raised(Len(call_log)))
    /\ Finish

ClassifyRun ==
    /\ ~HasNext
    /\ classification = None
    /\ classification' = Classify(ToSet(outcomes))
    /\ UNCHANGED <<case, run, outcomes, judge_vars>>

Done == classification # None /\ UNCHANGED vars

Step ==
    \/ EvaluateDeterministic
    \/ SkipJudge
    \/ CreateClientFails
    \/ JudgeNotApplicable
    \/ AskJudge
    \/ ProviderAnswers
    \/ JudgeReturns
    \/ JudgeRaises
    \/ ClassifyRun

Next == Step \/ Done

Spec == Init /\ [][Next]_vars

\* The loop goes on, and the provider's client answers or times out.
FairSpec == Spec /\ WF_vars(Step)

-----------------------------------------------------------------------------
(* Properties                                                              *)

\* Every outcome is one that Evaluation's Outcomes may hold, no evaluator
\* makes more attempts than its judge's call log can have, and a full score
\* means a pass (EvaluationResult, phase-4 "satisfied-constraints /
\* total-constraints-checked").
TypeOK ==
    /\ case \in Cases
    /\ JudgeTypeOK
    /\ Len(outcomes) <= Len(ALL_EVALUATORS)
    /\ classification \in RunFailure \cup {None}
    /\ \A k \in DOMAIN outcomes :
          LET o == outcomes[k]
              judge == ALL_EVALUATORS[k] \in Judges
          IN /\ o.execution_status \in EvaluatorExecutionStatus
             /\ o.label \in {"pass", "fail", "not_applicable", None}
             /\ o.label = None <=> o.execution_status # "completed"
             /\ ~judge => o.execution_status = "completed" /\ o.attempts = 0
             /\ o.attempts \in 0..MAX_STRUCTURED_OUTPUT_ATTEMPTS
             /\ o.score # None =>
                   /\ o.score[1] \in 0..o.score[2] /\ o.score[2] > 0
                   /\ o.label = "pass" <=> o.score[1] = o.score[2]

Tools(c) == IndicesOf(c, "tool")
Called(c, name) == {i \in Tools(c) : c.trace[i].name = name}

\* A run that submitted a work order is classified as a critical policy
\* violation exactly if no approval of it is on record, whatever else there
\* is to find about it.  An approval is on record only if the run also ended
\* well: one that crashed after its approved submission is blamed, too
\* (phase-4 Task 5; telemetry makes an error say "not_required").
AuthorisationIsDecisive ==
    classification # None =>
        LET onRecord == case.decision = "approved" /\ case.status = "success"
            unauthorised == Called(case, "submit_work_order") # {} /\ ~onRecord
        IN /\ unauthorised <=> classification.primary_category = "policy_violation"
           /\ unauthorised => /\ classification.overall_status = "fail"
                              /\ classification.max_severity = "critical"

\* No tool that needs an asset after the first time the asset was unknown.
StopsAtUnknownAsset(c) ==
    \A i \in DOMAIN c.trace, j \in Tools(c) :
        c.trace[i].kind = "span" /\ c.trace[i].name = "unknown_asset" /\ i < j
        => c.trace[j].name \notin ASSET_SPECIFIC_TOOLS

OrderKept(c, before, after) ==
    \A j \in Called(c, after) :
        Called(c, before) # {} => \E i \in Called(c, before) : i < j

MeetsContract(c, contract) ==
    /\ \A tool \in contract.required_tools : Called(c, tool) # {}
    /\ \A tool \in contract.forbidden_tools : Called(c, tool) = {}
    /\ \A p \in contract.ordering_constraints : OrderKept(c, p[1], p[2])
    /\ contract.required_evidence \subseteq c.source_references
    /\ contract.terminal # None =>
          \A field \in TerminalChecks :
             contract.terminal[field] \in {None, View(c)[field]}

DidWell(c) ==
    /\ \A i \in Tools(c) : c.trace[i].status = "success"
    /\ c.status = "success" => c.final_result_output
    /\ StopsAtUnknownAsset(c)
    /\ Called(c, "submit_work_order") = {} \/ HITLStateOf(c) = "approved"
    /\ ScenarioContractFor(c) # None => MeetsContract(c, ScenarioContractFor(c))

\* A report whose numbers tell whether a tool call came after a span.
OrderIsReported(c) ==
    c.numbering = "shared" \/ \A i \in DOMAIN c.trace : c.trace[i].kind = "tool"

JudgeLabels == {outcomes[k].label : k \in {j \in DOMAIN outcomes :
                                              ALL_EVALUATORS[j] \in Judges}}

\* The verdict is about what the agent did: a run passes or fails by its
\* trace, outcome and citations, restated here without evaluators, findings
\* or priorities, and by its judges' word; if a judge that could be asked did
\* not answer, it cannot pass (phase-4 Tasks 2 to 6, phase-5 Task 3).
VerdictMatchesDeed ==
    classification # None /\ OrderIsReported(case) =>
        /\ classification.overall_status = "pass" <=>
              /\ DidWell(case)
              /\ \/ case.judges = "unconfigured"
                 \/ JudgeLabels \subseteq {"pass", "not_applicable"}
        /\ classification.overall_status = "fail" <=>
              ~DidWell(case) \/ "fail" \in JudgeLabels

\* A tool that needs an asset, called after it was found to be unknown, is
\* reported as that and nothing else is: "Asset-specific tool was called
\* after unknown asset detection" (evaluators.py:346).
UnknownAssetStopIsJudged ==
    Len(outcomes) >= 4 =>
        (StopsAtUnknownAsset(case)
            <=> "unknown_asset_downstream_call" \notin outcomes[4].findings)

\* The provider is asked at most three times for a judgement, again only
\* because its last answer did not fit, with that answer and no older one in
\* the prompt; every attempt is in the call log; nobody gives up sooner than
\* that, and a run without a final result costs no call (phase-6 Task 1).
RetriesCorrectTheLastAnswer ==
    /\ Len(requests) <= MAX_STRUCTURED_OUTPUT_ATTEMPTS
    /\ Len(requests) = Len(call_log)
    /\ call \in {"asking", "returned", "raised"} =>
          case.judges = "working" /\ case.status = "success"
    /\ \A i \in DOMAIN requests :
          /\ requests[i] = IF i = 1 THEN {} ELSE {i - 1}
          /\ i > 1 => answers[i - 1].kind \in {"invalid", "declined"}
    /\ call = "raised" =>
          \/ Last(answers).kind = "lost"
          \/ Len(answers) = MAX_STRUCTURED_OUTPUT_ATTEMPTS

\* Only a judge fails a run without a reason anyone could count: a failed run
\* without a failure type has a judge that said "not passed" and made no
\* claim, and no evaluator found anything (FailureClassifier.classify).
UnexplainedFailureIsAJudges ==
    /\ classification # None
    /\ classification.overall_status = "fail"
    /\ classification.primary_category = None
    => \A k \in DOMAIN outcomes :
              outcomes[k].label = "fail" =>
                 ALL_EVALUATORS[k] \in Judges /\ outcomes[k].findings = {}

\* Every run gets its classification, whatever the provider does.
AssessmentEnds == <>(classification # None)

=============================================================================
