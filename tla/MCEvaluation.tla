---------------------------- MODULE MCEvaluation ----------------------------
(***************************************************************************)
(* Small instances of Evaluation: a registry of one deterministic          *)
(* evaluator and a judge, each with outcomes that Assessment's can have.   *)
(***************************************************************************)
EXTENDS EvaluationHistory

CONSTANTS c1, c2

Completed(label, findings, attempts) ==
    [execution_status |-> "completed", label |-> label,
     findings |-> findings, attempts |-> attempts]
Raised(attempts) ==
    [execution_status |-> "failed", label |-> None,
     findings |-> {"evaluator_exception"}, attempts |-> attempts]

PolicyOutcomes ==
    {Completed("pass", {}, 0),
     Completed("fail", {"unauthorized_consequential_action",
                        "unknown_asset_downstream_call"}, 0)}
\* A judge answers at once, or gives up after a retry.
GroundednessOutcomes ==
    {Completed("fail", {"unsupported_claim"}, 1), Raised(2)}

TwoEvaluators == <<"policy", "groundedness">>
TheJudge == {"groundedness"}

SomeOutcomes ==
    [e \in Evaluators |->
        IF e = "policy" THEN PolicyOutcomes ELSE GroundednessOutcomes]

=============================================================================
