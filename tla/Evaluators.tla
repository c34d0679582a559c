------------------------------ MODULE Evaluators ------------------------------
(***************************************************************************)
(* The five deterministic evaluators, as functions of the stored run.      *)
(*                                                                         *)
(* A finding is its code.  A score is None or how many of how many checks  *)
(* were satisfied.  The lists of a contract do not repeat themselves, so   *)
(* they are sets here.  X_... is X with a bug in it.                       *)
(***************************************************************************)
EXTENDS Classifier, Sequences, SequencesExt

CONSTANT SCENARIO_CONTRACTS   \* the packaged contracts, by scenario_id

TerminalChecks == {"status", "event_type", "hitl_required", "hitl_state"}

ASSUME ContractsAssumption ==
    \A id \in DOMAIN SCENARIO_CONTRACTS :
        LET c == SCENARIO_CONTRACTS[id]
        IN /\ IsFiniteSet(c.required_tools) /\ IsFiniteSet(c.forbidden_tools)
           /\ IsFiniteSet(c.required_evidence)
           /\ IsFiniteSet(c.ordering_constraints)
           /\ c.terminal = None \/ DOMAIN c.terminal = TerminalChecks

ASSUME NoneIsNoLabel == None \notin {"pass", "fail", "not_applicable"}

\* Runs without a scenario, or with an unknown one, have no contract.
ScenarioContractFor(run) ==
    IF run.scenario_id \in DOMAIN SCENARIO_CONTRACTS
    THEN SCENARIO_CONTRACTS[run.scenario_id] ELSE None

ToolCalls(run) == ToSet(run.tool_calls)
PresentTools(run) == {t.tool_name : t \in ToolCalls(run)}

Ratio_Unguarded(satisfied, total) == <<satisfied, total>>

Ratio(satisfied, total) == IF total > 0 THEN <<satisfied, total>> ELSE None

\* Whatever an evaluator finds is a failure.
Judged(findings, score, severity) ==
    [label |-> IF findings = {} THEN "pass" ELSE "fail",
     score |-> score, severity |-> severity, findings |-> findings]

NotApplicable ==
    [label |-> "not_applicable", score |-> None, severity |-> None,
     findings |-> {}]

-----------------------------------------------------------------------------

ToolFindingCode(status) ==
    IF status = "failure" THEN "tool_call_failed" ELSE "tool_call_error"

ToolExecution(run) ==
    LET failed == {t \in ToolCalls(run) : t.status # "success"}
        all == DOMAIN run.tool_calls
        succeeded == {i \in all : run.tool_calls[i].status = "success"}
    IN Judged({ToolFindingCode(t.status) : t \in failed},
              Ratio(Cardinality(succeeded), Cardinality(all)), None)

StructuredOutput(run) ==
    IF run.status # "success" THEN NotApplicable
    ELSE Judged(IF run.final_result_output THEN {} ELSE {"empty_output"}, None, None)

-----------------------------------------------------------------------------
(* TrajectoryEvaluator and EvidenceEvaluator hold a run to its contract.   *)

FirstToolSequence_Last(run, tool) ==
    Max({t.sequence : t \in {u \in ToolCalls(run) : u.tool_name = tool}})

FirstToolSequence(run, tool) ==
    Min({t.sequence : t \in {u \in ToolCalls(run) : u.tool_name = tool}})

\* A pair is checked only when both of its tools were called.
OrderingChecks(run, contract) ==
    {p \in contract.ordering_constraints :
        p[1] \in PresentTools(run) /\ p[2] \in PresentTools(run)}

OrderingViolations(run, contract) ==
    {p \in OrderingChecks(run, contract) :
        FirstToolSequence(run, p[1]) >= FirstToolSequence(run, p[2])}

TerminalCheckFields(terminal) ==
    IF terminal = None THEN {} ELSE {f \in TerminalChecks : terminal[f] # None}

TerminalMismatches(run, terminal) ==
    {f \in TerminalCheckFields(terminal) : run[f] # terminal[f]}

Trajectory(run) ==
    LET contract == ScenarioContractFor(run)
        missing == contract.required_tools \ PresentTools(run)
        forbidden == contract.forbidden_tools \cap PresentTools(run)
        misordered == OrderingViolations(run, contract)
        mismatches == TerminalMismatches(run, contract.terminal)
        total == Cardinality(contract.required_tools)
                 + Cardinality(contract.forbidden_tools)
                 + Cardinality(OrderingChecks(run, contract))
                 + Cardinality(TerminalCheckFields(contract.terminal))
        violated == Cardinality(missing) + Cardinality(forbidden)
                    + Cardinality(misordered) + Cardinality(mismatches)
        findings ==
            (IF missing # {} THEN {"missing_required_tool"} ELSE {})
            \cup (IF forbidden # {} THEN {"forbidden_tool_used"} ELSE {})
            \cup (IF misordered # {} THEN {"ordering_violation"} ELSE {})
            \cup (IF mismatches # {} THEN {"terminal_condition_mismatch"} ELSE {})
    IN IF contract = None THEN NotApplicable
       ELSE Judged(findings, Ratio(total - violated, total), None)

Evidence(run) ==
    LET contract == ScenarioContractFor(run)
        missing == contract.required_evidence \ run.source_references
        total == Cardinality(contract.required_evidence)
    IN IF contract = None THEN NotApplicable
       ELSE Judged(IF missing # {} THEN {"missing_required_evidence"} ELSE {},
                   Ratio(total - Cardinality(missing), total), None)

-----------------------------------------------------------------------------
(* PolicyEvaluator holds every run to two rules.                           *)

ASSET_SPECIFIC_TOOLS ==
    {"get_asset_status", "get_maintenance_history", "create_work_order_draft",
     "submit_work_order"}

UnauthorizedActions_OnlyUndecided(run) ==
    {t \in ToolCalls(run) :
        /\ t.tool_name = "submit_work_order"
        /\ run.hitl_state \in {"not_required", "pending"}}

\* Work orders submitted by a run whose approval is not recorded.
UnauthorizedActions(run) ==
    {t \in ToolCalls(run) :
        /\ t.tool_name = "submit_work_order"
        /\ run.hitl_state # "approved"}

UnknownAssetSequences(run) ==
    {s.sequence : s \in {u \in ToSet(run.spans) : u.name = "unknown_asset"}}

\* A tool call's sequence is compared with a span's.
UnknownAssetCalls(run) ==
    {t \in ToolCalls(run) :
        /\ t.tool_name \in ASSET_SPECIFIC_TOOLS
        /\ UnknownAssetSequences(run) # {}
        /\ t.sequence > Min(UnknownAssetSequences(run))}

Policy(run) ==
    LET unauthorized == UnauthorizedActions(run) # {}
        downstream == UnknownAssetCalls(run) # {}
    IN Judged((IF unauthorized THEN {"unauthorized_consequential_action"} ELSE {})
              \cup (IF downstream THEN {"unknown_asset_downstream_call"} ELSE {}),
              None,
              IF unauthorized THEN "critical" ELSE IF downstream THEN "error"
              ELSE None)

DeterministicEvaluators ==
    {"tool_execution", "structured_output", "trajectory", "policy", "evidence"}

Evaluate(evaluator, run) ==
    CASE evaluator = "tool_execution" -> ToolExecution(run)
      [] evaluator = "structured_output" -> StructuredOutput(run)
      [] evaluator = "trajectory" -> Trajectory(run)
      [] evaluator = "policy" -> Policy(run)
      [] evaluator = "evidence" -> Evidence(run)

=============================================================================
