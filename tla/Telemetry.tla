------------------------------ MODULE Telemetry ------------------------------
(***************************************************************************)
(* The run-level telemetry contract: the shape of an ExtendedRunEvent and  *)
(* the validators pydantic runs on it before any handler sees it.          *)
(*                                                                         *)
(* A snapshot keeps the fields the validators and the store tell apart.    *)
(* An optional field whose content nobody inspects (completed_at,          *)
(* pending_action, final_result, runtime_error) is a BOOLEAN: present or   *)
(* None.  Children stay sequences, because a Python list can repeat an id  *)
(* and rejecting that is one of the validators' jobs.                      *)
(***************************************************************************)
EXTENDS Integers, FiniteSets, SequencesExt, Basics

CONSTANTS
    RunIds,       \* run_id values
    SpanIds,      \* span_id values
    ToolCallIds,  \* tool_call_id values
    LLMCallIds    \* llm_call_id values

ASSUME NoneAssumption == None \notin SpanIds

RunEventType == {"run_final", "run_awaiting_approval"}
RunStatus == {"success", "tool_error", "runtime_error", "awaiting_approval"}
HITLState == {"not_required", "pending", "approved", "rejected"}

Span == [span_id : SpanIds, parent_span_id : SpanIds \cup {None}]

ToolCall == [tool_call_id : ToolCallIds, span_id : SpanIds, retry_count : Int]

LLMCall == [llm_call_id : LLMCallIds, span_id : SpanIds,
            total_tokens : Int \cup {None}]

HITLInfo == [required : BOOLEAN, state : HITLState, pending_action : BOOLEAN]

ExtendedRunEvent ==
    [run_id : RunIds, event_type : RunEventType, status : RunStatus,
     completed_at : BOOLEAN, hitl : HITLInfo,
     final_result : BOOLEAN, runtime_error : BOOLEAN,
     spans : Seq(Span), tool_calls : Seq(ToolCall), llm_calls : Seq(LLMCall)]

-----------------------------------------------------------------------------
(* Child ids and references.                                               *)

SpanIdSet(e) == {e.spans[i].span_id : i \in DOMAIN e.spans}

UniqueIds(ids) == IsInjective(ids)

ValidChildren(e) ==
    /\ UniqueIds([i \in DOMAIN e.spans |-> e.spans[i].span_id])
    /\ UniqueIds([i \in DOMAIN e.tool_calls |-> e.tool_calls[i].tool_call_id])
    /\ UniqueIds([i \in DOMAIN e.llm_calls |-> e.llm_calls[i].llm_call_id])
    /\ \A s \in ToSet(e.spans) : s.parent_span_id \in SpanIdSet(e) \cup {None}
    /\ \A t \in ToSet(e.tool_calls) : t.span_id \in SpanIdSet(e)
    /\ \A l \in ToSet(e.llm_calls) : l.span_id \in SpanIdSet(e)

-----------------------------------------------------------------------------
(* Lifecycle.  x is a snapshot or a stored agent_runs row with the same    *)
(* fields, so that the store can be held to the contract its input met.    *)

ValidAwaitingApproval(x) ==
    /\ ~x.completed_at
    /\ x.status = "awaiting_approval"
    /\ ~x.final_result
    /\ ~x.runtime_error
    /\ x.hitl.required /\ x.hitl.state = "pending"
    /\ x.hitl.pending_action

ValidFinal(x) ==
    /\ x.completed_at
    /\ x.hitl.state # "pending"
    /\ ~x.hitl.pending_action
    /\ \/ /\ x.status = "success"
          /\ x.final_result
          /\ ~x.runtime_error
          /\ \/ ~x.hitl.required /\ x.hitl.state = "not_required"
             \/ x.hitl.required /\ x.hitl.state \in {"approved", "rejected"}
       \/ /\ x.status \in {"tool_error", "runtime_error"}
          /\ ~x.final_result
          /\ x.runtime_error
          /\ ~x.hitl.required /\ x.hitl.state = "not_required"

ValidLifecycle(x) ==
    \/ x.event_type = "run_awaiting_approval" /\ ValidAwaitingApproval(x)
    \/ x.event_type = "run_final" /\ ValidFinal(x)

\* What the request body must satisfy; anything else is answered 422.
Valid(e) == ValidChildren(e) /\ ValidLifecycle(e)

=============================================================================
