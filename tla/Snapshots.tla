----------------------------- MODULE Snapshots ------------------------------
(***************************************************************************)
(* Example request bodies for the small instances.  They follow the        *)
(* fixtures of telemetry/v1: a run that pauses for approval, resumes and   *)
(* finishes, and the same run crashing.  A child id may come back with     *)
(* another value.                                                          *)
(***************************************************************************)
EXTENDS Telemetry

HITL(required, state) ==
    [required |-> required, state |-> state, pending_action |-> state = "pending"]

SpanE(id, parent) == [span_id |-> id, parent_span_id |-> parent]
ToolE(id, span, retries) ==
    [tool_call_id |-> id, span_id |-> span, retry_count |-> retries]
LLME(id, span, tokens) ==
    [llm_call_id |-> id, span_id |-> span, total_tokens |-> tokens]

PendingEvent ==
    [run_id |-> "r1", event_type |-> "run_awaiting_approval",
     status |-> "awaiting_approval", completed_at |-> FALSE,
     hitl |-> HITL(TRUE, "pending"), final_result |-> FALSE,
     runtime_error |-> FALSE,
     spans |-> <<SpanE("s1", None)>>,
     tool_calls |-> <<ToolE("t1", "s1", 1)>>,
     llm_calls |-> <<LLME("l1", "s1", 2)>>]

\* The resumed run restates the pending one and adds a span and a tool call.
ApprovedEvent ==
    [run_id |-> "r1", event_type |-> "run_final", status |-> "success",
     completed_at |-> TRUE, hitl |-> HITL(TRUE, "approved"),
     final_result |-> TRUE, runtime_error |-> FALSE,
     spans |-> <<SpanE("s1", None), SpanE("s2", "s1")>>,
     tool_calls |-> <<ToolE("t1", "s1", 0), ToolE("t2", "s2", 1)>>,
     llm_calls |-> <<LLME("l1", "s1", None)>>]

\* A crash restates less than was stored, and its tokens add up to more
\* than IntMax next to those of the pending snapshot.
CrashedEvent ==
    [run_id |-> "r1", event_type |-> "run_final", status |-> "runtime_error",
     completed_at |-> TRUE, hitl |-> HITL(FALSE, "not_required"),
     final_result |-> FALSE, runtime_error |-> TRUE,
     spans |-> <<SpanE("s1", None)>>,
     tool_calls |-> <<>>,
     llm_calls |-> <<LLME("l2", "s1", 2)>>]

\* Another run: its row lock is another one.
OtherRunEvent == [ApprovedEvent EXCEPT !.run_id = "r2",
                                       !.hitl = HITL(FALSE, "not_required")]

\* Bodies the validators must stop: a tool call on a span the snapshot does
\* not hold, a repeated id, an unknown parent, a final event still pending.
DanglingToolCall == [CrashedEvent EXCEPT !.tool_calls = <<ToolE("t2", "s2", 0)>>]
RepeatedSpan ==
    [CrashedEvent EXCEPT !.spans = <<SpanE("s1", None), SpanE("s1", "s1")>>]
UnknownParent == [CrashedEvent EXCEPT !.spans = <<SpanE("s1", "s2")>>]
FinalButPending ==
    [ApprovedEvent EXCEPT !.hitl = HITL(TRUE, "pending")]

ValidPayloads == {PendingEvent, ApprovedEvent, CrashedEvent, OtherRunEvent}
InvalidPayloads ==
    {DanglingToolCall, RepeatedSpan, UnknownParent, FinalButPending}
AllPayloads == ValidPayloads \cup InvalidPayloads

=============================================================================
