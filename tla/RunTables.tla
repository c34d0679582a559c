------------------------------ MODULE RunTables ------------------------------
(***************************************************************************)
(* The rows a snapshot turns into: agent_runs, spans, tool_calls and       *)
(* llm_calls as ingestion/runs.py builds them and db/models.py stores them.*)
(*                                                                         *)
(* The child rows of one run are a function from child id to row, because  *)
(* each table is keyed by (run_id, child id).  A row the table does not    *)
(* hold is outside the function's domain.  spans.id, the surrogate key the *)
(* other tables refer to, is 1-1 with (run_id, span_id) and never changes  *)
(* on conflict, so a reference to it is the span_id itself.                *)
(***************************************************************************)
EXTENDS Telemetry

CONSTANT IntMax   \* largest value of a Postgres INTEGER column

ASSUME IntMaxAssumption == IntMax \in Nat
\* An id is a string of at most 256 characters: there are finitely many.
ASSUME FiniteIdsAssumption == IsFiniteSet(ToolCallIds) /\ IsFiniteSet(LLMCallIds)

NoRows == [id \in {} |-> None]

ToolCallIdSet(e) == {e.tool_calls[i].tool_call_id : i \in DOMAIN e.tool_calls}
LLMCallIdSet(e) == {e.llm_calls[i].llm_call_id : i \in DOMAIN e.llm_calls}

\* The entry of a child list with a given id; unique once Valid(e) holds.
SpanOf(e, id) == CHOOSE s \in ToSet(e.spans) : s.span_id = id
ToolCallOf(e, id) == CHOOSE t \in ToSet(e.tool_calls) : t.tool_call_id = id
LLMCallOf(e, id) == CHOOSE l \in ToSet(e.llm_calls) : l.llm_call_id = id

\* Spans go in without a parent; _resolve_span_parents fills it in.
SpanValues(e) == [id \in SpanIdSet(e) |-> [parent_span_id |-> None]]

ResolvedParents(e) ==
    [id \in SpanIdSet(e) |-> [parent_span_id |-> SpanOf(e, id).parent_span_id]]

ToolCallValues(e) ==
    [id \in ToolCallIdSet(e) |->
        [span_id |-> ToolCallOf(e, id).span_id,
         retry_count |-> ToolCallOf(e, id).retry_count]]

LLMCallValues(e) ==
    [id \in LLMCallIdSet(e) |->
        [span_id |-> LLMCallOf(e, id).span_id,
         total_tokens |-> LLMCallOf(e, id).total_tokens]]

NoUsage_Null ==
    [llm_calls |-> None, tool_calls |-> None, tokens |-> None, retries |-> None]

\* usage_total_estimated_cost_usd is a float summed exactly like the tokens.
NoUsage == [llm_calls |-> 0, tool_calls |-> 0, tokens |-> 0, retries |-> 0]

TokenSum(llms) ==
    LET tokens(id) == IF llms[id].total_tokens = None
                      THEN 0 ELSE llms[id].total_tokens
    IN MapThenSumSet(tokens, DOMAIN llms)

RetrySum(tools) ==
    LET retries(id) == tools[id].retry_count
    IN MapThenSumSet(retries, DOMAIN tools)

UsageTotals(tools, llms) ==
    [llm_calls |-> Cardinality(DOMAIN llms),
     tool_calls |-> Cardinality(DOMAIN tools),
     tokens |-> TokenSum(llms),
     retries |-> RetrySum(tools)]

\* SUM over INTEGER is a BIGINT: storing it back may be out of range.
UsageFits(usage) ==
    /\ usage.tokens \in -IntMax - 1 .. IntMax
    /\ usage.retries \in -IntMax - 1 .. IntMax

AgentRunValues(e, usage) ==
    [event_type |-> e.event_type, status |-> e.status,
     completed_at |-> e.completed_at, hitl |-> e.hitl,
     final_result |-> e.final_result, runtime_error |-> e.runtime_error,
     usage |-> usage]

\* Tables as types: functions from some of the ids to rows.
IsTable(f, ids, row) == DOMAIN f \subseteq ids /\ f \in [DOMAIN f -> row]
IsSpanTable(f) == IsTable(f, SpanIds, [parent_span_id : SpanIds \cup {None}])
IsToolCallTable(f) ==
    IsTable(f, ToolCallIds, [span_id : SpanIds, retry_count : Int])
IsLLMCallTable(f) ==
    IsTable(f, LLMCallIds, [span_id : SpanIds, total_tokens : Int \cup {None}])
Usage == [llm_calls : Nat, tool_calls : Nat, tokens : Int, retries : Int]
AgentRun ==
    [event_type : RunEventType, status : RunStatus, completed_at : BOOLEAN,
     hitl : HITLInfo, final_result : BOOLEAN, runtime_error : BOOLEAN,
     usage : Usage]

ASSUME NoneIsNoRun == None \notin AgentRun   \* "no row" is not a row

Upsert_DoNothing(new, stored) == stored @@ new

\* INSERT ... ON CONFLICT DO UPDATE of whole child rows: the new rows win,
\* the rows the statement does not mention stay.
Upsert(new, stored) ==
    [id \in DOMAIN new \cup DOMAIN stored |->
        IF id \in DOMAIN new THEN new[id] ELSE stored[id]]

=============================================================================
