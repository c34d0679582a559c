---------------------------- MODULE SnapshotStore ----------------------------
(***************************************************************************)
(* What POST /runs promises: one document per run, and each accepted       *)
(* snapshot is merged into it in one indivisible step.  The run row is     *)
(* replaced outright, children are replaced or added but never removed,    *)
(* and the usage totals are those of the children actually stored.  There  *)
(* are no requests, locks, drafts or failures here.                        *)
(***************************************************************************)
EXTENDS RunTables

CONSTANT Payloads   \* the snapshots producers may ever send

VARIABLES agent_runs, spans, tool_calls, llm_calls

vars == <<agent_runs, spans, tool_calls, llm_calls>>

Init ==
    /\ agent_runs = [r \in RunIds |-> None]
    /\ spans = [r \in RunIds |-> NoRows]
    /\ tool_calls = [r \in RunIds |-> NoRows]
    /\ llm_calls = [r \in RunIds |-> NoRows]

\* Apply with a bug in it: no behaviour uses it.
Apply_ReplacesSpans(e) ==
    LET r == e.run_id
        tools == Upsert(ToolCallValues(e), tool_calls[r])
        llms == Upsert(LLMCallValues(e), llm_calls[r])
        usage == UsageTotals(tools, llms)
    IN /\ Valid(e)
       /\ UsageFits(usage)
       /\ agent_runs' = [agent_runs EXCEPT ![r] = AgentRunValues(e, usage)]
       /\ spans' = [spans EXCEPT ![r] = ResolvedParents(e)]
       /\ tool_calls' = [tool_calls EXCEPT ![r] = tools]
       /\ llm_calls' = [llm_calls EXCEPT ![r] = llms]

Apply(e) ==
    LET r == e.run_id
        tools == Upsert(ToolCallValues(e), tool_calls[r])
        llms == Upsert(LLMCallValues(e), llm_calls[r])
        usage == UsageTotals(tools, llms)
    IN /\ Valid(e)
       /\ UsageFits(usage)
       /\ agent_runs' = [agent_runs EXCEPT ![r] = AgentRunValues(e, usage)]
       /\ spans' = [spans EXCEPT ![r] = Upsert(ResolvedParents(e), @)]
       /\ tool_calls' = [tool_calls EXCEPT ![r] = tools]
       /\ llm_calls' = [llm_calls EXCEPT ![r] = llms]

Next == \E e \in Payloads : Apply(e)

Spec == Init /\ [][Next]_vars

=============================================================================
