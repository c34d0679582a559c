---------------------------- MODULE RunTablesProofs ----------------------------
(***************************************************************************)
(* Lemmas about the rows and tables of RunTables: what the value builders  *)
(* and the upserts return.                                                 *)
(***************************************************************************)
EXTENDS RunTables, FiniteSetTheorems, TLAPS

\* The value builders turn a well-formed snapshot into well-formed tables
\* (_span_values, _tool_call_values, _llm_call_values).
LEMMA SpanValuesType ==
    ASSUME NEW e \in ExtendedRunEvent
    PROVE  IsSpanTable(SpanValues(e)) /\ IsSpanTable(ResolvedParents(e))
<1>1. ASSUME NEW i \in DOMAIN e.spans
      PROVE  e.spans[i] \in Span
  BY DEF ExtendedRunEvent
<1>2. SpanIdSet(e) \subseteq SpanIds
  BY <1>1 DEF SpanIdSet, Span
<1>3. ASSUME NEW id \in SpanIdSet(e)
      PROVE  SpanOf(e, id) \in Span
  <2>1. PICK i \in DOMAIN e.spans : e.spans[i].span_id = id
    BY DEF SpanIdSet
  <2>2. e.spans[i] \in ToSet(e.spans)
    BY DEF ToSet
  <2>3. SpanOf(e, id) \in ToSet(e.spans)
    BY <2>1, <2>2 DEF SpanOf
  <2>. QED
    BY <2>3, <1>1 DEF ToSet
<1>4. ASSUME NEW id \in SpanIdSet(e)
      PROVE  SpanOf(e, id).parent_span_id \in SpanIds \cup {None}
  BY <1>3 DEF Span
<1>5. IsSpanTable(SpanValues(e))
  BY <1>2 DEF IsSpanTable, IsTable, SpanValues
<1>6. IsSpanTable(ResolvedParents(e))
  BY <1>2, <1>4 DEF IsSpanTable, IsTable, ResolvedParents
<1>. QED
  BY <1>5, <1>6

\* Its tool calls become well-formed rows (_tool_call_values).
LEMMA ToolCallValuesType ==
    ASSUME NEW e \in ExtendedRunEvent
    PROVE  IsToolCallTable(ToolCallValues(e))
<1>1. ASSUME NEW i \in DOMAIN e.tool_calls
      PROVE  e.tool_calls[i] \in ToolCall
  BY DEF ExtendedRunEvent
<1>2. ToolCallIdSet(e) \subseteq ToolCallIds
  BY <1>1 DEF ToolCallIdSet, ToolCall
<1>3. ASSUME NEW id \in ToolCallIdSet(e)
      PROVE  ToolCallOf(e, id) \in ToolCall
  <2>1. PICK i \in DOMAIN e.tool_calls : e.tool_calls[i].tool_call_id = id
    BY DEF ToolCallIdSet
  <2>2. e.tool_calls[i] \in ToSet(e.tool_calls)
    BY DEF ToSet
  <2>3. ToolCallOf(e, id) \in ToSet(e.tool_calls)
    BY <2>1, <2>2 DEF ToolCallOf
  <2>. QED
    BY <2>3, <1>1 DEF ToSet
<1>4. ASSUME NEW id \in ToolCallIdSet(e)
      PROVE  /\ ToolCallOf(e, id).span_id \in SpanIds
             /\ ToolCallOf(e, id).retry_count \in Int
  BY <1>3 DEF ToolCall
<1>. QED
  BY <1>2, <1>4 DEF IsToolCallTable, IsTable, ToolCallValues

\* Its calls of the model become well-formed rows (_llm_call_values).
LEMMA LLMCallValuesType ==
    ASSUME NEW e \in ExtendedRunEvent
    PROVE  IsLLMCallTable(LLMCallValues(e))
<1>1. ASSUME NEW i \in DOMAIN e.llm_calls
      PROVE  e.llm_calls[i] \in LLMCall
  BY DEF ExtendedRunEvent
<1>2. LLMCallIdSet(e) \subseteq LLMCallIds
  BY <1>1 DEF LLMCallIdSet, LLMCall
<1>3. ASSUME NEW id \in LLMCallIdSet(e)
      PROVE  LLMCallOf(e, id) \in LLMCall
  <2>1. PICK i \in DOMAIN e.llm_calls : e.llm_calls[i].llm_call_id = id
    BY DEF LLMCallIdSet
  <2>2. e.llm_calls[i] \in ToSet(e.llm_calls)
    BY DEF ToSet
  <2>3. LLMCallOf(e, id) \in ToSet(e.llm_calls)
    BY <2>1, <2>2 DEF LLMCallOf
  <2>. QED
    BY <2>3, <1>1 DEF ToSet
<1>4. ASSUME NEW id \in LLMCallIdSet(e)
      PROVE  /\ LLMCallOf(e, id).span_id \in SpanIds
             /\ LLMCallOf(e, id).total_tokens \in Int \cup {None}
  BY <1>3 DEF LLMCall
<1>. QED
  BY <1>2, <1>4 DEF IsLLMCallTable, IsTable, LLMCallValues

\* Merging tables of one type gives a table of that type with both domains.
LEMMA UpsertType ==
    ASSUME NEW ids, NEW row, NEW f, NEW g, IsTable(f, ids, row), IsTable(g, ids, row)
    PROVE  /\ IsTable(Upsert(f, g), ids, row)
           /\ DOMAIN Upsert(f, g) = DOMAIN f \cup DOMAIN g
BY DEF IsTable, Upsert

\* A table without rows is well typed.
LEMMA NoRowsType == ASSUME NEW ids, NEW row PROVE IsTable(NoRows, ids, row)
BY DEF IsTable, NoRows

\* Totals that fit their columns are well typed.
LEMMA UsageTotalsType ==
    ASSUME NEW tools, NEW llms, IsToolCallTable(tools), IsLLMCallTable(llms),
           UsageFits(UsageTotals(tools, llms))
    PROVE  UsageTotals(tools, llms) \in Usage
<1>1. Cardinality(DOMAIN tools) \in Nat /\ Cardinality(DOMAIN llms) \in Nat
  BY FS_Subset, FS_CardinalityType, FiniteIdsAssumption
  DEF IsToolCallTable, IsLLMCallTable, IsTable
<1>2. TokenSum(llms) \in Int /\ RetrySum(tools) \in Int
  BY IntMaxAssumption DEF UsageFits, UsageTotals
<1>. QED
  BY <1>1, <1>2 DEF UsageTotals, Usage

\* The row of a run is well typed (_agent_run_values).
LEMMA AgentRunValuesType ==
    ASSUME NEW e \in ExtendedRunEvent, NEW u \in Usage
    PROVE  AgentRunValues(e, u) \in AgentRun
BY DEF AgentRunValues, AgentRun, ExtendedRunEvent

\* What ValidChildren grants the rows built from a snapshot: each reference
\* they hold is to a span of the same snapshot.
LEMMA ValidReferences ==
    ASSUME NEW e \in ExtendedRunEvent, Valid(e)
    PROVE  /\ \A s \in DOMAIN ResolvedParents(e) :
                 ResolvedParents(e)[s].parent_span_id
                    \in DOMAIN ResolvedParents(e) \cup {None}
           /\ \A t \in DOMAIN ToolCallValues(e) :
                 ToolCallValues(e)[t].span_id \in DOMAIN ResolvedParents(e)
           /\ \A l \in DOMAIN LLMCallValues(e) :
                 LLMCallValues(e)[l].span_id \in DOMAIN ResolvedParents(e)
<1>1. DOMAIN ResolvedParents(e) = SpanIdSet(e)
  BY DEF ResolvedParents
<1>2. ASSUME NEW s \in SpanIdSet(e)
      PROVE  SpanOf(e, s).parent_span_id \in SpanIdSet(e) \cup {None}
  <2>1. PICK i \in DOMAIN e.spans : e.spans[i].span_id = s
    BY DEF SpanIdSet
  <2>2. SpanOf(e, s) \in ToSet(e.spans)
    BY <2>1 DEF SpanOf, ToSet
  <2>. QED
    BY <2>2 DEF Valid, ValidChildren
<1>3. ASSUME NEW t \in ToolCallIdSet(e)
      PROVE  ToolCallOf(e, t).span_id \in SpanIdSet(e)
  <2>1. PICK i \in DOMAIN e.tool_calls : e.tool_calls[i].tool_call_id = t
    BY DEF ToolCallIdSet
  <2>2. ToolCallOf(e, t) \in ToSet(e.tool_calls)
    BY <2>1 DEF ToolCallOf, ToSet
  <2>. QED
    BY <2>2 DEF Valid, ValidChildren
<1>4. ASSUME NEW l \in LLMCallIdSet(e)
      PROVE  LLMCallOf(e, l).span_id \in SpanIdSet(e)
  <2>1. PICK i \in DOMAIN e.llm_calls : e.llm_calls[i].llm_call_id = l
    BY DEF LLMCallIdSet
  <2>2. LLMCallOf(e, l) \in ToSet(e.llm_calls)
    BY <2>1 DEF LLMCallOf, ToSet
  <2>. QED
    BY <2>2 DEF Valid, ValidChildren
<1>. QED
  BY <1>1, <1>2, <1>3, <1>4 DEF ResolvedParents, ToolCallValues, LLMCallValues

\* Merging what is there already changes nothing.
LEMMA UpsertNothingNew ==
    ASSUME NEW ids, NEW row, NEW f, NEW g, IsTable(g, ids, row),
           \A id \in DOMAIN f : id \in DOMAIN g /\ g[id] = f[id]
    PROVE  Upsert(f, g) = g
<1>1. DOMAIN f \cup DOMAIN g = DOMAIN g
  OBVIOUS
<1>2. g = [id \in DOMAIN g |-> g[id]]
  BY DEF IsTable
<1>3. Upsert(f, g) = [id \in DOMAIN g |-> g[id]]
  BY <1>1 DEF Upsert
<1>. QED
  BY <1>2, <1>3

\* Writing back what an entry holds leaves a table as it was.
LEMMA WriteBack ==
    ASSUME NEW S, NEW f, f = [x \in S |-> f[x]], NEW r \in S
    PROVE  [f EXCEPT ![r] = f[r]] = f
OBVIOUS

=============================================================================
