----------------------------- MODULE RunViewProofs -----------------------------
(***************************************************************************)
(* Theorems about RunView, for any set of readers, runs and snapshots.     *)
(***************************************************************************)
EXTENDS RunView, RunTablesProofs

-----------------------------------------------------------------------------
(* The store the readers read.                                             *)

\* The operators of the store are those of RunTables.
LEMMA StoreOperators ==
    ASSUME NEW e, NEW f, NEW g
    PROVE  /\ Store!Valid(e) = Valid(e)
           /\ Store!NoRows = NoRows
           /\ Store!Upsert(f, g) = Upsert(f, g)
           /\ Store!ResolvedParents(e) = ResolvedParents(e)
           /\ Store!ToolCallValues(e) = ToolCallValues(e)
           /\ Store!LLMCallValues(e) = LLMCallValues(e)
           /\ Store!UsageFits(f) = UsageFits(f)
           /\ Store!AgentRunValues(e, f) = AgentRunValues(e, f)
           /\ Store!UsageTotals(f, g) = UsageTotals(f, g)
<1>1. Store!SpanIdSet(e) = SpanIdSet(e)
  BY DEF Store!SpanIdSet, SpanIdSet
<1>2. Store!ValidChildren(e) = ValidChildren(e)
  BY <1>1 DEF Store!ValidChildren, ValidChildren, Store!UniqueIds, UniqueIds,
     Store!IsInjective, IsInjective, Store!ToSet, ToSet
<1>3. Store!ValidLifecycle(e) = ValidLifecycle(e)
  BY DEF Store!ValidLifecycle, ValidLifecycle, Store!ValidFinal, ValidFinal,
     Store!ValidAwaitingApproval, ValidAwaitingApproval
<1>4. Store!Valid(e) = Valid(e)
  BY <1>2, <1>3 DEF Store!Valid, Valid
<1>5. Store!NoRows = NoRows /\ Store!Upsert(f, g) = Upsert(f, g)
  BY DEF Store!NoRows, NoRows, Store!Upsert, Upsert
<1>6. Store!ResolvedParents(e) = ResolvedParents(e)
  BY <1>1 DEF Store!ResolvedParents, ResolvedParents, Store!SpanOf, SpanOf,
     Store!ToSet, ToSet
<1>7. Store!ToolCallValues(e) = ToolCallValues(e)
  BY DEF Store!ToolCallValues, ToolCallValues, Store!ToolCallIdSet,
     ToolCallIdSet, Store!ToolCallOf, ToolCallOf, Store!ToSet, ToSet
<1>8. Store!LLMCallValues(e) = LLMCallValues(e)
  BY DEF Store!LLMCallValues, LLMCallValues, Store!LLMCallIdSet,
     LLMCallIdSet, Store!LLMCallOf, LLMCallOf, Store!ToSet, ToSet
<1>9. Store!UsageFits(f) = UsageFits(f)
  BY DEF Store!UsageFits, UsageFits
<1>10. Store!AgentRunValues(e, f) = AgentRunValues(e, f)
  BY DEF Store!AgentRunValues, AgentRunValues
<1>11. Store!TokenSum(g) = TokenSum(g)
  BY DEF Store!TokenSum, TokenSum, Store!MapThenSumSet, MapThenSumSet,
     Store!MapThenFoldSet, MapThenFoldSet
<1>12. Store!RetrySum(f) = RetrySum(f)
  BY DEF Store!RetrySum, RetrySum, Store!MapThenSumSet, MapThenSumSet,
     Store!MapThenFoldSet, MapThenFoldSet
<1>13. ASSUME NEW S PROVE Store!Cardinality(S) = Cardinality(S)
  BY DEF Store!Cardinality, Cardinality
<1>14. Store!UsageTotals(f, g) = UsageTotals(f, g)
  BY <1>11, <1>12, <1>13 DEF Store!UsageTotals, UsageTotals
<1>. QED
  BY <1>4, <1>5, <1>6, <1>7, <1>8, <1>9, <1>10, <1>14

\* What a snapshot does to the tables of its run, and to no other.
LEMMA ApplyFacts ==
    ASSUME TypeOK, NEW e \in Payloads, Store!Apply(e)
    PROVE  LET r == e.run_id
               tools == Upsert(ToolCallValues(e), tool_calls[r])
               llms == Upsert(LLMCallValues(e), llm_calls[r])
               usage == UsageTotals(tools, llms)
           IN /\ e \in ExtendedRunEvent /\ Valid(e) /\ r \in RunIds
              /\ UsageFits(usage)
              /\ agent_runs' = [agent_runs EXCEPT ![r] = AgentRunValues(e, usage)]
              /\ spans' = [spans EXCEPT ![r] = Upsert(ResolvedParents(e), spans[r])]
              /\ tool_calls' = [tool_calls EXCEPT ![r] = tools]
              /\ llm_calls' = [llm_calls EXCEPT ![r] = llms]
<1>. DEFINE r == e.run_id
            tools == Upsert(ToolCallValues(e), tool_calls[r])
            llms == Upsert(LLMCallValues(e), llm_calls[r])
<1>1. e \in ExtendedRunEvent /\ r \in RunIds
  <2>1. e \in ExtendedRunEvent
    BY PayloadsAssumption
  <2>. QED
    BY <2>1 DEF ExtendedRunEvent
<1>2. /\ Store!Upsert(Store!ToolCallValues(e), tool_calls[r]) = tools
      /\ Store!Upsert(Store!LLMCallValues(e), llm_calls[r]) = llms
      /\ Store!Upsert(Store!ResolvedParents(e), spans[r])
            = Upsert(ResolvedParents(e), spans[r])
  BY StoreOperators
<1>3. Store!UsageTotals(tools, llms) = UsageTotals(tools, llms)
  BY StoreOperators
<1>4. /\ Store!Valid(e) = Valid(e)
      /\ Store!UsageFits(UsageTotals(tools, llms)) = UsageFits(UsageTotals(tools, llms))
      /\ Store!AgentRunValues(e, UsageTotals(tools, llms))
            = AgentRunValues(e, UsageTotals(tools, llms))
  BY StoreOperators
<1>. HIDE DEF r, tools, llms
<1>5. /\ Valid(e) /\ UsageFits(UsageTotals(tools, llms))
      /\ agent_runs' = [agent_runs EXCEPT ![r] = AgentRunValues(e, UsageTotals(tools, llms))]
      /\ spans' = [spans EXCEPT ![r] = Upsert(ResolvedParents(e), spans[r])]
      /\ tool_calls' = [tool_calls EXCEPT ![r] = tools]
      /\ llm_calls' = [llm_calls EXCEPT ![r] = llms]
  BY <1>2, <1>3, <1>4 DEF Store!Apply, r
<1>. QED
  BY <1>1, <1>5 DEF r, tools, llms

-----------------------------------------------------------------------------
(* The inductive invariant.                                                *)

\* What SnapshotStore keeps true of the tables: references resolve, and the
\* totals of a run are those of its children.
StoreInv ==
    \A r \in RunIds :
        /\ \A s \in DOMAIN spans[r] :
              spans[r][s].parent_span_id \in DOMAIN spans[r] \cup {None}
        /\ \A t \in DOMAIN tool_calls[r] :
              tool_calls[r][t].span_id \in DOMAIN spans[r]
        /\ \A l \in DOMAIN llm_calls[r] :
              llm_calls[r][l].span_id \in DOMAIN spans[r]
        /\ agent_runs[r] # None =>
              agent_runs[r].usage = UsageTotals(tool_calls[r], llm_calls[r])

\* A view is a record of four parts; what has not been read is empty.
ViewInv ==
    \A q \in Readers :
        /\ view[q] = [run |-> view[q].run, spans |-> view[q].spans,
                      tool_calls |-> view[q].tool_calls,
                      llm_calls |-> view[q].llm_calls]
        /\ pc[q] = "unsent" => view[q] = EmptyView

\* What a reader has read resolves: parents in the view itself, the spans of
\* the children in the store.
ResolveInv ==
    \A q \in Readers :
        /\ ParentsIn(view[q]) \subseteq DOMAIN view[q].spans
        /\ pc[q] # "unsent" => SpansCalledIn(view[q]) \subseteq DOMAIN spans[path[q]]

\* What a reader has read is what is stored, unless a snapshot overtook it.
FreshInv ==
    \A q \in Readers :
        /\ ~overtaken[q] =>
              /\ pc[q] \in Reading => view[q].run = agent_runs[path[q]]
              /\ pc[q] \in {"read_tool_calls", "read_llm_calls", "assemble"} =>
                    view[q].spans = spans[path[q]]
              /\ pc[q] \in {"read_llm_calls", "assemble"} =>
                    view[q].tool_calls = tool_calls[path[q]]
              /\ pc[q] = "assemble" => view[q].llm_calls = llm_calls[path[q]]
        /\ pc[q] = "failed" => overtaken[q]

\* The children counted in the run row that was read are stored, and then read.
CoverInv ==
    \A q \in Readers :
        LET usage == view[q].run.usage
        IN /\ pc[q] \in {"read_spans", "read_tool_calls"} =>
                 usage.tool_calls <= Cardinality(DOMAIN tool_calls[path[q]])
           /\ pc[q] \in {"read_llm_calls", "assemble", "ok", "failed"} =>
                 usage.tool_calls <= Cardinality(DOMAIN view[q].tool_calls)
           /\ pc[q] \in {"read_spans", "read_tool_calls", "read_llm_calls"} =>
                 usage.llm_calls <= Cardinality(DOMAIN llm_calls[path[q]])
           /\ pc[q] \in {"assemble", "ok", "failed"} =>
                 usage.llm_calls <= Cardinality(DOMAIN view[q].llm_calls)

IInv == TypeOK /\ StoreInv /\ ViewInv /\ ResolveInv /\ FreshInv /\ CoverInv

\* A reader starts with nothing.
LEMMA EmptyViewFacts ==
    /\ EmptyView.run = None /\ EmptyView.spans = NoRows
    /\ EmptyView.tool_calls = NoRows /\ EmptyView.llm_calls = NoRows
    /\ DOMAIN EmptyView = {"run", "spans", "tool_calls", "llm_calls"}
    /\ DOMAIN NoRows = {}
    /\ IsView(EmptyView)
BY NoRowsType DEF EmptyView, NoRows, IsView, IsSpanTable, IsToolCallTable, IsLLMCallTable

\* An empty store and readers that were not sent satisfy the invariant.
LEMMA InitIInv == Init => IInv
<1>. SUFFICES ASSUME Init PROVE IInv
  OBVIOUS
<1>1. /\ agent_runs = [r \in RunIds |-> None]
      /\ spans = [r \in RunIds |-> NoRows]
      /\ tool_calls = [r \in RunIds |-> NoRows]
      /\ llm_calls = [r \in RunIds |-> NoRows]
  BY StoreOperators DEF Init, Store!Init
<1>2. \A q \in Readers : pc[q] = "unsent" /\ view[q] = EmptyView
  BY DEF Init
<1>3. TypeOK
  BY <1>1, <1>2, NoRowsType, EmptyViewFacts
  DEF Init, TypeOK, IsSpanTable, IsToolCallTable, IsLLMCallTable, Reading, Answers
<1>4. StoreInv
  BY <1>1, EmptyViewFacts DEF StoreInv
<1>5. ViewInv
  BY <1>2, EmptyViewFacts DEF ViewInv, EmptyView
<1>6. ResolveInv
  BY <1>2, EmptyViewFacts DEF ResolveInv, ParentsIn
<1>7. FreshInv /\ CoverInv
  BY <1>2 DEF FreshInv, CoverInv, Reading
<1>. QED
  BY <1>3, <1>4, <1>5, <1>6, <1>7 DEF IInv

\* A snapshot only adds children.
LEMMA ChildrenStay ==
    ASSUME TypeOK, NEW e \in Payloads, Store!Apply(e), NEW r \in RunIds
    PROVE  /\ DOMAIN spans[r] \subseteq DOMAIN spans'[r]
           /\ DOMAIN tool_calls[r] \subseteq DOMAIN tool_calls'[r]
           /\ DOMAIN llm_calls[r] \subseteq DOMAIN llm_calls'[r]
           /\ r # e.run_id => /\ agent_runs'[r] = agent_runs[r]
                              /\ spans'[r] = spans[r]
                              /\ tool_calls'[r] = tool_calls[r]
                              /\ llm_calls'[r] = llm_calls[r]
<1>. DEFINE o == e.run_id
<1>1. PICK run, sp, tools, llms :
         /\ o \in RunIds
         /\ agent_runs' = [agent_runs EXCEPT ![o] = run]
         /\ spans' = [spans EXCEPT ![o] = Upsert(sp, spans[o])]
         /\ tool_calls' = [tool_calls EXCEPT ![o] = Upsert(tools, tool_calls[o])]
         /\ llm_calls' = [llm_calls EXCEPT ![o] = Upsert(llms, llm_calls[o])]
  BY ApplyFacts
<1>2. \A f, g : DOMAIN g \subseteq DOMAIN Upsert(f, g)
  BY DEF Upsert
<1>. HIDE DEF o
<1>3. CASE r = o
  BY <1>1, <1>2, <1>3 DEF TypeOK, o
<1>4. CASE r # o
  BY <1>1, <1>4 DEF TypeOK
<1>. QED
  BY <1>3, <1>4

\* More ids are not fewer.
LEMMA CountsGrow ==
    ASSUME NEW ids, IsFiniteSet(ids), NEW S, NEW T, S \subseteq T, T \subseteq ids
    PROVE  /\ Cardinality(S) \in Nat /\ Cardinality(T) \in Nat
           /\ Cardinality(S) <= Cardinality(T)
<1>1. IsFiniteSet(T)
  BY FS_Subset
<1>2. IsFiniteSet(S) /\ Cardinality(S) <= Cardinality(T)
  BY <1>1, FS_Subset
<1>. QED
  BY <1>1, <1>2, FS_CardinalityType

\* A snapshot merged into well-typed tables leaves them well typed.
LEMMA ApplyTypes ==
    ASSUME TypeOK, NEW e \in Payloads, Store!Apply(e)
    PROVE  /\ agent_runs' \in [RunIds -> AgentRun \cup {None}]
           /\ DOMAIN spans' = RunIds /\ \A r \in RunIds : IsSpanTable(spans'[r])
           /\ DOMAIN tool_calls' = RunIds
           /\ \A r \in RunIds : IsToolCallTable(tool_calls'[r])
           /\ DOMAIN llm_calls' = RunIds
           /\ \A r \in RunIds : IsLLMCallTable(llm_calls'[r])
<1>. DEFINE r == e.run_id
            tools == Upsert(ToolCallValues(e), tool_calls[r])
            llms == Upsert(LLMCallValues(e), llm_calls[r])
            usage == UsageTotals(tools, llms)
            sp == Upsert(ResolvedParents(e), spans[r])
<1>1. /\ e \in ExtendedRunEvent /\ r \in RunIds /\ UsageFits(usage)
      /\ agent_runs' = [agent_runs EXCEPT ![r] = AgentRunValues(e, usage)]
      /\ spans' = [spans EXCEPT ![r] = sp]
      /\ tool_calls' = [tool_calls EXCEPT ![r] = tools]
      /\ llm_calls' = [llm_calls EXCEPT ![r] = llms]
  BY ApplyFacts
<1>2. /\ IsSpanTable(ResolvedParents(e)) /\ IsToolCallTable(ToolCallValues(e))
      /\ IsLLMCallTable(LLMCallValues(e))
  BY <1>1, SpanValuesType, ToolCallValuesType, LLMCallValuesType
<1>3. IsSpanTable(sp) /\ IsToolCallTable(tools) /\ IsLLMCallTable(llms)
  BY <1>1, <1>2, UpsertType DEF TypeOK, IsSpanTable, IsToolCallTable, IsLLMCallTable
<1>. HIDE DEF tools, llms, sp
<1>4. AgentRunValues(e, usage) \in AgentRun
  BY <1>1, <1>3, UsageTotalsType, AgentRunValuesType
<1>. HIDE DEF usage, r
<1>. QED
  BY <1>1, <1>3, <1>4 DEF TypeOK

\* A snapshot keeps the invariant: readers of its run become overtaken, and
\* what they have read stays below what is stored.
LEMMA IngestStep == ASSUME IInv, NEW e \in Payloads, Ingest(e) PROVE IInv'
<1>. DEFINE r == e.run_id
<1>1. /\ TypeOK /\ StoreInv /\ ViewInv /\ ResolveInv /\ FreshInv /\ CoverInv
      /\ Store!Apply(e)
      /\ overtaken' = [q \in Readers |->
            overtaken[q] \/ (pc[q] \in Reading /\ path[q] = r)]
      /\ pc' = pc /\ path' = path /\ view' = view
  BY DEF IInv, Ingest
<1>2. TypeOK'
  <2>1. overtaken' \in [Readers -> BOOLEAN]
    BY <1>1 DEF TypeOK
  <2>. QED
    BY <1>1, <2>1, ApplyTypes DEF TypeOK
<1>3. StoreInv'
  <2>. DEFINE tools == Upsert(ToolCallValues(e), tool_calls[r])
              llms == Upsert(LLMCallValues(e), llm_calls[r])
              usage == UsageTotals(tools, llms)
  <2>1. /\ e \in ExtendedRunEvent /\ Valid(e) /\ r \in RunIds
        /\ agent_runs' = [agent_runs EXCEPT ![r] = AgentRunValues(e, usage)]
        /\ spans' = [spans EXCEPT ![r] = Upsert(ResolvedParents(e), spans[r])]
        /\ tool_calls' = [tool_calls EXCEPT ![r] = tools]
        /\ llm_calls' = [llm_calls EXCEPT ![r] = llms]
    BY <1>1, ApplyFacts
  <2>2. /\ agent_runs'[r].usage = UsageTotals(tool_calls'[r], llm_calls'[r])
    BY <1>1, <2>1 DEF TypeOK, AgentRunValues
  <2>. HIDE DEF r
  <2>3. /\ \A s \in DOMAIN spans'[r] :
              spans'[r][s].parent_span_id \in DOMAIN spans'[r] \cup {None}
        /\ \A t \in DOMAIN tool_calls'[r] :
              tool_calls'[r][t].span_id \in DOMAIN spans'[r]
        /\ \A l \in DOMAIN llm_calls'[r] :
              llm_calls'[r][l].span_id \in DOMAIN spans'[r]
    <3>. HIDE DEF usage
    <3>. QED
      BY <1>1, <2>1, ValidReferences DEF StoreInv, Upsert, TypeOK
  <2>4. \A o \in RunIds : o # r =>
           /\ agent_runs'[o] = agent_runs[o] /\ spans'[o] = spans[o]
           /\ tool_calls'[o] = tool_calls[o] /\ llm_calls'[o] = llm_calls[o]
    BY <1>1, ChildrenStay DEF r
  <2>. QED
    BY <1>1, <2>2, <2>3, <2>4 DEF StoreInv
<1>4. ViewInv'
  BY <1>1 DEF ViewInv
<1>5. ResolveInv'
  <2>1. SUFFICES ASSUME NEW q \in Readers
        PROVE  /\ ParentsIn(view[q]) \subseteq DOMAIN view[q].spans
               /\ pc[q] # "unsent" => SpansCalledIn(view[q]) \subseteq DOMAIN spans'[path[q]]
    BY <1>1 DEF ResolveInv, ParentsIn, SpansCalledIn
  <2>2. pc[q] # "unsent" => DOMAIN spans[path[q]] \subseteq DOMAIN spans'[path[q]]
    BY <1>1, ChildrenStay DEF TypeOK
  <2>. QED
    BY <1>1, <2>2 DEF ResolveInv
<1>6. FreshInv'
  <2>1. ASSUME NEW q \in Readers, ~overtaken'[q]
        PROVE  /\ ~overtaken[q]
               /\ pc[q] \in Reading =>
                     /\ agent_runs'[path[q]] = agent_runs[path[q]]
                     /\ spans'[path[q]] = spans[path[q]]
                     /\ tool_calls'[path[q]] = tool_calls[path[q]]
                     /\ llm_calls'[path[q]] = llm_calls[path[q]]
    <3>1. ~overtaken[q] /\ (pc[q] \in Reading => path[q] # r)
      BY <1>1, <2>1
    <3>2. pc[q] \in Reading => path[q] \in RunIds
      BY <1>1 DEF TypeOK, Reading
    <3>. QED
      BY <1>1, <3>1, <3>2, ChildrenStay
  <2>2. \A q \in Readers : overtaken[q] => overtaken'[q]
    BY <1>1
  <2>. QED
    BY <1>1, <2>1, <2>2 DEF FreshInv, Reading
<1>7. CoverInv'
  <2>1. SUFFICES ASSUME NEW q \in Readers
        PROVE  LET usage == view[q].run.usage
               IN /\ pc[q] \in {"read_spans", "read_tool_calls"} =>
                        usage.tool_calls <= Cardinality(DOMAIN tool_calls'[path[q]])
                  /\ pc[q] \in {"read_spans", "read_tool_calls", "read_llm_calls"} =>
                        usage.llm_calls <= Cardinality(DOMAIN llm_calls'[path[q]])
    BY <1>1 DEF CoverInv
  <2>2. SUFFICES ASSUME pc[q] \in {"read_spans", "read_tool_calls", "read_llm_calls"}
                 PROVE  /\ Cardinality(DOMAIN tool_calls[path[q]])
                              <= Cardinality(DOMAIN tool_calls'[path[q]])
                        /\ Cardinality(DOMAIN llm_calls[path[q]])
                              <= Cardinality(DOMAIN llm_calls'[path[q]])
                        /\ Cardinality(DOMAIN tool_calls[path[q]]) \in Nat
                        /\ Cardinality(DOMAIN llm_calls[path[q]]) \in Nat
                        /\ Cardinality(DOMAIN tool_calls'[path[q]]) \in Nat
                        /\ Cardinality(DOMAIN llm_calls'[path[q]]) \in Nat
                        /\ view[q].run.usage.tool_calls \in Nat
                        /\ view[q].run.usage.llm_calls \in Nat
    BY <1>1 DEF CoverInv
  <2>3. path[q] \in RunIds /\ view[q].run \in AgentRun
    BY <1>1, <2>2 DEF TypeOK, IsView
  <2>4. view[q].run.usage.tool_calls \in Nat /\ view[q].run.usage.llm_calls \in Nat
    BY <2>3 DEF AgentRun, Usage
  <2>5. /\ DOMAIN tool_calls[path[q]] \subseteq DOMAIN tool_calls'[path[q]]
        /\ DOMAIN llm_calls[path[q]] \subseteq DOMAIN llm_calls'[path[q]]
        /\ DOMAIN tool_calls'[path[q]] \subseteq ToolCallIds
        /\ DOMAIN llm_calls'[path[q]] \subseteq LLMCallIds
    BY <1>1, <1>2, <2>3, ChildrenStay DEF TypeOK, IsToolCallTable, IsLLMCallTable, IsTable
  <2>. QED
    BY <2>4, <2>5, CountsGrow, FiniteIdsAssumption
<1>. QED
  BY <1>2, <1>3, <1>4, <1>5, <1>6, <1>7 DEF IInv

-----------------------------------------------------------------------------
(* The readers.                                                            *)

\* A reader's statement is about that reader: tables and other readers stay.
LEMMA ReadFacts ==
    ASSUME TypeOK, NEW q \in Readers, Read(q)
    PROVE  /\ agent_runs' = agent_runs /\ spans' = spans
           /\ tool_calls' = tool_calls /\ llm_calls' = llm_calls
           /\ overtaken' = overtaken
           /\ \A p \in Readers \ {q} :
                 pc'[p] = pc[p] /\ path'[p] = path[p] /\ view'[p] = view[p]
           /\ pc' \in [Readers -> {"unsent"} \cup Reading \cup Answers]
           /\ path' \in [Readers -> RunIds \cup {None}]
           /\ DOMAIN view' = Readers
<1>. USE DEF TypeOK, Reading, Answers, Advance
<1>1. CASE ReadRun(q)
  BY <1>1 DEF ReadRun
<1>2. CASE ReadSpans(q)
  BY <1>2 DEF ReadSpans
<1>3. CASE ReadToolCalls(q)
  BY <1>3 DEF ReadToolCalls
<1>4. CASE ReadLLMCalls(q)
  BY <1>4 DEF ReadLLMCalls
<1>5. CASE Assemble(q)
  BY <1>5 DEF Assemble
<1>. QED
  BY <1>1, <1>2, <1>3, <1>4, <1>5 DEF Read

\* What has to hold of one reader for the invariant.
ReaderInv(q) ==
    /\ IsView(view[q])
    /\ pc[q] # "unsent" => path[q] \in RunIds
    /\ pc[q] \notin {"unsent", "not_found"} => view[q].run # None
    /\ view[q] = [run |-> view[q].run, spans |-> view[q].spans,
                  tool_calls |-> view[q].tool_calls,
                  llm_calls |-> view[q].llm_calls]
    /\ pc[q] = "unsent" => view[q] = EmptyView
    /\ ParentsIn(view[q]) \subseteq DOMAIN view[q].spans
    /\ pc[q] # "unsent" => SpansCalledIn(view[q]) \subseteq DOMAIN spans[path[q]]
    /\ ~overtaken[q] =>
          /\ pc[q] \in Reading => view[q].run = agent_runs[path[q]]
          /\ pc[q] \in {"read_tool_calls", "read_llm_calls", "assemble"} =>
                view[q].spans = spans[path[q]]
          /\ pc[q] \in {"read_llm_calls", "assemble"} =>
                view[q].tool_calls = tool_calls[path[q]]
          /\ pc[q] = "assemble" => view[q].llm_calls = llm_calls[path[q]]
    /\ pc[q] = "failed" => overtaken[q]
    /\ pc[q] \in {"read_spans", "read_tool_calls"} =>
          view[q].run.usage.tool_calls <= Cardinality(DOMAIN tool_calls[path[q]])
    /\ pc[q] \in {"read_llm_calls", "assemble", "ok", "failed"} =>
          view[q].run.usage.tool_calls <= Cardinality(DOMAIN view[q].tool_calls)
    /\ pc[q] \in {"read_spans", "read_tool_calls", "read_llm_calls"} =>
          view[q].run.usage.llm_calls <= Cardinality(DOMAIN llm_calls[path[q]])
    /\ pc[q] \in {"assemble", "ok", "failed"} =>
          view[q].run.usage.llm_calls <= Cardinality(DOMAIN view[q].llm_calls)

\* What the invariant says of one reader.
LEMMA ReaderInvHolds == ASSUME IInv, NEW q \in Readers PROVE ReaderInv(q)
BY DEF IInv, TypeOK, ViewInv, ResolveInv, FreshInv, CoverInv, ReaderInv

\* So it is enough to look at the reader that takes the step.
LEMMA ReaderSuffices ==
    ASSUME IInv, NEW q \in Readers, Read(q),
           \A x \in {q} : ReaderInv(x)'
    PROVE  IInv'
<1>1. /\ TypeOK /\ StoreInv
      /\ agent_runs' = agent_runs /\ spans' = spans
      /\ tool_calls' = tool_calls /\ llm_calls' = llm_calls
      /\ overtaken' = overtaken
      /\ \A p \in Readers \ {q} :
            pc'[p] = pc[p] /\ path'[p] = path[p] /\ view'[p] = view[p]
      /\ pc' \in [Readers -> {"unsent"} \cup Reading \cup Answers]
      /\ path' \in [Readers -> RunIds \cup {None}]
      /\ DOMAIN view' = Readers
  BY ReadFacts DEF IInv
<1>2. \A p \in Readers : ReaderInv(p)'
  <2>1. ASSUME NEW p \in Readers, p # q PROVE ReaderInv(p)'
    <3>1. ReaderInv(p)
      BY ReaderInvHolds
    <3>2. /\ pc'[p] = pc[p] /\ path'[p] = path[p] /\ view'[p] = view[p]
      BY <1>1, <2>1
    <3>. QED
      BY <1>1, <3>1, <3>2 DEF ReaderInv, IsView, ParentsIn, SpansCalledIn
  <2>. QED
    BY <2>1
<1>3. TypeOK'
  BY <1>1, <1>2 DEF TypeOK, ReaderInv
<1>4. StoreInv'
  BY <1>1 DEF StoreInv
<1>5. ViewInv' /\ ResolveInv' /\ FreshInv' /\ CoverInv'
  BY <1>2 DEF ViewInv, ResolveInv, FreshInv, CoverInv, ReaderInv
<1>. QED
  BY <1>3, <1>4, <1>5 DEF IInv

\* What the tables grant about the run a reader reads.
LEMMA TableFacts ==
    ASSUME TypeOK, StoreInv, NEW r \in RunIds
    PROVE  /\ IsSpanTable(spans[r]) /\ IsToolCallTable(tool_calls[r])
           /\ IsLLMCallTable(llm_calls[r])
           /\ {spans[r][s].parent_span_id : s \in DOMAIN spans[r]} \ {None}
                 \subseteq DOMAIN spans[r]
           /\ {tool_calls[r][t].span_id : t \in DOMAIN tool_calls[r]}
                 \subseteq DOMAIN spans[r]
           /\ {llm_calls[r][l].span_id : l \in DOMAIN llm_calls[r]}
                 \subseteq DOMAIN spans[r]
           /\ agent_runs[r] # None =>
                 /\ agent_runs[r] \in AgentRun
                 /\ agent_runs[r].usage.tool_calls = Cardinality(DOMAIN tool_calls[r])
                 /\ agent_runs[r].usage.llm_calls = Cardinality(DOMAIN llm_calls[r])
                 /\ Cardinality(DOMAIN tool_calls[r]) \in Nat
                 /\ Cardinality(DOMAIN llm_calls[r]) \in Nat
<1>1. ASSUME agent_runs[r] # None
      PROVE  /\ agent_runs[r] \in AgentRun
             /\ agent_runs[r].usage.tool_calls = Cardinality(DOMAIN tool_calls[r])
             /\ agent_runs[r].usage.llm_calls = Cardinality(DOMAIN llm_calls[r])
             /\ Cardinality(DOMAIN tool_calls[r]) \in Nat
             /\ Cardinality(DOMAIN llm_calls[r]) \in Nat
  <2>1. agent_runs[r] \in AgentRun
        /\ agent_runs[r].usage = UsageTotals(tool_calls[r], llm_calls[r])
    BY <1>1 DEF TypeOK, StoreInv
  <2>2. agent_runs[r].usage.tool_calls \in Nat /\ agent_runs[r].usage.llm_calls \in Nat
    BY <2>1 DEF AgentRun, Usage
  <2>. QED
    BY <2>1, <2>2 DEF UsageTotals
<1>. QED
  BY <1>1 DEF TypeOK, StoreInv

\* The first SELECT: the run and the totals that its children must cover.
LEMMA ReadRunStep == ASSUME IInv, NEW q \in Readers, ReadRun(q) PROVE IInv'
<1>1. PICK r \in RunIds :
         /\ path' = [path EXCEPT ![q] = r]
         /\ view' = [view EXCEPT ![q].run = agent_runs[r]]
         /\ Advance(q, IF agent_runs[r] = None THEN "not_found" ELSE "read_spans")
  BY DEF ReadRun
<1>2. TypeOK /\ StoreInv /\ ReaderInv(q) /\ pc[q] = "unsent"
  BY ReaderInvHolds DEF IInv, ReadRun
<1>3. view[q] = EmptyView
  BY <1>2 DEF ReaderInv
<1>4. /\ path'[q] = r
      /\ pc'[q] = IF agent_runs[r] = None THEN "not_found" ELSE "read_spans"
      /\ agent_runs' = agent_runs /\ spans' = spans
      /\ tool_calls' = tool_calls /\ llm_calls' = llm_calls
      /\ overtaken' = overtaken
  BY <1>1, <1>2 DEF TypeOK, Advance
<1>5. view'[q] = [run |-> agent_runs[r], spans |-> NoRows,
                  tool_calls |-> NoRows, llm_calls |-> NoRows]
  BY <1>1, <1>2, <1>3 DEF TypeOK, EmptyView
<1>6. agent_runs[r] \in AgentRun \cup {None}
  BY <1>2 DEF TypeOK
<1>7. /\ IsView(view'[q])
      /\ ParentsIn(view'[q]) = {} /\ SpansCalledIn(view'[q]) = {}
  <2>1. DOMAIN NoRows = {}
    BY EmptyViewFacts
  <2>2. /\ IsSpanTable(NoRows) /\ IsToolCallTable(NoRows) /\ IsLLMCallTable(NoRows)
    BY NoRowsType DEF IsSpanTable, IsToolCallTable, IsLLMCallTable
  <2>. QED
    BY <1>5, <1>6, <2>1, <2>2, EmptyViewFacts DEF IsView, ParentsIn, SpansCalledIn
<1>8. \A x \in {q} : ReaderInv(x)'
  <2>1. SUFFICES ReaderInv(q)'
    OBVIOUS
  <2>2. agent_runs[r] # None =>
           /\ agent_runs[r].usage.tool_calls <= Cardinality(DOMAIN tool_calls[r])
           /\ agent_runs[r].usage.llm_calls <= Cardinality(DOMAIN llm_calls[r])
    BY <1>2, TableFacts
  <2>. QED
    BY <1>1, <1>4, <1>5, <1>7, <2>2 DEF ReaderInv, Reading
<1>. QED
  BY <1>8, ReaderSuffices DEF Read

\* The second SELECT: the spans, closed under parents.
LEMMA ReadSpansStep == ASSUME IInv, NEW q \in Readers, ReadSpans(q) PROVE IInv'
<1>. DEFINE r == path[q]
<1>1. TypeOK /\ StoreInv /\ ReaderInv(q) /\ pc[q] = "read_spans"
  BY ReaderInvHolds DEF IInv, ReadSpans
<1>2. r \in RunIds
  BY <1>1 DEF ReaderInv
<1>3. /\ path' = path
      /\ pc'[q] = "read_tool_calls"
      /\ agent_runs' = agent_runs /\ spans' = spans
      /\ tool_calls' = tool_calls /\ llm_calls' = llm_calls
      /\ overtaken' = overtaken
  BY <1>1 DEF TypeOK, ReadSpans, Advance
<1>4. view'[q] = [run |-> view[q].run, spans |-> spans[r],
                  tool_calls |-> view[q].tool_calls, llm_calls |-> view[q].llm_calls]
  BY <1>1 DEF TypeOK, ReaderInv, ReadSpans
<1>5. /\ IsSpanTable(spans[r])
      /\ {spans[r][s].parent_span_id : s \in DOMAIN spans[r]} \ {None}
            \subseteq DOMAIN spans[r]
  BY <1>1, <1>2, TableFacts
<1>6. /\ IsView(view'[q])
      /\ ParentsIn(view'[q]) \subseteq DOMAIN spans[r]
      /\ SpansCalledIn(view'[q]) = SpansCalledIn(view[q])
  BY <1>1, <1>4, <1>5, EmptyViewFacts DEF ReaderInv, IsView, ParentsIn, SpansCalledIn
<1>7. \A x \in {q} : ReaderInv(x)'
  <2>1. SUFFICES ReaderInv(q)'
    OBVIOUS
  <2>. QED
    BY <1>1, <1>2, <1>3, <1>4, <1>6 DEF ReaderInv, Reading
<1>. QED
  BY <1>7, ReaderSuffices DEF Read

\* The third SELECT: tool calls, whose spans may be younger than the second.
LEMMA ReadToolCallsStep ==
    ASSUME IInv, NEW q \in Readers, ReadToolCalls(q) PROVE IInv'
<1>. DEFINE r == path[q]
<1>1. TypeOK /\ StoreInv /\ ReaderInv(q) /\ pc[q] = "read_tool_calls"
  BY ReaderInvHolds DEF IInv, ReadToolCalls
<1>2. r \in RunIds
  BY <1>1 DEF ReaderInv
<1>3. /\ path' = path
      /\ pc'[q] = "read_llm_calls"
      /\ agent_runs' = agent_runs /\ spans' = spans
      /\ tool_calls' = tool_calls /\ llm_calls' = llm_calls
      /\ overtaken' = overtaken
  BY <1>1 DEF TypeOK, ReadToolCalls, Advance
<1>4. view'[q] = [run |-> view[q].run, spans |-> view[q].spans,
                  tool_calls |-> tool_calls[r], llm_calls |-> view[q].llm_calls]
  BY <1>1 DEF TypeOK, ReaderInv, ReadToolCalls
<1>5. /\ IsToolCallTable(tool_calls[r])
      /\ {tool_calls[r][t].span_id : t \in DOMAIN tool_calls[r]} \subseteq DOMAIN spans[r]
  BY <1>1, <1>2, TableFacts
<1>6. /\ IsView(view'[q])
      /\ ParentsIn(view'[q]) = ParentsIn(view[q])
      /\ SpansCalledIn(view'[q]) \subseteq DOMAIN spans[r]
  BY <1>1, <1>4, <1>5, EmptyViewFacts DEF ReaderInv, IsView, ParentsIn, SpansCalledIn
<1>7. \A x \in {q} : ReaderInv(x)'
  <2>1. SUFFICES ReaderInv(q)'
    OBVIOUS
  <2>. QED
    BY <1>1, <1>2, <1>3, <1>4, <1>6 DEF ReaderInv, Reading
<1>. QED
  BY <1>7, ReaderSuffices DEF Read

\* The fourth SELECT, likewise.
LEMMA ReadLLMCallsStep ==
    ASSUME IInv, NEW q \in Readers, ReadLLMCalls(q) PROVE IInv'
<1>. DEFINE r == path[q]
<1>1. TypeOK /\ StoreInv /\ ReaderInv(q) /\ pc[q] = "read_llm_calls"
  BY ReaderInvHolds DEF IInv, ReadLLMCalls
<1>2. r \in RunIds
  BY <1>1 DEF ReaderInv
<1>3. /\ path' = path
      /\ pc'[q] = "assemble"
      /\ agent_runs' = agent_runs /\ spans' = spans
      /\ tool_calls' = tool_calls /\ llm_calls' = llm_calls
      /\ overtaken' = overtaken
  BY <1>1 DEF TypeOK, ReadLLMCalls, Advance
<1>4. view'[q] = [run |-> view[q].run, spans |-> view[q].spans,
                  tool_calls |-> view[q].tool_calls, llm_calls |-> llm_calls[r]]
  BY <1>1 DEF TypeOK, ReaderInv, ReadLLMCalls
<1>5. /\ IsLLMCallTable(llm_calls[r])
      /\ {llm_calls[r][l].span_id : l \in DOMAIN llm_calls[r]} \subseteq DOMAIN spans[r]
  BY <1>1, <1>2, TableFacts
<1>6. /\ IsView(view'[q])
      /\ ParentsIn(view'[q]) = ParentsIn(view[q])
      /\ SpansCalledIn(view'[q]) \subseteq DOMAIN spans[r]
  BY <1>1, <1>4, <1>5, EmptyViewFacts DEF ReaderInv, IsView, ParentsIn, SpansCalledIn
<1>7. \A x \in {q} : ReaderInv(x)'
  <2>1. SUFFICES ReaderInv(q)'
    OBVIOUS
  <2>. QED
    BY <1>1, <1>2, <1>3, <1>4, <1>6 DEF ReaderInv, Reading
<1>. QED
  BY <1>7, ReaderSuffices DEF Read

\* A reader that no snapshot overtook finds every span it looks up.
LEMMA UndisturbedResolves ==
    ASSUME TypeOK, StoreInv, NEW q \in Readers, ReaderInv(q),
           pc[q] = "assemble", ~overtaken[q]
    PROVE  /\ Unresolved(view[q]) = {}
           /\ view[q] = [run |-> agent_runs[path[q]], spans |-> spans[path[q]],
                         tool_calls |-> tool_calls[path[q]],
                         llm_calls |-> llm_calls[path[q]]]
BY DEF ReaderInv, Reading, Unresolved

\* The lookup of the spans fails exactly if one was not read
\* (evaluation_run_view, get_run).
LEMMA AssembleStep == ASSUME IInv, NEW q \in Readers, Assemble(q) PROVE IInv'
<1>1. TypeOK /\ StoreInv /\ ReaderInv(q) /\ pc[q] = "assemble"
  BY ReaderInvHolds DEF IInv, Assemble
<1>2. /\ path' = path /\ view' = view
      /\ pc'[q] = IF Unresolved(view[q]) = {} THEN "ok" ELSE "failed"
      /\ agent_runs' = agent_runs /\ spans' = spans
      /\ tool_calls' = tool_calls /\ llm_calls' = llm_calls
      /\ overtaken' = overtaken
  BY <1>1 DEF TypeOK, Assemble, Advance
<1>3. Unresolved(view[q]) # {} => overtaken[q]
  BY <1>1, UndisturbedResolves
<1>4. \A x \in {q} : ReaderInv(x)'
  <2>1. SUFFICES ReaderInv(q)'
    OBVIOUS
  <2>. QED
    BY <1>1, <1>2, <1>3 DEF ReaderInv, Reading
<1>. QED
  BY <1>4, ReaderSuffices DEF Read

\* Every step keeps the invariant.
LEMMA NextIInv == IInv /\ [Next]_vars => IInv'
<1>. SUFFICES ASSUME IInv, [Next]_vars PROVE IInv'
  OBVIOUS
<1>1. CASE UNCHANGED vars
  BY <1>1 DEF vars, IInv, TypeOK, StoreInv, ViewInv, ResolveInv, FreshInv, CoverInv,
     IsView, ParentsIn, SpansCalledIn
<1>2. ASSUME NEW q \in Readers, Read(q) PROVE IInv'
  BY <1>2, ReadRunStep, ReadSpansStep, ReadToolCallsStep, ReadLLMCallsStep,
     AssembleStep DEF Read
<1>. QED
  BY <1>1, <1>2, IngestStep DEF Next

\* The invariant holds in every reachable state.
LEMMA Invariance == Spec => []IInv
BY InitIInv, NextIInv, PTL DEF Spec

-----------------------------------------------------------------------------
(* The theorems.                                                           *)

\* The tables and the views fit the columns they are read from.
THEOREM TypeCorrect == Spec => []TypeOK
BY Invariance, PTL DEF IInv

\* A read dies only of a snapshot that overtook it, never of a parent, and
\* the span it missed is stored by then (evaluation_run_view, get_run).
THEOREM FailureIsTransient == Spec => []FailedReadIsTransient
<1>1. IInv => FailedReadIsTransient
  BY DEF IInv, ResolveInv, FreshInv, FailedReadIsTransient
<1>. QED
  BY <1>1, Invariance, PTL

\* The children counted in a view's run row are in the view.
THEOREM TotalsCovered == Spec => []ViewCoversItsTotals
<1>1. IInv => ViewCoversItsTotals
  BY DEF IInv, CoverInv, ViewCoversItsTotals
<1>. QED
  BY <1>1, Invariance, PTL

\* Four SELECTs that no snapshot of the run comes between amount to one.
THEOREM UndisturbedIsStored == Spec => UndisturbedViewIsStored
<1>. DEFINE Amount == \A q \in Readers :
          pc[q] = "assemble" /\ pc'[q] # "assemble" /\ ~overtaken[q] =>
             /\ pc'[q] = "ok"
             /\ view[q] = [run |-> agent_runs[path[q]], spans |-> spans[path[q]],
                           tool_calls |-> tool_calls[path[q]],
                           llm_calls |-> llm_calls[path[q]]]
<1>1. IInv /\ [Next]_vars => Amount
  <2>. SUFFICES ASSUME IInv, [Next]_vars, NEW q \in Readers,
                       pc[q] = "assemble", pc'[q] # "assemble", ~overtaken[q]
                PROVE  /\ pc'[q] = "ok"
                       /\ view[q] = [run |-> agent_runs[path[q]],
                                     spans |-> spans[path[q]],
                                     tool_calls |-> tool_calls[path[q]],
                                     llm_calls |-> llm_calls[path[q]]]
    OBVIOUS
  <2>1. /\ TypeOK /\ StoreInv /\ ReaderInv(q)
    BY ReaderInvHolds DEF IInv
  <2>2. Assemble(q)
    <3>1. ASSUME NEW p \in Readers, Read(p), p # q PROVE FALSE
      BY <2>1, <3>1, ReadFacts
    <3>2. Read(q)
      BY <3>1 DEF Next, Ingest, vars
    <3>. QED
      BY <3>2 DEF Read, ReadRun, ReadSpans, ReadToolCalls, ReadLLMCalls
  <2>3. pc'[q] = IF Unresolved(view[q]) = {} THEN "ok" ELSE "failed"
    BY <2>1, <2>2 DEF Assemble, Advance, TypeOK
  <2>. QED
    BY <2>1, <2>3, UndisturbedResolves
<1>. QED
  BY <1>1, Invariance, PTL DEF Spec, UndisturbedViewIsStored

=============================================================================
