--------------------------- MODULE IngestionProofs ---------------------------
(***************************************************************************)
(* Theorems about Ingestion and IngestionHistory, for any set of requests, *)
(* runs, payloads and any degree of concurrency.                           *)
(***************************************************************************)
EXTENDS IngestionHistory, RunTablesProofs

-----------------------------------------------------------------------------
(* The inductive invariant.                                                *)

\* What a request carries, and that whoever executes a statement after the
\* upsert of agent_runs holds the lock of its run, and nobody else does.
RequestInv ==
    \A q \in Requests :
        /\ pc[q] # "unsent" => event[q] \in Payloads
        /\ pc[q] \in InTransaction => Valid(event[q])
        /\ pc[q] \in LockedStatements => row_lock[Run(q)] = q

LockInv ==
    \A r \in RunIds : row_lock[r] # None =>
        pc[row_lock[r]] \in LockedStatements /\ Run(row_lock[r]) = r

\* The draft of a request is what its statements so far make of its body.
DraftInv ==
    \A q \in Requests :
        /\ pc[q] \in LockedStatements =>
              /\ draft[q].run \in AgentRun
              /\ draft[q].run = AgentRunValues(event[q], draft[q].run.usage)
        /\ pc[q] = "resolve_parents" => draft[q].spans = SpanValues(event[q])
        /\ pc[q] \in {"upsert_tool_calls", "upsert_llm_calls", "refresh_usage",
                      "commit"} =>
              draft[q].spans = ResolvedParents(event[q])
        /\ pc[q] \in {"upsert_llm_calls", "refresh_usage", "commit"} =>
              draft[q].tool_calls = ToolCallValues(event[q])
        /\ pc[q] \in {"refresh_usage", "commit"} =>
              draft[q].llm_calls = LLMCallValues(event[q])
        /\ pc[q] = "commit" =>
              /\ UsageFits(VisibleUsage(q))
              /\ draft[q].run.usage = VisibleUsage(q)

IInv ==
    /\ TypeOK
    /\ RequestInv
    /\ LockInv
    /\ DraftInv
    /\ UsageMatchesRows

\* Empty tables and requests that were not sent satisfy the invariant.
LEMMA InitIInv == Init => IInv
<1>. SUFFICES ASSUME Init PROVE IInv
  OBVIOUS
<1>1. TypeOK
  BY NoRowsType DEF Init, TypeOK, EmptyDraft, IsSpanTable, IsToolCallTable,
                    IsLLMCallTable
<1>2. RequestInv
  BY DEF Init, RequestInv, InTransaction, LockedStatements
<1>3. LockInv
  BY DEF Init, LockInv
<1>4. DraftInv
  BY DEF Init, DraftInv, LockedStatements
<1>5. UsageMatchesRows
  BY DEF Init, UsageMatchesRows
<1>. QED
  BY <1>1, <1>2, <1>3, <1>4, <1>5 DEF IInv

\* What the body of a request in a transaction gives the prover.
LEMMA InTransactionFacts ==
    ASSUME IInv, NEW q \in Requests, pc[q] \in InTransaction
    PROVE  /\ event[q] \in ExtendedRunEvent
           /\ Run(q) \in RunIds
           /\ Valid(event[q])
<1>1. event[q] \in Payloads /\ Valid(event[q])
  BY DEF IInv, RequestInv, InTransaction, LockedStatements
<1>2. event[q] \in ExtendedRunEvent
  BY <1>1, PayloadsAssumption
<1>. QED
  BY <1>1, <1>2 DEF Run, ExtendedRunEvent

\* A request that is sent satisfies it if its body is valid (create_run).
LEMMA PostStep == ASSUME IInv, NEW q \in Requests, Post(q) PROVE IInv'
<1>. USE DEF Post
<1>1. PICK e \in Payloads :
          /\ event' = [event EXCEPT ![q] = e]
          /\ pc' = [pc EXCEPT ![q] = IF Valid(e) THEN "guard" ELSE "invalid"]
  OBVIOUS
<1>2. TypeOK'
  BY <1>1 DEF IInv, TypeOK, InTransaction, Answers
<1>3. RequestInv'
  BY <1>1 DEF IInv, TypeOK, RequestInv, InTransaction, LockedStatements, Run
<1>4. LockInv'
  BY <1>1 DEF IInv, TypeOK, LockInv, LockedStatements, Run
<1>5. DraftInv'
  BY <1>1 DEF IInv, TypeOK, DraftInv, LockedStatements, VisibleUsage, Run
<1>6. UsageMatchesRows'
  BY DEF IInv, UsageMatchesRows
<1>. QED
  BY <1>2, <1>3, <1>4, <1>5, <1>6 DEF IInv

\* A transaction that ends without writing: refused, out of range or aborted.
LEMMA RollbackStep ==
    ASSUME IInv, NEW q \in Requests, pc[q] \in InTransaction,
           NEW answer \in Answers, EndTransaction(q, answer), UNCHANGED tables
    PROVE  IInv'
<1>. USE DEF EndTransaction, tables
<1>1. Run(q) \in RunIds
  BY InTransactionFacts
<1>2. TypeOK'
  BY <1>1, NoRowsType DEF IInv, TypeOK, EmptyDraft, IsSpanTable,
     IsToolCallTable, IsLLMCallTable
<1>3. RequestInv'
  BY <1>1 DEF IInv, TypeOK, RequestInv, InTransaction, LockedStatements,
     Answers, Run, Holds
<1>4. LockInv'
  BY <1>1 DEF IInv, TypeOK, LockInv, LockedStatements, Answers, Run, Holds
<1>5. DraftInv'
  BY DEF IInv, TypeOK, DraftInv, LockedStatements, Answers, VisibleUsage, Run
<1>6. UsageMatchesRows'
  BY DEF IInv, UsageMatchesRows
<1>. QED
  BY <1>2, <1>3, <1>4, <1>5, <1>6 DEF IInv

\* The guard writes nothing (_reject_pending_after_terminal_hitl_state).
LEMMA GuardStep == ASSUME IInv, NEW q \in Requests, GuardHITL(q) PROVE IInv'
<1>1. CASE EndTransaction(q, "refused") /\ UNCHANGED tables
  BY <1>1, RollbackStep DEF GuardHITL, InTransaction, Answers
<1>2. CASE Advance(q, "upsert_run") /\ UNCHANGED <<row_lock, draft>>
  <2>. USE <1>2 DEF GuardHITL, Advance
  <2>1. TypeOK'
    BY DEF IInv, TypeOK, InTransaction
  <2>2. RequestInv'
    BY DEF IInv, TypeOK, RequestInv, InTransaction, LockedStatements, Run
  <2>3. LockInv'
    BY DEF IInv, TypeOK, LockInv, LockedStatements, Run
  <2>4. DraftInv'
    BY DEF IInv, TypeOK, DraftInv, LockedStatements, VisibleUsage, Run
  <2>5. UsageMatchesRows'
    BY DEF IInv, UsageMatchesRows
  <2>. QED
    BY <2>1, <2>2, <2>3, <2>4, <2>5 DEF IInv
<1>. QED
  BY <1>1, <1>2 DEF GuardHITL

\* The upsert of the run takes the row lock and starts the draft
\* (_upsert_agent_run).
LEMMA UpsertAgentRunStep ==
    ASSUME IInv, NEW q \in Requests, UpsertAgentRun(q) PROVE IInv'
<1>. DEFINE r == Run(q)
            stored == agent_runs[r]
            usage == IF stored = None THEN NoUsage ELSE stored.usage
<1>. USE DEF UpsertAgentRun, Advance, RowLockFree
<1>1. r \in RunIds /\ event[q] \in ExtendedRunEvent
  BY InTransactionFacts DEF InTransaction
<1>2. usage \in Usage
  BY <1>1 DEF IInv, TypeOK, AgentRun, NoUsage, Usage
<1>3. AgentRunValues(event[q], usage) \in AgentRun
  BY <1>1, <1>2, AgentRunValuesType
<1>4. draft'[q].run = AgentRunValues(event[q], usage)
  BY DEF IInv, TypeOK, EmptyDraft
<1>5. AgentRunValues(event[q], usage).usage = usage
  BY DEF AgentRunValues
<1>6. TypeOK'
  BY <1>1, <1>3 DEF IInv, TypeOK, EmptyDraft, InTransaction, LockedStatements
<1>7. RequestInv'
  BY <1>1, NoneIsNoRequest
  DEF IInv, TypeOK, RequestInv, InTransaction, LockedStatements, Run
<1>8. LockInv'
  BY <1>1 DEF IInv, TypeOK, LockInv, LockedStatements, Run
<1>9. DraftInv'
  BY <1>1, <1>3, <1>4, <1>5
  DEF IInv, TypeOK, DraftInv, LockedStatements, VisibleUsage, Run
<1>10. UsageMatchesRows'
  BY DEF IInv, UsageMatchesRows
<1>. QED
  BY <1>6, <1>7, <1>8, <1>9, <1>10 DEF IInv

\* The statements that only extend the draft, one lemma each.
LEMMA UpsertSpansStep ==
    ASSUME IInv, NEW q \in Requests, UpsertSpans(q) PROVE IInv'
<1>. USE DEF UpsertSpans, Advance
<1>1. IsSpanTable(SpanValues(event[q]))
  BY InTransactionFacts, SpanValuesType DEF InTransaction, LockedStatements
<1>2. TypeOK'
  BY <1>1 DEF IInv, TypeOK, EmptyDraft, InTransaction, LockedStatements
<1>3. RequestInv'
  BY DEF IInv, TypeOK, RequestInv, InTransaction, LockedStatements, Run
<1>4. LockInv'
  BY DEF IInv, TypeOK, LockInv, LockedStatements, Run
<1>5. DraftInv'
  BY DEF IInv, TypeOK, EmptyDraft, DraftInv, LockedStatements, VisibleUsage, Run
<1>6. UsageMatchesRows'
  BY DEF IInv, UsageMatchesRows
<1>. QED
  BY <1>2, <1>3, <1>4, <1>5, <1>6 DEF IInv

\* Parents are resolved in the draft (_resolve_span_parents).
LEMMA ResolveSpanParentsStep ==
    ASSUME IInv, NEW q \in Requests, ResolveSpanParents(q) PROVE IInv'
<1>. USE DEF ResolveSpanParents, Advance
<1>1. IsSpanTable(ResolvedParents(event[q]))
  BY InTransactionFacts, SpanValuesType DEF InTransaction, LockedStatements
<1>2. TypeOK'
  BY <1>1 DEF IInv, TypeOK, EmptyDraft, InTransaction, LockedStatements
<1>3. RequestInv'
  BY DEF IInv, TypeOK, RequestInv, InTransaction, LockedStatements, Run
<1>4. LockInv'
  BY DEF IInv, TypeOK, LockInv, LockedStatements, Run
<1>5. DraftInv'
  BY DEF IInv, TypeOK, EmptyDraft, DraftInv, LockedStatements, VisibleUsage, Run
<1>6. UsageMatchesRows'
  BY DEF IInv, UsageMatchesRows
<1>. QED
  BY <1>2, <1>3, <1>4, <1>5, <1>6 DEF IInv

\* Tool calls are added to the draft (_upsert_tool_call).
LEMMA UpsertToolCallsStep ==
    ASSUME IInv, NEW q \in Requests, UpsertToolCalls(q) PROVE IInv'
<1>. USE DEF UpsertToolCalls, Advance
<1>1. IsToolCallTable(ToolCallValues(event[q]))
  BY InTransactionFacts, ToolCallValuesType DEF InTransaction, LockedStatements
<1>2. TypeOK'
  BY <1>1 DEF IInv, TypeOK, EmptyDraft, InTransaction, LockedStatements
<1>3. RequestInv'
  BY DEF IInv, TypeOK, RequestInv, InTransaction, LockedStatements, Run
<1>4. LockInv'
  BY DEF IInv, TypeOK, LockInv, LockedStatements, Run
<1>5. DraftInv'
  BY DEF IInv, TypeOK, EmptyDraft, DraftInv, LockedStatements, VisibleUsage, Run
<1>6. UsageMatchesRows'
  BY DEF IInv, UsageMatchesRows
<1>. QED
  BY <1>2, <1>3, <1>4, <1>5, <1>6 DEF IInv

\* So are calls of the model (_upsert_llm_call).
LEMMA UpsertLLMCallsStep ==
    ASSUME IInv, NEW q \in Requests, UpsertLLMCalls(q) PROVE IInv'
<1>. USE DEF UpsertLLMCalls, Advance
<1>1. IsLLMCallTable(LLMCallValues(event[q]))
  BY InTransactionFacts, LLMCallValuesType DEF InTransaction, LockedStatements
<1>2. TypeOK'
  BY <1>1 DEF IInv, TypeOK, EmptyDraft, InTransaction, LockedStatements
<1>3. RequestInv'
  BY DEF IInv, TypeOK, RequestInv, InTransaction, LockedStatements, Run
<1>4. LockInv'
  BY DEF IInv, TypeOK, LockInv, LockedStatements, Run
<1>5. DraftInv'
  BY DEF IInv, TypeOK, EmptyDraft, DraftInv, LockedStatements, VisibleUsage, Run
<1>6. UsageMatchesRows'
  BY DEF IInv, UsageMatchesRows
<1>. QED
  BY <1>2, <1>3, <1>4, <1>5, <1>6 DEF IInv

\* The totals a transaction sees are well typed once they fit.
LEMMA VisibleUsageType ==
    ASSUME IInv, NEW q \in Requests, pc[q] \in InTransaction,
           UsageFits(VisibleUsage(q))
    PROVE  VisibleUsage(q) \in Usage
<1>. DEFINE tools == Upsert(draft[q].tool_calls, tool_calls[Run(q)])
            llms == Upsert(draft[q].llm_calls, llm_calls[Run(q)])
<1>1. Run(q) \in RunIds
  BY InTransactionFacts
<1>2. IsToolCallTable(tools)
  BY <1>1, UpsertType DEF IInv, TypeOK, IsToolCallTable
<1>3. IsLLMCallTable(llms)
  BY <1>1, UpsertType DEF IInv, TypeOK, IsLLMCallTable
<1>. QED
  BY <1>2, <1>3, UsageTotalsType DEF VisibleUsage

\* The totals in the draft are those of its rows, in their columns' range
\* (_refresh_run_usage_totals).
LEMMA RefreshUsageStep ==
    ASSUME IInv, NEW q \in Requests, RefreshUsage(q) PROVE IInv'
<1>. USE DEF RefreshUsage, Advance
<1>1. VisibleUsage(q) \in Usage
  BY VisibleUsageType DEF InTransaction, LockedStatements
<1>2. draft[q].run \in AgentRun
  BY DEF IInv, DraftInv, LockedStatements
<1>3. draft'[q].run = [draft[q].run EXCEPT !.usage = VisibleUsage(q)]
  BY DEF IInv, TypeOK, EmptyDraft
<1>4. draft'[q].run \in AgentRun /\ draft'[q].run.usage = VisibleUsage(q)
  BY <1>1, <1>2, <1>3 DEF AgentRun
<1>5. draft'[q].run = AgentRunValues(event[q], draft'[q].run.usage)
  <2>1. draft[q].run = AgentRunValues(event[q], draft[q].run.usage)
    BY DEF IInv, DraftInv, LockedStatements
  <2>. QED
    BY <2>1, <1>3, <1>4 DEF AgentRunValues
<1>6. VisibleUsage(q)' = VisibleUsage(q)
  BY DEF IInv, TypeOK, EmptyDraft, VisibleUsage, Run
<1>7. TypeOK'
  BY <1>4 DEF IInv, TypeOK, EmptyDraft, InTransaction, LockedStatements
<1>8. RequestInv'
  BY DEF IInv, TypeOK, RequestInv, InTransaction, LockedStatements, Run
<1>9. LockInv'
  BY DEF IInv, TypeOK, LockInv, LockedStatements, Run
<1>10. DraftInv'
  BY <1>4, <1>5, <1>6
  DEF IInv, TypeOK, EmptyDraft, DraftInv, LockedStatements, VisibleUsage, Run
<1>11. UsageMatchesRows'
  BY DEF IInv, UsageMatchesRows
<1>. QED
  BY <1>7, <1>8, <1>9, <1>10, <1>11 DEF IInv

\* A commit publishes a draft that is complete and frees the lock.
LEMMA CommitStep == ASSUME IInv, NEW q \in Requests, Commit(q) PROVE IInv'
<1>. DEFINE r == Run(q)
<1>. USE DEF Commit, EndTransaction
<1>1. r \in RunIds /\ row_lock[r] = q
  BY InTransactionFacts DEF IInv, RequestInv, InTransaction, LockedStatements
<1>2. draft[q].run \in AgentRun
  BY DEF IInv, DraftInv, LockedStatements
<1>3. /\ IsSpanTable(Upsert(draft[q].spans, spans[r]))
      /\ IsToolCallTable(Upsert(draft[q].tool_calls, tool_calls[r]))
      /\ IsLLMCallTable(Upsert(draft[q].llm_calls, llm_calls[r]))
  BY <1>1, UpsertType
  DEF IInv, TypeOK, IsSpanTable, IsToolCallTable, IsLLMCallTable
<1>4. ASSUME NEW p \in Requests, p # q, pc[p] \in LockedStatements
      PROVE  Run(p) # r
  BY <1>1, <1>4 DEF IInv, RequestInv
<1>5. TypeOK'
  BY <1>1, <1>2, <1>3, NoRowsType
  DEF IInv, TypeOK, EmptyDraft, IsSpanTable, IsToolCallTable, IsLLMCallTable,
      Answers
<1>6. RequestInv'
  BY <1>1 DEF IInv, TypeOK, RequestInv, InTransaction, LockedStatements,
     Run, Holds
<1>7. LockInv'
  BY <1>1 DEF IInv, TypeOK, LockInv, LockedStatements, Run, Holds
<1>8. DraftInv'
  BY <1>1, <1>4
  DEF IInv, TypeOK, DraftInv, LockedStatements, VisibleUsage, Run
<1>9. UsageMatchesRows'
  BY <1>1 DEF IInv, TypeOK, UsageMatchesRows, DraftInv, VisibleUsage
<1>. QED
  BY <1>5, <1>6, <1>7, <1>8, <1>9 DEF IInv

\* Every step of the specification keeps the invariant.
LEMMA NextIInv == IInv /\ [Next]_vars => IInv'
<1>. SUFFICES ASSUME IInv, [Next]_vars PROVE IInv'
  OBVIOUS
<1>1. ASSUME NEW q \in Requests, Post(q) PROVE IInv'
  BY <1>1, PostStep
<1>2. ASSUME NEW q \in Requests, Serve(q) PROVE IInv'
  <2>1. CASE UsageOutOfRange(q)
    BY <2>1, RollbackStep
    DEF UsageOutOfRange, InTransaction, LockedStatements, Answers
  <2>. QED
    BY <1>2, <2>1, GuardStep, UpsertAgentRunStep, UpsertSpansStep,
       ResolveSpanParentsStep, UpsertToolCallsStep, UpsertLLMCallsStep,
       RefreshUsageStep, CommitStep DEF Serve
<1>3. ASSUME NEW q \in Requests, Abort(q) PROVE IInv'
  BY <1>3, RollbackStep DEF Abort, Answers
<1>4. CASE UNCHANGED vars
  BY <1>4 DEF vars, IInv, TypeOK, RequestInv, LockInv, DraftInv,
     UsageMatchesRows, VisibleUsage, Run
<1>. QED
  BY <1>1, <1>2, <1>3, <1>4 DEF Next, Idle

\* The invariant holds in every reachable state, for any interleaving.
THEOREM Invariance == Spec => []IInv
BY InitIInv, NextIInv, PTL DEF Spec

-----------------------------------------------------------------------------
(* What follows from it.                                                   *)

\* Every variable keeps its type, stored totals included.
THEOREM TypeCorrect == Spec => []TypeOK
BY Invariance, PTL DEF IInv

\* Stored usage totals are those of the stored children, for any number of
\* concurrent snapshots of a run (_refresh_run_usage_totals).
THEOREM UsageCorrect == Spec => []UsageMatchesRows
BY Invariance, PTL DEF IInv

\* Two transactions past their upsert of agent_runs are on different runs.
THEOREM SingleWriter == Spec => []OneWriterPerRun
<1>1. IInv => OneWriterPerRun
  BY DEF IInv, RequestInv, OneWriterPerRun
<1>. QED
  BY <1>1, Invariance, PTL

\* A step either leaves the tables alone or commits one request's draft.
LEMMA TablesChangeByCommit ==
    ASSUME [Next]_vars
    PROVE  UNCHANGED tables \/ \E q \in Requests : Commit(q)
BY DEF Next, Idle, Post, Serve, GuardHITL, UpsertAgentRun, UpsertSpans,
   ResolveSpanParents, UpsertToolCalls, UpsertLLMCalls, RefreshUsage,
   UsageOutOfRange, Abort, Advance, vars, tables

\* What a commit writes is what the snapshot says.
LEMMA CommitFacts ==
    ASSUME IInv, NEW q \in Requests, Commit(q)
    PROVE  /\ Run(q) \in RunIds
           /\ Valid(event[q])
           /\ draft[q].run = AgentRunValues(event[q], draft[q].run.usage)
           /\ draft[q].run \in AgentRun
           /\ draft[q].run.usage = VisibleUsage(q)
           /\ UsageFits(VisibleUsage(q))
           /\ draft[q].spans = ResolvedParents(event[q])
           /\ draft[q].tool_calls = ToolCallValues(event[q])
           /\ draft[q].llm_calls = LLMCallValues(event[q])
BY InTransactionFacts DEF Commit, IInv, DraftInv, InTransaction, LockedStatements

\* No committed child row is ever removed (phase-2 "Pure upsert").
THEOREM NoChildIsLost == Spec => ChildrenNeverVanish
<1>. DEFINE Kept == \A r \in RunIds :
                /\ DOMAIN spans[r] \subseteq DOMAIN spans'[r]
                /\ DOMAIN tool_calls[r] \subseteq DOMAIN tool_calls'[r]
                /\ DOMAIN llm_calls[r] \subseteq DOMAIN llm_calls'[r]
<1>1. IInv /\ [Next]_vars => Kept
  <2>. SUFFICES ASSUME IInv, [Next]_vars PROVE Kept
    OBVIOUS
  <2>1. CASE UNCHANGED tables
    BY <2>1 DEF tables
  <2>2. ASSUME NEW q \in Requests, Commit(q) PROVE Kept
    BY <2>2, CommitFacts DEF Commit, IInv, TypeOK, Upsert
  <2>. QED
    BY <2>1, <2>2, TablesChangeByCommit
<1>. QED
  BY <1>1, Invariance, PTL DEF Spec, ChildrenNeverVanish

\* A stored run satisfies the lifecycle its snapshot was validated by.
THEOREM LifecycleCorrect == Spec => []StoredLifecycleIsValid
<1>1. Init => StoredLifecycleIsValid
  BY DEF Init, StoredLifecycleIsValid
<1>2. IInv /\ StoredLifecycleIsValid /\ [Next]_vars => StoredLifecycleIsValid'
  <2>. SUFFICES ASSUME IInv, StoredLifecycleIsValid, [Next]_vars
                PROVE  StoredLifecycleIsValid'
    OBVIOUS
  <2>1. CASE UNCHANGED tables
    BY <2>1 DEF tables, StoredLifecycleIsValid
  <2>2. ASSUME NEW q \in Requests, Commit(q) PROVE StoredLifecycleIsValid'
    <3>. DEFINE e == event[q]
                run == AgentRunValues(e, draft[q].run.usage)
    <3>1. ValidLifecycle(e)
      BY <2>2, CommitFacts DEF Valid
    <3>2. /\ run.event_type = e.event_type /\ run.status = e.status
          /\ run.completed_at = e.completed_at /\ run.hitl = e.hitl
          /\ run.final_result = e.final_result
          /\ run.runtime_error = e.runtime_error
      BY DEF AgentRunValues
    <3>3. ValidLifecycle(run)
      BY <3>1, <3>2 DEF ValidLifecycle, ValidAwaitingApproval, ValidFinal
    <3>4. agent_runs' = [agent_runs EXCEPT ![Run(q)] = run]
      BY <2>2, CommitFacts DEF Commit
    <3>. QED
      BY <3>3, <3>4 DEF StoredLifecycleIsValid, IInv, TypeOK
  <2>. QED
    BY <2>1, <2>2, TablesChangeByCommit
<1>. QED
  BY <1>1, <1>2, Invariance, PTL DEF Spec

\* No committed child refers to a span that is not stored for its run.
THEOREM ReferencesCorrect == Spec => []ReferencesResolve
<1>1. Init => ReferencesResolve
  BY DEF Init, ReferencesResolve, NoRows
<1>2. IInv /\ ReferencesResolve /\ [Next]_vars => ReferencesResolve'
  <2>. SUFFICES ASSUME IInv, ReferencesResolve, [Next]_vars
                PROVE  ReferencesResolve'
    OBVIOUS
  <2>1. CASE UNCHANGED tables
    BY <2>1 DEF tables, ReferencesResolve
  <2>2. ASSUME NEW q \in Requests, Commit(q) PROVE ReferencesResolve'
    <3>. DEFINE e == event[q]
                r == Run(q)
    <3>1. /\ e \in ExtendedRunEvent
          /\ Valid(e)
      BY <2>2, InTransactionFacts DEF Commit, InTransaction, LockedStatements
    <3>2. /\ r \in RunIds
          /\ draft[q].run # None
          /\ spans' = [spans EXCEPT ![r] = Upsert(ResolvedParents(e), spans[r])]
          /\ tool_calls' =
                [tool_calls EXCEPT ![r] = Upsert(ToolCallValues(e), tool_calls[r])]
          /\ llm_calls' =
                [llm_calls EXCEPT ![r] = Upsert(LLMCallValues(e), llm_calls[r])]
      BY <2>2, CommitFacts, NoneIsNoRun DEF Commit
    <3>3. /\ \A s \in DOMAIN spans'[r] :
                spans'[r][s].parent_span_id \in DOMAIN spans'[r] \cup {None}
          /\ \A t \in DOMAIN tool_calls'[r] :
                tool_calls'[r][t].span_id \in DOMAIN spans'[r]
          /\ \A l \in DOMAIN llm_calls'[r] :
                llm_calls'[r][l].span_id \in DOMAIN spans'[r]
      <4>. HIDE DEF e, r
      <4>. QED
        BY <3>1, <3>2, ValidReferences DEF ReferencesResolve, Upsert, IInv, TypeOK
    <3>4. agent_runs'[r] # None
      BY <2>2, <3>2 DEF Commit, IInv, TypeOK
    <3>5. ASSUME NEW o \in RunIds, o # r
          PROVE  /\ agent_runs'[o] = agent_runs[o]
                 /\ spans'[o] = spans[o]
                 /\ tool_calls'[o] = tool_calls[o]
                 /\ llm_calls'[o] = llm_calls[o]
      BY <2>2, <3>5 DEF Commit, IInv, TypeOK
    <3>. QED
      BY <3>3, <3>4, <3>5 DEF ReferencesResolve
  <2>. QED
    BY <2>1, <2>2, TablesChangeByCommit
<1>. QED
  BY <1>1, <1>2, Invariance, PTL DEF Spec

-----------------------------------------------------------------------------
(* What a 200 means.                                                       *)

\* Only a commit answers 200.
LEMMA AnsweringIsCommit ==
    ASSUME IInv, [Next]_vars, NEW q \in Requests, Answering(q)
    PROVE  Commit(q)
<1>. USE DEF Answering, IInv, TypeOK
<1>1. ASSUME NEW p \in Requests, Commit(p) PROVE p = q
  BY <1>1 DEF Commit, EndTransaction
<1>2. ASSUME NEW p \in Requests, Post(p) \/ Abort(p) PROVE FALSE
  BY <1>2 DEF Post, Abort, EndTransaction
<1>3. ASSUME NEW p \in Requests,
             \/ GuardHITL(p) \/ UpsertAgentRun(p) \/ UpsertSpans(p)
             \/ ResolveSpanParents(p) \/ UpsertToolCalls(p) \/ UpsertLLMCalls(p)
             \/ RefreshUsage(p) \/ UsageOutOfRange(p)
      PROVE  FALSE
  BY <1>3 DEF GuardHITL, UpsertAgentRun, UpsertSpans, ResolveSpanParents,
     UpsertToolCalls, UpsertLLMCalls, RefreshUsage, UsageOutOfRange, Advance,
     EndTransaction
<1>. QED
  BY <1>1, <1>2, <1>3 DEF Next, Serve, Idle, vars

\* What a commit makes of the tables of its run.
LEMMA CommitTables ==
    ASSUME IInv, NEW q \in Requests, Commit(q)
    PROVE  LET e == event[q]
               r == Run(q)
           IN /\ r \in RunIds
              /\ agent_runs'[r] = AgentRunValues(e, draft[q].run.usage)
              /\ agent_runs'[r] # None
              /\ spans'[r] = Upsert(ResolvedParents(e), spans[r])
              /\ tool_calls'[r] = Upsert(ToolCallValues(e), tool_calls[r])
              /\ llm_calls'[r] = Upsert(LLMCallValues(e), llm_calls[r])
              /\ event' = event
BY CommitFacts, NoneIsNoRun DEF Commit, EndTransaction, IInv, TypeOK

\* At the moment a snapshot is answered 200 the store shows all of it, however
\* many other snapshots of its run are in flight.
THEOREM AnsweredIsStored == Spec => AnsweredMeansStored
<1>. DEFINE Stored == \A q \in Requests : Answering(q) => Shows(event[q])'
<1>1. IInv /\ [Next]_vars => Stored
  <2>. SUFFICES ASSUME IInv, [Next]_vars, NEW q \in Requests, Answering(q)
                PROVE  Shows(event[q])'
    OBVIOUS
  <2>. DEFINE e == event[q]
              r == Run(q)
  <2>1. Commit(q)
    BY AnsweringIsCommit
  <2>2. /\ r \in RunIds
        /\ agent_runs'[r] = AgentRunValues(e, draft[q].run.usage)
        /\ agent_runs'[r] # None
        /\ spans'[r] = Upsert(ResolvedParents(e), spans[r])
        /\ tool_calls'[r] = Upsert(ToolCallValues(e), tool_calls[r])
        /\ llm_calls'[r] = Upsert(LLMCallValues(e), llm_calls[r])
        /\ event' = event
    BY <2>1, CommitTables
  <2>3. agent_runs'[r] = AgentRunValues(e, agent_runs'[r].usage)
    BY <2>2 DEF AgentRunValues
  <2>4. /\ DOMAIN ResolvedParents(e) = SpanIdSet(e)
        /\ DOMAIN ToolCallValues(e) = ToolCallIdSet(e)
        /\ DOMAIN LLMCallValues(e) = LLMCallIdSet(e)
    BY DEF ResolvedParents, ToolCallValues, LLMCallValues
  <2>5. \A f, g : \A id \in DOMAIN f :
           id \in DOMAIN Upsert(f, g) /\ Upsert(f, g)[id] = f[id]
    BY DEF Upsert
  <2>6. /\ \A s \in SpanIdSet(e) :
              s \in DOMAIN spans'[r] /\ spans'[r][s] = ResolvedParents(e)[s]
        /\ \A t \in ToolCallIdSet(e) :
              t \in DOMAIN tool_calls'[r] /\ tool_calls'[r][t] = ToolCallValues(e)[t]
        /\ \A l \in LLMCallIdSet(e) :
              l \in DOMAIN llm_calls'[r] /\ llm_calls'[r][l] = LLMCallValues(e)[l]
    <3>. HIDE DEF e, r
    <3>. QED
      BY <2>2, <2>4, <2>5
  <2>. QED
    BY <2>2, <2>3, <2>6 DEF Shows, Run
<1>. QED
  BY <1>1, Invariance, PTL DEF Spec, AnsweredMeansStored

\* Each table has a row, or a set of them, for every run and for nothing else.
ByRun ==
    /\ agent_runs = [r \in RunIds |-> agent_runs[r]]
    /\ spans = [r \in RunIds |-> spans[r]]
    /\ tool_calls = [r \in RunIds |-> tool_calls[r]]
    /\ llm_calls = [r \in RunIds |-> llm_calls[r]]

\* Tables stay tables: only a commit writes them, one entry each.
LEMMA TablesAreByRun == Spec => []ByRun
<1>1. Init => ByRun
  BY DEF Init, ByRun
<1>2. IInv /\ ByRun /\ [Next]_vars => ByRun'
  <2>. SUFFICES ASSUME IInv, ByRun, [Next]_vars PROVE ByRun'
    OBVIOUS
  <2>1. CASE UNCHANGED tables
    BY <2>1 DEF ByRun, tables
  <2>2. ASSUME NEW q \in Requests, Commit(q) PROVE ByRun'
    <3>1. ASSUME NEW f, NEW new, f = [r \in RunIds |-> f[r]]
          PROVE  [f EXCEPT ![Run(q)] = new]
                    = [r \in RunIds |-> [f EXCEPT ![Run(q)] = new][r]]
      BY <3>1
    <3>. QED
      BY <2>2, <3>1 DEF Commit, ByRun
  <2>3. UNCHANGED tables \/ \E q \in Requests : Commit(q)
    BY DEF Next, Serve, Idle, vars, Post, Abort, GuardHITL, UpsertAgentRun,
       UpsertSpans, ResolveSpanParents, UpsertToolCalls, UpsertLLMCalls,
       RefreshUsage, UsageOutOfRange, Advance, tables
  <2>. QED
    BY <2>1, <2>2, <2>3
<1>. QED
  BY <1>1, <1>2, Invariance, PTL DEF Spec

\* Ingesting again what the store already shows changes nothing at all
\* (ingest_run_event, phase-2 Task 5).
THEOREM ReplayIsIdle == Spec => ReplayChangesNothing
<1>. DEFINE Idempotent == \A q \in Requests :
                Answering(q) /\ Shows(event[q]) => UNCHANGED tables
<1>1. IInv /\ ByRun /\ [Next]_vars => Idempotent
  <2>. SUFFICES ASSUME IInv, ByRun, [Next]_vars, NEW q \in Requests,
                       Answering(q), Shows(event[q])
                PROVE  UNCHANGED tables
    OBVIOUS
  <2>. DEFINE e == event[q]
              r == Run(q)
  <2>1. Commit(q)
    BY AnsweringIsCommit
  <2>2. r \in RunIds /\ r = e.run_id
    BY <2>1, CommitTables DEF Run
  <2>3. /\ DOMAIN ResolvedParents(e) = SpanIdSet(e)
        /\ DOMAIN ToolCallValues(e) = ToolCallIdSet(e)
        /\ DOMAIN LLMCallValues(e) = LLMCallIdSet(e)
    BY DEF ResolvedParents, ToolCallValues, LLMCallValues
  <2>4. /\ IsSpanTable(spans[r])
        /\ IsToolCallTable(tool_calls[r])
        /\ IsLLMCallTable(llm_calls[r])
    BY <2>2 DEF IInv, TypeOK
  <2>5. Upsert(ResolvedParents(e), spans[r]) = spans[r]
    BY <2>2, <2>3, <2>4, UpsertNothingNew DEF Shows, IsSpanTable
  <2>6. Upsert(ToolCallValues(e), tool_calls[r]) = tool_calls[r]
    BY <2>2, <2>3, <2>4, UpsertNothingNew DEF Shows, IsToolCallTable
  <2>7. Upsert(LLMCallValues(e), llm_calls[r]) = llm_calls[r]
    BY <2>2, <2>3, <2>4, UpsertNothingNew DEF Shows, IsLLMCallTable
  <2>8. draft[q].run = agent_runs[r]
    <3>1. draft[q].run = AgentRunValues(e, VisibleUsage(q))
      BY <2>1, CommitFacts
    <3>2. VisibleUsage(q) = UsageTotals(tool_calls[r], llm_calls[r])
      BY <2>1, <2>6, <2>7, CommitFacts DEF VisibleUsage
    <3>3. /\ agent_runs[r] # None
          /\ agent_runs[r] = AgentRunValues(e, agent_runs[r].usage)
      BY <2>2 DEF Shows
    <3>4. agent_runs[r].usage = UsageTotals(tool_calls[r], llm_calls[r])
      BY <2>2, <3>3 DEF IInv, UsageMatchesRows
    <3>. QED
      BY <3>1, <3>2, <3>3, <3>4
  <2>9. /\ agent_runs' = [agent_runs EXCEPT ![r] = agent_runs[r]]
        /\ spans' = [spans EXCEPT ![r] = spans[r]]
        /\ tool_calls' = [tool_calls EXCEPT ![r] = tool_calls[r]]
        /\ llm_calls' = [llm_calls EXCEPT ![r] = llm_calls[r]]
    BY <2>1, <2>5, <2>6, <2>7, <2>8, CommitFacts DEF Commit
  <2>10. /\ agent_runs' = agent_runs
         /\ spans' = spans
         /\ tool_calls' = tool_calls
         /\ llm_calls' = llm_calls
    <3>. HIDE DEF r
    <3>. QED
      BY <2>2, <2>9, WriteBack DEF ByRun
  <2>. QED
    BY <2>10 DEF tables
<1>. QED
  BY <1>1, Invariance, TablesAreByRun, PTL DEF Spec, ReplayChangesNothing

-----------------------------------------------------------------------------
(* The reviewer's decision.                                                *)

\* A transaction that will set a decided run back to pending has passed its
\* guard before the decision was committed, and so was overtaken by it.
GuardInv ==
    \A q \in Requests :
        /\ pc[q] \in InTransaction \ {"guard"}
        /\ event[q].hitl.state = "pending"
        /\ StoredHITLIsTerminal(Run(q))
        => q \in overtaken

\* The history variable takes nothing away from Ingestion.
LEMMA HistoryIsNext == [HNext]_history_vars => [Next]_vars
BY DEF HNext, HServe, Next, Serve, history_vars

\* Who is past its guard and has not been there before has just found the run
\* undecided; who has been there keeps its body.
LEMMA PastGuard ==
    ASSUME IInv, [Next]_vars, NEW q \in Requests, pc'[q] \in InTransaction \ {"guard"}
    PROVE  /\ event'[q] = event[q]
           /\ \/ pc[q] \in InTransaction \ {"guard"}
              \/ event[q].hitl.state = "pending" => ~StoredHITLIsTerminal(Run(q))
<1>. USE DEF IInv, TypeOK, InTransaction, LockedStatements
<1>1. ASSUME NEW p \in Requests, Post(p) PROVE pc[q] = pc'[q] /\ event'[q] = event[q]
  BY <1>1 DEF Post
<1>2. ASSUME NEW p \in Requests, Abort(p) PROVE pc[q] = pc'[q] /\ event'[q] = event[q]
  BY <1>2 DEF Abort, EndTransaction
<1>3. ASSUME NEW p \in Requests, Serve(p)
      PROVE  /\ event'[q] = event[q]
             /\ \/ pc[q] \in InTransaction \ {"guard"}
                \/ event[q].hitl.state = "pending" => ~StoredHITLIsTerminal(Run(q))
  <2>1. event' = event
    BY <1>3 DEF Serve, GuardHITL, UpsertAgentRun, UpsertSpans, ResolveSpanParents,
       UpsertToolCalls, UpsertLLMCalls, RefreshUsage, UsageOutOfRange, Commit,
       Advance, EndTransaction
  <2>2. CASE p # q
    <3>1. pc'[q] = pc[q]
      BY <1>3, <2>2 DEF Serve, GuardHITL, UpsertAgentRun, UpsertSpans,
         ResolveSpanParents, UpsertToolCalls, UpsertLLMCalls, RefreshUsage,
         UsageOutOfRange, Commit, Advance, EndTransaction
    <3>. QED
      BY <2>1, <3>1
  <2>3. CASE p = q /\ GuardHITL(q)
    BY <2>1, <2>3 DEF GuardHITL, EndTransaction
  <2>4. CASE p = q /\ ~GuardHITL(q)
    <3>1. pc[q] \in InTransaction \ {"guard"}
      BY <1>3, <2>4 DEF Serve, UpsertAgentRun, UpsertSpans,
         ResolveSpanParents, UpsertToolCalls, UpsertLLMCalls, RefreshUsage,
         UsageOutOfRange, Commit
    <3>. QED
      BY <2>1, <3>1
  <2>. QED
    BY <2>2, <2>3, <2>4
<1>4. CASE UNCHANGED vars
  BY <1>4 DEF vars
<1>. QED
  BY <1>1, <1>2, <1>3, <1>4 DEF Next, Idle

\* What the guard saw of a decision stays true of every call that was not
\* overtaken.
LEMMA NextGuardInv == IInv /\ GuardInv /\ [HNext]_history_vars => GuardInv'
<1>. SUFFICES ASSUME IInv, GuardInv, [HNext]_history_vars,
                     NEW q \in Requests, pc'[q] \in InTransaction \ {"guard"},
                     event'[q].hitl.state = "pending",
                     StoredHITLIsTerminal(Run(q))'
              PROVE  q \in overtaken'
  BY DEF GuardInv
<1>1. [Next]_vars
  BY HistoryIsNext
<1>2. /\ event'[q] = event[q]
      /\ \/ pc[q] \in InTransaction \ {"guard"}
         \/ ~StoredHITLIsTerminal(Run(q))
  BY <1>1, PastGuard
<1>3. CASE UNCHANGED tables
  <2>1. StoredHITLIsTerminal(Run(q))
    BY <1>2, <1>3 DEF StoredHITLIsTerminal, Run, tables
  <2>2. q \in overtaken
    BY <1>2, <2>1 DEF GuardInv
  <2>. QED
    BY <2>2 DEF HNext, HServe, history_vars
<1>4. ASSUME NEW p \in Requests, Commit(p), overtaken' = overtaken \cup Overtakes(p)
      PROVE  q \in overtaken'
  <2>1. q # p /\ pc[q] = pc'[q]
    BY <1>4 DEF Commit, EndTransaction, InTransaction, LockedStatements, IInv, TypeOK
  <2>2. CASE Run(p) = Run(q)
    BY <1>4, <2>1, <2>2 DEF Overtakes
  <2>3. CASE Run(p) # Run(q)
    <3>1. agent_runs'[Run(q)] = agent_runs[Run(q)]
      <4>1. Run(q) \in RunIds
        BY <2>1, InTransactionFacts
      <4>. QED
        BY <1>4, <2>3, <4>1 DEF Commit, IInv, TypeOK
    <3>2. StoredHITLIsTerminal(Run(q))
      BY <1>2, <3>1 DEF StoredHITLIsTerminal, Run
    <3>. QED
      BY <1>2, <1>4, <3>2 DEF GuardInv
  <2>. QED
    BY <2>2, <2>3
<1>5. UNCHANGED tables \/ \E p \in Requests :
                             Commit(p) /\ overtaken' = overtaken \cup Overtakes(p)
  <2>1. ASSUME NEW p \in Requests, HServe(p)
        PROVE  \/ UNCHANGED tables
               \/ Commit(p) /\ overtaken' = overtaken \cup Overtakes(p)
    <3>1. ASSUME \/ UpsertAgentRun(p) \/ UpsertSpans(p)
                 \/ ResolveSpanParents(p) \/ UpsertToolCalls(p)
                 \/ UpsertLLMCalls(p) \/ RefreshUsage(p) \/ UsageOutOfRange(p)
          PROVE  UNCHANGED tables
      BY <3>1 DEF UpsertAgentRun, UpsertSpans, ResolveSpanParents, UpsertToolCalls,
         UpsertLLMCalls, RefreshUsage, UsageOutOfRange, Advance, tables
    <3>2. ASSUME GuardHITL(p) PROVE UNCHANGED tables
      BY <3>2 DEF GuardHITL, Advance, tables
    <3>. QED
      BY <2>1, <3>1, <3>2 DEF HServe
  <2>2. ASSUME NEW p \in Requests, Post(p) \/ Abort(p) PROVE UNCHANGED tables
    BY <2>2 DEF Post, Abort, tables
  <2>. QED
    BY <2>1, <2>2 DEF HNext, Idle, history_vars, vars, tables
<1>. QED
  BY <1>3, <1>4, <1>5

\* Calls that do not overlap never reopen a decision (HITLStateRegressionError,
\* phase-2 Task 6 "Terminal-state guard").
THEOREM DecisionsStand == HSpec => DecisionNeverReopened
<1>. DEFINE Stands == \A q \in Requests :
              /\ Answering(q)
              /\ agent_runs[Run(q)] # None
              /\ agent_runs[Run(q)].hitl.state \in {"approved", "rejected"}
              /\ agent_runs'[Run(q)].hitl.state = "pending"
              => q \in overtaken
<1>1. HInit => IInv /\ GuardInv
  BY InitIInv DEF HInit, Init, GuardInv, InTransaction, LockedStatements
<1>2. IInv /\ GuardInv /\ [HNext]_history_vars => IInv' /\ GuardInv'
  BY HistoryIsNext, NextIInv, NextGuardInv
<1>3. IInv /\ GuardInv /\ [HNext]_history_vars => Stands
  <2>. SUFFICES ASSUME IInv, GuardInv, [HNext]_history_vars, NEW q \in Requests,
                       Answering(q),
                       StoredHITLIsTerminal(Run(q)),
                       agent_runs'[Run(q)].hitl.state = "pending"
                PROVE  q \in overtaken
    BY DEF StoredHITLIsTerminal
  <2>1. Commit(q)
    BY HistoryIsNext, AnsweringIsCommit
  <2>2. agent_runs'[Run(q)].hitl = event[q].hitl
    <3>1. agent_runs'[Run(q)] = AgentRunValues(event[q], draft[q].run.usage)
      BY <2>1, CommitTables
    <3>. QED
      BY <3>1 DEF AgentRunValues
  <2>3. pc[q] \in InTransaction \ {"guard"}
    BY <2>1 DEF Commit, InTransaction, LockedStatements
  <2>. QED
    BY <2>2, <2>3 DEF GuardInv
<1>. QED
  BY <1>1, <1>2, <1>3, PTL DEF HSpec, DecisionNeverReopened

-----------------------------------------------------------------------------
(* Ingestion implements SnapshotStore.                                     *)

\* The operators of the abstract store are those of RunTables.
LEMMA StoreOperators ==
    ASSUME NEW e, NEW f, NEW g
    PROVE  /\ Store!Valid(e) = Valid(e)
           /\ Store!NoRows = NoRows
           /\ Store!Upsert(f, g) = Upsert(f, g)
           /\ Store!ResolvedParents(e) = ResolvedParents(e)
           /\ Store!ToolCallValues(e) = ToolCallValues(e)
           /\ Store!LLMCallValues(e) = LLMCallValues(e)
           /\ Store!UsageFits(f) = UsageFits(f)
           /\ Store!AgentRunValues(e, f) = AgentRunValues(e, f)
           /\ Store!UsageTotals(f, g) = UsageTotals(f, g)
<1>1. Store!SpanIdSet(e) = SpanIdSet(e)
  BY DEF Store!SpanIdSet, SpanIdSet
<1>2. Store!ValidChildren(e) = ValidChildren(e)
  BY <1>1 DEF Store!ValidChildren, ValidChildren, Store!UniqueIds, UniqueIds,
     Store!IsInjective, IsInjective, Store!ToSet, ToSet
<1>3. Store!ValidLifecycle(e) = ValidLifecycle(e)
  BY DEF Store!ValidLifecycle, ValidLifecycle, Store!ValidFinal, ValidFinal,
     Store!ValidAwaitingApproval, ValidAwaitingApproval
<1>4. Store!Valid(e) = Valid(e)
  BY <1>2, <1>3 DEF Store!Valid, Valid
<1>5. Store!NoRows = NoRows /\ Store!Upsert(f, g) = Upsert(f, g)
  BY DEF Store!NoRows, NoRows, Store!Upsert, Upsert
<1>6. Store!ResolvedParents(e) = ResolvedParents(e)
  BY <1>1 DEF Store!ResolvedParents, ResolvedParents, Store!SpanOf, SpanOf,
     Store!ToSet, ToSet
<1>7. Store!ToolCallValues(e) = ToolCallValues(e)
  BY DEF Store!ToolCallValues, ToolCallValues, Store!ToolCallIdSet,
     ToolCallIdSet, Store!ToolCallOf, ToolCallOf, Store!ToSet, ToSet
<1>8. Store!LLMCallValues(e) = LLMCallValues(e)
  BY DEF Store!LLMCallValues, LLMCallValues, Store!LLMCallIdSet,
     LLMCallIdSet, Store!LLMCallOf, LLMCallOf, Store!ToSet, ToSet
<1>9. Store!UsageFits(f) = UsageFits(f)
  BY DEF Store!UsageFits, UsageFits
<1>10. Store!AgentRunValues(e, f) = AgentRunValues(e, f)
  BY DEF Store!AgentRunValues, AgentRunValues
<1>11. Store!TokenSum(g) = TokenSum(g)
  BY DEF Store!TokenSum, TokenSum, Store!MapThenSumSet, MapThenSumSet,
     Store!MapThenFoldSet, MapThenFoldSet
<1>12. Store!RetrySum(f) = RetrySum(f)
  BY DEF Store!RetrySum, RetrySum, Store!MapThenSumSet, MapThenSumSet,
     Store!MapThenFoldSet, MapThenFoldSet
<1>13. ASSUME NEW S PROVE Store!Cardinality(S) = Cardinality(S)
  BY DEF Store!Cardinality, Cardinality
<1>14. Store!UsageTotals(f, g) = UsageTotals(f, g)
  BY <1>11, <1>12, <1>13 DEF Store!UsageTotals, UsageTotals
<1>. QED
  BY <1>4, <1>5, <1>6, <1>7, <1>8, <1>9, <1>10, <1>14

\* The commit of a request is the abstract store applying its snapshot.
LEMMA CommitIsApply ==
    ASSUME IInv, NEW q \in Requests, Commit(q)
    PROVE  event[q] \in Payloads /\ Store!Apply(event[q])
<1>. DEFINE e == event[q]
            r == Run(q)
            tools == Upsert(ToolCallValues(e), tool_calls[r])
            llms == Upsert(LLMCallValues(e), llm_calls[r])
<1>1. e \in Payloads
  BY DEF Commit, IInv, RequestInv
<1>2. Valid(e) /\ UsageFits(UsageTotals(tools, llms))
  BY CommitFacts DEF VisibleUsage
<1>3. agent_runs' =
        [agent_runs EXCEPT ![r] = AgentRunValues(e, UsageTotals(tools, llms))]
  BY CommitFacts DEF Commit, VisibleUsage
<1>4. /\ spans' = [spans EXCEPT ![r] = Upsert(ResolvedParents(e), spans[r])]
      /\ tool_calls' = [tool_calls EXCEPT ![r] = tools]
      /\ llm_calls' = [llm_calls EXCEPT ![r] = llms]
  BY CommitFacts DEF Commit
<1>5. /\ Store!Upsert(Store!ToolCallValues(e), tool_calls[r]) = tools
      /\ Store!Upsert(Store!LLMCallValues(e), llm_calls[r]) = llms
      /\ Store!Upsert(Store!ResolvedParents(e), spans[r])
            = Upsert(ResolvedParents(e), spans[r])
  BY StoreOperators
<1>6. Store!UsageTotals(tools, llms) = UsageTotals(tools, llms)
  BY StoreOperators
<1>7. /\ Store!Valid(e) = Valid(e)
      /\ Store!UsageFits(UsageTotals(tools, llms))
            = UsageFits(UsageTotals(tools, llms))
      /\ Store!AgentRunValues(e, UsageTotals(tools, llms))
            = AgentRunValues(e, UsageTotals(tools, llms))
  BY StoreOperators
<1>8. r = e.run_id
  BY DEF Run
<1>9. Store!Apply(e)
  <2>. HIDE DEF e, r, tools, llms
  <2>. QED
    BY <1>2, <1>3, <1>4, <1>5, <1>6, <1>7, <1>8 DEF Store!Apply
<1>. QED
  BY <1>1, <1>9

\* Concurrent ingestion refines the store that merges snapshots one by one:
\* nobody ever reads a half-ingested run out of the committed tables.
THEOREM Refinement == Spec => ImplementsStore
<1>1. Init => Store!Init
  BY StoreOperators DEF Init, Store!Init
<1>2. IInv /\ [Next]_vars => [Store!Next]_Store!vars
  <2>. SUFFICES ASSUME IInv, [Next]_vars PROVE [Store!Next]_Store!vars
    OBVIOUS
  <2>1. CASE UNCHANGED tables
    BY <2>1 DEF tables, Store!vars
  <2>2. ASSUME NEW q \in Requests, Commit(q) PROVE Store!Next
    BY <2>2, CommitIsApply DEF Store!Next
  <2>. QED
    BY <2>1, <2>2, TablesChangeByCommit
<1>. QED
  BY <1>1, <1>2, Invariance, PTL DEF Spec, ImplementsStore, Store!Spec

=============================================================================
