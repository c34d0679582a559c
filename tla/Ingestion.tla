------------------------------ MODULE Ingestion ------------------------------
(***************************************************************************)
(* POST /runs: ingest_run_event as concurrent Postgres transactions.       *)
(*                                                                         *)
(* Every request runs the handler's statements in order inside one         *)
(* READ COMMITTED transaction.  Its writes sit in draft[q] until Commit    *)
(* makes all of them visible at once.  The INSERT ... ON CONFLICT on       *)
(* agent_runs takes that run's row lock and keeps it to the end of the     *)
(* transaction; the SELECT of the HITL guard runs before it, unlocked.     *)
(*                                                                         *)
(* A loop over the children is one action: nobody can see between its      *)
(* statements, and Abort may strike before or after it.                    *)
(*                                                                         *)
(* A definition named X_... beside a definition X is X with a bug in it:   *)
(* no behaviour of the model uses it, it shows which property would tell.  *)
(***************************************************************************)
EXTENDS RunTables

CONSTANTS
    Requests,     \* POST /runs calls; retries and duplicates are other calls
    Payloads,     \* the bodies a call may carry
    MaxInFlight   \* how many calls the deployment serves at a time

ASSUME PayloadsAssumption == Payloads \subseteq ExtendedRunEvent
ASSUME NoneIsNoRequest == None \notin Requests
ASSUME MaxInFlightAssumption == MaxInFlight \in Nat \ {0}

VARIABLES
    agent_runs, spans, tool_calls, llm_calls,   \* the committed tables
    row_lock,   \* holder of each agent_runs row lock
    pc,         \* the statement each request executes next, or its answer
    event,      \* the body each request carries
    draft       \* the uncommitted writes of each request

tables == <<agent_runs, spans, tool_calls, llm_calls>>
vars == <<agent_runs, spans, tool_calls, llm_calls, row_lock, pc, event, draft>>

\* Statements executed while holding the row lock, in order.
LockedStatements ==
    {"upsert_spans", "resolve_parents", "upsert_tool_calls",
     "upsert_llm_calls", "refresh_usage", "commit"}
InTransaction == {"guard", "upsert_run"} \cup LockedStatements

\* 200, the validators' 422, HITLStateRegressionError and any other exception.
Answers == {"ok", "invalid", "refused", "failed"}

EmptyDraft == [run |-> None, spans |-> NoRows,
               tool_calls |-> NoRows, llm_calls |-> NoRows]

Run(q) == event[q].run_id
Holds(q) == row_lock[Run(q)] = q
RowLockFree_Ignored(q) == TRUE
RowLockFree(q) == row_lock[Run(q)] = None

Init ==
    /\ agent_runs = [r \in RunIds |-> None]
    /\ spans = [r \in RunIds |-> NoRows]
    /\ tool_calls = [r \in RunIds |-> NoRows]
    /\ llm_calls = [r \in RunIds |-> NoRows]
    /\ row_lock = [r \in RunIds |-> None]
    /\ pc = [q \in Requests |-> "unsent"]
    /\ event = [q \in Requests |-> None]
    /\ draft = [q \in Requests |-> EmptyDraft]

EndTransaction_LeaksLock(q, answer) ==
    /\ pc' = [pc EXCEPT ![q] = answer]
    /\ draft' = [draft EXCEPT ![q] = EmptyDraft]
    /\ UNCHANGED <<row_lock, event>>

\* Leaving the transaction drops its writes and releases its lock.
EndTransaction(q, answer) ==
    /\ pc' = [pc EXCEPT ![q] = answer]
    /\ draft' = [draft EXCEPT ![q] = EmptyDraft]
    /\ row_lock' = [row_lock EXCEPT ![Run(q)] = IF Holds(q) THEN None ELSE @]
    /\ UNCHANGED event

Advance(q, next) ==
    /\ pc' = [pc EXCEPT ![q] = next]
    /\ UNCHANGED <<agent_runs, spans, tool_calls, llm_calls, event>>

-----------------------------------------------------------------------------

\* create_run: pydantic validates the body before the handler is entered.
Post(q) ==
    /\ pc[q] = "unsent"
    /\ Cardinality({p \in Requests : pc[p] \in InTransaction}) < MaxInFlight
    /\ \E e \in Payloads :
          /\ event' = [event EXCEPT ![q] = e]
          /\ pc' = [pc EXCEPT ![q] = IF Valid(e) THEN "guard" ELSE "invalid"]
    /\ UNCHANGED <<agent_runs, spans, tool_calls, llm_calls, row_lock, draft>>

StoredHITLIsTerminal_OnlyRejected(r) ==
    /\ agent_runs[r] # None
    /\ agent_runs[r].hitl.state = "rejected"

\* _reject_pending_after_terminal_hitl_state
StoredHITLIsTerminal(r) ==
    /\ agent_runs[r] # None
    /\ agent_runs[r].hitl.state \in {"approved", "rejected"}

GuardHITL(q) ==
    /\ pc[q] = "guard"
    /\ IF event[q].hitl.state = "pending" /\ StoredHITLIsTerminal(Run(q))
       THEN /\ EndTransaction(q, "refused")
            /\ UNCHANGED tables
       ELSE /\ Advance(q, "upsert_run")
            /\ UNCHANGED <<row_lock, draft>>

UpsertAgentRun_KeepsHITL(q) ==
    LET stored == agent_runs[Run(q)]
        hitl == IF stored = None THEN event[q].hitl ELSE stored.hitl
    IN /\ pc[q] = "upsert_run"
       /\ RowLockFree(q)
       /\ row_lock' = [row_lock EXCEPT ![Run(q)] = q]
       /\ draft' = [draft EXCEPT ![q].run =
                       [AgentRunValues(event[q], NoUsage) EXCEPT !.hitl = hitl]]
       /\ Advance(q, "upsert_spans")

\* _upsert_agent_run: a fresh row starts with zero usage, a conflicting one
\* keeps the usage it had, because usage is not among the values set.
UpsertAgentRun(q) ==
    LET stored == agent_runs[Run(q)]
        usage == IF stored = None THEN NoUsage ELSE stored.usage
    IN /\ pc[q] = "upsert_run"
       /\ RowLockFree(q)
       /\ row_lock' = [row_lock EXCEPT ![Run(q)] = q]
       /\ draft' = [draft EXCEPT ![q].run = AgentRunValues(event[q], usage)]
       /\ Advance(q, "upsert_spans")

UpsertSpans(q) ==
    /\ pc[q] = "upsert_spans"
    /\ draft' = [draft EXCEPT ![q].spans = SpanValues(event[q])]
    /\ Advance(q, "resolve_parents")
    /\ UNCHANGED row_lock

ResolveSpanParents_Skipped(q) ==
    /\ pc[q] = "resolve_parents"
    /\ Advance(q, "upsert_tool_calls")
    /\ UNCHANGED <<row_lock, draft>>

\* _resolve_span_parents and the two child loops look spans up in span_ids,
\* the rows this transaction upserted; a missing key would raise KeyError.
ResolveSpanParents(q) ==
    LET parents == {s.parent_span_id : s \in ToSet(event[q].spans)} \ {None}
    IN /\ pc[q] = "resolve_parents"
       /\ parents \subseteq DOMAIN draft[q].spans
       /\ draft' = [draft EXCEPT ![q].spans = ResolvedParents(event[q])]
       /\ Advance(q, "upsert_tool_calls")
       /\ UNCHANGED row_lock

UpsertToolCalls(q) ==
    /\ pc[q] = "upsert_tool_calls"
    /\ \A t \in ToSet(event[q].tool_calls) : t.span_id \in DOMAIN draft[q].spans
    /\ draft' = [draft EXCEPT ![q].tool_calls = ToolCallValues(event[q])]
    /\ Advance(q, "upsert_llm_calls")
    /\ UNCHANGED row_lock

UpsertLLMCalls(q) ==
    /\ pc[q] = "upsert_llm_calls"
    /\ \A l \in ToSet(event[q].llm_calls) : l.span_id \in DOMAIN draft[q].spans
    /\ draft' = [draft EXCEPT ![q].llm_calls = LLMCallValues(event[q])]
    /\ Advance(q, "refresh_usage")
    /\ UNCHANGED row_lock

VisibleUsage_OfSnapshot(q) ==
    UsageTotals(draft[q].tool_calls, draft[q].llm_calls)

VisibleUsage_Accumulated(q) ==
    LET new == VisibleUsage_OfSnapshot(q)
        old == draft[q].run.usage
    IN [column \in DOMAIN new |-> old[column] + new[column]]

\* _refresh_run_usage_totals: the aggregates see this transaction's own rows
\* and what is committed by now.  A sum too large for the column raises.
VisibleUsage(q) ==
    UsageTotals(Upsert(draft[q].tool_calls, tool_calls[Run(q)]),
                Upsert(draft[q].llm_calls, llm_calls[Run(q)]))

RefreshUsage(q) ==
    /\ pc[q] = "refresh_usage"
    /\ UsageFits(VisibleUsage(q))
    /\ draft' = [draft EXCEPT ![q].run.usage = VisibleUsage(q)]
    /\ Advance(q, "commit")
    /\ UNCHANGED row_lock

UsageOutOfRange(q) ==
    /\ pc[q] = "refresh_usage"
    /\ ~UsageFits(VisibleUsage(q))
    /\ EndTransaction(q, "failed")
    /\ UNCHANGED tables

Commit_ReplacesSpans(q) ==
    LET r == Run(q)
    IN /\ pc[q] = "commit"
       /\ agent_runs' = [agent_runs EXCEPT ![r] = draft[q].run]
       /\ spans' = [spans EXCEPT ![r] = draft[q].spans]
       /\ tool_calls' = [tool_calls EXCEPT ![r] = Upsert(draft[q].tool_calls, @)]
       /\ llm_calls' = [llm_calls EXCEPT ![r] = Upsert(draft[q].llm_calls, @)]
       /\ EndTransaction(q, "ok")

\* session.begin() exits normally: every write becomes visible together.
Commit(q) ==
    LET r == Run(q)
    IN /\ pc[q] = "commit"
       /\ agent_runs' = [agent_runs EXCEPT ![r] = draft[q].run]
       /\ spans' = [spans EXCEPT ![r] = Upsert(draft[q].spans, @)]
       /\ tool_calls' = [tool_calls EXCEPT ![r] = Upsert(draft[q].tool_calls, @)]
       /\ llm_calls' = [llm_calls EXCEPT ![r] = Upsert(draft[q].llm_calls, @)]
       /\ EndTransaction(q, "ok")

\* A statement fails, the client goes away or the process dies: rollback.
Abort(q) ==
    /\ pc[q] \in InTransaction
    /\ EndTransaction(q, "failed")
    /\ UNCHANGED tables

\* What the server does for a request without outside help.
Serve(q) ==
    \/ GuardHITL(q)
    \/ UpsertAgentRun(q)
    \/ UpsertSpans(q)
    \/ ResolveSpanParents(q)
    \/ UpsertToolCalls(q)
    \/ UpsertLLMCalls(q)
    \/ RefreshUsage(q)
    \/ UsageOutOfRange(q)
    \/ Commit(q)

AllAnswered == \A q \in Requests : pc[q] \in Answers

\* The idle server, so that a deadlock is a state with work left.
Idle == AllAnswered /\ UNCHANGED vars

Next ==
    \/ \E q \in Requests : Post(q) \/ Serve(q) \/ Abort(q)
    \/ Idle

Spec == Init /\ [][Next]_vars

\* asyncio keeps running every coroutine that can run, and Postgres grants
\* a row lock to its waiters once it is free.
FairSpec == Spec /\ \A q \in Requests : WF_vars(Serve(q))
-----------------------------------------------------------------------------
(* Properties                                                              *)

TypeOK ==
    /\ agent_runs \in [RunIds -> AgentRun \cup {None}]
    /\ DOMAIN spans = RunIds /\ \A r \in RunIds : IsSpanTable(spans[r])
    /\ DOMAIN tool_calls = RunIds
    /\ \A r \in RunIds : IsToolCallTable(tool_calls[r])
    /\ DOMAIN llm_calls = RunIds
    /\ \A r \in RunIds : IsLLMCallTable(llm_calls[r])
    /\ row_lock \in [RunIds -> Requests \cup {None}]
    /\ pc \in [Requests -> {"unsent"} \cup InTransaction \cup Answers]
    /\ event \in [Requests -> Payloads \cup {None}]
    /\ DOMAIN draft = Requests
    /\ \A q \in Requests :
          /\ DOMAIN draft[q] = DOMAIN EmptyDraft
          /\ draft[q].run \in AgentRun \cup {None}
          /\ IsSpanTable(draft[q].spans)
          /\ IsToolCallTable(draft[q].tool_calls)
          /\ IsLLMCallTable(draft[q].llm_calls)

\* The denormalised totals of a committed run are those of its committed
\* children, however many snapshots of the run were in flight together
\* (_refresh_run_usage_totals, phase-2 Task 7).
UsageMatchesRows ==
    \A r \in RunIds : agent_runs[r] # None =>
        agent_runs[r].usage = UsageTotals(tool_calls[r], llm_calls[r])

\* No committed child hangs in the air: parents and owning spans are stored
\* for the same run, and there are no children without a run row.
ReferencesResolve ==
    \A r \in RunIds :
        /\ \A s \in DOMAIN spans[r] :
              spans[r][s].parent_span_id \in DOMAIN spans[r] \cup {None}
        /\ \A t \in DOMAIN tool_calls[r] :
              tool_calls[r][t].span_id \in DOMAIN spans[r]
        /\ \A l \in DOMAIN llm_calls[r] :
              llm_calls[r][l].span_id \in DOMAIN spans[r]
        /\ agent_runs[r] = None => DOMAIN spans[r] = {}

\* A stored run satisfies the lifecycle rules its input was validated by:
\* no column survives from the snapshot it replaced (_update_values).
StoredLifecycleIsValid ==
    \A r \in RunIds : agent_runs[r] # None => ValidLifecycle(agent_runs[r])

\* From its upsert of agent_runs to its end a transaction is alone on its
\* run: the row lock alone serialises everything that follows it.
OneWriterPerRun ==
    \A p, q \in Requests :
        /\ pc[p] \in LockedStatements
        /\ pc[q] \in LockedStatements
        /\ Run(p) = Run(q)
        => p = q

\* Ingestion is upsert-only: a child row, once committed, stays (phase-2,
\* "Pure upsert, never delete").
ChildrenNeverVanish ==
    [][\A r \in RunIds :
          /\ DOMAIN spans[r] \subseteq DOMAIN spans'[r]
          /\ DOMAIN tool_calls[r] \subseteq DOMAIN tool_calls'[r]
          /\ DOMAIN llm_calls[r] \subseteq DOMAIN llm_calls'[r]]_vars

\* The store shows exactly what snapshot e says of its run and children.
Shows(e) ==
    LET r == e.run_id
    IN /\ agent_runs[r] # None
       /\ agent_runs[r] = AgentRunValues(e, agent_runs[r].usage)
       /\ \A s \in SpanIdSet(e) :
             s \in DOMAIN spans[r] /\ spans[r][s] = ResolvedParents(e)[s]
       /\ \A t \in ToolCallIdSet(e) :
             t \in DOMAIN tool_calls[r] /\ tool_calls[r][t] = ToolCallValues(e)[t]
       /\ \A l \in LLMCallIdSet(e) :
             l \in DOMAIN llm_calls[r] /\ llm_calls[r][l] = LLMCallValues(e)[l]

Answering(q) == pc[q] # "ok" /\ pc'[q] = "ok"

\* At the moment a snapshot is answered 200, the store shows that snapshot:
\* its run columns and each of its children, with nothing lost.
AnsweredMeansStored ==
    [][\A q \in Requests : Answering(q) => Shows(event[q])']_vars

\* Ingesting again what the store already shows changes nothing at all: no
\* duplicate rows, no usage counted twice (ingest_run_event, phase-2 Task 5).
ReplayChangesNothing ==
    [][\A q \in Requests :
          Answering(q) /\ Shows(event[q]) => UNCHANGED tables]_vars

\* Every call is answered, the ones waiting for a row lock included.
EveryRequestAnswered ==
    \A q \in Requests : pc[q] \in InTransaction ~> pc[q] \in Answers

\* Seen from outside, each accepted snapshot is merged in one step and a
\* call that is not answered 200 changes nothing.
Store == INSTANCE SnapshotStore
    WITH agent_runs <- agent_runs, spans <- spans,
         tool_calls <- tool_calls, llm_calls <- llm_calls
ImplementsStore == Store!Spec

=============================================================================
