------------------------------- MODULE RunView -------------------------------
(***************************************************************************)
(* Reading one run: evaluation_run_view and GET /runs/{run_id} take the    *)
(* same four SELECTs, each of which sees what is committed by then, and    *)
(* look up the spans of the children among the spans they read.  Snapshots *)
(* arrive meanwhile.  The store is SnapshotStore, which Ingestion          *)
(* implements, so what holds of these readers holds beside Ingestion.      *)
(***************************************************************************)
EXTENDS RunTables

CONSTANTS
    Readers,    \* evaluations and GET /runs/{run_id} calls
    Payloads    \* the snapshots producers may send

ASSUME PayloadsAssumption == Payloads \subseteq ExtendedRunEvent

VARIABLES
    agent_runs, spans, tool_calls, llm_calls,   \* the committed tables
    pc,         \* the statement each reader executes next, or its answer
    path,       \* the run each reader asked for
    view,       \* what it has read so far
    overtaken   \* whether a snapshot of that run committed meanwhile

tables == <<agent_runs, spans, tool_calls, llm_calls>>
vars == <<agent_runs, spans, tool_calls, llm_calls, pc, path, view, overtaken>>

Store == INSTANCE SnapshotStore
    WITH agent_runs <- agent_runs, spans <- spans,
         tool_calls <- tool_calls, llm_calls <- llm_calls

Reading == {"read_spans", "read_tool_calls", "read_llm_calls", "assemble"}
Answers == {"ok", "not_found", "failed"}   \* failed: KeyError, answered 500

EmptyView == [run |-> None, spans |-> NoRows,
              tool_calls |-> NoRows, llm_calls |-> NoRows]

Init ==
    /\ Store!Init
    /\ pc = [q \in Readers |-> "unsent"]
    /\ path = [q \in Readers |-> None]
    /\ view = [q \in Readers |-> EmptyView]
    /\ overtaken = [q \in Readers |-> FALSE]

\* overtaken is for the properties: no action of a reader looks at it.
Ingest(e) ==
    /\ Store!Apply(e)
    /\ overtaken' = [q \in Readers |->
          overtaken[q] \/ (pc[q] \in Reading /\ path[q] = e.run_id)]
    /\ UNCHANGED <<pc, path, view>>

Advance(q, next) ==
    /\ pc' = [pc EXCEPT ![q] = next]
    /\ UNCHANGED <<agent_runs, spans, tool_calls, llm_calls, overtaken>>

ReadRun_Unchecked(q) ==
    /\ pc[q] = "unsent"
    /\ \E r \in RunIds :
          /\ path' = [path EXCEPT ![q] = r]
          /\ view' = [view EXCEPT ![q].run = agent_runs[r]]
          /\ Advance(q, "read_spans")

\* The first SELECT: the run row, or nothing.
ReadRun(q) ==
    /\ pc[q] = "unsent"
    /\ \E r \in RunIds :
          /\ path' = [path EXCEPT ![q] = r]
          /\ view' = [view EXCEPT ![q].run = agent_runs[r]]
          /\ Advance(q, IF agent_runs[r] = None THEN "not_found" ELSE "read_spans")

ReadSpans(q) ==
    /\ pc[q] = "read_spans"
    /\ view' = [view EXCEPT ![q].spans = spans[path[q]]]
    /\ Advance(q, "read_tool_calls")
    /\ UNCHANGED path

ReadToolCalls_AnyRun(q) ==
    /\ pc[q] = "read_tool_calls"
    /\ \E r \in RunIds : view' = [view EXCEPT ![q].tool_calls = tool_calls[r]]
    /\ Advance(q, "read_llm_calls")
    /\ UNCHANGED path

ReadToolCalls(q) ==
    /\ pc[q] = "read_tool_calls"
    /\ view' = [view EXCEPT ![q].tool_calls = tool_calls[path[q]]]
    /\ Advance(q, "read_llm_calls")
    /\ UNCHANGED path

ReadLLMCalls_RefreshesRun(q) ==
    /\ pc[q] = "read_llm_calls"
    /\ view' = [view EXCEPT ![q].llm_calls = llm_calls[path[q]],
                            ![q].run = agent_runs[path[q]]]
    /\ Advance(q, "assemble")
    /\ UNCHANGED path

ReadLLMCalls(q) ==
    /\ pc[q] = "read_llm_calls"
    /\ view' = [view EXCEPT ![q].llm_calls = llm_calls[path[q]]]
    /\ Advance(q, "assemble")
    /\ UNCHANGED path

ParentsIn(v) == {v.spans[s].parent_span_id : s \in DOMAIN v.spans} \ {None}
SpansCalledIn(v) ==
    {v.tool_calls[t].span_id : t \in DOMAIN v.tool_calls}
        \cup {v.llm_calls[l].span_id : l \in DOMAIN v.llm_calls}

\* What the lookups in span_ids do not find: a KeyError.
Unresolved(v) == (ParentsIn(v) \cup SpansCalledIn(v)) \ DOMAIN v.spans

Assemble(q) ==
    /\ pc[q] = "assemble"
    /\ Advance(q, IF Unresolved(view[q]) = {} THEN "ok" ELSE "failed")
    /\ UNCHANGED <<path, view>>

Read(q) ==
    \/ ReadRun(q)
    \/ ReadSpans(q)
    \/ ReadToolCalls(q)
    \/ ReadLLMCalls(q)
    \/ Assemble(q)

Next ==
    \/ \E e \in Payloads : Ingest(e)
    \/ \E q \in Readers : Read(q)

Spec == Init /\ [][Next]_vars

-----------------------------------------------------------------------------
(* Properties                                                              *)

IsView(v) ==
    /\ DOMAIN v = DOMAIN EmptyView
    /\ v.run \in AgentRun \cup {None}
    /\ IsSpanTable(v.spans)
    /\ IsToolCallTable(v.tool_calls)
    /\ IsLLMCallTable(v.llm_calls)

TypeOK ==
    /\ agent_runs \in [RunIds -> AgentRun \cup {None}]
    /\ DOMAIN spans = RunIds /\ \A r \in RunIds : IsSpanTable(spans[r])
    /\ DOMAIN tool_calls = RunIds
    /\ \A r \in RunIds : IsToolCallTable(tool_calls[r])
    /\ DOMAIN llm_calls = RunIds
    /\ \A r \in RunIds : IsLLMCallTable(llm_calls[r])
    /\ pc \in [Readers -> {"unsent"} \cup Reading \cup Answers]
    /\ path \in [Readers -> RunIds \cup {None}]
    /\ DOMAIN view = Readers /\ \A q \in Readers : IsView(view[q])
    /\ \A q \in Readers :
          /\ pc[q] # "unsent" => path[q] \in RunIds
          /\ pc[q] \notin {"unsent", "not_found"} => view[q].run # None
    /\ overtaken \in [Readers -> BOOLEAN]

\* A read that dies on a missing span was overtaken by a snapshot that added
\* the span, the missing span is never a parent, and it is stored by now: the
\* same read, repeated, finds it (evaluation_run_view, get_run).
FailedReadIsTransient ==
    \A q \in Readers : pc[q] = "failed" =>
        /\ overtaken[q]
        /\ ParentsIn(view[q]) \subseteq DOMAIN view[q].spans
        /\ SpansCalledIn(view[q]) \subseteq DOMAIN spans[path[q]]

\* A read that no snapshot of its run overtook answers the stored run: its
\* four SELECTs amount to one (evaluation_run_view, get_run).
UndisturbedViewIsStored ==
    [][\A q \in Readers :
          pc[q] = "assemble" /\ pc'[q] # "assemble" /\ ~overtaken[q] =>
             /\ pc'[q] = "ok"
             /\ view[q] = [run |-> agent_runs[path[q]], spans |-> spans[path[q]],
                           tool_calls |-> tool_calls[path[q]],
                           llm_calls |-> llm_calls[path[q]]]]_vars

\* Torn or not, a view never has fewer children than its run row counts: the
\* row is read first and children are only ever added.
ViewCoversItsTotals ==
    \A q \in Readers : pc[q] \in {"ok", "failed"} =>
        /\ view[q].run.usage.tool_calls <= Cardinality(DOMAIN view[q].tool_calls)
        /\ view[q].run.usage.llm_calls <= Cardinality(DOMAIN view[q].llm_calls)

=============================================================================
