------------------------------ MODULE Analytics ------------------------------
(***************************************************************************)
(* The five GET /analytics handlers and GET /runs: answers put together    *)
(* from one to four aggregate statements over the runs of a time range,    *)
(* each seeing what is committed by then, while runs are ingested, linked  *)
(* to regressions and classified.  The writers are one step each: what     *)
(* they commit is what Ingestion, Regression and Evaluation show.          *)
(*                                                                         *)
(* Latency, cost and the other token columns are aggregated like           *)
(* total_tokens and left out, as are the filters of GET /runs shaped like  *)
(* those modelled, and the orders breakdowns are sorted in.  X_... is X    *)
(* with a bug in it.                                                       *)
(***************************************************************************)
EXTENDS Classifier, SequencesExt

CONSTANTS
    RunIds,
    StartedAt,          \* per run, when it started: its snapshots agree on it
    Snapshots,          \* per run, the snapshots its producer may send
    ScenarioIds,        \* what linkage may write
    Classifications,    \* per run, what classify may come to
    Requests            \* the requests clients make

RunStatus == {"success", "tool_error", "runtime_error", "awaiting_approval"}
Endpoints == {"overview", "tools", "usage", "failures", "scenarios", "runs"}

\* Calls by id; event_type is a function of status for a valid snapshot.
\* A model is that of one provider.
IsToolCalls(f) ==
    /\ IsFiniteSet(DOMAIN f)
    /\ f \in [DOMAIN f -> [tool_name : STRING, status : {"success", "failure", "error"}]]
IsLLMCalls(f) ==
    /\ IsFiniteSet(DOMAIN f)
    /\ f \in [DOMAIN f -> [model : STRING, call_type : STRING, total_tokens : Nat]]

ASSUME FiniteRunsAssumption == IsFiniteSet(RunIds)
ASSUME StartedAtAssumption == StartedAt \in [RunIds -> Nat]
ASSUME SnapshotsAssumption ==
    \A r \in RunIds : \A s \in Snapshots[r] :
        /\ s.status \in RunStatus /\ s.scenario_id \in ScenarioIds \cup {None}
        /\ IsToolCalls(s.tool_calls) /\ IsLLMCalls(s.llm_calls)
ASSUME ClassificationsAssumption ==
    \A r \in RunIds : \A f \in Classifications[r] : f \in RunFailure /\ Coherent(f)
ASSUME RequestsAssumption ==
    \A q \in Requests :
        /\ q.endpoint \in Endpoints
        /\ q.started_after \in Nat /\ q.started_before \in Nat
        /\ q.status \in RunStatus \cup {None}
        /\ q.overall_status \in OverallEvaluationStatus \cup {None}
        /\ q.limit \in 1..100 /\ q.offset \in Nat
ASSUME NoneIsNoRequest == None \notin Requests
ASSUME NoneIsNoRate == None \notin Nat \X Nat

VARIABLES
    agent_runs,      \* the stored runs, each with its calls
    run_failures,    \* the classified runs, each with its classification
    request,         \* the request being answered, or answered last
    answer,          \* per statement executed for it, the rows it returned
    overtaken        \* whether a write committed since the first of them

tables == <<agent_runs, run_failures>>
vars == <<tables, request, answer, overtaken>>

NoRows == [id \in {} |-> None]

\* The statements of each handler.
Statements ==
    [overview |-> {"aggregate", "statuses", "evaluations"},
     tools |-> {"calls"},
     usage |-> {"total", "by_model", "by_call_type"},
     failures |-> {"evaluated", "evaluations", "by_failure_type", "by_severity"},
     scenarios |-> {"summary", "distribution"},
     runs |-> {"count", "page"}]

Answered == request # None /\ DOMAIN answer = Statements[request.endpoint]

Init ==
    /\ agent_runs = NoRows
    /\ run_failures = NoRows
    /\ request = None
    /\ answer = NoRows
    /\ overtaken = FALSE

-----------------------------------------------------------------------------
(* The writers.                                                            *)

StoredRuns == DOMAIN agent_runs

\* ON CONFLICT DO UPDATE: a row of new replaces the stored one.
Upsert(new, stored) ==
    [id \in DOMAIN new \cup DOMAIN stored |->
        IF id \in DOMAIN new THEN new[id] ELSE stored[id]]

\* A table of one row.
Only(id, row) == [x \in {id} |-> row]

Stored(s, tools, llms, linked) ==
    [status |-> s.status, scenario_id |-> s.scenario_id, linked |-> linked,
     tool_calls |-> tools, llm_calls |-> llms]

IngestedRow_ReplacesCalls(r, s) ==
    Stored(s, s.tool_calls, s.llm_calls, r \in StoredRuns /\ agent_runs[r].linked)

\* The linkage of a stored run stays, scenario_id does not, calls are never lost.
IngestedRow(r, s) ==
    IF r \notin StoredRuns THEN Stored(s, s.tool_calls, s.llm_calls, FALSE)
    ELSE Stored(s, Upsert(s.tool_calls, agent_runs[r].tool_calls),
                Upsert(s.llm_calls, agent_runs[r].llm_calls), agent_runs[r].linked)

Ingest(r) ==
    /\ \E s \in Snapshots[r] : agent_runs' = Upsert(Only(r, IngestedRow(r, s)), agent_runs)
    /\ overtaken' = (overtaken \/ DOMAIN answer # {})
    /\ UNCHANGED <<run_failures, request, answer>>

LinkRun(r) ==
    /\ r \in StoredRuns
    /\ \E s \in ScenarioIds :
          agent_runs' = [agent_runs EXCEPT ![r].linked = TRUE, ![r].scenario_id = s]
    /\ overtaken' = (overtaken \/ DOMAIN answer # {})
    /\ UNCHANGED <<run_failures, request, answer>>

EvaluateRun(r) ==
    /\ r \in StoredRuns
    /\ \E f \in Classifications[r] : run_failures' = Upsert(Only(r, f), run_failures)
    /\ overtaken' = (overtaken \/ DOMAIN answer # {})
    /\ UNCHANGED <<agent_runs, request, answer>>

-----------------------------------------------------------------------------
(* The rows a statement sees.                                              *)

\* _time_range_filters
InRange ==
    {r \in StoredRuns : StartedAt[r] \in request.started_after..request.started_before}

Evaluated == InRange \cap DOMAIN run_failures
ToolCalls == UNION {{<<r, id>> : id \in DOMAIN agent_runs[r].tool_calls} : r \in InRange}
LLMCalls == UNION {{<<r, id>> : id \in DOMAIN agent_runs[r].llm_calls} : r \in InRange}
ToolCall(c) == agent_runs[c[1]].tool_calls[c[2]]
LLMCall(c) == agent_runs[c[1]].llm_calls[c[2]]

\* group_by(key): the rows of each group, and none without rows.
GroupBy(key) == [k \in Range(key) |-> {x \in DOMAIN key : key[x] = k}]

\* _ratio, which takes 0/0 for 0, and the rates that take it for None, as the
\* two terms of the quotient.
Ratio(part, whole) == IF whole = 0 THEN <<0, 1>> ELSE <<part, whole>>
Rate(part, whole) == IF whole = 0 THEN None ELSE <<part, whole>>

UsageTotals(calls) ==
    [call_count |-> Cardinality(calls),
     total_tokens |-> SumOf([c \in calls |-> LLMCall(c).total_tokens])]

\* usage_total_tokens of a run is the sum of its calls (UsageMatchesRows).
Aggregate ==
    LET Final(r) == agent_runs[r].status # "awaiting_approval"
    IN [total |-> Cardinality(InRange),
        tokens |-> UsageTotals(LLMCalls).total_tokens,
        terminal_count |-> Cardinality({r \in InRange : Final(r)}),
        success_count |-> Cardinality({r \in InRange : agent_runs[r].status = "success"})]

StatusCounts_AllTime ==
    [s \in RunStatus |-> Cardinality({r \in StoredRuns : agent_runs[r].status = s})]

StatusCounts ==
    [s \in RunStatus |-> Cardinality({r \in InRange : agent_runs[r].status = s})]

\* _evaluation_status_counts
EvaluationCounts ==
    [s \in OverallEvaluationStatus |->
        Cardinality({r \in Evaluated : run_failures[r].overall_status = s})]

ToolStats ==
    LET groups == GroupBy([c \in ToolCalls |-> ToolCall(c).tool_name])
        With(calls, status) == Cardinality({c \in calls : ToolCall(c).status = status})
    IN [t \in DOMAIN groups |->
            [call_count |-> Cardinality(groups[t]),
             success_count |-> With(groups[t], "success"),
             failure_count |-> With(groups[t], "failure"),
             error_count |-> With(groups[t], "error")]]

UsageBy(column) ==
    LET groups == GroupBy([c \in LLMCalls |-> LLMCall(c)[column]])
    IN [k \in DOMAIN groups |-> UsageTotals(groups[k])]

\* Failed runs by a column of run_failures that is not NULL.
FailedBy(column) ==
    LET failed == {r \in Evaluated : /\ run_failures[r].overall_status = "fail"
                                     /\ run_failures[r][column] # None}
        groups == GroupBy([r \in failed |-> run_failures[r][column]])
    IN [k \in DOMAIN groups |-> Cardinality(groups[k])]

\* Runs of regressions only; without a classification they did not pass.
OfRegressions == {r \in InRange : agent_runs[r].linked /\ agent_runs[r].scenario_id # None}

ScenarioSummary ==
    LET groups == GroupBy([r \in OfRegressions |-> agent_runs[r].scenario_id])
        Passed(r) == r \in Evaluated /\ run_failures[r].overall_status = "pass"
    IN [s \in DOMAIN groups |->
            [execution_count |-> Cardinality(groups[s]),
             pass_count |-> Cardinality({r \in groups[s] : Passed(r)})]]

ScenarioFailures ==
    LET categorised == {r \in OfRegressions \cap Evaluated :
                            run_failures[r].primary_category # None}
        groups == GroupBy([r \in categorised |-> agent_runs[r].scenario_id])
    IN [s \in DOMAIN groups |-> Cardinality(groups[s])]

\* _run_list_filters over the outer join: no classification matches no status.
Listed ==
    {r \in InRange :
        /\ request.status # None => agent_runs[r].status = request.status
        /\ request.overall_status # None =>
              /\ r \in DOMAIN run_failures
              /\ run_failures[r].overall_status = request.overall_status}

\* ORDER BY started_at DESC orders runs that started together in any way.
Pages ==
    {SubSeq(q, request.offset + 1, Min({request.offset + request.limit, Len(q)})) :
        q \in {p \in SetToSeqs(Listed) :
                  \A i, j \in DOMAIN p : i < j => StartedAt[p[i]] >= StartedAt[p[j]]}}

-----------------------------------------------------------------------------
(* The handlers.                                                           *)

Ask ==
    /\ request = None \/ Answered
    /\ \E q \in Requests : request' = q
    /\ answer' = NoRows
    /\ overtaken' = FALSE
    /\ UNCHANGED tables

\* The statement that comes after the earlier ones returns rows.
Select(endpoint, earlier, statement, rows) ==
    /\ request # None /\ request.endpoint = endpoint
    /\ DOMAIN answer = earlier
    /\ answer' = Upsert(Only(statement, rows), answer)
    /\ UNCHANGED <<tables, request, overtaken>>

GetOverview ==
    \/ Select("overview", {}, "aggregate", Aggregate)
    \/ Select("overview", {"aggregate"}, "statuses", StatusCounts)
    \/ Select("overview", {"aggregate", "statuses"}, "evaluations", EvaluationCounts)

GetTools == Select("tools", {}, "calls", ToolStats)

GetUsage ==
    \/ Select("usage", {}, "total", UsageTotals(LLMCalls))
    \/ Select("usage", {"total"}, "by_model", UsageBy("model"))
    \/ Select("usage", {"total", "by_model"}, "by_call_type", UsageBy("call_type"))

GetFailures ==
    \/ Select("failures", {}, "evaluated", Cardinality(Evaluated))
    \/ Select("failures", {"evaluated"}, "evaluations", EvaluationCounts)
    \/ Select("failures", {"evaluated", "evaluations"},
              "by_failure_type", FailedBy("primary_category"))
    \/ Select("failures", {"evaluated", "evaluations", "by_failure_type"},
              "by_severity", FailedBy("max_severity"))

GetScenarios ==
    \/ Select("scenarios", {}, "summary", ScenarioSummary)
    \/ Select("scenarios", {"summary"}, "distribution", ScenarioFailures)

ListRuns ==
    \/ Select("runs", {}, "count", Cardinality(Listed))
    \/ /\ request # None /\ request.endpoint = "runs"
       /\ \E page \in Pages : Select("runs", {"count"}, "page", page)

Write == \E r \in RunIds : Ingest(r) \/ LinkRun(r) \/ EvaluateRun(r)

Next ==
    \/ Write
    \/ Ask
    \/ GetOverview \/ GetTools \/ GetUsage \/ GetFailures \/ GetScenarios
    \/ ListRuns

Spec == Init /\ [][Next]_vars

-----------------------------------------------------------------------------
(* What the answers are made of.                                           *)

RuntimeSuccessRate == Rate(answer.aggregate.success_count, answer.aggregate.terminal_count)

BehavioralPassRate ==
    Rate(answer.evaluations["pass"],
         answer.evaluations["pass"] + answer.evaluations["fail"])

FailureRate(t) == <<t.failure_count + t.error_count, t.call_count>>

PctOfEvaluated(count) == Ratio(count, answer.evaluated)

PctOfFailing(count) ==
    Ratio(count, answer.evaluations["fail"] + answer.evaluations["incomplete"])

PassRate(s) == Rate(s.pass_count, s.execution_count)

-----------------------------------------------------------------------------
(* Properties                                                              *)

Column(f, column) == [x \in DOMAIN f |-> f[x][column]]

\* A quotient that exists and is no more than one.
Proper(rate) == rate # None /\ rate[2] > 0 /\ rate[1] <= rate[2]
ProperOrNone(rate) == rate = None \/ Proper(rate)

AnsweredTo(endpoint) == Answered /\ request.endpoint = endpoint

\* The failed runs without an entry in a column of run_failures.
FailedWithout(column) ==
    {r \in Evaluated : /\ run_failures[r].overall_status = "fail"
                       /\ run_failures[r][column] = None}

\* Unless a write comes in between, the statements of an answer agree: the
\* breakdowns of runs by status and of calls add up to their totals, those by
\* evaluation to the evaluated runs, those of failed runs, by failure type and
\* by severity, to the failed runs but for exactly those that have no such
\* entry, and every share is one; a scenario's failures are runs that did not
\* pass, and a page is as long as the total says (routes/analytics.py,
\* list_runs; phase-3 Tasks 4 and 5, phase-5 Task 8).
UndisturbedAnswersAddUp ==
    ~overtaken =>
        /\ AnsweredTo("overview") =>
              /\ SumOf(answer.statuses) = answer.aggregate.total
              /\ answer.statuses["success"] = answer.aggregate.success_count
              /\ answer.aggregate.total - answer.statuses["awaiting_approval"]
                    = answer.aggregate.terminal_count
              /\ SumOf(answer.evaluations) + Cardinality(InRange \ Evaluated)
                    = answer.aggregate.total
        /\ AnsweredTo("usage") =>
              \A column \in {"call_count", "total_tokens"} :
                  /\ SumOf(Column(answer.by_model, column)) = answer.total[column]
                  /\ SumOf(Column(answer.by_call_type, column)) = answer.total[column]
        /\ AnsweredTo("failures") =>
              /\ SumOf(answer.evaluations) = answer.evaluated
              /\ SumOf(answer.by_failure_type) + Cardinality(FailedWithout("primary_category"))
                    = answer.evaluations["fail"]
              /\ SumOf(answer.by_severity) + Cardinality(FailedWithout("max_severity"))
                    = answer.evaluations["fail"]
              /\ SumOf(answer.by_severity) <= SumOf(answer.by_failure_type)
              /\ \A f \in {answer.by_failure_type, answer.by_severity} :
                    \A k \in DOMAIN f :
                        Proper(PctOfEvaluated(f[k])) /\ Proper(PctOfFailing(f[k]))
        /\ AnsweredTo("scenarios") =>
              \A s \in DOMAIN answer.distribution :
                  /\ s \in DOMAIN answer.summary
                  /\ answer.distribution[s] + answer.summary[s].pass_count
                        <= answer.summary[s].execution_count
        /\ AnsweredTo("runs") =>
              Len(answer.page)
                = Max({0, Min({request.limit, answer.count - request.offset})})

\* The counts by failure type of an answer that no write came in between are of
\* all the failed runs (get_failures; phase-5 Task 8: "entries' counts sum to
\* the total FAIL-status run count").  A run failed by a judge may have no
\* category, and the statement leaves it out.
FailureTypesSumToFailed ==
    ~overtaken /\ AnsweredTo("failures") =>
        SumOf(answer.by_failure_type) = answer.evaluations["fail"]

\* However writes and statements interleave, rows are only added: what a later
\* statement breaks down covers what an earlier one has totalled, a page is not
\* shorter than the total promised (unless a filter on a status lost the run
\* meanwhile) and names no run twice, and rates taken within one statement stay
\* rates.  The shares of GET /analytics/failures are left out: torn between
\* statements they may exceed one (routes/analytics.py, list_runs).
TornAnswersLoseNothing ==
    /\ AnsweredTo("overview") =>
          /\ answer.aggregate.total <= SumOf(answer.statuses)
          /\ ProperOrNone(RuntimeSuccessRate) /\ ProperOrNone(BehavioralPassRate)
    /\ AnsweredTo("tools") =>
          \A t \in DOMAIN answer.calls :
              /\ Proper(FailureRate(answer.calls[t]))
              /\ FailureRate(answer.calls[t])[1] + answer.calls[t].success_count
                    = answer.calls[t].call_count
    /\ AnsweredTo("usage") =>
          LET by_model == SumOf(Column(answer.by_model, "call_count"))
          IN /\ answer.total.call_count <= by_model
             /\ by_model <= SumOf(Column(answer.by_call_type, "call_count"))
    /\ AnsweredTo("failures") => answer.evaluated <= SumOf(answer.evaluations)
    /\ AnsweredTo("scenarios") =>
          \A s \in DOMAIN answer.summary : Proper(PassRate(answer.summary[s]))
    /\ AnsweredTo("runs") =>
          /\ IsInjective(answer.page) /\ Len(answer.page) <= request.limit
          /\ request.status = None /\ request.overall_status = None =>
                Len(answer.page) >= Min({request.limit, answer.count - request.offset})

=============================================================================
