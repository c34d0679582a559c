----------------------------- MODULE MCAnalytics -----------------------------
(***************************************************************************)
(* A small instance of Analytics: r1 stops for an approval and goes on, r2 *)
(* started at the same time, r3 earlier, out of the narrow range.          *)
(***************************************************************************)
EXTENDS Analytics

LLM(model, type, tokens) == [model |-> model, call_type |-> type, total_tokens |-> tokens]
Tool(name, status) == [tool_name |-> name, status |-> status]

Snapshot(status, scenario, tools, llms) ==
    [status |-> status, scenario_id |-> scenario, tool_calls |-> tools, llm_calls |-> llms]

SomeRuns == {"r1", "r2", "r3"}
Starts == [r \in SomeRuns |-> IF r = "r3" THEN 1 ELSE 2]

SomeSnapshots ==
    [r1 |-> {Snapshot("awaiting_approval", None, [t1 |-> Tool("lookup", "success")],
                      [l1 |-> LLM("m1", "interpretation", 1)]),
             Snapshot("success", "GS-08",
                      [t1 |-> Tool("lookup", "success"), t2 |-> Tool("submit", "error")],
                      [l1 |-> LLM("m1", "interpretation", 1),
                       l2 |-> LLM("m2", "synthesis", 2)])},
     r2 |-> {Snapshot("tool_error", None, [t1 |-> Tool("lookup", "failure")],
                      [l1 |-> LLM("m2", "interpretation", 2)])},
     r3 |-> {Snapshot("success", None, << >>, << >>)}]

Failure(status, category, severity) ==
    [overall_status |-> status, primary_category |-> category,
     secondary_category |-> None, max_severity |-> severity]

\* r1 passes in the end, r2 fails without a category.
SomeClassifications ==
    [r1 |-> {Failure("fail", "tool_failure", "error"), Failure("pass", None, None)},
     r2 |-> {Failure("incomplete", None, None), Failure("fail", None, None)},
     r3 |-> {Failure("pass", None, None)}]

Request(endpoint, after, status, overall_status, limit, offset) ==
    [endpoint |-> endpoint, started_after |-> after, started_before |-> 3,
     status |-> status, overall_status |-> overall_status,
     limit |-> limit, offset |-> offset]

SomeRequests ==
    {Request(e, 2, None, None, 1, 0) : e \in Endpoints \ {"runs"}}
    \cup {Request("runs", 0, None, None, 2, 0), Request("runs", 0, None, None, 1, 1),
          Request("runs", 2, "success", None, 1, 0), Request("runs", 2, None, "fail", 1, 1)}

=============================================================================
