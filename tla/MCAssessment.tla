----------------------------- MODULE MCAssessment -----------------------------
(***************************************************************************)
(* Small instances of Assessment.  The contracts are those of GS-07,       *)
(* GS-08 and GS-DEBUG-TRAJ-01, the first two cut down to the tools here,   *)
(* so that a trace of three steps can meet and violate every clause.       *)
(***************************************************************************)
EXTENDS Assessment

Contract(required, forbidden, ordering, hitl_required, hitl_state, evidence) ==
    [required_tools |-> required, forbidden_tools |-> forbidden,
     ordering_constraints |-> ordering,
     terminal |-> [status |-> "success", event_type |-> "run_final",
                   hitl_required |-> hitl_required, hitl_state |-> hitl_state],
     required_evidence |-> evidence]

SomeContracts ==
    [id \in {"GS-07", "GS-08", "GS-DEBUG-TRAJ-01"} |->
        CASE id = "GS-07" ->
               Contract({"resolve_asset"},
                        {"get_asset_status", "create_work_order_draft",
                         "submit_work_order"}, {}, FALSE, "not_required", {})
          [] id = "GS-08" ->
               Contract({"resolve_asset", "get_asset_status", "submit_work_order"},
                        {}, {<<"resolve_asset", "get_asset_status">>,
                             <<"get_asset_status", "submit_work_order">>},
                        TRUE, "approved", {"F102"})
          [] OTHER ->
               Contract({"create_work_order_draft", "get_asset_status"}, {},
                        {<<"get_asset_status", "create_work_order_draft">>},
                        FALSE, "not_required", {})]

-----------------------------------------------------------------------------
(* What an agent may do in up to three steps; the last one may go wrong.   *)

UnknownAsset == [kind |-> "span", name |-> "unknown_asset", status |-> "success"]
Tool(name, status) == [kind |-> "tool", name |-> name, status |-> status]
ToolNames == {"resolve_asset", "get_asset_status", "create_work_order_draft",
              "submit_work_order"}
Steps == {UnknownAsset} \cup {Tool(name, "success") : name \in ToolNames}

Traces ==
    {<< >>} \cup {<<s>> : s \in Steps} \cup (Steps \X Steps)
    \cup (Steps \X Steps \X Steps)
    \cup {<<s, Tool(name, status)>> :
            s \in Steps, name \in ToolNames, status \in {"failure", "error"}}

WellDone ==
    <<Tool("resolve_asset", "success"), Tool("get_asset_status", "success"),
      Tool("submit_work_order", "success")>>
OnlyResolved == <<Tool("resolve_asset", "success")>>

-----------------------------------------------------------------------------
(* How it may have ended.                                                  *)

Endings ==
    {[status |-> "success", decision |-> None],
     [status |-> "success", decision |-> "approved"],
     [status |-> "success", decision |-> "rejected"],
     [status |-> "tool_error", decision |-> None],
     [status |-> "tool_error", decision |-> "approved"],
     [status |-> "awaiting_approval", decision |-> None]}

CaseOf(trace, numbering, id, ending, output, evidence, judges) ==
    [trace |-> trace, numbering |-> numbering, scenario_id |-> id,
     status |-> ending.status, decision |-> ending.decision,
     final_result_output |-> output, source_references |-> evidence,
     judges |-> judges]

Citations(id) == IF id = "GS-08" THEN {{}, {"F102"}} ELSE {{}}
Outputs(ending) == IF ending.status = "success" THEN BOOLEAN ELSE {FALSE}
Numberings(trace) ==
    IF UnknownAsset \in ToSet(trace) THEN {"shared", "per_kind"} ELSE {"per_kind"}

\* Without judges: every trace, ending and report.
UnjudgedCases ==
    UNION {UNION {{CaseOf(trace, numbering, id, ending, output, evidence,
                          "unconfigured") :
                      numbering \in Numberings(trace), output \in Outputs(ending),
                      evidence \in Citations(id)} :
                    trace \in Traces} :
             id \in {"GS-07", "GS-08", "GS-DEBUG-TRAJ-01", "GS-99"}, ending \in Endings}

\* With judges: runs without and with faults of their own.
JudgedCases ==
    {CaseOf(trace, "per_kind", id, ending, ending.status = "success", {"F102"},
            judges) :
        trace \in {WellDone, OnlyResolved}, id \in {None, "GS-07", "GS-08"},
        ending \in Endings, judges \in {"broken", "working"}}

AllCases == UnjudgedCases \cup JudgedCases

AllAnswers == JudgeAnswer

=============================================================================
