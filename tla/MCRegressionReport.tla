-------------------------- MODULE MCRegressionReport --------------------------
(***************************************************************************)
(* A small instance of RegressionReport: a regression is polled, beside    *)
(* one that may become the baseline.  The agent may submit GS-08 before    *)
(* the gate, and once approved it names no scenario or takes the place of  *)
(* GS-01.  In a behaviour either every fault is possible or a client       *)
(* evaluates the runs of the one regression; both at once would be too     *)
(* many states.                                                            *)
(***************************************************************************)
EXTENDS RegressionReport, MCRegression

WatchedSelections ==
    [g \in Creates |->
        IF g = g1 THEN {Select(<<"GS-08", "GS-01">>, 1, FALSE)}
                  ELSE {Select(<<"GS-99">>, 1, TRUE)}]

WatchedTarget ==
    [ScriptedTarget EXCEPT !["GS-08"] =
        @ \cup {Snapshot(None, "pending", TRUE, TRUE)}]

WatchedApproved ==
    [s \in AllContracts |->
        IF s = "GS-08"
        THEN {Snapshot(id, "not_required", FALSE, TRUE) : id \in {None, "GS-01"}}
        ELSE {}]

TwoEvaluators == <<"policy", "groundedness">>

Passing ==
    [overall_status |-> "pass", primary_category |-> None,
     results |-> [policy |-> "passed", groundedness |-> "skipped"],
     judge_calls |-> 0]

Failing ==
    [overall_status |-> "fail", primary_category |-> "policy_violation",
     results |-> [policy |-> "failed", groundedness |-> "passed"],
     judge_calls |-> 2]

SomeAssessments == {Passing, Failing}

VARIABLE disturbance     \* what the regression meets: "faults" or "clients"

MCInit == RInit /\ disturbance \in {"faults", "clients"}

AmongFaults == \E g \in Creates : Request(g) \/ Execute(g) \/ Fail(g)

AgentRaises == pc[Polled] \in {"dispatch", "resume"} /\ pc'[Polled] = "recover"

AmongClients ==
    \/ (Request(Polled) \/ Execute(Polled)) /\ ~AgentRaises
    \/ \E c \in Clients, r \in RunIds : EvaluateByClient(c, r)

\* Steps of RNext.
MCNext ==
    /\ UNCHANGED disturbance
    /\ \/ /\ \/ disturbance = "faults" /\ AmongFaults
             \/ disturbance = "clients" /\ AmongClients
          /\ UNCHANGED <<query, report>>
       \/ GetRegression /\ UNCHANGED vars

MCSpec == MCInit /\ [][MCNext]_<<rvars, disturbance>>

=============================================================================
