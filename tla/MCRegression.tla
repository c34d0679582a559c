----------------------------- MODULE MCRegression -----------------------------
(***************************************************************************)
(* Small instances of Regression.  GS-01 is an ordinary scenario, GS-08    *)
(* needs an approval, GS-DEBUG has a contract but no scripted event, GS-99 *)
(* is in no manifest.                                                      *)
(***************************************************************************)
EXTENDS Regression, TLC

CONSTANTS g1, g2, c1, assessed

Select(ids, n, baseline) ==
    [scenario_ids |-> ids, repetitions |-> n, is_baseline |-> baseline]

Snapshot(id, state, checkpoint, submitted) ==
    [scenario_id |-> id, hitl_state |-> state,
     hitl_checkpoint_id |-> checkpoint, submitted |-> submitted]

AllContracts == {"GS-01", "GS-08", "GS-DEBUG"}

PendingSnapshot == Snapshot("GS-08", "pending", TRUE, FALSE)
ApprovedSnapshot == Snapshot("GS-08", "approved", TRUE, TRUE)

\* _mock_target: one scripted event for each scenario.
ScriptedTarget ==
    [s \in AllContracts |->
        CASE s = "GS-01" -> {Snapshot(None, "not_required", FALSE, FALSE)}
          [] s = "GS-08" -> {PendingSnapshot}
          [] OTHER -> {}]

ScriptedApproved ==
    [s \in AllContracts |-> IF s = "GS-08" THEN {ApprovedSnapshot} ELSE {}]

\* An agent that may jump over the gate, submit before it or forget the
\* checkpoint, that echoes other scenario ids, and may crash once approved.
UnrulyTarget ==
    [ScriptedTarget EXCEPT !["GS-08"] =
        @ \cup {ApprovedSnapshot, Snapshot(None, "pending", TRUE, TRUE),
                Snapshot("GS-08", "pending", FALSE, FALSE)}]

UnrulyApproved ==
    [ScriptedApproved EXCEPT !["GS-08"] =
        {Snapshot("GS-01", "approved", TRUE, TRUE),
         Snapshot(None, "not_required", FALSE, TRUE)}]

\* One regression that may meet everything, beside one that may at most be
\* created.
MixedSelections ==
    [g \in Creates |->
        IF g = g1
        THEN {Select(<<"GS-08", "GS-01">>, 1, TRUE), Select(<<"GS-08">>, 2, FALSE),
              Select(<<"GS-01", "GS-99">>, 1, TRUE)}
        ELSE {Select(<<"GS-99">>, 1, TRUE)}]

BaselineSelections == [g \in Creates |-> {Select(<<"GS-01">>, 1, TRUE)}]

TwoRepetitions ==
    [g \in Creates |-> {Select(<<"GS-01">>, 2, FALSE), Select(<<"GS-08">>, 2, FALSE)}]

=============================================================================
