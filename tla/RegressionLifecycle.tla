-------------------------- MODULE RegressionLifecycle --------------------------
(***************************************************************************)
(* What a row of regression_runs promises its readers: it appears pending, *)
(* is executed at most once, and ends completed or failed for good.  The   *)
(* configuration it was created with is frozen, and at most one row is the *)
(* baseline.  Whether it ends at all is another matter: nothing here says  *)
(* who takes the steps.                                                    *)
(***************************************************************************)

CONSTANTS
    Creates,      \* the POST /regressions calls; a row is named by its call
    Selections,   \* what they may ask for: a record with is_baseline
    None

VARIABLE regression_runs

Rows == {g \in Creates : regression_runs[g] # None}

BaselineExists == \E g \in Rows : regression_runs[g].selection.is_baseline

Init == regression_runs = [g \in Creates |-> None]

Create(g) ==
    /\ regression_runs[g] = None
    /\ \E s \in Selections :
          /\ s.is_baseline => ~BaselineExists
          /\ regression_runs' = [regression_runs EXCEPT
                ![g] = [selection |-> s, status |-> "pending"]]

Move(g, from, to) ==
    /\ g \in Rows
    /\ regression_runs[g].status = from
    /\ regression_runs' = [regression_runs EXCEPT ![g].status = to]

Start(g) == Move(g, "pending", "running")

End(g) == Move(g, "running", "completed") \/ Move(g, "running", "failed")

Next == \E g \in Creates : Create(g) \/ Start(g) \/ End(g)

Spec == Init /\ [][Next]_regression_runs

=============================================================================
