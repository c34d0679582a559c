--------------------------- MODULE EvaluationHistory ---------------------------
(***************************************************************************)
(* Evaluation with a history variable: the calls that were in progress     *)
(* together with another evaluation of their run.  A behaviour without the *)
(* variable is one of Evaluation.                                          *)
(***************************************************************************)
EXTENDS Evaluation

VARIABLE overlapped

history_vars == <<vars, overlapped>>

\* The evaluations of r under way.
UnderWay(r) == {c \in Calls : run[c] = r /\ pc[c] \in InProgress}

HInit == Init /\ overlapped = {}

HPost(c) ==
    /\ Post(c)
    /\ LET others == UnderWay(run'[c])
       IN overlapped' = IF others = {} THEN overlapped
                        ELSE overlapped \cup others \cup {c}

HServe(c) ==
    \/ ReadView(c) /\ UNCHANGED overlapped
    \/ ReadRegression(c) /\ UNCHANGED overlapped
    \/ EvaluateNext(c) /\ UNCHANGED overlapped
    \/ EvaluateConflicts(c) /\ UNCHANGED overlapped
    \/ PersistJudgeCall(c) /\ UNCHANGED overlapped
    \/ JudgeCallFails(c) /\ UNCHANGED overlapped
    \/ PersistRunFailure(c) /\ UNCHANGED overlapped
    \/ Respond(c) /\ UNCHANGED overlapped

HNext ==
    \/ \E r \in RunIds : IngestRun(r) /\ UNCHANGED overlapped
    \/ \E r \in RunIds, g \in RegressionIds : LinkRun(r, g) /\ UNCHANGED overlapped
    \/ \E c \in Calls :
          \/ HPost(c)
          \/ HServe(c)
          \/ Abort(c) /\ UNCHANGED overlapped
    \/ Idle /\ UNCHANGED overlapped

HSpec == HInit /\ [][HNext]_history_vars

HFairSpec == HSpec /\ \A c \in Calls : WF_history_vars(HServe(c))

\* When no evaluation of a run is under way, and those that stored what its
\* evaluation_summary shows have finished and were alone with the run, the
\* failure block beside the summary says the same (get_run, phase-5 Task 7
\* "always-current failure block").
FailureIsCurrentUnlessOverlapped ==
    \A r \in RunIds :
        (\A row \in LatestRows(r) : row.call \notin overlapped) => FailureIsCurrentOf(r)

=============================================================================
