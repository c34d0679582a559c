--------------------------- MODULE IngestionHistory ---------------------------
(***************************************************************************)
(* Ingestion with a history variable: which calls were overtaken by        *)
(* another snapshot of their run between the unlocked SELECT of the HITL   *)
(* guard and their own commit.  Nothing else is added, nothing is taken    *)
(* away: a behaviour without the variable is one of Ingestion.             *)
(***************************************************************************)
EXTENDS Ingestion

VARIABLE overtaken

history_vars == <<vars, overtaken>>

\* Calls that have passed their guard and will write q's run after q.
Overtakes(q) ==
    {p \in Requests \ {q} : /\ pc[p] \in InTransaction \ {"guard"}
                            /\ Run(p) = Run(q)}

HInit == Init /\ overtaken = {}

HServe(q) ==
    \/ GuardHITL(q) /\ UNCHANGED overtaken
    \/ UpsertAgentRun(q) /\ UNCHANGED overtaken
    \/ UpsertSpans(q) /\ UNCHANGED overtaken
    \/ ResolveSpanParents(q) /\ UNCHANGED overtaken
    \/ UpsertToolCalls(q) /\ UNCHANGED overtaken
    \/ UpsertLLMCalls(q) /\ UNCHANGED overtaken
    \/ RefreshUsage(q) /\ UNCHANGED overtaken
    \/ UsageOutOfRange(q) /\ UNCHANGED overtaken
    \/ Commit(q) /\ overtaken' = overtaken \cup Overtakes(q)

HNext ==
    \/ \E q \in Requests :
          \/ Post(q) /\ UNCHANGED overtaken
          \/ HServe(q)
          \/ Abort(q) /\ UNCHANGED overtaken
    \/ Idle /\ UNCHANGED overtaken

HSpec == HInit /\ [][HNext]_history_vars

HFairSpec == HSpec /\ \A q \in Requests : WF_history_vars(HServe(q))

\* A run whose reviewer has decided is moved back to pending only by a call
\* that was overtaken after its guard had read the run: calls that do not
\* overlap never reopen a decision (HITLStateRegressionError, phase-2 Task 6
\* "Terminal-state guard").
DecisionNeverReopened ==
    [][\A q \in Requests :
          /\ Answering(q)
          /\ agent_runs[Run(q)] # None
          /\ agent_runs[Run(q)].hitl.state \in {"approved", "rejected"}
          /\ agent_runs'[Run(q)].hitl.state = "pending"
          => q \in overtaken]_history_vars

=============================================================================
