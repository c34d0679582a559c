------------------------------ MODULE Regression ------------------------------
(***************************************************************************)
(* POST /regressions and the background task it leaves behind: the runner  *)
(* that dispatches each repetition of each scenario, ingests what the      *)
(* agent answers, links the run to the regression and evaluates it, with   *)
(* the approval gate in between for HITL scenarios.                        *)
(*                                                                         *)
(* Every runner has one database session.  SQLAlchemy begins a transaction *)
(* with the first statement after a commit or rollback, and session.begin, *)
(* which ingestion uses, raises when one has begun: in_transaction says    *)
(* so.  Ingestion and evaluation are one step each here; Ingestion and     *)
(* Evaluation take them apart.                                             *)
(*                                                                         *)
(* A regression is named by the call that created it, a run by regression, *)
(* scenario and repetition: its id is built from the three.                *)
(*                                                                         *)
(* A definition named X_... beside a definition X is X with a bug in it:   *)
(* no behaviour of the model uses it, it shows which property would tell.  *)
(***************************************************************************)
EXTENDS Integers, FiniteSets, SequencesExt, Basics

CONSTANTS
    Creates,         \* POST /regressions calls
    Selections,      \* per call, the bodies it may have
    Contracts,       \* scenario ids of the contract manifest
    HITLScenarios,   \* those whose contract expects an approval
    Target,          \* what run_scenario may answer; {} is a KeyError
    Approved,        \* what resume_after_approval may answer
    MaxInFlight,     \* how many POST /regressions calls are served at a time
    Faults,          \* whether statements fail and tasks are cancelled
    Assessments,     \* what an evaluation of a run may come to
    Clients          \* who else evaluates runs

HITLState == {"not_required", "pending", "approved", "rejected"}

\* A snapshot, as far as the runner's decisions go.
Event ==
    [scenario_id : STRING \cup {None}, hitl_state : HITLState,
     hitl_checkpoint_id : BOOLEAN, submitted : BOOLEAN]

Selection ==
    [scenario_ids : Seq(STRING), repetitions : Nat \ {0}, is_baseline : BOOLEAN]

ASSUME SelectionsAssumption ==
    \A g \in Creates :
        /\ Selections[g] \subseteq Selection
        /\ \A s \in Selections[g] : s.scenario_ids # << >>
ASSUME ContractsAssumption ==
    Contracts \subseteq STRING /\ HITLScenarios \subseteq Contracts
ASSUME TargetAssumption ==
    \A s \in Contracts : Target[s] \subseteq Event /\ Approved[s] \subseteq Event
ASSUME FaultsAssumption == Faults \in BOOLEAN
ASSUME MaxInFlightAssumption == MaxInFlight \in Nat \ {0}

Bodies == UNION {Selections[g] : g \in Creates}
Scenarios == UNION {ToSet(s.scenario_ids) : s \in Bodies}
Repetitions == UNION {0..s.repetitions - 1 : s \in Bodies}
RunIds == Creates \X Scenarios \X Repetitions

ASSUME ClientsAssumption == Clients \cap RunIds = {}

RegressionRun ==
    [selection : Bodies,
     status : {"pending", "running", "completed", "failed"}]

AgentRun ==
    [regression_run_id : Creates \cup {None},
     repetition_index : Repetitions \cup {None},
     scenario_id : STRING \cup {None}, hitl_state : HITLState,
     hitl_checkpoint_id : BOOLEAN, submitted : BOOLEAN]

\* What one evaluation stored; None for a snapshot that is left open.
EvaluationResult ==
    [run_id : RunIds, hitl_state : HITLState \cup {None},
     assessment : Assessments, complete : BOOLEAN]

ASSUME NoneIsNoRow ==
    None \notin Bodies \cup Event \cup RegressionRun \cup AgentRun
                 \cup EvaluationResult \cup Assessments

VARIABLES
    regression_runs,      \* per creation, None or its row
    agent_runs,           \* per run id, None or its row
    evaluation_results,   \* per run, None or its evaluation for its regression,
                          \* and per client, None or one for no regression
    run_failures,         \* per run id, None or its classification
    pc,                   \* where a request, then its background task, is
    selection,            \* the body of the request
    position,             \* the scenario (from 1) and repetition under way
    resumed,              \* whether the approval of this repetition was given
    event,                \* the snapshot the target answered
    in_transaction,       \* whether the runner's session has begun one
    created_run_ids       \* the repetitions the runner counts as done

tables == <<regression_runs, agent_runs, evaluation_results, run_failures>>
memory == <<selection, position, resumed, event, in_transaction, created_run_ids>>
vars == <<tables, pc, memory>>

Requesting == {"create", "accept"}
Repeating == {"dispatch", "ingest", "link", "gate", "resume", "evaluate"}
Running == {"queued", "load", "recover", "violated", "finish"} \cup Repeating

\* 409, 500; the task ended, ended by HITLGateViolationError, or died.
Ends == {"conflict", "failed", "done", "gate_violation", "dead"}

FirstPosition == [scenario |-> 1, repetition |-> 0]

Init ==
    /\ regression_runs = [g \in Creates |-> None]
    /\ agent_runs = [r \in RunIds |-> None]
    /\ evaluation_results = [x \in RunIds \cup Clients |-> None]
    /\ run_failures = [r \in RunIds |-> None]
    /\ pc = [g \in Creates |-> "unsent"]
    /\ selection = [g \in Creates |-> None]
    /\ position = [g \in Creates |-> FirstPosition]
    /\ resumed = [g \in Creates |-> FALSE]
    /\ event = [g \in Creates |-> None]
    /\ in_transaction = [g \in Creates |-> FALSE]
    /\ created_run_ids = [g \in Creates |-> {}]

Goto(g, step) == pc' = [pc EXCEPT ![g] = step]

-----------------------------------------------------------------------------
(* The request.                                                            *)

BaselineExists ==
    \E g \in Creates :
        regression_runs[g] # None /\ regression_runs[g].selection.is_baseline

CheckBaseline(g) ==
    /\ pc[g] = "unsent"
    /\ Cardinality({h \in Creates : pc[h] \in Requesting}) < MaxInFlight
    /\ \E s \in Selections[g] :
          /\ selection' = [selection EXCEPT ![g] = s]
          /\ Goto(g, IF s.is_baseline /\ BaselineExists
                     THEN "conflict" ELSE "create")
    /\ UNCHANGED <<tables, position, resumed, event, in_transaction,
                   created_run_ids>>

\* uq_regression_runs_baseline, the partial unique index.
ViolatesIndex_Never(s) == FALSE
ViolatesIndex(s) == s.is_baseline /\ BaselineExists

CreateRegression(g) ==
    /\ pc[g] = "create"
    /\ ~ViolatesIndex(selection[g])
    /\ regression_runs' = [regression_runs EXCEPT
          ![g] = [selection |-> selection[g], status |-> "pending"]]
    /\ Goto(g, "accept")
    /\ UNCHANGED <<agent_runs, evaluation_results, run_failures, memory>>

\* The IntegrityError nobody catches: a 500.
CreateConflicts(g) ==
    /\ pc[g] = "create"
    /\ ViolatesIndex(selection[g])
    /\ Goto(g, "failed")
    /\ UNCHANGED <<tables, memory>>

\* 202; the background task starts once the response is sent.
Accept(g) ==
    /\ pc[g] = "accept"
    /\ Goto(g, "queued")
    /\ UNCHANGED <<tables, memory>>

\* A row already inserted stays, pending, with no task to execute it.
RequestFails(g) ==
    /\ Faults
    /\ pc[g] \in Requesting
    /\ Goto(g, "failed")
    /\ UNCHANGED <<tables, memory>>

-----------------------------------------------------------------------------
(* The runner.                                                             *)

ScenarioIds(g) == selection[g].scenario_ids
Scenario(g) == ScenarioIds(g)[position[g].scenario]
RunId(g) == <<g, Scenario(g), position[g].repetition>>

SetStatus(g, status) ==
    regression_runs' = [regression_runs EXCEPT ![g].status = status]

MarkRunning(g) ==
    /\ pc[g] = "queued"
    /\ SetStatus(g, "running")
    /\ Goto(g, "load")
    /\ UNCHANGED <<agent_runs, evaluation_results, run_failures, memory>>

\* Outside the try: an unknown scenario ends the task as it stands.
LoadContract(g) ==
    /\ pc[g] = "load"
    /\ Goto(g, IF Scenario(g) \in Contracts THEN "dispatch" ELSE "dead")
    /\ UNCHANGED <<tables, memory>>

\* The next repetition, the next scenario or the end of run's loops.
Continue(g) ==
    LET p == position[g]
        last == p.repetition + 1 = selection[g].repetitions
    IN /\ position' = [position EXCEPT ![g] =
             IF last THEN [scenario |-> p.scenario + 1, repetition |-> 0]
             ELSE [p EXCEPT !.repetition = @ + 1]]
       /\ resumed' = [resumed EXCEPT ![g] = FALSE]
       /\ event' = [event EXCEPT ![g] = None]
       /\ Goto(g, IF ~last THEN "dispatch"
                  ELSE IF p.scenario = Len(ScenarioIds(g)) THEN "finish"
                  ELSE "load")

Recover_FailsRegression(g) ==
    /\ pc[g] = "recover"
    /\ in_transaction' = [in_transaction EXCEPT ![g] = FALSE]
    /\ SetStatus(g, "failed")
    /\ Continue(g)
    /\ UNCHANGED <<agent_runs, evaluation_results, run_failures, selection,
                   created_run_ids>>

Recover_Retries(g) ==
    /\ pc[g] = "recover"
    /\ in_transaction' = [in_transaction EXCEPT ![g] = FALSE]
    /\ resumed' = [resumed EXCEPT ![g] = FALSE]
    /\ event' = [event EXCEPT ![g] = None]
    /\ Goto(g, "dispatch")
    /\ UNCHANGED <<tables, selection, position, created_run_ids>>

\* except Exception: roll back, note the error, go on.
Recover(g) ==
    /\ pc[g] = "recover"
    /\ in_transaction' = [in_transaction EXCEPT ![g] = FALSE]
    /\ Continue(g)
    /\ UNCHANGED <<tables, selection, created_run_ids>>

Answers(g, events, next) ==
    \/ \E e \in events :
          /\ event' = [event EXCEPT ![g] = e]
          /\ Goto(g, next)
    \/ /\ events = {} \/ Faults
       /\ Goto(g, "recover")
       /\ UNCHANGED event

Dispatch(g) ==
    /\ pc[g] = "dispatch"
    /\ Answers(g, Target[Scenario(g)], "ingest")
    /\ UNCHANGED <<tables, selection, position, resumed, in_transaction,
                   created_run_ids>>

IngestedRow_Unlinks(old, e) ==
    [regression_run_id |-> None, repetition_index |-> None,
     scenario_id |-> e.scenario_id, hitl_state |-> e.hitl_state,
     hitl_checkpoint_id |-> e.hitl_checkpoint_id,
     submitted |-> e.submitted \/ (old # None /\ old.submitted)]

\* The row the upsert leaves: linkage columns other than scenario_id stay.
IngestedRow(old, e) ==
    [regression_run_id |-> IF old = None THEN None ELSE old.regression_run_id,
     repetition_index |-> IF old = None THEN None ELSE old.repetition_index,
     scenario_id |-> e.scenario_id, hitl_state |-> e.hitl_state,
     hitl_checkpoint_id |-> e.hitl_checkpoint_id,
     submitted |-> e.submitted \/ (old # None /\ old.submitted)]

LinkedRow(g) ==
    [agent_runs[RunId(g)] EXCEPT !.regression_run_id = g,
                                 !.scenario_id = Scenario(g),
                                 !.repetition_index = position[g].repetition]

Slot(row) == <<row.regression_run_id, row.scenario_id, row.repetition_index>>

\* uq_agent_runs_regression_scenario_repetition; NULLs never conflict.
SlotTaken(r, row) ==
    /\ None \notin {Slot(row)[i] : i \in 1..3}
    /\ \E other \in RunIds \ {r} :
          agent_runs[other] # None /\ Slot(agent_runs[other]) = Slot(row)

\* HITLStateRegressionError
Refused(old, e) ==
    /\ e.hitl_state = "pending"
    /\ old # None /\ old.hitl_state \in {"approved", "rejected"}

\* session.begin raises in a session whose transaction has begun.
MayIngest(g) ==
    LET old == agent_runs[RunId(g)]
    IN /\ ~in_transaction[g]
       /\ ~Refused(old, event[g])
       /\ ~SlotTaken(RunId(g), IngestedRow(old, event[g]))

IngestEvent(g) ==
    /\ pc[g] = "ingest"
    /\ MayIngest(g)
    /\ agent_runs' = [agent_runs EXCEPT ![RunId(g)] = IngestedRow(@, event[g])]
    /\ Goto(g, "link")
    /\ UNCHANGED <<regression_runs, evaluation_results, run_failures, memory>>

IngestRaises(g) ==
    /\ pc[g] = "ingest"
    /\ ~MayIngest(g)
    /\ Goto(g, "recover")
    /\ UNCHANGED <<tables, memory>>

\* What follows persist_regression_linkage, whose refresh began a transaction:
\* the gate, or a commit and the evaluation.
AfterLinkage(g) ==
    LET gated == Scenario(g) \in HITLScenarios /\ ~resumed[g]
    IN /\ Goto(g, IF gated THEN "gate" ELSE "evaluate")
       /\ in_transaction' = [in_transaction EXCEPT ![g] = gated]

Link_UnlessLinked(g) ==
    /\ pc[g] = "link"
    /\ agent_runs' = IF agent_runs[RunId(g)].regression_run_id = g THEN agent_runs
                     ELSE [agent_runs EXCEPT ![RunId(g)] = LinkedRow(g)]
    /\ AfterLinkage(g)
    /\ UNCHANGED <<regression_runs, evaluation_results, run_failures, selection,
                   position, resumed, event, created_run_ids>>

Link(g) ==
    /\ pc[g] = "link"
    /\ ~SlotTaken(RunId(g), LinkedRow(g))
    /\ agent_runs' = [agent_runs EXCEPT ![RunId(g)] = LinkedRow(g)]
    /\ AfterLinkage(g)
    /\ UNCHANGED <<regression_runs, evaluation_results, run_failures, selection,
                   position, resumed, event, created_run_ids>>

LinkConflicts(g) ==
    /\ pc[g] = "link"
    /\ SlotTaken(RunId(g), LinkedRow(g))
    /\ Goto(g, "recover")
    /\ UNCHANGED <<tables, memory>>

GateHeld_ByState(row) == row.hitl_state = "pending" /\ row.hitl_checkpoint_id

GateHeld(row) ==
    /\ row.hitl_state = "pending"
    /\ row.hitl_checkpoint_id
    /\ ~row.submitted

\* _assert_hitl_gate_held, its commit included.
PassGate(g) ==
    /\ pc[g] = "gate"
    /\ GateHeld(agent_runs[RunId(g)])
    /\ in_transaction' = [in_transaction EXCEPT ![g] = FALSE]
    /\ Goto(g, "resume")
    /\ UNCHANGED <<tables, selection, position, resumed, event, created_run_ids>>

RefuseGate(g) ==
    /\ pc[g] = "gate"
    /\ ~GateHeld(agent_runs[RunId(g)])
    /\ Goto(g, "violated")
    /\ UNCHANGED <<tables, memory>>

Resume(g) ==
    /\ pc[g] = "resume"
    /\ Answers(g, Approved[Scenario(g)], "ingest")
    /\ resumed' = [resumed EXCEPT ![g] = TRUE]
    /\ UNCHANGED <<tables, selection, position, in_transaction, created_run_ids>>

StoreEvaluation_Replaces(key, r, seen, complete) ==
    \E a \in Assessments :
        /\ evaluation_results' = [evaluation_results EXCEPT ![key] =
              [run_id |-> r, hitl_state |-> seen, assessment |-> a,
               complete |-> complete]]
        /\ run_failures' = IF complete THEN [run_failures EXCEPT ![r] = a]
                           ELSE run_failures

\* Adds the results of an evaluation of a run under a key nobody has taken
\* and, if it gets that far, overwrites the classification of the run.
StoreEvaluation(key, r, seen, complete) ==
    /\ evaluation_results[key] = None
    /\ \E a \in Assessments :
          /\ evaluation_results' = [evaluation_results EXCEPT ![key] =
                [run_id |-> r, hitl_state |-> seen, assessment |-> a,
                 complete |-> complete]]
          /\ run_failures' = IF complete THEN [run_failures EXCEPT ![r] = a]
                             ELSE run_failures

\* The runner's, for its regression, of the run as it is stored.
EvaluateRun(g, complete) ==
    StoreEvaluation(RunId(g), RunId(g), agent_runs[RunId(g)].hitl_state, complete)

\* persist_run_failure reads its row back after its commit, which begins a
\* transaction nobody ends.
Evaluate(g) ==
    /\ pc[g] = "evaluate"
    /\ EvaluateRun(g, TRUE)
    /\ in_transaction' = [in_transaction EXCEPT ![g] = TRUE]
    /\ created_run_ids' = [created_run_ids EXCEPT ![g] = @ \cup {RunId(g)}]
    /\ Continue(g)
    /\ UNCHANGED <<regression_runs, agent_runs, selection>>

\* The UNIQUE constraint: somebody evaluated the run for this regression.
EvaluateConflicts(g) ==
    /\ pc[g] = "evaluate"
    /\ evaluation_results[RunId(g)] # None
    /\ Goto(g, "recover")
    /\ UNCHANGED <<tables, memory>>

\* A step of a repetition raises, before or after its commit.
RepetitionFails(g) ==
    /\ Faults
    /\ pc[g] \in Repeating
    /\ \/ UNCHANGED tables
       \/ /\ pc[g] = "ingest" /\ MayIngest(g)
          /\ agent_runs' =
                [agent_runs EXCEPT ![RunId(g)] = IngestedRow(@, event[g])]
          /\ UNCHANGED <<regression_runs, evaluation_results, run_failures>>
       \/ /\ pc[g] = "link" /\ ~SlotTaken(RunId(g), LinkedRow(g))
          /\ agent_runs' = [agent_runs EXCEPT ![RunId(g)] = LinkedRow(g)]
          /\ UNCHANGED <<regression_runs, evaluation_results, run_failures>>
       \/ /\ pc[g] = "evaluate"
          /\ \E complete \in BOOLEAN : EvaluateRun(g, complete)
          /\ UNCHANGED <<regression_runs, agent_runs>>
    /\ Goto(g, "recover")
    /\ UNCHANGED memory

\* except HITLGateViolationError: roll back, mark failed, raise.
FailRegression(g) ==
    /\ pc[g] = "violated"
    /\ in_transaction' = [in_transaction EXCEPT ![g] = FALSE]
    /\ SetStatus(g, "failed")
    /\ Goto(g, "gate_violation")
    /\ UNCHANGED <<agent_runs, evaluation_results, run_failures, selection,
                   position, resumed, event, created_run_ids>>

MarkCompleted_Unchecked(g) ==
    /\ pc[g] = "finish"
    /\ SetStatus(g, "complete")
    /\ in_transaction' = [in_transaction EXCEPT ![g] = FALSE]
    /\ Goto(g, "done")
    /\ UNCHANGED <<agent_runs, evaluation_results, run_failures, selection,
                   position, resumed, event, created_run_ids>>

MarkCompleted(g) ==
    /\ pc[g] = "finish"
    /\ SetStatus(g, "completed")
    /\ in_transaction' = [in_transaction EXCEPT ![g] = FALSE]
    /\ Goto(g, "done")
    /\ UNCHANGED <<agent_runs, evaluation_results, run_failures, selection,
                   position, resumed, event, created_run_ids>>

\* Cancelled, restarted, or a statement outside the try raises.
TaskDies(g) ==
    /\ Faults
    /\ pc[g] \in Running
    /\ Goto(g, "dead")
    /\ UNCHANGED <<tables, memory>>

\* POST /runs/{run_id}/evaluate by a client, once its judges have answered.
\* What regression the run belongs to it read before: the one it is linked to,
\* or none, in which case no UNIQUE constraint holds its results up.
EvaluateByClient(c, r) ==
    /\ agent_runs[r] # None
    /\ \E linked \in {None, agent_runs[r].regression_run_id}, complete \in BOOLEAN :
          StoreEvaluation(IF linked = None THEN c ELSE r, r, None, complete)
    /\ UNCHANGED <<regression_runs, agent_runs, pc, memory>>

-----------------------------------------------------------------------------

RunOne(g) ==
    \/ Dispatch(g)
    \/ IngestEvent(g) \/ IngestRaises(g)
    \/ Link(g) \/ LinkConflicts(g)
    \/ PassGate(g) \/ RefuseGate(g)
    \/ Resume(g)
    \/ Evaluate(g) \/ EvaluateConflicts(g)

Execute(g) ==
    \/ MarkRunning(g)
    \/ LoadContract(g)
    \/ RunOne(g)
    \/ Recover(g)
    \/ FailRegression(g)
    \/ MarkCompleted(g)

Request(g) ==
    \/ CheckBaseline(g)
    \/ CreateRegression(g) \/ CreateConflicts(g)
    \/ Accept(g)

Fail(g) == RequestFails(g) \/ RepetitionFails(g) \/ TaskDies(g)

Idle == (\A g \in Creates : pc[g] \in Ends) /\ UNCHANGED vars

Next ==
    \/ \E g \in Creates : Request(g) \/ Execute(g) \/ Fail(g)
    \/ \E c \in Clients, r \in RunIds : EvaluateByClient(c, r)
    \/ Idle

Spec == Init /\ [][Next]_vars

\* asyncio resumes a task that can run; the agent and the database answer.
FairSpec == Spec /\ \A g \in Creates : WF_vars(Execute(g))

-----------------------------------------------------------------------------
(* Properties                                                              *)

TypeOK ==
    /\ regression_runs \in [Creates -> RegressionRun \cup {None}]
    /\ agent_runs \in [RunIds -> AgentRun \cup {None}]
    /\ evaluation_results \in [RunIds \cup Clients -> EvaluationResult \cup {None}]
    /\ run_failures \in [RunIds -> Assessments \cup {None}]
    /\ pc \in [Creates -> {"unsent"} \cup Requesting \cup Running \cup Ends]
    /\ selection \in [Creates -> Bodies \cup {None}]
    /\ position \in [Creates -> [scenario : Nat \ {0}, repetition : Nat]]
    /\ resumed \in [Creates -> BOOLEAN]
    /\ event \in [Creates -> Event \cup {None}]
    /\ in_transaction \in [Creates -> BOOLEAN]
    /\ created_run_ids \in [Creates -> SUBSET RunIds]
    /\ \A g \in Creates :
          /\ pc[g] # "unsent" => selection[g] # None
          /\ pc[g] \in {"unsent"} \cup Requesting => position[g] = FirstPosition
          /\ pc[g] \in Running \cup {"accept", "gate_violation"} =>
                /\ regression_runs[g] # None
                /\ position[g].repetition < selection[g].repetitions
          /\ pc[g] \in (Running \ {"finish"}) \cup {"gate_violation"} =>
                position[g].scenario \in DOMAIN ScenarioIds(g)
          /\ pc[g] \in Repeating \cup {"recover"} => Scenario(g) \in Contracts
          /\ pc[g] \in {"ingest", "link"} => event[g] # None
          /\ pc[g] \in {"link", "evaluate"} => agent_runs[RunId(g)] # None

\* Nothing is approved behind the gate's back: from the gate until the
\* approved snapshot is ingested, the pending one is what is stored, linked to
\* this regression, with a checkpoint and without a submitted work order
\* (_assert_hitl_gate_held, phase-7 Task 5).
GateHeldAtResume ==
    \A g \in Creates : pc[g] = "resume" \/ (pc[g] = "ingest" /\ resumed[g]) =>
        LET row == agent_runs[RunId(g)]
        IN /\ row.hitl_state = "pending" /\ row.hitl_checkpoint_id
           /\ ~row.submitted
           /\ Slot(row) = RunId(g)

\* failed is for the gate alone: the run on which the regression stopped is
\* stored, linked and shows the violation, and no error of a repetition ever
\* has that effect (RegressionRunner.run, phase-7 Task 3 amendment).
FailedMeansViolation ==
    \A g \in Creates :
        regression_runs[g] # None /\ regression_runs[g].status = "failed" =>
            LET row == agent_runs[RunId(g)]
            IN /\ row # None /\ Slot(row) = RunId(g)
               /\ row.hitl_state # "pending" \/ ~row.hitl_checkpoint_id
                  \/ row.submitted

\* A repetition the runner counts as done is stored under its linkage and
\* completely evaluated for this regression, once, in its final state: never
\* on the pending snapshot (_run_one, _run_one_hitl, phase-7 Task 5), however
\* early or late clients evaluate it.  A scenario listed twice is left out:
\* its second pass rewrites the run.
CreatedMeansEvaluated ==
    \A g \in Creates :
        selection[g] # None /\ IsInjective(ScenarioIds(g)) =>
            \A r \in created_run_ids[g] :
                /\ Slot(agent_runs[r]) = r
                /\ evaluation_results[r] # None /\ run_failures[r] # None
                /\ evaluation_results[r].complete
                /\ evaluation_results[r].hitl_state = agent_runs[r].hitl_state
                /\ r[2] \in HITLScenarios => agent_runs[r].hitl_state # "pending"

Lifecycle ==
    INSTANCE RegressionLifecycle WITH Selections <- Bodies, regression_runs <- regression_runs

\* A regression is pending, running, then completed or failed for good, its
\* configuration is frozen and there is one baseline at most, whatever
\* requests and tasks do to each other (create_regression, RegressionRunner).
ImplementsLifecycle == Lifecycle!Spec

\* A regression whose scenarios exist ends, whatever its repetitions come to,
\* as long as the database answers and the process lives (RegressionRunner.run,
\* phase-7 Task 8).
RegressionEnds ==
    \A g \in Creates :
        (pc[g] = "queued" /\ ToSet(ScenarioIds(g)) \subseteq Contracts)
        ~> \/ /\ pc[g] \in {"done", "gate_violation"}
              /\ regression_runs[g].status \in {"completed", "failed"}
           \/ Faults /\ pc[g] = "dead"

\* Without faults, a creation that is refused is refused with 409: the unique
\* index never surfaces as a 500 (create_regression, phase-7 Task 8).
RefusedMeansConflict == \A g \in Creates : pc[g] # "failed"

\* With an agent that answers every scenario and no faults, a completed
\* regression has every repetition of every scenario, linked
\* (phase-7 Task 6: 8 scenarios times 5 repetitions make 40 runs).
CompletedMeansAllRan ==
    \A g \in Creates :
        regression_runs[g] # None /\ regression_runs[g].status = "completed" =>
            \A s \in ToSet(ScenarioIds(g)), i \in 0..selection[g].repetitions - 1 :
                agent_runs[<<g, s, i>>] # None

=============================================================================
