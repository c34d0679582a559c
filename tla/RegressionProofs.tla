--------------------------- MODULE RegressionProofs ---------------------------
(***************************************************************************)
(* What holds of Regression and RegressionReport for any number of         *)
(* regressions, scenarios and repetitions and whatever the agent answers.  *)
(* The rows live the life RegressionLifecycle promises, nothing passes the *)
(* approval gate but what the gate has seen, failed means a violation, and *)
(* a repetition that is counted is linked and evaluated.  What one report  *)
(* has counted the next one still counts, and a report that says completed *)
(* or failed is the last word.                                             *)
(***************************************************************************)
EXTENDS RegressionReport, CommonProofs

-----------------------------------------------------------------------------
(* The inductive invariant.                                                *)

AtGate(g) == pc[g] = "resume" \/ (pc[g] = "ingest" /\ resumed[g])
Stopped(g) == pc[g] \in {"violated", "gate_violation"}

\* Where the task of a regression is tells what its row says.
StatusInv(g) ==
    /\ pc[g] \in {"unsent", "create", "conflict"} => regression_runs[g] = None
    /\ pc[g] \in {"accept", "queued"} =>
          regression_runs[g] # None /\ regression_runs[g].status = "pending"
    /\ pc[g] \in Running \ {"queued"} =>
          regression_runs[g] # None /\ regression_runs[g].status = "running"
    /\ regression_runs[g] # None /\ regression_runs[g].status = "failed" =>
          pc[g] = "gate_violation"

Stored(g) == agent_runs[RunId(g)] # None /\ Slot(agent_runs[RunId(g)]) = RunId(g)

\* From its first linkage on, the run of the repetition under way is linked
\* where it belongs, and it is past the gate or stopped by it as its row says.
GateInv(g) ==
    /\ pc[g] \in {"unsent", "queued", "load", "dispatch"} \cup Requesting => ~resumed[g]
    /\ pc[g] \in {"gate", "evaluate"} \/ AtGate(g) \/ Stopped(g) => Stored(g)
    /\ AtGate(g) => GateHeld(agent_runs[RunId(g)])
    /\ Stopped(g) => ~GateHeld(agent_runs[RunId(g)])

IInv == TypeOK /\ \A g \in Creates : StatusInv(g) /\ GateInv(g)

-----------------------------------------------------------------------------
(* Facts about the model's operators.                                      *)

\* The row sets hold records, which have the fields they are declared with.
LEMMA RowFacts ==
    /\ \A e \in Event : e.scenario_id \in STRING \cup {None} /\ e.hitl_state \in HITLState
                        /\ e.hitl_checkpoint_id \in BOOLEAN /\ e.submitted \in BOOLEAN
    /\ \A s \in Bodies : /\ s.scenario_ids \in Seq(STRING) /\ s.scenario_ids # << >>
                         /\ s.repetitions \in Nat \ {0}
BY SelectionsAssumption DEF Event, Bodies, Selection

\* Where a task has a repetition under way, or has stopped on one.
Under == (Running \ {"finish"}) \cup {"gate_violation"}

\* The scenario and the run id of the repetition under way are what they are
\* called, and the run id says whose it is.
LEMMA RunIdFacts ==
    ASSUME TypeOK, NEW g \in Creates,
           pc[g] \in Under
    PROVE  /\ Scenario(g) \in Scenarios
           /\ Scenario(g) \in STRING
           /\ position[g].repetition \in Repetitions
           /\ RunId(g) \in RunIds
           /\ RunId(g) = <<g, Scenario(g), position[g].repetition>>
           /\ RunId(g)[1] = g
<1>1. /\ selection[g] \in Bodies
      /\ position[g].scenario \in DOMAIN ScenarioIds(g)
      /\ position[g].repetition \in Nat
      /\ position[g].repetition < selection[g].repetitions
  BY DEF TypeOK, Under, Running, Repeating
<1>2. ScenarioIds(g) \in Seq(STRING)
  BY <1>1, RowFacts DEF ScenarioIds
<1>3. Scenario(g) \in STRING
  BY <1>1, <1>2 DEF Scenario
<1>4. Scenario(g) \in ToSet(selection[g].scenario_ids)
  BY <1>1 DEF Scenario, ScenarioIds, ToSet
<1>5. Scenario(g) \in Scenarios
  BY <1>1, <1>4 DEF Scenarios
<1>6. position[g].repetition \in 0..selection[g].repetitions - 1
  BY <1>1, RowFacts
<1>7. position[g].repetition \in Repetitions
  BY <1>1, <1>6 DEF Repetitions
<1>. QED
  BY <1>3, <1>5, <1>7 DEF RunId, RunIds

TablesTyped ==
    /\ evaluation_results \in [RunIds \cup Clients -> EvaluationResult \cup {None}]
    /\ run_failures \in [RunIds -> Assessments \cup {None}]

\* An evaluation adds one row and overwrites one classification at most
\* (persist_evaluation_result, persist_run_failure).
LEMMA StoreFacts ==
    ASSUME TablesTyped, NEW key \in RunIds \cup Clients, NEW r \in RunIds,
           NEW seen \in HITLState \cup {None}, NEW complete \in BOOLEAN,
           StoreEvaluation(key, r, seen, complete)
    PROVE  /\ TablesTyped'
           /\ evaluation_results[key] = None
           /\ evaluation_results'[key] \in EvaluationResult
           /\ evaluation_results'[key] # None
           /\ evaluation_results'[key].run_id = r
           /\ evaluation_results'[key].hitl_state = seen
           /\ evaluation_results'[key].complete = complete
           /\ \A x \in (RunIds \cup Clients) \ {key} :
                 evaluation_results'[x] = evaluation_results[x]
           /\ \A q \in RunIds \ {r} : run_failures'[q] = run_failures[q]
           /\ complete => run_failures'[r] \in Assessments /\ run_failures'[r] # None
           /\ ~complete => run_failures' = run_failures
<1>1. PICK a \in Assessments :
         /\ evaluation_results' = [evaluation_results EXCEPT ![key] =
               [run_id |-> r, hitl_state |-> seen, assessment |-> a, complete |-> complete]]
         /\ run_failures' = IF complete THEN [run_failures EXCEPT ![r] = a]
                            ELSE run_failures
  BY DEF StoreEvaluation
<1>. DEFINE row == [run_id |-> r, hitl_state |-> seen, assessment |-> a, complete |-> complete]
<1>2. /\ row \in EvaluationResult
      /\ row.run_id = r /\ row.hitl_state = seen /\ row.complete = complete
      /\ a # None
  BY NoneIsNoRow DEF EvaluationResult
<1>3. evaluation_results' = [evaluation_results EXCEPT ![key] = row]
  BY <1>1
<1>. HIDE DEF row
<1>4. /\ evaluation_results' \in [RunIds \cup Clients -> EvaluationResult \cup {None}]
      /\ evaluation_results'[key] = row
      /\ \A x \in (RunIds \cup Clients) \ {key} :
            evaluation_results'[x] = evaluation_results[x]
  BY <1>2, <1>3 DEF TablesTyped
<1>5. /\ run_failures' \in [RunIds -> Assessments \cup {None}]
      /\ \A q \in RunIds \ {r} : run_failures'[q] = run_failures[q]
      /\ complete => run_failures'[r] = a
      /\ ~complete => run_failures' = run_failures
  BY <1>1 DEF TablesTyped
<1>6. evaluation_results[key] = None
  BY DEF StoreEvaluation
<1>. QED
  BY <1>2, <1>4, <1>5, <1>6, NoneIsNoRow DEF TablesTyped

\* The runner's evaluation is one of the run under way.
LEMMA RunnerStores ==
    ASSUME TypeOK, NEW g \in Creates, pc[g] = "evaluate", NEW complete \in BOOLEAN
    PROVE  /\ TablesTyped
           /\ RunId(g) \in RunIds /\ RunId(g)[1] = g
           /\ agent_runs[RunId(g)] \in AgentRun
           /\ agent_runs[RunId(g)].hitl_state \in HITLState
<1>1. RunId(g) \in RunIds /\ RunId(g)[1] = g
  BY RunIdFacts DEF Under, Running, Repeating
<1>2. agent_runs[RunId(g)] \in AgentRun
  BY <1>1 DEF TypeOK
<1>. QED
  BY <1>1, <1>2 DEF TypeOK, TablesTyped, AgentRun

\* So is a client's, of the run it was asked for.
LEMMA ClientStores ==
    ASSUME TypeOK, NEW c \in Clients, NEW r \in RunIds, EvaluateByClient(c, r)
    PROVE  \E key \in {c, r}, complete \in BOOLEAN :
              StoreEvaluation(key, r, None, complete)
BY DEF EvaluateByClient
-----------------------------------------------------------------------------
(* A step of one regression leaves the others alone.                       *)

OnlyOwn(g) ==
    /\ \A h \in Creates \ {g} :
          /\ regression_runs'[h] = regression_runs[h]
          /\ pc'[h] = pc[h]
          /\ selection'[h] = selection[h]
          /\ position'[h] = position[h]
          /\ resumed'[h] = resumed[h]
          /\ event'[h] = event[h]
          /\ created_run_ids'[h] = created_run_ids[h]
    /\ \A r \in RunIds : r[1] # g =>
          /\ agent_runs'[r] = agent_runs[r]
          /\ evaluation_results'[r] = evaluation_results[r]
          /\ run_failures'[r] = run_failures[r]

\* What the runner stores is of its own run.
LEMMA StoresOwn ==
    ASSUME TypeOK, NEW g \in Creates, pc[g] = "evaluate", NEW complete \in BOOLEAN,
           EvaluateRun(g, complete), NEW r \in RunIds, r[1] # g
    PROVE  /\ evaluation_results'[r] = evaluation_results[r]
           /\ run_failures'[r] = run_failures[r]
<1>1. r # RunId(g)
  BY DEF RunId
<1>. QED
  BY <1>1, RunnerStores, StoreFacts DEF EvaluateRun

\* What a request or a task writes is named by its regression.
LEMMA StepsAreLocal ==
    ASSUME TypeOK, NEW g \in Creates, Request(g) \/ Execute(g) \/ Fail(g)
    PROVE  OnlyOwn(g)
<1>. USE DEF TypeOK, OnlyOwn, tables, memory, Goto, SetStatus
<1>1. CASE Request(g)
  BY <1>1 DEF Request, CheckBaseline, CreateRegression, CreateConflicts, Accept
<1>2. CASE Fail(g)
  <2>1. CASE RequestFails(g) \/ TaskDies(g)
    BY <2>1 DEF RequestFails, TaskDies
  <2>2. CASE RepetitionFails(g)
    <3>1. RunId(g)[1] = g
      BY DEF RunId
    <3>. HIDE DEF TypeOK
    <3>2. /\ agent_runs \in [RunIds -> AgentRun \cup {None}]
          /\ pc \in [Creates -> {"unsent"} \cup Requesting \cup Running \cup Ends]
      BY DEF TypeOK
    <3>3. ASSUME pc[g] = "evaluate", NEW complete \in BOOLEAN, EvaluateRun(g, complete),
                 NEW r \in RunIds, r[1] # g
          PROVE  /\ evaluation_results'[r] = evaluation_results[r]
                 /\ run_failures'[r] = run_failures[r]
      BY <3>3, StoresOwn
    <3>. QED
      BY <2>2, <3>1, <3>2, <3>3 DEF RepetitionFails
  <2>. QED
    BY <1>2, <2>1, <2>2 DEF Fail
<1>3. CASE Execute(g)
  <2>1. RunId(g)[1] = g
    BY DEF RunId
  <2>2. CASE MarkRunning(g) \/ LoadContract(g) \/ FailRegression(g) \/ MarkCompleted(g)
    BY <2>2 DEF MarkRunning, LoadContract, FailRegression, MarkCompleted
  <2>3. CASE Recover(g)
    BY <2>3 DEF Recover, Continue
  <2>4. CASE Dispatch(g) \/ Resume(g)
    BY <2>4 DEF Dispatch, Resume, Answers
  <2>5. CASE IngestEvent(g) \/ IngestRaises(g)
    BY <2>1, <2>5 DEF IngestEvent, IngestRaises
  <2>6. CASE Link(g) \/ LinkConflicts(g)
    BY <2>1, <2>6 DEF Link, LinkConflicts, AfterLinkage
  <2>7. CASE PassGate(g) \/ RefuseGate(g)
    BY <2>7 DEF PassGate, RefuseGate
  <2>8. CASE EvaluateConflicts(g)
    BY <2>8 DEF EvaluateConflicts
  <2>9. CASE Evaluate(g)
    <3>1. \A r \in RunIds : r[1] # g =>
             /\ evaluation_results'[r] = evaluation_results[r]
             /\ run_failures'[r] = run_failures[r]
      BY <2>9, StoresOwn DEF Evaluate
    <3>. QED
      BY <2>1, <2>9, <3>1 DEF Evaluate, Continue
  <2>. QED
    BY <1>3, <2>2, <2>3, <2>4, <2>5, <2>6, <2>7, <2>8, <2>9 DEF Execute, RunOne
<1>. QED
  BY <1>1, <1>2, <1>3

-----------------------------------------------------------------------------
(* Types.                                                                  *)

FieldTypes ==
    /\ regression_runs \in [Creates -> RegressionRun \cup {None}]
    /\ agent_runs \in [RunIds -> AgentRun \cup {None}]
    /\ TablesTyped
    /\ pc \in [Creates -> {"unsent"} \cup Requesting \cup Running \cup Ends]
    /\ selection \in [Creates -> Bodies \cup {None}]
    /\ position \in [Creates -> [scenario : Nat \ {0}, repetition : Nat]]
    /\ resumed \in [Creates -> BOOLEAN]
    /\ event \in [Creates -> Event \cup {None}]
    /\ in_transaction \in [Creates -> BOOLEAN]
    /\ created_run_ids \in [Creates -> SUBSET RunIds]

\* What the steps of one regression may count on.
OwnType(g) ==
    /\ pc[g] # "unsent" => selection[g] # None
    /\ pc[g] \in {"unsent"} \cup Requesting => position[g] = FirstPosition
    /\ pc[g] \in Running \cup {"accept", "gate_violation"} =>
          /\ regression_runs[g] # None
          /\ position[g].repetition < selection[g].repetitions
    /\ pc[g] \in Under => position[g].scenario \in DOMAIN ScenarioIds(g)
    /\ pc[g] \in Repeating \cup {"recover"} => Scenario(g) \in Contracts
    /\ pc[g] \in {"ingest", "link"} => event[g] # None
    /\ pc[g] \in {"link", "evaluate"} => agent_runs[RunId(g)] # None

\* Types, taken apart into those of the tables and those of each task.
LEMMA TypeOKSplits == TypeOK <=> FieldTypes /\ \A g \in Creates : OwnType(g)
BY DEF TypeOK, FieldTypes, OwnType, Under, TablesTyped

\* What a step of another regression cannot disturb.
LEMMA OwnTypeStays ==
    ASSUME TypeOK, NEW g \in Creates, NEW h \in Creates \ {g}, OnlyOwn(g)
    PROVE  OwnType(h)'
<1>1. /\ regression_runs'[h] = regression_runs[h]
      /\ pc'[h] = pc[h]
      /\ selection'[h] = selection[h]
      /\ position'[h] = position[h]
      /\ event'[h] = event[h]
  BY DEF OnlyOwn
<1>2. RunId(h)' = RunId(h) /\ ScenarioIds(h)' = ScenarioIds(h) /\ Scenario(h)' = Scenario(h)
  BY <1>1 DEF RunId, Scenario, ScenarioIds
<1>3. pc[h] \in {"link", "evaluate"} => agent_runs'[RunId(h)] = agent_runs[RunId(h)]
  <2>1. pc[h] \in {"link", "evaluate"} => RunId(h) \in RunIds /\ RunId(h)[1] = h
    BY RunIdFacts DEF Under, Running, Repeating
  <2>. QED
    BY <2>1 DEF OnlyOwn
<1>4. OwnType(h)
  BY TypeOKSplits
<1>. QED
  BY <1>1, <1>2, <1>3, <1>4 DEF OwnType

\* A snapshot makes a run row, and linkage keeps it one.
LEMMA RowTypes ==
    ASSUME NEW old \in AgentRun \cup {None}, NEW e \in Event
    PROVE  IngestedRow(old, e) \in AgentRun
BY NoneIsNoRow, RowFacts DEF IngestedRow, AgentRun

\* Linkage rewrites three columns of a row and leaves its decision alone
\* (persist_regression_linkage).
LEMMA LinkedRowType ==
    ASSUME TypeOK, NEW g \in Creates, pc[g] \in Under, agent_runs[RunId(g)] # None
    PROVE  /\ LinkedRow(g) \in AgentRun
           /\ Slot(LinkedRow(g)) = RunId(g)
           /\ LinkedRow(g).hitl_state = agent_runs[RunId(g)].hitl_state
<1>1. RunId(g) \in RunIds /\ Scenario(g) \in STRING /\ position[g].repetition \in Repetitions
      /\ RunId(g) = <<g, Scenario(g), position[g].repetition>>
  BY RunIdFacts
<1>2. agent_runs[RunId(g)] \in AgentRun
  BY <1>1 DEF TypeOK
<1>. QED
  BY <1>1, <1>2 DEF LinkedRow, AgentRun, Slot

\* Where the loops go on: the next repetition, the first one of the next
\* scenario, or the end.
LEMMA ContinueFacts ==
    ASSUME TypeOK, NEW g \in Creates, pc[g] \in {"recover", "evaluate"}, Continue(g)
    PROVE  LET p == position[g]
               q == position'[g]
           IN /\ position' \in [Creates -> [scenario : Nat \ {0}, repetition : Nat]]
              /\ resumed' \in [Creates -> BOOLEAN]
              /\ event' \in [Creates -> Event \cup {None}]
              /\ pc' \in [Creates -> {"unsent"} \cup Requesting \cup Running \cup Ends]
              /\ q.repetition < selection[g].repetitions
              /\ \/ /\ pc'[g] = "dispatch"
                    /\ q.scenario = p.scenario /\ q.repetition = p.repetition + 1
                 \/ /\ pc'[g] \in {"load", "finish"}
                    /\ q.scenario = p.scenario + 1 /\ q.repetition = 0
                    /\ pc'[g] = "load" => q.scenario \in DOMAIN ScenarioIds(g)
<1>. DEFINE p == position[g]
            last == p.repetition + 1 = selection[g].repetitions
<1>1. /\ p \in [scenario : Nat \ {0}, repetition : Nat]
      /\ p.repetition < selection[g].repetitions
      /\ p.scenario \in DOMAIN ScenarioIds(g)
      /\ selection[g] \in Bodies
  BY DEF TypeOK, Running, Repeating
<1>2. /\ selection[g].repetitions \in Nat \ {0}
      /\ ScenarioIds(g) \in Seq(STRING)
  BY <1>1, RowFacts DEF ScenarioIds
<1>3. /\ position'[g] = IF last THEN [scenario |-> p.scenario + 1, repetition |-> 0]
                        ELSE [p EXCEPT !.repetition = @ + 1]
      /\ pc'[g] = IF ~last THEN "dispatch"
                  ELSE IF p.scenario = Len(ScenarioIds(g)) THEN "finish"
                  ELSE "load"
  BY DEF Continue, Goto, TypeOK
<1>4. /\ position'[g] \in [scenario : Nat \ {0}, repetition : Nat]
      /\ position'[g].repetition < selection[g].repetitions
      /\ \/ /\ pc'[g] = "dispatch"
            /\ position'[g].scenario = p.scenario
            /\ position'[g].repetition = p.repetition + 1
         \/ /\ pc'[g] \in {"load", "finish"}
            /\ position'[g].scenario = p.scenario + 1
            /\ position'[g].repetition = 0
            /\ pc'[g] = "load" => position'[g].scenario \in DOMAIN ScenarioIds(g)
  BY <1>1, <1>2, <1>3
<1>5. /\ position' \in [Creates -> [scenario : Nat \ {0}, repetition : Nat]]
      /\ resumed' \in [Creates -> BOOLEAN]
      /\ event' \in [Creates -> Event \cup {None}]
      /\ pc' \in [Creates -> {"unsent"} \cup Requesting \cup Running \cup Ends]
  <2>. HIDE DEF last
  <2>. QED
    BY <1>3, <1>4 DEF Continue, Goto, TypeOK, Running, Repeating
<1>. QED
  BY <1>4, <1>5

\* Every action by itself.
LEMMA RequestTypes ==
    ASSUME TypeOK, NEW g \in Creates, Request(g)
    PROVE  FieldTypes' /\ OwnType(g)'
<1>. USE DEF FieldTypes, TablesTyped, OwnType, Under, Running, Repeating, Requesting, Ends, Goto,
         tables, memory
<1>1. FieldTypes /\ OwnType(g)
  BY TypeOKSplits
<1>2. CASE CheckBaseline(g)
  <2>1. PICK s \in Selections[g] : selection' = [selection EXCEPT ![g] = s]
    BY <1>2 DEF CheckBaseline
  <2>2. s \in Bodies /\ s # None
    BY <2>1, NoneIsNoRow DEF Bodies
  <2>. QED
    BY <1>1, <1>2, <2>1, <2>2 DEF CheckBaseline
<1>3. CASE CreateRegression(g)
  <2>1. [selection |-> selection[g], status |-> "pending"] \in RegressionRun
    BY <1>1, <1>3 DEF CreateRegression, RegressionRun
  <2>2. position[g].repetition < selection[g].repetitions
    BY <1>1, <1>3, RowFacts DEF CreateRegression, FirstPosition
  <2>. QED
    BY <1>1, <1>3, <2>1, <2>2, NoneIsNoRow DEF CreateRegression
<1>4. CASE CreateConflicts(g)
  BY <1>1, <1>4 DEF CreateConflicts
<1>5. CASE Accept(g)
  <2>1. /\ ScenarioIds(g) \in Seq(STRING)
        /\ ScenarioIds(g) # << >>
        /\ selection[g].repetitions \in Nat \ {0}
    BY <1>1, <1>5, RowFacts DEF Accept, ScenarioIds
  <2>2. 1 \in DOMAIN ScenarioIds(g)
    BY <2>1
  <2>. QED
    BY <1>1, <1>5, <2>1, <2>2 DEF Accept, FirstPosition, ScenarioIds
<1>. QED
  BY <1>2, <1>3, <1>4, <1>5 DEF Request

\* The steps of a task outside its repetitions keep the types.
LEMMA TaskTypes ==
    ASSUME TypeOK, NEW g \in Creates,
           MarkRunning(g) \/ LoadContract(g) \/ Recover(g) \/ FailRegression(g)
           \/ MarkCompleted(g)
    PROVE  FieldTypes' /\ OwnType(g)'
<1>. USE DEF FieldTypes, TablesTyped, OwnType, Under, Running, Repeating, Requesting, Ends, Goto,
         tables, memory
<1>1. FieldTypes /\ OwnType(g)
  BY TypeOKSplits
<1>2. ASSUME NEW status \in {"running", "completed", "failed"},
             regression_runs[g] # None, SetStatus(g, status)
      PROVE  /\ regression_runs' \in [Creates -> RegressionRun \cup {None}]
             /\ regression_runs'[g] # None
  <2>1. [regression_runs[g] EXCEPT !.status = status] \in RegressionRun
    BY <1>1, <1>2 DEF RegressionRun
  <2>. QED
    BY <1>1, <1>2, <2>1, NoneIsNoRow DEF SetStatus
<1>3. CASE MarkRunning(g)
  BY <1>1, <1>2, <1>3 DEF MarkRunning, ScenarioIds
<1>4. CASE LoadContract(g)
  BY <1>1, <1>4 DEF LoadContract, ScenarioIds, Scenario
<1>5. CASE Recover(g)
  <2>1. /\ position' \in [Creates -> [scenario : Nat \ {0}, repetition : Nat]]
        /\ resumed' \in [Creates -> BOOLEAN]
        /\ event' \in [Creates -> Event \cup {None}]
        /\ pc' \in [Creates -> {"unsent"} \cup Requesting \cup Running \cup Ends]
        /\ position'[g].repetition < selection[g].repetitions
        /\ \/ pc'[g] = "dispatch" /\ position'[g].scenario = position[g].scenario
           \/ /\ pc'[g] \in {"load", "finish"}
              /\ pc'[g] = "load" => position'[g].scenario \in DOMAIN ScenarioIds(g)
    BY <1>5, ContinueFacts DEF Recover
  <2>2. UNCHANGED <<tables, selection, created_run_ids>>
        /\ in_transaction' = [in_transaction EXCEPT ![g] = FALSE]
        /\ pc[g] = "recover"
    BY <1>5 DEF Recover
  <2>3. FieldTypes'
    BY <1>1, <2>1, <2>2
  <2>4. OwnType(g)'
    BY <1>1, <2>1, <2>2 DEF ScenarioIds, Scenario
  <2>. QED
    BY <2>3, <2>4
<1>6. CASE FailRegression(g)
  BY <1>1, <1>2, <1>6 DEF FailRegression, ScenarioIds
<1>7. CASE MarkCompleted(g)
  BY <1>1, <1>2, <1>7 DEF MarkCompleted, ScenarioIds
<1>. QED
  BY <1>3, <1>4, <1>5, <1>6, <1>7

\* What the target answers is a snapshot, or nothing.
LEMMA AnswerTypes ==
    ASSUME TypeOK, NEW g \in Creates, NEW events \in SUBSET Event,
           Answers(g, events, "ingest")
    PROVE  /\ event' \in [Creates -> Event \cup {None}]
           /\ pc' \in [Creates -> {"unsent"} \cup Requesting \cup Running \cup Ends]
           /\ \/ pc'[g] = "ingest" /\ event'[g] # None
              \/ pc'[g] = "recover"
<1>. USE DEF Goto, Running, Repeating
<1>1. /\ event \in [Creates -> Event \cup {None}]
      /\ pc \in [Creates -> {"unsent"} \cup Requesting \cup Running \cup Ends]
  BY DEF TypeOK
<1>2. ASSUME NEW e \in events, event' = [event EXCEPT ![g] = e], Goto(g, "ingest")
      PROVE  /\ event' \in [Creates -> Event \cup {None}]
             /\ pc' \in [Creates -> {"unsent"} \cup Requesting \cup Running \cup Ends]
             /\ pc'[g] = "ingest" /\ event'[g] # None
  <2>1. e \in Event /\ e # None
    BY NoneIsNoRow
  <2>2. event' \in [Creates -> Event \cup {None}] /\ event'[g] = e
    BY <1>1, <1>2, <2>1
  <2>. QED
    BY <1>1, <1>2, <2>1, <2>2
<1>3. ASSUME event' = event, Goto(g, "recover")
      PROVE  /\ event' \in [Creates -> Event \cup {None}]
             /\ pc' \in [Creates -> {"unsent"} \cup Requesting \cup Running \cup Ends]
             /\ pc'[g] = "recover"
  BY <1>1, <1>3
<1>. QED
  BY <1>2, <1>3 DEF Answers

\* The steps of a repetition keep the types (_run_one, _run_one_hitl).
LEMMA RepetitionTypes ==
    ASSUME TypeOK, NEW g \in Creates, RunOne(g)
    PROVE  FieldTypes' /\ OwnType(g)'
<1>. USE DEF FieldTypes, TablesTyped, OwnType, Under, Running, Repeating, Requesting, Ends, Goto,
         tables, memory
<1>1. FieldTypes /\ OwnType(g)
  BY TypeOKSplits
<1>2. pc[g] \in Under /\ Scenario(g) \in Contracts /\ RunId(g) \in RunIds
      /\ agent_runs[RunId(g)] \in AgentRun \cup {None}
  <2>1. pc[g] \in Under /\ Scenario(g) \in Contracts
    BY <1>1 DEF RunOne, Dispatch, IngestEvent, IngestRaises, Link, LinkConflicts,
       PassGate, RefuseGate, Resume, Evaluate, EvaluateConflicts
  <2>. QED
    BY <1>1, <2>1, RunIdFacts
<1>3. CASE Dispatch(g)
  <2>1. /\ event' \in [Creates -> Event \cup {None}]
        /\ pc' \in [Creates -> {"unsent"} \cup Requesting \cup Running \cup Ends]
        /\ \/ pc'[g] = "ingest" /\ event'[g] # None
           \/ pc'[g] = "recover"
    BY <1>2, <1>3, TargetAssumption, AnswerTypes DEF Dispatch
  <2>2. /\ UNCHANGED <<tables, selection, position, resumed, in_transaction, created_run_ids>>
        /\ pc[g] = "dispatch"
    BY <1>3 DEF Dispatch
  <2>. QED
    BY <1>1, <2>1, <2>2 DEF ScenarioIds, Scenario
<1>4. CASE Resume(g)
  <2>1. /\ event' \in [Creates -> Event \cup {None}]
        /\ pc' \in [Creates -> {"unsent"} \cup Requesting \cup Running \cup Ends]
        /\ \/ pc'[g] = "ingest" /\ event'[g] # None
           \/ pc'[g] = "recover"
    BY <1>2, <1>4, TargetAssumption, AnswerTypes DEF Resume
  <2>2. /\ resumed' = [resumed EXCEPT ![g] = TRUE]
        /\ UNCHANGED <<tables, selection, position, in_transaction, created_run_ids>>
        /\ pc[g] = "resume"
    BY <1>4 DEF Resume
  <2>. QED
    BY <1>1, <2>1, <2>2 DEF ScenarioIds, Scenario
<1>5. CASE IngestEvent(g)
  <2>1. event[g] \in Event
    BY <1>1, <1>5 DEF IngestEvent
  <2>2. IngestedRow(agent_runs[RunId(g)], event[g]) \in AgentRun
    BY <1>2, <2>1, RowTypes
  <2>3. /\ agent_runs' \in [RunIds -> AgentRun \cup {None}]
        /\ agent_runs'[RunId(g)] # None
    BY <1>1, <1>2, <1>5, <2>2, NoneIsNoRow DEF IngestEvent
  <2>4. RunId(g)' = RunId(g)
    BY <1>5 DEF IngestEvent, RunId, Scenario, ScenarioIds
  <2>. QED
    BY <1>1, <1>5, <2>3, <2>4 DEF IngestEvent, ScenarioIds, Scenario
<1>6. CASE IngestRaises(g) \/ LinkConflicts(g) \/ RefuseGate(g) \/ EvaluateConflicts(g)
  BY <1>1, <1>6 DEF IngestRaises, LinkConflicts, RefuseGate, EvaluateConflicts,
     ScenarioIds, Scenario
<1>7. CASE Link(g)
  <2>1. LinkedRow(g) \in AgentRun
    BY <1>1, <1>2, <1>7, LinkedRowType DEF Link
  <2>2. agent_runs' \in [RunIds -> AgentRun \cup {None}]
    BY <1>1, <1>2, <1>7, <2>1 DEF Link
  <2>3. agent_runs'[RunId(g)] # None
    BY <1>1, <1>2, <1>7, <2>1, NoneIsNoRow DEF Link
  <2>4. RunId(g)' = RunId(g)
    BY <1>7 DEF Link, RunId, Scenario, ScenarioIds
  <2>. QED
    BY <1>1, <1>7, <2>2, <2>3, <2>4 DEF Link, AfterLinkage, ScenarioIds, Scenario
<1>8. CASE PassGate(g)
  BY <1>1, <1>8 DEF PassGate, ScenarioIds, Scenario
<1>9. CASE Evaluate(g)
  <2>1. /\ position' \in [Creates -> [scenario : Nat \ {0}, repetition : Nat]]
        /\ resumed' \in [Creates -> BOOLEAN]
        /\ event' \in [Creates -> Event \cup {None}]
        /\ pc' \in [Creates -> {"unsent"} \cup Requesting \cup Running \cup Ends]
        /\ position'[g].repetition < selection[g].repetitions
        /\ \/ pc'[g] = "dispatch" /\ position'[g].scenario = position[g].scenario
           \/ /\ pc'[g] \in {"load", "finish"}
              /\ pc'[g] = "load" => position'[g].scenario \in DOMAIN ScenarioIds(g)
    BY <1>9, ContinueFacts DEF Evaluate
  <2>2. TablesTyped'
    BY <1>9, RunnerStores, StoreFacts DEF Evaluate, EvaluateRun
  <2>3. FieldTypes'
    BY <1>1, <1>2, <1>9, <2>1, <2>2 DEF Evaluate
  <2>4. OwnType(g)'
    BY <1>1, <1>9, <2>1 DEF Evaluate, ScenarioIds, Scenario
  <2>. QED
    BY <2>3, <2>4
<1>. QED
  BY <1>3, <1>4, <1>5, <1>6, <1>7, <1>8, <1>9 DEF RunOne

\* Faults keep the types: a failed step has committed all of its rows or none.
LEMMA FaultTypes ==
    ASSUME TypeOK, NEW g \in Creates, Fail(g)
    PROVE  FieldTypes' /\ OwnType(g)'
<1>. USE DEF FieldTypes, TablesTyped, OwnType, Under, Running, Repeating, Requesting, Ends, Goto,
         memory
<1>1. FieldTypes /\ OwnType(g)
  BY TypeOKSplits
<1>2. CASE RequestFails(g)
  BY <1>1, <1>2 DEF RequestFails, tables
<1>3. CASE TaskDies(g)
  BY <1>1, <1>3 DEF TaskDies, tables
<1>4. CASE RepetitionFails(g)
  <2>1. RunId(g) \in RunIds /\ agent_runs[RunId(g)] \in AgentRun \cup {None}
    BY <1>1, <1>4, RunIdFacts DEF RepetitionFails
  <2>2. /\ agent_runs' \in [RunIds -> AgentRun \cup {None}]
        /\ TablesTyped'
        /\ regression_runs' = regression_runs
    <3>1. CASE UNCHANGED tables
      BY <1>1, <3>1 DEF tables
    <3>2. CASE /\ pc[g] = "ingest"
               /\ agent_runs' =
                     [agent_runs EXCEPT ![RunId(g)] = IngestedRow(@, event[g])]
               /\ UNCHANGED <<regression_runs, evaluation_results, run_failures>>
      <4>1. IngestedRow(agent_runs[RunId(g)], event[g]) \in AgentRun
        BY <1>1, <2>1, <3>2, RowTypes
      <4>. QED
        BY <1>1, <3>2, <4>1
    <3>3. CASE /\ pc[g] = "link"
               /\ agent_runs' = [agent_runs EXCEPT ![RunId(g)] = LinkedRow(g)]
               /\ UNCHANGED <<regression_runs, evaluation_results, run_failures>>
      <4>1. LinkedRow(g) \in AgentRun
        BY <1>1, <3>3, LinkedRowType
      <4>. QED
        BY <1>1, <3>3, <4>1
    <3>4. CASE /\ pc[g] = "evaluate"
               /\ \E complete \in BOOLEAN : EvaluateRun(g, complete)
               /\ UNCHANGED <<regression_runs, agent_runs>>
      <4>1. TablesTyped'
        <5>. HIDE DEF FieldTypes, TablesTyped
        <5>. QED
          BY <3>4, RunnerStores, StoreFacts DEF EvaluateRun
      <4>. QED
        BY <1>1, <3>4, <4>1
    <3>. QED
      BY <1>4, <3>1, <3>2, <3>3, <3>4 DEF RepetitionFails
  <2>3. UNCHANGED memory /\ pc' = [pc EXCEPT ![g] = "recover"] /\ pc[g] \in Repeating
    BY <1>4 DEF RepetitionFails
  <2>. QED
    BY <1>1, <2>2, <2>3 DEF ScenarioIds, Scenario
<1>. QED
  BY <1>2, <1>3, <1>4 DEF Fail

\* Clients that evaluate runs keep the types.
LEMMA ClientTypes ==
    ASSUME TypeOK, NEW c \in Clients, NEW r \in RunIds, EvaluateByClient(c, r)
    PROVE  TypeOK'
<1>. USE DEF memory
<1>1. FieldTypes /\ \A g \in Creates : OwnType(g)
  BY TypeOKSplits
<1>2. TablesTyped'
  <2>1. PICK key \in {c, r}, complete \in BOOLEAN :
           StoreEvaluation(key, r, None, complete)
    BY ClientStores
  <2>2. key \in RunIds \cup Clients /\ TablesTyped
    BY <1>1 DEF FieldTypes
  <2>. QED
    BY <2>1, <2>2, StoreFacts
<1>3. FieldTypes'
  BY <1>1, <1>2 DEF FieldTypes, EvaluateByClient
<1>4. \A g \in Creates : OwnType(g)'
  BY <1>1 DEF EvaluateByClient, OwnType, ScenarioIds, Scenario, RunId
<1>. QED
  BY <1>3, <1>4 DEF TypeOK, FieldTypes, TablesTyped, OwnType, Under

\* Every step keeps the types.
LEMMA NextTypeOK == TypeOK /\ [Next]_vars => TypeOK'
<1>. SUFFICES ASSUME TypeOK, [Next]_vars PROVE TypeOK'
  OBVIOUS
<1>1. ASSUME NEW g \in Creates, Request(g) \/ Execute(g) \/ Fail(g)
      PROVE  TypeOK'
  <2>1. FieldTypes' /\ OwnType(g)'
    BY <1>1, RequestTypes, TaskTypes, RepetitionTypes, FaultTypes DEF Execute
  <2>2. \A h \in Creates \ {g} : OwnType(h)'
    BY <1>1, StepsAreLocal, OwnTypeStays
  <2>3. TypeOK' <=> FieldTypes' /\ \A h \in Creates : OwnType(h)'
    BY DEF TypeOK, FieldTypes, TablesTyped, OwnType, Under
  <2>. QED
    BY <2>1, <2>2, <2>3
<1>2. ASSUME NEW c \in Clients, NEW r \in RunIds, EvaluateByClient(c, r) PROVE TypeOK'
  BY <1>2, ClientTypes
<1>3. CASE UNCHANGED vars
  BY <1>3 DEF vars, tables, memory, TypeOK, ScenarioIds, Scenario, RunId
<1>. QED
  BY <1>1, <1>2, <1>3 DEF Next, Idle

\* The types hold initially.
LEMMA InitTypeOK == Init => TypeOK
BY NoneIsNoRow DEF Init, TypeOK, FirstPosition, Requesting, Running, Repeating, Ends

-----------------------------------------------------------------------------
(* The invariant is preserved.                                             *)

\* The status of a regression moves with its task.
LEMMA StatusStep ==
    ASSUME TypeOK, NEW g \in Creates, StatusInv(g),
           Request(g) \/ Execute(g) \/ Fail(g)
    PROVE  StatusInv(g)'
<1>. USE DEF StatusInv, Running, Repeating, Requesting, Goto
<1>1. /\ regression_runs \in [Creates -> RegressionRun \cup {None}]
      /\ pc \in [Creates -> {"unsent"} \cup Requesting \cup Running \cup Ends]
      /\ \A row \in RegressionRun : row # None /\ row.status \in
            {"pending", "running", "completed", "failed"}
  BY NoneIsNoRow DEF TypeOK, RegressionRun
<1>2. CASE Request(g)
  <2>1. CASE CheckBaseline(g)
    BY <1>1, <2>1 DEF CheckBaseline, tables
  <2>2. CASE CreateRegression(g)
    <3>1. selection[g] \in Bodies
      BY <2>2 DEF CreateRegression, TypeOK
    <3>2. [selection |-> selection[g], status |-> "pending"] # None
      BY <3>1, NoneIsNoRow DEF RegressionRun
    <3>. QED
      BY <1>1, <2>2, <3>2 DEF CreateRegression
  <2>3. CASE CreateConflicts(g) \/ Accept(g)
    BY <1>1, <2>3 DEF CreateConflicts, Accept, tables
  <2>. QED
    BY <1>2, <2>1, <2>2, <2>3 DEF Request
<1>3. CASE MarkRunning(g) \/ FailRegression(g) \/ MarkCompleted(g)
  <2>1. /\ regression_runs[g] \in RegressionRun
        /\ pc[g] \in {"queued", "violated", "finish"}
    BY <1>1, <1>3 DEF MarkRunning, FailRegression, MarkCompleted
  <2>2. \A status \in {"running", "completed", "failed"} :
            [regression_runs[g] EXCEPT !.status = status] \in RegressionRun
    BY <2>1 DEF RegressionRun
  <2>3. CASE MarkRunning(g)
    BY <1>1, <2>1, <2>2, <2>3 DEF MarkRunning, SetStatus, RegressionRun
  <2>4. CASE FailRegression(g)
    BY <1>1, <2>1, <2>2, <2>4 DEF FailRegression, SetStatus, RegressionRun
  <2>5. CASE MarkCompleted(g)
    BY <1>1, <2>1, <2>2, <2>5 DEF MarkCompleted, SetStatus, RegressionRun
  <2>. QED
    BY <1>3, <2>3, <2>4, <2>5
<1>4. CASE LoadContract(g)
  BY <1>1, <1>4 DEF LoadContract, tables
<1>5. CASE Recover(g)
  <2>1. pc' = [pc EXCEPT ![g] = pc'[g]] /\ pc'[g] \in {"dispatch", "load", "finish"}
    BY <1>5, ContinueFacts DEF Recover, Continue, TypeOK
  <2>. QED
    BY <1>5, <2>1 DEF Recover, tables
<1>6. CASE RunOne(g)
  <2>1. /\ pc[g] \in Repeating
        /\ pc'[g] \in {"ingest", "link", "gate", "violated", "resume", "evaluate",
                      "recover", "dispatch", "load", "finish"}
        /\ regression_runs' = regression_runs
    <3>1. CASE Evaluate(g)
      BY <3>1, ContinueFacts DEF Evaluate
    <3>. QED
      BY <1>1, <1>6, <3>1 DEF RunOne, Dispatch, Answers, IngestEvent, IngestRaises, Link,
         LinkConflicts, AfterLinkage, PassGate, RefuseGate, Resume, EvaluateConflicts, tables
  <2>. QED
    BY <2>1
<1>7. CASE Fail(g)
  <2>1. /\ regression_runs' = regression_runs
        /\ \/ pc[g] \in Requesting /\ pc'[g] = "failed"
           \/ pc[g] \in Repeating /\ pc'[g] = "recover"
           \/ pc[g] \in Running /\ pc'[g] = "dead"
    BY <1>1, <1>7 DEF Fail, RequestFails, RepetitionFails, TaskDies, tables
  <2>. QED
    BY <2>1
<1>. QED
  BY <1>2, <1>3, <1>4, <1>5, <1>6, <1>7 DEF Execute

\* The row of the repetition under way and the gate.
LEMMA GateStep ==
    ASSUME TypeOK, NEW g \in Creates, GateInv(g),
           Request(g) \/ Execute(g) \/ Fail(g)
    PROVE  GateInv(g)'
<1>. USE DEF Running, Repeating, Requesting, Goto
<1>. DEFINE Row == agent_runs[RunId(g)]
            SameRun == /\ selection' = selection /\ position' = position
                       /\ RunId(g)' = RunId(g)
            SameRow == SameRun /\ agent_runs' = agent_runs
\* The places at which GateInv says nothing but that nothing is resumed.
            Fresh == {"unsent", "queued", "load", "dispatch"} \cup Requesting
            Silent == {"link", "recover", "finish"} \cup (Ends \ {"gate_violation"})
<1>1. /\ pc \in [Creates -> {"unsent"} \cup Requesting \cup Running \cup Ends]
      /\ resumed \in [Creates -> BOOLEAN]
  BY DEF TypeOK
<1>2. ASSUME selection' = selection, position' = position PROVE SameRun
  BY <1>2 DEF RunId, Scenario, ScenarioIds
<1>3. ASSUME pc'[g] \in Silent \/ (pc'[g] \in Fresh /\ ~resumed'[g])
      PROVE  GateInv(g)'
  BY <1>3 DEF GateInv, AtGate, Stopped, Ends
<1>4. CASE Request(g)
  BY <1>1, <1>3, <1>4 DEF GateInv, Request, CheckBaseline, CreateRegression,
     CreateConflicts, Accept, memory, Ends
<1>5. CASE MarkRunning(g) \/ LoadContract(g) \/ MarkCompleted(g)
  BY <1>1, <1>3, <1>5 DEF GateInv, MarkRunning, LoadContract, MarkCompleted, memory, Ends
<1>6. CASE Recover(g) \/ Evaluate(g)
  <2>1. pc'[g] \in {"dispatch", "load", "finish"}
    BY <1>6, ContinueFacts DEF Recover, Evaluate
  <2>2. ~resumed'[g]
    BY <1>1, <1>6 DEF Recover, Evaluate, Continue
  <2>. QED
    BY <1>3, <2>1, <2>2
<1>7. CASE FailRegression(g)
  <2>1. SameRow /\ pc[g] = "violated" /\ pc'[g] = "gate_violation"
    BY <1>1, <1>2, <1>7 DEF FailRegression
  <2>. QED
    BY <2>1 DEF GateInv, AtGate, Stopped, Stored, GateHeld, Slot
<1>8. CASE Dispatch(g)
  BY <1>1, <1>3, <1>8 DEF GateInv, Dispatch, Answers, AtGate, Stopped
<1>9. CASE IngestEvent(g) \/ IngestRaises(g) \/ LinkConflicts(g) \/ EvaluateConflicts(g)
  BY <1>1, <1>3, <1>9 DEF IngestEvent, IngestRaises, LinkConflicts, EvaluateConflicts, Ends
<1>10. CASE Link(g)
  <2>1. /\ RunId(g) \in RunIds
        /\ LinkedRow(g) \in AgentRun
        /\ Slot(LinkedRow(g)) = RunId(g)
    BY <1>10, RunIdFacts, LinkedRowType DEF Link, TypeOK, Under
  <2>2. SameRun /\ agent_runs'[RunId(g)] = LinkedRow(g)
    BY <1>2, <1>10, <2>1 DEF Link, TypeOK
  <2>3. pc'[g] \in {"gate", "evaluate"}
    BY <1>1, <1>10 DEF Link, AfterLinkage
  <2>4. Stored(g)'
    BY <2>1, <2>2, NoneIsNoRow DEF Stored, Slot
  <2>. QED
    BY <2>3, <2>4 DEF GateInv, AtGate, Stopped
<1>11. CASE PassGate(g)
  <2>1. /\ SameRow /\ pc[g] = "gate" /\ pc'[g] = "resume"
        /\ GateHeld(Row)
    BY <1>1, <1>2, <1>11 DEF PassGate, tables
  <2>2. (Stored(g) /\ GateHeld(Row))'
    BY <2>1 DEF GateInv, Stored, GateHeld, Slot
  <2>. QED
    BY <2>1, <2>2 DEF GateInv, AtGate, Stopped
<1>12. CASE RefuseGate(g)
  <2>1. /\ SameRow /\ pc[g] = "gate" /\ pc'[g] = "violated"
        /\ ~GateHeld(Row)
    BY <1>1, <1>2, <1>12 DEF RefuseGate, tables, memory
  <2>2. (Stored(g) /\ ~GateHeld(Row))'
    BY <2>1 DEF GateInv, Stored, GateHeld, Slot
  <2>. QED
    BY <2>1, <2>2 DEF GateInv, AtGate, Stopped
<1>13. CASE Resume(g)
  <2>1. /\ SameRow /\ pc[g] = "resume" /\ pc'[g] \in {"ingest", "recover"}
    BY <1>1, <1>2, <1>13 DEF Resume, Answers, tables
  <2>2. (Stored(g) /\ GateHeld(Row))'
    BY <2>1 DEF GateInv, AtGate, Stored, GateHeld, Slot
  <2>. QED
    BY <2>1, <2>2 DEF GateInv, AtGate, Stopped
<1>14. CASE Fail(g)
  BY <1>1, <1>3, <1>14 DEF Fail, RequestFails, RepetitionFails, TaskDies, Ends
<1>. QED
  BY <1>4, <1>5, <1>6, <1>7, <1>8, <1>9, <1>10, <1>11, <1>12, <1>13, <1>14
     DEF Execute, RunOne

\* A step of another regression does not get there.
LEMMA OthersStand ==
    ASSUME TypeOK, NEW g \in Creates, NEW h \in Creates \ {g}, OnlyOwn(g),
           StatusInv(h), GateInv(h)
    PROVE  StatusInv(h)' /\ GateInv(h)'
<1>1. /\ regression_runs'[h] = regression_runs[h]
      /\ pc'[h] = pc[h]
      /\ selection'[h] = selection[h]
      /\ position'[h] = position[h]
      /\ resumed'[h] = resumed[h]
  BY DEF OnlyOwn
<1>2. RunId(h)' = RunId(h)
  BY <1>1 DEF RunId, Scenario, ScenarioIds
<1>3. StatusInv(h)'
  BY <1>1 DEF StatusInv
<1>4. pc[h] \in Under => agent_runs'[RunId(h)] = agent_runs[RunId(h)]
  BY RunIdFacts DEF OnlyOwn
<1>5. pc[h] \in {"gate", "evaluate"} \/ AtGate(h) \/ Stopped(h) => pc[h] \in Under
  BY DEF AtGate, Stopped, Under, Running, Repeating
<1>6. /\ AtGate(h)' <=> AtGate(h)
      /\ Stopped(h)' <=> Stopped(h)
  BY <1>1 DEF AtGate, Stopped
<1>7. pc[h] \in Under => /\ Stored(h)' <=> Stored(h)
                         /\ GateHeld(agent_runs[RunId(h)])' <=> GateHeld(agent_runs[RunId(h)])
  BY <1>2, <1>4 DEF Stored, GateHeld, Slot
<1>. QED
  BY <1>1, <1>3, <1>5, <1>6, <1>7 DEF GateInv

\* Every step keeps the invariant.
LEMMA NextIInv == IInv /\ [Next]_vars => IInv'
<1>. SUFFICES ASSUME IInv, [Next]_vars PROVE IInv'
  OBVIOUS
<1>1. TypeOK'
  BY NextTypeOK DEF IInv
<1>2. ASSUME NEW g \in Creates, Request(g) \/ Execute(g) \/ Fail(g),
             NEW h \in Creates
      PROVE  StatusInv(h)' /\ GateInv(h)'
  <2>1. CASE h = g
    BY <1>2, <2>1, StatusStep, GateStep DEF IInv
  <2>2. CASE h # g
    BY <1>2, <2>2, StepsAreLocal, OthersStand DEF IInv
  <2>. QED
    BY <2>1, <2>2
<1>3. ASSUME NEW h \in Creates,
             UNCHANGED <<regression_runs, agent_runs, pc, memory>>
      PROVE  StatusInv(h)' /\ GateInv(h)'
  BY <1>3 DEF IInv, StatusInv, GateInv, AtGate, Stopped, Stored, GateHeld, Slot, memory,
     RunId, Scenario, ScenarioIds
<1>4. \/ \E g \in Creates : Request(g) \/ Execute(g) \/ Fail(g)
      \/ UNCHANGED <<regression_runs, agent_runs, pc, memory>>
  BY DEF Next, EvaluateByClient, Idle, vars, tables
<1>. QED
  BY <1>1, <1>2, <1>3, <1>4 DEF IInv

\* The invariant holds initially.
LEMMA InitIInv == Init => IInv
BY InitTypeOK DEF IInv, StatusInv, GateInv, Init, AtGate, Stopped, Running, Repeating,
   Requesting

\* The invariant holds in every reachable state.
LEMMA Invariance == Spec => []IInv
BY InitIInv, NextIInv, PTL DEF Spec

\* Every variable keeps its type, the position of a task included: it never
\* runs off the list of scenarios (RegressionRunner.run).
THEOREM TypeCorrect == Spec => []TypeOK
<1>1. IInv => TypeOK
  BY DEF IInv
<1>. QED
  BY <1>1, Invariance, PTL

\* Whatever the agent answers, what is resumed is what the gate has seen
\* (_assert_hitl_gate_held).
THEOREM GateStands == Spec => []GateHeldAtResume
<1>1. IInv => GateHeldAtResume
  BY DEF IInv, GateInv, GateHeldAtResume, AtGate, Stored, GateHeld
<1>. QED
  BY <1>1, Invariance, PTL

\* A regression is failed by a violated gate and by nothing else
\* (RegressionRunner.run).
THEOREM FailureIsTheGates == Spec => []FailedMeansViolation
<1>1. IInv => FailedMeansViolation
  <2>. SUFFICES ASSUME IInv, NEW g \in Creates, regression_runs[g] # None,
                       regression_runs[g].status = "failed"
                PROVE  LET row == agent_runs[RunId(g)]
                       IN /\ row # None /\ Slot(row) = RunId(g)
                          /\ row.hitl_state # "pending" \/ ~row.hitl_checkpoint_id
                             \/ row.submitted
    BY DEF FailedMeansViolation
  <2>1. StatusInv(g) /\ GateInv(g)
    BY DEF IInv
  <2>. QED
    BY <2>1 DEF StatusInv, GateInv, Stopped, Stored, GateHeld
<1>. QED
  BY <1>1, Invariance, PTL

-----------------------------------------------------------------------------
(* Regression implements RegressionLifecycle.                              *)

\* Every step is one step of the life cycle of one regression, or none.
LEMMA LifecycleStep ==
    IInv /\ [Next]_vars => [Lifecycle!Next]_regression_runs
<1>. SUFFICES ASSUME IInv, [Next]_vars
              PROVE  Lifecycle!Next \/ UNCHANGED regression_runs
  OBVIOUS
<1>. USE DEF Running, Repeating
<1>1. ASSUME NEW g \in Creates, CreateRegression(g) PROVE Lifecycle!Create(g)
  <2>1. regression_runs[g] = None /\ selection[g] \in Bodies
    BY <1>1 DEF IInv, StatusInv, TypeOK, CreateRegression
  <2>2. selection[g].is_baseline => ~Lifecycle!BaselineExists
    BY <1>1 DEF CreateRegression, ViolatesIndex, BaselineExists,
       Lifecycle!BaselineExists, Lifecycle!Rows
  <2>. QED
    BY <1>1, <2>1, <2>2 DEF CreateRegression, Lifecycle!Create
<1>2. ASSUME NEW g \in Creates, MarkRunning(g) PROVE Lifecycle!Start(g)
  BY <1>2 DEF IInv, StatusInv, MarkRunning, SetStatus, Lifecycle!Start,
     Lifecycle!Move, Lifecycle!Rows
<1>3. ASSUME NEW g \in Creates, MarkCompleted(g) \/ FailRegression(g)
      PROVE  Lifecycle!End(g)
  BY <1>3 DEF IInv, StatusInv, MarkCompleted, FailRegression, SetStatus,
     Lifecycle!End, Lifecycle!Move, Lifecycle!Rows
<1>4. ASSUME NEW g \in Creates,
             \/ CheckBaseline(g) \/ CreateConflicts(g) \/ Accept(g)
             \/ LoadContract(g) \/ RunOne(g) \/ Recover(g) \/ Fail(g)
      PROVE  UNCHANGED regression_runs
  BY <1>4 DEF CheckBaseline, CreateConflicts, Accept, LoadContract, RunOne, Dispatch,
     IngestEvent, IngestRaises, Link, LinkConflicts, PassGate, RefuseGate, Resume,
     Evaluate, EvaluateConflicts, Recover, Fail, RequestFails, RepetitionFails,
     TaskDies, tables
<1>5. ASSUME NEW c \in Clients, NEW r \in RunIds, EvaluateByClient(c, r)
      PROVE  UNCHANGED regression_runs
  BY <1>5 DEF EvaluateByClient
<1>6. CASE UNCHANGED vars
  BY <1>6 DEF vars, tables
<1>. QED
  BY <1>1, <1>2, <1>3, <1>4, <1>5, <1>6
     DEF Next, Request, Execute, Idle, Lifecycle!Next

\* Requests and tasks together do to regression_runs what RegressionLifecycle
\* allows and nothing else: one baseline, frozen configurations, and an end
\* that is never taken back (create_regression, RegressionRunner.run).
THEOREM RefinesLifecycle == Spec => ImplementsLifecycle
<1>1. Init => Lifecycle!Init
  BY DEF Init, Lifecycle!Init
<1>. QED
  BY <1>1, LifecycleStep, Invariance, PTL DEF Spec, ImplementsLifecycle, Lifecycle!Spec

-----------------------------------------------------------------------------
(* What is counted is evaluated.                                           *)

\* What is asked of the agent: once approved it does not answer with another
\* pending snapshot.  The runner takes its word for it.
ApprovalIsFinal ==
    \A s \in Contracts : \A e \in Approved[s] : e.hitl_state # "pending"

\* An approved snapshot stays the last one until the evaluation.
DecidedInv(g) ==
    /\ pc[g] = "ingest" /\ resumed[g] => event[g].hitl_state # "pending"
    /\ pc[g] = "link" /\ resumed[g] =>
          agent_runs[RunId(g)].hitl_state # "pending"
    /\ pc[g] = "evaluate" /\ Scenario(g) \in HITLScenarios =>
          agent_runs[RunId(g)].hitl_state # "pending"

\* The loops have passed the run: its scenario comes before the one under
\* way or is that one, at an earlier repetition.
Behind(g, r) ==
    \E i \in DOMAIN ScenarioIds(g) :
        /\ r[1] = g /\ r[2] = ScenarioIds(g)[i]
        /\ \/ i < position[g].scenario
           \/ i = position[g].scenario /\ r[3] < position[g].repetition

EvaluatedAsStored(r) ==
    /\ evaluation_results[r] # None /\ run_failures[r] # None
    /\ evaluation_results[r].complete
    /\ evaluation_results[r].hitl_state = agent_runs[r].hitl_state

Counted(g) ==
    IsInjective(ScenarioIds(g)) =>
        \A r \in created_run_ids[g] :
            /\ agent_runs[r] # None
            /\ Slot(agent_runs[r]) = r
            /\ EvaluatedAsStored(r)
            /\ r[2] \in HITLScenarios => agent_runs[r].hitl_state # "pending"

DoneInv(g) ==
    /\ pc[g] = "unsent" => created_run_ids[g] = {}
    /\ \A r \in created_run_ids[g] : Behind(g, r)
    /\ Counted(g)

\* Requests, and tasks that do not evaluate, leave the evaluations alone.
LEMMA StoresNothing ==
    ASSUME NEW g \in Creates,
           \/ Request(g)
           \/ Execute(g) /\ ~Evaluate(g)
           \/ Fail(g) /\ ~(\E complete \in BOOLEAN : EvaluateRun(g, complete))
    PROVE  evaluation_results' = evaluation_results /\ run_failures' = run_failures
<1>. USE DEF tables
<1>1. CASE Request(g)
  BY <1>1 DEF Request, CheckBaseline, CreateRegression, CreateConflicts, Accept
<1>2. CASE Execute(g) /\ ~Evaluate(g)
  BY <1>2 DEF Execute, MarkRunning, LoadContract, Recover, FailRegression, MarkCompleted,
     RunOne, Dispatch, IngestEvent, IngestRaises, Link, LinkConflicts, PassGate,
     RefuseGate, Resume, EvaluateConflicts
<1>3. CASE Fail(g) /\ ~(\E complete \in BOOLEAN : EvaluateRun(g, complete))
  BY <1>3 DEF Fail, RequestFails, RepetitionFails, TaskDies
<1>. QED
  BY <1>1, <1>2, <1>3

\* Every step stores one evaluation or none.
LEMMA StepStores ==
    ASSUME TypeOK, [Next]_vars
    PROVE  /\ TablesTyped
           /\ \/ evaluation_results' = evaluation_results /\ run_failures' = run_failures
              \/ \E r \in RunIds : \E key \in {r} \cup Clients,
                    seen \in HITLState \cup {None}, complete \in BOOLEAN :
                       StoreEvaluation(key, r, seen, complete)
<1>1. TablesTyped
  BY DEF TypeOK, TablesTyped
<1>2. ASSUME NEW g \in Creates, NEW complete \in BOOLEAN, pc[g] = "evaluate",
             EvaluateRun(g, complete)
      PROVE  \E r \in RunIds : \E key \in {r} \cup Clients,
                seen \in HITLState \cup {None}, x \in BOOLEAN :
                   StoreEvaluation(key, r, seen, x)
  BY <1>2, RunnerStores DEF EvaluateRun
<1>3. ASSUME NEW g \in Creates, Request(g) \/ Execute(g) \/ Fail(g)
      PROVE  \/ evaluation_results' = evaluation_results /\ run_failures' = run_failures
             \/ \E complete \in BOOLEAN : pc[g] = "evaluate" /\ EvaluateRun(g, complete)
  <2>1. CASE Evaluate(g)
    BY <2>1 DEF Evaluate
  <2>2. CASE RepetitionFails(g)
    BY <2>2 DEF RepetitionFails, tables
  <2>3. CASE Request(g) \/ (Execute(g) /\ ~Evaluate(g)) \/ RequestFails(g) \/ TaskDies(g)
    BY <2>3, StoresNothing DEF RequestFails, TaskDies, tables
  <2>. QED
    BY <1>3, <2>1, <2>2, <2>3 DEF Fail
<1>4. ASSUME NEW c \in Clients, NEW r \in RunIds, EvaluateByClient(c, r)
      PROVE  \E key \in {r} \cup Clients, seen \in HITLState \cup {None},
                complete \in BOOLEAN : StoreEvaluation(key, r, seen, complete)
  BY <1>4, ClientStores
<1>5. CASE UNCHANGED vars
  BY <1>1, <1>5 DEF vars, tables
<1>. QED
  BY <1>1, <1>2, <1>3, <1>4, <1>5 DEF Next, Idle

\* An evaluation once stored stays as it is, and a run once classified stays
\* classified.
LEMMA EvaluationsStay ==
    ASSUME TypeOK, [Next]_vars
    PROVE  /\ \A x \in RunIds \cup Clients : evaluation_results[x] # None =>
                 evaluation_results'[x] = evaluation_results[x]
           /\ \A r \in RunIds : run_failures[r] # None => run_failures'[r] # None
<1>1. ASSUME NEW r \in RunIds, NEW key \in {r} \cup Clients,
             NEW seen \in HITLState \cup {None}, NEW complete \in BOOLEAN,
             StoreEvaluation(key, r, seen, complete)
      PROVE  /\ \A x \in RunIds \cup Clients : evaluation_results[x] # None =>
                   evaluation_results'[x] = evaluation_results[x]
             /\ \A q \in RunIds : run_failures[q] # None => run_failures'[q] # None
  BY <1>1, StepStores, StoreFacts
<1>. QED
  BY <1>1, StepStores

\* An agent that means its approval makes the evaluation see it.
LEMMA DecidedStep ==
    ASSUME ApprovalIsFinal, TypeOK, NEW g \in Creates, GateInv(g), DecidedInv(g),
           Request(g) \/ Execute(g) \/ Fail(g)
    PROVE  DecidedInv(g)'
<1>. USE DEF Running, Repeating, Requesting, Goto
<1>1. /\ pc \in [Creates -> {"unsent"} \cup Requesting \cup Running \cup Ends]
      /\ resumed \in [Creates -> BOOLEAN]
      /\ event \in [Creates -> Event \cup {None}]
  BY DEF TypeOK
<1>2. ASSUME pc'[g] \notin {"ingest", "link", "evaluate"} PROVE DecidedInv(g)'
  BY <1>2 DEF DecidedInv
<1>3. CASE Request(g) \/ Fail(g)
  BY <1>1, <1>2, <1>3 DEF Request, CheckBaseline, CreateRegression, CreateConflicts,
     Accept, Fail, RequestFails, RepetitionFails, TaskDies
<1>4. CASE \/ MarkRunning(g) \/ LoadContract(g) \/ FailRegression(g) \/ MarkCompleted(g)
           \/ IngestRaises(g) \/ LinkConflicts(g) \/ PassGate(g) \/ RefuseGate(g)
           \/ EvaluateConflicts(g)
  BY <1>1, <1>2, <1>4 DEF MarkRunning, LoadContract, FailRegression, MarkCompleted,
     IngestRaises, LinkConflicts, PassGate, RefuseGate, EvaluateConflicts
<1>5. CASE Recover(g) \/ Evaluate(g)
  BY <1>2, <1>5, ContinueFacts DEF Recover, Evaluate
<1>6. CASE Dispatch(g)
  <2>1. ~resumed'[g] /\ pc'[g] \in {"ingest", "recover"}
    BY <1>1, <1>6 DEF Dispatch, Answers, GateInv
  <2>. QED
    BY <2>1 DEF DecidedInv
<1>7. CASE Resume(g)
  <2>1. pc'[g] \in {"ingest", "recover"}
    BY <1>1, <1>7 DEF Resume, Answers
  <2>2. pc'[g] = "ingest" => event'[g] \in Approved[Scenario(g)]
    BY <1>1, <1>7 DEF Resume, Answers
  <2>3. Scenario(g) \in Contracts
    BY <1>7 DEF Resume, TypeOK
  <2>. QED
    BY <2>1, <2>2, <2>3 DEF DecidedInv, ApprovalIsFinal
<1>8. CASE IngestEvent(g)
  <2>1. RunId(g) \in RunIds /\ RunId(g)' = RunId(g)
    BY <1>8, RunIdFacts DEF IngestEvent, Under, memory, RunId, Scenario, ScenarioIds
  <2>2. /\ pc[g] = "ingest" /\ pc'[g] = "link"
        /\ resumed'[g] = resumed[g]
        /\ agent_runs'[RunId(g)] = IngestedRow(agent_runs[RunId(g)], event[g])
    BY <1>1, <1>8, <2>1 DEF IngestEvent, memory, TypeOK
  <2>3. agent_runs'[RunId(g)].hitl_state = event[g].hitl_state
    BY <2>2 DEF IngestedRow
  <2>. QED
    BY <2>1, <2>2, <2>3 DEF DecidedInv
<1>9. CASE Link(g)
  <2>1. /\ RunId(g) \in RunIds
        /\ RunId(g)' = RunId(g) /\ Scenario(g)' = Scenario(g)
        /\ LinkedRow(g).hitl_state = agent_runs[RunId(g)].hitl_state
    BY <1>9, RunIdFacts, LinkedRowType
       DEF Link, Under, RunId, Scenario, ScenarioIds, TypeOK
  <2>2. /\ pc[g] = "link" /\ agent_runs'[RunId(g)] = LinkedRow(g)
        /\ pc'[g] \in {"gate", "evaluate"}
        /\ pc'[g] = "evaluate" => Scenario(g) \notin HITLScenarios \/ resumed[g]
    BY <1>1, <1>9, <2>1 DEF Link, AfterLinkage, TypeOK
  <2>. QED
    BY <2>1, <2>2 DEF DecidedInv
<1>. QED
  BY <1>3, <1>4, <1>5, <1>6, <1>7, <1>8, <1>9 DEF Execute, RunOne

\* In a list without repetitions the run under way is a new one.
LEMMA UnderWayIsNew ==
    ASSUME TypeOK, NEW g \in Creates, pc[g] \in Under, IsInjective(ScenarioIds(g)),
           NEW r, Behind(g, r)
    PROVE  r # RunId(g)
<1>1. /\ position[g].scenario \in DOMAIN ScenarioIds(g)
      /\ position[g].scenario \in Nat
      /\ position[g].repetition \in Nat
  BY DEF TypeOK, Under
<1>2. PICK i \in DOMAIN ScenarioIds(g) :
        /\ r[1] = g /\ r[2] = ScenarioIds(g)[i]
        /\ \/ i < position[g].scenario
           \/ i = position[g].scenario /\ r[3] < position[g].repetition
  BY DEF Behind
<1>3. i \in Nat
  <2>1. ScenarioIds(g) \in Seq(STRING)
    <3>1. selection[g] \in Bodies
      BY DEF TypeOK, Under, Running, Repeating
    <3>. QED
      BY <3>1, RowFacts DEF ScenarioIds
  <2>. QED
    BY <1>2, <2>1
<1>4. SUFFICES ASSUME r = RunId(g) PROVE FALSE
  OBVIOUS
<1>5. ScenarioIds(g)[i] = ScenarioIds(g)[position[g].scenario]
      /\ r[3] = position[g].repetition
  BY <1>2, <1>4 DEF RunId, Scenario
<1>6. i = position[g].scenario
  BY <1>1, <1>2, <1>5 DEF IsInjective
<1>. QED
  BY <1>1, <1>2, <1>3, <1>5, <1>6

\* What is behind stays behind, and what was under way gets there.
LEMMA BehindGoesOn ==
    ASSUME TypeOK, NEW g \in Creates, pc[g] \in {"recover", "evaluate"}, Continue(g),
           selection' = selection, NEW r \in RunIds, Behind(g, r) \/ r = RunId(g)
    PROVE  Behind(g, r)'
<1>. DEFINE p == position[g]
            q == position'[g]
<1>1. /\ p.scenario \in DOMAIN ScenarioIds(g) /\ p.scenario \in Nat
      /\ p.repetition \in Nat
      /\ selection[g] \in Bodies
  BY DEF TypeOK, Under, Running, Repeating
<1>2. ScenarioIds(g) \in Seq(STRING) /\ ScenarioIds(g)' = ScenarioIds(g)
  BY <1>1, RowFacts DEF ScenarioIds
<1>3. \/ q.scenario = p.scenario /\ q.repetition = p.repetition + 1
      \/ q.scenario = p.scenario + 1
  BY ContinueFacts
<1>4. CASE Behind(g, r)
  <2>1. PICK i \in DOMAIN ScenarioIds(g) :
          /\ r[1] = g /\ r[2] = ScenarioIds(g)[i]
          /\ \/ i < p.scenario
             \/ i = p.scenario /\ r[3] < p.repetition
    BY <1>4 DEF Behind
  <2>2. i \in Nat
    BY <1>2, <2>1
  <2>3. \/ i < q.scenario
        \/ i = q.scenario /\ r[3] < q.repetition
    <3>1. CASE i < p.scenario
      BY <1>1, <1>3, <2>2, <3>1
    <3>2. CASE i = p.scenario /\ r[3] < p.repetition
      <4>1. r[3] \in Nat
        BY DEF RunIds, Repetitions
      <4>. QED
        BY <1>1, <1>3, <2>2, <3>2, <4>1
    <3>. QED
      BY <2>1, <3>1, <3>2
  <2>. QED
    BY <1>2, <2>1, <2>3 DEF Behind
<1>5. CASE r = RunId(g)
  <2>1. /\ r[1] = g /\ r[2] = ScenarioIds(g)[p.scenario]
        /\ r[3] = p.repetition
    BY <1>5 DEF RunId, Scenario
  <2>2. \/ p.scenario < q.scenario
        \/ p.scenario = q.scenario /\ r[3] < q.repetition
    BY <1>1, <1>3, <2>1
  <2>. QED
    BY <1>1, <1>2, <2>1, <2>2 DEF Behind
<1>. QED
  BY <1>4, <1>5

\* A task rewrites the run under way only.
LEMMA OnlyUnderWay ==
    ASSUME TypeOK, NEW g \in Creates, Request(g) \/ Execute(g) \/ Fail(g),
           NEW r \in RunIds, pc[g] \in Under => r # RunId(g)
    PROVE  agent_runs'[r] = agent_runs[r]
<1>. USE DEF Under, Running, Repeating, tables, TypeOK
<1>1. CASE IngestEvent(g) \/ Link(g)
  BY <1>1 DEF IngestEvent, Link
<1>2. CASE RepetitionFails(g)
  <2>. HIDE DEF TypeOK
  <2>1. agent_runs \in [RunIds -> AgentRun \cup {None}]
    BY DEF TypeOK
  <2>. QED
    BY <1>2, <2>1 DEF RepetitionFails
<1>3. CASE \/ Request(g) \/ RequestFails(g) \/ TaskDies(g)
           \/ MarkRunning(g) \/ LoadContract(g) \/ FailRegression(g)
           \/ MarkCompleted(g) \/ Recover(g) \/ Dispatch(g) \/ Resume(g)
           \/ IngestRaises(g) \/ LinkConflicts(g) \/ PassGate(g)
           \/ RefuseGate(g) \/ Evaluate(g) \/ EvaluateConflicts(g)
  BY <1>3 DEF Request, CheckBaseline, CreateRegression, CreateConflicts, Accept,
     RequestFails, TaskDies, MarkRunning, LoadContract, FailRegression, MarkCompleted,
     Recover, Dispatch, Resume, IngestRaises, LinkConflicts, PassGate, RefuseGate,
     Evaluate, EvaluateConflicts
<1>. QED
  BY <1>1, <1>2, <1>3 DEF Execute, RunOne, Fail

\* What a task has done so far changes with Evaluate only, and the position
\* and the body of a request with what follows Recover and Evaluate.
LEMMA BooksStay ==
    ASSUME TypeOK, NEW g \in Creates, Request(g) \/ Execute(g) \/ Fail(g)
    PROVE  /\ ~CheckBaseline(g) => selection' = selection
           /\ ~Evaluate(g) => created_run_ids' = created_run_ids
           /\ ~Evaluate(g) /\ ~Recover(g) => position' = position
BY DEF Request, CheckBaseline, CreateRegression, CreateConflicts, Accept,
   Fail, RequestFails, TaskDies, RepetitionFails, Execute, RunOne, MarkRunning,
   LoadContract, FailRegression, MarkCompleted, Recover, Dispatch, Resume,
   IngestEvent, IngestRaises, Link, LinkConflicts, PassGate, RefuseGate, Evaluate,
   EvaluateConflicts, memory

\* A call that has been sent stays sent.
LEMMA StartedStays ==
    ASSUME TypeOK, NEW g \in Creates, Request(g) \/ Execute(g) \/ Fail(g)
    PROVE  pc'[g] # "unsent"
<1>1. pc \in [Creates -> {"unsent"} \cup Requesting \cup Running \cup Ends]
  BY DEF TypeOK
<1>2. CASE Recover(g) \/ Evaluate(g)
  BY <1>2, ContinueFacts DEF Recover, Evaluate
<1>3. CASE ~(Recover(g) \/ Evaluate(g))
  BY <1>1, <1>3 DEF Request, CheckBaseline, CreateRegression, CreateConflicts, Accept,
     Fail, RequestFails, TaskDies, RepetitionFails, Execute, RunOne, MarkRunning,
     LoadContract, FailRegression, MarkCompleted, Dispatch, Resume, Answers,
     IngestEvent, IngestRaises, Link, LinkConflicts, AfterLinkage, PassGate, RefuseGate,
     EvaluateConflicts, Goto
<1>. QED
  BY <1>2, <1>3

\* The task's own steps keep what is counted evaluated.
LEMMA DoneStep ==
    ASSUME TypeOK, [Next]_vars, NEW g \in Creates, GateInv(g), DecidedInv(g), DoneInv(g),
           Request(g) \/ Execute(g) \/ Fail(g)
    PROVE  DoneInv(g)'
<1>1. pc'[g] # "unsent"
  BY StartedStays
<1>2. /\ created_run_ids \in [Creates -> SUBSET RunIds]
      /\ created_run_ids[g] \subseteq RunIds
  BY DEF TypeOK
<1>3. CASE CheckBaseline(g)
  <2>1. created_run_ids'[g] = {}
    BY <1>3 DEF CheckBaseline, DoneInv
  <2>. QED
    BY <1>1, <2>1 DEF DoneInv, Counted
<1>4. ASSUME selection' = selection, NEW r \in created_run_ids[g]
      PROVE  Behind(g, r)'
  <2>1. Behind(g, r) /\ r \in RunIds
    BY <1>2 DEF DoneInv
  <2>2. CASE Recover(g) \/ Evaluate(g)
    BY <1>4, <2>1, <2>2, BehindGoesOn DEF Recover, Evaluate
  <2>3. CASE ~(Recover(g) \/ Evaluate(g))
    BY <1>4, <2>1, <2>3, BooksStay DEF Behind, ScenarioIds
  <2>. QED
    BY <2>2, <2>3
<1>5. ASSUME selection' = selection, IsInjective(ScenarioIds(g)),
             NEW r \in created_run_ids[g]
      PROVE  /\ agent_runs'[r] # None
             /\ Slot(agent_runs'[r]) = r
             /\ EvaluatedAsStored(r)'
             /\ r[2] \in HITLScenarios => agent_runs'[r].hitl_state # "pending"
  <2>1. /\ r \in RunIds /\ Behind(g, r)
        /\ agent_runs[r] # None
        /\ Slot(agent_runs[r]) = r
        /\ EvaluatedAsStored(r)
        /\ r[2] \in HITLScenarios => agent_runs[r].hitl_state # "pending"
    BY <1>2, <1>5 DEF DoneInv, Counted
  <2>2. agent_runs'[r] = agent_runs[r]
    BY <1>5, <2>1, UnderWayIsNew, OnlyUnderWay
  <2>3. evaluation_results'[r] = evaluation_results[r] /\ run_failures'[r] # None
    BY <2>1, EvaluationsStay DEF EvaluatedAsStored
  <2>. QED
    BY <2>1, <2>2, <2>3 DEF EvaluatedAsStored
<1>6. ASSUME selection' = selection, created_run_ids' = created_run_ids
      PROVE  DoneInv(g)'
  <2>1. IsInjective(ScenarioIds(g))' <=> IsInjective(ScenarioIds(g))
    BY <1>6 DEF ScenarioIds
  <2>2. Counted(g)'
    BY <1>5, <1>6, <2>1 DEF Counted, Slot
  <2>. QED
    BY <1>1, <1>4, <1>6, <2>2 DEF DoneInv
<1>7. CASE Evaluate(g)
  <2>1. /\ selection' = selection /\ pc[g] = "evaluate" /\ Continue(g)
        /\ agent_runs' = agent_runs
        /\ created_run_ids'[g] = created_run_ids[g] \cup {RunId(g)}
    BY <1>2, <1>7 DEF Evaluate
  <2>2. /\ RunId(g) \in RunIds
        /\ RunId(g)[2] = Scenario(g)
    BY <2>1, RunIdFacts DEF Under, Running, Repeating
  <2>3. \A x \in {RunId(g)} : Behind(g, x)'
    BY <2>1, <2>2, BehindGoesOn
  <2>. DEFINE r == RunId(g)
  <2>4. /\ agent_runs[r] # None
        /\ Slot(agent_runs[r]) = r
        /\ r[2] \in HITLScenarios => agent_runs[r].hitl_state # "pending"
    BY <2>1, <2>2 DEF GateInv, Stored, DecidedInv
  <2>5. /\ evaluation_results'[r] # None /\ run_failures'[r] # None
        /\ evaluation_results'[r].complete
        /\ evaluation_results'[r].hitl_state = agent_runs[r].hitl_state
    BY <1>7, <2>1, RunnerStores, StoreFacts DEF Evaluate, EvaluateRun
  <2>. HIDE DEF r
  <2>6. \A x \in {r} : EvaluatedAsStored(x)'
    BY <2>1, <2>5 DEF EvaluatedAsStored
  <2>7. IsInjective(ScenarioIds(g))' <=> IsInjective(ScenarioIds(g))
    BY <2>1 DEF ScenarioIds
  <2>8. created_run_ids'[g] = created_run_ids[g] \cup {r}
    BY <2>1 DEF r
  <2>9. ASSUME IsInjective(ScenarioIds(g))', NEW x \in created_run_ids'[g]
        PROVE  /\ agent_runs'[x] # None
               /\ Slot(agent_runs'[x]) = x
               /\ EvaluatedAsStored(x)'
               /\ x[2] \in HITLScenarios => agent_runs'[x].hitl_state # "pending"
    <3>1. CASE x = r
      BY <2>1, <2>4, <2>6, <3>1
    <3>2. CASE x \in created_run_ids[g]
      BY <1>5, <2>1, <2>7, <2>9, <3>2
    <3>. QED
      BY <2>8, <2>9, <3>1, <3>2
  <2>10. Counted(g)'
    BY <2>9 DEF Counted, EvaluatedAsStored, Slot
  <2>11. \A x \in created_run_ids'[g] : Behind(g, x)'
    BY <1>4, <2>1, <2>3, <2>8 DEF r
  <2>. QED
    BY <1>1, <2>10, <2>11 DEF DoneInv
<1>8. CASE ~CheckBaseline(g) /\ ~Evaluate(g)
  BY <1>6, <1>8, BooksStay
<1>. QED
  BY <1>3, <1>7, <1>8

\* Neither the steps of other regressions nor the clients' evaluations
\* disturb what is counted.
LEMMA DoneStands ==
    ASSUME TypeOK, [Next]_vars, NEW h \in Creates, DoneInv(h), DecidedInv(h),
           /\ pc'[h] = pc[h]
           /\ selection'[h] = selection[h]
           /\ position'[h] = position[h]
           /\ resumed'[h] = resumed[h]
           /\ event'[h] = event[h]
           /\ created_run_ids'[h] = created_run_ids[h],
           \A r \in RunIds : r[1] = h => agent_runs'[r] = agent_runs[r]
    PROVE  DoneInv(h)' /\ DecidedInv(h)'
<1>1. /\ ScenarioIds(h)' = ScenarioIds(h)
      /\ Scenario(h)' = Scenario(h)
      /\ RunId(h)' = RunId(h)
  BY DEF RunId, Scenario, ScenarioIds
<1>2. pc[h] \in {"link", "evaluate"} => agent_runs'[RunId(h)] = agent_runs[RunId(h)]
  BY RunIdFacts DEF Under, Running, Repeating
<1>3. DecidedInv(h)'
  BY <1>1, <1>2 DEF DecidedInv
<1>4. created_run_ids[h] \subseteq RunIds
  BY DEF TypeOK
<1>5. \A r \in created_run_ids[h] : r[1] = h /\ Behind(h, r)'
  BY <1>1 DEF DoneInv, Behind
<1>6. ASSUME IsInjective(ScenarioIds(h)), NEW r \in created_run_ids[h]
      PROVE  /\ agent_runs'[r] # None
             /\ Slot(agent_runs'[r]) = r
             /\ EvaluatedAsStored(r)'
             /\ r[2] \in HITLScenarios => agent_runs'[r].hitl_state # "pending"
  <2>1. /\ agent_runs[r] # None
        /\ Slot(agent_runs[r]) = r
        /\ EvaluatedAsStored(r)
        /\ r[2] \in HITLScenarios => agent_runs[r].hitl_state # "pending"
    BY <1>6 DEF DoneInv, Counted
  <2>2. agent_runs'[r] = agent_runs[r]
    BY <1>4, <1>5, <1>6
  <2>3. evaluation_results'[r] = evaluation_results[r] /\ run_failures'[r] # None
    BY <1>4, <1>6, <2>1, EvaluationsStay DEF EvaluatedAsStored
  <2>. QED
    BY <2>1, <2>2, <2>3 DEF EvaluatedAsStored
<1>7. Counted(h)'
  <2>1. IsInjective(ScenarioIds(h))' <=> IsInjective(ScenarioIds(h))
    BY <1>1
  <2>. QED
    BY <1>6, <2>1 DEF Counted, EvaluatedAsStored, Slot
<1>. QED
  BY <1>3, <1>5, <1>7 DEF DoneInv

DInv == IInv /\ \A g \in Creates : DecidedInv(g) /\ DoneInv(g)

\* Every step keeps it, an approval once made included.
LEMMA NextDInv == ASSUME ApprovalIsFinal PROVE DInv /\ [Next]_vars => DInv'
<1>. SUFFICES ASSUME DInv, [Next]_vars PROVE DInv'
  OBVIOUS
<1>. USE DEF DInv
<1>1. IInv' /\ TypeOK
  BY NextIInv DEF IInv
<1>2. ASSUME NEW g \in Creates, Request(g) \/ Execute(g) \/ Fail(g),
             NEW h \in Creates
      PROVE  DecidedInv(h)' /\ DoneInv(h)'
  <2>1. CASE h = g
    BY <1>1, <1>2, <2>1, DecidedStep, DoneStep DEF IInv
  <2>2. CASE h # g
    <3>1. OnlyOwn(g)
      BY <1>1, <1>2, StepsAreLocal
    <3>2. \A r \in RunIds : r[1] = h => agent_runs'[r] = agent_runs[r]
      BY <2>2, <3>1 DEF OnlyOwn
    <3>. QED
      BY <1>1, <2>2, <3>1, <3>2, DoneStands DEF OnlyOwn
  <2>. QED
    BY <2>1, <2>2
<1>3. ASSUME NEW h \in Creates, UNCHANGED <<regression_runs, agent_runs, pc, memory>>
      PROVE  DecidedInv(h)' /\ DoneInv(h)'
  BY <1>1, <1>3, DoneStands DEF memory
<1>4. \/ \E g \in Creates : Request(g) \/ Execute(g) \/ Fail(g)
      \/ UNCHANGED <<regression_runs, agent_runs, pc, memory>>
  BY DEF Next, EvaluateByClient, Idle, vars, tables
<1>. QED
  BY <1>1, <1>2, <1>3, <1>4

\* Initially nothing is counted.
LEMMA InitDInv == Init => DInv
BY InitIInv DEF DInv, DecidedInv, DoneInv, Counted, Init

\* If the agent means its approvals, what a regression counts is linked to it
\* and evaluated for it in its final state, once and completely, whatever
\* clients evaluate meanwhile (_run_one, _run_one_hitl).
THEOREM CountedIsEvaluated ==
    ASSUME ApprovalIsFinal PROVE Spec => []CreatedMeansEvaluated
<1>1. DInv => CreatedMeansEvaluated
  BY DEF DInv, DoneInv, Counted, EvaluatedAsStored, CreatedMeansEvaluated
<1>. QED
  BY <1>1, InitDInv, NextDInv, PTL DEF Spec

-----------------------------------------------------------------------------
(* The inductive invariant of RegressionReport.                            *)

\* A run belongs to one regression, and once linked it is under its own
\* scenario and repetition, unless its approved snapshot waits for linkage or
\* the repetition failed before that.
RowInv(r) ==
    agent_runs[r] # None =>
        /\ r[2] \in Contracts
        /\ agent_runs[r].regression_run_id \in {None, r[1]}
        /\ agent_runs[r].regression_run_id = r[1] =>
              /\ agent_runs[r].repetition_index = r[3]
              /\ \/ agent_runs[r].scenario_id = r[2]
                 \/ pc[r[1]] = "link" /\ RunId(r[1]) = r
                 \/ Faults

\* What the runner counts is linked and classified, and it has counted all
\* it ever will when the regression is completed.
CreatedInv(g) ==
    /\ created_run_ids[g] \subseteq {r \in Linked(g) : Classified(r)}
    /\ regression_runs[g] # None /\ regression_runs[g].status = "completed" =>
          pc[g] = "done"

\* What has a classification has an evaluation to show for it, the one for its
\* regression or one that a client's has made replaceable.
ClassifiedInv(r) ==
    Classified(r) => ClassifiedUnlinked(r) \/ evaluation_results[r] # None

OneBaseline == \A g, h \in Baselines : g = h

TablesInv ==
    /\ \A r \in RunIds : RowInv(r) /\ ClassifiedInv(r)
    /\ \A g \in Creates : CreatedInv(g)
    /\ OneBaseline

Queries ==
    {"record", "overall", "by_scenario", "by_evaluator", "failure_distribution",
     "agent", "evaluation", "baseline"}

NatValued(f) == \A x \in DOMAIN f : f[x] \in Nat

Columns == {"total_count", "skipped_count", "passed_count"}

\* What a report holds are counts, and they are not above those of now.
ProgressInv ==
    /\ query \in Queries
    /\ DOMAIN report = DOMAIN NoReport
    /\ report.overall # None =>
          /\ Total(report.overall) \in Nat /\ SumOf(report.overall.counts) \in Nat
          /\ NatValued(report.overall.counts)
    /\ report.by_evaluator # None =>
          \A counts \in Columns : NatValued(Column(report.by_evaluator, counts))
    /\ report.failure_distribution # None => NatValued(report.failure_distribution)
    /\ report.agent # None => report.agent \in Nat
    /\ report.evaluation # None => report.evaluation \in Nat
    /\ ReportsNeverGoBack

\* The linked runs that have a scenario.
Named == {r \in Linked(Polled) : agent_runs[r].scenario_id # None}

Ended == pc[Polled] \in {"done", "gate_violation"}

\* A report that has read completed or failed has read of an ended task, and
\* what its queries counted since is what there is.
FinalInv ==
    report.status # None /\ report.status \in {"completed", "failed"} =>
        /\ Ended
        /\ query # "overall" =>
              /\ Total(report.overall) = Cardinality(Linked(Polled))
              /\ SumOf(report.overall.counts) \in Nat
              /\ SumOf(report.overall.counts) >= Cardinality(created_run_ids[Polled])
        /\ query \notin {"overall", "by_scenario"} =>
              /\ SumOf([s \in DOMAIN report.by_scenario |-> Total(report.by_scenario[s])])
                    = Cardinality(Named)
              /\ Named = Linked(Polled) \/ Faults
        /\ query \in {"evaluation", "baseline", "record"} =>
              report.agent = Cardinality(Linked(Polled))

RInv == IInv /\ TablesInv /\ ProgressInv /\ FinalInv

-----------------------------------------------------------------------------
(* What the runner and the clients do to the tables.                       *)

\* A step of the reporting model is a step of the regressions, or none.
LEMMA RNextIsNext == [RNext]_rvars => [Next]_vars
BY DEF RNext, Work, Next, rvars

\* Whoever takes a step of its own has not ended.
LEMMA StepsOfTheLiving ==
    ASSUME NEW g \in Creates, Request(g) \/ Execute(g) \/ Fail(g)
    PROVE  pc[g] \notin Ends
BY DEF Fail, RequestFails, RepetitionFails, TaskDies, Requesting, Running, Repeating,
   Request, CheckBaseline, CreateRegression, CreateConflicts, Accept,
   Execute, RunOne, MarkRunning, LoadContract, FailRegression, MarkCompleted, Recover,
   Dispatch, Resume, IngestEvent, IngestRaises, Link, LinkConflicts, PassGate,
   RefuseGate, Evaluate, EvaluateConflicts, Ends

\* Run ids are triples.
LEMMA RunIdIsTriple ==
    ASSUME NEW r \in RunIds
    PROVE  /\ r = <<r[1], r[2], r[3]>>
           /\ r[1] \in Creates /\ r[2] \in Scenarios /\ r[3] \in Repetitions
           /\ r[1] # None /\ r[2] # None
BY NoneIsNoName DEF RunIds

\* Without faults no repetition finds its place taken: every other linked run
\* of the regression is where it belongs (persist_regression_linkage).
LEMMA PlaceIsFree ==
    ASSUME ~Faults, TypeOK, TablesInv, NEW g \in Creates, pc[g] = "link"
    PROVE  ~SlotTaken(RunId(g), LinkedRow(g))
<1>1. /\ RunId(g) \in RunIds
      /\ RunId(g) = <<g, Scenario(g), position[g].repetition>>
  BY RunIdFacts DEF Under, Running, Repeating
<1>2. /\ agent_runs[RunId(g)] \in AgentRun
  BY <1>1 DEF TypeOK
<1>3. Slot(LinkedRow(g)) = RunId(g)
  BY <1>1, <1>2 DEF LinkedRow, Slot, AgentRun
<1>. SUFFICES ASSUME NEW other \in RunIds \ {RunId(g)}, agent_runs[other] # None,
                     Slot(agent_runs[other]) = RunId(g)
              PROVE  FALSE
  BY <1>3 DEF SlotTaken
<1>4. /\ agent_runs[other].regression_run_id = g
      /\ agent_runs[other].scenario_id = Scenario(g)
      /\ agent_runs[other].repetition_index = position[g].repetition
  BY <1>1 DEF Slot
<1>5. RowInv(other) /\ g # None
  BY NoneIsNoName DEF TablesInv
<1>6. other[1] = g /\ other[3] = position[g].repetition
  BY <1>4, <1>5 DEF RowInv
<1>7. other[2] = Scenario(g)
  BY <1>4, <1>5, <1>6 DEF RowInv
<1>8. other = <<other[1], other[2], other[3]>>
  BY RunIdIsTriple
<1>. QED
  BY <1>1, <1>6, <1>7, <1>8

\* Ingestion and linkage leave every run in or on the way to its place.
LEMMA RowStep ==
    ASSUME IInv, TablesInv, NEW g \in Creates, Request(g) \/ Execute(g),
           NEW r \in RunIds
    PROVE  RowInv(r)'
<1>1. TypeOK /\ RowInv(r)
  BY DEF IInv, TablesInv
<1>2. CASE r[1] # g
  <2>1. OnlyOwn(g) /\ r[1] \in Creates \ {g}
    BY <1>1, <1>2, StepsAreLocal, RunIdIsTriple
  <2>2. /\ agent_runs'[r] = agent_runs[r]
        /\ pc'[r[1]] = pc[r[1]]
        /\ selection'[r[1]] = selection[r[1]]
        /\ position'[r[1]] = position[r[1]]
    BY <1>2, <2>1 DEF OnlyOwn
  <2>3. RunId(r[1])' = RunId(r[1])
    BY <2>2 DEF RunId, Scenario, ScenarioIds
  <2>. QED
    BY <1>1, <2>2, <2>3 DEF RowInv
<1>3. CASE r[1] = g /\ IngestEvent(g) /\ r = RunId(g)
  <2>1. /\ Scenario(g) \in Contracts /\ r[2] = Scenario(g)
        /\ event[g] \in Event
    BY <1>1, <1>3, RunIdFacts DEF TypeOK, IngestEvent, Under, Running, Repeating
  <2>2. agent_runs'[r] = IngestedRow(agent_runs[r], event[g])
    BY <1>1, <1>3 DEF IngestEvent, TypeOK
  <2>3. pc'[g] = "link" /\ RunId(g)' = RunId(g)
    BY <1>1, <1>3 DEF IngestEvent, Goto, TypeOK, RunId, Scenario, ScenarioIds, memory
  <2>4. r[1] # None
    BY RunIdIsTriple
  <2>. QED
    BY <1>1, <1>3, <2>1, <2>2, <2>3, <2>4 DEF RowInv, IngestedRow
<1>4. CASE r[1] = g /\ Link(g) /\ r = RunId(g)
  <2>1. /\ Scenario(g) \in Contracts
        /\ RunId(g) = <<g, Scenario(g), position[g].repetition>>
        /\ agent_runs[r] # None
    BY <1>1, <1>4, RunIdFacts DEF TypeOK, Link, Under, Running, Repeating
  <2>2. agent_runs'[r] = LinkedRow(g) /\ agent_runs[r] \in AgentRun
    BY <1>1, <1>4, <2>1 DEF Link, TypeOK
  <2>3. /\ agent_runs'[r].regression_run_id = g
        /\ agent_runs'[r].repetition_index = r[3]
        /\ agent_runs'[r].scenario_id = r[2]
        /\ r[2] \in Contracts
    <3>1. pc[g] \in Under
      BY <1>4 DEF Link, Under, Running, Repeating
    <3>2. Slot(LinkedRow(g)) = RunId(g)
      BY <1>1, <1>4, <2>1, <3>1, LinkedRowType
    <3>3. /\ LinkedRow(g).regression_run_id = g
          /\ LinkedRow(g).repetition_index = position[g].repetition
          /\ LinkedRow(g).scenario_id = Scenario(g)
      BY <2>1, <3>2 DEF Slot
    <3>. QED
      BY <1>4, <2>1, <2>2, <3>3
  <2>. QED
    BY <1>4, <2>3 DEF RowInv
<1>5. CASE /\ r[1] = g
           /\ ~(IngestEvent(g) /\ r = RunId(g)) /\ ~(Link(g) /\ r = RunId(g))
  <2>1. agent_runs'[r] = agent_runs[r]
    <3>1. CASE ~(IngestEvent(g) \/ Link(g))
      BY <1>1, <3>1 DEF Request, CheckBaseline, CreateRegression, CreateConflicts,
         Accept, Execute, RunOne, MarkRunning, LoadContract, FailRegression,
         MarkCompleted, Recover, Dispatch, Resume, IngestRaises, LinkConflicts,
         PassGate, RefuseGate, Evaluate, EvaluateConflicts, tables
    <3>2. CASE IngestEvent(g) \/ Link(g)
      BY <1>1, <1>5, <3>2 DEF IngestEvent, Link, TypeOK
    <3>. QED
      BY <3>1, <3>2
  <2>2. CASE pc[g] = "link" /\ RunId(g) = r /\ ~Faults
    <3>1. ~LinkConflicts(g)
      BY <1>1, <2>2, PlaceIsFree DEF LinkConflicts
    <3>. QED
      BY <1>5, <2>2, <3>1 DEF Request, CheckBaseline, CreateRegression, CreateConflicts,
         Accept, Execute, RunOne, MarkRunning, LoadContract, FailRegression,
         MarkCompleted, Recover, Dispatch, Resume, IngestEvent, IngestRaises, PassGate,
         RefuseGate, Evaluate, EvaluateConflicts
  <2>3. CASE ~(pc[g] = "link" /\ RunId(g) = r) \/ Faults
    BY <1>1, <1>5, <2>1, <2>3 DEF RowInv
  <2>. QED
    BY <2>2, <2>3
<1>. QED
  BY <1>2, <1>3, <1>4, <1>5

\* Nor does a fault, which may leave it in the place that its agent names.
LEMMA RowFaults ==
    ASSUME IInv, TablesInv, NEW g \in Creates, Fail(g), NEW r \in RunIds
    PROVE  RowInv(r)'
<1>1. TypeOK /\ RowInv(r) /\ Faults
  BY DEF IInv, TablesInv, Fail, RequestFails, RepetitionFails, TaskDies
<1>2. CASE agent_runs'[r] = agent_runs[r]
  BY <1>1, <1>2 DEF RowInv
<1>3. CASE agent_runs'[r] # agent_runs[r]
  <2>1. /\ RepetitionFails(g) /\ pc[g] \in {"ingest", "link"}
        /\ pc[g] = "ingest" => /\ agent_runs' = [agent_runs EXCEPT
                                      ![RunId(g)] = IngestedRow(@, event[g])]
        /\ pc[g] = "link" => agent_runs' = [agent_runs EXCEPT ![RunId(g)] = LinkedRow(g)]
    BY <1>3 DEF Fail, RequestFails, RepetitionFails, TaskDies, tables
  <2>2. pc[g] \in Under
    BY <2>1 DEF Under, Running, Repeating
  <2>3. r = RunId(g)
    BY <1>1, <1>3, <2>1 DEF TypeOK
  <2>4. /\ Scenario(g) \in Contracts
        /\ RunId(g) = <<g, Scenario(g), position[g].repetition>>
        /\ r[1] = g /\ r[2] = Scenario(g) /\ r[3] = position[g].repetition
        /\ r[1] # None
    BY <1>1, <2>1, <2>2, <2>3, RunIdFacts, RunIdIsTriple DEF TypeOK, Repeating
  <2>5. CASE pc[g] = "ingest"
    <3>1. agent_runs'[r] = IngestedRow(agent_runs[r], event[g])
      BY <1>1, <2>1, <2>3, <2>5 DEF TypeOK
    <3>2. agent_runs[r] = None => IngestedRow(agent_runs[r], event[g]).regression_run_id = None
      BY DEF IngestedRow
    <3>3. agent_runs[r] # None =>
            /\ IngestedRow(agent_runs[r], event[g]).regression_run_id
                  = agent_runs[r].regression_run_id
            /\ IngestedRow(agent_runs[r], event[g]).repetition_index
                  = agent_runs[r].repetition_index
      BY DEF IngestedRow
    <3>. QED
      BY <1>1, <2>4, <3>1, <3>2, <3>3 DEF RowInv
  <2>6. CASE pc[g] = "link"
    <3>1. agent_runs'[r] = LinkedRow(g) /\ agent_runs[r] # None
      BY <1>1, <2>1, <2>3, <2>6 DEF TypeOK
    <3>2. Slot(LinkedRow(g)) = RunId(g)
      BY <1>1, <2>2, <2>3, <3>1, LinkedRowType
    <3>3. /\ LinkedRow(g).regression_run_id = g
          /\ LinkedRow(g).repetition_index = position[g].repetition
      BY <2>4, <3>2 DEF Slot
    <3>. QED
      BY <1>1, <2>4, <3>1, <3>3 DEF RowInv
  <2>. QED
    BY <2>1, <2>5, <2>6
<1>. QED
  BY <1>2, <1>3

\* No step takes a run away from its regression.
LEMMA LinkedStays ==
    ASSUME IInv, TablesInv, Work, NEW g \in Creates
    PROVE  Linked(g) \subseteq Linked(g)'
<1>. SUFFICES ASSUME NEW r \in Linked(g) PROVE r \in Linked(g)'
  OBVIOUS
<1>1. /\ r \in RunIds /\ TypeOK
      /\ agent_runs[r] # None /\ agent_runs[r].regression_run_id = g
  BY DEF Linked, IInv
<1>2. CASE agent_runs'[r] = agent_runs[r]
  BY <1>1, <1>2 DEF Linked
<1>3. ASSUME NEW h \in Creates, Request(h) \/ Execute(h) \/ Fail(h),
             agent_runs'[r] # agent_runs[r]
      PROVE  r \in Linked(g)'
  <2>1. \/ /\ pc[h] = "ingest"
           /\ agent_runs' = [agent_runs EXCEPT ![RunId(h)] = IngestedRow(@, event[h])]
        \/ /\ pc[h] = "link"
           /\ agent_runs' = [agent_runs EXCEPT ![RunId(h)] = LinkedRow(h)]
    BY <1>1, <1>3 DEF IngestEvent, Link, Fail, RequestFails, RepetitionFails, TaskDies,
       Request, CheckBaseline, CreateRegression, CreateConflicts,
       Accept, Execute, RunOne, MarkRunning, LoadContract, FailRegression,
       MarkCompleted, Recover, Dispatch, Resume, IngestRaises, LinkConflicts,
       PassGate, RefuseGate, Evaluate, EvaluateConflicts, tables
  <2>2. r = RunId(h)
    BY <1>1, <1>3, <2>1 DEF TypeOK
  <2>3. r[1] = h /\ r[1] # None
    BY <1>1, <2>2, RunIdIsTriple DEF RunId
  <2>4. g = h
    BY <1>1, <2>3, NoneIsNoName DEF TablesInv, RowInv
  <2>5. pc[h] \in Under
    BY <2>1 DEF Under, Running, Repeating
  <2>6. CASE pc[h] = "ingest"
    <3>1. agent_runs'[r] = IngestedRow(agent_runs[r], event[h])
      BY <1>1, <2>1, <2>2, <2>6 DEF TypeOK
    <3>2. agent_runs[r] \in AgentRun /\ event[h] \in Event
      BY <1>1, <2>6 DEF TypeOK
    <3>3. agent_runs'[r] # None
      BY <3>1, <3>2, RowTypes, NoneIsNoRow
    <3>4. agent_runs'[r].regression_run_id = g
      BY <1>1, <3>1 DEF IngestedRow
    <3>. QED
      BY <1>1, <3>3, <3>4 DEF Linked
  <2>7. CASE pc[h] = "link"
    <3>1. agent_runs'[r] = LinkedRow(h) /\ agent_runs[r] \in AgentRun
      BY <1>1, <2>1, <2>2, <2>7 DEF TypeOK
    <3>2. agent_runs'[r] \in AgentRun /\ agent_runs'[r].regression_run_id = h
      BY <1>1, <2>2, <2>5, <3>1, LinkedRowType DEF LinkedRow, AgentRun
    <3>. QED
      BY <1>1, <2>4, <3>2, NoneIsNoRow DEF Linked
  <2>. QED
    BY <2>1, <2>6, <2>7
<1>4. ASSUME NEW c \in Clients, NEW q \in RunIds, EvaluateByClient(c, q)
      PROVE  r \in Linked(g)'
  BY <1>2, <1>4 DEF EvaluateByClient
<1>. QED
  BY <1>2, <1>3, <1>4 DEF Work

\* A step of somebody's is a step.
LEMMA WorkIsNext == Work => [Next]_vars
BY DEF Work, Next

\* Nor does one take an evaluation or a classification away.
LEMMA ClassifiedStays ==
    ASSUME IInv, Work, NEW r \in RunIds
    PROVE  /\ Classified(r) => Classified(r)'
           /\ ClassifiedUnlinked(r) => ClassifiedUnlinked(r)'
<1>1. TypeOK /\ [Next]_vars
  BY WorkIsNext DEF IInv
<1>2. Classified(r) => Classified(r)'
  BY <1>1, EvaluationsStay DEF Classified
<1>3. ASSUME ClassifiedUnlinked(r) PROVE ClassifiedUnlinked(r)'
  <2>1. PICK c \in Clients :
           /\ evaluation_results[c] # None /\ evaluation_results[c].complete
           /\ evaluation_results[c].run_id = r
    BY <1>3 DEF ClassifiedUnlinked
  <2>2. evaluation_results'[c] = evaluation_results[c]
    BY <1>1, <2>1, EvaluationsStay
  <2>. QED
    BY <2>1, <2>2 DEF ClassifiedUnlinked
<1>. QED
  BY <1>2, <1>3

\* A classification is written by an evaluation that stays, and written again
\* only if one of the two was stored for no regression.
LEMMA ClassifiedStep ==
    ASSUME IInv, Work, NEW r \in RunIds, ClassifiedInv(r)
    PROVE  /\ ClassifiedInv(r)'
           /\ Classified(r) => \/ run_failures'[r] = run_failures[r]
                               \/ ClassifiedUnlinked(r)'
<1>1. TypeOK /\ [Next]_vars
  BY WorkIsNext DEF IInv
<1>2. ClassifiedUnlinked(r) => ClassifiedUnlinked(r)'
  BY ClassifiedStays
<1>3. evaluation_results[r] # None => evaluation_results'[r] # None
  BY <1>1, EvaluationsStay
<1>4. CASE run_failures'[r] = run_failures[r]
  BY <1>2, <1>3, <1>4 DEF ClassifiedInv, Classified
<1>5. CASE run_failures'[r] # run_failures[r]
  <2>0. PICK q \in RunIds : \E key \in {q} \cup Clients, seen \in HITLState \cup {None},
             complete \in BOOLEAN : StoreEvaluation(key, q, seen, complete)
    BY <1>1, <1>5, StepStores
  <2>1. PICK key \in {q} \cup Clients, seen \in HITLState \cup {None},
             complete \in BOOLEAN : StoreEvaluation(key, q, seen, complete)
    BY <2>0
  <2>2. TablesTyped /\ key \in RunIds \cup Clients
    BY <1>1, StepStores
  <2>3. q = r /\ complete
    BY <1>5, <2>1, <2>2, StoreFacts
  <2>4. /\ evaluation_results[key] = None /\ evaluation_results'[key] # None
        /\ evaluation_results'[key].run_id = r /\ evaluation_results'[key].complete
    BY <2>1, <2>2, <2>3, StoreFacts
  <2>5. CASE key \in Clients
    BY <2>4, <2>5 DEF ClassifiedInv, ClassifiedUnlinked
  <2>6. CASE key = r
    BY <1>2, <2>4, <2>6 DEF ClassifiedInv
  <2>. QED
    BY <2>1, <2>3, <2>5, <2>6
<1>. QED
  BY <1>4, <1>5

\* What the runner counts stays linked and classified, and the runner is
\* through with it when it says completed.
LEMMA CreatedStep ==
    ASSUME IInv, TablesInv, Work, NEW g \in Creates
    PROVE  CreatedInv(g)'
<1>1. /\ TypeOK /\ CreatedInv(g) /\ StatusInv(g) /\ GateInv(g)
      /\ Linked(g) \in SUBSET RunIds
      /\ Linked(g) \subseteq Linked(g)'
      /\ \A r \in RunIds : Classified(r) => Classified(r)'
  BY LinkedStays, ClassifiedStays DEF IInv, TablesInv, Linked
<1>2. ASSUME created_run_ids'[g] = created_run_ids[g]
      PROVE  created_run_ids'[g] \subseteq {r \in Linked(g)' : Classified(r)'}
  BY <1>1, <1>2 DEF CreatedInv
<1>3. ASSUME regression_runs'[g] = regression_runs[g], pc'[g] = pc[g]
      PROVE  regression_runs'[g] # None /\ regression_runs'[g].status = "completed" =>
                pc'[g] = "done"
  BY <1>1, <1>3 DEF CreatedInv
<1>4. ASSUME NEW h \in Creates, Request(h) \/ Execute(h) \/ Fail(h), h # g
      PROVE  CreatedInv(g)'
  <2>1. OnlyOwn(h)
    BY <1>1, <1>4, StepsAreLocal
  <2>2. /\ created_run_ids'[g] = created_run_ids[g]
        /\ regression_runs'[g] = regression_runs[g] /\ pc'[g] = pc[g]
    BY <1>4, <2>1 DEF OnlyOwn
  <2>. QED
    BY <1>2, <1>3, <2>2 DEF CreatedInv
<1>5. ASSUME Request(g) \/ Execute(g) \/ Fail(g)
      PROVE  CreatedInv(g)'
  <2>1. created_run_ids'[g] \subseteq {r \in Linked(g)' : Classified(r)'}
    <3>1. CASE ~Evaluate(g)
      BY <1>1, <1>2, <1>5, <3>1, BooksStay
    <3>2. CASE Evaluate(g)
      <4>1. /\ RunId(g) \in RunIds /\ Stored(g)
            /\ RunId(g) = <<g, Scenario(g), position[g].repetition>>
        BY <1>1, <3>2, RunIdFacts DEF Evaluate, GateInv, Under, Running, Repeating
      <4>2. RunId(g) \in Linked(g)
        BY <4>1 DEF Stored, Slot, Linked
      <4>3. /\ created_run_ids'[g] = created_run_ids[g] \cup {RunId(g)}
            /\ run_failures'[RunId(g)] # None
        BY <1>1, <3>2, <4>1, RunnerStores, StoreFacts DEF Evaluate, EvaluateRun, TypeOK
      <4>6. \A r \in {RunId(g)} : Classified(r)'
        BY <4>3 DEF Classified
      <4>7. created_run_ids[g] \subseteq {r \in Linked(g)' : Classified(r)'}
        BY <1>1 DEF CreatedInv
      <4>. QED
        BY <1>1, <4>2, <4>3, <4>6, <4>7
    <3>. QED
      BY <3>1, <3>2
  <2>2. /\ pc[g] \notin Ends
        /\ regression_runs[g] # None => regression_runs[g].status # "completed"
    BY <1>1, <1>5, StepsOfTheLiving DEF CreatedInv, Ends
  <2>3. regression_runs'[g] # None /\ regression_runs'[g].status = "completed" =>
           pc'[g] = "done"
    <3>1. CASE CreateRegression(g) \/ MarkRunning(g) \/ FailRegression(g)
      <4>1. /\ regression_runs \in [Creates -> RegressionRun \cup {None}]
            /\ MarkRunning(g) \/ FailRegression(g) => regression_runs[g] # None
        BY <1>1 DEF TypeOK, StatusInv, MarkRunning, FailRegression, Running
      <4>2. MarkRunning(g) \/ FailRegression(g) => regression_runs[g] \in RegressionRun
        BY <4>1
      <4>. QED
        BY <3>1, <4>1, <4>2 DEF CreateRegression, MarkRunning, FailRegression,
           SetStatus, RegressionRun
    <3>2. CASE MarkCompleted(g)
      BY <1>1, <3>2 DEF MarkCompleted, Goto, TypeOK
    <3>3. CASE ~(CreateRegression(g) \/ MarkRunning(g) \/ FailRegression(g)
                 \/ MarkCompleted(g))
      <4>1. regression_runs' = regression_runs
        BY <1>5, <3>3 DEF Fail, RequestFails, RepetitionFails, TaskDies,
           Request, CheckBaseline, CreateConflicts,
           Accept, Execute, RunOne, LoadContract, Recover, Dispatch, Resume,
           IngestEvent, IngestRaises, Link, LinkConflicts, PassGate, RefuseGate,
           Evaluate, EvaluateConflicts, tables
      <4>. QED
        BY <2>2, <4>1
    <3>. QED
      BY <3>1, <3>2, <3>3
  <2>. QED
    BY <2>1, <2>3 DEF CreatedInv
<1>6. ASSUME NEW c \in Clients, NEW r \in RunIds, EvaluateByClient(c, r)
      PROVE  CreatedInv(g)'
  BY <1>2, <1>3, <1>6 DEF EvaluateByClient, CreatedInv, memory
<1>. QED
  BY <1>4, <1>5, <1>6 DEF Work

\* The baseline is one, and stays (uq_regression_runs_baseline).
LEMMA BaselineStays ==
    ASSUME IInv, OneBaseline, Work
    PROVE  Baselines \subseteq Baselines' /\ OneBaseline'
<1>1. TypeOK /\ regression_runs \in [Creates -> RegressionRun \cup {None}]
  BY DEF IInv, TypeOK
<1>2. Lifecycle!Next \/ UNCHANGED regression_runs
  BY LifecycleStep DEF Work, Next
<1>3. CASE UNCHANGED regression_runs
  BY <1>3 DEF Baselines, OneBaseline
<1>4. ASSUME NEW g \in Creates, Lifecycle!Create(g)
      PROVE  Baselines \subseteq Baselines' /\ OneBaseline'
  <2>1. PICK s \in Bodies :
           /\ s.is_baseline => ~Lifecycle!BaselineExists
           /\ regression_runs' = [regression_runs EXCEPT
                 ![g] = [selection |-> s, status |-> "pending"]]
    BY <1>4 DEF Lifecycle!Create
  <2>2. regression_runs[g] = None
    BY <1>4 DEF Lifecycle!Create
  <2>3. s.is_baseline => Baselines = {}
    BY <2>1 DEF Baselines, Lifecycle!BaselineExists, Lifecycle!Rows
  <2>4. Baselines \subseteq Baselines'
    BY <1>1, <2>1, <2>2 DEF Baselines
  <2>5. Baselines' \subseteq Baselines \cup (IF s.is_baseline THEN {g} ELSE {})
    BY <1>1, <2>1 DEF Baselines
  <2>. QED
    BY <2>3, <2>4, <2>5 DEF OneBaseline
<1>5. ASSUME NEW g \in Creates, NEW from, NEW to \in {"running", "completed", "failed"},
             Lifecycle!Move(g, from, to)
      PROVE  Baselines \subseteq Baselines' /\ OneBaseline'
  <2>1. /\ regression_runs[g] \in RegressionRun
        /\ regression_runs' = [regression_runs EXCEPT ![g].status = to]
    BY <1>1, <1>5 DEF Lifecycle!Move, Lifecycle!Rows
  <2>2. /\ regression_runs'[g].selection = regression_runs[g].selection
        /\ \A h \in Creates \ {g} : regression_runs'[h] = regression_runs[h]
        /\ regression_runs[g] # None
    BY <1>1, <2>1, NoneIsNoRow DEF RegressionRun
  <2>3. Baselines' \subseteq Baselines
    BY <2>2 DEF Baselines
  <2>4. regression_runs'[g] # None
    <3>1. regression_runs'[g] = [regression_runs[g] EXCEPT !.status = to]
      BY <1>1, <2>1
    <3>2. regression_runs'[g] \in RegressionRun
      BY <1>5, <2>1, <3>1 DEF RegressionRun
    <3>. QED
      BY <3>2, NoneIsNoRow
  <2>5. Baselines \subseteq Baselines'
    BY <2>2, <2>4 DEF Baselines
  <2>. QED
    BY <2>3, <2>5 DEF OneBaseline
<1>. QED
  BY <1>2, <1>3, <1>4, <1>5 DEF Lifecycle!Next, Lifecycle!Start, Lifecycle!End

\* The tables keep their invariant.
LEMMA TablesStep ==
    ASSUME IInv, TablesInv, Work PROVE TablesInv'
<1>1. ASSUME NEW r \in RunIds PROVE RowInv(r)'
  <2>1. ASSUME NEW g \in Creates, Request(g) \/ Execute(g) \/ Fail(g) PROVE RowInv(r)'
    BY <2>1, RowStep, RowFaults
  <2>2. ASSUME NEW c \in Clients, NEW q \in RunIds, EvaluateByClient(c, q)
        PROVE  RowInv(r)'
    BY <2>2 DEF EvaluateByClient, TablesInv, RowInv, memory, RunId, Scenario, ScenarioIds
  <2>. QED
    BY <2>1, <2>2 DEF Work
<1>2. \A g \in Creates : CreatedInv(g)'
  BY CreatedStep
<1>3. OneBaseline'
  BY BaselineStays DEF TablesInv
<1>4. \A r \in RunIds : ClassifiedInv(r)'
  BY ClassifiedStep DEF TablesInv
<1>. QED
  BY <1>1, <1>2, <1>3, <1>4 DEF TablesInv

\* Whatever others do, the runs of a task that has ended stay as they are.
LEMMA EndedStands ==
    ASSUME IInv, TablesInv, Work, Ended
    PROVE  /\ Ended'
           /\ Linked(Polled)' = Linked(Polled) /\ Named' = Named
           /\ created_run_ids'[Polled] = created_run_ids[Polled]
<1>1. TypeOK /\ Polled \in Creates /\ Polled # None
  BY PolledAssumption, NoneIsNoName DEF IInv
<1>2. CASE \E c \in Clients, r \in RunIds : EvaluateByClient(c, r)
  BY <1>2 DEF EvaluateByClient, Ended, Linked, Named, memory
<1>3. ASSUME NEW g \in Creates, Request(g) \/ Execute(g) \/ Fail(g)
      PROVE  /\ Ended'
             /\ Linked(Polled)' = Linked(Polled) /\ Named' = Named
             /\ created_run_ids'[Polled] = created_run_ids[Polled]
  <2>1. pc[g] \notin Ends
    BY <1>3, StepsOfTheLiving
  <2>2. g # Polled
    BY <2>1 DEF Ended, Ends
  <2>3. OnlyOwn(g)
    BY <1>1, <1>3, StepsAreLocal
  <2>4. \A r \in RunIds : RowInv(r) /\ RowInv(r)'
    BY TablesStep DEF TablesInv
  <2>5. ASSUME NEW r \in RunIds PROVE r \in Linked(Polled)' <=> r \in Linked(Polled)
    <3>1. CASE r[1] = g
      BY <1>1, <2>2, <2>4, <3>1 DEF RowInv, Linked
    <3>2. CASE r[1] # g
      BY <2>3, <3>2 DEF OnlyOwn, Linked
    <3>. QED
      BY <3>1, <3>2
  <2>6. ASSUME NEW r \in Linked(Polled) PROVE agent_runs'[r] = agent_runs[r]
    <3>1. r \in RunIds /\ r[1] # g
      BY <1>1, <2>2, <2>4 DEF RowInv, Linked
    <3>. QED
      BY <2>3, <3>1 DEF OnlyOwn
  <2>7. Linked(Polled)' = Linked(Polled)
    BY <2>5 DEF Linked
  <2>8. Named' = Named
    BY <2>6, <2>7 DEF Named
  <2>. QED
    BY <1>1, <2>2, <2>3, <2>7, <2>8 DEF OnlyOwn, Ended
<1>. QED
  BY <1>2, <1>3 DEF Work

-----------------------------------------------------------------------------
(* What the queries count.                                                 *)

\* Sets of runs can be counted.
LEMMA RunsAreFinite ==
    ASSUME NEW S \in SUBSET RunIds
    PROVE  IsFiniteSet(S) /\ Cardinality(S) \in Nat
BY FiniteRunsAssumption, FS_Subset, FS_CardinalityType

\* More runs are not fewer.
LEMMA MoreRuns ==
    ASSUME NEW T \in SUBSET RunIds, NEW S \in SUBSET T
    PROVE  Cardinality(S) <= Cardinality(T)
BY RunsAreFinite, FS_Subset

\* A pass rate is over the runs it is asked for.
LEMMA TotalOfRuns ==
    ASSUME NEW runs \in SUBSET RunIds
    PROVE  Total(PassRateSummary(runs)) = Cardinality(runs)
<1>. DEFINE s == PassRateSummary(runs)
            part == s.counts["pass"]
            n == Cardinality(runs)
<1>1. n \in Nat
  BY RunsAreFinite
<1>2. part \in Nat
  <2>1. part = Cardinality({r \in runs :
                  Classified(r) /\ run_failures[r].overall_status = "pass"})
    BY DEF PassRateSummary, Count, OverallEvaluationStatus
  <2>. QED
    BY <2>1, RunsAreFinite
<1>3. s.pass_rate = IF n = 0 THEN None ELSE <<part, n>>
  BY DEF PassRateSummary, Rate, OverallEvaluationStatus
<1>. HIDE DEF part, n, s
<1>4. CASE n = 0
  BY <1>3, <1>4 DEF Total, s, n
<1>5. CASE n # 0
  <2>1. <<part, n>> \in Nat \X Nat
    BY <1>1, <1>2
  <2>2. s.pass_rate # None /\ s.pass_rate[2] = n
    BY <1>3, <1>5, <2>1, NoneIsNoRate
  <2>. QED
    BY <2>2 DEF Total, s, n
<1>. QED
  BY <1>4, <1>5

\* The results a column of the results by evaluator is about.
ResultsOf(counts) ==
    IF counts = "total_count" THEN {"passed", "skipped", "failed"}
    ELSE IF counts = "skipped_count" THEN {"skipped"} ELSE {"passed"}

\* Those of the evaluators with results among a regression's.
Heard == UNION {Evaluated(x) : x \in Evaluations(Polled)}

\* What each query counts, spelled out.
NowCounts ==
    /\ Total(PassRateSummary(Linked(Polled))) = Cardinality(Linked(Polled))
    /\ DOMAIN PassRateSummary(Linked(Polled)).counts = OverallEvaluationStatus
    /\ \A s \in OverallEvaluationStatus :
          PassRateSummary(Linked(Polled)).counts[s] =
             Cardinality({r \in Linked(Polled) :
                Classified(r) /\ run_failures[r].overall_status = s})
    /\ \A counts \in Columns :
          /\ DOMAIN Column(EvaluatorPassRates(Polled), counts) = Heard
          /\ \A e \in Heard :
                Column(EvaluatorPassRates(Polled), counts)[e] =
                   Cardinality({x \in Evaluations(Polled) :
                      e \in Evaluated(x) /\ ResultOf(x, e) \in ResultsOf(counts)})
    /\ \A c \in DOMAIN FailureDistribution(Polled) :
          FailureDistribution(Polled)[c] =
             Cardinality({r \in Linked(Polled) :
                Classified(r) /\ run_failures[r].primary_category = c})

\* The aggregates of aggregate_regression_run are counts of linked runs and of
\* their evaluations.
LEMMA NowCounted == NowCounts
<1>. DEFINE L == Linked(Polled)
            E == Evaluations(Polled)
<1>1. L \in SUBSET RunIds
  BY DEF Linked
<1>2. Total(PassRateSummary(L)) = Cardinality(L)
  BY <1>1, TotalOfRuns
<1>. HIDE DEF L, E
<1>3. /\ DOMAIN PassRateSummary(L).counts = OverallEvaluationStatus
      /\ \A s \in OverallEvaluationStatus :
            PassRateSummary(L).counts[s] =
               Cardinality({r \in L : Classified(r) /\ run_failures[r].overall_status = s})
  BY DEF PassRateSummary, Count
<1>4. ASSUME NEW counts \in Columns
      PROVE  /\ DOMAIN Column(EvaluatorPassRates(Polled), counts) = Heard
             /\ \A e \in Heard :
                   Column(EvaluatorPassRates(Polled), counts)[e] =
                      Cardinality({x \in E :
                         e \in Evaluated(x) /\ ResultOf(x, e) \in ResultsOf(counts)})
  <2>1. CASE counts = "total_count"
    BY <2>1 DEF Column, EvaluatorPassRates, Count, E, Heard, ResultsOf
  <2>2. CASE counts = "skipped_count"
    BY <2>2 DEF Column, EvaluatorPassRates, Count, E, Heard, ResultsOf
  <2>3. CASE counts = "passed_count"
    BY <2>3 DEF Column, EvaluatorPassRates, Count, E, Heard, ResultsOf
  <2>. QED
    BY <2>1, <2>2, <2>3 DEF Columns
<1>5. \A c \in DOMAIN FailureDistribution(Polled) :
         FailureDistribution(Polled)[c] =
            Cardinality({r \in L : Classified(r) /\ run_failures[r].primary_category = c})
  <2>1. \A c : {r \in {q \in L : Classified(q)} : run_failures[r].primary_category = c}
               = {r \in L : Classified(r) /\ run_failures[r].primary_category = c}
    OBVIOUS
  <2>. QED
    BY <2>1 DEF FailureDistribution, Count, L
<1>. QED
  BY <1>2, <1>3, <1>4, <1>5 DEF NowCounts, L, E

\* What is classified has a status.
LEMMA StatusFacts ==
    ASSUME TypeOK, NEW r \in RunIds, Classified(r)
    PROVE  run_failures[r].overall_status \in OverallEvaluationStatus
<1>1. run_failures[r] \in Assessment
  BY AssessmentsAssumption DEF TypeOK, Classified
<1>. QED
  BY <1>1 DEF Assessment

\* The evaluations of a regression's runs are finitely many rows, with judge
\* calls to sum up.
EvaluationsTyped ==
    \A S \in SUBSET Evaluations(Polled) :
        /\ IsFiniteSet(S) /\ Cardinality(S) \in Nat
        /\ \A x \in S : evaluation_results[x].assessment.judge_calls \in Nat

LEMMA EvaluationFacts == TypeOK => EvaluationsTyped
<1>. SUFFICES ASSUME TypeOK, NEW S \in SUBSET Evaluations(Polled)
              PROVE  /\ IsFiniteSet(S) /\ Cardinality(S) \in Nat
                     /\ \A x \in S : evaluation_results[x].assessment.judge_calls \in Nat
  BY DEF EvaluationsTyped
<1>1. DOMAIN evaluation_results = RunIds \cup Clients
  BY DEF TypeOK
<1>2. Evaluations(Polled) \subseteq RunIds \cup Clients
  BY <1>1 DEF Evaluations
<1>3. IsFiniteSet(RunIds \cup Clients)
  BY FiniteRunsAssumption, FS_Union
<1>4. IsFiniteSet(S) /\ Cardinality(S) \in Nat
  BY <1>2, <1>3, FS_Subset, FS_CardinalityType
<1>5. ASSUME NEW x \in S
      PROVE  evaluation_results[x].assessment.judge_calls \in Nat
  <2>1. evaluation_results[x] \in EvaluationResult
    BY <1>2 DEF Evaluations, TypeOK
  <2>2. evaluation_results[x].assessment \in Assessment
    BY <2>1, AssessmentsAssumption DEF EvaluationResult
  <2>. QED
    BY <2>2 DEF Assessment
<1>. QED
  BY <1>4, <1>5

\* The judge calls of complete evaluations can be summed up.
LEMMA JudgeCallsAreNat ==
    ASSUME TypeOK
    PROVE  NatFinite([x \in {y \in Evaluations(Polled) : evaluation_results[y].complete} |->
                        evaluation_results[x].assessment.judge_calls])
<1>. DEFINE S == {y \in Evaluations(Polled) : evaluation_results[y].complete}
<1>1. /\ IsFiniteSet(S)
      /\ \A x \in S : evaluation_results[x].assessment.judge_calls \in Nat
  <2>1. S \in SUBSET Evaluations(Polled)
    OBVIOUS
  <2>. HIDE DEF S
  <2>. QED
    BY <2>1, EvaluationFacts DEF EvaluationsTyped
<1>. QED
  BY <1>1 DEF NatFinite

\* The buckets of the pass rate are those of all the classified runs.
BucketsHold ==
    SumOf(PassRateSummary(Linked(Polled)).counts)
        = Cardinality({r \in Linked(Polled) : Classified(r)})

LEMMA BucketsSumUp == TypeOK => BucketsHold
<1>. SUFFICES ASSUME TypeOK PROVE BucketsHold
  OBVIOUS
<1>. DEFINE L == Linked(Polled)
            Of(s) == {r \in L : Classified(r) /\ run_failures[r].overall_status = s}
            P == [s \in OverallEvaluationStatus |-> Of(s)]
            counts == PassRateSummary(L).counts
            all == {r \in L : Classified(r)}
<1>1. L \in SUBSET RunIds
  BY DEF Linked
<1>2. IsFiniteSet(L) /\ IsFiniteSet(OverallEvaluationStatus)
  <2>1. IsFiniteSet(OverallEvaluationStatus)
    <3>1. IsFiniteSet({}) /\ IsFiniteSet({"pass"})
      BY FS_EmptySet, FS_Singleton
    <3>2. /\ IsFiniteSet({"pass"} \cup {"fail"})
          /\ OverallEvaluationStatus = ({"pass"} \cup {"fail"}) \cup {"incomplete"}
      BY <3>1, FS_AddElement DEF OverallEvaluationStatus
    <3>. QED
      BY <3>2, FS_AddElement
  <2>. QED
    BY <1>1, <2>1, RunsAreFinite
<1>3. counts = [s \in OverallEvaluationStatus |-> Cardinality(P[s])]
  BY DEF PassRateSummary, Count
<1>4. UNION {P[s] : s \in OverallEvaluationStatus} = all
  <2>1. \A r \in all : run_failures[r].overall_status \in OverallEvaluationStatus
    BY <1>1, StatusFacts
  <2>. QED
    BY <2>1
<1>5. P \in [OverallEvaluationStatus -> SUBSET L]
  OBVIOUS
<1>6. \A x, y \in OverallEvaluationStatus : x # y => P[x] \cap P[y] = {}
  OBVIOUS
<1>. HIDE DEF L, P, counts, all
<1>7. SumOf([s \in OverallEvaluationStatus |-> Cardinality(P[s])])
         = Cardinality(UNION {P[s] : s \in OverallEvaluationStatus})
  BY <1>2, <1>5, <1>6, SumOfCounts
<1>8. SumOf(counts) = Cardinality(all)
  BY <1>3, <1>4, <1>7
<1>. QED
  BY <1>8 DEF counts, all, L, BucketsHold

\* What the queries would count now, as numbers.
NowIsNat ==
    /\ Total(PassRateSummary(Linked(Polled))) \in Nat
    /\ SumOf(PassRateSummary(Linked(Polled)).counts) \in Nat
    /\ NatValued(PassRateSummary(Linked(Polled)).counts)
    /\ \A counts \in Columns : NatValued(Column(EvaluatorPassRates(Polled), counts))
    /\ NatValued(FailureDistribution(Polled))
    /\ AgentMetrics(Polled) \in Nat
    /\ EvaluationMetrics(Polled) \in Nat

\* All that the queries count are natural numbers.
LEMMA CountsAreNat == TypeOK => NowIsNat
<1>. SUFFICES ASSUME TypeOK PROVE NowIsNat
  OBVIOUS
<1>. DEFINE L == Linked(Polled)
<1>1. L \in SUBSET RunIds
  BY DEF Linked
<1>2. \A S \in SUBSET L : Cardinality(S) \in Nat
  BY <1>1, RunsAreFinite
<1>3. NowCounts
  BY NowCounted
<1>4. EvaluationMetrics(Polled) \in Nat
  BY JudgeCallsAreNat, SumIsNat DEF EvaluationMetrics
<1>5. NatValued(PassRateSummary(L).counts)
  BY <1>2, <1>3 DEF NowCounts, NatValued
<1>6. SumOf(PassRateSummary(L).counts) \in Nat
  BY <1>2, BucketsSumUp DEF BucketsHold
<1>7. ASSUME NEW counts \in Columns
      PROVE  NatValued(Column(EvaluatorPassRates(Polled), counts))
  <2>1. \A S \in SUBSET Evaluations(Polled) : Cardinality(S) \in Nat
    BY EvaluationFacts DEF EvaluationsTyped
  <2>. DEFINE Of(e) == {x \in Evaluations(Polled) :
                          e \in Evaluated(x) /\ ResultOf(x, e) \in ResultsOf(counts)}
  <2>2. \A e : Cardinality(Of(e)) \in Nat
    BY <2>1
  <2>3. /\ DOMAIN Column(EvaluatorPassRates(Polled), counts) = Heard
        /\ \A e \in Heard :
              Column(EvaluatorPassRates(Polled), counts)[e] = Cardinality(Of(e))
    BY <1>3 DEF NowCounts
  <2>. QED
    BY <2>2, <2>3 DEF NatValued
<1>8. NatValued(FailureDistribution(Polled))
  BY <1>2, <1>3 DEF NowCounts, NatValued
<1>. QED
  BY <1>2, <1>3, <1>4, <1>5, <1>6, <1>7, <1>8 DEF NowIsNat, NowCounts, AgentMetrics

\* What a query counts is among what is, or was, classified so.
LEMMA CountedAmongNow ==
    /\ CountedAmong(PassRateSummary(Linked(Polled)).counts, "overall_status")
    /\ CountedAmong(FailureDistribution(Polled), "primary_category")
<1>1. NowCounts
  BY NowCounted
<1>2. ASSUME NEW s
      PROVE  Cardinality({r \in Linked(Polled) :
                Classified(r) /\ run_failures[r].overall_status = s})
             <= Cardinality(PerhapsClassified("overall_status", s))
  <2>1. /\ PerhapsClassified("overall_status", s) \in SUBSET RunIds
        /\ {r \in Linked(Polled) : Classified(r) /\ run_failures[r].overall_status = s}
              \in SUBSET PerhapsClassified("overall_status", s)
    BY DEF PerhapsClassified, Linked
  <2>. QED
    BY <2>1, MoreRuns
<1>3. ASSUME NEW c
      PROVE  Cardinality({r \in Linked(Polled) :
                Classified(r) /\ run_failures[r].primary_category = c})
             <= Cardinality(PerhapsClassified("primary_category", c))
  <2>1. /\ PerhapsClassified("primary_category", c) \in SUBSET RunIds
        /\ {r \in Linked(Polled) : Classified(r) /\ run_failures[r].primary_category = c}
              \in SUBSET PerhapsClassified("primary_category", c)
    BY DEF PerhapsClassified, Linked
  <2>. QED
    BY <2>1, MoreRuns
<1>4. CountedAmong(PassRateSummary(Linked(Polled)).counts, "overall_status")
  BY <1>1, <1>2 DEF NowCounts, CountedAmong
<1>5. CountedAmong(FailureDistribution(Polled), "primary_category")
  BY <1>1, <1>3 DEF NowCounts, CountedAmong
<1>. QED
  BY <1>4, <1>5

\* No step takes a run out of those that were classified with a value, and one
\* that is classified anew stays among them if that was possible.
LEMMA PerhapsStays ==
    ASSUME IInv, TablesInv, Work, NEW column, NEW value
    PROVE  /\ PerhapsClassified(column, value) \in SUBSET RunIds
           /\ PerhapsClassified(column, value)' \in SUBSET RunIds
           /\ PerhapsClassified(column, value) \subseteq PerhapsClassified(column, value)'
           /\ Cardinality(PerhapsClassified(column, value))
                 <= Cardinality(PerhapsClassified(column, value)')
<1>1. /\ PerhapsClassified(column, value) \in SUBSET RunIds
      /\ PerhapsClassified(column, value)' \in SUBSET RunIds
  BY DEF PerhapsClassified, Linked
<1>2. ASSUME NEW r \in PerhapsClassified(column, value)
      PROVE  r \in PerhapsClassified(column, value)'
  <2>1. /\ r \in RunIds /\ r \in Linked(Polled) /\ Classified(r)
        /\ run_failures[r][column] = value \/ ClassifiedUnlinked(r)
    BY <1>1, <1>2 DEF PerhapsClassified
  <2>2. r \in Linked(Polled)'
    BY <2>1, LinkedStays, PolledAssumption
  <2>3. /\ Classified(r)'
        /\ ClassifiedUnlinked(r) => ClassifiedUnlinked(r)'
    BY <2>1, ClassifiedStays
  <2>4. run_failures'[r] = run_failures[r] \/ ClassifiedUnlinked(r)'
    BY <2>1, ClassifiedStep DEF TablesInv
  <2>. QED
    BY <2>1, <2>2, <2>3, <2>4 DEF PerhapsClassified
<1>. QED
  BY <1>1, <1>2, MoreRuns

\* Every evaluation of a regression's runs stays one, and what it is.
LEMMA EvaluationsGrow ==
    ASSUME IInv, TablesInv, Work
    PROVE  /\ Evaluations(Polled) \subseteq Evaluations(Polled)'
           /\ \A x \in Evaluations(Polled) : evaluation_results'[x] = evaluation_results[x]
<1>1. TypeOK /\ TypeOK' /\ [Next]_vars
  BY WorkIsNext, NextTypeOK DEF IInv
<1>2. DOMAIN evaluation_results = RunIds \cup Clients
      /\ DOMAIN evaluation_results' = RunIds \cup Clients
  BY <1>1 DEF TypeOK
<1>3. Linked(Polled) \subseteq Linked(Polled)'
  BY LinkedStays, PolledAssumption
<1>4. ASSUME NEW x \in Evaluations(Polled)
      PROVE  /\ evaluation_results'[x] = evaluation_results[x]
             /\ x \in Evaluations(Polled)'
  <2>1. /\ x \in RunIds \cup Clients /\ evaluation_results[x] # None
        /\ evaluation_results[x].run_id \in Linked(Polled)
    BY <1>2 DEF Evaluations
  <2>2. evaluation_results'[x] = evaluation_results[x]
    BY <1>1, <2>1, EvaluationsStay
  <2>. QED
    BY <1>2, <1>3, <2>1, <2>2 DEF Evaluations
<1>. QED
  BY <1>4

\* No step makes a query count less than it would have before.
LEMMA QueriesGrow ==
    ASSUME IInv, TablesInv, Work
    PROVE  /\ Total(PassRateSummary(Linked(Polled)))
                 <= Total(PassRateSummary(Linked(Polled)))'
           /\ SumOf(PassRateSummary(Linked(Polled)).counts)
                 <= SumOf(PassRateSummary(Linked(Polled)).counts)'
           /\ \A counts \in Columns :
                 Grows(Column(EvaluatorPassRates(Polled), counts),
                       Column(EvaluatorPassRates(Polled), counts)')
           /\ AgentMetrics(Polled) <= AgentMetrics(Polled)'
           /\ EvaluationMetrics(Polled) <= EvaluationMetrics(Polled)'
<1>. DEFINE L == Linked(Polled)
            M == Linked(Polled)'
            E == Evaluations(Polled)
            F == Evaluations(Polled)'
<1>1. /\ L \in SUBSET RunIds /\ M \in SUBSET RunIds
      /\ L \subseteq M
      /\ \A r \in RunIds : Classified(r) => Classified(r)'
      /\ TypeOK
  BY PolledAssumption, LinkedStays, ClassifiedStays DEF Linked, IInv
<1>2. TypeOK'
  BY <1>1, WorkIsNext, NextTypeOK
<1>3. /\ E \subseteq F
      /\ \A x \in E : evaluation_results'[x] = evaluation_results[x]
  BY EvaluationsGrow
<1>4. /\ \A x \in E : Evaluated(x)' = Evaluated(x)
      /\ \A x \in E : \A e : ResultOf(x, e)' = ResultOf(x, e)
  BY <1>3 DEF Evaluated, ResultOf
<1>5. NowCounts
  BY NowCounted
<1>6. NowCounts'
  BY NowCounted, PTL
<1>7. EvaluationsTyped'
  BY <1>2, EvaluationFacts, PTL
<1>. HIDE DEF L, M, E, F
<1>8. Cardinality(L) <= Cardinality(M)
  BY <1>1, MoreRuns
<1>9. Total(PassRateSummary(L)) <= Total(PassRateSummary(L))'
  BY <1>5, <1>6, <1>8 DEF NowCounts, L, M
<1>10. SumOf(PassRateSummary(L).counts) <= SumOf(PassRateSummary(L).counts)'
  <2>1. Cardinality({r \in L : Classified(r)}) <= Cardinality({r \in M : Classified(r)'})
    BY <1>1, MoreRuns
  <2>2. BucketsHold /\ BucketsHold'
    BY <1>1, <1>2, BucketsSumUp, PTL
  <2>. QED
    BY <2>1, <2>2 DEF BucketsHold, L, M
<1>11. ASSUME NEW counts \in Columns
       PROVE  Grows(Column(EvaluatorPassRates(Polled), counts),
                    Column(EvaluatorPassRates(Polled), counts)')
  <2>. DEFINE old == Column(EvaluatorPassRates(Polled), counts)
              new == Column(EvaluatorPassRates(Polled), counts)'
              Was(e) == {x \in E : e \in Evaluated(x) /\ ResultOf(x, e) \in ResultsOf(counts)}
              Is(e) == {x \in F : e \in Evaluated(x)' /\ ResultOf(x, e)' \in ResultsOf(counts)}
  <2>1. /\ DOMAIN old = Heard
        /\ \A e \in Heard : old[e] = Cardinality(Was(e))
    BY <1>5 DEF NowCounts, E
  <2>2. /\ DOMAIN new = Heard'
        /\ \A e \in Heard' : new[e] = Cardinality(Is(e))
    BY <1>6 DEF NowCounts, F, ResultsOf, Columns
  <2>. HIDE DEF old, new
  <2>3. Heard \subseteq Heard'
    BY <1>3, <1>4 DEF Heard, E, F
  <2>4. ASSUME NEW e PROVE Cardinality(Was(e)) <= Cardinality(Is(e))
    <3>1. Was(e) \in SUBSET Is(e)
      BY <1>3, <1>4
    <3>2. IsFiniteSet(Is(e))
      <4>1. Is(e) \in SUBSET F
        OBVIOUS
      <4>. QED
        BY <1>7, <4>1 DEF EvaluationsTyped, F
    <3>. QED
      BY <3>1, <3>2, FS_Subset
  <2>5. \A e \in DOMAIN old : old[e] <= new[e]
    <3>. HIDE DEF Was, Is
    <3>. QED
      BY <2>1, <2>2, <2>3, <2>4
  <2>6. Grows(old, new)
    BY <2>1, <2>2, <2>3, <2>5 DEF Grows
  <2>. QED
    BY <2>6 DEF old, new
<1>12. AgentMetrics(Polled) <= AgentMetrics(Polled)'
  BY <1>8 DEF AgentMetrics, L, M
<1>13. EvaluationMetrics(Polled) <= EvaluationMetrics(Polled)'
  <2>. DEFINE S == {x \in E : evaluation_results[x].complete}
              T == {x \in F : evaluation_results'[x].complete}
              f == [x \in T |-> evaluation_results'[x].assessment.judge_calls]
  <2>1. S \in SUBSET T
    BY <1>3
  <2>2. NatFinite(f)
    <3>1. T \in SUBSET F
      OBVIOUS
    <3>. HIDE DEF T
    <3>2. IsFiniteSet(T) /\ \A x \in T : evaluation_results'[x].assessment.judge_calls \in Nat
      BY <1>7, <3>1 DEF EvaluationsTyped, F
    <3>. QED
      BY <3>2 DEF NatFinite
  <2>3. SumOf([x \in S |-> f[x]]) <= SumOf(f)
    BY <2>1, <2>2, SumGrows
  <2>4. [x \in S |-> f[x]] = [x \in S |-> evaluation_results[x].assessment.judge_calls]
    BY <1>3, <2>1
  <2>5. SumOf([x \in S |-> evaluation_results[x].assessment.judge_calls]) <= SumOf(f)
    BY <2>3, <2>4
  <2>. QED
    BY <2>5 DEF EvaluationMetrics, E, F
<1>. QED
  BY <1>9, <1>10, <1>11, <1>12, <1>13 DEF L

\* What grew twice grew.
LEMMA GrowsOn ==
    ASSUME NEW old, NEW mid, NEW new, NatValued(old), NatValued(mid), NatValued(new),
           Grows(old, mid), Grows(mid, new)
    PROVE  Grows(old, new)
<1>1. DOMAIN old \subseteq DOMAIN new
  BY DEF Grows
<1>2. ASSUME NEW x \in DOMAIN old PROVE old[x] <= new[x]
  <2>1. x \in DOMAIN mid /\ x \in DOMAIN new
    BY <1>2 DEF Grows
  <2>2. old[x] <= mid[x] /\ mid[x] <= new[x]
    BY <1>2, <2>1 DEF Grows
  <2>3. old[x] \in Nat /\ mid[x] \in Nat /\ new[x] \in Nat
    BY <1>2, <2>1 DEF NatValued
  <2>. DEFINE a == old[x]
              b == mid[x]
              c == new[x]
  <2>. HIDE DEF a, b, c
  <2>4. a <= b /\ b <= c /\ a \in Nat /\ b \in Nat /\ c \in Nat
    BY <2>2, <2>3 DEF a, b, c
  <2>5. a <= c
    BY <2>4
  <2>. QED
    BY <2>5 DEF a, c
<1>. QED
  BY <1>1, <1>2 DEF Grows

\* And what grew once is not less.
LEMMA GrowsAtOnce ==
    ASSUME NEW f, NatValued(f) PROVE Grows(f, f)
BY DEF NatValued, Grows

\* The baseline a regression was compared with is the one it is compared with.
LEMMA ComparisonStays ==
    ASSUME IInv, TablesInv, Work, Comparison # None
    PROVE  Comparison' = Comparison
<1>1. Baselines # {}
  BY DEF Comparison
<1>2. Baselines \subseteq Baselines' /\ OneBaseline'
  BY BaselineStays DEF TablesInv
<1>3. Baselines' = Baselines
  BY <1>1, <1>2 DEF OneBaseline
<1>. QED
  BY <1>3 DEF Comparison

\* What was counted among the runs classified so stays counted among them.
LEMMA StillAmong ==
    ASSUME IInv, TablesInv, Work, NEW counts, NEW column,
           NatValued(counts), CountedAmong(counts, column)
    PROVE  \A value \in DOMAIN counts :
              counts[value] <= Cardinality(PerhapsClassified(column, value)')
<1>. SUFFICES ASSUME NEW value \in DOMAIN counts
              PROVE  counts[value] <= Cardinality(PerhapsClassified(column, value)')
  OBVIOUS
<1>. DEFINE a == counts[value]
            S == PerhapsClassified(column, value)
            T == PerhapsClassified(column, value)'
            b == Cardinality(S)
            c == Cardinality(T)
<1>1. a \in Nat /\ a <= b
  BY DEF NatValued, CountedAmong
<1>2. S \in SUBSET RunIds /\ T \in SUBSET RunIds /\ b <= c
  BY PerhapsStays
<1>3. b \in Nat /\ c \in Nat
  BY <1>2, RunsAreFinite
<1>. HIDE DEF a, b, c
<1>4. a <= c
  BY <1>1, <1>2, <1>3
<1>. QED
  BY <1>4 DEF a, c

\* While others work, a report stays and what it would count grows.
LEMMA ProgressOfWork ==
    ASSUME IInv, TablesInv, ProgressInv, Work, UNCHANGED <<query, report>>
    PROVE  ProgressInv'
<1>1. NowIsNat
  BY CountsAreNat DEF IInv
<1>2. NowIsNat'
  <2>1. TypeOK'
    BY WorkIsNext, NextTypeOK DEF IInv
  <2>. QED
    BY <2>1, CountsAreNat, PTL
<1>. DEFINE buckets == SumOf(PassRateSummary(Linked(Polled)).counts)
            total == Total(PassRateSummary(Linked(Polled)))
            evaluators(counts) == Column(EvaluatorPassRates(Polled), counts)
            runs == AgentMetrics(Polled)
            calls == EvaluationMetrics(Polled)
<1>3. /\ total <= total' /\ buckets <= buckets'
      /\ \A counts \in Columns : Grows(evaluators(counts), evaluators(counts)')
      /\ runs <= runs' /\ calls <= calls'
  BY QueriesGrow
<1>4. /\ total \in Nat /\ total' \in Nat /\ buckets \in Nat /\ buckets' \in Nat
      /\ runs \in Nat /\ runs' \in Nat /\ calls \in Nat /\ calls' \in Nat
      /\ \A counts \in Columns :
            NatValued(evaluators(counts)) /\ NatValued(evaluators(counts)')
  BY <1>1, <1>2 DEF NowIsNat, NatValued, Columns
<1>5. /\ report.overall # None =>
            /\ Total(report.overall) \in Nat /\ SumOf(report.overall.counts) \in Nat
            /\ NatValued(report.overall.counts)
            /\ Total(report.overall) <= total /\ SumOf(report.overall.counts) <= buckets
            /\ CountedAmong(report.overall.counts, "overall_status")
      /\ report.by_evaluator # None =>
            \A counts \in Columns :
               /\ NatValued(Column(report.by_evaluator, counts))
               /\ Grows(Column(report.by_evaluator, counts), evaluators(counts))
      /\ report.failure_distribution # None =>
            /\ NatValued(report.failure_distribution)
            /\ CountedAmong(report.failure_distribution, "primary_category")
      /\ report.agent # None => report.agent \in Nat /\ report.agent <= runs
      /\ report.evaluation # None => report.evaluation \in Nat /\ report.evaluation <= calls
      /\ report.baseline # None => report.baseline = Comparison
  BY DEF ProgressInv, ReportsNeverGoBack, Columns
<1>. HIDE DEF buckets, total, evaluators, runs, calls
<1>6. report.overall # None =>
         /\ Total(report.overall) <= total'
         /\ SumOf(report.overall.counts) <= buckets'
  <2>. DEFINE t == Total(report.overall)
              u == SumOf(report.overall.counts)
  <2>. HIDE DEF t, u
  <2>1. report.overall # None => t \in Nat /\ t <= total /\ u \in Nat /\ u <= buckets
    BY <1>5 DEF t, u
  <2>2. report.overall # None => t <= total' /\ u <= buckets'
    BY <1>3, <1>4, <2>1
  <2>. QED
    BY <2>2 DEF t, u
<1>7. /\ report.overall # None =>
            \A value \in DOMAIN report.overall.counts :
               report.overall.counts[value]
                  <= Cardinality(PerhapsClassified("overall_status", value)')
      /\ report.failure_distribution # None =>
            \A value \in DOMAIN report.failure_distribution :
               report.failure_distribution[value]
                  <= Cardinality(PerhapsClassified("primary_category", value)')
  BY <1>5, StillAmong
<1>8. report.by_evaluator # None =>
         \A counts \in Columns : Grows(Column(report.by_evaluator, counts), evaluators(counts)')
  <2>. SUFFICES ASSUME report.by_evaluator # None, NEW counts \in Columns
                PROVE  Grows(Column(report.by_evaluator, counts), evaluators(counts)')
    OBVIOUS
  <2>1. /\ NatValued(Column(report.by_evaluator, counts))
        /\ Grows(Column(report.by_evaluator, counts), evaluators(counts))
        /\ NatValued(evaluators(counts)) /\ NatValued(evaluators(counts)')
        /\ Grows(evaluators(counts), evaluators(counts)')
    BY <1>3, <1>4, <1>5
  <2>. QED
    BY <2>1, GrowsOn
<1>9. report.agent # None => report.agent <= runs'
  <2>. DEFINE t == report.agent
  <2>. HIDE DEF t
  <2>1. t # None => t <= runs'
    <3>1. t # None => t \in Nat /\ t <= runs
      BY <1>5 DEF t
    <3>. QED
      BY <1>3, <1>4, <3>1
  <2>. QED
    BY <2>1 DEF t
<1>10. report.evaluation # None => report.evaluation <= calls'
  <2>. DEFINE t == report.evaluation
  <2>. HIDE DEF t
  <2>1. t # None => t <= calls'
    <3>1. t # None => t \in Nat /\ t <= calls
      BY <1>5 DEF t
    <3>. QED
      BY <1>3, <1>4, <3>1
  <2>. QED
    BY <2>1 DEF t
<1>11. report.baseline # None => report.baseline = Comparison'
  BY <1>5, ComparisonStays
<1>12. report' = report /\ query' = query
  OBVIOUS
<1>13. ReportsNeverGoBack'
  BY <1>6, <1>7, <1>8, <1>9, <1>10, <1>11, <1>12
     DEF ReportsNeverGoBack, CountedAmong, buckets, total, evaluators, runs, calls, Columns,
         Column, Total
<1>. QED
  BY <1>5, <1>12, <1>13 DEF ProgressInv, Total, NatValued, Column

\* Without a change to the tables every query counts the same.
LEMMA CountsStand ==
    ASSUME UNCHANGED vars
    PROVE  /\ (PassRateSummary(Linked(Polled)).counts)' = PassRateSummary(Linked(Polled)).counts
           /\ Total(PassRateSummary(Linked(Polled)))' = Total(PassRateSummary(Linked(Polled)))
           /\ SumOf(PassRateSummary(Linked(Polled)).counts)'
                 = SumOf(PassRateSummary(Linked(Polled)).counts)
           /\ EvaluatorPassRates(Polled)' = EvaluatorPassRates(Polled)
           /\ FailureDistribution(Polled)' = FailureDistribution(Polled)
           /\ \A column, value :
                 PerhapsClassified(column, value)' = PerhapsClassified(column, value)
           /\ AgentMetrics(Polled)' = AgentMetrics(Polled)
           /\ EvaluationMetrics(Polled)' = EvaluationMetrics(Polled)
           /\ Comparison' = Comparison
<1>1. /\ Linked(Polled)' = Linked(Polled)
      /\ run_failures' = run_failures /\ evaluation_results' = evaluation_results
  BY DEF vars, tables, Linked
<1>2. /\ PassRateSummary(Linked(Polled))' = PassRateSummary(Linked(Polled))
      /\ (PassRateSummary(Linked(Polled)).counts)' = PassRateSummary(Linked(Polled)).counts
      /\ FailureDistribution(Polled)' = FailureDistribution(Polled)
      /\ AgentMetrics(Polled)' = AgentMetrics(Polled)
      /\ \A column, value :
            PerhapsClassified(column, value)' = PerhapsClassified(column, value)
  BY <1>1 DEF PassRateSummary, FailureDistribution, AgentMetrics, Count, Classified,
     PerhapsClassified, ClassifiedUnlinked
<1>3. /\ Evaluations(Polled)' = Evaluations(Polled)
      /\ \A x : Evaluated(x)' = Evaluated(x)
      /\ \A x, e : ResultOf(x, e)' = ResultOf(x, e)
  BY <1>1 DEF Evaluations, Evaluated, ResultOf
<1>4. EvaluatorPassRates(Polled)' = EvaluatorPassRates(Polled)
  BY <1>3 DEF EvaluatorPassRates, Count
<1>5. EvaluationMetrics(Polled)' = EvaluationMetrics(Polled)
  BY <1>1, <1>3 DEF EvaluationMetrics
<1>6. Comparison' = Comparison
  BY DEF vars, tables, Comparison, Baselines
<1>. QED
  BY <1>2, <1>4, <1>5, <1>6 DEF Total, SumOf, MapThenSumSet, MapThenFoldSet

\* A query leaves what the other queries have found.
LEMMA ReadFacts ==
    ASSUME DOMAIN report = DOMAIN NoReport, NEW this \in DOMAIN NoReport,
           NEW found, NEW next, Read(this, found, next)
    PROVE  /\ DOMAIN report' = DOMAIN NoReport
           /\ report'[this] = found
           /\ \A x \in DOMAIN NoReport \ {this} : report'[x] = report[x]
           /\ query = this /\ query' = next
BY DEF Read, NoReport

\* A query counts what there is, and the report is on from there.
LEMMA ProgressOfReads ==
    ASSUME TypeOK, ProgressInv, GetRegression, UNCHANGED vars
    PROVE  ProgressInv'
<1>. DEFINE summary == PassRateSummary(Linked(Polled))
            evaluators(counts) == Column(EvaluatorPassRates(Polled), counts)
            failures == FailureDistribution(Polled)
            runs == AgentMetrics(Polled)
            calls == EvaluationMetrics(Polled)
            Among(counts, column) ==
                \A value \in DOMAIN counts :
                    counts[value] <= Cardinality(PerhapsClassified(column, value))
<1>1. /\ Total(summary) \in Nat /\ SumOf(summary.counts) \in Nat
      /\ runs \in Nat /\ calls \in Nat
      /\ NatValued(summary.counts) /\ NatValued(failures)
      /\ \A counts \in Columns : NatValued(evaluators(counts))
      /\ Total(summary) <= Total(summary) /\ SumOf(summary.counts) <= SumOf(summary.counts)
      /\ runs <= runs /\ calls <= calls
  BY CountsAreNat DEF NowIsNat
<1>2. /\ \A counts \in Columns : Grows(evaluators(counts), evaluators(counts))
      /\ Among(summary.counts, "overall_status") /\ Among(failures, "primary_category")
  BY <1>1, GrowsAtOnce, CountedAmongNow DEF CountedAmong
<1>3. /\ Total(summary)' = Total(summary) /\ SumOf(summary.counts)' = SumOf(summary.counts)
      /\ EvaluatorPassRates(Polled)' = EvaluatorPassRates(Polled)
      /\ runs' = runs /\ calls' = calls /\ Comparison' = Comparison
      /\ \A column, value :
            PerhapsClassified(column, value)' = PerhapsClassified(column, value)
  BY CountsStand
<1>4. DOMAIN report = DOMAIN NoReport
  BY DEF ProgressInv
<1>. DEFINE Overall == report'.overall # None =>
                            /\ Total(report'.overall) \in Nat
                            /\ SumOf(report'.overall.counts) \in Nat
                            /\ NatValued(report'.overall.counts)
                            /\ Total(report'.overall) <= Total(summary)
                            /\ SumOf(report'.overall.counts) <= SumOf(summary.counts)
                            /\ Among(report'.overall.counts, "overall_status")
            ByEvaluator == report'.by_evaluator # None =>
                            \A counts \in Columns :
                              /\ NatValued(Column(report'.by_evaluator, counts))
                              /\ Grows(Column(report'.by_evaluator, counts), evaluators(counts))
            Failing == report'.failure_distribution # None =>
                            /\ NatValued(report'.failure_distribution)
                            /\ Among(report'.failure_distribution, "primary_category")
            Agent == report'.agent # None => report'.agent \in Nat /\ report'.agent <= runs
            Calls == report'.evaluation # None =>
                            report'.evaluation \in Nat /\ report'.evaluation <= calls
            Baseline == report'.baseline # None => report'.baseline = Comparison
<1>5. SUFFICES /\ query' \in Queries /\ DOMAIN report' = DOMAIN NoReport
               /\ Overall /\ ByEvaluator /\ Failing /\ Agent /\ Calls /\ Baseline
  <2>1. ASSUME Overall PROVE report'.overall # None =>
           CountedAmong(report.overall.counts, "overall_status")'
    BY <1>3, <2>1 DEF CountedAmong
  <2>2. ASSUME Failing PROVE report'.failure_distribution # None =>
           CountedAmong(report.failure_distribution, "primary_category")'
    BY <1>3, <2>2 DEF CountedAmong
  <2>3. ASSUME ByEvaluator PROVE report'.by_evaluator # None =>
           \A counts \in Columns :
              /\ NatValued(Column(report.by_evaluator, counts))'
              /\ Grows(Column(report.by_evaluator, counts),
                       Column(EvaluatorPassRates(Polled), counts))'
    BY <1>3, <2>3 DEF Column, NatValued, Grows
  <2>. QED
    BY <1>3, <2>1, <2>2, <2>3
       DEF ProgressInv, ReportsNeverGoBack, Total, NatValued, Columns
<1>6. /\ report'.overall = report.overall => Overall
      /\ report'.by_evaluator = report.by_evaluator => ByEvaluator
      /\ report'.failure_distribution = report.failure_distribution => Failing
      /\ report'.agent = report.agent => Agent
      /\ report'.evaluation = report.evaluation => Calls
      /\ report'.baseline = report.baseline => Baseline
  BY DEF ProgressInv, ReportsNeverGoBack, CountedAmong, Columns
<1>. HIDE DEF summary, evaluators, failures, runs, calls, Among
<1>7. CASE ReadRecord
  <2>1. DOMAIN report' = DOMAIN NoReport /\ query' \in Queries
    BY <1>7 DEF ReadRecord, NoReport, Queries
  <2>2. /\ report'.overall = None /\ report'.by_evaluator = None
        /\ report'.failure_distribution = None /\ report'.agent = None
        /\ report'.evaluation = None /\ report'.baseline = None
    BY <1>7 DEF ReadRecord, NoReport
  <2>. QED
    BY <2>1, <2>2
<1>8. CASE ReadOverall
  <2>1. report'.overall = PassRateSummary(Linked(Polled))
    BY <1>4, <1>8, ReadFacts DEF ReadOverall, NoReport
  <2>2. Overall
    BY <1>1, <1>2, <2>1 DEF summary
  <2>. QED
    BY <1>4, <1>6, <1>8, <2>2, ReadFacts DEF ReadOverall, NoReport, Queries
<1>9. CASE ReadByScenario
  BY <1>4, <1>6, <1>9, ReadFacts DEF ReadByScenario, NoReport, Queries
<1>10. CASE ReadByEvaluator
  <2>1. report'.by_evaluator = EvaluatorPassRates(Polled)
    BY <1>4, <1>10, ReadFacts DEF ReadByEvaluator, NoReport
  <2>2. ByEvaluator
    BY <1>1, <1>2, <2>1 DEF evaluators
  <2>. QED
    BY <1>4, <1>6, <1>10, <2>2, ReadFacts DEF ReadByEvaluator, NoReport, Queries
<1>11. CASE ReadFailureDistribution
  <2>1. report'.failure_distribution = failures
    BY <1>4, <1>11, ReadFacts DEF ReadFailureDistribution, NoReport, failures
  <2>2. Failing
    BY <1>1, <1>2, <2>1
  <2>. QED
    BY <1>4, <1>6, <1>11, <2>2, ReadFacts DEF ReadFailureDistribution, NoReport, Queries
<1>12. CASE ReadAgentMetrics
  <2>1. report'.agent = runs
    BY <1>4, <1>12, ReadFacts DEF ReadAgentMetrics, NoReport, runs
  <2>2. Agent
    BY <1>1, <2>1
  <2>. QED
    BY <1>4, <1>6, <1>12, <2>2, ReadFacts DEF ReadAgentMetrics, NoReport, Queries
<1>13. CASE ReadEvaluationMetrics
  <2>1. report'.evaluation = calls
    BY <1>4, <1>13, ReadFacts DEF ReadEvaluationMetrics, NoReport, calls
  <2>2. Calls
    BY <1>1, <2>1
  <2>. QED
    BY <1>4, <1>6, <1>13, <2>2, ReadFacts DEF ReadEvaluationMetrics, NoReport, Queries
<1>14. CASE ReadBaseline
  <2>1. report'.baseline = Comparison
    BY <1>4, <1>14, ReadFacts DEF ReadBaseline, NoReport
  <2>. QED
    BY <1>4, <1>6, <1>14, <2>1, ReadFacts DEF ReadBaseline, NoReport, Queries
<1>. QED
  BY <1>7, <1>8, <1>9, <1>10, <1>11, <1>12, <1>13, <1>14 DEF GetRegression

\* Every classified run is in a bucket, so every repetition that the runner
\* has counted is.
LEMMA BucketsHoldCreated ==
    ASSUME IInv, TablesInv
    PROVE  LET counts == PassRateSummary(Linked(Polled)).counts
           IN /\ SumOf(counts) \in Nat
              /\ SumOf(counts) >= Cardinality(created_run_ids[Polled])
<1>. DEFINE all == {r \in Linked(Polled) : Classified(r)}
            created == created_run_ids[Polled]
<1>1. SumOf(PassRateSummary(Linked(Polled)).counts) = Cardinality(all)
  BY BucketsSumUp DEF BucketsHold, IInv
<1>2. all \in SUBSET RunIds /\ created \in SUBSET all /\ created \in SUBSET RunIds
  BY PolledAssumption DEF Linked, TablesInv, CreatedInv
<1>. HIDE DEF all, created
<1>3. /\ Cardinality(created) <= Cardinality(all)
      /\ Cardinality(all) \in Nat /\ Cardinality(created) \in Nat
  BY <1>2, MoreRuns, RunsAreFinite
<1>. QED
  BY <1>1, <1>3 DEF created

\* Every linked run that has a scenario is under that one.  When the task has
\* ended no run waits for its linkage, and without faults each has one.
LEMMA ScenariosPartition ==
    ASSUME IInv, TablesInv, Ended
    PROVE  LET rates == ScenarioPassRates(Polled)
           IN /\ SumOf([s \in DOMAIN rates |-> Total(rates[s])]) = Cardinality(Named)
              /\ Named = Linked(Polled) \/ Faults
<1>. DEFINE L == Linked(Polled)
            N == Named
            D == {agent_runs[r].scenario_id : r \in L} \ {None}
            P == [s \in D |-> {r \in L : agent_runs[r].scenario_id = s}]
            rates == ScenarioPassRates(Polled)
<1>1. L \in SUBSET RunIds
  BY DEF Linked
<1>2. ASSUME ~Faults, NEW r \in L PROVE agent_runs[r].scenario_id # None
  <2>1. r \in RunIds /\ RowInv(r) /\ agent_runs[r].regression_run_id = Polled
        /\ agent_runs[r] # None /\ r[2] # None /\ Polled # None
    BY <1>1, RunIdIsTriple, PolledAssumption, NoneIsNoName DEF TablesInv, Linked
  <2>2. r[1] = Polled
    BY <2>1 DEF RowInv
  <2>3. pc[r[1]] # "link"
    BY <2>2 DEF Ended
  <2>. QED
    BY <1>2, <2>1, <2>2, <2>3 DEF RowInv
<1>3. IsFiniteSet(L)
  BY <1>1, RunsAreFinite
<1>4. IsFiniteSet(D)
  <2>. DEFINE name == [r \in L |-> agent_runs[r].scenario_id]
              names == {name[r] : r \in L}
  <2>1. name \in Surjection(L, names)
    BY DEF Surjection
  <2>2. D \in SUBSET names
    OBVIOUS
  <2>. HIDE DEF L, D, name, names
  <2>3. IsFiniteSet(names)
    BY <1>3, <2>1, FS_Surjection
  <2>. QED
    BY <2>2, <2>3, FS_Subset
<1>5. DOMAIN rates = D
  BY DEF ScenarioPassRates
<1>6. ASSUME NEW s \in D PROVE Total(rates[s]) = Cardinality(P[s])
  <2>1. rates[s] = PassRateSummary(P[s])
    BY DEF ScenarioPassRates
  <2>2. P[s] \in SUBSET RunIds
    BY <1>1
  <2>. HIDE DEF P, rates
  <2>. QED
    BY <2>1, <2>2, TotalOfRuns
<1>7. UNION {P[s] : s \in D} = N
  <2>1. ASSUME NEW r \in N PROVE r \in UNION {P[s] : s \in D}
    <3>. DEFINE s == agent_runs[r].scenario_id
    <3>1. s \in D
      BY DEF Named
    <3>2. r \in P[s]
      BY <3>1 DEF Named
    <3>. HIDE DEF P, D, s
    <3>. QED
      BY <3>1, <3>2
  <2>2. ASSUME NEW s \in D PROVE P[s] \subseteq N
    BY DEF Named
  <2>. HIDE DEF P, D, N
  <2>. QED
    BY <2>1, <2>2
<1>8. P \in [D -> SUBSET L] /\ \A x, y \in D : x # y => P[x] \cap P[y] = {}
  OBVIOUS
<1>. HIDE DEF L, N, D, P, rates
<1>9. SumOf([s \in D |-> Cardinality(P[s])]) = Cardinality(UNION {P[s] : s \in D})
  BY <1>3, <1>4, <1>8, SumOfCounts
<1>10. [s \in DOMAIN rates |-> Total(rates[s])] = [s \in D |-> Cardinality(P[s])]
  BY <1>5, <1>6
<1>11. SumOf([s \in DOMAIN rates |-> Total(rates[s])]) = Cardinality(N)
  BY <1>7, <1>9, <1>10
<1>12. N = Linked(Polled) \/ Faults
  BY <1>2 DEF L, N, Named
<1>. QED
  BY <1>11, <1>12 DEF N, rates

\* Nothing that others do takes the last word back.
LEMMA FinalOfWork ==
    ASSUME IInv, TablesInv, FinalInv, Work, UNCHANGED <<query, report>>
    PROVE  FinalInv'
<1>1. query' = query /\ report' = report
  OBVIOUS
<1>2. Ended => /\ Ended'
               /\ Linked(Polled)' = Linked(Polled) /\ Named' = Named
               /\ created_run_ids'[Polled] = created_run_ids[Polled]
  BY EndedStands
<1>. QED
  BY <1>1, <1>2 DEF FinalInv, Total, SumOf, MapThenSumSet, MapThenFoldSet

\* A report reads completed or failed of an ended task only, and what it
\* counts after that is what there is.
LEMMA FinalOfReads ==
    ASSUME IInv, TablesInv, ProgressInv, FinalInv, GetRegression, UNCHANGED vars
    PROVE  FinalInv'
<1>. DEFINE runs == Cardinality(Linked(Polled))
            created == Cardinality(created_run_ids[Polled])
            OverallOf(o) == /\ Total(o) = runs
                            /\ SumOf(o.counts) \in Nat
                            /\ SumOf(o.counts) >= created
            ScenariosOf(b) == /\ SumOf([s \in DOMAIN b |-> Total(b[s])]) = Cardinality(Named)
                              /\ Named = Linked(Polled) \/ Faults
<1>1. /\ Linked(Polled)' = Linked(Polled) /\ Named' = Named
      /\ created_run_ids'[Polled] = created_run_ids[Polled]
      /\ Ended' <=> Ended
  BY DEF vars, tables, memory, Linked, Named, Ended
<1>2. DOMAIN report = DOMAIN NoReport /\ Polled \in Creates
  BY PolledAssumption DEF ProgressInv
<1>3. SUFFICES ASSUME report'.status # None, report'.status \in {"completed", "failed"}
               PROVE  /\ Ended
                      /\ query' # "overall" => OverallOf(report'.overall)
                      /\ query' \notin {"overall", "by_scenario"} =>
                            ScenariosOf(report'.by_scenario)
                      /\ query' \in {"evaluation", "baseline", "record"} =>
                            report'.agent = runs
  BY <1>1 DEF FinalInv, Total, SumOf, MapThenSumSet, MapThenFoldSet
<1>4. CASE ReadRecord
  <2>1. /\ query' = "overall" /\ regression_runs[Polled] # None
        /\ regression_runs[Polled].status \in {"completed", "failed"}
    BY <1>3, <1>4 DEF ReadRecord, NoReport
  <2>2. Ended
    BY <1>2, <2>1 DEF Ended, TablesInv, CreatedInv, IInv, StatusInv
  <2>. QED
    BY <2>1, <2>2
<1>5. ASSUME query # "record", report'.status = report.status
      PROVE  /\ Ended
             /\ query # "overall" => OverallOf(report.overall)
             /\ query \notin {"overall", "by_scenario"} => ScenariosOf(report.by_scenario)
             /\ query \in {"evaluation", "baseline", "record"} => report.agent = runs
  BY <1>3, <1>5 DEF FinalInv
<1>6. OverallOf(PassRateSummary(Linked(Polled)))
  <2>1. Linked(Polled) \in SUBSET RunIds
    BY DEF Linked
  <2>. QED
    BY <2>1, BucketsHoldCreated, TotalOfRuns
<1>7. Ended => ScenariosOf(ScenarioPassRates(Polled))
  BY ScenariosPartition
<1>. HIDE DEF OverallOf, ScenariosOf, runs, created
<1>8. CASE ReadOverall
  BY <1>2, <1>5, <1>6, <1>8, ReadFacts DEF ReadOverall, NoReport
<1>9. CASE ReadByScenario
  <2>1. /\ query = "by_scenario" /\ query' = "by_evaluator"
        /\ report'.by_scenario = ScenarioPassRates(Polled)
        /\ report'.status = report.status /\ report'.overall = report.overall
    BY <1>2, <1>9, ReadFacts DEF ReadByScenario, NoReport
  <2>2. Ended /\ OverallOf(report.overall)
    BY <1>5, <2>1
  <2>. QED
    BY <1>7, <2>1, <2>2
<1>10. CASE ReadByEvaluator
  BY <1>2, <1>5, <1>10, ReadFacts DEF ReadByEvaluator, NoReport
<1>11. CASE ReadFailureDistribution
  BY <1>2, <1>5, <1>11, ReadFacts DEF ReadFailureDistribution, NoReport
<1>12. CASE ReadAgentMetrics
  BY <1>2, <1>5, <1>12, ReadFacts DEF ReadAgentMetrics, NoReport, AgentMetrics, runs
<1>13. CASE ReadEvaluationMetrics
  BY <1>2, <1>5, <1>13, ReadFacts DEF ReadEvaluationMetrics, NoReport
<1>14. CASE ReadBaseline
  BY <1>2, <1>5, <1>14, ReadFacts DEF ReadBaseline, NoReport
<1>. QED
  BY <1>4, <1>8, <1>9, <1>10, <1>11, <1>12, <1>13, <1>14 DEF GetRegression

-----------------------------------------------------------------------------
(* Invariance, and what follows from it.                                   *)

\* Nothing is stored and nothing is reported.
LEMMA InitRInv == RInit => RInv
<1>. SUFFICES ASSUME RInit PROVE RInv
  OBVIOUS
<1>1. IInv
  BY InitIInv DEF RInit
<1>2. TablesInv
  BY DEF RInit, Init, TablesInv, RowInv, ClassifiedInv, Classified, CreatedInv, OneBaseline,
     Baselines, Linked
<1>3. ProgressInv /\ FinalInv
  BY DEF RInit, NoReport, ProgressInv, ReportsNeverGoBack, FinalInv, Queries
<1>. QED
  BY <1>1, <1>2, <1>3 DEF RInv

\* Every step keeps the invariant.
LEMMA NextRInv == RInv /\ [RNext]_rvars => RInv'
<1>. SUFFICES ASSUME RInv, [RNext]_rvars PROVE RInv'
  OBVIOUS
<1>1. IInv'
  BY RNextIsNext, NextIInv DEF RInv
<1>2. CASE Work /\ UNCHANGED <<query, report>>
  BY <1>1, <1>2, TablesStep, ProgressOfWork, FinalOfWork DEF RInv
<1>3. UNCHANGED vars => TablesInv'
  BY DEF RInv, TablesInv, RowInv, CreatedInv, OneBaseline, Baselines, Linked, Classified,
     ClassifiedInv, ClassifiedUnlinked, RunId, Scenario, ScenarioIds, vars, tables, memory
<1>4. CASE GetRegression /\ UNCHANGED vars
  BY <1>1, <1>3, <1>4, ProgressOfReads, FinalOfReads DEF RInv, IInv
<1>5. CASE UNCHANGED rvars
  <2>1. UNCHANGED vars /\ query' = query /\ report' = report
    BY <1>5 DEF rvars
  <2>2. ProgressInv'
    BY <2>1, CountsStand DEF RInv, ProgressInv, ReportsNeverGoBack, CountedAmong,
       NatValued, Grows, Total, Column
  <2>3. FinalInv'
    BY <2>1 DEF RInv, FinalInv, Linked, Named, Ended, vars, tables, memory, Total, SumOf,
       MapThenSumSet, MapThenFoldSet
  <2>. QED
    BY <1>1, <1>3, <2>1, <2>2, <2>3 DEF RInv
<1>. QED
  BY <1>2, <1>4, <1>5 DEF RNext

\* The invariant holds of every behaviour.
LEMMA RInvariance == RSpec => []RInv
BY InitRInv, NextRInv, PTL DEF RSpec

\* Who polls a regression sees progress only: no step of the runner, of a
\* client that evaluates or of another regression makes a query count less
\* than it has counted before (aggregate_regression_run).  Only a bucket of
\* the pass rate and a category of the failures may, by the runs that an
\* evaluation begun before their linkage classified too (run_evaluation): their
\* sum never does.
THEOREM ReportsGrow == RSpec => []ReportsNeverGoBack
<1>1. RInv => ReportsNeverGoBack
  BY DEF RInv, ProgressInv
<1>. QED
  BY <1>1, RInvariance, PTL

\* A report that says completed or failed is the last word: every run of the
\* regression is in its pass rate, in its averages and under one scenario, and
\* every repetition the runner counted is in a bucket (get_regression reads
\* the status before it aggregates).
THEOREM CompletedIsFinal == RSpec => []CompletedReportIsFinal
<1>1. RInv => CompletedReportIsFinal
  BY DEF RInv, FinalInv, Named, CompletedReportIsFinal, Answered
<1>. QED
  BY <1>1, RInvariance, PTL

\* With a client that polls, the regressions still implement
\* RegressionLifecycle: a report changes none of their rows.
THEOREM ReportsRefineLifecycle == RSpec => ImplementsLifecycle
<1>1. RInit => Lifecycle!Init
  BY DEF RInit, Init, Lifecycle!Init
<1>2. RInv /\ [RNext]_rvars => [Lifecycle!Next]_regression_runs
  BY RNextIsNext, LifecycleStep DEF RInv
<1>. QED
  BY <1>1, <1>2, RInvariance, PTL DEF RSpec, ImplementsLifecycle, Lifecycle!Spec

=============================================================================
