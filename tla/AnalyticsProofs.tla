--------------------------- MODULE AnalyticsProofs ---------------------------
(***************************************************************************)
(* What the answers of Analytics add up to, for any runs, snapshots,       *)
(* classifications and requests: without a write in between breakdowns     *)
(* agree with their totals, and with any writes in between they lose       *)
(* nothing that was totalled.                                              *)
(***************************************************************************)
EXTENDS Analytics, CommonProofs, SequenceTheorems

-----------------------------------------------------------------------------
(* The inductive invariant.                                                *)

\* A stored row has the columns of the table.
IsRow(row) ==
    /\ DOMAIN row = {"status", "scenario_id", "linked", "tool_calls", "llm_calls"}
    /\ row.status \in RunStatus /\ row.scenario_id \in ScenarioIds \cup {None}
    /\ row.linked \in BOOLEAN
    /\ IsToolCalls(row.tool_calls) /\ IsLLMCalls(row.llm_calls)

TablesInv ==
    /\ StoredRuns \subseteq RunIds
    /\ \A r \in StoredRuns : IsRow(agent_runs[r])
    /\ DOMAIN run_failures \subseteq StoredRuns
    /\ \A r \in DOMAIN run_failures :
          run_failures[r] \in RunFailure /\ Coherent(run_failures[r])

RequestInv == request # None => request \in Requests

\* What the statements that others follow would return now.
Current ==
    [aggregate |-> Aggregate, statuses |-> StatusCounts, evaluations |-> EvaluationCounts,
     total |-> UsageTotals(LLMCalls), by_model |-> UsageBy("model"),
     evaluated |-> Cardinality(Evaluated), by_failure_type |-> FailedBy("primary_category"),
     summary |-> ScenarioSummary, count |-> Cardinality(Listed)]

Halfway == DOMAIN answer # {} /\ ~Answered

\* Until a write comes in between, an answer under way is what it would be now.
FreshInv ==
    ~overtaken /\ Halfway =>
        \A statement \in DOMAIN answer :
            statement \in DOMAIN Current /\ answer[statement] = Current[statement]

Asked(endpoint) == request # None /\ request.endpoint = endpoint

CallCount(breakdown) == SumOf(Column(breakdown, "call_count"))

\* What an answer under way has totalled is covered by what is broken down
\* next, or by the rows there are until then, and its rates are rates.
OverviewInv ==
    Asked("overview") =>
        /\ "aggregate" \in DOMAIN answer =>
              answer.aggregate.total \in Nat /\ ProperOrNone(RuntimeSuccessRate)
        /\ DOMAIN answer = {"aggregate"} => answer.aggregate.total <= Cardinality(InRange)
        /\ {"aggregate", "statuses"} \subseteq DOMAIN answer =>
              answer.aggregate.total <= SumOf(answer.statuses)
        /\ "evaluations" \in DOMAIN answer => ProperOrNone(BehavioralPassRate)

UsageInv ==
    Asked("usage") =>
        /\ "total" \in DOMAIN answer => answer.total.call_count \in Nat
        /\ DOMAIN answer = {"total"} => answer.total.call_count <= Cardinality(LLMCalls)
        /\ {"total", "by_model"} \subseteq DOMAIN answer =>
              /\ CallCount(answer.by_model) \in Nat
              /\ answer.total.call_count <= CallCount(answer.by_model)
        /\ DOMAIN answer = {"total", "by_model"} =>
              CallCount(answer.by_model) <= Cardinality(LLMCalls)

FailuresInv ==
    Asked("failures") =>
        /\ "evaluated" \in DOMAIN answer => answer.evaluated \in Nat
        /\ DOMAIN answer = {"evaluated"} => answer.evaluated <= Cardinality(Evaluated)
        /\ {"evaluated", "evaluations"} \subseteq DOMAIN answer =>
              answer.evaluated <= SumOf(answer.evaluations)

ScenariosInv ==
    Asked("scenarios") /\ "summary" \in DOMAIN answer =>
        \A s \in DOMAIN answer.summary : Proper(PassRate(answer.summary[s]))

ListInv ==
    Asked("runs") /\ DOMAIN answer = {"count"} =>
        /\ answer.count \in Nat
        /\ request.status = None /\ request.overall_status = None =>
              answer.count <= Cardinality(InRange)

CoverInv == OverviewInv /\ UsageInv /\ FailuresInv /\ ScenariosInv /\ ListInv

IInv ==
    /\ TablesInv /\ RequestInv /\ FreshInv /\ CoverInv
    /\ UndisturbedAnswersAddUp /\ TornAnswersLoseNothing

-----------------------------------------------------------------------------
(* Facts about the model's operators.                                      *)

\* A row of new replaces the stored one, the other stored rows stay.
LEMMA UpsertFacts ==
    ASSUME NEW new, NEW stored
    PROVE  /\ DOMAIN Upsert(new, stored) = DOMAIN new \cup DOMAIN stored
           /\ \A id \in DOMAIN new : Upsert(new, stored)[id] = new[id]
           /\ \A id \in DOMAIN stored \ DOMAIN new : Upsert(new, stored)[id] = stored[id]
           /\ Upsert(new, stored) =
                [id \in DOMAIN new \cup DOMAIN stored |-> Upsert(new, stored)[id]]
BY DEF Upsert

\* The smaller and the larger of two numbers.
LEMMA MinMaxFacts ==
    ASSUME NEW a \in Int, NEW b \in Int
    PROVE  /\ Min({a, b}) = IF a <= b THEN a ELSE b
           /\ Max({a, b}) = IF a <= b THEN b ELSE a
<1>1. Min({a, b}) \in {a, b} /\ \A y \in {a, b} : Min({a, b}) <= y
  <2>1. \E x \in {a, b} : \A y \in {a, b} : x <= y
    OBVIOUS
  <2>. QED
    BY <2>1 DEF Min
<1>2. Max({a, b}) \in {a, b} /\ \A y \in {a, b} : Max({a, b}) >= y
  <2>1. \E x \in {a, b} : \A y \in {a, b} : x >= y
    OBVIOUS
  <2>. QED
    BY <2>1 DEF Max
<1>. QED
  BY <1>1, <1>2

\* Some of finitely many elements are finitely many, and not more.
LEMMA CountFacts ==
    ASSUME NEW S, IsFiniteSet(S), NEW T \in SUBSET S
    PROVE  /\ IsFiniteSet(T)
           /\ Cardinality(T) \in Nat /\ Cardinality(S) \in Nat
           /\ Cardinality(T) <= Cardinality(S)
           /\ T # {} => Cardinality(T) > 0
<1>1. IsFiniteSet(T) /\ Cardinality(T) <= Cardinality(S)
  BY FS_Subset
<1>2. Cardinality(T) \in Nat /\ Cardinality(S) \in Nat
  BY <1>1, FS_CardinalityType
<1>3. T # {} => Cardinality(T) # 0
  BY <1>1, FS_EmptySet
<1>. QED
  BY <1>1, <1>2, <1>3

\* Two parts of a finite set that share nothing have together its size, or
\* less when there is more in it.
LEMMA CountParts ==
    ASSUME NEW S, IsFiniteSet(S), NEW A \in SUBSET S, NEW B \in SUBSET S, A \cap B = {}
    PROVE  /\ Cardinality(A) + Cardinality(B) <= Cardinality(S)
           /\ A \cup B = S => Cardinality(A) + Cardinality(B) = Cardinality(S)
<1>1. IsFiniteSet(A) /\ IsFiniteSet(B) /\ A \cup B \in SUBSET S
  BY CountFacts
<1>2. /\ Cardinality(A) \in Nat /\ Cardinality(B) \in Nat /\ Cardinality(S) \in Nat
      /\ Cardinality(A \cup B) <= Cardinality(S)
  BY <1>1, CountFacts
<1>3. Cardinality(A \cup B) = Cardinality(A) + Cardinality(B) - Cardinality(A \cap B)
  BY <1>1, FS_Union
<1>4. Cardinality(A \cap B) = 0
  BY FS_EmptySet
<1>5. Cardinality(A \cup B) = Cardinality(A) + Cardinality(B)
  BY <1>2, <1>3, <1>4
<1>. QED
  BY <1>2, <1>5

\* Counted by a column, rows add up to all of them.
LEMMA CountsAddUp ==
    ASSUME NEW D, IsFiniteSet(D), NEW S, IsFiniteSet(S), NEW column \in [S -> D]
    PROVE  SumOf([d \in D |-> Cardinality({x \in S : column[x] = d})]) = Cardinality(S)
<1>. DEFINE P == [d \in D |-> {x \in S : column[x] = d}]
<1>1. P \in [D -> SUBSET S]
  OBVIOUS
<1>2. \A d, e \in D : d # e => P[d] \cap P[e] = {}
  OBVIOUS
<1>3. UNION {P[d] : d \in D} = S
  OBVIOUS
<1>4. [d \in D |-> Cardinality({x \in S : column[x] = d})] =
          [d \in D |-> Cardinality(P[d])]
  OBVIOUS
<1>5. SumOf([d \in D |-> Cardinality(P[d])]) = Cardinality(UNION {P[d] : d \in D})
  <2>. HIDE DEF P
  <2>. QED
    BY <1>1, <1>2, SumOfCounts
<1>. HIDE DEF P
<1>. QED
  BY <1>3, <1>4, <1>5

\* The groups of finitely many rows part them, and none is empty.
LEMMA GroupFacts ==
    ASSUME NEW key, IsFiniteSet(DOMAIN key)
    PROVE  /\ DOMAIN GroupBy(key) = Range(key) /\ IsFiniteSet(Range(key))
           /\ GroupBy(key) \in [Range(key) -> SUBSET DOMAIN key]
           /\ \A k \in Range(key) :
                 /\ GroupBy(key)[k] = {x \in DOMAIN key : key[x] = k}
                 /\ GroupBy(key)[k] # {}
           /\ \A j, k \in Range(key) : j # k => GroupBy(key)[j] \cap GroupBy(key)[k] = {}
           /\ UNION {GroupBy(key)[k] : k \in Range(key)} = DOMAIN key
<1>1. IsFiniteSet(Range(key))
  BY FiniteRange
<1>2. \A k \in Range(key) : {x \in DOMAIN key : key[x] = k} # {}
  BY DEF Range
<1>3. \A x \in DOMAIN key : key[x] \in Range(key)
  BY DEF Range
<1>. DEFINE G == [k \in Range(key) |-> {x \in DOMAIN key : key[x] = k}]
<1>4. /\ DOMAIN G = Range(key)
      /\ G \in [Range(key) -> SUBSET DOMAIN key]
      /\ \A k \in Range(key) :
            G[k] = {x \in DOMAIN key : key[x] = k} /\ G[k] # {}
      /\ \A j, k \in Range(key) : j # k => G[j] \cap G[k] = {}
  BY <1>2
<1>5. UNION {G[k] : k \in Range(key)} = DOMAIN key
  <2>1. \A x \in DOMAIN key : \E k \in Range(key) : x \in G[k]
    BY <1>3
  <2>. HIDE DEF G
  <2>2. \A k \in Range(key) : G[k] \subseteq DOMAIN key
    BY <1>4
  <2>. QED
    BY <2>1, <2>2
<1>. QED
  BY <1>1, <1>4, <1>5 DEF GroupBy

\* The sizes of the groups add up to the number of rows.
LEMMA GroupsAddUp ==
    ASSUME NEW key, IsFiniteSet(DOMAIN key)
    PROVE  SumOf([k \in DOMAIN GroupBy(key) |-> Cardinality(GroupBy(key)[k])])
              = Cardinality(DOMAIN key)
<1>. DEFINE G == GroupBy(key)
<1>1. /\ DOMAIN G = Range(key) /\ IsFiniteSet(Range(key))
      /\ G \in [Range(key) -> SUBSET DOMAIN key]
      /\ \A j, k \in Range(key) : j # k => G[j] \cap G[k] = {}
      /\ UNION {G[k] : k \in Range(key)} = DOMAIN key
  BY GroupFacts
<1>. HIDE DEF G
<1>2. SumOf([k \in Range(key) |-> Cardinality(G[k])])
         = Cardinality(UNION {G[k] : k \in Range(key)})
  BY <1>1, SumOfCounts
<1>. QED
  BY <1>1, <1>2 DEF G

\* And so do the sums over the groups.
LEMMA GroupSumsAddUp ==
    ASSUME NEW g, NatFinite(g), NEW key, DOMAIN key = DOMAIN g
    PROVE  SumOf([k \in DOMAIN GroupBy(key) |-> SumOf([x \in GroupBy(key)[k] |-> g[x]])])
              = SumOf(g)
<1>. DEFINE G == GroupBy(key)
<1>1. /\ DOMAIN G = Range(key) /\ IsFiniteSet(Range(key))
      /\ G \in [Range(key) -> SUBSET DOMAIN g]
      /\ \A j, k \in Range(key) : j # k => G[j] \cap G[k] = {}
      /\ UNION {G[k] : k \in Range(key)} = DOMAIN g
  BY GroupFacts DEF NatFinite
<1>. HIDE DEF G
<1>2. SumOf([k \in Range(key) |-> SumOf([x \in G[k] |-> g[x]])]) = SumOf(g)
  BY <1>1, SumOfSums
<1>. QED
  BY <1>1, <1>2 DEF G

-----------------------------------------------------------------------------
(* The rows a statement sees.                                              *)

\* They are finitely many, and typed.
LEMMA InRangeFacts ==
    ASSUME TablesInv
    PROVE  /\ IsFiniteSet(InRange) /\ InRange \subseteq StoredRuns
           /\ IsFiniteSet(Evaluated) /\ Evaluated \subseteq InRange
           /\ \A r \in InRange : IsRow(agent_runs[r])
           /\ \A r \in Evaluated :
                 run_failures[r] \in RunFailure /\ Coherent(run_failures[r])
<1>1. IsFiniteSet(StoredRuns)
  BY FiniteRunsAssumption, FS_Subset DEF TablesInv
<1>2. InRange \subseteq StoredRuns /\ Evaluated \subseteq InRange
  BY DEF InRange, Evaluated
<1>3. IsFiniteSet(InRange) /\ IsFiniteSet(Evaluated)
  BY <1>1, <1>2, FS_Subset
<1>. QED
  BY <1>2, <1>3 DEF TablesInv, Evaluated

\* Pairs of a run and one of its finitely many rows are finitely many.
LEMMA FinitePairs ==
    ASSUME NEW S, IsFiniteSet(S), NEW rows, \A r \in S : IsFiniteSet(rows[r])
    PROVE  IsFiniteSet(UNION {{<<r, id>> : id \in rows[r]} : r \in S})
<1>. DEFINE Of(r) == {<<r, id>> : id \in rows[r]}
            all == [r \in S |-> Of(r)]
<1>1. ASSUME NEW r \in S PROVE IsFiniteSet(Of(r))
  <2>. DEFINE pair == [id \in rows[r] |-> <<r, id>>]
  <2>1. Range(pair) = Of(r) /\ DOMAIN pair = rows[r]
    BY DEF Range
  <2>. HIDE DEF pair, Of
  <2>. QED
    BY <2>1, FiniteRange
<1>2. Range(all) = {Of(r) : r \in S} /\ DOMAIN all = S
  BY DEF Range
<1>. HIDE DEF all, Of
<1>3. IsFiniteSet({Of(r) : r \in S})
  BY <1>2, FiniteRange
<1>4. IsFiniteSet(UNION {Of(r) : r \in S})
  BY <1>1, <1>3, FS_UNION
<1>. QED
  BY <1>4 DEF Of

LEMMA ToolCallsFacts ==
    ASSUME TablesInv
    PROVE  /\ IsFiniteSet(ToolCalls)
           /\ \A c \in ToolCalls : ToolCall(c).status \in {"success", "failure", "error"}
<1>. DEFINE rows == [r \in InRange |-> DOMAIN agent_runs[r].tool_calls]
<1>1. \A r \in InRange : IsToolCalls(agent_runs[r].tool_calls)
  BY InRangeFacts DEF IsRow
<1>2. IsFiniteSet(ToolCalls)
  <2>1. \A r \in InRange : IsFiniteSet(rows[r])
    BY <1>1 DEF IsToolCalls
  <2>2. ToolCalls = UNION {{<<r, id>> : id \in rows[r]} : r \in InRange}
    BY DEF ToolCalls
  <2>. HIDE DEF rows
  <2>. QED
    BY <2>1, <2>2, InRangeFacts, FinitePairs
<1>3. ASSUME NEW c \in ToolCalls
      PROVE  ToolCall(c).status \in {"success", "failure", "error"}
  <2>1. PICK r \in InRange : \E id \in DOMAIN agent_runs[r].tool_calls : c = <<r, id>>
    BY DEF ToolCalls
  <2>2. PICK id \in DOMAIN agent_runs[r].tool_calls : c = <<r, id>>
    BY <2>1
  <2>3. agent_runs[r].tool_calls[id]
           \in [tool_name : STRING, status : {"success", "failure", "error"}]
    BY <1>1 DEF IsToolCalls
  <2>. QED
    BY <2>2, <2>3 DEF ToolCall
<1>. QED
  BY <1>2, <1>3

LEMMA LLMCallsFacts ==
    ASSUME TablesInv
    PROVE  /\ IsFiniteSet(LLMCalls)
           /\ \A c \in LLMCalls : LLMCall(c).total_tokens \in Nat
<1>. DEFINE rows == [r \in InRange |-> DOMAIN agent_runs[r].llm_calls]
<1>1. \A r \in InRange : IsLLMCalls(agent_runs[r].llm_calls)
  BY InRangeFacts DEF IsRow
<1>2. IsFiniteSet(LLMCalls)
  <2>1. \A r \in InRange : IsFiniteSet(rows[r])
    BY <1>1 DEF IsLLMCalls
  <2>2. LLMCalls = UNION {{<<r, id>> : id \in rows[r]} : r \in InRange}
    BY DEF LLMCalls
  <2>. HIDE DEF rows
  <2>. QED
    BY <2>1, <2>2, InRangeFacts, FinitePairs
<1>3. ASSUME NEW c \in LLMCalls PROVE LLMCall(c).total_tokens \in Nat
  <2>1. PICK r \in InRange : \E id \in DOMAIN agent_runs[r].llm_calls : c = <<r, id>>
    BY DEF LLMCalls
  <2>2. PICK id \in DOMAIN agent_runs[r].llm_calls : c = <<r, id>>
    BY <2>1
  <2>3. agent_runs[r].llm_calls[id]
           \in [model : STRING, call_type : STRING, total_tokens : Nat]
    BY <1>1 DEF IsLLMCalls
  <2>. QED
    BY <2>2, <2>3 DEF LLMCall
<1>. QED
  BY <1>2, <1>3

-----------------------------------------------------------------------------
(* GET /analytics/overview.                                                *)

LEMMA StatusesAreFinite == IsFiniteSet(RunStatus) /\ IsFiniteSet(OverallEvaluationStatus)
<1>1. ASSUME NEW x, NEW y PROVE IsFiniteSet({x, y})
  <2>1. {x, y} = {x} \cup {y} /\ IsFiniteSet({x}) /\ IsFiniteSet({y})
    BY FS_Singleton
  <2>. QED
    BY <2>1, FS_Union
<1>2. /\ RunStatus =
           {"success", "tool_error"} \cup {"runtime_error", "awaiting_approval"}
      /\ OverallEvaluationStatus = {"pass", "fail"} \cup {"incomplete", "fail"}
  BY DEF RunStatus, OverallEvaluationStatus
<1>. QED
  BY <1>1, <1>2, FS_Union

\* The two ways to count runs by their status agree.
LEMMA StatusesAgree ==
    ASSUME TablesInv
    PROVE  /\ Aggregate.total = Cardinality(InRange) /\ Aggregate.total \in Nat
           /\ Aggregate.terminal_count \in Nat /\ Aggregate.success_count \in Nat
           /\ Aggregate.success_count <= Aggregate.terminal_count
           /\ SumOf(StatusCounts) = Aggregate.total
           /\ StatusCounts["success"] = Aggregate.success_count
           /\ Aggregate.total - StatusCounts["awaiting_approval"]
                 = Aggregate.terminal_count
<1>. DEFINE With(s) == {r \in InRange : agent_runs[r].status = s}
            terminal == {r \in InRange : agent_runs[r].status # "awaiting_approval"}
<1>1. IsFiniteSet(InRange) /\ \A r \in InRange : agent_runs[r].status \in RunStatus
  BY InRangeFacts DEF IsRow
<1>2. /\ Aggregate.total = Cardinality(InRange)
      /\ Aggregate.terminal_count = Cardinality(terminal)
      /\ Aggregate.success_count = Cardinality(With("success"))
  BY DEF Aggregate
<1>3. /\ StatusCounts["success"] = Cardinality(With("success"))
      /\ StatusCounts["awaiting_approval"] = Cardinality(With("awaiting_approval"))
  BY DEF StatusCounts, RunStatus
<1>4. SumOf(StatusCounts) = Cardinality(InRange)
  <2>. DEFINE status == [r \in InRange |-> agent_runs[r].status]
  <2>1. status \in [InRange -> RunStatus]
    BY <1>1
  <2>2. IsFiniteSet(RunStatus)
    BY StatusesAreFinite
  <2>3. StatusCounts =
           [s \in RunStatus |-> Cardinality({r \in InRange : status[r] = s})]
    BY DEF StatusCounts
  <2>. HIDE DEF status
  <2>. QED
    BY <1>1, <2>1, <2>2, <2>3, CountsAddUp
<1>5. /\ Cardinality(InRange) \in Nat
      /\ Cardinality(terminal) \in Nat
      /\ Cardinality(With("success")) \in Nat
      /\ Cardinality(With("awaiting_approval")) \in Nat
  BY <1>1, CountFacts
<1>6. Cardinality(With("success")) <= Cardinality(terminal)
  <2>1. IsFiniteSet(terminal) /\ With("success") \subseteq terminal
    BY <1>1, CountFacts
  <2>. QED
    BY <2>1, CountFacts
<1>7. Cardinality(terminal) + Cardinality(With("awaiting_approval")) = Cardinality(InRange)
  <2>1. /\ terminal \cap With("awaiting_approval") = {}
        /\ terminal \cup With("awaiting_approval") = InRange
    OBVIOUS
  <2>. QED
    BY <1>1, <2>1, CountParts
<1>. HIDE DEF With, terminal
<1>. QED
  BY <1>2, <1>3, <1>4, <1>5, <1>6, <1>7

\* Runs counted by their classification are the classified runs, which with
\* the others are the runs.
LEMMA EvaluationsAgree ==
    ASSUME TablesInv
    PROVE  /\ \A s \in OverallEvaluationStatus : EvaluationCounts[s] \in Nat
           /\ SumOf(EvaluationCounts) = Cardinality(Evaluated)
           /\ Cardinality(Evaluated) \in Nat
           /\ SumOf(EvaluationCounts) + Cardinality(InRange \ Evaluated)
                 = Cardinality(InRange)
           /\ EvaluationCounts["fail"] <= Cardinality(Evaluated)
<1>1. /\ IsFiniteSet(Evaluated) /\ IsFiniteSet(InRange) /\ Evaluated \subseteq InRange
      /\ \A r \in Evaluated : run_failures[r].overall_status \in OverallEvaluationStatus
  BY InRangeFacts DEF RunFailure
<1>2. SumOf(EvaluationCounts) = Cardinality(Evaluated)
  <2>. DEFINE status == [r \in Evaluated |-> run_failures[r].overall_status]
  <2>1. status \in [Evaluated -> OverallEvaluationStatus]
    BY <1>1
  <2>2. IsFiniteSet(OverallEvaluationStatus)
    BY StatusesAreFinite
  <2>3. EvaluationCounts =
           [s \in OverallEvaluationStatus |-> Cardinality({r \in Evaluated : status[r] = s})]
    BY DEF EvaluationCounts
  <2>. HIDE DEF status
  <2>. QED
    BY <1>1, <2>1, <2>2, <2>3, CountsAddUp
<1>3. ASSUME NEW s \in OverallEvaluationStatus
      PROVE  EvaluationCounts[s] \in Nat /\ EvaluationCounts[s] <= Cardinality(Evaluated)
  BY <1>1, CountFacts DEF EvaluationCounts
<1>4. Cardinality(Evaluated) + Cardinality(InRange \ Evaluated) = Cardinality(InRange)
  <2>1. /\ Evaluated \cap (InRange \ Evaluated) = {}
        /\ Evaluated \cup (InRange \ Evaluated) = InRange
    BY <1>1
  <2>. QED
    BY <1>1, <2>1, CountParts
<1>. QED
  BY <1>1, <1>2, <1>3, <1>4, CountFacts DEF OverallEvaluationStatus

-----------------------------------------------------------------------------
(* GET /analytics/tools and GET /analytics/usage.                          *)

\* Of the calls of a tool, each succeeded, failed or was an error.
LEMMA ToolsAgree ==
    ASSUME TablesInv, NEW t \in DOMAIN ToolStats
    PROVE  /\ Proper(FailureRate(ToolStats[t]))
           /\ FailureRate(ToolStats[t])[1] + ToolStats[t].success_count
                 = ToolStats[t].call_count
<1>. DEFINE key == [c \in ToolCalls |-> ToolCall(c).tool_name]
            calls == GroupBy(key)[t]
            With(status) == {c \in calls : ToolCall(c).status = status}
<1>1. DOMAIN key = ToolCalls /\ IsFiniteSet(DOMAIN key)
  BY ToolCallsFacts
<1>2. /\ DOMAIN ToolStats = DOMAIN GroupBy(key)
      /\ ToolStats[t] = [call_count |-> Cardinality(calls),
                         success_count |-> Cardinality(With("success")),
                         failure_count |-> Cardinality(With("failure")),
                         error_count |-> Cardinality(With("error"))]
  BY DEF ToolStats
<1>3. calls \in SUBSET ToolCalls /\ calls # {}
  <2>. HIDE DEF key
  <2>1. t \in Range(key)
    BY <1>1, <1>2, GroupFacts
  <2>. QED
    BY <1>1, <2>1, GroupFacts
<1>4. IsFiniteSet(calls) /\ Cardinality(calls) \in Nat /\ Cardinality(calls) > 0
  <2>. HIDE DEF calls, key
  <2>. QED
    BY <1>1, <1>3, CountFacts
<1>5. \A c \in calls : ToolCall(c).status \in {"success", "failure", "error"}
  BY <1>3, ToolCallsFacts
<1>. HIDE DEF calls
<1>6. Cardinality(With("failure")) + Cardinality(With("error"))
         = Cardinality(With("failure") \cup With("error"))
  <2>1. /\ IsFiniteSet(With("failure") \cup With("error"))
        /\ With("failure") \cap With("error") = {}
    BY <1>4, CountFacts
  <2>. QED
    BY <2>1, CountParts
<1>7. Cardinality(With("failure") \cup With("error")) + Cardinality(With("success"))
         = Cardinality(calls)
  <2>1. /\ (With("failure") \cup With("error")) \cap With("success") = {}
        /\ (With("failure") \cup With("error")) \cup With("success") = calls
    BY <1>5
  <2>. QED
    BY <1>4, <2>1, CountParts
<1>8. /\ Cardinality(With("failure")) \in Nat /\ Cardinality(With("error")) \in Nat
      /\ Cardinality(With("success")) \in Nat
  BY <1>4, CountFacts
<1>9. /\ FailureRate(ToolStats[t]) =
            <<Cardinality(With("failure")) + Cardinality(With("error")), Cardinality(calls)>>
      /\ ToolStats[t].success_count = Cardinality(With("success"))
      /\ ToolStats[t].call_count = Cardinality(calls)
  BY <1>2 DEF FailureRate
<1>. DEFINE f == Cardinality(With("failure")) + Cardinality(With("error"))
            s == Cardinality(With("success"))
            n == Cardinality(calls)
<1>10. f \in Nat /\ s \in Nat /\ n \in Nat /\ n > 0 /\ f + s = n
  BY <1>4, <1>6, <1>7, <1>8
<1>11. /\ FailureRate(ToolStats[t]) = <<f, n>>
       /\ ToolStats[t].success_count = s /\ ToolStats[t].call_count = n
  BY <1>9
<1>. HIDE DEF f, s, n
<1>12. <<f, n>> # None
  BY <1>10, NoneIsNoRate
<1>. QED
  BY <1>10, <1>11, <1>12 DEF Proper

\* Broken down by any column, the usage adds up to the total.
LEMMA UsageAgrees ==
    ASSUME TablesInv, NEW column
    PROVE  /\ SumOf(Column(UsageBy(column), "call_count"))
                 = UsageTotals(LLMCalls).call_count
           /\ SumOf(Column(UsageBy(column), "total_tokens"))
                 = UsageTotals(LLMCalls).total_tokens
           /\ UsageTotals(LLMCalls).call_count = Cardinality(LLMCalls)
           /\ Cardinality(LLMCalls) \in Nat
<1>. DEFINE key == [c \in LLMCalls |-> LLMCall(c)[column]]
            G == GroupBy(key)
            tokens == [c \in LLMCalls |-> LLMCall(c).total_tokens]
<1>1. DOMAIN key = LLMCalls /\ IsFiniteSet(DOMAIN key) /\ DOMAIN key = DOMAIN tokens
  BY LLMCallsFacts
<1>2. NatFinite(tokens)
  BY LLMCallsFacts DEF NatFinite
<1>3. DOMAIN UsageBy(column) = DOMAIN G
      /\ \A k \in DOMAIN G : UsageBy(column)[k] = UsageTotals(G[k])
  BY DEF UsageBy
<1>4. \A k \in DOMAIN G : G[k] \in SUBSET LLMCalls
  <2>. HIDE DEF key
  <2>. QED
    BY <1>1, GroupFacts
<1>5. Column(UsageBy(column), "call_count") = [k \in DOMAIN G |-> Cardinality(G[k])]
  <2>1. ASSUME NEW k \in DOMAIN G PROVE UsageBy(column)[k].call_count = Cardinality(G[k])
    <3>1. UsageTotals(G[k]).call_count = Cardinality(G[k])
      BY DEF UsageTotals
    <3>. HIDE DEF G
    <3>. QED
      BY <1>3, <3>1
  <2>. HIDE DEF G
  <2>. QED
    BY <1>3, <2>1 DEF Column
<1>6. Column(UsageBy(column), "total_tokens") =
         [k \in DOMAIN G |-> SumOf([c \in G[k] |-> tokens[c]])]
  <2>1. ASSUME NEW k \in DOMAIN G
        PROVE  UsageBy(column)[k].total_tokens = SumOf([c \in G[k] |-> tokens[c]])
    <3>1. [c \in G[k] |-> LLMCall(c).total_tokens] = [c \in G[k] |-> tokens[c]]
      <4>. HIDE DEF G
      <4>. QED
        BY <1>4
    <3>. HIDE DEF G, tokens
    <3>. QED
      BY <1>3, <3>1 DEF UsageTotals
  <2>. HIDE DEF G, tokens
  <2>. QED
    BY <1>3, <2>1 DEF Column
<1>7. SumOf([k \in DOMAIN G |-> Cardinality(G[k])]) = Cardinality(LLMCalls)
  <2>. HIDE DEF key
  <2>. QED
    BY <1>1, GroupsAddUp
<1>8. SumOf([k \in DOMAIN G |-> SumOf([c \in G[k] |-> tokens[c]])]) = SumOf(tokens)
  <2>. HIDE DEF key, tokens
  <2>. QED
    BY <1>1, <1>2, GroupSumsAddUp
<1>9. /\ UsageTotals(LLMCalls).call_count = Cardinality(LLMCalls)
      /\ UsageTotals(LLMCalls).total_tokens = SumOf(tokens)
  BY DEF UsageTotals
<1>10. Cardinality(LLMCalls) \in Nat
  BY LLMCallsFacts, CountFacts
<1>. HIDE DEF G, tokens
<1>. QED
  BY <1>5, <1>6, <1>7, <1>8, <1>9, <1>10

-----------------------------------------------------------------------------
(* GET /analytics/failures and GET /analytics/scenarios.                   *)

\* The failed runs a breakdown by a column counts.
FailedWith(column) ==
    {r \in Evaluated : /\ run_failures[r].overall_status = "fail"
                       /\ run_failures[r][column] # None}

\* With those that have no entry they are the failing, and every group has one.
LEMMA FailuresAgree ==
    ASSUME TablesInv, NEW column
    PROVE  /\ SumOf(FailedBy(column)) = Cardinality(FailedWith(column))
           /\ SumOf(FailedBy(column)) + Cardinality(FailedWithout(column))
                 = EvaluationCounts["fail"]
           /\ \A k \in DOMAIN FailedBy(column) :
                 /\ FailedBy(column)[k] \in Nat /\ FailedBy(column)[k] > 0
                 /\ FailedBy(column)[k] <= EvaluationCounts["fail"]
<1>. DEFINE failed == FailedWith(column)
            failing == {r \in Evaluated : run_failures[r].overall_status = "fail"}
            key == [r \in failed |-> run_failures[r][column]]
            G == GroupBy(key)
<1>1. /\ IsFiniteSet(failing) /\ failed \in SUBSET failing
      /\ EvaluationCounts["fail"] = Cardinality(failing)
  <2>1. IsFiniteSet(failing)
    BY InRangeFacts, CountFacts
  <2>2. EvaluationCounts["fail"] = Cardinality(failing)
    BY DEF EvaluationCounts, OverallEvaluationStatus
  <2>. QED
    BY <2>1, <2>2 DEF FailedWith
<1>2. DOMAIN key = failed /\ IsFiniteSet(DOMAIN key)
  <2>. HIDE DEF failing, failed
  <2>. QED
    BY <1>1, CountFacts
<1>3. FailedBy(column) = [k \in DOMAIN G |-> Cardinality(G[k])]
  BY DEF FailedBy, FailedWith
<1>4. SumOf(FailedBy(column)) = Cardinality(failed)
  <2>. HIDE DEF key
  <2>. QED
    BY <1>2, <1>3, GroupsAddUp
<1>5. Cardinality(failed) + Cardinality(FailedWithout(column)) = Cardinality(failing)
  <2>1. /\ FailedWithout(column) \in SUBSET failing
        /\ failed \cap FailedWithout(column) = {}
        /\ failed \cup FailedWithout(column) = failing
    BY DEF FailedWith, FailedWithout
  <2>. HIDE DEF failing, failed
  <2>. QED
    BY <1>1, <2>1, CountParts
<1>6. ASSUME NEW k \in DOMAIN G
      PROVE  /\ Cardinality(G[k]) \in Nat /\ Cardinality(G[k]) > 0
             /\ Cardinality(G[k]) <= Cardinality(failing)
  <2>. HIDE DEF failing, failed, key
  <2>1. G[k] \in SUBSET failing /\ G[k] # {}
    BY <1>1, <1>2, GroupFacts
  <2>. HIDE DEF G
  <2>. QED
    BY <1>1, <2>1, CountFacts
<1>. HIDE DEF failing, G
<1>. QED
  BY <1>1, <1>3, <1>4, <1>5, <1>6

\* Runs with a severity have a category.
LEMMA SeveritiesHaveTypes ==
    ASSUME TablesInv
    PROVE  SumOf(FailedBy("max_severity")) <= SumOf(FailedBy("primary_category"))
<1>1. FailedWith("max_severity") \in SUBSET FailedWith("primary_category")
  BY InRangeFacts DEF FailedWith, Coherent
<1>2. IsFiniteSet(FailedWith("primary_category"))
  BY InRangeFacts, CountFacts DEF FailedWith
<1>3. Cardinality(FailedWith("max_severity")) <= Cardinality(FailedWith("primary_category"))
  BY <1>1, <1>2, CountFacts
<1>. QED
  BY <1>3, FailuresAgree

\* A part of a whole that is not empty is a proper quotient.
LEMMA SharesAreProper ==
    ASSUME NEW part \in Nat, NEW whole \in Nat, part <= whole
    PROVE  /\ ProperOrNone(Rate(part, whole))
           /\ whole > 0 => Proper(Rate(part, whole))
           /\ Proper(Ratio(part, whole))
<1>1. <<part, whole>> # None /\ <<0, 1>> # None
  BY NoneIsNoRate
<1>2. <<part, whole>>[1] = part /\ <<part, whole>>[2] = whole
  OBVIOUS
<1>3. Proper(<<0, 1>>) /\ (whole > 0 => Proper(<<part, whole>>))
  BY <1>1, <1>2 DEF Proper
<1>. QED
  BY <1>3 DEF ProperOrNone, Rate, Ratio

\* The executions of a scenario that passed are not among those with a
\* failure type.
LEMMA ScenariosAgree ==
    ASSUME TablesInv
    PROVE  /\ \A s \in DOMAIN ScenarioSummary : Proper(PassRate(ScenarioSummary[s]))
           /\ \A s \in DOMAIN ScenarioFailures :
                 /\ s \in DOMAIN ScenarioSummary
                 /\ ScenarioFailures[s] + ScenarioSummary[s].pass_count
                       <= ScenarioSummary[s].execution_count
<1>. DEFINE Passed(r) == r \in Evaluated /\ run_failures[r].overall_status = "pass"
            categorised == {r \in OfRegressions \cap Evaluated :
                               run_failures[r].primary_category # None}
            executions == [r \in OfRegressions |-> agent_runs[r].scenario_id]
            failures == [r \in categorised |-> agent_runs[r].scenario_id]
            G == GroupBy(executions)
            F == GroupBy(failures)
<1>1. IsFiniteSet(OfRegressions) /\ OfRegressions \subseteq InRange
  BY InRangeFacts, CountFacts DEF OfRegressions
<1>2. /\ DOMAIN executions = OfRegressions /\ IsFiniteSet(DOMAIN executions)
      /\ DOMAIN failures = categorised /\ IsFiniteSet(DOMAIN failures)
      /\ categorised \subseteq OfRegressions
  <2>1. categorised \in SUBSET OfRegressions
    OBVIOUS
  <2>. HIDE DEF categorised
  <2>. QED
    BY <1>1, <2>1, CountFacts
<1>3. /\ DOMAIN ScenarioSummary = DOMAIN G
      /\ \A s \in DOMAIN G :
            /\ ScenarioSummary[s].execution_count = Cardinality(G[s])
            /\ ScenarioSummary[s].pass_count = Cardinality({r \in G[s] : Passed(r)})
  BY DEF ScenarioSummary
<1>4. /\ DOMAIN ScenarioFailures = DOMAIN F
      /\ \A s \in DOMAIN F : ScenarioFailures[s] = Cardinality(F[s])
  BY DEF ScenarioFailures
<1>5. /\ DOMAIN G = Range(executions)
      /\ \A s \in DOMAIN G : /\ G[s] = {r \in OfRegressions : executions[r] = s}
                             /\ G[s] # {}
      /\ DOMAIN F = Range(failures)
      /\ \A s \in DOMAIN F : F[s] = {r \in categorised : failures[r] = s}
  <2>. HIDE DEF executions, failures, categorised
  <2>. QED
    BY <1>2, GroupFacts
<1>6. \A s \in DOMAIN G : IsFiniteSet(G[s])
  <2>. HIDE DEF G
  <2>. QED
    BY <1>1, <1>5, CountFacts
<1>7. ASSUME NEW s \in DOMAIN G PROVE Proper(PassRate(ScenarioSummary[s]))
  <2>. DEFINE passed == {r \in G[s] : Passed(r)}
  <2>1. /\ Cardinality(passed) \in Nat /\ Cardinality(G[s]) \in Nat
        /\ Cardinality(passed) <= Cardinality(G[s]) /\ Cardinality(G[s]) > 0
    <3>1. passed \in SUBSET G[s]
      OBVIOUS
    <3>. HIDE DEF passed, G
    <3>. QED
      BY <1>5, <1>6, <3>1, CountFacts
  <2>2. PassRate(ScenarioSummary[s]) = Rate(Cardinality(passed), Cardinality(G[s]))
    BY <1>3 DEF PassRate
  <2>. HIDE DEF passed, G
  <2>. QED
    BY <2>1, <2>2, SharesAreProper
<1>8. ASSUME NEW s \in DOMAIN F
      PROVE  /\ s \in DOMAIN G
             /\ Cardinality(F[s]) + Cardinality({r \in G[s] : Passed(r)})
                   <= Cardinality(G[s])
  <2>1. s \in DOMAIN G
    <3>1. PICK r \in categorised : agent_runs[r].scenario_id = s
      <4>. HIDE DEF F, categorised
      <4>. QED
        BY <1>5 DEF Range
    <3>2. r \in OfRegressions /\ executions[r] = s
      BY <3>1
    <3>. HIDE DEF G
    <3>. QED
      BY <1>2, <1>5, <3>2 DEF Range
  <2>2. F[s] \in SUBSET G[s]
    <3>1. \A r \in categorised : r \in OfRegressions /\ executions[r] = failures[r]
      OBVIOUS
    <3>. HIDE DEF F, G, executions, failures, categorised
    <3>. QED
      BY <1>5, <2>1, <3>1
  <2>3. F[s] \cap {r \in G[s] : Passed(r)} = {}
    <3>1. \A r \in categorised : ~Passed(r)
      BY InRangeFacts DEF Coherent
    <3>. HIDE DEF F, G, categorised, Passed
    <3>. QED
      BY <1>5, <3>1
  <2>4. {r \in G[s] : Passed(r)} \in SUBSET G[s]
    OBVIOUS
  <2>. HIDE DEF F, G, Passed
  <2>. QED
    BY <1>6, <2>1, <2>2, <2>3, <2>4, CountParts
<1>. HIDE DEF F, G
<1>. QED
  BY <1>3, <1>4, <1>7, <1>8

-----------------------------------------------------------------------------
(* GET /runs.                                                              *)

\* What a part of a sequence holds.
LEMMA SubSeqFacts ==
    ASSUME NEW S, NEW n \in Nat, NEW q \in [1..n -> S],
           NEW a \in Nat \ {0}, NEW b \in Int, b <= n
    PROVE  /\ DOMAIN SubSeq(q, a, b) = 1..Len(SubSeq(q, a, b))
           /\ Len(SubSeq(q, a, b)) = IF a <= b THEN b - a + 1 ELSE 0
           /\ Len(SubSeq(q, a, b)) \in Nat
           /\ \A i \in 1..Len(SubSeq(q, a, b)) :
                 SubSeq(q, a, b)[i] = q[a + i - 1] /\ a + i - 1 \in 1..n
<1>. DEFINE p == SubSeq(q, a, b)
<1>1. \A i \in a..b : q[i] \in S
  OBVIOUS
<1>2. /\ p \in Seq(S) /\ Len(p) = IF a <= b THEN b - a + 1 ELSE 0
      /\ \A i \in 1..(b - a + 1) : p[i] = q[a + i - 1]
  BY <1>1, SubSeqProperties
<1>. HIDE DEF p
<1>3. DOMAIN p = 1..Len(p) /\ Len(p) \in Nat
  BY <1>2
<1>4. ASSUME NEW i \in 1..Len(p) PROVE i \in 1..(b - a + 1) /\ a + i - 1 \in 1..n
  BY <1>2
<1>. QED
  BY <1>2, <1>3, <1>4 DEF p

\* A page is as long as what is left after its offset, up to its limit, and it
\* names no run twice.
LEMMA PageFacts ==
    ASSUME TablesInv, request \in Requests, NEW page \in Pages
    PROVE  /\ Len(page) = Max({0, Min({request.limit, Cardinality(Listed) - request.offset})})
           /\ IsInjective(page)
<1>. DEFINE n == Cardinality(Listed)
            limit == request.limit
            offset == request.offset
            to == Min({offset + limit, n})
<1>1. n \in Nat
  BY InRangeFacts, CountFacts DEF Listed
<1>2. limit \in 1..100 /\ offset \in Nat
  BY RequestsAssumption
<1>3. PICK q \in SetToSeqs(Listed) :
         page = SubSeq(q, offset + 1, Min({offset + limit, Len(q)}))
  BY DEF Pages
<1>4. /\ q \in [1..n -> Listed] /\ \A i, j \in 1..n : i # j => q[i] # q[j]
  BY <1>3 DEF SetToSeqs
<1>5. Len(q) = n
  BY <1>1, <1>4
<1>6. page = SubSeq(q, offset + 1, to)
  BY <1>3, <1>5
<1>. HIDE DEF n, limit, offset
<1>7. to = (IF offset + limit <= n THEN offset + limit ELSE n) /\ to \in Int /\ to <= n
  <2>1. offset + limit \in Int /\ n \in Int
    BY <1>1, <1>2
  <2>2. to = (IF offset + limit <= n THEN offset + limit ELSE n)
    BY <2>1, MinMaxFacts
  <2>. HIDE DEF to
  <2>. QED
    BY <2>1, <2>2
<1>. HIDE DEF to
<1>8. /\ DOMAIN page = 1..Len(page) /\ Len(page) \in Nat
      /\ Len(page) = IF offset + 1 <= to THEN to - (offset + 1) + 1 ELSE 0
      /\ \A i \in 1..Len(page) :
            page[i] = q[offset + 1 + i - 1] /\ offset + 1 + i - 1 \in 1..n
  <2>1. offset + 1 \in Nat \ {0}
    BY <1>2
  <2>. QED
    BY <1>1, <1>4, <1>6, <1>7, <2>1, SubSeqFacts
<1>9. Len(page) = Max({0, Min({limit, n - offset})})
  <2>. DEFINE m == Min({limit, n - offset})
  <2>1. m = (IF limit <= n - offset THEN limit ELSE n - offset) /\ m \in Int
    <3>1. limit \in Int /\ n - offset \in Int
      BY <1>1, <1>2
    <3>2. m = IF limit <= n - offset THEN limit ELSE n - offset
      BY <3>1, MinMaxFacts
    <3>. HIDE DEF m
    <3>. QED
      BY <3>1, <3>2
  <2>. HIDE DEF m
  <2>2. Max({0, m}) = IF 0 <= m THEN m ELSE 0
    <3>. DEFINE zero == 0
    <3>1. zero \in Int
      OBVIOUS
    <3>. HIDE DEF zero
    <3>2. Max({zero, m}) = IF zero <= m THEN m ELSE zero
      BY <2>1, <3>1, MinMaxFacts
    <3>. QED
      BY <3>2 DEF zero
  <2>3. Len(page) = IF 0 <= m THEN m ELSE 0
    BY <1>1, <1>2, <1>7, <1>8, <2>1
  <2>. QED
    BY <2>2, <2>3 DEF m
<1>10. IsInjective(page)
  <2>1. ASSUME NEW i \in 1..Len(page), NEW j \in 1..Len(page), page[i] = page[j]
        PROVE  i = j
    <3>. DEFINE a == offset + 1 + i - 1
                b == offset + 1 + j - 1
    <3>1. a \in 1..n /\ b \in 1..n /\ q[a] = q[b]
      BY <1>8, <2>1
    <3>2. a = b
      <4>. HIDE DEF a, b
      <4>. QED
        BY <1>4, <3>1
    <3>3. i \in Int /\ j \in Int
      BY <1>8, <2>1
    <3>4. offset + 1 + i - 1 = offset + 1 + j - 1
      BY <3>2
    <3>. HIDE DEF a, b
    <3>. QED
      BY <1>2, <3>3, <3>4
  <2>. QED
    BY <1>8, <2>1 DEF IsInjective
<1>. QED
  BY <1>9, <1>10 DEF n, limit, offset

-----------------------------------------------------------------------------
(* What the writers do to the tables.                                      *)

\* Calls added to calls are calls.
LEMMA UpsertCalls ==
    ASSUME NEW f, NEW g
    PROVE  /\ IsToolCalls(f) /\ IsToolCalls(g) => IsToolCalls(Upsert(f, g))
           /\ IsLLMCalls(f) /\ IsLLMCalls(g) => IsLLMCalls(Upsert(f, g))
<1>. DEFINE u == Upsert(f, g)
<1>1. /\ DOMAIN u = DOMAIN f \cup DOMAIN g
      /\ \A id \in DOMAIN f : u[id] = f[id]
      /\ \A id \in DOMAIN g \ DOMAIN f : u[id] = g[id]
      /\ u = [id \in DOMAIN f \cup DOMAIN g |-> u[id]]
  BY UpsertFacts
<1>2. IsFiniteSet(DOMAIN f) /\ IsFiniteSet(DOMAIN g) => IsFiniteSet(DOMAIN u)
  BY <1>1, FS_Union
<1>. HIDE DEF u
<1>3. ASSUME IsToolCalls(f), IsToolCalls(g) PROVE IsToolCalls(u)
  BY <1>1, <1>2, <1>3 DEF IsToolCalls
<1>4. ASSUME IsLLMCalls(f), IsLLMCalls(g) PROVE IsLLMCalls(u)
  BY <1>1, <1>2, <1>4 DEF IsLLMCalls
<1>. QED
  BY <1>3, <1>4 DEF u

\* What may be stored for a run that has the calls of another row.
Keeps(row, old) ==
    /\ DOMAIN old.tool_calls \subseteq DOMAIN row.tool_calls
    /\ DOMAIN old.llm_calls \subseteq DOMAIN row.llm_calls

\* Rows are only added: runs, their calls, classifications.
OnlyAdds ==
    /\ StoredRuns \subseteq StoredRuns'
    /\ \A r \in StoredRuns : Keeps(agent_runs'[r], agent_runs[r])
    /\ DOMAIN run_failures \subseteq DOMAIN run_failures'

LEMMA IngestAdds ==
    ASSUME TablesInv, NEW r \in RunIds, Ingest(r)
    PROVE  TablesInv' /\ OnlyAdds
<1>1. PICK s \in Snapshots[r] : agent_runs' = Upsert(Only(r, IngestedRow(r, s)), agent_runs)
  BY DEF Ingest
<1>. DEFINE row == IngestedRow(r, s)
<1>2. /\ StoredRuns' = {r} \cup StoredRuns /\ agent_runs'[r] = row
      /\ \A q \in StoredRuns \ {r} : agent_runs'[q] = agent_runs[q]
  <2>1. agent_runs' = Upsert(Only(r, row), agent_runs)
    BY <1>1
  <2>. HIDE DEF row
  <2>. QED
    BY <2>1 DEF StoredRuns, Upsert, Only
<1>3. run_failures' = run_failures
  BY DEF Ingest
<1>4. /\ s.status \in RunStatus /\ s.scenario_id \in ScenarioIds \cup {None}
      /\ IsToolCalls(s.tool_calls) /\ IsLLMCalls(s.llm_calls)
  BY SnapshotsAssumption
<1>5. CASE r \notin StoredRuns
  <2>1. row = Stored(s, s.tool_calls, s.llm_calls, FALSE)
    BY <1>5 DEF IngestedRow
  <2>2. IsRow(row)
    <3>. HIDE DEF row
    <3>. QED
      BY <1>4, <2>1 DEF IsRow, Stored
  <2>. HIDE DEF row
  <2>. QED
    BY <1>2, <1>3, <1>5, <2>2 DEF TablesInv, OnlyAdds, Keeps
<1>6. CASE r \in StoredRuns
  <2>. DEFINE tools == Upsert(s.tool_calls, agent_runs[r].tool_calls)
              llms == Upsert(s.llm_calls, agent_runs[r].llm_calls)
  <2>1. row = Stored(s, tools, llms, agent_runs[r].linked)
    BY <1>6 DEF IngestedRow
  <2>2. IsRow(agent_runs[r])
    BY <1>6 DEF TablesInv
  <2>3. IsToolCalls(tools) /\ IsLLMCalls(llms)
    BY <1>4, <2>2, UpsertCalls DEF IsRow
  <2>4. /\ DOMAIN agent_runs[r].tool_calls \subseteq DOMAIN tools
        /\ DOMAIN agent_runs[r].llm_calls \subseteq DOMAIN llms
    BY DEF Upsert
  <2>. HIDE DEF row, tools, llms
  <2>5. IsRow(row) /\ Keeps(row, agent_runs[r])
    BY <1>4, <2>1, <2>2, <2>3, <2>4 DEF IsRow, Stored, Keeps
  <2>. QED
    BY <1>2, <1>3, <1>6, <2>5 DEF TablesInv, OnlyAdds, Keeps
<1>. QED
  BY <1>5, <1>6

LEMMA LinkAdds ==
    ASSUME TablesInv, NEW r \in RunIds, LinkRun(r)
    PROVE  TablesInv' /\ OnlyAdds
<1>1. PICK s \in ScenarioIds :
         agent_runs' = [agent_runs EXCEPT ![r].linked = TRUE, ![r].scenario_id = s]
  BY DEF LinkRun
<1>. DEFINE old == agent_runs[r]
            row == [old EXCEPT !.linked = TRUE, !.scenario_id = s]
<1>2. /\ r \in StoredRuns /\ StoredRuns' = StoredRuns /\ agent_runs'[r] = row
      /\ \A q \in StoredRuns \ {r} : agent_runs'[q] = agent_runs[q]
  BY <1>1 DEF LinkRun, StoredRuns
<1>3. run_failures' = run_failures
  BY DEF LinkRun
<1>4. IsRow(old)
  BY <1>2 DEF TablesInv
<1>. HIDE DEF old
<1>5. /\ row.status = old.status /\ row.scenario_id = s /\ row.linked = TRUE
      /\ row.tool_calls = old.tool_calls /\ row.llm_calls = old.llm_calls
      /\ DOMAIN row = DOMAIN old
  BY <1>4 DEF IsRow
<1>. HIDE DEF row
<1>6. IsRow(row) /\ Keeps(row, old)
  BY <1>4, <1>5 DEF IsRow, Keeps
<1>. QED
  BY <1>2, <1>3, <1>6 DEF TablesInv, OnlyAdds, Keeps, old

LEMMA EvaluateAdds ==
    ASSUME TablesInv, NEW r \in RunIds, EvaluateRun(r)
    PROVE  TablesInv' /\ OnlyAdds
<1>1. PICK f \in Classifications[r] : run_failures' = Upsert(Only(r, f), run_failures)
  BY DEF EvaluateRun
<1>2. /\ DOMAIN run_failures' = {r} \cup DOMAIN run_failures /\ run_failures'[r] = f
      /\ \A q \in DOMAIN run_failures \ {r} : run_failures'[q] = run_failures[q]
  BY <1>1 DEF Upsert, Only
<1>3. r \in StoredRuns /\ agent_runs' = agent_runs
  BY DEF EvaluateRun
<1>4. f \in RunFailure /\ Coherent(f)
  BY ClassificationsAssumption
<1>. QED
  BY <1>2, <1>3, <1>4 DEF TablesInv, OnlyAdds, Keeps, StoredRuns

\* So what a statement sees only grows, for the request being answered.
LEMMA WriteAdds ==
    ASSUME TablesInv, Write
    PROVE  /\ TablesInv' /\ UNCHANGED <<request, answer>>
           /\ overtaken' = (overtaken \/ DOMAIN answer # {})
           /\ Cardinality(InRange) <= Cardinality(InRange')
           /\ Cardinality(LLMCalls) <= Cardinality(LLMCalls')
           /\ Cardinality(Evaluated) <= Cardinality(Evaluated')
           /\ Cardinality(InRange) \in Nat /\ Cardinality(InRange') \in Nat
           /\ Cardinality(LLMCalls) \in Nat /\ Cardinality(LLMCalls') \in Nat
           /\ Cardinality(Evaluated) \in Nat /\ Cardinality(Evaluated') \in Nat
<1>1. TablesInv' /\ OnlyAdds
  BY IngestAdds, LinkAdds, EvaluateAdds DEF Write
<1>2. /\ UNCHANGED <<request, answer>>
      /\ overtaken' = (overtaken \/ DOMAIN answer # {})
  BY DEF Write, Ingest, LinkRun, EvaluateRun
<1>3. InRange \subseteq InRange'
  BY <1>1, <1>2 DEF InRange, OnlyAdds
<1>4. Evaluated \subseteq Evaluated'
  BY <1>1, <1>3 DEF Evaluated, OnlyAdds
<1>5. LLMCalls \subseteq LLMCalls'
  <2>1. \A r \in InRange : DOMAIN agent_runs[r].llm_calls \subseteq DOMAIN agent_runs'[r].llm_calls
    BY <1>1, InRangeFacts DEF OnlyAdds, Keeps
  <2>. QED
    BY <1>3, <2>1 DEF LLMCalls
<1>6. IsFiniteSet(InRange') /\ IsFiniteSet(Evaluated') /\ IsFiniteSet(LLMCalls')
  <2>1. (TablesInv => IsFiniteSet(InRange) /\ IsFiniteSet(Evaluated) /\ IsFiniteSet(LLMCalls))'
    BY InRangeFacts, LLMCallsFacts, PTL
  <2>. QED
    BY <1>1, <2>1
<1>. QED
  BY <1>1, <1>2, <1>3, <1>4, <1>5, <1>6, CountFacts

-----------------------------------------------------------------------------
(* The invariant is preserved.                                             *)

\* No answer is complete without a statement.
LEMMA StatementsFacts ==
    /\ Statements["overview"] = {"aggregate", "statuses", "evaluations"}
    /\ Statements["tools"] = {"calls"}
    /\ Statements["usage"] = {"total", "by_model", "by_call_type"}
    /\ Statements["failures"]
          = {"evaluated", "evaluations", "by_failure_type", "by_severity"}
    /\ Statements["scenarios"] = {"summary", "distribution"}
    /\ Statements["runs"] = {"count", "page"}
BY DEF Statements

\* What is not begun is not answered.
LEMMA NothingAnswered ==
    ASSUME RequestInv, DOMAIN answer = {}
    PROVE  ~Answered /\ ~Halfway
<1>1. \A e \in Endpoints : Statements[e] # {}
  BY StatementsFacts DEF Endpoints
<1>. QED
  BY <1>1, RequestsAssumption DEF RequestInv, Answered, Halfway

\* Of the answer alone is spoken when it is torn.
LEMMA TornAnswerStands ==
    ASSUME UNCHANGED <<request, answer>>, TornAnswersLoseNothing
    PROVE  TornAnswersLoseNothing'
BY DEF TornAnswersLoseNothing, AnsweredTo, Answered, RuntimeSuccessRate,
       BehavioralPassRate

LEMMA WriteStep == ASSUME IInv, Write PROVE IInv'
<1>1. /\ TablesInv' /\ UNCHANGED <<request, answer>>
      /\ overtaken' = (overtaken \/ DOMAIN answer # {})
  BY WriteAdds DEF IInv
<1>2. RequestInv'
  BY <1>1 DEF IInv, RequestInv
<1>3. ~overtaken' => ~Answered' /\ ~Halfway'
  <2>1. ~overtaken' => ~Answered /\ ~Halfway
    BY <1>1, NothingAnswered DEF IInv
  <2>2. Answered' = Answered /\ Halfway' = Halfway
    BY <1>1 DEF Halfway, Answered
  <2>. QED
    BY <2>1, <2>2
<1>4. CoverInv'
  <2>1. /\ Cardinality(InRange) <= Cardinality(InRange')
        /\ Cardinality(LLMCalls) <= Cardinality(LLMCalls')
        /\ Cardinality(Evaluated) <= Cardinality(Evaluated')
        /\ Cardinality(InRange) \in Nat /\ Cardinality(InRange') \in Nat
        /\ Cardinality(LLMCalls) \in Nat /\ Cardinality(LLMCalls') \in Nat
        /\ Cardinality(Evaluated) \in Nat /\ Cardinality(Evaluated') \in Nat
    BY WriteAdds DEF IInv
  <2>2. OverviewInv'
    BY <1>1, <2>1 DEF IInv, CoverInv, OverviewInv, Asked, RuntimeSuccessRate,
                      BehavioralPassRate
  <2>3. UsageInv'
    BY <1>1, <2>1 DEF IInv, CoverInv, UsageInv, Asked
  <2>4. FailuresInv'
    BY <1>1, <2>1 DEF IInv, CoverInv, FailuresInv, Asked
  <2>5. ScenariosInv' /\ ListInv'
    BY <1>1, <2>1 DEF IInv, CoverInv, ScenariosInv, ListInv, Asked
  <2>. QED
    BY <2>2, <2>3, <2>4, <2>5 DEF CoverInv
<1>5. FreshInv' /\ UndisturbedAnswersAddUp'
  BY <1>3 DEF FreshInv, UndisturbedAnswersAddUp, AnsweredTo
<1>6. TornAnswersLoseNothing'
  BY <1>1, TornAnswerStands DEF IInv
<1>. QED
  BY <1>1, <1>2, <1>4, <1>5, <1>6 DEF IInv

LEMMA AskStep == ASSUME IInv, Ask PROVE IInv'
<1>1. /\ request' \in Requests /\ DOMAIN answer' = {}
      /\ UNCHANGED <<agent_runs, run_failures>>
  BY DEF Ask, NoRows, tables
<1>2. TablesInv' /\ RequestInv'
  BY <1>1 DEF IInv, TablesInv, RequestInv, StoredRuns
<1>3. ~Answered' /\ ~Halfway'
  <2>1. (RequestInv /\ DOMAIN answer = {} => ~Answered /\ ~Halfway)'
    BY NothingAnswered, PTL
  <2>. QED
    BY <1>1, <1>2, <2>1
<1>4. FreshInv'
  BY <1>3 DEF FreshInv
<1>5. CoverInv'
  BY <1>1 DEF CoverInv, OverviewInv, UsageInv, FailuresInv, ScenariosInv, ListInv
<1>6. UndisturbedAnswersAddUp' /\ TornAnswersLoseNothing'
  BY <1>3 DEF UndisturbedAnswersAddUp, TornAnswersLoseNothing, AnsweredTo
<1>. QED
  BY <1>2, <1>4, <1>5, <1>6 DEF IInv

\* A statement sees in the next state what it sees in this one.
LEMMA SameRows ==
    ASSUME UNCHANGED <<agent_runs, run_failures, request>>
    PROVE  /\ InRange' = InRange /\ Evaluated' = Evaluated
           /\ LLMCalls' = LLMCalls /\ Current' = Current
           /\ \A column : FailedWithout(column)' = FailedWithout(column)
<1>1. InRange' = InRange
  BY DEF InRange, StoredRuns
<1>2. Evaluated' = Evaluated
  BY <1>1 DEF Evaluated
<1>3. LLMCalls' = LLMCalls
  BY <1>1 DEF LLMCalls
<1>4. \A calls : UsageTotals(calls)' = UsageTotals(calls)
  BY DEF UsageTotals, LLMCall
<1>5. Aggregate' = Aggregate
  BY <1>1, <1>3, <1>4 DEF Aggregate
<1>6. StatusCounts' = StatusCounts
  BY <1>1 DEF StatusCounts
<1>7. EvaluationCounts' = EvaluationCounts
  BY <1>2 DEF EvaluationCounts
<1>8. UsageTotals(LLMCalls)' = UsageTotals(LLMCalls) /\ UsageBy("model")' = UsageBy("model")
  BY <1>3 DEF UsageTotals, UsageBy, LLMCall
<1>9. FailedBy("primary_category")' = FailedBy("primary_category")
  BY <1>2 DEF FailedBy
<1>10. ScenarioSummary' = ScenarioSummary
  BY <1>1, <1>2 DEF ScenarioSummary, OfRegressions
<1>11. Listed' = Listed
  BY <1>1 DEF Listed
<1>12. \A column : FailedWithout(column)' = FailedWithout(column)
  BY <1>2 DEF FailedWithout
<1>. QED
  BY <1>1, <1>2, <1>3, <1>5, <1>6, <1>7, <1>8, <1>9, <1>10, <1>11, <1>12 DEF Current

\* The tables and the request stay, an answer that no write has overtaken is
\* current, and stays so when the statement just executed is.
LEMMA SelectStep ==
    ASSUME IInv, NEW endpoint, NEW earlier, NEW statement, NEW rows,
           Select(endpoint, earlier, statement, rows),
           earlier # Statements[endpoint],
           \/ earlier \cup {statement} = Statements[endpoint]
           \/ /\ statement \in DOMAIN Current /\ rows = Current[statement]
              /\ statement \notin earlier
    PROVE  /\ TablesInv' /\ RequestInv' /\ FreshInv'
           /\ ~overtaken' => \A st \in earlier : answer[st] = Current[st]
           /\ InRange' = InRange /\ Evaluated' = Evaluated /\ LLMCalls' = LLMCalls
           /\ \A column : FailedWithout(column)' = FailedWithout(column)
<1>1. /\ request # None /\ request.endpoint = endpoint /\ request' = request
      /\ DOMAIN answer = earlier
      /\ DOMAIN answer' = earlier \cup {statement}
      /\ answer'[statement] = rows
      /\ \A st \in earlier \ {statement} : answer'[st] = answer[st]
      /\ UNCHANGED <<agent_runs, run_failures, overtaken>>
  BY DEF Select, Upsert, Only, tables
<1>2. TablesInv' /\ RequestInv'
  BY <1>1 DEF IInv, TablesInv, RequestInv, StoredRuns
<1>3. /\ InRange' = InRange /\ Evaluated' = Evaluated
      /\ LLMCalls' = LLMCalls /\ Current' = Current
      /\ \A column : FailedWithout(column)' = FailedWithout(column)
  BY <1>1, SameRows
<1>4. ASSUME ~overtaken'
      PROVE  \A st \in earlier : st \in DOMAIN Current /\ answer[st] = Current[st]
  <2>1. earlier # {} => Halfway
    BY <1>1 DEF Halfway, Answered
  <2>. QED
    BY <1>1, <1>4, <2>1 DEF IInv, FreshInv
<1>5. FreshInv'
  <2>. SUFFICES ASSUME ~overtaken', Halfway', NEW st \in earlier \cup {statement}
                PROVE  st \in DOMAIN Current /\ answer'[st] = Current[st]
    BY <1>1, <1>3 DEF FreshInv
  <2>1. earlier \cup {statement} # Statements[endpoint]
    BY <1>1 DEF Halfway, Answered
  <2>. QED
    BY <1>1, <1>4, <2>1
<1>. QED
  BY <1>2, <1>3, <1>4, <1>5

LEMMA OverviewStep == ASSUME IInv, GetOverview PROVE IInv'
<1>1. CASE Select("overview", {}, "aggregate", Aggregate)
  <2>1. /\ Asked("overview")' /\ DOMAIN answer' = {"aggregate"}
        /\ answer'.aggregate = Aggregate
    BY <1>1 DEF Select, Upsert, Only, Asked
  <2>2. TablesInv' /\ RequestInv' /\ FreshInv' /\ InRange' = InRange
    <3>1. Aggregate = Current["aggregate"] /\ "aggregate" \in DOMAIN Current
      BY DEF Current
    <3>2. {} # Statements["overview"]
      BY StatementsFacts
    <3>. QED
      BY <1>1, <3>1, <3>2, SelectStep
  <2>3. OverviewInv'
    <3>1. /\ Aggregate.total = Cardinality(InRange) /\ Aggregate.total \in Nat
          /\ ProperOrNone(Rate(Aggregate.success_count, Aggregate.terminal_count))
      BY StatusesAgree, SharesAreProper DEF IInv
    <3>2. RuntimeSuccessRate' = Rate(Aggregate.success_count, Aggregate.terminal_count)
      BY <2>1 DEF RuntimeSuccessRate
    <3>. QED
      BY <2>1, <2>2, <3>1, <3>2 DEF OverviewInv, ProperOrNone, Proper
  <2>4. CoverInv'
    BY <2>1, <2>3 DEF CoverInv, Asked, UsageInv, FailuresInv, ScenariosInv, ListInv
  <2>5. ~Answered'
    BY <2>1, StatementsFacts DEF Answered, Asked
  <2>6. UndisturbedAnswersAddUp' /\ TornAnswersLoseNothing'
    BY <2>5 DEF UndisturbedAnswersAddUp, TornAnswersLoseNothing, AnsweredTo
  <2>. QED
    BY <2>2, <2>4, <2>6 DEF IInv
<1>2. CASE Select("overview", {"aggregate"}, "statuses", StatusCounts)
  <2>1. /\ Asked("overview") /\ Asked("overview")' /\ DOMAIN answer = {"aggregate"}
        /\ DOMAIN answer' = {"aggregate", "statuses"}
        /\ answer'.aggregate = answer.aggregate /\ answer'.statuses = StatusCounts
    BY <1>2 DEF Select, Upsert, Only, Asked
  <2>2. TablesInv' /\ RequestInv' /\ FreshInv' /\ InRange' = InRange
    <3>1. StatusCounts = Current["statuses"] /\ "statuses" \in DOMAIN Current
      BY DEF Current
    <3>2. {"aggregate"} # Statements["overview"]
      BY StatementsFacts
    <3>. QED
      BY <1>2, <3>1, <3>2, SelectStep
  <2>3. OverviewInv'
    <3>1. SumOf(StatusCounts) = Cardinality(InRange)
      BY StatusesAgree DEF IInv
    <3>2. /\ answer.aggregate.total <= Cardinality(InRange)
          /\ answer.aggregate.total \in Nat /\ ProperOrNone(RuntimeSuccessRate)
      BY <2>1 DEF IInv, CoverInv, OverviewInv
    <3>3. RuntimeSuccessRate' = RuntimeSuccessRate
      BY <2>1 DEF RuntimeSuccessRate
    <3>. QED
      BY <2>1, <3>1, <3>2, <3>3 DEF OverviewInv, ProperOrNone, Proper
  <2>4. CoverInv'
    BY <2>1, <2>3 DEF CoverInv, Asked, UsageInv, FailuresInv, ScenariosInv, ListInv
  <2>5. ~Answered'
    BY <2>1, StatementsFacts DEF Answered, Asked
  <2>6. UndisturbedAnswersAddUp' /\ TornAnswersLoseNothing'
    BY <2>5 DEF UndisturbedAnswersAddUp, TornAnswersLoseNothing, AnsweredTo
  <2>. QED
    BY <2>2, <2>4, <2>6 DEF IInv
<1>3. CASE Select("overview", {"aggregate", "statuses"}, "evaluations", EvaluationCounts)
  <2>1. /\ Asked("overview") /\ Asked("overview")'
        /\ DOMAIN answer = {"aggregate", "statuses"}
        /\ DOMAIN answer' = {"aggregate", "statuses", "evaluations"}
        /\ answer'.aggregate = answer.aggregate /\ answer'.statuses = answer.statuses
        /\ answer'.evaluations = EvaluationCounts
    BY <1>3 DEF Select, Upsert, Only, Asked
  <2>2. /\ TablesInv' /\ RequestInv' /\ FreshInv'
        /\ InRange' = InRange /\ Evaluated' = Evaluated
        /\ ~overtaken' => /\ answer.aggregate = Aggregate
                          /\ answer.statuses = StatusCounts
    <3>1. /\ {"aggregate", "statuses"} # Statements["overview"]
          /\ {"aggregate", "statuses"} \cup {"evaluations"} = Statements["overview"]
      BY StatementsFacts
    <3>2. Current["aggregate"] = Aggregate /\ Current["statuses"] = StatusCounts
      BY DEF Current
    <3>. QED
      BY <1>3, <3>1, <3>2, SelectStep
  <2>3. OverviewInv' /\ ProperOrNone(BehavioralPassRate)'
    <3>1. /\ answer.aggregate.total <= SumOf(answer.statuses)
          /\ answer.aggregate.total \in Nat /\ ProperOrNone(RuntimeSuccessRate)
      BY <2>1 DEF IInv, CoverInv, OverviewInv
    <3>2. RuntimeSuccessRate' = RuntimeSuccessRate
      BY <2>1 DEF RuntimeSuccessRate
    <3>. DEFINE pass == EvaluationCounts["pass"]
                fail == EvaluationCounts["fail"]
    <3>3. pass \in Nat /\ fail \in Nat
      BY EvaluationsAgree DEF IInv, OverallEvaluationStatus
    <3>4. BehavioralPassRate' = Rate(pass, pass + fail)
      BY <2>1 DEF BehavioralPassRate
    <3>. HIDE DEF pass, fail
    <3>5. ProperOrNone(Rate(pass, pass + fail))
      BY <3>3, SharesAreProper
    <3>6. ProperOrNone(BehavioralPassRate)' /\ ProperOrNone(RuntimeSuccessRate)'
      BY <3>1, <3>2, <3>4, <3>5 DEF ProperOrNone, Proper
    <3>. QED
      BY <2>1, <3>1, <3>6 DEF OverviewInv
  <2>4. CoverInv'
    BY <2>1, <2>3 DEF CoverInv, Asked, UsageInv, FailuresInv, ScenariosInv, ListInv
  <2>5. UndisturbedAnswersAddUp'
    <3>1. /\ SumOf(StatusCounts) = Aggregate.total
          /\ StatusCounts["success"] = Aggregate.success_count
          /\ Aggregate.total - StatusCounts["awaiting_approval"] = Aggregate.terminal_count
          /\ SumOf(EvaluationCounts) + Cardinality(InRange \ Evaluated) = Aggregate.total
      BY StatusesAgree, EvaluationsAgree DEF IInv
    <3>. QED
      BY <2>1, <2>2, <3>1 DEF UndisturbedAnswersAddUp, AnsweredTo, Asked
  <2>6. TornAnswersLoseNothing'
    BY <2>1, <2>3 DEF TornAnswersLoseNothing, OverviewInv, AnsweredTo, Asked
  <2>. QED
    BY <2>2, <2>4, <2>5, <2>6 DEF IInv
<1>. QED
  BY <1>1, <1>2, <1>3 DEF GetOverview

LEMMA ToolsStep == ASSUME IInv, GetTools PROVE IInv'
<1>1. /\ Asked("tools") /\ Asked("tools")' /\ DOMAIN answer' = {"calls"}
      /\ answer'.calls = ToolStats
  BY DEF GetTools, Select, Upsert, Only, Asked
<1>2. TablesInv' /\ RequestInv' /\ FreshInv'
  <2>1. {} # Statements["tools"] /\ {} \cup {"calls"} = Statements["tools"]
    BY StatementsFacts
  <2>. QED
    BY <2>1, SelectStep DEF GetTools
<1>3. CoverInv'
  BY <1>1 DEF CoverInv, Asked, OverviewInv, UsageInv, FailuresInv, ScenariosInv, ListInv
<1>4. UndisturbedAnswersAddUp'
  BY <1>1 DEF UndisturbedAnswersAddUp, AnsweredTo, Asked
<1>5. TornAnswersLoseNothing'
  <2>1. \A t \in DOMAIN ToolStats :
           /\ Proper(FailureRate(ToolStats[t]))
           /\ FailureRate(ToolStats[t])[1] + ToolStats[t].success_count
                 = ToolStats[t].call_count
    BY ToolsAgree DEF IInv
  <2>2. \A t \in DOMAIN ToolStats :
           /\ Proper(FailureRate(answer'.calls[t]))
           /\ FailureRate(answer'.calls[t])[1] + answer'.calls[t].success_count
                 = answer'.calls[t].call_count
    BY <1>1, <2>1
  <2>. QED
    BY <1>1, <2>2 DEF TornAnswersLoseNothing, AnsweredTo, Asked, Proper, FailureRate
<1>. QED
  BY <1>2, <1>3, <1>4, <1>5 DEF IInv

LEMMA UsageStep == ASSUME IInv, GetUsage PROVE IInv'
<1>. DEFINE total == UsageTotals(LLMCalls)
            by_model == UsageBy("model")
            by_call_type == UsageBy("call_type")
<1>0. /\ total.call_count = Cardinality(LLMCalls) /\ Cardinality(LLMCalls) \in Nat
      /\ \A b \in {by_model, by_call_type} :
            \A column \in {"call_count", "total_tokens"} :
               SumOf(Column(b, column)) = total[column]
  BY UsageAgrees DEF IInv
<1>. HIDE DEF total, by_model, by_call_type
<1>1. CASE Select("usage", {}, "total", total)
  <2>1. /\ Asked("usage")' /\ DOMAIN answer' = {"total"} /\ answer'.total = total
    BY <1>1 DEF Select, Upsert, Only, Asked
  <2>2. TablesInv' /\ RequestInv' /\ FreshInv' /\ LLMCalls' = LLMCalls
    <3>1. total = Current["total"] /\ "total" \in DOMAIN Current
      BY DEF Current, total
    <3>2. {} # Statements["usage"]
      BY StatementsFacts
    <3>. QED
      BY <1>1, <3>1, <3>2, SelectStep
  <2>3. UsageInv'
    BY <1>0, <2>1, <2>2 DEF UsageInv
  <2>4. CoverInv'
    BY <2>1, <2>3 DEF CoverInv, Asked, OverviewInv, FailuresInv, ScenariosInv, ListInv
  <2>5. ~Answered'
    BY <2>1, StatementsFacts DEF Answered, Asked
  <2>6. UndisturbedAnswersAddUp' /\ TornAnswersLoseNothing'
    BY <2>5 DEF UndisturbedAnswersAddUp, TornAnswersLoseNothing, AnsweredTo
  <2>. QED
    BY <2>2, <2>4, <2>6 DEF IInv
<1>2. CASE Select("usage", {"total"}, "by_model", by_model)
  <2>1. /\ Asked("usage") /\ Asked("usage")' /\ DOMAIN answer = {"total"}
        /\ DOMAIN answer' = {"total", "by_model"}
        /\ answer'.total = answer.total /\ answer'.by_model = by_model
    BY <1>2 DEF Select, Upsert, Only, Asked
  <2>2. TablesInv' /\ RequestInv' /\ FreshInv' /\ LLMCalls' = LLMCalls
    <3>1. by_model = Current["by_model"] /\ "by_model" \in DOMAIN Current
      BY DEF Current, by_model
    <3>2. {"total"} # Statements["usage"]
      BY StatementsFacts
    <3>. QED
      BY <1>2, <3>1, <3>2, SelectStep
  <2>3. UsageInv'
    <3>1. CallCount(by_model) = Cardinality(LLMCalls)
      BY <1>0 DEF CallCount
    <3>2. answer.total.call_count \in Nat /\ answer.total.call_count <= Cardinality(LLMCalls)
      BY <2>1 DEF IInv, CoverInv, UsageInv
    <3>3. CallCount(answer'.by_model) = Cardinality(LLMCalls')
      BY <2>1, <2>2, <3>1
    <3>. QED
      BY <1>0, <2>1, <2>2, <3>2, <3>3 DEF UsageInv, CallCount, Column
  <2>4. CoverInv'
    BY <2>1, <2>3 DEF CoverInv, Asked, OverviewInv, FailuresInv, ScenariosInv, ListInv
  <2>5. ~Answered'
    BY <2>1, StatementsFacts DEF Answered, Asked
  <2>6. UndisturbedAnswersAddUp' /\ TornAnswersLoseNothing'
    BY <2>5 DEF UndisturbedAnswersAddUp, TornAnswersLoseNothing, AnsweredTo
  <2>. QED
    BY <2>2, <2>4, <2>6 DEF IInv
<1>3. CASE Select("usage", {"total", "by_model"}, "by_call_type", by_call_type)
  <2>1. /\ Asked("usage") /\ Asked("usage")' /\ DOMAIN answer = {"total", "by_model"}
        /\ DOMAIN answer' = {"total", "by_model", "by_call_type"}
        /\ answer'.total = answer.total /\ answer'.by_model = answer.by_model
        /\ answer'.by_call_type = by_call_type
    BY <1>3 DEF Select, Upsert, Only, Asked
  <2>2. /\ TablesInv' /\ RequestInv' /\ FreshInv'
        /\ ~overtaken' => answer.total = total /\ answer.by_model = by_model
    <3>1. /\ {"total", "by_model"} # Statements["usage"]
          /\ {"total", "by_model"} \cup {"by_call_type"} = Statements["usage"]
      BY StatementsFacts
    <3>2. Current["total"] = total /\ Current["by_model"] = by_model
      BY DEF Current, total, by_model
    <3>. QED
      BY <1>3, <3>1, <3>2, SelectStep
  <2>3. /\ answer.total.call_count \in Nat /\ CallCount(answer.by_model) \in Nat
        /\ answer.total.call_count <= CallCount(answer.by_model)
        /\ CallCount(answer.by_model) <= Cardinality(LLMCalls)
    BY <2>1 DEF IInv, CoverInv, UsageInv
  <2>4. CoverInv'
    BY <2>1, <2>3 DEF CoverInv, Asked, OverviewInv, UsageInv, FailuresInv, ScenariosInv,
                      ListInv, CallCount, Column
  <2>5. UndisturbedAnswersAddUp'
    <3>1. ASSUME ~overtaken', NEW column \in {"call_count", "total_tokens"}
          PROVE  /\ SumOf(Column(answer'.by_model, column)) = answer'.total[column]
                 /\ SumOf(Column(answer'.by_call_type, column)) = answer'.total[column]
      BY <1>0, <2>1, <2>2, <3>1
    <3>. QED
      BY <2>1, <3>1 DEF UndisturbedAnswersAddUp, AnsweredTo, Asked, Column
  <2>6. TornAnswersLoseNothing'
    <3>1. CallCount(by_call_type) = Cardinality(LLMCalls)
      BY <1>0 DEF CallCount
    <3>2. /\ answer'.total.call_count <= SumOf(Column(answer'.by_model, "call_count"))
          /\ SumOf(Column(answer'.by_model, "call_count"))
                <= SumOf(Column(answer'.by_call_type, "call_count"))
      BY <2>1, <2>3, <3>1 DEF CallCount
    <3>. QED
      BY <2>1, <3>2 DEF TornAnswersLoseNothing, AnsweredTo, Asked, Column
  <2>. QED
    BY <2>2, <2>4, <2>5, <2>6 DEF IInv
<1>. QED
  BY <1>1, <1>2, <1>3 DEF GetUsage, total, by_model, by_call_type

LEMMA FailuresStep == ASSUME IInv, GetFailures PROVE IInv'
<1>. DEFINE types == FailedBy("primary_category")
            severities == FailedBy("max_severity")
            counts == EvaluationCounts
            untyped == Cardinality(FailedWithout("primary_category"))
            unrated == Cardinality(FailedWithout("max_severity"))
<1>0. /\ Cardinality(Evaluated) \in Nat /\ SumOf(counts) = Cardinality(Evaluated)
      /\ counts["fail"] \in Nat /\ counts["incomplete"] \in Nat
      /\ counts["fail"] <= Cardinality(Evaluated)
      /\ SumOf(types) + untyped = counts["fail"]
      /\ SumOf(severities) + unrated = counts["fail"]
      /\ \A f \in {types, severities} :
            \A k \in DOMAIN f : f[k] \in Nat /\ f[k] <= counts["fail"]
      /\ SumOf(severities) <= SumOf(types)
  BY EvaluationsAgree, FailuresAgree, SeveritiesHaveTypes DEF IInv, OverallEvaluationStatus
<1>. HIDE DEF types, severities, counts, untyped, unrated
<1>1. CASE Select("failures", {}, "evaluated", Cardinality(Evaluated))
  <2>1. /\ Asked("failures")' /\ DOMAIN answer' = {"evaluated"}
        /\ answer'.evaluated = Cardinality(Evaluated)
    BY <1>1 DEF Select, Upsert, Only, Asked
  <2>2. TablesInv' /\ RequestInv' /\ FreshInv' /\ Evaluated' = Evaluated
    <3>1. Cardinality(Evaluated) = Current["evaluated"] /\ "evaluated" \in DOMAIN Current
      BY DEF Current
    <3>2. {} # Statements["failures"]
      BY StatementsFacts
    <3>. QED
      BY <1>1, <3>1, <3>2, SelectStep
  <2>3. FailuresInv'
    BY <1>0, <2>1, <2>2 DEF FailuresInv
  <2>4. CoverInv'
    BY <2>1, <2>3 DEF CoverInv, Asked, OverviewInv, UsageInv, ScenariosInv, ListInv
  <2>5. ~Answered'
    BY <2>1, StatementsFacts DEF Answered, Asked
  <2>6. UndisturbedAnswersAddUp' /\ TornAnswersLoseNothing'
    BY <2>5 DEF UndisturbedAnswersAddUp, TornAnswersLoseNothing, AnsweredTo
  <2>. QED
    BY <2>2, <2>4, <2>6 DEF IInv
<1>2. CASE Select("failures", {"evaluated"}, "evaluations", counts)
  <2>1. /\ Asked("failures") /\ Asked("failures")' /\ DOMAIN answer = {"evaluated"}
        /\ DOMAIN answer' = {"evaluated", "evaluations"}
        /\ answer'.evaluated = answer.evaluated /\ answer'.evaluations = counts
    BY <1>2 DEF Select, Upsert, Only, Asked
  <2>2. TablesInv' /\ RequestInv' /\ FreshInv'
    <3>1. counts = Current["evaluations"] /\ "evaluations" \in DOMAIN Current
      BY DEF Current, counts
    <3>2. {"evaluated"} # Statements["failures"]
      BY StatementsFacts
    <3>. QED
      BY <1>2, <3>1, <3>2, SelectStep
  <2>3. FailuresInv'
    <3>1. answer.evaluated \in Nat /\ answer.evaluated <= Cardinality(Evaluated)
      BY <2>1 DEF IInv, CoverInv, FailuresInv
    <3>. QED
      BY <1>0, <2>1, <3>1 DEF FailuresInv
  <2>4. CoverInv'
    BY <2>1, <2>3 DEF CoverInv, Asked, OverviewInv, UsageInv, ScenariosInv, ListInv
  <2>5. ~Answered'
    BY <2>1, StatementsFacts DEF Answered, Asked
  <2>6. UndisturbedAnswersAddUp' /\ TornAnswersLoseNothing'
    BY <2>5 DEF UndisturbedAnswersAddUp, TornAnswersLoseNothing, AnsweredTo
  <2>. QED
    BY <2>2, <2>4, <2>6 DEF IInv
<1>3. CASE Select("failures", {"evaluated", "evaluations"}, "by_failure_type", types)
  <2>1. /\ Asked("failures") /\ Asked("failures")'
        /\ DOMAIN answer = {"evaluated", "evaluations"}
        /\ DOMAIN answer' = {"evaluated", "evaluations", "by_failure_type"}
        /\ answer'.evaluated = answer.evaluated
        /\ answer'.evaluations = answer.evaluations
    BY <1>3 DEF Select, Upsert, Only, Asked
  <2>2. TablesInv' /\ RequestInv' /\ FreshInv'
    <3>1. types = Current["by_failure_type"] /\ "by_failure_type" \in DOMAIN Current
      BY DEF Current, types
    <3>2. {"evaluated", "evaluations"} # Statements["failures"]
      BY StatementsFacts
    <3>. QED
      BY <1>3, <3>1, <3>2, SelectStep
  <2>3. FailuresInv'
    BY <2>1 DEF IInv, CoverInv, FailuresInv
  <2>4. CoverInv'
    BY <2>1, <2>3 DEF CoverInv, Asked, OverviewInv, UsageInv, ScenariosInv, ListInv
  <2>5. ~Answered'
    BY <2>1, StatementsFacts DEF Answered, Asked
  <2>6. UndisturbedAnswersAddUp' /\ TornAnswersLoseNothing'
    BY <2>5 DEF UndisturbedAnswersAddUp, TornAnswersLoseNothing, AnsweredTo
  <2>. QED
    BY <2>2, <2>4, <2>6 DEF IInv
<1>4. CASE Select("failures", {"evaluated", "evaluations", "by_failure_type"},
                  "by_severity", severities)
  <2>1. /\ Asked("failures") /\ Asked("failures")'
        /\ DOMAIN answer = {"evaluated", "evaluations", "by_failure_type"}
        /\ DOMAIN answer' = {"evaluated", "evaluations", "by_failure_type", "by_severity"}
        /\ answer'.evaluated = answer.evaluated
        /\ answer'.evaluations = answer.evaluations
        /\ answer'.by_failure_type = answer.by_failure_type
        /\ answer'.by_severity = severities
    BY <1>4 DEF Select, Upsert, Only, Asked
  <2>2. /\ TablesInv' /\ RequestInv' /\ FreshInv'
        /\ ~overtaken' => /\ answer.evaluated = Cardinality(Evaluated)
                          /\ answer.evaluations = counts
                          /\ answer.by_failure_type = types
        /\ \A column : FailedWithout(column)' = FailedWithout(column)
    <3>1. /\ {"evaluated", "evaluations", "by_failure_type"} # Statements["failures"]
          /\ {"evaluated", "evaluations", "by_failure_type"} \cup {"by_severity"}
                = Statements["failures"]
      BY StatementsFacts
    <3>2. /\ Current["evaluated"] = Cardinality(Evaluated)
          /\ Current["evaluations"] = counts /\ Current["by_failure_type"] = types
      BY DEF Current, counts, types
    <3>. QED
      BY <1>4, <3>1, <3>2, SelectStep
  <2>3. FailuresInv'
    BY <2>1 DEF IInv, CoverInv, FailuresInv
  <2>4. CoverInv'
    BY <2>1, <2>3 DEF CoverInv, Asked, OverviewInv, UsageInv, ScenariosInv, ListInv
  <2>5. UndisturbedAnswersAddUp'
    <3>1. ASSUME ~overtaken'
          PROVE  /\ answer'.evaluated = Cardinality(Evaluated)
                 /\ answer'.evaluations = counts
                 /\ answer'.by_failure_type = types /\ answer'.by_severity = severities
      BY <2>1, <2>2, <3>1
    <3>2. ASSUME ~overtaken', NEW f \in {types, severities}, NEW k \in DOMAIN f
          PROVE  Proper(PctOfEvaluated(f[k])') /\ Proper(PctOfFailing(f[k])')
      <4>. DEFINE part == f[k]
                  evaluated == Cardinality(Evaluated)
                  failing == counts["fail"] + counts["incomplete"]
      <4>1. /\ part \in Nat /\ evaluated \in Nat /\ failing \in Nat
            /\ part <= evaluated /\ part <= failing
        BY <1>0
      <4>2. /\ PctOfEvaluated(part)' = Ratio(part, evaluated)
            /\ PctOfFailing(part)' = Ratio(part, failing)
        BY <3>1, <3>2 DEF PctOfEvaluated, PctOfFailing
      <4>. HIDE DEF part, evaluated, failing
      <4>3. Proper(Ratio(part, evaluated)) /\ Proper(Ratio(part, failing))
        BY <4>1, SharesAreProper
      <4>. QED
        BY <4>2, <4>3 DEF part
    <3>3. /\ Cardinality(FailedWithout("primary_category"))' = untyped
          /\ Cardinality(FailedWithout("max_severity"))' = unrated
      BY <2>2 DEF untyped, unrated
    <3>. QED
      BY <1>0, <2>1, <3>1, <3>2, <3>3 DEF UndisturbedAnswersAddUp, AnsweredTo, Asked,
                                          PctOfEvaluated, PctOfFailing, Proper
  <2>6. TornAnswersLoseNothing'
    BY <2>1, <2>3 DEF TornAnswersLoseNothing, FailuresInv, AnsweredTo, Asked
  <2>. QED
    BY <2>2, <2>4, <2>5, <2>6 DEF IInv
<1>. QED
  BY <1>1, <1>2, <1>3, <1>4 DEF GetFailures, types, severities, counts

LEMMA ScenariosStep == ASSUME IInv, GetScenarios PROVE IInv'
<1>. DEFINE summary == ScenarioSummary
            distribution == ScenarioFailures
<1>0. /\ \A s \in DOMAIN summary : Proper(PassRate(summary[s]))
      /\ \A s \in DOMAIN distribution :
            /\ s \in DOMAIN summary
            /\ distribution[s] + summary[s].pass_count <= summary[s].execution_count
  BY ScenariosAgree DEF IInv
<1>. HIDE DEF summary, distribution
<1>1. CASE Select("scenarios", {}, "summary", summary)
  <2>1. /\ Asked("scenarios")' /\ DOMAIN answer' = {"summary"}
        /\ answer'.summary = summary
    BY <1>1 DEF Select, Upsert, Only, Asked
  <2>2. TablesInv' /\ RequestInv' /\ FreshInv'
    <3>1. summary = Current["summary"] /\ "summary" \in DOMAIN Current
      BY DEF Current, summary
    <3>2. {} # Statements["scenarios"]
      BY StatementsFacts
    <3>. QED
      BY <1>1, <3>1, <3>2, SelectStep
  <2>3. ScenariosInv'
    BY <1>0, <2>1 DEF ScenariosInv, Proper, PassRate, Rate
  <2>4. CoverInv'
    BY <2>1, <2>3 DEF CoverInv, Asked, OverviewInv, UsageInv, FailuresInv, ListInv
  <2>5. ~Answered'
    BY <2>1, StatementsFacts DEF Answered, Asked
  <2>6. UndisturbedAnswersAddUp' /\ TornAnswersLoseNothing'
    BY <2>5 DEF UndisturbedAnswersAddUp, TornAnswersLoseNothing, AnsweredTo
  <2>. QED
    BY <2>2, <2>4, <2>6 DEF IInv
<1>2. CASE Select("scenarios", {"summary"}, "distribution", distribution)
  <2>1. /\ Asked("scenarios") /\ Asked("scenarios")' /\ DOMAIN answer = {"summary"}
        /\ DOMAIN answer' = {"summary", "distribution"}
        /\ answer'.summary = answer.summary /\ answer'.distribution = distribution
    BY <1>2 DEF Select, Upsert, Only, Asked
  <2>2. /\ TablesInv' /\ RequestInv' /\ FreshInv'
        /\ ~overtaken' => answer.summary = summary
    <3>1. /\ {"summary"} # Statements["scenarios"]
          /\ {"summary"} \cup {"distribution"} = Statements["scenarios"]
      BY StatementsFacts
    <3>2. Current["summary"] = summary
      BY DEF Current, summary
    <3>. QED
      BY <1>2, <3>1, <3>2, SelectStep
  <2>3. \A s \in DOMAIN answer'.summary : Proper(PassRate(answer'.summary[s]))
    BY <2>1 DEF IInv, CoverInv, ScenariosInv
  <2>4. CoverInv'
    BY <2>1, <2>3 DEF CoverInv, Asked, OverviewInv, UsageInv, FailuresInv, ScenariosInv,
                      ListInv, Proper, PassRate, Rate
  <2>5. UndisturbedAnswersAddUp'
    BY <1>0, <2>1, <2>2 DEF UndisturbedAnswersAddUp, AnsweredTo, Asked
  <2>6. TornAnswersLoseNothing'
    BY <2>1, <2>3 DEF TornAnswersLoseNothing, AnsweredTo, Asked, Proper, PassRate, Rate
  <2>. QED
    BY <2>2, <2>4, <2>5, <2>6 DEF IInv
<1>. QED
  BY <1>1, <1>2 DEF GetScenarios, summary, distribution

LEMMA ListStep == ASSUME IInv, ListRuns PROVE IInv'
<1>. DEFINE n == Cardinality(Listed)
<1>1. /\ n \in Nat
      /\ request.status = None /\ request.overall_status = None =>
            n = Cardinality(InRange)
  <2>1. request.status = None /\ request.overall_status = None => Listed = InRange
    BY DEF Listed
  <2>. QED
    BY <2>1, InRangeFacts, CountFacts DEF IInv, Listed
<1>. HIDE DEF n
<1>2. CASE Select("runs", {}, "count", n)
  <2>1. /\ Asked("runs")' /\ DOMAIN answer' = {"count"} /\ answer'.count = n
        /\ request' = request
    BY <1>2 DEF Select, Upsert, Only, Asked
  <2>2. TablesInv' /\ RequestInv' /\ FreshInv' /\ InRange' = InRange
    <3>1. n = Current["count"] /\ "count" \in DOMAIN Current
      BY DEF Current, n
    <3>2. {} # Statements["runs"]
      BY StatementsFacts
    <3>. QED
      BY <1>2, <3>1, <3>2, SelectStep
  <2>3. ListInv'
    BY <1>1, <2>1, <2>2 DEF ListInv
  <2>4. CoverInv'
    BY <2>1, <2>3 DEF CoverInv, Asked, OverviewInv, UsageInv, FailuresInv, ScenariosInv
  <2>5. ~Answered'
    BY <2>1, StatementsFacts DEF Answered, Asked
  <2>6. UndisturbedAnswersAddUp' /\ TornAnswersLoseNothing'
    BY <2>5 DEF UndisturbedAnswersAddUp, TornAnswersLoseNothing, AnsweredTo
  <2>. QED
    BY <2>2, <2>4, <2>6 DEF IInv
<1>3. ASSUME NEW page \in Pages, Select("runs", {"count"}, "page", page)
      PROVE  IInv'
  <2>1. /\ Asked("runs") /\ Asked("runs")' /\ DOMAIN answer = {"count"}
        /\ DOMAIN answer' = {"count", "page"}
        /\ answer'.count = answer.count /\ answer'.page = page /\ request' = request
    BY <1>3 DEF Select, Upsert, Only, Asked
  <2>2. /\ TablesInv' /\ RequestInv' /\ FreshInv'
        /\ ~overtaken' => answer.count = n
    <3>1. /\ {"count"} # Statements["runs"] /\ {"count"} \cup {"page"} = Statements["runs"]
      BY StatementsFacts
    <3>2. Current["count"] = n
      BY DEF Current, n
    <3>. QED
      BY <1>3, <3>1, <3>2, SelectStep
  <2>3. request \in Requests /\ request.limit \in 1..100 /\ request.offset \in Nat
    BY <2>1, RequestsAssumption DEF IInv, RequestInv, Asked
  <2>4. /\ Len(page) = Max({0, Min({request.limit, n - request.offset})})
        /\ IsInjective(page)
    BY <2>3, PageFacts DEF IInv, n
  <2>5. CoverInv'
    BY <2>1 DEF CoverInv, Asked, OverviewInv, UsageInv, FailuresInv, ScenariosInv, ListInv
  <2>6. UndisturbedAnswersAddUp'
    BY <2>1, <2>2, <2>4 DEF UndisturbedAnswersAddUp, AnsweredTo, Asked
  <2>7. TornAnswersLoseNothing'
    <3>. DEFINE limit == request.limit
                left == n - request.offset
    <3>1. limit \in Int /\ limit > 0 /\ left \in Int
      BY <1>1, <2>3
    <3>. HIDE DEF limit, left
    <3>2. Min({limit, left}) = (IF limit <= left THEN limit ELSE left)
      BY <3>1, MinMaxFacts
    <3>3. Len(page) = IF Min({limit, left}) <= 0 THEN 0 ELSE Min({limit, left})
      <4>. DEFINE zero == 0
                  m == Min({limit, left})
      <4>1. zero \in Int /\ m \in Int
        BY <3>1, <3>2
      <4>2. Len(page) = Max({zero, m})
        BY <2>4 DEF limit, left
      <4>. HIDE DEF zero, m
      <4>3. Max({zero, m}) = IF zero <= m THEN m ELSE zero
        BY <4>1, MinMaxFacts
      <4>4. Len(page) = IF m <= zero THEN zero ELSE m
        <5>1. Len(page) = IF zero <= m THEN m ELSE zero
          BY <4>2, <4>3
        <5>. QED
          BY <4>1, <5>1
      <4>. QED
        BY <4>4 DEF zero, m
    <3>4. Len(page) \in Int /\ Len(page) <= limit
      BY <3>1, <3>2, <3>3
    <3>5. ASSUME request.status = None, request.overall_status = None
          PROVE  Len(page) >= Min({limit, answer.count - request.offset})
      <4>. DEFINE promised == answer.count - request.offset
      <4>1. answer.count \in Nat /\ answer.count <= n
        BY <1>1, <2>1, <3>5 DEF IInv, CoverInv, ListInv
      <4>2. promised \in Int /\ promised <= left
        BY <1>1, <2>3, <4>1 DEF left
      <4>. HIDE DEF promised
      <4>3. Min({limit, promised}) = IF limit <= promised THEN limit ELSE promised
        BY <3>1, <4>2, MinMaxFacts
      <4>. QED
        BY <3>1, <3>2, <3>3, <4>2, <4>3 DEF promised
    <3>6. /\ IsInjective(answer'.page) /\ Len(answer'.page) <= request'.limit
          /\ request'.status = None /\ request'.overall_status = None =>
                Len(answer'.page)
                   >= Min({request'.limit, answer'.count - request'.offset})
      BY <2>1, <2>4, <3>4, <3>5 DEF limit
    <3>. QED
      BY <2>1, <3>6 DEF TornAnswersLoseNothing, AnsweredTo, Asked, IsInjective
  <2>. QED
    BY <2>2, <2>5, <2>6, <2>7 DEF IInv
<1>. QED
  BY <1>2, <1>3 DEF ListRuns, n

LEMMA StutterStep == ASSUME IInv, UNCHANGED vars PROVE IInv'
<1>1. UNCHANGED <<agent_runs, run_failures, request, answer, overtaken>>
  BY DEF vars, tables
<1>2. /\ InRange' = InRange /\ Evaluated' = Evaluated
      /\ LLMCalls' = LLMCalls /\ Current' = Current
      /\ \A column : FailedWithout(column)' = FailedWithout(column)
  BY <1>1, SameRows
<1>3. TablesInv' /\ RequestInv'
  BY <1>1 DEF IInv, TablesInv, RequestInv, StoredRuns
<1>4. FreshInv'
  BY <1>1, <1>2 DEF IInv, FreshInv, Halfway, Answered
<1>5. CoverInv'
  <2>1. OverviewInv' /\ UsageInv'
    BY <1>1, <1>2 DEF IInv, CoverInv, OverviewInv, UsageInv, Asked, RuntimeSuccessRate,
                      BehavioralPassRate
  <2>2. FailuresInv' /\ ScenariosInv' /\ ListInv'
    BY <1>1, <1>2 DEF IInv, CoverInv, FailuresInv, ScenariosInv, ListInv, Asked
  <2>. QED
    BY <2>1, <2>2 DEF CoverInv
<1>6. UndisturbedAnswersAddUp'
  BY <1>1, <1>2 DEF IInv, UndisturbedAnswersAddUp, AnsweredTo, Answered, PctOfEvaluated,
                    PctOfFailing
<1>7. TornAnswersLoseNothing'
  BY <1>1, TornAnswerStands DEF IInv
<1>. QED
  BY <1>3, <1>4, <1>5, <1>6, <1>7 DEF IInv

\* Initially there is nothing to answer from and nothing asked.
LEMMA InitIInv == Init => IInv
<1>. SUFFICES ASSUME Init PROVE IInv
  OBVIOUS
<1>1. request = None /\ DOMAIN answer = {} /\ DOMAIN agent_runs = {} /\ DOMAIN run_failures = {}
  BY DEF Init, NoRows
<1>2. TablesInv /\ RequestInv /\ FreshInv
  BY <1>1 DEF TablesInv, StoredRuns, RequestInv, FreshInv, Halfway
<1>3. CoverInv
  BY <1>1 DEF CoverInv, OverviewInv, UsageInv, FailuresInv, ScenariosInv, ListInv, Asked
<1>4. UndisturbedAnswersAddUp /\ TornAnswersLoseNothing
  BY <1>1 DEF UndisturbedAnswersAddUp, TornAnswersLoseNothing, AnsweredTo, Answered
<1>. QED
  BY <1>2, <1>3, <1>4 DEF IInv

LEMMA Invariance == Spec => []IInv
<1>1. IInv /\ [Next]_vars => IInv'
  BY WriteStep, AskStep, OverviewStep, ToolsStep, UsageStep, FailuresStep, ScenariosStep,
     ListStep, StutterStep DEF Next
<1>. QED
  BY <1>1, InitIInv, PTL DEF Spec

-----------------------------------------------------------------------------
(* The theorems.                                                           *)

\* The tables hold rows of their types, a classification is of a stored run,
\* and a severity comes only with a category and that only with a failure.
THEOREM TablesAreTyped == Spec => []TablesInv
<1>1. IInv => TablesInv
  BY DEF IInv
<1>. QED
  BY <1>1, Invariance, PTL

\* Unless a write comes in between, the statements of an answer agree: the
\* breakdowns by status, by evaluation and of calls add up to their totals, those
\* of failed runs to the failed runs but for exactly those without the entry,
\* shares are shares, and a page is as long as the total says
\* (routes/analytics.py, list_runs).
THEOREM AnswersAddUp == Spec => []UndisturbedAnswersAddUp
<1>1. IInv => UndisturbedAnswersAddUp
  BY DEF IInv
<1>. QED
  BY <1>1, Invariance, PTL

\* However writes and statements interleave, what a later statement breaks
\* down covers what an earlier one has totalled, a page is as long as promised
\* and names no run twice, and rates are rates (routes/analytics.py,
\* list_runs).
THEOREM AnswersLoseNothing == Spec => []TornAnswersLoseNothing
<1>1. IInv => TornAnswersLoseNothing
  BY DEF IInv
<1>. QED
  BY <1>1, Invariance, PTL
=============================================================================
