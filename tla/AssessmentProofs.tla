--------------------------- MODULE AssessmentProofs ---------------------------
(***************************************************************************)
(* What holds of Assessment for every case an agent can make: how often    *)
(* and with what a judge is asked again, what every verdict rests on, that *)
(* an unauthorised work order decides the classification, and that the     *)
(* verdict is about what the agent did.                                    *)
(***************************************************************************)
EXTENDS Assessment, CommonProofs

-----------------------------------------------------------------------------
(* One judge call.                                                         *)

ToCorrect == {"invalid", "declined"}

\* Every attempt so far: the prompt it was asked with and, but for the last
\* one, the answer that had to be corrected.
Attempts ==
    /\ Len(requests) = Len(call_log)
    /\ Len(requests) = Len(answers)
    /\ \A i \in DOMAIN requests :
          /\ requests[i] = IF i = 1 THEN {} ELSE {i - 1}
          /\ i < Len(answers) => answers[i].kind \in ToCorrect

JudgeInv ==
    /\ JudgeTypeOK
    /\ Attempts
    /\ Len(requests) <= MAX_STRUCTURED_OUTPUT_ATTEMPTS
    /\ call = "asking" =>
          /\ Len(requests) = attempt_index
          /\ current_prompt = IF attempt_index = 0 THEN {} ELSE {attempt_index}
          /\ \A i \in DOMAIN answers : answers[i].kind \in ToCorrect
    /\ call \in {"returned", "raised"} => Len(requests) > 0
    /\ call = "returned" => Last(answers).kind = "valid"
    /\ call = "raised" =>
          \/ Last(answers).kind = "lost"
          \/ Len(answers) = MAX_STRUCTURED_OUTPUT_ATTEMPTS

\* A judge client that nobody has asked satisfies the invariant.
LEMMA JudgeStarts == JudgeInit => JudgeInv
BY DEF JudgeInit, JudgeInv, JudgeTypeOK, Attempts, MAX_STRUCTURED_OUTPUT_ATTEMPTS

\* So does one that has just been asked (JudgeClient.generate_structured).
LEMMA AskingStarts == JudgeInv /\ GenerateStructured => JudgeInv'
BY DEF GenerateStructured, JudgeInv, JudgeTypeOK, Attempts, MAX_STRUCTURED_OUTPUT_ATTEMPTS

\* Collecting the result ends a call and changes no history.
LEMMA FinishKeeps == JudgeInv /\ Finish => JudgeInv'
BY DEF Finish, JudgeInv, JudgeTypeOK, Attempts

\* Every attempt is logged with the prompt it was due.
LEMMA AttemptLogged ==
    ASSUME JudgeInv, NEW answer \in JudgeAnswers,
           RawComplete(answer), AppendCallLog(answer)
    PROVE  /\ call_log' \in Seq(0..Usage)
           /\ requests' \in Seq(SUBSET (1..MAX_STRUCTURED_OUTPUT_ATTEMPTS))
           /\ answers' \in Seq(JudgeAnswer)
           /\ Attempts'
           /\ Len(requests') = attempt_index + 1
           /\ Len(answers') = attempt_index + 1
           /\ \A i \in 1..attempt_index : answers'[i].kind \in ToCorrect
           /\ answers'[attempt_index + 1] = answer
           /\ Last(answers') = answer
<1>. DEFINE n == attempt_index
<1>1. /\ answer \in JudgeAnswer
      /\ LoggedUsage(answer) \in 0..Usage
  BY JudgeAnswersAssumption DEF LoggedUsage, Usage
<1>2. /\ call_log \in Seq(0..Usage) /\ Len(call_log) = n
      /\ requests \in Seq(SUBSET (1..MAX_STRUCTURED_OUTPUT_ATTEMPTS)) /\ Len(requests) = n
      /\ answers \in Seq(JudgeAnswer) /\ Len(answers) = n
      /\ n \in 0..2
      /\ current_prompt \in SUBSET (1..MAX_STRUCTURED_OUTPUT_ATTEMPTS)
      /\ current_prompt = IF n = 0 THEN {} ELSE {n}
      /\ \A i \in 1..n : answers[i].kind \in ToCorrect
      /\ \A i \in 1..n : requests[i] = IF i = 1 THEN {} ELSE {i - 1}
  <2>1. /\ call = "asking" /\ JudgeTypeOK /\ Attempts
        /\ Len(requests) = n
        /\ current_prompt = IF n = 0 THEN {} ELSE {n}
        /\ \A i \in DOMAIN answers : answers[i].kind \in ToCorrect
    BY DEF RawComplete, JudgeInv
  <2>2. /\ n \in 0..2
        /\ current_prompt \in SUBSET (1..MAX_STRUCTURED_OUTPUT_ATTEMPTS)
        /\ call_log \in Seq(0..Usage)
        /\ requests \in Seq(SUBSET (1..MAX_STRUCTURED_OUTPUT_ATTEMPTS))
        /\ answers \in Seq(JudgeAnswer)
    BY <2>1 DEF JudgeTypeOK, MAX_STRUCTURED_OUTPUT_ATTEMPTS
  <2>3. /\ Len(call_log) = n /\ Len(answers) = n
        /\ \A i \in DOMAIN requests : requests[i] = IF i = 1 THEN {} ELSE {i - 1}
    BY <2>1 DEF Attempts
  <2>4. DOMAIN answers = 1..n /\ DOMAIN requests = 1..n
    BY <2>1, <2>2, <2>3
  <2>. QED
    BY <2>1, <2>2, <2>3, <2>4
<1>3. /\ call_log' = Append(call_log, LoggedUsage(answer))
      /\ requests' = Append(requests, current_prompt)
      /\ answers' = Append(answers, answer)
  BY DEF RawComplete, AppendCallLog
<1>. HIDE DEF n
<1>4. /\ call_log' \in Seq(0..Usage) /\ Len(call_log') = n + 1
      /\ requests' \in Seq(SUBSET (1..MAX_STRUCTURED_OUTPUT_ATTEMPTS))
      /\ Len(requests') = n + 1
      /\ answers' \in Seq(JudgeAnswer) /\ Len(answers') = n + 1
  BY <1>1, <1>2, <1>3
<1>5. /\ \A i \in 1..n : answers'[i].kind \in ToCorrect
      /\ answers'[n + 1] = answer
      /\ Last(answers') = answer
  BY <1>1, <1>2, <1>3, <1>4 DEF Last
<1>6. \A i \in 1..n+1 : requests'[i] = IF i = 1 THEN {} ELSE {i - 1}
  <2>1. requests'[n + 1] = current_prompt
    BY <1>2, <1>3
  <2>2. \A i \in 1..n : requests'[i] = requests[i]
    BY <1>2, <1>3
  <2>. QED
    <3>1. ASSUME NEW i \in 1..n+1
          PROVE  requests'[i] = IF i = 1 THEN {} ELSE {i - 1}
      <4>1. CASE i = n + 1
        <5>1. requests'[i] = current_prompt
          BY <2>1, <4>1
        <5>2. current_prompt = IF i = 1 THEN {} ELSE {i - 1}
          BY <1>2, <4>1
        <5>. QED
          BY <5>1, <5>2
      <4>2. CASE i # n + 1
        <5>1. i \in 1..n
          BY <1>2, <4>2
        <5>. QED
          BY <1>2, <2>2, <5>1
      <4>. QED
        BY <4>1, <4>2
    <3>. QED
      BY <3>1
<1>7. Attempts'
  BY <1>2, <1>4, <1>5, <1>6 DEF Attempts
<1>. QED
  BY <1>4, <1>5, <1>7 DEF n

\* An attempt ends in an answer, in an error, or in another question.
LEMMA AttemptKeeps ==
    ASSUME JudgeInv, NEW answer \in JudgeAnswers, Attempt(answer)
    PROVE  JudgeInv' /\ call = "asking" /\ call' # "idle"
<1>. USE DEF MAX_STRUCTURED_OUTPUT_ATTEMPTS
<1>1. /\ call = "asking"
      /\ attempt_index \in 0..2
      /\ current_prompt \in SUBSET (1..3)
  BY DEF Attempt, AttemptSucceeds, AttemptRetried, AttemptExhausted,
         AttemptRaises, RawComplete, JudgeInv, JudgeTypeOK
<1>2. CASE AttemptSucceeds(answer)
  <2>1. /\ answer.kind = "valid" /\ RawComplete(answer) /\ AppendCallLog(answer)
        /\ call' = "returned"
        /\ attempt_index' = attempt_index /\ current_prompt' = current_prompt
    BY <1>2 DEF AttemptSucceeds
  <2>. QED
    BY <1>1, <2>1, AttemptLogged DEF JudgeInv, JudgeTypeOK
<1>3. CASE AttemptRetried(answer)
  <2>1. /\ answer.kind \in {"invalid", "declined"}
        /\ RawComplete(answer) /\ AppendCallLog(answer)
        /\ call' = "asking" /\ attempt_index < 2
        /\ attempt_index' = attempt_index + 1
        /\ current_prompt' = {attempt_index + 1}
    BY <1>1, <1>3 DEF AttemptRetried, RetryPrompt
  <2>2. \A i \in 1..attempt_index + 1 : answers'[i].kind \in ToCorrect
    BY <1>1, <2>1, AttemptLogged DEF ToCorrect
  <2>3. JudgeTypeOK'
    BY <1>1, <2>1, AttemptLogged DEF JudgeTypeOK
  <2>4. DOMAIN answers' = 1..attempt_index + 1
    BY <1>1, <2>1, <2>3, AttemptLogged DEF JudgeTypeOK
  <2>. QED
    BY <1>1, <2>1, <2>2, <2>3, <2>4, AttemptLogged DEF JudgeInv
<1>4. CASE AttemptExhausted(answer)
  <2>1. /\ RawComplete(answer) /\ AppendCallLog(answer)
        /\ call' = "raised" /\ attempt_index = 2
        /\ attempt_index' = attempt_index /\ current_prompt' = current_prompt
    BY <1>4 DEF AttemptExhausted
  <2>2. Len(answers') = 3 /\ Len(requests') = 3
    BY <2>1, AttemptLogged
  <2>. QED
    BY <1>1, <2>1, <2>2, AttemptLogged DEF JudgeInv, JudgeTypeOK
<1>5. CASE AttemptRaises(answer)
  <2>1. /\ answer.kind = "lost" /\ RawComplete(answer) /\ AppendCallLog(answer)
        /\ call' = "raised"
        /\ attempt_index' = attempt_index /\ current_prompt' = current_prompt
    BY <1>5 DEF AttemptRaises
  <2>. QED
    BY <1>1, <2>1, AttemptLogged DEF JudgeInv, JudgeTypeOK
<1>. QED
  BY <1>2, <1>3, <1>4, <1>5 DEF Attempt

-----------------------------------------------------------------------------
(* The loop over the registry.                                             *)

\* What the provider can answer that fits the schema.
Verdicts == {answer \in JudgeAnswer : answer.kind = "valid"}

\* What a judge's turn can come to, for a case.
JudgeOutcomes(c, judge) ==
    IF c.judges = "unconfigured" THEN {Skipped}
    ELSE IF c.judges = "broken" THEN {Raised(0)}
    ELSE IF c.status # "success" THEN {Completed(NotApplicable, 0)}
    ELSE {Raised(n) : n \in 1..MAX_STRUCTURED_OUTPUT_ATTEMPTS}
         \cup {Completed(JudgeResult(judge, answer), n) :
                 answer \in Verdicts, n \in 1..MAX_STRUCTURED_OUTPUT_ATTEMPTS}

\* And the turn of any evaluator: the deterministic ones have no choice.
OutcomesOf(c, k) ==
    IF ALL_EVALUATORS[k] \in DeterministicEvaluators
    THEN {Completed(Evaluate(ALL_EVALUATORS[k], View(c)), 0)}
    ELSE JudgeOutcomes(c, ALL_EVALUATORS[k])

LoopInv ==
    /\ case \in Cases
    /\ run = View(case)
    /\ outcomes \in Seq(UNION {OutcomesOf(case, k) : k \in 1..7})
    /\ Len(outcomes) <= 7
    /\ \A k \in 1..Len(outcomes) : outcomes[k] \in OutcomesOf(case, k)
    /\ call # "idle" =>
          /\ case.judges = "working" /\ case.status = "success"
          /\ Len(outcomes) \in {5, 6}
    /\ classification # None =>
          /\ Len(outcomes) = 7
          /\ classification = Classify(ToSet(outcomes))

IInv == LoopInv /\ JudgeInv

\* The registry in numbers.
LEMMA RegistryFacts ==
    /\ Len(ALL_EVALUATORS) = 7
    /\ \A k \in 1..7 :
          /\ ALL_EVALUATORS[k] \in DeterministicEvaluators \cup Judges
          /\ ALL_EVALUATORS[k] \in DeterministicEvaluators <=> k < 6
          /\ ALL_EVALUATORS[k] \in Judges <=> k \in {6, 7}
<1>1. \A k \in 1..7 : ALL_EVALUATORS[k] =
        IF k = 1 THEN "tool_execution" ELSE
        IF k = 2 THEN "structured_output" ELSE
        IF k = 3 THEN "trajectory" ELSE
        IF k = 4 THEN "policy" ELSE
        IF k = 5 THEN "evidence" ELSE
        IF k = 6 THEN "groundedness" ELSE "uncertainty"
  BY DEF ALL_EVALUATORS
<1>2. Len(ALL_EVALUATORS) = 7
  BY DEF ALL_EVALUATORS
<1>. QED
  BY <1>1, <1>2 DEF DeterministicEvaluators, Judges

\* What a case is made of.
LEMMA CaseFacts ==
    ASSUME NEW c \in Cases
    PROVE  /\ c.trace \in Seq([kind : {"span", "tool"}, name : STRING,
                               status : {"success", "failure", "error"}])
           /\ c.status \in {"success", "tool_error", "runtime_error", "awaiting_approval"}
           /\ c.decision \in {"approved", "rejected", None}
           /\ c.final_result_output \in BOOLEAN
           /\ c.judges \in {"unconfigured", "broken", "working"}
           /\ View(c).status = c.status
<1>1. c \in Case
  BY CasesAssumption
<1>. QED
  BY <1>1 DEF Case, View

\* An assessment that has evaluated nothing satisfies the invariant.
LEMMA InitIInv == Init => IInv
<1>. SUFFICES ASSUME Init PROVE IInv
  OBVIOUS
<1>1. JudgeInv /\ call = "idle"
  BY JudgeStarts DEF Init, JudgeInit
<1>2. LoopInv
  BY <1>1 DEF Init, LoopInv
<1>. QED
  BY <1>1, <1>2 DEF IInv

\* Where the loop is.
LEMMA LoopFacts ==
    ASSUME LoopInv
    PROVE  /\ Len(outcomes) \in 0..7
           /\ HasNext => /\ Len(outcomes) \in 0..6
                         /\ NextEvaluator = ALL_EVALUATORS[Len(outcomes) + 1]
                         /\ Len(outcomes) + 1 \in 1..7
                         /\ classification = None
           /\ ~HasNext => Len(outcomes) = 7
           /\ HasNext /\ NextEvaluator \in DeterministicEvaluators =>
                 Len(outcomes) \in 0..4
           /\ HasNext /\ NextEvaluator \in Judges => Len(outcomes) \in {5, 6}
           /\ Len(outcomes) \in {5, 6} => HasNext /\ NextEvaluator \in Judges
<1>. DEFINE All == UNION {OutcomesOf(case, k) : k \in 1..7}
            n == Len(outcomes)
<1>1. n \in 0..7
  <2>1. outcomes \in Seq(All) /\ n <= 7
    BY DEF LoopInv
  <2>2. n \in Nat
    <3>1. \A S, seq : seq \in Seq(S) => Len(seq) \in Nat
      OBVIOUS
    <3>. HIDE DEF All
    <3>. QED
      BY <2>1, <3>1
  <2>3. \A i \in Nat : i <= 7 => i \in 0..7
    OBVIOUS
  <2>. HIDE DEF n
  <2>. QED
    BY <2>1, <2>2, <2>3
<1>2. classification # None => n = 7
  BY DEF LoopInv
<1>3. HasNext <=> n < 7
  BY RegistryFacts DEF HasNext
<1>4. NextEvaluator = ALL_EVALUATORS[n + 1]
  BY DEF NextEvaluator
<1>. HIDE DEF n
<1>5. HasNext => n + 1 \in 1..7 /\ n \in 0..6
  BY <1>1, <1>3
<1>6. /\ HasNext /\ NextEvaluator \in DeterministicEvaluators => n \in 0..4
      /\ HasNext /\ NextEvaluator \in Judges => n \in {5, 6}
      /\ n \in {5, 6} => NextEvaluator \in Judges
  <2>1. ASSUME n \in 0..6
        PROVE  /\ NextEvaluator \in DeterministicEvaluators <=> n + 1 < 6
               /\ NextEvaluator \in Judges <=> n + 1 \in {6, 7}
    <3>1. n + 1 \in 1..7
      BY <2>1
    <3>. QED
      BY <1>4, <3>1, RegistryFacts
  <2>. QED
    BY <1>3, <1>5, <2>1
<1>7. n = Len(outcomes)
  BY DEF n
<1>8. HasNext => classification = None
  BY <1>1, <1>2, <1>3
<1>9. ~HasNext => n = 7
  BY <1>1, <1>3
<1>10. n \in {5, 6} => HasNext
  BY <1>3
<1>. QED
  BY <1>1, <1>4, <1>5, <1>6, <1>7, <1>8, <1>9, <1>10

\* An evaluator that has its turn adds an outcome that its turn can come to.
LEMMA ConcludeKeeps ==
    ASSUME LoopInv, HasNext, classification = None, call' = "idle",
           NEW outcome \in OutcomesOf(case, Len(outcomes) + 1),
           Conclude(outcome)
    PROVE  LoopInv'
<1>. DEFINE All == UNION {OutcomesOf(case, k) : k \in 1..7}
            n == Len(outcomes)
<1>1. /\ outcomes \in Seq(All) /\ n \in 0..6
      /\ \A k \in 1..n : outcomes[k] \in OutcomesOf(case, k)
      /\ case \in Cases /\ run = View(case)
  BY LoopFacts DEF LoopInv
<1>2. /\ outcomes' = Append(outcomes, outcome)
      /\ case' = case /\ run' = run /\ classification' = None
  BY DEF Conclude
<1>3. outcome \in All
  BY <1>1
<1>4. /\ outcomes' \in Seq(All) /\ Len(outcomes') = n + 1
      /\ \A k \in 1..n : outcomes'[k] = outcomes[k]
      /\ outcomes'[n + 1] = outcome
  <2>. HIDE DEF All
  <2>. QED
    BY <1>1, <1>2, <1>3
<1>5. \A k \in 1..n + 1 : outcomes'[k] \in OutcomesOf(case, k)
  <2>1. ASSUME NEW k \in 1..n + 1
        PROVE  outcomes'[k] \in OutcomesOf(case, k)
    <3>1. CASE k = n + 1
      BY <1>4, <3>1
    <3>2. CASE k # n + 1
      <4>1. k \in 1..n
        BY <1>1, <3>2
      <4>. QED
        BY <1>1, <1>4, <4>1
    <3>. QED
      BY <3>1, <3>2
  <2>. QED
    BY <2>1
<1>. QED
  BY <1>1, <1>2, <1>4, <1>5 DEF LoopInv

\* Every step of the registry loop, of a judge's call and of the
\* classification keeps the invariant.
LEMMA NextIInv == IInv /\ [Next]_vars => IInv'
<1>. SUFFICES ASSUME IInv, [Next]_vars PROVE IInv'
  OBVIOUS
<1>. DEFINE n == Len(outcomes)
<1>0. /\ LoopInv /\ JudgeInv
      /\ n \in 0..7
      /\ classification # None => n = 7
      /\ call # "idle" => n \in {5, 6} /\ case.judges = "working" /\ case.status = "success"
      /\ call \in {"idle", "asking", "returned", "raised"}
      /\ case \in Cases /\ run = View(case)
      /\ run.status = case.status
  <2>1. LoopInv /\ JudgeInv
    BY DEF IInv
  <2>2. call \in {"idle", "asking", "returned", "raised"}
    BY <2>1 DEF JudgeInv, JudgeTypeOK
  <2>. QED
    BY <2>1, <2>2, LoopFacts, CaseFacts DEF LoopInv
<1>1. ASSUME UNCHANGED judge_vars PROVE JudgeInv' /\ call' = call
  BY <1>0, <1>1 DEF judge_vars, JudgeInv, JudgeTypeOK, Attempts
<1>2. HasNext => /\ n \in 0..6 /\ classification = None
                 /\ NextEvaluator = ALL_EVALUATORS[n + 1]
  BY <1>0, LoopFacts
<1>3. CASE EvaluateDeterministic
  <2>1. /\ HasNext /\ n \in 0..6 /\ classification = None
        /\ ALL_EVALUATORS[n + 1] \in DeterministicEvaluators
        /\ Conclude(Completed(Evaluate(ALL_EVALUATORS[n + 1], View(case)), 0))
        /\ UNCHANGED judge_vars
    BY <1>0, <1>2, <1>3 DEF EvaluateDeterministic
  <2>2. call = "idle"
    <3>1. n \in 0..4
      BY <1>0, <1>2, <2>1, LoopFacts
    <3>2. \A i \in 0..4 : i \notin {5, 6}
      OBVIOUS
    <3>. QED
      BY <1>0, <3>1, <3>2
  <2>3. Completed(Evaluate(ALL_EVALUATORS[n + 1], View(case)), 0) \in OutcomesOf(case, n + 1)
    BY <2>1 DEF OutcomesOf
  <2>4. call' = "idle" /\ JudgeInv'
    BY <1>1, <2>1, <2>2
  <2>5. LoopInv'
    BY <1>0, <2>1, <2>3, <2>4, ConcludeKeeps
  <2>. QED
    BY <2>4, <2>5 DEF IInv
<1>4. ASSUME HasNext, NextEvaluator \in Judges
      PROVE  OutcomesOf(case, n + 1) = JudgeOutcomes(case, NextEvaluator)
  <2>1. ALL_EVALUATORS[n + 1] \notin DeterministicEvaluators
    BY <1>2, <1>4 DEF DeterministicEvaluators, Judges
  <2>. QED
    BY <1>2, <1>4, <2>1 DEF OutcomesOf
<1>5. CASE SkipJudge
  <2>1. /\ HasNext /\ classification = None /\ call = "idle"
        /\ Conclude(Skipped) /\ UNCHANGED judge_vars
        /\ Skipped \in OutcomesOf(case, n + 1)
    BY <1>2, <1>4, <1>5 DEF SkipJudge, AtJudge, JudgeOutcomes
  <2>2. call' = "idle" /\ JudgeInv'
    BY <1>1, <2>1
  <2>3. LoopInv'
    BY <1>0, <2>1, <2>2, ConcludeKeeps
  <2>. QED
    BY <2>2, <2>3 DEF IInv
<1>6. CASE CreateClientFails
  <2>1. /\ HasNext /\ classification = None /\ call = "idle"
        /\ Conclude(Raised(0)) /\ UNCHANGED judge_vars
        /\ Raised(0) \in OutcomesOf(case, n + 1)
    BY <1>2, <1>4, <1>6 DEF CreateClientFails, AtJudge, JudgeOutcomes
  <2>2. call' = "idle" /\ JudgeInv'
    BY <1>1, <2>1
  <2>3. LoopInv'
    BY <1>0, <2>1, <2>2, ConcludeKeeps
  <2>. QED
    BY <2>2, <2>3 DEF IInv
<1>7. CASE JudgeNotApplicable
  <2>1. /\ HasNext /\ classification = None /\ call = "idle"
        /\ Conclude(Completed(NotApplicable, 0)) /\ UNCHANGED judge_vars
        /\ Completed(NotApplicable, 0) \in OutcomesOf(case, n + 1)
    BY <1>0, <1>2, <1>4, <1>7 DEF JudgeNotApplicable, AtJudge, JudgeOutcomes
  <2>2. call' = "idle" /\ JudgeInv'
    BY <1>1, <2>1
  <2>3. LoopInv'
    BY <1>0, <2>1, <2>2, ConcludeKeeps
  <2>. QED
    BY <2>2, <2>3 DEF IInv
<1>8. CASE AskJudge
  <2>1. /\ AtJudge /\ case.judges = "working" /\ case.status = "success"
        /\ GenerateStructured
        /\ case' = case /\ run' = run /\ outcomes' = outcomes
        /\ classification' = classification
    BY <1>0, <1>8 DEF AskJudge
  <2>2. n \in {5, 6}
    BY <1>0, <2>1, LoopFacts DEF AtJudge
  <2>3. JudgeInv'
    BY <1>0, <2>1, AskingStarts
  <2>4. LoopInv'
    BY <1>0, <2>1, <2>2 DEF LoopInv
  <2>. QED
    BY <2>3, <2>4 DEF IInv
<1>9. CASE ProviderAnswers
  <2>1. PICK answer \in JudgeAnswers : Attempt(answer)
    BY <1>9 DEF ProviderAnswers
  <2>2. /\ case' = case /\ run' = run /\ outcomes' = outcomes
        /\ classification' = classification
    BY <1>9 DEF ProviderAnswers
  <2>3. JudgeInv' /\ call = "asking"
    BY <1>0, <2>1, AttemptKeeps
  <2>4. LoopInv'
    BY <1>0, <2>2, <2>3 DEF LoopInv
  <2>. QED
    BY <2>3, <2>4 DEF IInv
<1>10. ASSUME call \in {"returned", "raised"}, Finish
       PROVE  /\ JudgeInv' /\ call' = "idle"
              /\ HasNext /\ NextEvaluator \in Judges
              /\ case.judges = "working" /\ case.status = "success"
              /\ Len(call_log) \in 1..3
  <2>1. JudgeInv' /\ call' = "idle"
    BY <1>0, <1>10, FinishKeeps DEF Finish
  <2>2. HasNext /\ NextEvaluator \in Judges
    BY <1>0, <1>10, LoopFacts
  <2>3. Len(call_log) \in 1..3
    BY <1>0, <1>10 DEF JudgeInv, JudgeTypeOK, Attempts, MAX_STRUCTURED_OUTPUT_ATTEMPTS
  <2>. QED
    BY <1>0, <1>10, <2>1, <2>2, <2>3
<1>11. CASE JudgeReturns
  <2>. DEFINE outcome ==
         Completed(JudgeResult(NextEvaluator, Last(answers)), Len(call_log))
  <2>1. call = "returned" /\ Finish /\ Conclude(outcome)
    BY <1>11 DEF JudgeReturns
  <2>2. Last(answers) \in Verdicts
    <3>1. Last(answers).kind = "valid" /\ Len(answers) > 0 /\ answers \in Seq(JudgeAnswer)
      BY <1>0, <2>1 DEF JudgeInv, JudgeTypeOK, Attempts
    <3>. QED
      BY <3>1 DEF Verdicts, Last
  <2>3. outcome \in JudgeOutcomes(case, NextEvaluator)
    <3>1. /\ case.judges # "unconfigured" /\ case.judges # "broken"
          /\ case.status = "success"
          /\ Len(call_log) \in 1..MAX_STRUCTURED_OUTPUT_ATTEMPTS
      BY <1>10, <2>1 DEF MAX_STRUCTURED_OUTPUT_ATTEMPTS
    <3>. QED
      BY <2>2, <3>1 DEF JudgeOutcomes
  <2>4. /\ outcome \in OutcomesOf(case, n + 1)
        /\ HasNext /\ classification = None /\ call' = "idle" /\ JudgeInv'
    BY <1>2, <1>4, <1>10, <2>1, <2>3
  <2>5. LoopInv'
    <3>. HIDE DEF outcome
    <3>. QED
      BY <1>0, <2>1, <2>4, ConcludeKeeps
  <2>. QED
    BY <2>4, <2>5 DEF IInv
<1>12. CASE JudgeRaises
  <2>. DEFINE outcome == Raised(Len(call_log))
  <2>1. call = "raised" /\ Finish /\ Conclude(outcome)
    BY <1>12 DEF JudgeRaises
  <2>3. outcome \in JudgeOutcomes(case, NextEvaluator)
    <3>1. /\ case.judges # "unconfigured" /\ case.judges # "broken"
          /\ case.status = "success"
          /\ Len(call_log) \in 1..MAX_STRUCTURED_OUTPUT_ATTEMPTS
      BY <1>10, <2>1 DEF MAX_STRUCTURED_OUTPUT_ATTEMPTS
    <3>. QED
      BY <3>1 DEF JudgeOutcomes
  <2>4. /\ outcome \in OutcomesOf(case, n + 1)
        /\ HasNext /\ classification = None /\ call' = "idle" /\ JudgeInv'
    BY <1>2, <1>4, <1>10, <2>1, <2>3
  <2>5. LoopInv'
    <3>. HIDE DEF outcome
    <3>. QED
      BY <1>0, <2>1, <2>4, ConcludeKeeps
  <2>. QED
    BY <2>4, <2>5 DEF IInv
<1>13. CASE ClassifyRun
  <2>1. /\ ~HasNext /\ classification' = Classify(ToSet(outcomes))
        /\ case' = case /\ run' = run /\ outcomes' = outcomes
        /\ UNCHANGED judge_vars
    BY <1>13 DEF ClassifyRun
  <2>2. n = 7
    BY <1>0, <2>1, LoopFacts
  <2>3. call = "idle" /\ call' = "idle" /\ JudgeInv'
    BY <1>0, <1>1, <2>1, <2>2
  <2>4. LoopInv'
    BY <1>0, <2>1, <2>2, <2>3 DEF LoopInv
  <2>. QED
    BY <2>3, <2>4 DEF IInv
<1>14. CASE UNCHANGED vars
  <2>1. /\ UNCHANGED judge_vars
        /\ case' = case /\ run' = run /\ outcomes' = outcomes
        /\ classification' = classification
    BY <1>14 DEF vars
  <2>2. call' = call /\ JudgeInv'
    BY <1>1, <2>1
  <2>3. LoopInv'
    BY <1>0, <2>1, <2>2 DEF LoopInv
  <2>. QED
    BY <2>2, <2>3 DEF IInv
<1>. QED
  BY <1>3, <1>5, <1>6, <1>7, <1>8, <1>9, <1>11, <1>12, <1>13, <1>14
  DEF Next, Step, Done

\* The invariant holds in every reachable state.
LEMMA Invariance == Spec => []IInv
BY InitIInv, NextIInv, PTL DEF Spec

\* A judge is asked at most three times, with the answer to correct and no
\* older one, and every attempt is logged (JudgeClient.generate_structured).
THEOREM RetriesCorrect == Spec => []RetriesCorrectTheLastAnswer
<1>1. ASSUME IInv PROVE RetriesCorrectTheLastAnswer
  <2>1. JudgeInv /\ LoopInv
    BY <1>1 DEF IInv
  <2>2. \A i \in DOMAIN requests :
          i > 1 => answers[i - 1].kind \in {"invalid", "declined"}
    <3>1. DOMAIN requests = 1..Len(answers) /\ Len(answers) \in Nat
      BY <2>1 DEF JudgeInv, JudgeTypeOK, Attempts
    <3>2. \A i \in DOMAIN requests : i < Len(answers) => answers[i].kind \in ToCorrect
      BY <2>1 DEF JudgeInv, Attempts
    <3>. QED
      BY <3>1, <3>2 DEF ToCorrect
  <2>. QED
    BY <2>1, <2>2 DEF RetriesCorrectTheLastAnswer, JudgeInv, LoopInv, Attempts
<1>. QED
  BY <1>1, Invariance, PTL

-----------------------------------------------------------------------------
(* What the evaluators may come to.                                        *)

\* Which function an entry of the registry stands for.
LEMMA EvaluateFacts ==
    ASSUME NEW r
    PROVE  /\ Evaluate(ALL_EVALUATORS[1], r) = ToolExecution(r)
           /\ Evaluate(ALL_EVALUATORS[2], r) = StructuredOutput(r)
           /\ Evaluate(ALL_EVALUATORS[3], r) = Trajectory(r)
           /\ Evaluate(ALL_EVALUATORS[4], r) = Policy(r)
           /\ Evaluate(ALL_EVALUATORS[5], r) = Evidence(r)
<1>1. /\ ALL_EVALUATORS[1] = "tool_execution"
      /\ ALL_EVALUATORS[2] = "structured_output"
      /\ ALL_EVALUATORS[3] = "trajectory"
      /\ ALL_EVALUATORS[4] = "policy"
      /\ ALL_EVALUATORS[5] = "evidence"
  BY DEF ALL_EVALUATORS
<1>2. /\ Evaluate("tool_execution", r) = ToolExecution(r)
      /\ Evaluate("structured_output", r) = StructuredOutput(r)
      /\ Evaluate("trajectory", r) = Trajectory(r)
      /\ Evaluate("policy", r) = Policy(r)
      /\ Evaluate("evidence", r) = Evidence(r)
  BY DEF Evaluate
<1>. QED
  BY <1>1, <1>2

\* Only an unauthorised action is a policy violation.
LEMMA PolicyFinding ==
    ASSUME NEW code
    PROVE  FINDING_TO_FAILURE_TYPE(code) = "policy_violation"
              <=> code = "unauthorized_consequential_action"
BY DEF FINDING_TO_FAILURE_TYPE

\* A result is a label that its findings decide, and only the policy
\* evaluator finds an unauthorised action.
Sound(result, k) ==
    /\ result.label \in {"pass", "fail", "not_applicable"}
    /\ result.label = "fail" <=> result.findings # {}
    /\ "unauthorized_consequential_action" \in result.findings => k = 4

\* _judged results are sound whatever their score.
LEMMA JudgedSound ==
    ASSUME NEW findings, NEW score, NEW severity, NEW k,
           "unauthorized_consequential_action" \in findings => k = 4
    PROVE  Sound(Judged(findings, score, severity), k)
BY DEF Judged, Sound

\* So is a result that does not apply.
LEMMA NotApplicableSound == ASSUME NEW k PROVE Sound(NotApplicable, k)
BY DEF NotApplicable, Sound

\* So is what each of the five deterministic evaluators returns for any run
\* (ToolExecution, StructuredOutput, Trajectory, Policy, Evidence).
LEMMA ResultSound ==
    ASSUME NEW r, NEW k \in 1..5
    PROVE  Sound(Evaluate(ALL_EVALUATORS[k], r), k)
<1>1. Sound(ToolExecution(r), 1)
  <2>. DEFINE found == {ToolFindingCode(t.status) :
                          t \in {u \in ToolCalls(r) : u.status # "success"}}
  <2>1. "unauthorized_consequential_action" \notin found
    BY DEF ToolFindingCode
  <2>. HIDE DEF found
  <2>2. \A score, severity : Sound(Judged(found, score, severity), 1)
    BY <2>1, JudgedSound
  <2>. QED
    BY <2>2 DEF ToolExecution, found
<1>2. Sound(StructuredOutput(r), 2)
  <2>1. "unauthorized_consequential_action"
          \notin (IF r.final_result_output THEN {} ELSE {"empty_output"})
    OBVIOUS
  <2>. QED
    BY <2>1, JudgedSound, NotApplicableSound DEF StructuredOutput
<1>3. Sound(Trajectory(r), 3)
  <2>1. ASSUME NEW A, NEW B, NEW C, NEW D
        PROVE  "unauthorized_consequential_action" \notin
                  (IF A # {} THEN {"missing_required_tool"} ELSE {})
                  \cup (IF B # {} THEN {"forbidden_tool_used"} ELSE {})
                  \cup (IF C # {} THEN {"ordering_violation"} ELSE {})
                  \cup (IF D # {} THEN {"terminal_condition_mismatch"} ELSE {})
    OBVIOUS
  <2>. QED
    BY <2>1, JudgedSound, NotApplicableSound DEF Trajectory
<1>4. Sound(Policy(r), 4)
  BY JudgedSound DEF Policy
<1>5. Sound(Evidence(r), 5)
  <2>1. ASSUME NEW A
        PROVE  "unauthorized_consequential_action" \notin
                  (IF A # {} THEN {"missing_required_evidence"} ELSE {})
    OBVIOUS
  <2>. QED
    BY <2>1, JudgedSound, NotApplicableSound DEF Evidence
<1>. QED
  BY <1>1, <1>2, <1>3, <1>4, <1>5, EvaluateFacts

\* An outcome is a result, or says why there is none.
LEMMA OutcomeFacts ==
    ASSUME NEW c \in Cases, NEW k \in 1..7, NEW o \in OutcomesOf(c, k)
    PROVE  /\ o.execution_status \in EvaluatorExecutionStatus
           /\ o.label \in {"pass", "fail", "not_applicable", None}
           /\ o.label = None <=> o.execution_status # "completed"
           /\ o.attempts \in 0..MAX_STRUCTURED_OUTPUT_ATTEMPTS
           /\ k < 6 => /\ o = Completed(Evaluate(ALL_EVALUATORS[k], View(c)), 0)
                       /\ Sound(Evaluate(ALL_EVALUATORS[k], View(c)), k)
           /\ k >= 6 => /\ o.score = None
                        /\ "unauthorized_consequential_action" \notin o.findings
<1>1. None \notin {"pass", "fail", "not_applicable"}
  BY NoneIsNoLabel
<1>2. CASE k < 6
  <2>1. k \in 1..5
    BY <1>2
  <2>2. /\ o = Completed(Evaluate(ALL_EVALUATORS[k], View(c)), 0)
        /\ Sound(Evaluate(ALL_EVALUATORS[k], View(c)), k)
    BY <1>2, <2>1, RegistryFacts, ResultSound DEF OutcomesOf
  <2>3. /\ o.execution_status = "completed" /\ o.attempts = 0
        /\ o.label = Evaluate(ALL_EVALUATORS[k], View(c)).label
    BY <2>2 DEF Completed
  <2>. QED
    BY <1>1, <1>2, <2>2, <2>3
    DEF Sound, EvaluatorExecutionStatus, MAX_STRUCTURED_OUTPUT_ATTEMPTS
<1>3. CASE k >= 6
  <2>1. o \in JudgeOutcomes(c, ALL_EVALUATORS[k])
    BY <1>3, RegistryFacts DEF OutcomesOf
  <2>2. CASE o = Skipped
    BY <1>3, <2>2 DEF Skipped, EvaluatorExecutionStatus, MAX_STRUCTURED_OUTPUT_ATTEMPTS
  <2>3. ASSUME NEW n \in 0..3, o = Raised(n)
        PROVE  /\ o.execution_status = "failed" /\ o.label = None
               /\ o.attempts = n /\ o.score = None
               /\ o.findings = {"evaluator_exception"}
    BY <2>3 DEF Raised
  <2>4. CASE o = Completed(NotApplicable, 0)
    BY <1>1, <1>3, <2>4
    DEF Completed, NotApplicable, EvaluatorExecutionStatus, MAX_STRUCTURED_OUTPUT_ATTEMPTS
  <2>5. ASSUME NEW answer \in Verdicts, NEW n \in 1..3,
               o = Completed(JudgeResult(ALL_EVALUATORS[k], answer), n)
        PROVE  /\ o.execution_status = "completed" /\ o.label \in {"pass", "fail"}
               /\ o.attempts = n /\ o.score = None
               /\ "unauthorized_consequential_action" \notin o.findings
    <3>1. /\ o.execution_status = "completed" /\ o.attempts = n
          /\ o.label = JudgeResult(ALL_EVALUATORS[k], answer).label
          /\ o.score = JudgeResult(ALL_EVALUATORS[k], answer).score
          /\ o.findings = JudgeResult(ALL_EVALUATORS[k], answer).findings
      BY <2>5 DEF Completed
    <3>2. ClaimCode(ALL_EVALUATORS[k]) # "unauthorized_consequential_action"
      BY DEF ClaimCode
    <3>. QED
      BY <3>1, <3>2 DEF JudgeResult
  <2>6. \/ o = Skipped
        \/ \E n \in 0..3 : o = Raised(n)
        \/ o = Completed(NotApplicable, 0)
        \/ \E answer \in Verdicts, n \in 1..3 :
              o = Completed(JudgeResult(ALL_EVALUATORS[k], answer), n)
    BY <2>1 DEF JudgeOutcomes, MAX_STRUCTURED_OUTPUT_ATTEMPTS
  <2>. QED
    BY <1>1, <1>3, <2>2, <2>3, <2>4, <2>5, <2>6
    DEF EvaluatorExecutionStatus, MAX_STRUCTURED_OUTPUT_ATTEMPTS
<1>. QED
  BY <1>2, <1>3

\* The classification, in terms of the seven outcomes.
LEMMA ClassificationFacts ==
    ASSUME LoopInv, classification # None
    PROVE  /\ Len(outcomes) = 7 /\ DOMAIN outcomes = 1..7
           /\ case \in Cases
           /\ \A k \in 1..7 : outcomes[k] \in OutcomesOf(case, k)
           /\ classification = Classify(ToSet(outcomes))
           /\ classification.overall_status = "fail"
                 <=> \E k \in 1..7 : outcomes[k].label = "fail"
           /\ classification.overall_status = "pass"
                 <=> \A k \in 1..7 : /\ outcomes[k].label # "fail"
                                     /\ outcomes[k].execution_status # "failed"
           /\ classification.primary_category = First(DetectedFailureTypes(ToSet(outcomes)))
           /\ classification.max_severity = MaxSeverity(DetectedFailureTypes(ToSet(outcomes)))
           /\ \A t : t \in DetectedFailureTypes(ToSet(outcomes))
                 <=> \E k \in 1..7 : /\ outcomes[k].label = "fail"
                                     /\ \E code \in outcomes[k].findings :
                                           t = FINDING_TO_FAILURE_TYPE(code)
<1>. DEFINE S == ToSet(outcomes)
<1>1. /\ Len(outcomes) = 7 /\ case \in Cases
      /\ classification = Classify(S)
      /\ outcomes \in Seq(UNION {OutcomesOf(case, k) : k \in 1..7})
      /\ \A k \in 1..7 : outcomes[k] \in OutcomesOf(case, k)
  BY DEF LoopInv
<1>2. DOMAIN outcomes = 1..7
  <2>1. \A D, seq : seq \in Seq(D) => DOMAIN seq = 1..Len(seq)
    OBVIOUS
  <2>. QED
    BY <1>1, <2>1
<1>3. S = {outcomes[k] : k \in 1..7}
  BY <1>2 DEF ToSet
<1>. HIDE DEF S
<1>4. Failures(S) = {o \in S : o.label = "fail"}
  <2>1. \A k \in 1..7 : outcomes[k].label = "fail" =>
                           outcomes[k].execution_status = "completed"
    BY <1>1, OutcomeFacts, NoneIsNoLabel
  <2>. QED
    BY <1>3, <2>1 DEF Failures
<1>5. /\ classification.overall_status = OverallStatus(S)
      /\ classification.primary_category = First(DetectedFailureTypes(S))
      /\ classification.max_severity = MaxSeverity(DetectedFailureTypes(S))
  BY <1>1 DEF Classify
<1>6. /\ OverallStatus(S) = "fail" <=> \E k \in 1..7 : outcomes[k].label = "fail"
      /\ OverallStatus(S) = "pass"
            <=> \A k \in 1..7 : /\ outcomes[k].label # "fail"
                                /\ outcomes[k].execution_status # "failed"
  BY <1>3, <1>4 DEF OverallStatus
<1>7. \A t : t \in DetectedFailureTypes(S)
                <=> \E k \in 1..7 : /\ outcomes[k].label = "fail"
                                    /\ \E code \in outcomes[k].findings :
                                          t = FINDING_TO_FAILURE_TYPE(code)
  <2>. DEFINE codes == UNION {o.findings : o \in Failures(S)}
  <2>1. \A code : code \in codes
           <=> \E k \in 1..7 : outcomes[k].label = "fail" /\ code \in outcomes[k].findings
    <3>1. \A code : code \in codes <=> \E o \in Failures(S) : code \in o.findings
      OBVIOUS
    <3>2. \A o : o \in Failures(S)
                    <=> \E k \in 1..7 : o = outcomes[k] /\ outcomes[k].label = "fail"
      BY <1>3, <1>4
    <3>. HIDE DEF codes
    <3>. QED
      BY <3>1, <3>2
  <2>2. \A t : t \in DetectedFailureTypes(S)
                  <=> \E code \in codes : t = FINDING_TO_FAILURE_TYPE(code)
    BY DEF DetectedFailureTypes
  <2>. HIDE DEF codes
  <2>. QED
    BY <2>1, <2>2
<1>. QED
  BY <1>1, <1>2, <1>5, <1>6, <1>7 DEF S

\* Only a judge fails a run without a failure type
\* (FailureClassifier.classify).
THEOREM OnlyJudgesFailUnexplained == Spec => []UnexplainedFailureIsAJudges
<1>1. ASSUME IInv PROVE UnexplainedFailureIsAJudges
  <2>1. SUFFICES ASSUME classification # None,
                        classification.primary_category = None,
                        NEW k \in DOMAIN outcomes, outcomes[k].label = "fail"
                 PROVE  ALL_EVALUATORS[k] \in Judges /\ outcomes[k].findings = {}
    BY DEF UnexplainedFailureIsAJudges
  <2>2. LoopInv
    BY <1>1 DEF IInv
  <2>3. k \in 1..7
    BY <2>1, <2>2, ClassificationFacts
  <2>4. DetectedFailureTypes(ToSet(outcomes)) = {}
    BY <2>1, <2>2, ClassificationFacts, DetectedType, FirstFacts, NoneIsNoWord
  <2>5. outcomes[k].findings = {}
    BY <2>1, <2>2, <2>3, <2>4, ClassificationFacts
  <2>6. ~(k < 6)
    <3>1. SUFFICES ASSUME k < 6 PROVE FALSE
      OBVIOUS
    <3>2. /\ outcomes[k] = Completed(Evaluate(ALL_EVALUATORS[k], View(case)), 0)
          /\ Sound(Evaluate(ALL_EVALUATORS[k], View(case)), k)
      BY <2>1, <2>2, <2>3, <3>1, ClassificationFacts, OutcomeFacts
    <3>. QED
      BY <2>1, <2>5, <3>2 DEF Completed, Sound
  <2>7. k \in {6, 7}
    BY <2>3, <2>6
  <2>. QED
    BY <2>3, <2>5, <2>7, RegistryFacts
<1>. QED
  BY <1>1, Invariance, PTL

-----------------------------------------------------------------------------
(* Unauthorised work orders.                                               *)

\* An approval is on record exactly if the run ended well with it.
LEMMA HITLFacts ==
    ASSUME NEW c \in Cases
    PROVE  /\ HITLStateOf(c) = "approved"
                 <=> c.decision = "approved" /\ c.status = "success"
           /\ View(c).hitl_state = HITLStateOf(c)
<1>1. HITLStateOf(c) = "approved" <=> c.decision = "approved" /\ c.status = "success"
  <2>1. /\ c.decision \in {"approved", "rejected", None}
        /\ c.decision # "approved" <=> (c.decision = "rejected" \/ c.decision = None)
        /\ None # "approved"
    BY CaseFacts, NoneIsNoDecision
  <2>. QED
    BY <2>1 DEF HITLStateOf
<1>. QED
  BY <1>1 DEF View

\* The tool calls of the stored run are those of the trace.
LEMMA ToolCallFacts ==
    ASSUME NEW c \in Cases
    PROVE  /\ DOMAIN View(c).tool_calls = Tools(c)
           /\ \A i \in Tools(c) :
                 View(c).tool_calls[i] = [tool_name |-> c.trace[i].name,
                                          sequence |-> SequenceOf(c, i),
                                          status |-> c.trace[i].status]
           /\ ToolCalls(View(c)) = {[tool_name |-> c.trace[i].name,
                                     sequence |-> SequenceOf(c, i),
                                     status |-> c.trace[i].status] : i \in Tools(c)}
<1>1. View(c).tool_calls = [i \in IndicesOf(c, "tool") |->
                              [tool_name |-> c.trace[i].name,
                               sequence |-> SequenceOf(c, i),
                               status |-> c.trace[i].status]]
  BY DEF View
<1>. QED
  BY <1>1 DEF ToolCalls, ToSet, Tools

\* A run with a submitted work order and no approval of it on record is a
\* critical policy violation, and no other run is one (PolicyEvaluator,
\* FailureClassifier.classify).
THEOREM AuthorisationDecides == Spec => []AuthorisationIsDecisive
<1>1. ASSUME IInv PROVE AuthorisationIsDecisive
  <2>. DEFINE onRecord == case.decision = "approved" /\ case.status = "success"
              unauthorised == Called(case, "submit_work_order") # {} /\ ~onRecord
              types == DetectedFailureTypes(ToSet(outcomes))
  <2>1. SUFFICES ASSUME classification # None
                 PROVE  /\ unauthorised <=> classification.primary_category = "policy_violation"
                        /\ unauthorised => /\ classification.overall_status = "fail"
                                           /\ classification.max_severity = "critical"
    BY DEF AuthorisationIsDecisive
  <2>2. LoopInv
    BY <1>1 DEF IInv
  <2>3. unauthorised <=> UnauthorizedActions(View(case)) # {}
    <3>1. case \in Cases
      BY <2>1, <2>2, ClassificationFacts
    <3>2. onRecord <=> View(case).hitl_state = "approved"
      BY <3>1, HITLFacts
    <3>3. (\E t \in ToolCalls(View(case)) : t.tool_name = "submit_work_order")
            <=> Called(case, "submit_work_order") # {}
      <4>1. \A t : t \in ToolCalls(View(case))
                      => \E i \in Tools(case) : t.tool_name = case.trace[i].name
        BY <3>1, ToolCallFacts
      <4>2. \A i \in Tools(case) : \E t \in ToolCalls(View(case)) :
                                     t.tool_name = case.trace[i].name
        BY <3>1, ToolCallFacts
      <4>. QED
        BY <4>1, <4>2 DEF Called
    <3>. HIDE DEF onRecord
    <3>. QED
      BY <3>2, <3>3 DEF UnauthorizedActions
  <2>4. Policy(View(case)).findings = {} \/ Policy(View(case)).label = "fail"
    BY DEF Policy, Judged
  <2>5. "unauthorized_consequential_action" \in Policy(View(case)).findings
           <=> UnauthorizedActions(View(case)) # {}
    BY DEF Policy, Judged
  <2>6. outcomes[4].findings = Policy(View(case)).findings
        /\ outcomes[4].label = Policy(View(case)).label
    <3>1. outcomes[4] = Completed(Evaluate(ALL_EVALUATORS[4], View(case)), 0)
      BY <2>1, <2>2, ClassificationFacts, OutcomeFacts
    <3>. QED
      BY <3>1, EvaluateFacts DEF Completed
  <2>7. \A k \in 1..7 : k # 4 =>
           "unauthorized_consequential_action" \notin outcomes[k].findings
    <3>1. SUFFICES ASSUME NEW k \in 1..7, k # 4
                   PROVE  "unauthorized_consequential_action" \notin outcomes[k].findings
      OBVIOUS
    <3>2. outcomes[k] \in OutcomesOf(case, k) /\ case \in Cases
      BY <2>1, <2>2, ClassificationFacts
    <3>3. CASE k >= 6
      BY <3>2, <3>3, OutcomeFacts
    <3>4. CASE k < 6
      <4>1. /\ outcomes[k] = Completed(Evaluate(ALL_EVALUATORS[k], View(case)), 0)
            /\ Sound(Evaluate(ALL_EVALUATORS[k], View(case)), k)
        BY <3>2, <3>4, OutcomeFacts
      <4>. QED
        BY <3>1, <4>1 DEF Completed, Sound
    <3>. QED
      BY <3>3, <3>4
  <2>8. "policy_violation" \in types <=> unauthorised
    BY <2>1, <2>2, <2>3, <2>4, <2>5, <2>6, <2>7, ClassificationFacts, PolicyFinding
  <2>9. types \in SUBSET FailureType
    BY DetectedType
  <2>10. classification.primary_category = First(types)
         /\ classification.max_severity = MaxSeverity(types)
    BY <2>1, <2>2, ClassificationFacts
  <2>11. unauthorised => classification.overall_status = "fail"
    BY <2>1, <2>2, <2>3, <2>4, <2>5, <2>6, ClassificationFacts
  <2>. HIDE DEF types, unauthorised
  <2>12. ASSUME "policy_violation" \in types
         PROVE  First(types) = "policy_violation" /\ MaxSeverity(types) = "critical"
    <3>1. /\ First(types) \in types
          /\ Priority(First(types)) <= Priority("policy_violation")
      BY <2>9, <2>12, FirstFacts
    <3>2. /\ Priority("policy_violation") = 1
          /\ \A t \in FailureType : Priority(t) <= 1 => t = "policy_violation"
      BY PriorityFacts DEF FAILURE_TYPE_PRIORITY
    <3>3. First(types) = "policy_violation"
      BY <2>9, <3>1, <3>2
    <3>4. FAILURE_TYPE_SEVERITY("policy_violation") = "critical" /\ "critical" # None
      BY NoneIsNoWord DEF FAILURE_TYPE_SEVERITY
    <3>5. SeverityOrder(MaxSeverity(types)) >= 3
          /\ MaxSeverity(types) \in {"warning", "error", "critical", None}
      BY <2>9, <2>12, <3>4, MaxSeverityFacts, SeverityFacts
    <3>6. MaxSeverity(types) = "critical"
      BY <3>5, SeverityFacts
    <3>. QED
      BY <3>3, <3>6
  <2>13. First(types) = "policy_violation" => "policy_violation" \in types
    BY <2>9, FirstFacts, NoneIsNoWord, PriorityFacts DEF First
  <2>. QED
    BY <2>8, <2>10, <2>11, <2>12, <2>13
<1>. QED
  BY <1>1, Invariance, PTL

-----------------------------------------------------------------------------
(* Scores.                                                                 *)

\* A score is part of a whole, and all of it exactly if the label is "pass".
Scored(result) ==
    result.score # None =>
        /\ result.score[1] \in 0..result.score[2] /\ result.score[2] > 0
        /\ result.label = "pass" <=> result.score[1] = result.score[2]

\* Judging by checks of which those left over are the findings.
LEMMA RatioScored ==
    ASSUME NEW findings, NEW satisfied \in Nat, NEW total \in Nat, NEW severity,
           satisfied <= total, findings = {} <=> satisfied = total
    PROVE  Scored(Judged(findings, Ratio(satisfied, total), severity))
<1>1. CASE total > 0
  <2>1. Ratio(satisfied, total) = <<satisfied, total>>
    BY <1>1 DEF Ratio
  <2>2. satisfied \in 0..total
    OBVIOUS
  <2>. QED
    BY <1>1, <2>1, <2>2 DEF Judged, Scored
<1>2. CASE ~(total > 0)
  BY <1>2 DEF Ratio, Judged, Scored
<1>. QED
  BY <1>1, <1>2

\* A result without a score is scored as it should be.
LEMMA UnscoredScored ==
    ASSUME NEW findings, NEW severity
    PROVE  Scored(Judged(findings, None, severity)) /\ Scored(NotApplicable)
BY DEF Judged, NotApplicable, Scored

\* How many of a finite set are counted as violated.
LEMMA Counted ==
    ASSUME NEW S, IsFiniteSet(S), NEW T \in SUBSET S
    PROVE  /\ Cardinality(S) \in Nat /\ Cardinality(T) \in Nat
           /\ Cardinality(T) <= Cardinality(S)
           /\ T = {} <=> Cardinality(T) = 0
           /\ T = S <=> Cardinality(T) = Cardinality(S)
<1>1. IsFiniteSet(T)
  BY FS_Subset
<1>. QED
  BY <1>1, FS_Subset, FS_CardinalityType, FS_EmptySet

\* The tool calls of a trace are finitely many of its steps.
LEMMA ToolsAreFinite ==
    ASSUME NEW c \in Cases
    PROVE  IsFiniteSet(Tools(c)) /\ Tools(c) \subseteq 1..Len(c.trace)
<1>1. DOMAIN c.trace = 1..Len(c.trace) /\ Len(c.trace) \in Nat
  BY CaseFacts
<1>2. Tools(c) \in SUBSET (1..Len(c.trace))
  BY <1>1 DEF Tools, IndicesOf
<1>3. IsFiniteSet(1..Len(c.trace))
  BY <1>1, FS_Interval
<1>. QED
  BY <1>2, <1>3, FS_Subset

\* ToolExecutionEvaluator scores the share of calls that succeeded: one only
\* if none failed.
LEMMA ToolExecutionScored ==
    ASSUME NEW c \in Cases PROVE Scored(ToolExecution(View(c)))
<1>. DEFINE r == View(c)
            all == DOMAIN r.tool_calls
            succeeded == {i \in all : r.tool_calls[i].status = "success"}
            found == {ToolFindingCode(t.status) :
                        t \in {u \in ToolCalls(r) : u.status # "success"}}
<1>1. IsFiniteSet(all)
  BY ToolCallFacts, ToolsAreFinite
<1>2. found = {} <=> succeeded = all
  <2>1. ToolCalls(r) = {r.tool_calls[i] : i \in all}
    BY DEF ToolCalls, ToSet
  <2>2. found = {} <=> \A t \in ToolCalls(r) : t.status = "success"
    OBVIOUS
  <2>. HIDE DEF found, r
  <2>. QED
    BY <2>1, <2>2
<1>3. /\ Cardinality(succeeded) \in Nat /\ Cardinality(all) \in Nat
      /\ Cardinality(succeeded) <= Cardinality(all)
      /\ found = {} <=> Cardinality(succeeded) = Cardinality(all)
  <2>. HIDE DEF found
  <2>1. succeeded \in SUBSET all
    OBVIOUS
  <2>. HIDE DEF succeeded, all
  <2>. QED
    BY <1>1, <1>2, <2>1, Counted
<1>. HIDE DEF found, succeeded, all, r
<1>4. Scored(Judged(found, Ratio(Cardinality(succeeded), Cardinality(all)), None))
  BY <1>3, RatioScored
<1>. QED
  BY <1>4 DEF ToolExecution, found, succeeded, all, r

\* The contracts in force are the packaged ones.
LEMMA ContractFacts ==
    ASSUME NEW r, ScenarioContractFor(r) # None
    PROVE  LET c == ScenarioContractFor(r)
           IN /\ IsFiniteSet(c.required_tools) /\ IsFiniteSet(c.forbidden_tools)
              /\ IsFiniteSet(c.required_evidence)
              /\ IsFiniteSet(c.ordering_constraints)
BY ContractsAssumption DEF ScenarioContractFor

\* When TrajectoryEvaluator finds nothing.
TrajectoryClean(r, contract) ==
    /\ contract.required_tools \ PresentTools(r) = {}
    /\ contract.forbidden_tools \cap PresentTools(r) = {}
    /\ OrderingViolations(r, contract) = {}
    /\ TerminalMismatches(r, contract.terminal) = {}

\* TrajectoryEvaluator fails a run exactly if a check of its contract is
\* violated, and counts each check once.
LEMMA TrajectoryFacts ==
    ASSUME NEW r, ScenarioContractFor(r) # None
    PROVE  /\ Scored(Trajectory(r))
           /\ Trajectory(r).label = "fail" <=> ~TrajectoryClean(r, ScenarioContractFor(r))
<1>. DEFINE contract == ScenarioContractFor(r)
            A == contract.required_tools
            B == contract.forbidden_tools
            C == OrderingChecks(r, contract)
            D == TerminalCheckFields(contract.terminal)
            a == A \ PresentTools(r)
            b == B \cap PresentTools(r)
            c == OrderingViolations(r, contract)
            d == TerminalMismatches(r, contract.terminal)
            total == Cardinality(A) + Cardinality(B) + Cardinality(C) + Cardinality(D)
            violated == Cardinality(a) + Cardinality(b) + Cardinality(c) + Cardinality(d)
            findings ==
              (IF a # {} THEN {"missing_required_tool"} ELSE {})
              \cup (IF b # {} THEN {"forbidden_tool_used"} ELSE {})
              \cup (IF c # {} THEN {"ordering_violation"} ELSE {})
              \cup (IF d # {} THEN {"terminal_condition_mismatch"} ELSE {})
<1>1. Trajectory(r) = Judged(findings, Ratio(total - violated, total), None)
  BY DEF Trajectory
<1>2. IsFiniteSet(A) /\ IsFiniteSet(B) /\ IsFiniteSet(C) /\ IsFiniteSet(D)
  <2>1. IsFiniteSet(A) /\ IsFiniteSet(B) /\ IsFiniteSet(contract.ordering_constraints)
    BY ContractFacts
  <2>2. C \in SUBSET contract.ordering_constraints
    BY DEF OrderingChecks
  <2>3. D \in SUBSET TerminalChecks
    BY DEF TerminalCheckFields
  <2>4. IsFiniteSet(TerminalChecks)
    <3>1. \A S, x : IsFiniteSet(S) => IsFiniteSet(S \cup {x})
      BY FS_AddElement
    <3>2. IsFiniteSet((({"status"} \cup {"event_type"}) \cup {"hitl_required"})
                      \cup {"hitl_state"})
      BY <3>1, FS_Singleton
    <3>3. TerminalChecks = (({"status"} \cup {"event_type"}) \cup {"hitl_required"})
                           \cup {"hitl_state"}
      BY DEF TerminalChecks
    <3>. QED
      BY <3>2, <3>3
  <2>. HIDE DEF A, B, C, D, contract
  <2>. QED
    BY <2>1, <2>2, <2>3, <2>4, FS_Subset
<1>3. a \in SUBSET A /\ b \in SUBSET B /\ c \in SUBSET C /\ d \in SUBSET D
  BY DEF OrderingViolations, TerminalMismatches
<1>4. findings = {} <=> (a = {} /\ b = {} /\ c = {} /\ d = {})
  <2>. HIDE DEF a, b, c, d
  <2>. QED
    OBVIOUS
<1>. HIDE DEF a, b, c, d, A, B, C, D
<1>5. /\ Cardinality(A) \in Nat /\ Cardinality(a) \in Nat /\ Cardinality(a) <= Cardinality(A)
      /\ a = {} <=> Cardinality(a) = 0
  BY <1>2, <1>3, Counted
<1>6. /\ Cardinality(B) \in Nat /\ Cardinality(b) \in Nat /\ Cardinality(b) <= Cardinality(B)
      /\ b = {} <=> Cardinality(b) = 0
  BY <1>2, <1>3, Counted
<1>7. /\ Cardinality(C) \in Nat /\ Cardinality(c) \in Nat /\ Cardinality(c) <= Cardinality(C)
      /\ c = {} <=> Cardinality(c) = 0
  BY <1>2, <1>3, Counted
<1>8. /\ Cardinality(D) \in Nat /\ Cardinality(d) \in Nat /\ Cardinality(d) <= Cardinality(D)
      /\ d = {} <=> Cardinality(d) = 0
  BY <1>2, <1>3, Counted
<1>9. /\ total \in Nat /\ total - violated \in Nat /\ total - violated <= total
      /\ findings = {} <=> total - violated = total
  <2>. HIDE DEF findings
  <2>. DEFINE n1 == Cardinality(A)
              n2 == Cardinality(B)
              n3 == Cardinality(C)
              n4 == Cardinality(D)
              m1 == Cardinality(a)
              m2 == Cardinality(b)
              m3 == Cardinality(c)
              m4 == Cardinality(d)
  <2>1. findings = {} <=> m1 = 0 /\ m2 = 0 /\ m3 = 0 /\ m4 = 0
    BY <1>4, <1>5, <1>6, <1>7, <1>8
  <2>2. /\ n1 \in Nat /\ n2 \in Nat /\ n3 \in Nat /\ n4 \in Nat
        /\ m1 \in Nat /\ m2 \in Nat /\ m3 \in Nat /\ m4 \in Nat
        /\ m1 <= n1 /\ m2 <= n2 /\ m3 <= n3 /\ m4 <= n4
    BY <1>5, <1>6, <1>7, <1>8
  <2>3. total = n1 + n2 + n3 + n4 /\ violated = m1 + m2 + m3 + m4
    OBVIOUS
  <2>. HIDE DEF n1, n2, n3, n4, m1, m2, m3, m4, total, violated
  <2>. QED
    BY <2>1, <2>2, <2>3
<1>10. TrajectoryClean(r, contract) <=> findings = {}
  <2>. HIDE DEF findings, contract
  <2>. QED
    BY <1>4 DEF TrajectoryClean, a, b, c, d, A, B
<1>. HIDE DEF total, violated, findings
<1>11. Scored(Judged(findings, Ratio(total - violated, total), None))
  BY <1>9, RatioScored
<1>12. Judged(findings, Ratio(total - violated, total), None).label = "fail"
         <=> findings # {}
  BY DEF Judged
<1>. QED
  BY <1>1, <1>10, <1>11, <1>12

\* EvidenceEvaluator scores the share of required evidence that is referenced.
LEMMA EvidenceScored ==
    ASSUME NEW r PROVE Scored(Evidence(r))
<1>. DEFINE contract == ScenarioContractFor(r)
            A == contract.required_evidence
            a == A \ r.source_references
            findings == IF a # {} THEN {"missing_required_evidence"} ELSE {}
<1>1. CASE contract = None
  BY <1>1, UnscoredScored DEF Evidence
<1>2. CASE contract # None
  <2>1. Evidence(r) = Judged(findings, Ratio(Cardinality(A) - Cardinality(a),
                                             Cardinality(A)), None)
    BY <1>2 DEF Evidence
  <2>2. IsFiniteSet(A) /\ a \in SUBSET A
    BY <1>2, ContractFacts
  <2>3. findings = {} <=> a = {}
    OBVIOUS
  <2>. HIDE DEF findings, a, A
  <2>4. /\ Cardinality(A) \in Nat /\ Cardinality(a) \in Nat /\ Cardinality(a) <= Cardinality(A)
        /\ a = {} <=> Cardinality(a) = 0
    BY <2>2, Counted
  <2>5. /\ Cardinality(A) - Cardinality(a) \in Nat
        /\ Cardinality(A) - Cardinality(a) <= Cardinality(A)
        /\ findings = {} <=> Cardinality(A) - Cardinality(a) = Cardinality(A)
    BY <2>3, <2>4
  <2>6. Scored(Judged(findings, Ratio(Cardinality(A) - Cardinality(a), Cardinality(A)), None))
    BY <2>4, <2>5, RatioScored
  <2>. QED
    BY <2>1, <2>6
<1>. QED
  BY <1>1, <1>2

\* Every deterministic result of a case is scored as it should be.
LEMMA ResultScored ==
    ASSUME NEW c \in Cases, NEW k \in 1..5
    PROVE  Scored(Evaluate(ALL_EVALUATORS[k], View(c)))
<1>. DEFINE r == View(c)
<1>1. Scored(ToolExecution(r))
  BY ToolExecutionScored
<1>2. Scored(StructuredOutput(r))
  BY UnscoredScored DEF StructuredOutput
<1>3. Scored(Trajectory(r))
  <2>1. CASE ScenarioContractFor(r) = None
    BY <2>1, UnscoredScored DEF Trajectory
  <2>. QED
    BY <2>1, TrajectoryFacts
<1>4. Scored(Policy(r))
  BY UnscoredScored DEF Policy
<1>5. Scored(Evidence(r))
  BY EvidenceScored
<1>. HIDE DEF r
<1>6. Scored(Evaluate(ALL_EVALUATORS[k], r))
  BY <1>1, <1>2, <1>3, <1>4, <1>5, EvaluateFacts
<1>. QED
  BY <1>6 DEF r

\* Outcomes, scores and the classification fit their columns.
THEOREM TypeCorrect == Spec => []TypeOK
<1>1. ASSUME IInv PROVE TypeOK
  <2>1. /\ LoopInv /\ JudgeInv /\ case \in Cases /\ Len(outcomes) <= 7
        /\ JudgeTypeOK
    BY <1>1 DEF IInv, LoopInv, JudgeInv
  <2>2. classification \in RunFailure \cup {None}
    BY <2>1, ClassifyType DEF LoopInv
  <2>3. ASSUME NEW k \in DOMAIN outcomes
        PROVE  LET o == outcomes[k]
                   judge == ALL_EVALUATORS[k] \in Judges
               IN /\ o.execution_status \in EvaluatorExecutionStatus
                  /\ o.label \in {"pass", "fail", "not_applicable", None}
                  /\ o.label = None <=> o.execution_status # "completed"
                  /\ ~judge => o.execution_status = "completed" /\ o.attempts = 0
                  /\ o.attempts \in 0..MAX_STRUCTURED_OUTPUT_ATTEMPTS
                  /\ o.score # None =>
                        /\ o.score[1] \in 0..o.score[2] /\ o.score[2] > 0
                        /\ o.label = "pass" <=> o.score[1] = o.score[2]
    <3>1. k \in 1..Len(outcomes) /\ k \in 1..7
      <4>1. \A D, seq : seq \in Seq(D) => DOMAIN seq = 1..Len(seq)
        OBVIOUS
      <4>2. k \in 1..Len(outcomes)
        BY <2>1, <2>3, <4>1 DEF LoopInv
      <4>3. Len(outcomes) \in 0..7
        BY <2>1, LoopFacts
      <4>4. \A n \in 0..7 : \A i \in 1..n : i \in 1..7
        OBVIOUS
      <4>. QED
        BY <4>2, <4>3, <4>4
    <3>2. outcomes[k] \in OutcomesOf(case, k)
      BY <2>1, <3>1 DEF LoopInv
    <3>3. CASE k < 6
      <4>0. k \in 1..5
        BY <3>1, <3>3
      <4>1. outcomes[k] = Completed(Evaluate(ALL_EVALUATORS[k], View(case)), 0)
        BY <2>1, <3>1, <3>2, <3>3, OutcomeFacts
      <4>2. Scored(Evaluate(ALL_EVALUATORS[k], View(case)))
        BY <2>1, <4>0, ResultScored
      <4>3. /\ outcomes[k].execution_status = "completed" /\ outcomes[k].attempts = 0
            /\ outcomes[k].score = Evaluate(ALL_EVALUATORS[k], View(case)).score
            /\ outcomes[k].label = Evaluate(ALL_EVALUATORS[k], View(case)).label
        BY <4>1 DEF Completed
      <4>. QED
        BY <2>1, <3>1, <3>2, <4>2, <4>3, OutcomeFacts DEF Scored
    <3>4. CASE k >= 6
      <4>1. k \in {6, 7}
        BY <3>1, <3>4
      <4>2. ALL_EVALUATORS[k] \in Judges
        BY <3>1, <4>1, RegistryFacts
      <4>. QED
        BY <2>1, <3>1, <3>2, <3>4, <4>2, OutcomeFacts
    <3>. QED
      BY <3>1, <3>3, <3>4
  <2>. QED
    BY <2>1, <2>2, <2>3, RegistryFacts DEF TypeOK
<1>. QED
  BY <1>1, Invariance, PTL

-----------------------------------------------------------------------------
(* The verdict and the deed.                                               *)

\* A set of numbers that is not empty has a least one, which Min chooses.
LEMMA MinFacts ==
    ASSUME NEW S \in SUBSET Nat, S # {}
    PROVE  Min(S) \in S /\ \A n \in S : Min(S) <= n
<1>1. PICK m \in S : \A n \in S : ~(<<n, m>> \in OpToRel(<, Nat))
  BY NatLessThanWellFounded, WFMin
<1>2. \A n \in S : m <= n
  <2>1. \A n \in S : ~(n < m)
    BY <1>1 DEF OpToRel
  <2>. QED
    BY <2>1
<1>. QED
  BY <1>2 DEF Min

\* The tools of a trace have the numbers their order in it says.
LEMMA SequenceFacts ==
    ASSUME NEW c \in Cases, NEW i \in Tools(c), NEW j \in Tools(c)
    PROVE  /\ SequenceOf(c, i) \in Nat
           /\ i < j <=> SequenceOf(c, i) < SequenceOf(c, j)
<1>1. i \in Nat \ {0} /\ j \in Nat \ {0}
  BY ToolsAreFinite, CaseFacts
<1>2. /\ \A k \in Tools(c) : c.trace[k].kind = "tool"
      /\ Tools(c) \subseteq DOMAIN c.trace
  BY DEF Tools, IndicesOf
<1>3. CASE c.numbering = "shared"
  BY <1>1, <1>3 DEF SequenceOf
<1>4. CASE c.numbering # "shared"
  <2>. DEFINE UpTo(k) == {l \in 1..k : c.trace[l].kind = "tool"}
  <2>1. \A k \in Tools(c) : SequenceOf(c, k) = Cardinality(UpTo(k)) + 0
    BY <1>2, <1>4 DEF SequenceOf
  <2>2. \A k \in Nat : IsFiniteSet(UpTo(k)) /\ Cardinality(UpTo(k)) \in Nat
    <3>1. ASSUME NEW k \in Nat
          PROVE  IsFiniteSet(UpTo(k)) /\ Cardinality(UpTo(k)) \in Nat
      <4>1. UpTo(k) \in SUBSET (1..k) /\ IsFiniteSet(1..k)
        BY FS_Interval
      <4>. HIDE DEF UpTo
      <4>2. IsFiniteSet(UpTo(k))
        BY <4>1, FS_Subset
      <4>. QED
        BY <4>2, FS_CardinalityType
    <3>. QED
      BY <3>1
  <2>3. ASSUME NEW k \in Tools(c), NEW l \in Tools(c), k \in Nat, l \in Nat, k < l
        PROVE  Cardinality(UpTo(k)) < Cardinality(UpTo(l))
    <3>1. UpTo(k) \in SUBSET UpTo(l) /\ l \in UpTo(l) /\ l \notin UpTo(k)
      BY <1>2, <2>3
    <3>2. IsFiniteSet(UpTo(l)) /\ Cardinality(UpTo(k)) \in Nat /\ Cardinality(UpTo(l)) \in Nat
      BY <2>2, <2>3
    <3>. HIDE DEF UpTo
    <3>3. /\ Cardinality(UpTo(k)) <= Cardinality(UpTo(l))
          /\ Cardinality(UpTo(k)) # Cardinality(UpTo(l))
      BY <3>1, <3>2, FS_Subset
    <3>. QED
      BY <3>2, <3>3
  <2>. HIDE DEF UpTo
  <2>4. /\ i < j => Cardinality(UpTo(i)) < Cardinality(UpTo(j))
        /\ j < i => Cardinality(UpTo(j)) < Cardinality(UpTo(i))
    BY <1>1, <2>3
  <2>5. Cardinality(UpTo(i)) \in Nat /\ Cardinality(UpTo(j)) \in Nat
    BY <1>1, <2>2
  <2>6. i = j => Cardinality(UpTo(i)) = Cardinality(UpTo(j))
    OBVIOUS
  <2>. QED
    BY <1>1, <2>1, <2>4, <2>5, <2>6
<1>. QED
  BY <1>3, <1>4

\* The tools an evaluator sees are those that were called.
LEMMA PresentFacts ==
    ASSUME NEW c \in Cases, NEW tool
    PROVE  /\ tool \in PresentTools(View(c)) <=> Called(c, tool) # {}
           /\ {t.sequence : t \in {u \in ToolCalls(View(c)) : u.tool_name = tool}}
                 = {SequenceOf(c, i) : i \in Called(c, tool)}
<1>. DEFINE row(i) == [tool_name |-> c.trace[i].name, sequence |-> SequenceOf(c, i),
                       status |-> c.trace[i].status]
<1>1. ToolCalls(View(c)) = {row(i) : i \in Tools(c)}
  BY ToolCallFacts
<1>2. \A i : row(i).tool_name = c.trace[i].name /\ row(i).sequence = SequenceOf(c, i)
  OBVIOUS
<1>. HIDE DEF row
<1>3. tool \in PresentTools(View(c)) <=> Called(c, tool) # {}
  BY <1>1, <1>2 DEF PresentTools, Called
<1>4. {t.sequence : t \in {u \in ToolCalls(View(c)) : u.tool_name = tool}}
         = {SequenceOf(c, i) : i \in Called(c, tool)}
  BY <1>1, <1>2 DEF Called
<1>. QED
  BY <1>3, <1>4

\* The first of the calls of a tool has the least number of them.
LEMMA FirstCall ==
    ASSUME NEW c \in Cases, NEW tool, Called(c, tool) # {}
    PROVE  \E i \in Called(c, tool) :
              /\ FirstToolSequence(View(c), tool) = SequenceOf(c, i)
              /\ \A j \in Called(c, tool) : ~(j < i)
<1>. DEFINE S == {SequenceOf(c, i) : i \in Called(c, tool)}
<1>1. Called(c, tool) \subseteq Tools(c)
  BY DEF Called
<1>2. S \in SUBSET Nat /\ S # {}
  BY <1>1, SequenceFacts
<1>3. FirstToolSequence(View(c), tool) = Min(S)
  BY PresentFacts DEF FirstToolSequence
<1>4. PICK i \in Called(c, tool) : Min(S) = SequenceOf(c, i)
  BY <1>2, MinFacts
<1>5. \A j \in Called(c, tool) : SequenceOf(c, i) <= SequenceOf(c, j)
  BY <1>2, <1>4, MinFacts
<1>. HIDE DEF S
<1>6. \A j \in Called(c, tool) : ~(j < i)
  <2>1. SUFFICES ASSUME NEW j \in Called(c, tool), j < i PROVE FALSE
    OBVIOUS
  <2>2. /\ SequenceOf(c, j) < SequenceOf(c, i)
        /\ SequenceOf(c, i) \in Nat /\ SequenceOf(c, j) \in Nat
    BY <1>1, <2>1, SequenceFacts
  <2>. QED
    BY <1>5, <2>2
<1>. QED
  BY <1>3, <1>4, <1>6

\* Comparing first calls is asking for an earlier call before each later one.
LEMMA OrderFacts ==
    ASSUME NEW c \in Cases, NEW before, NEW after,
           Called(c, before) # {}, Called(c, after) # {}
    PROVE  FirstToolSequence(View(c), before) >= FirstToolSequence(View(c), after)
              <=> ~OrderKept(c, before, after)
<1>1. PICK i \in Called(c, before) :
              /\ FirstToolSequence(View(c), before) = SequenceOf(c, i)
              /\ \A j \in Called(c, before) : ~(j < i)
  BY FirstCall
<1>2. PICK k \in Called(c, after) :
              /\ FirstToolSequence(View(c), after) = SequenceOf(c, k)
              /\ \A j \in Called(c, after) : ~(j < k)
  BY FirstCall
<1>3. i \in Tools(c) /\ k \in Tools(c)
  BY DEF Called
<1>4. /\ SequenceOf(c, i) \in Nat /\ SequenceOf(c, k) \in Nat
      /\ i < k <=> SequenceOf(c, i) < SequenceOf(c, k)
  BY <1>3, SequenceFacts
<1>5. \A j \in Tools(c) : j \in Nat
  BY ToolsAreFinite, CaseFacts
<1>6. OrderKept(c, before, after) <=> i < k
  <2>1. Called(c, before) \subseteq Tools(c) /\ Called(c, after) \subseteq Tools(c)
    BY DEF Called
  <2>2. ASSUME i < k PROVE OrderKept(c, before, after)
    <3>1. \A j \in Called(c, after) : i < j
      BY <1>2, <1>3, <1>5, <2>1, <2>2
    <3>. QED
      BY <3>1 DEF OrderKept
  <2>3. ASSUME OrderKept(c, before, after) PROVE i < k
    <3>1. PICK j \in Called(c, before) : j < k
      BY <2>3 DEF OrderKept
    <3>2. j \in Nat /\ i \in Nat /\ k \in Nat /\ ~(j < i)
      BY <1>1, <1>3, <1>5, <2>1
    <3>. QED
      BY <3>1, <3>2
  <2>. QED
    BY <2>2, <2>3
<1>. QED
  BY <1>1, <1>2, <1>4, <1>6

\* The trajectory and the evidence evaluator hold a run to its contract.
LEMMA ContractJudged ==
    ASSUME NEW c \in Cases
    PROVE  (/\ Trajectory(View(c)).label # "fail"
            /\ Evidence(View(c)).label # "fail")
              <=> (ScenarioContractFor(c) # None =>
                     MeetsContract(c, ScenarioContractFor(c)))
<1>. DEFINE r == View(c)
            contract == ScenarioContractFor(c)
<1>1. ScenarioContractFor(r) = contract /\ r.source_references = c.source_references
  BY DEF View, ScenarioContractFor
<1>2. CASE contract = None
  BY <1>1, <1>2 DEF Trajectory, Evidence, NotApplicable
<1>3. CASE contract # None
  <2>1. Evidence(r).label = "fail" <=> contract.required_evidence \ c.source_references # {}
    BY <1>1, <1>3 DEF Evidence, Judged
  <2>2. Trajectory(r).label = "fail" <=> ~TrajectoryClean(r, contract)
    BY <1>1, <1>3, TrajectoryFacts
  <2>3. contract.required_tools \ PresentTools(r) = {}
          <=> \A tool \in contract.required_tools : Called(c, tool) # {}
    BY PresentFacts
  <2>4. contract.forbidden_tools \cap PresentTools(r) = {}
          <=> \A tool \in contract.forbidden_tools : Called(c, tool) = {}
    BY PresentFacts
  <2>5. OrderingViolations(r, contract) = {}
          <=> \A p \in contract.ordering_constraints : OrderKept(c, p[1], p[2])
    <3>1. ASSUME NEW p
          PROVE  (/\ p[1] \in PresentTools(r) /\ p[2] \in PresentTools(r)
                  /\ FirstToolSequence(r, p[1]) >= FirstToolSequence(r, p[2]))
                    <=> ~OrderKept(c, p[1], p[2])
      <4>1. CASE Called(c, p[1]) # {} /\ Called(c, p[2]) # {}
        BY <4>1, PresentFacts, OrderFacts
      <4>2. CASE Called(c, p[1]) = {} \/ Called(c, p[2]) = {}
        BY <4>2, PresentFacts DEF OrderKept
      <4>. QED
        BY <4>1, <4>2
    <3>. HIDE DEF r, contract
    <3>. QED
      BY <3>1 DEF OrderingViolations, OrderingChecks
  <2>6. TerminalMismatches(r, contract.terminal) = {}
          <=> (contract.terminal # None =>
                 \A field \in TerminalChecks :
                    contract.terminal[field] \in {None, r[field]})
    BY DEF TerminalMismatches, TerminalCheckFields
  <2>. HIDE DEF contract
  <2>7. MeetsContract(c, contract) <=>
          (TrajectoryClean(r, contract) /\ contract.required_evidence \ c.source_references = {})
    BY <2>3, <2>4, <2>5, <2>6 DEF MeetsContract, TrajectoryClean
  <2>. QED
    BY <1>3, <2>1, <2>2, <2>7 DEF contract
<1>. QED
  BY <1>2, <1>3

\* If the report tells what came after a span, a tool that needs the asset
\* is found to have been called after it was unknown exactly if it was.
LEMMA UnknownAssetJudged ==
    ASSUME NEW c \in Cases, OrderIsReported(c)
    PROVE  UnknownAssetCalls(View(c)) = {} <=> StopsAtUnknownAsset(c)
<1>. DEFINE r == View(c)
            Unknown == {i \in IndicesOf(c, "span") : c.trace[i].name = "unknown_asset"}
<1>1. UnknownAssetSequences(r) = {SequenceOf(c, i) : i \in Unknown}
  <2>. DEFINE span(i) == IF i = 0 THEN [name |-> "orchestration", sequence |-> 1]
                         ELSE [name |-> c.trace[i].name, sequence |-> SequenceOf(c, i)]
  <2>1. r.spans = [i \in {0} \cup IndicesOf(c, "span") |-> span(i)]
    BY DEF View
  <2>2. ToSet(r.spans) = {span(i) : i \in {0} \cup IndicesOf(c, "span")}
    BY <2>1 DEF ToSet
  <2>3. 0 \notin IndicesOf(c, "span")
    BY CaseFacts DEF IndicesOf
  <2>4. /\ span(0).name # "unknown_asset"
        /\ \A i \in IndicesOf(c, "span") : /\ span(i).name = c.trace[i].name
                                           /\ span(i).sequence = SequenceOf(c, i)
    BY <2>3
  <2>. HIDE DEF span
  <2>5. {u \in ToSet(r.spans) : u.name = "unknown_asset"} = {span(i) : i \in Unknown}
    BY <2>2, <2>4
  <2>. QED
    BY <2>4, <2>5 DEF UnknownAssetSequences
<1>2. StopsAtUnknownAsset(c) <=>
        \A i \in Unknown, j \in Tools(c) : i < j => c.trace[j].name \notin ASSET_SPECIFIC_TOOLS
  BY DEF StopsAtUnknownAsset, IndicesOf
<1>3. UnknownAssetCalls(r) = {} <=>
        \A j \in Tools(c) :
           ~ /\ c.trace[j].name \in ASSET_SPECIFIC_TOOLS
             /\ UnknownAssetSequences(r) # {}
             /\ SequenceOf(c, j) > Min(UnknownAssetSequences(r))
  <2>. DEFINE row(i) == [tool_name |-> c.trace[i].name, sequence |-> SequenceOf(c, i),
                         status |-> c.trace[i].status]
  <2>1. ToolCalls(r) = {row(i) : i \in Tools(c)}
    BY ToolCallFacts
  <2>2. \A i : row(i).tool_name = c.trace[i].name /\ row(i).sequence = SequenceOf(c, i)
    OBVIOUS
  <2>. HIDE DEF row, r
  <2>. QED
    BY <2>1, <2>2 DEF UnknownAssetCalls
<1>4. CASE Unknown = {}
  BY <1>1, <1>2, <1>3, <1>4
<1>5. CASE Unknown # {}
  <2>1. c.numbering = "shared"
    BY <1>5 DEF OrderIsReported, IndicesOf
  <2>2. \A i \in DOMAIN c.trace : i \in Nat /\ SequenceOf(c, i) = i + 1
    BY <2>1, CaseFacts DEF SequenceOf
  <2>3. Unknown \subseteq DOMAIN c.trace /\ Tools(c) \subseteq DOMAIN c.trace
    BY DEF IndicesOf, Tools
  <2>. HIDE DEF Unknown, r
  <2>4. UnknownAssetSequences(r) \in SUBSET Nat /\ UnknownAssetSequences(r) # {}
    BY <1>1, <1>5, <2>2, <2>3
  <2>5. PICK i \in Unknown : /\ Min(UnknownAssetSequences(r)) = i + 1
                             /\ \A k \in Unknown : i <= k
    <3>1. PICK i \in Unknown : Min(UnknownAssetSequences(r)) = SequenceOf(c, i)
      BY <1>1, <2>4, MinFacts
    <3>2. \A k \in Unknown : SequenceOf(c, i) <= SequenceOf(c, k)
      BY <1>1, <2>4, <3>1, MinFacts
    <3>. QED
      BY <2>2, <2>3, <3>1, <3>2
  <2>6. \A j \in Tools(c) : SequenceOf(c, j) > Min(UnknownAssetSequences(r)) <=> i < j
    BY <2>2, <2>3, <2>5
  <2>7. \A j \in Tools(c), k \in Unknown : k < j => i < j
    BY <2>2, <2>3, <2>5
  <2>8. \A j \in Tools(c) : (\E k \in Unknown : k < j)
                             <=> SequenceOf(c, j) > Min(UnknownAssetSequences(r))
    BY <2>6, <2>7
  <2>9. StopsAtUnknownAsset(c) <=>
          \A j \in Tools(c) : (\E k \in Unknown : k < j)
                              => c.trace[j].name \notin ASSET_SPECIFIC_TOOLS
    BY <1>2
  <2>10. UnknownAssetCalls(r) = {} <=>
           \A j \in Tools(c) : (\E k \in Unknown : k < j)
                               => c.trace[j].name \notin ASSET_SPECIFIC_TOOLS
    BY <1>3, <2>4, <2>8
  <2>. QED
    BY <2>9, <2>10 DEF r
<1>. QED
  BY <1>4, <1>5

\* The deterministic evaluators pass a run exactly if it did well.
LEMMA DeedJudged ==
    ASSUME NEW c \in Cases, OrderIsReported(c)
    PROVE  DidWell(c) <=>
             \A k \in 1..5 : Evaluate(ALL_EVALUATORS[k], View(c)).label # "fail"
<1>. DEFINE r == View(c)
<1>1. ToolExecution(r).label # "fail" <=> \A i \in Tools(c) : c.trace[i].status = "success"
  <2>1. ToolExecution(r).label # "fail" <=> \A t \in ToolCalls(r) : t.status = "success"
    BY DEF ToolExecution, Judged
  <2>2. /\ \A t \in ToolCalls(r) : \E i \in Tools(c) : t.status = c.trace[i].status
        /\ \A i \in Tools(c) : \E t \in ToolCalls(r) : t.status = c.trace[i].status
    <3>. DEFINE row(i) == [tool_name |-> c.trace[i].name,
                           sequence |-> SequenceOf(c, i), status |-> c.trace[i].status]
    <3>1. ToolCalls(r) = {row(i) : i \in Tools(c)}
      BY ToolCallFacts
    <3>2. \A i : row(i).status = c.trace[i].status
      OBVIOUS
    <3>. HIDE DEF row, r
    <3>. QED
      BY <3>1, <3>2
  <2>. HIDE DEF r
  <2>. QED
    BY <2>1, <2>2
<1>2. StructuredOutput(r).label # "fail" <=> (c.status = "success" => c.final_result_output)
  <2>1. r.status = c.status /\ r.final_result_output = c.final_result_output
    BY DEF View
  <2>2. c.final_result_output \in BOOLEAN
    BY CaseFacts
  <2>. HIDE DEF r
  <2>. QED
    BY <2>1, <2>2 DEF StructuredOutput, Judged, NotApplicable
<1>3. Policy(r).label # "fail" <=>
        /\ StopsAtUnknownAsset(c)
        /\ Called(c, "submit_work_order") = {} \/ HITLStateOf(c) = "approved"
  <2>1. Policy(r).label # "fail" <=> UnauthorizedActions(r) = {} /\ UnknownAssetCalls(r) = {}
    BY DEF Policy, Judged
  <2>2. UnknownAssetCalls(r) = {} <=> StopsAtUnknownAsset(c)
    BY UnknownAssetJudged
  <2>3. UnauthorizedActions(r) = {} <=>
          (Called(c, "submit_work_order") = {} \/ HITLStateOf(c) = "approved")
    <3>1. r.hitl_state = HITLStateOf(c)
      BY HITLFacts
    <3>2. "submit_work_order" \in PresentTools(r) <=> Called(c, "submit_work_order") # {}
      BY PresentFacts
    <3>. HIDE DEF r
    <3>. QED
      BY <3>1, <3>2 DEF UnauthorizedActions, PresentTools
  <2>. QED
    BY <2>1, <2>2, <2>3
<1>4. (Trajectory(r).label # "fail" /\ Evidence(r).label # "fail")
        <=> (ScenarioContractFor(c) # None => MeetsContract(c, ScenarioContractFor(c)))
  BY ContractJudged
<1>. HIDE DEF r
<1>5. (\A k \in 1..5 : Evaluate(ALL_EVALUATORS[k], r).label # "fail") <=>
        /\ ToolExecution(r).label # "fail" /\ StructuredOutput(r).label # "fail"
        /\ Trajectory(r).label # "fail" /\ Policy(r).label # "fail"
        /\ Evidence(r).label # "fail"
  <2>1. \A k \in 1..5 : k = 1 \/ k = 2 \/ k = 3 \/ k = 4 \/ k = 5
    OBVIOUS
  <2>. QED
    BY <2>1, EvaluateFacts
<1>. QED
  BY <1>1, <1>2, <1>3, <1>4, <1>5 DEF DidWell, r

\* What a judge's outcome means for a pass.
LEMMA JudgeOutcomeFacts ==
    ASSUME NEW c \in Cases, NEW k \in {6, 7}, NEW o \in OutcomesOf(c, k)
    PROVE  /\ c.judges = "unconfigured" =>
                 o.label = None /\ o.execution_status = "skipped"
           /\ c.judges # "unconfigured" =>
                 ((o.label # "fail" /\ o.execution_status # "failed")
                    <=> o.label \in {"pass", "not_applicable"})
<1>1. o \in JudgeOutcomes(c, ALL_EVALUATORS[k])
  BY RegistryFacts DEF OutcomesOf
<1>2. CASE c.judges = "unconfigured"
  BY <1>1, <1>2 DEF JudgeOutcomes, Skipped
<1>3. CASE c.judges # "unconfigured"
  <2>1. o.execution_status \in {"completed", "failed"}
    BY <1>1, <1>3 DEF JudgeOutcomes, Raised, Completed
  <2>. QED
    BY <1>3, <2>1, OutcomeFacts, NoneIsNoLabel
<1>. QED
  BY <1>2, <1>3

\* The classification of a run says what the run did and what its judges
\* think of it, for every case, contract and answer (run_evaluation over
\* evaluators.py, FailureClassifier.classify).
THEOREM VerdictIsDeed == Spec => []VerdictMatchesDeed
<1>1. ASSUME IInv PROVE VerdictMatchesDeed
  <2>1. SUFFICES ASSUME classification # None, OrderIsReported(case)
        PROVE  /\ classification.overall_status = "pass" <=>
                    /\ DidWell(case)
                    /\ \/ case.judges = "unconfigured"
                       \/ JudgeLabels \subseteq {"pass", "not_applicable"}
               /\ classification.overall_status = "fail" <=>
                    ~DidWell(case) \/ "fail" \in JudgeLabels
    BY DEF VerdictMatchesDeed
  <2>2. LoopInv
    BY <1>1 DEF IInv
  <2>3. /\ case \in Cases
        /\ \A k \in 1..7 : outcomes[k] \in OutcomesOf(case, k)
    BY <2>1, <2>2, ClassificationFacts
  <2>4. \A k \in 1..5 : /\ outcomes[k].label = Evaluate(ALL_EVALUATORS[k], View(case)).label
                        /\ outcomes[k].execution_status = "completed"
    <3>1. SUFFICES ASSUME NEW k \in 1..5
          PROVE  /\ outcomes[k].label = Evaluate(ALL_EVALUATORS[k], View(case)).label
                 /\ outcomes[k].execution_status = "completed"
      OBVIOUS
    <3>2. k \in 1..7 /\ k < 6
      OBVIOUS
    <3>3. outcomes[k] = Completed(Evaluate(ALL_EVALUATORS[k], View(case)), 0)
      BY <2>3, <3>2, OutcomeFacts
    <3>. QED
      BY <3>3 DEF Completed
  <2>5. DidWell(case) <=> \A k \in 1..5 : outcomes[k].label # "fail"
    BY <2>1, <2>3, <2>4, DeedJudged
  <2>6. JudgeLabels = {outcomes[6].label, outcomes[7].label}
    <3>1. DOMAIN outcomes = 1..7
      BY <2>1, <2>2, ClassificationFacts
    <3>2. {j \in DOMAIN outcomes : ALL_EVALUATORS[j] \in Judges} = {6, 7}
      BY <3>1, RegistryFacts
    <3>. QED
      BY <3>2 DEF JudgeLabels
  <2>7. \A k \in 1..7 : k \in 1..5 \/ k = 6 \/ k = 7
    OBVIOUS
  <2>8. classification.overall_status = "fail" <=> \E k \in 1..7 : outcomes[k].label = "fail"
    BY <2>1, <2>2, ClassificationFacts
  <2>9. classification.overall_status = "pass" <=>
          \A k \in 1..7 : /\ outcomes[k].label # "fail"
                          /\ outcomes[k].execution_status # "failed"
    BY <2>1, <2>2, ClassificationFacts
  <2>10. ASSUME NEW k \in {6, 7}
         PROVE  /\ case.judges = "unconfigured" =>
                      /\ outcomes[k].label # "fail"
                      /\ outcomes[k].execution_status # "failed"
                /\ case.judges # "unconfigured" =>
                      ((/\ outcomes[k].label # "fail"
                        /\ outcomes[k].execution_status # "failed")
                         <=> outcomes[k].label \in {"pass", "not_applicable"})
    <3>1. outcomes[k] \in OutcomesOf(case, k)
      BY <2>3
    <3>. QED
      BY <2>3, <3>1, JudgeOutcomeFacts, NoneIsNoLabel
  <2>11. (\A k \in {6, 7} : /\ outcomes[k].label # "fail"
                            /\ outcomes[k].execution_status # "failed")
           <=> (\/ case.judges = "unconfigured"
                \/ JudgeLabels \subseteq {"pass", "not_applicable"})
    BY <2>6, <2>10
  <2>12. classification.overall_status = "pass" <=>
           /\ \A k \in 1..5 : outcomes[k].label # "fail"
           /\ \A k \in {6, 7} : /\ outcomes[k].label # "fail"
                                /\ outcomes[k].execution_status # "failed"
    BY <2>4, <2>7, <2>9
  <2>13. classification.overall_status = "fail" <=>
           \/ \E k \in 1..5 : outcomes[k].label = "fail"
           \/ "fail" \in JudgeLabels
    BY <2>6, <2>7, <2>8
  <2>. QED
    BY <2>5, <2>11, <2>12, <2>13
<1>. QED
  BY <1>1, Invariance, PTL

=============================================================================
