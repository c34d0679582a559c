------------------------------ MODULE JudgeClient ------------------------------
(***************************************************************************)
(* JudgeClient.generate_structured over AnthropicJudgeClient: asking a     *)
(* language model for an answer that fits a schema.  One action is one     *)
(* round trip to the provider.                                             *)
(*                                                                         *)
(* An answer is valid (it fits the schema), invalid (the tool was called   *)
(* with something else), declined (the tool was not called, or not with an *)
(* object: RawJudgeOutputError) or lost (the provider's client raised).    *)
(* A prompt is the original one followed by the answers it asks to         *)
(* correct, so it is the set of their numbers; a log entry is the tokens   *)
(* recorded for the attempt.  X_... is X with a bug in it.                 *)
(***************************************************************************)
EXTENDS Integers, Sequences

CONSTANT JudgeAnswers   \* what the provider may come back with

MAX_STRUCTURED_OUTPUT_ATTEMPTS == 3

Usage == 1   \* tokens of a message, for each of which the provider bills

JudgeAnswer ==
    [kind : {"valid"}, passed : BOOLEAN, claims : BOOLEAN]
    \cup [kind : {"invalid", "declined", "lost"}]

ASSUME JudgeAnswersAssumption == JudgeAnswers \subseteq JudgeAnswer

VARIABLES
    call,             \* where generate_structured is
    attempt_index,
    current_prompt,
    call_log,
    requests,         \* history: the prompts sent
    answers           \* history: what they were answered with

judge_vars == <<call, attempt_index, current_prompt, call_log, requests, answers>>

JudgeInit ==
    /\ call = "idle"
    /\ attempt_index = 0
    /\ current_prompt = {}
    /\ call_log = << >>
    /\ requests = << >>
    /\ answers = << >>

\* The original prompt, the first attempt, an empty call log.
GenerateStructured ==
    /\ call = "idle"
    /\ call' = "asking"
    /\ attempt_index' = 0
    /\ current_prompt' = {}
    /\ call_log' = << >>
    /\ requests' = << >>
    /\ answers' = << >>

\* _raw_complete sends the current prompt and comes back with an answer.
RawComplete(answer) ==
    /\ call = "asking"
    /\ answer \in JudgeAnswers
    /\ requests' = Append(requests, current_prompt)
    /\ answers' = Append(answers, answer)

\* _raw_failed_call records no tokens: a lost message had none, and the usage
\* of a declined one is not read.
LoggedUsage(answer) ==
    IF answer.kind \in {"declined", "lost"} THEN 0 ELSE Usage

AppendCallLog(answer) == call_log' = Append(call_log, LoggedUsage(answer))

RetryPrompt_Accumulates == current_prompt \cup {attempt_index + 1}

\* The original prompt with the answer just received, and only that one.
RetryPrompt == {attempt_index + 1}

\* An answer that fits the schema is returned.
AttemptSucceeds(answer) ==
    /\ answer.kind = "valid"
    /\ RawComplete(answer)
    /\ AppendCallLog(answer)
    /\ call' = "returned"
    /\ UNCHANGED <<attempt_index, current_prompt>>

\* One that does not is sent back for correction, twice.
AttemptRetried(answer) ==
    /\ answer.kind \in {"invalid", "declined"}
    /\ attempt_index < MAX_STRUCTURED_OUTPUT_ATTEMPTS - 1
    /\ RawComplete(answer)
    /\ AppendCallLog(answer)
    /\ current_prompt' = RetryPrompt
    /\ attempt_index' = attempt_index + 1
    /\ UNCHANGED call

\* JudgeOutputValidationError
AttemptExhausted(answer) ==
    /\ answer.kind \in {"invalid", "declined"}
    /\ attempt_index = MAX_STRUCTURED_OUTPUT_ATTEMPTS - 1
    /\ RawComplete(answer)
    /\ AppendCallLog(answer)
    /\ call' = "raised"
    /\ UNCHANGED <<attempt_index, current_prompt>>

\* Any other exception is logged and raised at once.
AttemptRaises(answer) ==
    /\ answer.kind = "lost"
    /\ RawComplete(answer)
    /\ AppendCallLog(answer)
    /\ call' = "raised"
    /\ UNCHANGED <<attempt_index, current_prompt>>

Attempt(answer) ==
    \/ AttemptSucceeds(answer)
    \/ AttemptRetried(answer)
    \/ AttemptExhausted(answer)
    \/ AttemptRaises(answer)

\* The evaluator takes the result or the exception.
Finish ==
    /\ call \in {"returned", "raised"}
    /\ call' = "idle"
    /\ UNCHANGED <<attempt_index, current_prompt, call_log, requests, answers>>

JudgeTypeOK ==
    /\ call \in {"idle", "asking", "returned", "raised"}
    /\ attempt_index \in 0..MAX_STRUCTURED_OUTPUT_ATTEMPTS - 1
    /\ current_prompt \subseteq 1..MAX_STRUCTURED_OUTPUT_ATTEMPTS
    /\ call_log \in Seq(0..Usage)
    /\ requests \in Seq(SUBSET (1..MAX_STRUCTURED_OUTPUT_ATTEMPTS))
    /\ answers \in Seq(JudgeAnswer)

=============================================================================
