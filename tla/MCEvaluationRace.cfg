SPECIFICATION HSpec
CONSTANTS
    None = None
    c1 = c1
    c2 = c2
    Calls = {c1, c2}
    RunIds = {"r1"}
    RegressionIds = {1}
    ALL_EVALUATORS <- TwoEvaluators
    Judges <- TheJudge
    Outcomes <- SomeOutcomes
    JudgeSettings = {TRUE}
    MaxInFlight = 2
INVARIANTS
    FailureIsCurrent
