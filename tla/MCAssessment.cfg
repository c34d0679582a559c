SPECIFICATION FairSpec
CONSTANTS
    None = None
    SCENARIO_CONTRACTS <- SomeContracts
    JudgeAnswers <- AllAnswers
    Cases <- AllCases
INVARIANTS
    TypeOK
    AuthorisationIsDecisive
    VerdictMatchesDeed
    RetriesCorrectTheLastAnswer
    UnexplainedFailureIsAJudges
PROPERTIES
    AssessmentEnds
