SPECIFICATION Spec
CONSTANTS
    None = None
    SCENARIO_CONTRACTS <- SomeContracts
    JudgeAnswers <- AllAnswers
    Cases <- AllCases
INVARIANTS
    UnknownAssetStopIsJudged
