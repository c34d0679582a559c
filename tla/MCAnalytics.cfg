SPECIFICATION Spec
CONSTANTS
    None = None
    RunIds <- SomeRuns
    StartedAt <- Starts
    Snapshots <- SomeSnapshots
    ScenarioIds = {"GS-08"}
    Classifications <- SomeClassifications
    Requests <- SomeRequests
INVARIANTS
    UndisturbedAnswersAddUp
    TornAnswersLoseNothing
