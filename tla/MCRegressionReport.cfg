SPECIFICATION MCSpec
CONSTANTS
    None = None
    g1 = g1
    g2 = g2
    c1 = c1
    assessed = assessed
    Creates = {g1, g2}
    Selections <- WatchedSelections
    Contracts <- AllContracts
    HITLScenarios = {"GS-08"}
    Target <- WatchedTarget
    Approved <- WatchedApproved
    MaxInFlight = 2
    Faults = TRUE
    Clients = {c1}
    Polled = g1
    Evaluators <- TwoEvaluators
    Assessments <- SomeAssessments
INVARIANTS
    CompletedReportIsFinal
    ReportsNeverGoBack
