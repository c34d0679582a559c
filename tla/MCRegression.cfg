SPECIFICATION FairSpec
CONSTANTS
    None = None
    g1 = g1
    g2 = g2
    c1 = c1
    assessed = assessed
    Creates = {g1, g2}
    Selections <- MixedSelections
    Contracts <- AllContracts
    HITLScenarios = {"GS-08"}
    Target <- UnrulyTarget
    Approved <- UnrulyApproved
    MaxInFlight = 2
    Faults = TRUE
    Assessments = {assessed}
    Clients = {c1}
INVARIANTS
    TypeOK
    GateHeldAtResume
    FailedMeansViolation
    CreatedMeansEvaluated
PROPERTIES
    ImplementsLifecycle
    RegressionEnds
