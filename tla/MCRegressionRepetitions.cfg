SPECIFICATION Spec
CONSTANTS
    None = None
    g1 = g1
    g2 = g2
    c1 = c1
    assessed = assessed
    Creates = {g1}
    Selections <- TwoRepetitions
    Contracts <- AllContracts
    HITLScenarios = {"GS-08"}
    Target <- ScriptedTarget
    Approved <- ScriptedApproved
    MaxInFlight = 1
    Faults = FALSE
    Assessments = {assessed}
    Clients = {}
INVARIANTS
    CompletedMeansAllRan
