SPECIFICATION Spec
CONSTANTS
    None = None
    g1 = g1
    g2 = g2
    c1 = c1
    assessed = assessed
    Creates = {g1, g2}
    Selections <- BaselineSelections
    Contracts <- AllContracts
    HITLScenarios = {"GS-08"}
    Target <- ScriptedTarget
    Approved <- ScriptedApproved
    MaxInFlight = 2
    Faults = FALSE
    Assessments = {assessed}
    Clients = {}
INVARIANTS
    RefusedMeansConflict
