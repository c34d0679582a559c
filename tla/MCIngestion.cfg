SPECIFICATION HFairSpec
CONSTANTS
    None = None
    q1 = q1
    q2 = q2
    q3 = q3
    Requests = {q1, q2, q3}
    RunIds = {"r1", "r2"}
    SpanIds = {"s1", "s2"}
    ToolCallIds = {"t1", "t2"}
    LLMCallIds = {"l1", "l2"}
    IntMax = 3
    MaxInFlight = 3
    Payloads <- AllPayloads
INVARIANTS
    TypeOK
    UsageMatchesRows
    ReferencesResolve
    StoredLifecycleIsValid
    OneWriterPerRun
PROPERTIES
    ChildrenNeverVanish
    AnsweredMeansStored
    ReplayChangesNothing
    DecisionNeverReopened
    ImplementsStore
    EveryRequestAnswered
