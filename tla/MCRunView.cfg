SPECIFICATION Spec
CONSTANTS
    None = None
    q1 = q1
    q2 = q2
    Readers = {q1, q2}
    RunIds = {"r1", "r2"}
    SpanIds = {"s1", "s2"}
    ToolCallIds = {"t1", "t2"}
    LLMCallIds = {"l1", "l2"}
    IntMax = 3
    Payloads <- ValidPayloads
SYMMETRY SymmetricReaders
INVARIANTS
    TypeOK
    FailedReadIsTransient
    ViewCoversItsTotals
PROPERTIES
    UndisturbedViewIsStored
