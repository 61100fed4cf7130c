SPECIFICATION Spec
CONSTANTS
    Callers = {c1, c2, c3}
    MaxRetries = 1
    Threshold = 3
INVARIANTS
    TypeOK
    ExchangesBounded
PROPERTIES
    CancelledCallsStop
    CallEnds
