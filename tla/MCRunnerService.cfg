SPECIFICATION Spec
CONSTANTS
    MaxLines = 2
    LineLen = 3
    Polls = {p1, p2}
    MaxCancels = 2
INVARIANTS
    TypeOK
    LinesInOrder
    StatusIsTrue
    SlotHeldByChild
PROPERTIES
    ImplementsLifecycle
    RunEnds
