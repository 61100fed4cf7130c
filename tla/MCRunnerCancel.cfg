SPECIFICATION Spec
CONSTANTS
    MaxLines = 3
    LineLen = 3
    Polls = {p1, p2}
    MaxCancels = 2
INVARIANT CancelKillsChild
