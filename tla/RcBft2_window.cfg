SPECIFICATION Spec
CONSTANTS
    N = 3
    Running <- MCPair
    Payload = {p1, p2}
    Key <- MCKeys3
    HighMark = 3
    Backlog = 1
    Interval = 1
    Start = 0
    MaxCopies <- MCTwice
    MaxView = 0
INVARIANT NoRepeatWithinBacklog
SYMMETRY PayloadSymmetry
CHECK_DEADLOCK FALSE
