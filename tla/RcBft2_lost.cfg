SPECIFICATION Spec
CONSTANTS
    N = 4
    Running <- MCRunning
    Payload = {p1}
    Key <- MCKeys3
    HighMark = 3
    Backlog = 1
    Interval = 1
    Start = 0
    MaxCopies <- MCOnce
    MaxView = 1
INVARIANT NeverLost
CHECK_DEADLOCK FALSE
