SPECIFICATION FairSpec
CONSTANTS
    N = 4
    Running <- MCRunning
    Payload = {p1}
    Key <- MCKeys3
    HighMark = 3
    Backlog = 1
    Interval = 1
    Start = 1
    MaxCopies <- MCTwice
    MaxView = 0
INVARIANTS
    TypeOK
    HeardIsHeld
PROPERTY EventuallyOrdered
CHECK_DEADLOCK FALSE
