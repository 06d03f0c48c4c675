SPECIFICATION Spec
CONSTANTS
    N = 4
    Running <- MCRunning
    Payload = {p1}
    Key <- MCKeys3
    HighMark = 3
    Backlog = 1
    Interval = 1
    Start = 0
    MaxCopies <- MCBackups
    MaxView = 1
INVARIANTS
    WaitingHasItsTimer
    PrimaryHoldsNothing
    AssignedNeverWaits
CHECK_DEADLOCK FALSE
