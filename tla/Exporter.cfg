SPECIFICATION LiveSpec
CONSTANTS
    t1 = t1
    t2 = t2
    Replica = {r0, r1, r2}
    Full = r0
    F = 1
    Other = Other
    Tx = {t1, t2}
    MaxBlockMessages = 1
    Interval = 2
    Logs <- MCLogs
    Bases = {0, 1}
    Sinks = {"output", "victoria"}
    MaxPending = 2
    MaxFaults = 1
INVARIANTS
    TypeOK
    DeletedWasFetched
    DeletedWasExported
PROPERTIES
    SignsAsAssumed
    EventuallyExported
CHECK_DEADLOCK FALSE
