SPECIFICATION Spec
CONSTANTS
    t1 = t1
    t2 = t2
    Replica = {r0, r1, r2}
    Full = r0
    F = 1
    Other = Other
    Tx = {t1, t2}
    MaxBlockMessages = 1
    Interval = 2
    Logs <- MCAligned
    Bases = {0}
    Sinks = {"postgres"}
    MaxPending = 2
    MaxFaults = 0
INVARIANT DeletedWasExported
CHECK_DEADLOCK FALSE
