SPECIFICATION Spec
CONSTANTS
    t1 = t1
    t2 = t2
    t3 = t3
    t4 = t4
    t5 = t5
    Replica = {r1, r2, r3}
    Quorum = 2
    Tx = {t1, t2, t3, t4, t5}
    Other = Other
    MaxBlockMessages = 1
    Interval = 1
    Logs <- MCShort
    MaxDeletes = 2
    MaxRepeats = 0
    MaxRestarts = 0
INVARIANT BlocksPresent
SYMMETRY ReplicaSymmetry
CHECK_DEADLOCK FALSE
