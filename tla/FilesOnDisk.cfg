SPECIFICATION TwinSpec
CONSTANTS
    Torn = Torn
    Absent = Absent
    MaxBlock = 4
    MaxCrashes = 2
INVARIANTS
    TypeOK
    HeadRecovered
    ChainReadable
    StoragesAgree
CHECK_DEADLOCK FALSE
