SPECIFICATION Spec
CONSTANTS
    Torn = Torn
    Absent = Absent
    MaxBlock = 4
    MaxCrashes = 2
INVARIANT
    StopResumes
CHECK_DEADLOCK FALSE
