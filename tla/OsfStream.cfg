SPECIFICATION TelemetrySpec
CONSTANTS
    b1 = b1
    b2 = b2
    Fragments <- MCFragments
    Blocks = {b1, b2}
    MaxBuffer = 2
    MaxRequests = 5
    BlockSize = 1
    Header <- MCHeader
    Content <- MCContent
    FirstFile <- MCFirstFile
    MaxRead = 4
    MaxRuns = 3
INVARIANTS
    TypeOK
    HeaderWhole
    HeadersNewer
    DataExplained
    SamplesNamed
    ExportComplete
    PanicHasCause
CHECK_DEADLOCK FALSE
