SPECIFICATION StatusSpec
CONSTANTS
    x = x
    y = y
    Junk = Junk
    Byte = {x, y}
    Chunks <- MCChunks
    InitialSize = 2
    MaxAlloc = 8
    Reports <- MCReports
    ReportSize = 6
INVARIANTS
    TypeOK
    WholeLines
    ReportComplete
PROPERTIES
    IsByteQueue
    GrowsOnlyWhenFull
