CONSTANTS
    Sessions = 2
    FilesPerScan = 2
    SessionsPerScan = 2
    MaxLines = 1
    OldFiles = {}
    MaxEntries = 3
    MaxCalls = 0
    MaxFaults = 0
SPECIFICATION Spec
INVARIANTS
    AmbiguityIsSeen
