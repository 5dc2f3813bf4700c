CONSTANTS
    Sessions = 3
    FilesPerScan = 2
    SessionsPerScan = 2
    MaxLines = 2
    OldFiles = {1}
    MaxEntries = 3
    MaxCalls = 2
    MaxFaults = 1
SPECIFICATION Spec
INVARIANTS
    TypeOK
    CountsAreCurrent
    SessionIsAlone
    CallsAreItsOwn
