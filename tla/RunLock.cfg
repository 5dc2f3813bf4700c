CONSTANTS
    Monitors = {host, watch}
    NoOne = NoOne
    StaleMs = 2
    MaxTime = 3
    MaxFaults = 2
SPECIFICATION Spec
INVARIANTS
    TypeOK
    OwnersKeepTheFile
PROPERTIES
    ImplementsAdvisoryLock
    OrphanLockTakenOver
