CONSTANTS
    RunningFresh = 1
    OrphanAfter = 3
    MaxTime = 5
    MaxFaults = 2
SPECIFICATION Spec
INVARIANTS
    TypeOK
    VerdictIsReported
PROPERTIES
    StatesFollowTheModel
    RunIsClosed
