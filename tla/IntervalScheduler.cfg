CONSTANTS
    Cadences = {poll, heartbeat, watch}
SPECIFICATION Spec
INVARIANTS
    TypeOK
    NoOverlap
    NoStrayTimer
PROPERTIES
    StopSilences
    StopAllSilences
    KeepsTicking
