CONSTANTS
    Monitors = {host, watch}
    NoOne = NoOne
    StaleMs = 1
    MaxTime = 0
    MaxFaults = 0
SPECIFICATION Spec
INVARIANTS
    MutualExclusion
