CONSTANTS
    Writers = {host, watch}
    Cap = 2
    MaxAppends = 6
    MaxFaults = 2
SPECIFICATION Spec
INVARIANTS
    TypeOK
    RecentEventsKept
    ReadsAreOrdered
    ReadsHaveNoGap
    GrowthIsBounded
    TornTailCostsTwo
