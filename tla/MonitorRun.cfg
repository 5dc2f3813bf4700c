CONSTANTS
    Monitors = {host, watch}
    Nothing = Nothing
    Sessions = {s1}
    Details = {d1}
    Shown = {"running", "orphaned", "finished"}
    LockMayBreak = TRUE
    MaxFaults = 1
SPECIFICATION Spec
INVARIANTS
    TypeOK
    HistoryAgrees
    VerdictsAreTrue
PROPERTIES
    HistoryIsAPath
    SessionIsSticky
    VerdictIsShown
