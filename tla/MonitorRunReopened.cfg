CONSTANTS
    Monitors = {host, watch}
    Nothing = Nothing
    Sessions = {}
    Details = {d1}
    Shown = {"running", "finished"}
    LockMayBreak = FALSE
    MaxFaults = 0
SPECIFICATION Spec
PROPERTIES
    TerminalIsFinal
