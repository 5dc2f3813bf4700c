CONSTANTS
    Plugins = {first, second}
SPECIFICATION Spec
INVARIANTS
    TypeOK
    DisposedIsQuiet
    ManifestGoesWithPlugin
PROPERTIES
    KeepsPolling
CHECK_DEADLOCK FALSE
