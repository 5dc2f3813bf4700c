CONSTANTS
    Cadences = {poll}
SPECIFICATION Spec
PROPERTIES
    StopAllCancels
