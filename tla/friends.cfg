SPECIFICATION Spec
CONSTANTS
    Users = {u, v, w}
    MaxCalls = 5
    Apart = TRUE
SYMMETRY Anyone
PROPERTIES
    KeepsPromise
    DecidedOnce
CHECK_DEADLOCK FALSE
