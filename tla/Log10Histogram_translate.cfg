SPECIFICATION Spec
CONSTANTS
    Inf       = Inf
    MaxDecade = 3
    MaxBounds = {0, 25, 200}
    Bounds    = {1, 4, 10, 37, 120}
    Counts    = {0, 3, 10}
    Configs   <- MCConfigs
    Inputs    <- MCInputs
INVARIANTS BoundsComplete Cumulative Bracketed Idempotent
PROPERTY Ends
CHECK_DEADLOCK FALSE
