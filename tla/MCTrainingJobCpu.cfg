SPECIFICATION Spec
CONSTANTS
    Seeds = 1
    MaxSteps = 1
INVARIANT
    CpuLimitIsBreach
CHECK_DEADLOCK FALSE
