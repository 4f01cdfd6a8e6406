SPECIFICATION Spec
CONSTANTS
    Seeds = 2
    MaxSteps = 1
INVARIANT
    RefusalAccounts
CHECK_DEADLOCK FALSE
