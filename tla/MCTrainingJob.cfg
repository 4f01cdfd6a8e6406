SPECIFICATION FairSpec
CONSTANTS
    Seeds = 3
    MaxSteps = 2
INVARIANTS
    TypeOK
    ConstructionAdmitted
    ConformingWorkerAccepted
    ResultAccounts
PROPERTIES
    SuccessEarned
    ImplementsLedger
    JobEnds
CHECK_DEADLOCK FALSE
