SPECIFICATION FairSpec
CONSTANTS
    None = None
    j1 = j1
    j2 = j2
    r1 = r1
    r2 = r2
    Jobs = {j1, j2}
    Reservations = {r1, r2}
    ResOf <- MCOwnReservations
    Seeds = 2
    MaxTokens = 3
INVARIANTS
    TypeOK
    TrainingHoldsSlot
    SeedsAreSerial
PROPERTIES
    TokenComesBack
CHECK_DEADLOCK FALSE
