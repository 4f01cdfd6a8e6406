SPECIFICATION Spec
CONSTANTS
    None = None
    j1 = j1
    j2 = j2
    r1 = r1
    r2 = r2
    Jobs = {j1, j2}
    Reservations = {r1}
    ResOf <- MCSameReservation
    Seeds = 2
    MaxTokens = 1
INVARIANT
    TrainingHoldsSlot
CHECK_DEADLOCK FALSE
