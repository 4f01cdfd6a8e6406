SPECIFICATION FairSpec
CONSTANTS
    None = None
    p1 = p1
    p2 = p2
    r1 = r1
    r2 = r2
    alice = alice
    bob = bob
    Procs = {p1, p2}
    Reservations = {r1, r2}
    Owners = {alice, bob}
    OwnerOf <- MCOwnerOf
    ExpiryOf <- MCExpiryOf
    MaxTokens = 2
    MaxClock = 1
INVARIANTS
    TypeOK
    ReservationSurvives
    ReadTokensHeld
    PublishedComplete
PROPERTIES
    ExactRelease
    GuardedReadsStable
    ImplementsSlot
    GuardComesBack
