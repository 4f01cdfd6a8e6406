SPECIFICATION Spec
CONSTANTS
    None = None
    Invalid = Invalid
    walk = walk
    turn = turn
    recover = recover
    done = done
    health = health
    progress = progress
    Modes = {walk, turn, recover, done}
    Signals = {health, progress}
    Scale = 2
    Readings = {0, 1, 2}
    NFrames = 8
    Programs <- MCPrograms
    MaxEpisodes = 1
INVARIANTS
    TypeOK
    LatchesAreFresh
    VisitBounded
    EntryIsNearest
PROPERTIES
    RecoveryRejoins
