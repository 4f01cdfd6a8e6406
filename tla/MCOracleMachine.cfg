SPECIFICATION Spec
CONSTANTS
    Never = Never
    cruise = cruise
    brake = brake
    creep = creep
    fast = fast
    slow = slow
    States = {cruise, brake, creep}
    Initial = cruise
    Behaviors = {fast, slow}
    BehaviorOf <- MCBehaviorOf
    MinDwell <- MCMinDwell
    Transitions <- MCTransitions
    RecBehavior = slow
    RecMin = 2
    RecMax = 3
    RecReentry = 2
    Length = 9
    Horizon = 11
INVARIANTS
    TypeOK
    RecoveryBounded
    PhaseBehindTask
PROPERTIES
    RecoverySpaced
    TransitionsEarned
CHECK_DEADLOCK FALSE
