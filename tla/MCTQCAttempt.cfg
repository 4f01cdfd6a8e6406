SPECIFICATION Spec
CONSTANT Targets <- MCTargets
INVARIANTS TypeOK AuthorityIsMutual
PROPERTIES AttemptReturns OrphanStops
CHECK_DEADLOCK FALSE
