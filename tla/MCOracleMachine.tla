--------------------------- MODULE MCOracleMachine ---------------------------
(* Three states of two behaviors with every min_dwell up to two, a state    *)
(* that may transit to itself, and a recovery that shares a behavior with   *)
(* one of the states.  The episode outlasts the reference, and it is long   *)
(* enough for two recoveries with a transition between them.                *)
EXTENDS OracleMachine

CONSTANTS cruise, brake, creep, fast, slow

MCBehaviorOf == [s \in States |-> IF s = cruise THEN fast ELSE slow]
MCMinDwell == [s \in States |-> CASE s = cruise -> 0 [] s = brake -> 2
                                  [] s = creep -> 1]

Edge(f, t, p) == [from |-> f, to |-> t, priority |-> p]

MCTransitions == { Edge(cruise, brake, 0), Edge(cruise, creep, 1),
                   Edge(brake, creep, 0), Edge(brake, cruise, 1),
                   Edge(creep, creep, 0), Edge(creep, cruise, 1) }
=============================================================================
