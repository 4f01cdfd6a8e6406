--------------------------- MODULE MCOracleRuntime ---------------------------
(* Every program over four modes whose rules are a subset of AllRules: up   *)
(* to three rules per mode, with each operator, both phase transfers and    *)
(* some rules that no valid program may have.                               *)
EXTENDS OracleRuntime

CONSTANTS walk, turn, recover, done, health, progress

Edge(f, t, k, pr, min, sig, op, thr, hyst, ph) ==
    [from |-> f, to |-> t, kind |-> k, priority |-> pr, minDwell |-> min,
     signal |-> sig, op |-> op, threshold |-> thr, hysteresis |-> hyst,
     phase |-> ph]

AllRules ==
    { Edge(walk, recover, "recovery", 0, 0, health, "lt", 1, 1, None),
      Edge(walk, turn, "advance", 1, 2, progress, "ge", 2, 1, None),
      Edge(walk, turn, "advance", 2, 0, progress, "ge", 1, 0, progress),
      Edge(turn, walk, "advance", 0, 0, health, "le", 0, 1, None),
      Edge(turn, done, "advance", 1, 1, progress, "gt", 1, 1, None),
      Edge(turn, recover, "recovery", 2, 1, health, "le", 0, 1, None),
      Edge(recover, walk, "rejoin", 0, 1, health, "ge", 1, 0, progress),
      Edge(recover, done, "rejoin", 1, 0, progress, "gt", 0, 0, None),
      Edge(recover, turn, "rejoin", 2, 2, progress, "gt", 0, 1, progress) }

Skeleton(limit) ==
    [entry |-> walk,
     kind |-> [m \in Modes |-> CASE m = recover -> "recovery"
                                 [] m = done -> "terminal"
                                 [] OTHER -> "task"],
     start |-> [m \in Modes |-> CASE m = walk -> 0 [] m = turn -> 3
                                  [] m = recover -> 5 [] m = done -> 6],
     stop |-> [m \in Modes |-> CASE m = walk -> 3 [] m = turn -> 5
                                 [] m = recover -> 6 [] m = done -> 8],
     maxDwell |-> [m \in Modes |-> CASE m = walk -> limit [] m = done -> None
                                     [] OTHER -> 2],
     maxQueries |-> 6]

MCPrograms ==
    { [entry |-> s.entry, kind |-> s.kind, start |-> s.start, stop |-> s.stop,
       maxDwell |-> s.maxDwell, rules |-> R, maxQueries |-> s.maxQueries] :
        s \in {Skeleton(3), Skeleton(None)}, R \in SUBSET AllRules }
=============================================================================
