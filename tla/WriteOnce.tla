----------------------------- MODULE WriteOnce -----------------------------
(***************************************************************************)
(* What experiments/artifact_io.py promises of a published name: it shows  *)
(* nothing until it shows a complete value, nobody ever replaces that      *)
(* value, and once the publication has been reported to its caller the     *)
(* value outlives every crash.  A name whose publication has not been      *)
(* reported may be lost when the machine stops, and only then.             *)
(***************************************************************************)
CONSTANTS Names, Values, Absent     \* Absent is no member of Values

VARIABLES
    shown,      \* what each name shows, Absent before it is published
    promised    \* the names whose publication was reported

Init ==
    /\ shown = [n \in Names |-> Absent]
    /\ promised = {}

Publish(n) ==
    /\ shown[n] = Absent /\ shown'[n] # Absent
    /\ \E v \in Values : shown' = [shown EXCEPT ![n] = v]
    /\ UNCHANGED promised

Promise(n) ==
    /\ shown[n] # Absent
    /\ promised' = promised \cup {n}
    /\ UNCHANGED shown

\* The machine stops: any of the names nobody was promised may be gone.
Lose ==
    /\ shown' \in [Names -> Values \cup {Absent}]
    /\ \A n \in Names : shown'[n] = shown[n] \/ (shown'[n] = Absent /\ n \notin promised)
    /\ UNCHANGED promised

Next ==
    \/ \E n \in Names : Publish(n) \/ Promise(n)
    \/ Lose

Spec == Init /\ [][Next]_<<shown, promised>>
=============================================================================
