---------------------------- MODULE ArtifactUse ----------------------------
(***************************************************************************)
(* The processes that share the artifact library: dispatchers and          *)
(* ingesters of the model call, savers and probers.  A cast says which     *)
(* actors exist and what each was started to do.  Any of them may be       *)
(* killed between or inside its calls, and the machine may stop, after     *)
(* which only actors that had not started yet go on.                       *)
(***************************************************************************)
EXTENDS ModelCall, ResultBundle

CONSTANTS
    Scenes,     \* which actors there are, what each does, what the runs hold
    MaxFaults   \* how many kills, failed calls and stops of the machine

VARIABLE faults

vars == <<fileVars, cast, quality, at, know, faults>>

Starts == {"dispatch", "ingest", "save", "probe", "absent"}
Ends == {"dispatched", "accepted", "rejected", "saved", "reported", "raised", "killed", "absent"}
Places == Starts \cup Ends \cup SavePlaces \cup
    {"retainRefusal", "claimIdentity", "publishIntent", "retain", "readIntent",
     "claim", "judge", "proposal", "recipe", "receipt",
     "reserveProbe", "publishProbe"}

ASSUME SceneType ==
    Scenes \subseteq [cast : [Actors -> [role : Starts, record : Records, run : Runs]],
                      quality : Quality]
ASSUME MaxFaultsType == MaxFaults \in Nat
ASSUME NamesUsed == CallNames \cup BundleNames \subseteq Names /\ Reserved = BundleReserved
ASSUME FolderUsed == \A n \in CallNames : Folder[n] = CallFolder[n]
ASSUME ValuesUsed == CallValues \cup {Final} \subseteq Values

Knowledge == [kept : BOOLEAN, identity : Values \cup {NoFile},
              intent : {"unknown", "missing", "mismatched", "verified"}, replay : BOOLEAN]

TypeOK ==
    /\ FilesTypeOK
    /\ [cast |-> cast, quality |-> quality] \in Scenes
    /\ at \in [Actors -> Places]
    /\ know \in [Actors -> Knowledge]
    /\ faults \in 0..MaxFaults

Init ==
    /\ FilesInit
    /\ \E scene \in Scenes : cast = scene.cast /\ quality = scene.quality
    /\ at = [a \in Actors |-> cast[a].role]
    /\ know = [a \in Actors |-> Blank]
    /\ faults = 0

Running(a) == at[a] \notin Starts \cup Ends

Kill(a) ==
    /\ Running(a)
    /\ Moves(a, "killed")
    /\ Learns(a, Blank)
    /\ Abandon(a)
    /\ UNCHANGED <<cast, quality>>

PowerLoss ==
    /\ MachineStops
    /\ at' = [a \in Actors |-> IF Running(a) THEN "killed" ELSE at[a]]
    /\ know' = [a \in Actors |-> IF Running(a) THEN Blank ELSE know[a]]
    /\ UNCHANGED <<cast, quality>>

Step(a) ==
    \/ Dispatch(a)
    \/ Ingest(a)
    \/ Save(a) /\ UNCHANGED <<quality, know>>
    \/ Probe(a) /\ UNCHANGED <<quality, know>>
    \/ Library(a) /\ UNCHANGED <<cast, quality, at, know>>

Fault ==
    \/ PowerLoss
    \/ \E a \in Actors : Kill(a) \/ (Fails(a) /\ UNCHANGED <<cast, quality, at, know>>)

Next ==
    \/ \E a \in Actors : Step(a) /\ UNCHANGED faults
    \/ faults < MaxFaults /\ Fault /\ faults' = faults + 1

Spec == Init /\ [][Next]_vars
=============================================================================
