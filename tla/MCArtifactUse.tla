--------------------------- MODULE MCArtifactUse ---------------------------
(* Casts for TLC.  Each is a race or a retry that the scripts can meet.     *)
EXTENDS ArtifactUse, TLC

CONSTANTS a1, a2, a3, r1, r2, run1, run2

MCNames == CallNames \cup BundleNames
MCReserved == BundleReserved
MCValues == CallValues \cup {Final}
MCFolders == {"call", "records", "refusals", "work"}
MCFolder == [n \in MCNames |-> IF n \in CallNames THEN CallFolder[n] ELSE BundleFolder[n]]

Does(role, record, run) == [role |-> role, record |-> record, run |-> run]
Trio(x, y, z) == (a1 :> x) @@ (a2 :> y) @@ (a3 :> z)

Runs2(x, y) == (run1 :> x) @@ (run2 :> y)
Holds(record, what) == [made |-> record, holds |-> what]
Good == Holds(r1, "good")
Scene(trio, runs) == [cast |-> trio, quality |-> runs]

D(record) == Does("dispatch", record, run1)
I(record, run) == Does("ingest", record, run)
Nobody == Does("absent", r1, run1)

MCScenes == {
    \* two dispatchers of one packet, and of two packets, and an ingestion
    Scene(Trio(D(r1), D(r1), Nobody), Runs2(Good, Good)),
    Scene(Trio(D(r1), D(r2), I(r2, run1)), Runs2(Good, Good)),
    \* a retried ingestion of one run, and a race of two runs
    Scene(Trio(D(r1), I(r1, run1), I(r1, run1)), Runs2(Good, Good)),
    Scene(Trio(D(r1), I(r1, run1), I(r1, run2)), Runs2(Good, Good)),
    \* runs that are not as they should be
    Scene(Trio(D(r1), I(r1, run1), Nobody), Runs2(Holds(r1, "invalid"), Good)),
    Scene(Trio(D(r1), I(r1, run1), Nobody), Runs2(Holds(r1, "unread"), Good)),
    \* a bundle, and two probes of one output
    Scene(Trio(Does("save", r1, run1), Nobody, Nobody), Runs2(Good, Good)),
    Scene(Trio(Nobody, Does("probe", r1, run1), Does("probe", r1, run1)), Runs2(Good, Good)) }
=============================================================================
