SPECIFICATION Spec
CONSTANTS
    a1 = a1
    a2 = a2
    a3 = a3
    r1 = r1
    r2 = r2
    run1 = run1
    run2 = run2
    Actors = {a1, a2, a3}
    Records = {r1, r2}
    Runs = {run1, run2}
    Names <- MCNames
    Reserved <- MCReserved
    Values <- MCValues
    Folders <- MCFolders
    Folder <- MCFolder
    Scenes <- MCScenes
    MaxFaults = 2
    NoFile = NoFile
    Provisional = Provisional
    Absent = Absent
    Torn = Torn
INVARIANTS
    TypeOK
    OneDispatch
    OneAcceptance
    EvidenceIsDurable
    ManifestComesLast
    OneProbe
PROPERTY
    ImplementsWriteOnce
CHECK_DEADLOCK FALSE
