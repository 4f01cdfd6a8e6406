--------------------------- MODULE ArtifactFiles ---------------------------
(***************************************************************************)
(* experiments/artifact_io.py: how a result file gets its name.  An actor  *)
(* is one process inside one call of the library; `call' says which system *)
(* call it makes next.  Three ways to publish are modelled:                *)
(*   - publish_bytes_without_overwrite: a private pending file, then one   *)
(*     rename that never replaces an entry, then fsync of the folder;      *)
(*   - a streaming reservation: the check for the name comes first, the    *)
(*     rest when the writer is finalised;                                  *)
(*   - a JSON reservation: the name is created empty, filled with a        *)
(*     provisional record, and exchanged for the final record later.       *)
(* `dir' is what the processes see, `disk' what a folder's last fsync made *)
(* permanent.  When the machine stops, each name keeps one of the two, and *)
(* a file whose bytes were not flushed may come back incomplete.  Pending  *)
(* files have random names nobody else opens, so they appear only as the   *)
(* bytes their owner is about to publish.  The files are not edited by     *)
(* hand, so the repeated identity and digest checks find what they expect; *)
(* any system call may still fail.                                         *)
(***************************************************************************)
EXTENDS FiniteSets

CONSTANTS
    Actors,         \* processes that call the library
    Names,          \* final names
    Reserved,       \* the names that are used as JSON reservations
    Folders, Folder,\* the folder of each name
    Values,         \* what a complete file may hold
    Provisional,    \* the record a reservation holds until it is finalised
    NoFile

ASSUME ReservedAreNames == Reserved \subseteq Names
ASSUME FolderType == Folder \in [Names -> Folders]
ASSUME ProvisionalIsNoValue == Provisional \notin Values
ASSUME NoFileIsNoValue == NoFile \notin Values

VARIABLES dir, disk, call, reported

fileVars == <<dir, disk, call, reported>>

\* The inode is told apart by its writer and by the record it was made for.
File == [by : Actors, data : Values \cup {Provisional},
         whole : BOOLEAN, flushed : BOOLEAN]
Entry == File \cup {NoFile}

ASSUME NoFileIsNoFile == NoFile \notin File

Resting == {"idle", "done", "refused"}      \* the script decides what comes next
Working == {"rename", "commit", "fill", "hold", "exchange", "settle", "retire"}
Idle == [at |-> "idle", name |-> NoFile, data |-> Provisional]
Call == {Idle} \cup
    [at : {"done", "refused"} \cup Working, name : Names, data : Values \cup {Provisional}]

FilesTypeOK ==
    /\ dir \in [Names -> Entry]
    /\ disk \in [Names -> Entry]
    /\ call \in [Actors -> Call]
    /\ reported \subseteq Names

FilesInit ==
    /\ dir = [n \in Names |-> NoFile]
    /\ disk = [n \in Names |-> NoFile]
    /\ call = [a \in Actors |-> Idle]
    /\ reported = {}

-----------------------------------------------------------------------------
(* Steps of the system calls *)

Free(n) == dir[n] = NoFile
Shows(n, v) == dir[n] # NoFile /\ dir[n].whole /\ dir[n].data = v
Durable(n, v) == disk[n] # NoFile /\ disk[n].whole /\ disk[n].data = v

\* Mutant: the pending file is named before its bytes are flushed.
WrittenUnflushed(a, v) == [by |-> a, data |-> v, whole |-> TRUE, flushed |-> FALSE]

\* The bytes are written to a private file and flushed before it is named.
Written(a, v) == [by |-> a, data |-> v, whole |-> TRUE, flushed |-> TRUE]
\* O_CREAT | O_EXCL on the final name itself: an empty file everybody sees.
Created(a) == [by |-> a, data |-> Provisional, whole |-> FALSE, flushed |-> FALSE]

\* fsync of a folder: every entry of it becomes permanent, not just one.
Synced(f) == [n \in Names |-> IF Folder[n] = f THEN dir[n] ELSE disk[n]]

Goto(a, step) == call' = [call EXCEPT ![a].at = step]
Enter(a, step, n, v) == call' = [call EXCEPT ![a] = [at |-> step, name |-> n, data |-> v]]
Mine(a) == dir[call[a].name] # NoFile /\ dir[call[a].name].by = a

-----------------------------------------------------------------------------
(* publish_bytes_without_overwrite and the streaming reservation *)

Prepare(a, n, v) ==
    /\ call[a].at \in Resting
    /\ Enter(a, IF Free(n) THEN "rename" ELSE "refused", n, v)
    /\ UNCHANGED <<dir, disk, reported>>

ReserveStream(a, n, v) ==
    /\ call[a].at \in Resting
    /\ Enter(a, IF Free(n) THEN "done" ELSE "refused", n, v)
    /\ UNCHANGED <<dir, disk, reported>>

FinalizeStream(a, n, v) ==
    /\ call[a].at \in Resting
    /\ Enter(a, "rename", n, v)
    /\ UNCHANGED <<dir, disk, reported>>

\* Mutant: a plain rename, which replaces whatever is there.
RenameOver(a) ==
    /\ call[a].at = "rename"
    /\ dir' = [dir EXCEPT ![call[a].name] = Written(a, call[a].data)]
    /\ Goto(a, "commit")
    /\ UNCHANGED <<disk, reported>>

\* RENAME_NOREPLACE: an entry that appeared since the check is not replaced.
Rename(a) ==
    /\ call[a].at = "rename"
    /\ IF Free(call[a].name)
       THEN /\ dir' = [dir EXCEPT ![call[a].name] = Written(a, call[a].data)]
            /\ Goto(a, "commit")
       ELSE /\ Goto(a, "refused")
            /\ UNCHANGED dir
    /\ UNCHANGED <<disk, reported>>

\* Mutant: the publication is reported without the fsync of the folder.
CommitUnsynced(a) ==
    /\ call[a].at = "commit"
    /\ reported' = reported \cup {call[a].name}
    /\ Goto(a, "done")
    /\ UNCHANGED <<dir, disk>>

\* fsync of the folder, the last checks, and the return of the receipt.
Commit(a) ==
    /\ call[a].at = "commit"
    /\ disk' = Synced(Folder[call[a].name])
    /\ reported' = reported \cup {call[a].name}
    /\ Goto(a, "done")
    /\ UNCHANGED dir

\* An OSError on the way.  After the rename the entry stays: the file is
\* retained but the publication is never reported.
FailPublish(a) ==
    /\ call[a].at \in {"rename", "commit"}
    /\ Goto(a, "refused")
    /\ UNCHANGED <<dir, disk, reported>>

-----------------------------------------------------------------------------
(* reserve_json_artifact and ReservedJsonArtifact.finalize *)

\* Mutant: the final name is opened without O_EXCL.
ReserveJsonShared(a, n) ==
    /\ call[a].at \in Resting
    /\ dir' = [dir EXCEPT ![n] = Created(a)]
    /\ Enter(a, "fill", n, Provisional)
    /\ UNCHANGED <<disk, reported>>

ReserveJson(a, n) ==
    /\ call[a].at \in Resting
    /\ IF Free(n)
       THEN /\ dir' = [dir EXCEPT ![n] = Created(a)]
            /\ Enter(a, "fill", n, Provisional)
       ELSE /\ Enter(a, "refused", n, Provisional)
            /\ UNCHANGED dir
    /\ UNCHANGED <<disk, reported>>

Fill(a) ==
    /\ call[a].at = "fill"
    /\ dir' = [dir EXCEPT ![call[a].name] = Written(a, Provisional)]
    /\ disk' = [disk EXCEPT ![call[a].name] =
                   IF @ # NoFile /\ @.by = a THEN Written(a, Provisional) ELSE @]
    /\ Goto(a, "hold")
    /\ UNCHANGED reported

Hold(a) ==
    /\ call[a].at = "hold"
    /\ disk' = Synced(Folder[call[a].name])
    /\ Goto(a, "done")
    /\ UNCHANGED <<dir, reported>>

\* A reservation that fails takes its own entry away again.
FailReserve(a) ==
    /\ call[a].at \in {"fill", "hold"}
    /\ dir' = [dir EXCEPT ![call[a].name] = IF Mine(a) THEN NoFile ELSE @]
    /\ Goto(a, "refused")
    /\ UNCHANGED <<disk, reported>>

FinalizeJson(a, n, v) ==
    /\ call[a].at \in Resting
    /\ Enter(a, IF Shows(n, Provisional) /\ dir[n].by = a THEN "exchange" ELSE "refused", n, v)
    /\ UNCHANGED <<dir, disk, reported>>

Exchange(a) ==
    /\ call[a].at = "exchange"
    /\ dir' = [dir EXCEPT ![call[a].name] = Written(a, call[a].data)]
    /\ Goto(a, "settle")
    /\ UNCHANGED <<disk, reported>>

Settle(a) ==
    /\ call[a].at = "settle"
    /\ disk' = Synced(Folder[call[a].name])
    /\ Goto(a, "retire")
    /\ UNCHANGED <<dir, reported>>

Retire(a) ==
    /\ call[a].at = "retire"
    /\ reported' = reported \cup {call[a].name}
    /\ Goto(a, "done")
    /\ UNCHANGED <<dir, disk>>

\* A failure after the exchange swaps the reservation back, unless the second
\* exchange fails too: that error is suppressed and the final record stays.
FailFinalize(a) ==
    /\ call[a].at \in {"exchange", "settle", "retire"}
    /\ \/ UNCHANGED dir
       \/ dir' = [dir EXCEPT ![call[a].name] = Written(a, Provisional)]
    /\ Goto(a, "refused")
    /\ UNCHANGED <<disk, reported>>

-----------------------------------------------------------------------------
(* Crashes *)

\* The process is killed; the kernel keeps what it has seen.
Abandon(a) ==
    /\ call' = [call EXCEPT ![a] = Idle]
    /\ UNCHANGED <<dir, disk, reported>>

\* A file whose bytes never reached the disk may come back incomplete.
Unflushed(e) == e # NoFile /\ ~e.flushed
Recovered(e, torn) ==
    IF e = NoFile THEN e ELSE [e EXCEPT !.whole = @ /\ ~torn, !.flushed = TRUE]

\* Every name keeps what the processes saw or what the last fsync of its
\* folder made permanent; no process survives.
MachineStops ==
    /\ \E kept \in SUBSET {n \in Names : dir[n] # disk[n]},
          torn \in SUBSET {n \in Names : Unflushed(dir[n]) \/ Unflushed(disk[n])} :
         dir' = [n \in Names |->
                    LET e == IF n \in kept THEN dir[n] ELSE disk[n]
                    IN  Recovered(e, n \in torn /\ Unflushed(e))]
    /\ disk' = dir'
    /\ call' = [a \in Actors |-> Idle]
    /\ UNCHANGED reported

-----------------------------------------------------------------------------
(* Callers that use the library in any order *)

FilesStep(a) ==
    \/ \E n \in Names \ Reserved, v \in Values :
          Prepare(a, n, v) \/ ReserveStream(a, n, v) \/ FinalizeStream(a, n, v)
    \/ \E n \in Reserved : ReserveJson(a, n) \/ \E v \in Values : FinalizeJson(a, n, v)
    \/ Rename(a) \/ Commit(a) \/ FailPublish(a)
    \/ Fill(a) \/ Hold(a) \/ FailReserve(a)
    \/ Exchange(a) \/ Settle(a) \/ Retire(a) \/ FailFinalize(a)
    \/ Abandon(a)

FilesNext == MachineStops \/ \E a \in Actors : FilesStep(a)

FilesSpec == FilesInit /\ [][FilesNext]_fileVars

-----------------------------------------------------------------------------
(* Refinement *)

CONSTANT Absent, Torn
ASSUME AbsentIsNoValue == Absent \notin Values
ASSUME TornIsNoValue == Torn \notin Values /\ Torn # Absent

Published == Names \ Reserved
Shown(n) == IF dir[n] = NoFile THEN Absent ELSE IF dir[n].whole THEN dir[n].data ELSE Torn

Once == INSTANCE WriteOnce WITH
    Names <- Published,
    shown <- [n \in Published |-> Shown(n)],
    promised <- reported \cap Published

\* A published name shows nothing or complete bytes, never changes once it
\* shows something, and survives every crash once the call has returned.
ImplementsWriteOnce == Once!Spec
=============================================================================
