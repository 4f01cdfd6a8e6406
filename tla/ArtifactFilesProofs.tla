------------------------ MODULE ArtifactFilesProofs ------------------------
(***************************************************************************)
(* Proofs about ArtifactFiles, for any processes, names, folders and       *)
(* values, and callers that use the library in any order: the library      *)
(* implements the write-once register of WriteOnce.                        *)
(***************************************************************************)
EXTENDS ArtifactFiles, TLAPS

\* What a published name may lead to.
Sealed == {f \in File : f.whole /\ f.flushed /\ f.data \in Values}

\* A published name leads to nothing or to a sealed file, and the last fsync
\* of its folder knows the same file or none.
SealedFiles ==
    \A n \in Published : /\ dir[n] \in Sealed \cup {NoFile}
                         /\ disk[n] \in {NoFile, dir[n]}

\* What was reported is permanent.
ReportedFiles ==
    \A n \in Published \cap reported : dir[n] # NoFile /\ disk[n] = dir[n]

\* A call works on a name of its own kind; between rename and fsync the name
\* leads to a file.
CallsInPlace ==
    \A a \in Actors :
        /\ call[a].at = "rename" => call[a].name \in Published /\ call[a].data \in Values
        /\ call[a].at = "commit" => call[a].name \in Published /\ dir[call[a].name] # NoFile
        /\ call[a].at \in {"fill", "hold", "exchange", "settle", "retire"}
              => call[a].name \in Reserved

FInv == FilesTypeOK /\ SealedFiles /\ ReportedFiles /\ CallsInPlace

-----------------------------------------------------------------------------

LEMMA CallFields ==
    ASSUME NEW a \in Actors, FilesTypeOK
    PROVE  /\ call[a].at \in Resting \cup Working
           /\ call[a].data \in Values \cup {Provisional}
           /\ call[a] # Idle => call[a].name \in Names
           /\ call[a].at = "idle" <=> call[a] = Idle
BY DEF FilesTypeOK, Call, Idle, Working, Resting

LEMMA WrittenIsFile ==
    ASSUME NEW a \in Actors, NEW v \in Values \cup {Provisional}
    PROVE  /\ Written(a, v) \in File
           /\ Written(a, v).data = v
           /\ v \in Values => Written(a, v) \in Sealed
           /\ Created(a) \in File
BY DEF Written, Created, File, Sealed

\* Entering a call, and moving on inside it.
LEMMA Entered ==
    ASSUME NEW a \in Actors, NEW n \in Names, NEW v \in Values \cup {Provisional},
           NEW s \in {"done", "refused"} \cup Working, FilesTypeOK, Enter(a, s, n, v)
    PROVE  /\ call' \in [Actors -> Call]
           /\ call'[a].at = s /\ call'[a].name = n /\ call'[a].data = v
           /\ \A b \in Actors \ {a} : call'[b] = call[b]
BY DEF Enter, FilesTypeOK, Call

LEMMA Moved ==
    ASSUME NEW a \in Actors, NEW s \in {"done", "refused"} \cup Working,
           FilesTypeOK, call[a].at \in Working, Goto(a, s)
    PROVE  /\ call' \in [Actors -> Call]
           /\ call'[a].at = s /\ call'[a].name = call[a].name /\ call'[a].data = call[a].data
           /\ \A b \in Actors \ {a} : call'[b] = call[b]
           /\ call[a].name \in Names
<1>1. call[a] \in [at : {"done", "refused"} \cup Working, name : Names,
                   data : Values \cup {Provisional}]
  BY DEF FilesTypeOK, Call, Idle, Working
<1>2. call'[a] = [call[a] EXCEPT !.at = s]
  BY DEF Goto, FilesTypeOK
<1>3. \A b \in Actors \ {a} : call'[b] = call[b]
  BY DEF Goto, FilesTypeOK
<1>4. call'[a] \in Call
  BY <1>1, <1>2 DEF Call
<1>5. call' \in [Actors -> Call]
  BY <1>3, <1>4 DEF Goto, FilesTypeOK
<1> QED BY <1>1, <1>2, <1>3, <1>5

\* A call that makes no system call yet.
LEMMA EnteringKeeps ==
    ASSUME NEW a \in Actors, NEW n \in Names, NEW v \in Values \cup {Provisional},
           NEW s \in {"done", "refused"} \cup Working, FInv, Enter(a, s, n, v),
           UNCHANGED <<dir, disk, reported>>,
           s \notin {"commit", "fill", "hold", "settle", "retire"},
           s = "rename" => n \in Published /\ v \in Values,
           s = "exchange" => n \in Reserved
    PROVE  FInv'
<1>1. FilesTypeOK /\ SealedFiles /\ ReportedFiles /\ CallsInPlace
  BY DEF FInv
<1>2. FilesTypeOK'
  BY <1>1, Entered DEF FilesTypeOK
<1>3. SealedFiles' /\ ReportedFiles'
  BY <1>1 DEF SealedFiles, ReportedFiles
<1>4. CallsInPlace'
  BY <1>1, Entered DEF CallsInPlace
<1> QED BY <1>2, <1>3, <1>4 DEF FInv

\* A call that gives up, or goes on without touching a name.
LEMMA MovingKeeps ==
    ASSUME NEW a \in Actors, NEW s \in {"done", "refused"},
           FInv, call[a].at \in Working, Goto(a, s), UNCHANGED <<dir, disk, reported>>
    PROVE  FInv'
<1>1. FilesTypeOK /\ SealedFiles /\ ReportedFiles /\ CallsInPlace
  BY DEF FInv
<1>2. FilesTypeOK'
  BY <1>1, Moved DEF FilesTypeOK
<1>3. SealedFiles' /\ ReportedFiles'
  BY <1>1 DEF SealedFiles, ReportedFiles
<1>4. CallsInPlace'
  BY <1>1, Moved DEF CallsInPlace
<1> QED BY <1>2, <1>3, <1>4 DEF FInv

\* A step that changes a reserved name, as every step of a reservation does.
LEMMA ReservedKeeps ==
    ASSUME NEW a \in Actors, NEW n \in Reserved, FInv, FilesTypeOK',
           \A m \in Published : dir'[m] = dir[m] /\ disk'[m] \in {disk[m], dir[m]},
           reported' \in {reported, reported \cup {n}},
           call'[a].at \notin {"rename", "commit"},
           call'[a].at \in Working => call'[a].name \in Reserved,
           \A b \in Actors \ {a} : call'[b] = call[b]
    PROVE  FInv'
<1>1. FilesTypeOK /\ SealedFiles /\ ReportedFiles /\ CallsInPlace
  BY DEF FInv
<1>2. SealedFiles'
  BY <1>1 DEF SealedFiles
<1>3. ReportedFiles'
  BY <1>1 DEF ReportedFiles, Published
<1>4. CallsInPlace'
  <2> SUFFICES ASSUME NEW b \in Actors
               PROVE  /\ call'[b].at = "rename" => call'[b].name \in Published /\ call'[b].data \in Values
                      /\ call'[b].at = "commit" => call'[b].name \in Published /\ dir'[call'[b].name] # NoFile
                      /\ call'[b].at \in {"fill", "hold", "exchange", "settle", "retire"}
                            => call'[b].name \in Reserved
    BY DEF CallsInPlace
  <2>1. CASE b = a
    BY <2>1 DEF Working
  <2>2. CASE b # a
    BY <2>2, <1>1 DEF CallsInPlace
  <2> QED BY <2>1, <2>2
<1> QED BY <1>2, <1>3, <1>4 DEF FInv

LEMMA RenameKeeps == ASSUME FInv, NEW a \in Actors, Rename(a) PROVE FInv'
<1> DEFINE n == call[a].name
<1>1. FilesTypeOK /\ SealedFiles /\ ReportedFiles /\ CallsInPlace
  BY DEF FInv
<1>2. n \in Published /\ n \in Names /\ call[a].data \in Values
  BY <1>1 DEF Rename, CallsInPlace, Published
<1>3. CASE ~Free(n)
  BY <1>3, MovingKeeps DEF Rename, Working
<1>4. CASE Free(n)
  <2>1. /\ Goto(a, "commit") /\ UNCHANGED <<disk, reported>>
        /\ dir' = [dir EXCEPT ![n] = Written(a, call[a].data)]
        /\ dir[n] = NoFile /\ call[a].at = "rename"
    BY <1>4 DEF Rename, Free
  <2>2. Written(a, call[a].data) \in Sealed /\ Written(a, call[a].data) # NoFile
        /\ Written(a, call[a].data) \in File
    BY <1>2, WrittenIsFile, NoFileIsNoFile
  <2>3. /\ call' \in [Actors -> Call]
        /\ call'[a].at = "commit" /\ call'[a].name = n
        /\ \A b \in Actors \ {a} : call'[b] = call[b]
    BY <2>1, <1>1, Moved DEF Working
  <2>4. /\ dir'[n] = Written(a, call[a].data)
        /\ \A m \in Names \ {n} : dir'[m] = dir[m]
        /\ dir' \in [Names -> Entry]
    BY <2>1, <2>2, <1>1, <1>2 DEF FilesTypeOK, Entry
  <2>5. FilesTypeOK'
    BY <2>1, <2>3, <2>4, <1>1 DEF FilesTypeOK
  <2>6. SealedFiles'
    BY <1>1, <2>1, <2>2, <2>4 DEF SealedFiles, Published
  <2>7. ReportedFiles'
    BY <1>1, <2>1, <2>4 DEF ReportedFiles, Published
  <2>8. CallsInPlace'
    BY <1>1, <1>2, <2>2, <2>3, <2>4 DEF CallsInPlace, Published
  <2> QED BY <2>5, <2>6, <2>7, <2>8 DEF FInv
<1> QED BY <1>3, <1>4

LEMMA CommitKeeps == ASSUME FInv, NEW a \in Actors, Commit(a) PROVE FInv'
<1> DEFINE n == call[a].name
<1>1. FilesTypeOK /\ SealedFiles /\ ReportedFiles /\ CallsInPlace
  BY DEF FInv
<1>2. n \in Published /\ n \in Names /\ dir[n] # NoFile
  BY <1>1 DEF Commit, CallsInPlace, Published
<1>3. /\ call' \in [Actors -> Call]
      /\ call'[a].at = "done"
      /\ \A b \in Actors \ {a} : call'[b] = call[b]
  BY <1>1, Moved DEF Commit, Working
<1>4. /\ disk' \in [Names -> Entry] /\ disk'[n] = dir[n]
      /\ \A m \in Names : disk'[m] \in {disk[m], dir[m]}
  BY <1>1, <1>2 DEF Commit, Synced, FilesTypeOK
<1>5. FilesTypeOK'
  BY <1>1, <1>2, <1>3, <1>4 DEF FilesTypeOK, Commit
<1>6. SealedFiles'
  BY <1>1, <1>4 DEF SealedFiles, Commit, Published
<1>7. ReportedFiles'
  BY <1>1, <1>2, <1>4 DEF ReportedFiles, Commit, Published
<1>8. CallsInPlace'
  BY <1>1, <1>3 DEF CallsInPlace, Commit
<1> QED BY <1>5, <1>6, <1>7, <1>8 DEF FInv

\* The steps of a JSON reservation change reserved names only.
LEMMA ReservationKeeps ==
    ASSUME FInv, NEW a \in Actors,
           \/ \E n \in Reserved : ReserveJson(a, n)
           \/ Fill(a) \/ Hold(a) \/ FailReserve(a)
    PROVE  FInv'
<1>1. FilesTypeOK /\ SealedFiles /\ ReportedFiles /\ CallsInPlace
  BY DEF FInv
<1>2. ASSUME NEW n \in Reserved, ReserveJson(a, n) PROVE FInv'
  <2>1. n \in Names /\ Provisional \in Values \cup {Provisional}
    BY ReservedAreNames
  <2>2. CASE ~Free(n)
    BY <1>2, <2>1, <2>2, EnteringKeeps DEF ReserveJson
  <2>3. CASE Free(n)
    <3>1. /\ call' \in [Actors -> Call]
          /\ call'[a].at = "fill" /\ call'[a].name = n
          /\ \A b \in Actors \ {a} : call'[b] = call[b]
      BY <1>1, <1>2, <2>1, <2>3, Entered DEF ReserveJson, Working
    <3>2. dir' \in [Names -> Entry] /\ (\A m \in Published : dir'[m] = dir[m])
      BY <1>1, <1>2, <2>1, <2>3, WrittenIsFile DEF ReserveJson, FilesTypeOK, Published, Entry
    <3>3. FilesTypeOK'
      BY <1>1, <1>2, <3>1, <3>2 DEF ReserveJson, FilesTypeOK
    <3> QED BY <1>2, <3>1, <3>2, <3>3, ReservedKeeps DEF ReserveJson
  <2> QED BY <2>2, <2>3
<1> DEFINE n == call[a].name
<1>3. ASSUME Fill(a) \/ Hold(a) \/ FailReserve(a)
      PROVE  n \in Reserved /\ n \in Names /\ call[a].at \in {"fill", "hold"} /\ call[a].at \in Working
  BY <1>1, <1>3, ReservedAreNames DEF CallsInPlace, Fill, Hold, FailReserve, Working
<1>4. CASE Fill(a)
  <2>1. /\ call' \in [Actors -> Call]
        /\ call'[a].at = "hold" /\ call'[a].name = n
        /\ \A b \in Actors \ {a} : call'[b] = call[b]
    BY <1>1, <1>3, <1>4, Moved DEF Fill, Working
  <2>2. dir' \in [Names -> Entry] /\ (\A m \in Published : dir'[m] = dir[m])
    BY <1>1, <1>3, <1>4, WrittenIsFile DEF Fill, FilesTypeOK, Published, Entry
  <2>3. disk' \in [Names -> Entry] /\ (\A m \in Published : disk'[m] = disk[m])
    BY <1>1, <1>3, <1>4, WrittenIsFile DEF Fill, FilesTypeOK, Published, Entry
  <2>4. FilesTypeOK'
    BY <1>1, <1>4, <2>1, <2>2, <2>3 DEF Fill, FilesTypeOK
  <2> QED BY <1>3, <1>4, <2>1, <2>2, <2>3, <2>4, ReservedKeeps DEF Fill
<1>5. CASE Hold(a)
  <2>1. /\ call' \in [Actors -> Call]
        /\ call'[a].at = "done"
        /\ \A b \in Actors \ {a} : call'[b] = call[b]
    BY <1>1, <1>3, <1>5, Moved DEF Hold
  <2>2. disk' \in [Names -> Entry] /\ (\A m \in Names : disk'[m] \in {disk[m], dir[m]})
    BY <1>1, <1>5 DEF Hold, Synced, FilesTypeOK
  <2>3. FilesTypeOK'
    BY <1>1, <1>5, <2>1, <2>2 DEF Hold, FilesTypeOK
  <2> QED BY <1>3, <1>5, <2>1, <2>2, <2>3, ReservedKeeps DEF Hold, Published, Working
<1>6. CASE FailReserve(a)
  <2>1. /\ call' \in [Actors -> Call]
        /\ call'[a].at = "refused"
        /\ \A b \in Actors \ {a} : call'[b] = call[b]
    BY <1>1, <1>3, <1>6, Moved DEF FailReserve
  <2>2. dir' \in [Names -> Entry] /\ (\A m \in Published : dir'[m] = dir[m])
    BY <1>1, <1>3, <1>6 DEF FailReserve, FilesTypeOK, Published, Entry
  <2>3. FilesTypeOK'
    BY <1>1, <1>6, <2>1, <2>2 DEF FailReserve, FilesTypeOK
  <2> QED BY <1>3, <1>6, <2>1, <2>2, <2>3, ReservedKeeps DEF FailReserve, Working
<1> QED BY <1>2, <1>4, <1>5, <1>6

LEMMA FinalizationKeeps ==
    ASSUME FInv, NEW a \in Actors,
           \/ \E n \in Reserved, v \in Values : FinalizeJson(a, n, v)
           \/ Exchange(a) \/ Settle(a) \/ Retire(a) \/ FailFinalize(a)
    PROVE  FInv'
<1>1. FilesTypeOK /\ SealedFiles /\ ReportedFiles /\ CallsInPlace
  BY DEF FInv
<1>2. ASSUME NEW n \in Reserved, NEW v \in Values, FinalizeJson(a, n, v) PROVE FInv'
  <2>1. n \in Names
    BY ReservedAreNames
  <2>2. PICK s \in {"exchange", "refused"} : Enter(a, s, n, v)
    BY <1>2 DEF FinalizeJson
  <2> QED BY <1>2, <2>1, <2>2, EnteringKeeps DEF FinalizeJson, Working
<1> DEFINE n == call[a].name
<1>3. ASSUME Exchange(a) \/ Settle(a) \/ Retire(a) \/ FailFinalize(a)
      PROVE  /\ n \in Reserved /\ n \in Names /\ call[a].at \in Working
             /\ call[a].data \in Values \cup {Provisional}
  BY <1>1, <1>3, ReservedAreNames, CallFields
  DEF CallsInPlace, Exchange, Settle, Retire, FailFinalize, Working
<1>4. CASE Exchange(a)
  <2>1. /\ call' \in [Actors -> Call]
        /\ call'[a].at = "settle" /\ call'[a].name = n
        /\ \A b \in Actors \ {a} : call'[b] = call[b]
    BY <1>1, <1>3, <1>4, Moved DEF Exchange, Working
  <2>2. dir' \in [Names -> Entry] /\ (\A m \in Published : dir'[m] = dir[m])
    BY <1>1, <1>3, <1>4, WrittenIsFile DEF Exchange, FilesTypeOK, Published, Entry
  <2>3. FilesTypeOK'
    BY <1>1, <1>4, <2>1, <2>2 DEF Exchange, FilesTypeOK
  <2> QED BY <1>3, <1>4, <2>1, <2>2, <2>3, ReservedKeeps DEF Exchange
<1>5. CASE Settle(a)
  <2>1. /\ call' \in [Actors -> Call]
        /\ call'[a].at = "retire" /\ call'[a].name = n
        /\ \A b \in Actors \ {a} : call'[b] = call[b]
    BY <1>1, <1>3, <1>5, Moved DEF Settle, Working
  <2>2. disk' \in [Names -> Entry] /\ (\A m \in Names : disk'[m] \in {disk[m], dir[m]})
    BY <1>1, <1>5 DEF Settle, Synced, FilesTypeOK
  <2>3. FilesTypeOK'
    BY <1>1, <1>5, <2>1, <2>2 DEF Settle, FilesTypeOK
  <2> QED BY <1>3, <1>5, <2>1, <2>2, <2>3, ReservedKeeps DEF Settle, Published
<1>6. CASE Retire(a)
  <2>1. /\ call' \in [Actors -> Call]
        /\ call'[a].at = "done"
        /\ \A b \in Actors \ {a} : call'[b] = call[b]
    BY <1>1, <1>3, <1>6, Moved DEF Retire
  <2>2. FilesTypeOK'
    BY <1>1, <1>3, <1>6, <2>1 DEF Retire, FilesTypeOK
  <2> QED BY <1>3, <1>6, <2>1, <2>2, ReservedKeeps DEF Retire, Working
<1>7. CASE FailFinalize(a)
  <2>1. /\ call' \in [Actors -> Call]
        /\ call'[a].at = "refused"
        /\ \A b \in Actors \ {a} : call'[b] = call[b]
    BY <1>1, <1>3, <1>7, Moved DEF FailFinalize
  <2>2. dir' \in [Names -> Entry] /\ (\A m \in Published : dir'[m] = dir[m])
    BY <1>1, <1>3, <1>7, WrittenIsFile DEF FailFinalize, FilesTypeOK, Published, Entry
  <2>3. FilesTypeOK'
    BY <1>1, <1>7, <2>1, <2>2 DEF FailFinalize, FilesTypeOK
  <2> QED BY <1>3, <1>7, <2>1, <2>2, <2>3, ReservedKeeps DEF FailFinalize, Working
<1> QED BY <1>2, <1>4, <1>5, <1>6, <1>7

\* When the machine stops, a published name keeps what it had or loses it.
LEMMA StopShows ==
    ASSUME FInv, MachineStops, NEW n \in Published
    PROVE  dir'[n] \in {dir[n], disk[n]} /\ disk'[n] = dir'[n]
<1>1. n \in Names /\ dir[n] \in Sealed \cup {NoFile} /\ disk[n] \in {NoFile, dir[n]}
  BY DEF FInv, SealedFiles, Published
<1>2. \A e \in Sealed \cup {NoFile} : Recovered(e, FALSE) = e
  <2>1. \A e \in Sealed : [e EXCEPT !.whole = @ /\ ~FALSE, !.flushed = TRUE] = e
    BY DEF Sealed, File
  <2> QED BY <2>1 DEF Recovered
<1>3. ~Unflushed(dir[n]) /\ ~Unflushed(disk[n])
  BY <1>1 DEF Unflushed, Sealed
<1>4. PICK kept \in SUBSET {m \in Names : dir[m] # disk[m]},
           torn \in SUBSET {m \in Names : Unflushed(dir[m]) \/ Unflushed(disk[m])} :
         dir' = [m \in Names |->
                    LET e == IF m \in kept THEN dir[m] ELSE disk[m]
                    IN  Recovered(e, m \in torn /\ Unflushed(e))]
  BY DEF MachineStops
<1> DEFINE e == IF n \in kept THEN dir[n] ELSE disk[n]
<1>5. dir'[n] = Recovered(e, n \in torn /\ Unflushed(e))
  BY <1>1, <1>4
<1>6. n \notin torn
  BY <1>3
<1>7. dir'[n] = Recovered(e, FALSE)
  BY <1>5, <1>6
<1>8. dir'[n] = e
  BY <1>1, <1>2, <1>7
<1> QED BY <1>8 DEF MachineStops

LEMMA StopKeeps == ASSUME FInv, MachineStops PROVE FInv'
<1>1. FilesTypeOK /\ SealedFiles /\ ReportedFiles
  BY DEF FInv
<1>2. dir' \in [Names -> Entry]
  <2>1. \A e \in Entry, t \in BOOLEAN : Recovered(e, t) \in Entry
    BY DEF Recovered, Entry, File
  <2>2. \A m \in Names : dir[m] \in Entry /\ disk[m] \in Entry
    BY <1>1 DEF FilesTypeOK
  <2>3. PICK kept \in SUBSET {m \in Names : dir[m] # disk[m]},
             torn \in SUBSET {m \in Names : Unflushed(dir[m]) \/ Unflushed(disk[m])} :
           dir' = [m \in Names |->
                      LET e == IF m \in kept THEN dir[m] ELSE disk[m]
                      IN  Recovered(e, m \in torn /\ Unflushed(e))]
    BY DEF MachineStops
  <2>4. \A m \in Names : LET e == IF m \in kept THEN dir[m] ELSE disk[m]
                         IN  Recovered(e, m \in torn /\ Unflushed(e)) \in Entry
    BY <2>1, <2>2
  <2> QED BY <2>3, <2>4
<1>3. call' \in [Actors -> Call] /\ (\A a \in Actors : call'[a].at = "idle")
  BY DEF MachineStops, Call, Idle
<1>4. FilesTypeOK'
  BY <1>1, <1>2, <1>3 DEF FilesTypeOK, MachineStops
<1>5. SealedFiles'
  BY <1>1, StopShows DEF SealedFiles
<1>6. ReportedFiles'
  BY <1>1, StopShows DEF ReportedFiles, MachineStops
<1>7. CallsInPlace'
  BY <1>3 DEF CallsInPlace
<1> QED BY <1>4, <1>5, <1>6, <1>7 DEF FInv

\* Every step of the library, in whatever order its callers use it.
LEMMA StepKeeps == ASSUME FInv, NEW a \in Actors, FilesStep(a) PROVE FInv'
<1>1. FilesTypeOK /\ CallsInPlace
  BY DEF FInv
<1>2. ASSUME NEW n \in Names \ Reserved, NEW v \in Values,
             Prepare(a, n, v) \/ ReserveStream(a, n, v) \/ FinalizeStream(a, n, v)
      PROVE  FInv'
  <2>1. PICK s \in {"rename", "done", "refused"} : Enter(a, s, n, v)
    BY <1>2 DEF Prepare, ReserveStream, FinalizeStream
  <2> QED BY <1>2, <2>1, EnteringKeeps
          DEF Prepare, ReserveStream, FinalizeStream, Published, Working
<1>3. CASE FailPublish(a)
  BY <1>3, MovingKeeps DEF FailPublish, Working
<1>4. CASE Abandon(a)
  <2>1. FilesTypeOK'
    BY <1>1, <1>4 DEF Abandon, FilesTypeOK, Call
  <2>2. CallsInPlace'
    BY <1>1, <1>4 DEF Abandon, CallsInPlace, FilesTypeOK, Idle
  <2> QED BY <2>1, <2>2, <1>4 DEF FInv, Abandon, SealedFiles, ReportedFiles
<1> QED BY <1>2, <1>3, <1>4, RenameKeeps, CommitKeeps, ReservationKeeps, FinalizationKeeps
        DEF FilesStep

LEMMA FilesInvariant == FilesSpec => []FInv
<1>1. FilesInit => FInv
  BY DEF FilesInit, FInv, FilesTypeOK, SealedFiles, ReportedFiles, CallsInPlace,
         Entry, Call, Idle, Published
<1>2. FInv /\ [FilesNext]_fileVars => FInv'
  <2>1. CASE UNCHANGED fileVars
    BY <2>1 DEF fileVars, FInv, FilesTypeOK, SealedFiles, ReportedFiles, CallsInPlace
  <2> QED BY <2>1, StepKeeps, StopKeeps DEF FilesNext
<1> QED BY <1>1, <1>2, PTL DEF FilesSpec

-----------------------------------------------------------------------------
(* The theorems                                                            *)

\* Every reachable state of the library's files is well typed.
THEOREM FilesTypeCorrect == FilesSpec => []FilesTypeOK
BY FilesInvariant, PTL DEF FInv

\* Only a rename and a stop of the machine change what a published name shows,
\* and only a commit reports one.
LEMMA OnlyRenameShows ==
    ASSUME FInv, NEW a \in Actors, FilesStep(a)
    PROVE  \/ /\ \A n \in Published : dir'[n] = dir[n]
              /\ reported' \cap Published = reported \cap Published
           \/ Rename(a) /\ Free(call[a].name)
           \/ Commit(a)
<1>1. FilesTypeOK /\ CallsInPlace
  BY DEF FInv
<1>2. ASSUME NEW n \in Reserved, ReserveJson(a, n)
      PROVE  (\A m \in Published : dir'[m] = dir[m]) /\ reported' = reported
  BY <1>1, <1>2, ReservedAreNames DEF ReserveJson, Published, FilesTypeOK
<1>3. CASE Fill(a) \/ Hold(a) \/ FailReserve(a) \/ Exchange(a) \/ Settle(a) \/ FailFinalize(a)
  <2>1. call[a].name \in Reserved
    BY <1>1, <1>3 DEF CallsInPlace, Fill, Hold, FailReserve, Exchange, Settle, FailFinalize
  <2> QED BY <2>1, <1>1, <1>3
          DEF Fill, Hold, FailReserve, Exchange, Settle, FailFinalize, Published, FilesTypeOK
<1>4. CASE Retire(a)
  <2>1. call[a].name \in Reserved
    BY <1>1, <1>4 DEF CallsInPlace, Retire
  <2> QED BY <2>1, <1>4 DEF Retire, Published
<1>5. CASE Rename(a) /\ ~Free(call[a].name)
  BY <1>5 DEF Rename
<1>6. ASSUME NEW n \in Names, NEW v \in Values,
             Prepare(a, n, v) \/ ReserveStream(a, n, v) \/ FinalizeStream(a, n, v) \/ FinalizeJson(a, n, v)
      PROVE  dir' = dir /\ reported' = reported
  BY <1>6 DEF Prepare, ReserveStream, FinalizeStream, FinalizeJson
<1>7. CASE FailPublish(a) \/ Abandon(a)
  BY <1>7 DEF FailPublish, Abandon
<1> QED BY <1>2, <1>3, <1>4, <1>5, <1>6, <1>7, ReservedAreNames DEF FilesStep

LEMMA StepImplements ==
    ASSUME FInv, [FilesNext]_fileVars
    PROVE  [Once!Next]_<<[n \in Published |-> Shown(n)], reported \cap Published>>
<1> DEFINE shown == [n \in Published |-> Shown(n)]
           promised == reported \cap Published
<1>1. FilesTypeOK /\ SealedFiles /\ ReportedFiles /\ CallsInPlace
  BY DEF FInv
<1>2. \A n \in Published : Shown(n) = IF dir[n] = NoFile THEN Absent ELSE dir[n].data
  BY <1>1 DEF Shown, SealedFiles, Sealed
<1>3. FInv'
  BY StepKeeps, StopKeeps DEF FilesNext, fileVars, FInv, FilesTypeOK, SealedFiles, ReportedFiles, CallsInPlace
<1>4. \A n \in Published : Shown(n)' = IF dir'[n] = NoFile THEN Absent ELSE dir'[n].data
  BY <1>3 DEF Shown, FInv, SealedFiles, Sealed
<1>5. \A n \in Published : shown'[n] = Shown(n)'
  OBVIOUS
<1>6. ASSUME \A n \in Published : dir'[n] = dir[n],
             reported' \cap Published = reported \cap Published
      PROVE  UNCHANGED <<shown, promised>>
  BY <1>2, <1>4, <1>6
<1>7. ASSUME NEW a \in Actors, Rename(a), Free(call[a].name) PROVE Once!Next
  <2> DEFINE m == call[a].name
             v == call[a].data
  <2>1. m \in Published /\ v \in Values
    BY <1>1, <1>7 DEF Rename, CallsInPlace
  <2>2. /\ dir'[m] = Written(a, v) /\ dir[m] = NoFile
        /\ \A n \in Published \ {m} : dir'[n] = dir[n]
        /\ reported' = reported
    BY <1>1, <1>7, <2>1 DEF Rename, Free, FilesTypeOK, Published
  <2>3. Written(a, v) # NoFile /\ Written(a, v).data = v
    BY <2>1, WrittenIsFile, NoFileIsNoFile
  <2>4. shown[m] = Absent /\ shown'[m] = v /\ v # Absent
    BY <1>2, <1>4, <2>1, <2>2, <2>3, AbsentIsNoValue
  <2>5. shown' = [shown EXCEPT ![m] = v]
    <3>1. \A n \in Published : shown'[n] = [shown EXCEPT ![m] = v][n]
      BY <1>2, <1>4, <2>2, <2>4
    <3> QED BY <3>1
  <2>6. Once!Publish(m)
    BY <2>1, <2>2, <2>4, <2>5 DEF Once!Publish
  <2> QED BY <2>1, <2>6 DEF Once!Next
<1>8. ASSUME NEW a \in Actors, Commit(a) PROVE Once!Next
  <2> DEFINE m == call[a].name
  <2>1. m \in Published /\ dir[m] # NoFile
    BY <1>1, <1>8 DEF Commit, CallsInPlace
  <2>2. shown[m] # Absent
    BY <1>1, <1>2, <2>1, AbsentIsNoValue DEF SealedFiles, Sealed
  <2>3. dir' = dir /\ promised' = promised \cup {m}
    BY <1>8, <2>1 DEF Commit
  <2>4. shown' = shown
    BY <1>2, <1>4, <2>3
  <2>5. Once!Promise(m)
    BY <2>2, <2>3, <2>4 DEF Once!Promise
  <2> QED BY <2>1, <2>5 DEF Once!Next
<1>9. ASSUME MachineStops PROVE Once!Next
  <2>1. promised' = promised
    BY <1>9 DEF MachineStops
  <2>2. \A n \in Published : dir'[n] \in {dir[n], disk[n]}
    BY <1>9, StopShows
  <2>3. \A n \in Published : /\ shown'[n] \in Values \cup {Absent}
                             /\ shown'[n] = shown[n] \/ (shown'[n] = Absent /\ n \notin promised)
    BY <1>1, <1>2, <1>4, <2>2 DEF SealedFiles, ReportedFiles, Sealed
  <2>4. shown' \in [Published -> Values \cup {Absent}]
    BY <2>3
  <2> QED BY <2>1, <2>3, <2>4 DEF Once!Next, Once!Lose
<1>10. CASE UNCHANGED fileVars
  BY <1>6, <1>10 DEF fileVars
<1>11. ASSUME NEW a \in Actors, FilesStep(a)
       PROVE  Once!Next \/ UNCHANGED <<shown, promised>>
  <2>1. CASE Rename(a) /\ Free(call[a].name)
    BY <1>7, <2>1
  <2>2. CASE Commit(a)
    BY <1>8, <2>2
  <2>3. CASE (\A n \in Published : dir'[n] = dir[n])
             /\ reported' \cap Published = reported \cap Published
    BY <1>6, <2>3
  <2> QED BY <1>11, <2>1, <2>2, <2>3, OnlyRenameShows
<1> QED BY <1>9, <1>10, <1>11 DEF FilesNext

\* The library implements the write-once register: renames are Publish, commits
\* are Promise, a stop of the machine is Lose, all else is a stutter.
THEOREM FilesRefine == FilesSpec => ImplementsWriteOnce
<1>1. FilesInit => Once!Init
  BY DEF FilesInit, Once!Init, Shown, Published
<1> QED BY <1>1, StepImplements, FilesInvariant, PTL DEF FilesSpec, ImplementsWriteOnce, Once!Spec

-----------------------------------------------------------------------------
(* What lasts                                                              *)

\* While no machine stops, a published name that shows something goes on
\* showing it, and what is permanent or reported stays so.
Calm ==
    /\ \A n \in Published :
          dir[n] # NoFile => dir'[n] = dir[n] /\ (disk[n] = dir[n] => disk'[n] = dir[n])
    /\ reported \subseteq reported'

LEMMA StepCalm == ASSUME FInv, NEW a \in Actors, FilesStep(a) PROVE Calm
<1>1. FilesTypeOK /\ SealedFiles /\ CallsInPlace
  BY DEF FInv
<1>2. \A n \in Published : dir[n] # NoFile => dir'[n] = dir[n]
  <2>1. CASE Rename(a) /\ Free(call[a].name)
    BY <1>1, <2>1 DEF Rename, Free, FilesTypeOK, Published
  <2>2. CASE Commit(a)
    BY <2>2 DEF Commit
  <2> QED BY <2>1, <2>2, OnlyRenameShows
<1>3. \A n \in Published : disk'[n] = disk[n] \/ disk'[n] = dir[n]
  <2>1. CASE Commit(a) \/ Hold(a) \/ Settle(a)
    BY <1>1, <2>1 DEF Commit, Hold, Settle, Synced, Published
  <2>2. CASE Fill(a)
    <3>1. call[a].name \in Reserved
      BY <1>1, <2>2 DEF CallsInPlace, Fill
    <3> QED BY <1>1, <2>2, <3>1 DEF Fill, Published, FilesTypeOK
  <2>3. CASE disk' = disk
    BY <2>3
  <2> QED BY <2>1, <2>2, <2>3
          DEF FilesStep, Prepare, ReserveStream, FinalizeStream, ReserveJson, FinalizeJson,
              Rename, FailPublish, FailReserve, Exchange, Retire, FailFinalize, Abandon
<1>4. reported \subseteq reported'
  BY DEF FilesStep, Prepare, ReserveStream, FinalizeStream, ReserveJson, FinalizeJson,
         Rename, Commit, FailPublish, Fill, Hold, FailReserve, Exchange, Settle, Retire,
         FailFinalize, Abandon
<1> QED BY <1>2, <1>3, <1>4 DEF Calm

\* Whatever happens, what is permanent stays permanent.
LEMMA FixedStays ==
    ASSUME FInv, Calm \/ MachineStops, NEW n \in Published,
           dir[n] # NoFile, disk[n] = dir[n]
    PROVE  dir'[n] = dir[n] /\ disk'[n] = dir[n]
<1>1. CASE Calm
  BY <1>1 DEF Calm
<1>2. CASE MachineStops
  BY <1>2, StopShows
<1> QED BY <1>1, <1>2

LEMMA ReportedIsFixed ==
    ASSUME FInv, NEW n \in Published, n \in reported
    PROVE  dir[n] # NoFile /\ disk[n] = dir[n]
BY DEF FInv, ReportedFiles

\* What a name may lead to after the machine stopped.
LEMMA StopKeepsWhat ==
    ASSUME FilesTypeOK, MachineStops, NEW n \in Names
    PROVE  /\ disk'[n] = dir'[n]
           /\ dir[n] # NoFile /\ disk[n] # NoFile => dir'[n] # NoFile
           /\ dir'[n] # NoFile => \E file \in {dir[n], disk[n]} :
                 /\ file # NoFile
                 /\ dir'[n].data = file.data /\ dir'[n].by = file.by
                 /\ file.flushed => dir'[n] = file
<1>1. PICK kept \in SUBSET {m \in Names : dir[m] # disk[m]},
           torn \in SUBSET {m \in Names : Unflushed(dir[m]) \/ Unflushed(disk[m])} :
         dir' = [m \in Names |->
                    LET e == IF m \in kept THEN dir[m] ELSE disk[m]
                    IN  Recovered(e, m \in torn /\ Unflushed(e))]
  BY DEF MachineStops
<1> DEFINE file == IF n \in kept THEN dir[n] ELSE disk[n]
           torn1 == n \in torn /\ Unflushed(file)
<1>2. dir'[n] = Recovered(file, torn1)
  BY <1>1
<1>3. file \in {dir[n], disk[n]} /\ file \in File \cup {NoFile} /\ torn1 \in BOOLEAN
  BY DEF FilesTypeOK, Entry
<1>4. file # NoFile /\ file.flushed => torn1 = FALSE
  BY DEF Unflushed
<1> HIDE DEF file, torn1
<1>5. CASE file = NoFile
  BY <1>2, <1>3, <1>5 DEF Recovered, MachineStops
<1>6. CASE file # NoFile
  <2>1. file \in File
    BY <1>3, <1>6
  <2>2. dir'[n] = [file EXCEPT !.whole = @ /\ ~torn1, !.flushed = TRUE]
    BY <1>2, <1>6 DEF Recovered
  <2>3. dir'[n] \in File /\ dir'[n].data = file.data /\ dir'[n].by = file.by
    BY <1>3, <2>1, <2>2 DEF File
  <2>4. file.flushed => dir'[n] = file
    BY <1>4, <1>6, <2>1, <2>2 DEF File
  <2> QED BY <1>3, <1>6, <2>3, <2>4, NoFileIsNoFile DEF MachineStops
<1> QED BY <1>5, <1>6

-----------------------------------------------------------------------------
(* Reservations                                                            *)

Holding == {"fill", "hold", "exchange", "settle", "retire"}

\* A process inside a reservation or its finalization owns the file the name
\* leads to; before the exchange this file holds no final record, after it the
\* one of the call, which is not reported yet.
HeldBy(a) ==
    call[a].at \in Holding =>
        /\ Mine(a)
        /\ call[a].at \in {"fill", "hold", "exchange"} => dir[call[a].name].data = Provisional
        /\ call[a].at \in {"exchange", "settle", "retire"} => call[a].data \in Values
        /\ call[a].at \in {"settle", "retire"} =>
              dir[call[a].name] = Written(a, call[a].data) /\ call[a].name \notin reported
        /\ call[a].at = "retire" => disk[call[a].name] = dir[call[a].name]

HeldFiles == \A a \in Actors : HeldBy(a)

\* What a finalization reported is complete and permanent.
FinishedFiles ==
    \A n \in Reserved \cap reported : dir[n] \in Sealed /\ disk[n] = dir[n]

RInv == FInv /\ HeldFiles /\ FinishedFiles

\* What a step may make of a reserved name.
LEMMA ReservedLeft ==
    ASSUME FInv, NEW a \in Actors, FilesStep(a), NEW n \in Reserved, ~Free(n),
           call[a].at \in Holding => call[a].name # n
    PROVE  dir'[n] = dir[n] /\ disk'[n] \in {disk[n], dir[n]}
<1>1. FilesTypeOK /\ CallsInPlace /\ n \in Names
  BY ReservedAreNames DEF FInv
<1> USE DEF Holding
<1>2. CASE dir' = dir /\ disk' = disk
  BY <1>2
<1>3. ASSUME NEW m \in Reserved, ReserveJson(a, m)
      PROVE  dir'[n] = dir[n] /\ disk' = disk
  BY <1>1, <1>3 DEF ReserveJson, FilesTypeOK
<1>4. CASE Rename(a)
  BY <1>1, <1>4 DEF Rename, CallsInPlace, Published, FilesTypeOK
<1>5. CASE Commit(a) \/ Hold(a) \/ Settle(a)
  BY <1>1, <1>5 DEF Commit, Hold, Settle, Synced
<1>6. CASE Fill(a) \/ Exchange(a) \/ FailReserve(a) \/ FailFinalize(a)
  BY <1>1, <1>6 DEF Fill, Exchange, FailReserve, FailFinalize, FilesTypeOK
<1> QED BY <1>2, <1>3, <1>4, <1>5, <1>6
        DEF FilesStep, Prepare, ReserveStream, FinalizeStream, FinalizeJson, FailPublish, Retire, Abandon

\* No two processes ever work on one reserved name.
LEMMA HeldAlone ==
    ASSUME HeldFiles, NEW a \in Actors, NEW b \in Actors,
           call[a].at \in Holding, call[b].at \in Holding, call[a].name = call[b].name
    PROVE  a = b
BY DEF HeldFiles, HeldBy, Mine

\* Another process's step reports at most the name it works on itself.
LEMMA OwnReports ==
    ASSUME FInv, NEW a \in Actors, FilesStep(a)
    PROVE  reported' = reported
           \/ /\ reported' = reported \cup {call[a].name}
              /\ (Commit(a) /\ call[a].name \in Published) \/ Retire(a)
BY DEF FInv, CallsInPlace, FilesStep, Prepare, ReserveStream, FinalizeStream, ReserveJson,
       FinalizeJson, Rename, Commit, FailPublish, Fill, Hold, FailReserve, Exchange, Settle,
       Retire, FailFinalize, Abandon

\* A step leaves the calls of all others alone.
LEMMA OthersCalls ==
    ASSUME FilesTypeOK, NEW a \in Actors, FilesStep(a), NEW b \in Actors \ {a}
    PROVE  call'[b] = call[b]
BY DEF FilesTypeOK, FilesStep, Prepare, ReserveStream, FinalizeStream, ReserveJson, FinalizeJson,
       Rename, Commit, FailPublish, Fill, Hold, FailReserve, Exchange, Settle, Retire,
       FailFinalize, Abandon, Goto, Enter

\* Nor does it disturb what they hold.
LEMMA OthersHeld ==
    ASSUME RInv, NEW a \in Actors, FilesStep(a), NEW b \in Actors \ {a}
    PROVE  HeldBy(b)'
<1>1. FInv /\ FilesTypeOK /\ CallsInPlace /\ HeldFiles /\ HeldBy(b)
  BY DEF RInv, FInv, HeldFiles
<1>2. call'[b] = call[b]
  BY <1>1, OthersCalls
<1> SUFFICES ASSUME call[b].at \in Holding PROVE HeldBy(b)'
  BY <1>2 DEF HeldBy
<1> DEFINE n == call[b].name
<1>3. n \in Reserved /\ ~Free(n)
  BY <1>1 DEF HeldBy, Mine, Free, CallsInPlace, Holding
<1>4. call[a].at \in Holding => call[a].name # n
  BY <1>1, HeldAlone
<1>5. dir'[n] = dir[n] /\ disk'[n] \in {disk[n], dir[n]}
  BY <1>1, <1>3, <1>4, ReservedLeft
<1>6. n \notin reported => n \notin reported'
  BY <1>1, <1>3, <1>4, OwnReports DEF Published, Retire, Holding
<1> QED BY <1>1, <1>2, <1>5, <1>6 DEF HeldBy, Mine, Written

\* What a process holds after a step of its own.
LEMMA OwnHeld ==
    ASSUME RInv, NEW a \in Actors, FilesStep(a)
    PROVE  HeldBy(a)'
<1>1. /\ FInv /\ FilesTypeOK /\ CallsInPlace /\ HeldBy(a) /\ FinishedFiles
      /\ Reserved \subseteq Names
  BY ReservedAreNames DEF RInv, FInv, HeldFiles
<1> DEFINE n == call[a].name
           v == call[a].data
<1>2. v \in Values \cup {Provisional}
  BY <1>1, CallFields
<1>3. \A u \in Values \cup {Provisional} :
         Written(a, u) # NoFile /\ Written(a, u).by = a /\ Written(a, u).data = u
  BY WrittenIsFile, NoFileIsNoFile DEF Written
<1>4. Created(a) # NoFile /\ Created(a).by = a /\ Created(a).data = Provisional
  BY WrittenIsFile, NoFileIsNoFile DEF Created
<1>5. CASE call'[a].at \notin Holding
  BY <1>5 DEF HeldBy
<1>6. ASSUME NEW m \in Reserved, ReserveJson(a, m) PROVE HeldBy(a)'
  <2>1. CASE Free(m)
    <3>1. call'[a].at = "fill" /\ call'[a].name = m /\ dir'[m] = Created(a)
      BY <1>1, <1>6, <2>1, Entered DEF ReserveJson, Working, FilesTypeOK
    <3> QED BY <1>4, <3>1 DEF HeldBy, Mine
  <2>2. CASE ~Free(m)
    <3>1. call'[a].at = "refused"
      BY <1>1, <1>6, <2>2, Entered DEF ReserveJson
    <3> QED BY <3>1, <1>5 DEF Holding
  <2> QED BY <2>1, <2>2
<1>7. ASSUME NEW m \in Reserved, NEW u \in Values, FinalizeJson(a, m, u) PROVE HeldBy(a)'
  <2>1. PICK s \in {"exchange", "refused"} :
           Enter(a, s, m, u) /\ (s = "exchange" => Shows(m, Provisional) /\ dir[m].by = a)
    BY <1>7 DEF FinalizeJson
  <2>2. call'[a].at = s /\ call'[a].name = m /\ call'[a].data = u
    BY <1>1, <2>1, Entered DEF Working
  <2>3. CASE s = "refused"
    BY <1>5, <2>2, <2>3 DEF Holding
  <2>4. CASE s = "exchange"
    BY <1>7, <2>1, <2>2, <2>4 DEF FinalizeJson, HeldBy, Mine, Shows
  <2> QED BY <2>3, <2>4
<1>8. CASE Fill(a)
  <2>1. n \in Reserved /\ call[a].at = "fill"
    BY <1>1, <1>8 DEF Fill, CallsInPlace
  <2>2. call'[a].at = "hold" /\ call'[a].name = n
    BY <1>1, <1>8, Moved DEF Fill, Working
  <2>3. dir'[n] = Written(a, Provisional)
    BY <1>1, <1>8, <2>1 DEF Fill, FilesTypeOK
  <2> QED BY <1>3, <2>2, <2>3 DEF HeldBy, Mine
<1>9. CASE Exchange(a)
  <2>1. n \in Reserved /\ call[a].at = "exchange" /\ v \in Values /\ dir[n].data = Provisional
    BY <1>1, <1>9 DEF Exchange, CallsInPlace, HeldBy, Holding
  <2>2. call'[a].at = "settle" /\ call'[a].name = n /\ call'[a].data = v
    BY <1>1, <1>9, Moved DEF Exchange, Working
  <2>3. dir'[n] = Written(a, v) /\ reported' = reported
    BY <1>1, <1>9, <2>1 DEF Exchange, FilesTypeOK
  <2>4. n \notin reported
    BY <1>1, <2>1, ProvisionalIsNoValue DEF FinishedFiles, Sealed
  <2> QED BY <1>3, <2>1, <2>2, <2>3, <2>4 DEF HeldBy, Mine
<1>10. CASE Settle(a)
  <2>1. call[a].at = "settle" /\ n \in Reserved
    BY <1>1, <1>10 DEF Settle, CallsInPlace
  <2>2. call'[a].at = "retire" /\ call'[a].name = n /\ call'[a].data = v
    BY <1>1, <1>10, Moved DEF Settle, Working
  <2>3. dir' = dir /\ disk'[n] = dir[n] /\ reported' = reported
    BY <1>1, <1>10, <2>1 DEF Settle, Synced
  <2> QED BY <1>1, <2>1, <2>2, <2>3 DEF HeldBy, Mine, Holding, Written
<1>11. CASE Hold(a) \/ Retire(a) \/ FailReserve(a) \/ FailFinalize(a) \/ Rename(a)
            \/ Commit(a) \/ FailPublish(a)
  <2>1. call'[a].at \in {"done", "refused", "commit"}
    BY <1>1, <1>11, Moved
    DEF Hold, Retire, FailReserve, FailFinalize, Rename, Commit, FailPublish, Working
  <2> QED BY <1>5, <2>1 DEF Holding
<1>12. ASSUME NEW m \in Names \ Reserved, NEW u \in Values,
              Prepare(a, m, u) \/ ReserveStream(a, m, u) \/ FinalizeStream(a, m, u)
       PROVE  HeldBy(a)'
  <2>1. PICK s \in {"rename", "done", "refused"} : Enter(a, s, m, u)
    BY <1>12 DEF Prepare, ReserveStream, FinalizeStream
  <2>2. call'[a].at = s
    BY <1>1, <2>1, Entered DEF Working
  <2> QED BY <1>5, <2>2 DEF Holding
<1>13. CASE Abandon(a)
  <2>1. call'[a].at = "idle"
    BY <1>1, <1>13 DEF Abandon, FilesTypeOK, Idle
  <2> QED BY <1>5, <2>1 DEF Holding
<1> QED BY <1>6, <1>7, <1>8, <1>9, <1>10, <1>11, <1>12, <1>13 DEF FilesStep

\* A reported reservation is left alone by everybody, and one that is reported
\* now is complete and permanent.
LEMMA FinishedStay ==
    ASSUME RInv, NEW a \in Actors, FilesStep(a)
    PROVE  /\ \A n \in Reserved \cap reported : dir'[n] = dir[n] /\ disk'[n] = dir[n]
           /\ FinishedFiles'
<1>1. FInv /\ FilesTypeOK /\ CallsInPlace /\ HeldBy(a) /\ FinishedFiles
  BY DEF RInv, FInv, HeldFiles
<1>2. ASSUME NEW n \in Reserved \cap reported
      PROVE  dir'[n] = dir[n] /\ disk'[n] = dir[n]
  <2>1. dir[n] \in Sealed /\ disk[n] = dir[n]
    BY <1>1 DEF FinishedFiles
  <2>2. ~Free(n) /\ dir[n].data # Provisional
    BY <2>1, NoFileIsNoFile, ProvisionalIsNoValue DEF Free, Sealed
  <2>3. call[a].at \in Holding => call[a].name # n
    BY <1>1, <2>2 DEF HeldBy, Holding
  <2> QED BY <1>1, <2>1, <2>2, <2>3, ReservedLeft
<1>3. ASSUME NEW n \in Reserved \cap reported', n \notin reported
      PROVE  dir'[n] \in Sealed /\ disk'[n] = dir'[n]
  <2>1. Retire(a) /\ n = call[a].name
    BY <1>1, <1>3, OwnReports DEF Published
  <2>2. call[a].data \in Values /\ dir[n] = Written(a, call[a].data) /\ disk[n] = dir[n]
    BY <1>1, <2>1 DEF HeldBy, Retire, Holding
  <2> QED BY <2>1, <2>2, WrittenIsFile DEF Retire
<1>4. FinishedFiles'
  <2> SUFFICES ASSUME NEW n \in Reserved \cap reported'
               PROVE  dir'[n] \in Sealed /\ disk'[n] = dir'[n]
    BY DEF FinishedFiles
  <2> QED BY <1>1, <1>2, <1>3 DEF FinishedFiles
<1> QED BY <1>2, <1>4

\* When the machine stops, a finished reservation is where it was; no process
\* is left to hold another one.
LEMMA FinishedSurvive ==
    ASSUME RInv, MachineStops
    PROVE  /\ \A n \in Reserved \cap reported : dir'[n] = dir[n] /\ disk'[n] = dir[n]
           /\ HeldFiles' /\ FinishedFiles'
<1>1. FilesTypeOK /\ FinishedFiles
  BY DEF RInv, FInv
<1>2. ASSUME NEW n \in Reserved \cap reported
      PROVE  dir'[n] = dir[n] /\ disk'[n] = dir[n]
  <2>1. dir[n] \in Sealed /\ disk[n] = dir[n]
    BY <1>1 DEF FinishedFiles
  <2>2. dir[n] # NoFile /\ dir[n].flushed
    BY <2>1, NoFileIsNoFile DEF Sealed
  <2>3. dir'[n] # NoFile /\ disk'[n] = dir'[n] /\ dir'[n] = dir[n]
    BY <1>1, <2>1, <2>2, StopKeepsWhat, ReservedAreNames
  <2> QED BY <2>3
<1>3. HeldFiles'
  BY DEF MachineStops, HeldFiles, HeldBy, Holding, Idle
<1>4. FinishedFiles'
  BY <1>1, <1>2 DEF FinishedFiles, MachineStops
<1> QED BY <1>2, <1>3, <1>4

LEMMA ReservationsLast == ASSUME RInv, [FilesNext]_fileVars PROVE RInv'
<1>1. FInv
  BY DEF RInv
<1>2. ASSUME NEW a \in Actors, FilesStep(a) PROVE RInv'
  <2>1. HeldFiles'
    BY <1>2, OthersHeld, OwnHeld DEF HeldFiles
  <2> QED BY <1>1, <1>2, <2>1, StepKeeps, FinishedStay DEF RInv
<1>3. CASE MachineStops
  BY <1>1, <1>3, StopKeeps, FinishedSurvive DEF RInv
<1>4. CASE UNCHANGED fileVars
  BY <1>4
  DEF fileVars, RInv, FInv, FilesTypeOK, SealedFiles, ReportedFiles, CallsInPlace,
      HeldFiles, HeldBy, Mine, FinishedFiles
<1> QED BY <1>2, <1>3, <1>4 DEF FilesNext

LEMMA ReservationsStart == FilesInit => RInv
BY DEF FilesInit, RInv, FInv, FilesTypeOK, SealedFiles, ReportedFiles, CallsInPlace,
       Entry, Call, Idle, Published, HeldFiles, HeldBy, Holding, FinishedFiles

LEMMA ReservationsHold == FilesSpec => []RInv
BY ReservationsStart, ReservationsLast, PTL DEF FilesSpec

\* What a step does to the files of the names that were reported.
ReportedStay ==
    \A n \in reported :
        /\ n \in reported'
        /\ dir[n] # NoFile /\ dir'[n] = dir[n] /\ disk'[n] = dir[n]

LEMMA ReportedStays == ASSUME RInv, [FilesNext]_fileVars PROVE ReportedStay
<1>1. FInv /\ FilesTypeOK /\ FinishedFiles
  BY DEF RInv, FInv
<1>2. Calm \/ MachineStops
  <2>1. CASE UNCHANGED fileVars
    BY <2>1 DEF fileVars, Calm
  <2> QED BY <1>1, <2>1, StepCalm DEF FilesNext
<1>3. reported \subseteq reported'
  BY <1>2 DEF Calm, MachineStops
<1>4. ASSUME NEW n \in Published \cap reported
      PROVE  dir[n] # NoFile /\ dir'[n] = dir[n] /\ disk'[n] = dir[n]
  BY <1>1, <1>2, ReportedIsFixed, FixedStays
<1>5. ASSUME NEW n \in Reserved \cap reported
      PROVE  dir[n] # NoFile /\ dir'[n] = dir[n] /\ disk'[n] = dir[n]
  <2>1. dir[n] # NoFile /\ disk[n] = dir[n]
    BY <1>1, NoFileIsNoFile DEF FinishedFiles, Sealed
  <2>2. CASE UNCHANGED fileVars
    BY <2>1, <2>2 DEF fileVars
  <2> QED BY <2>1, <2>2, FinishedStay, FinishedSurvive DEF FilesNext
<1>6. reported \subseteq Published \cup Reserved
  BY <1>1 DEF FilesTypeOK, Published
<1> QED BY <1>3, <1>4, <1>5, <1>6 DEF ReportedStay

\* What the library ever reported, a publication or a finalized reservation, is
\* permanent: no call of any process, no failure of one, no kill and no stop of
\* the machine takes the name away, puts another file there, or loses it.
THEOREM ReportedFinal == FilesSpec => [][ReportedStay]_fileVars
BY ReservationsHold, ReportedStays, PTL DEF FilesSpec
=============================================================================
