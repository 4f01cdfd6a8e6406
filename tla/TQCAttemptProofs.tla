-------------------------- MODULE TQCAttemptProofs --------------------------
(***************************************************************************)
(* Proofs about TQCAttempt: through every failure, edit of the sources,    *)
(* expired deadline and death of either process, construction is           *)
(* authorised on both sides of the channel or on neither.                  *)
(***************************************************************************)
EXTENDS TQCAttempt, SequenceTheorems, TLAPS

\* The frames of a handshake that succeeds, as both transcripts have them.
Script == <<"worker_started", "stage_entered", "preflight_receipts", "admit", "acknowledged">>

\* A transcript says what the script says, as far as n frames.
Follows(log, n) == Len(log) >= n /\ \A i \in 1 .. n : log[i] = Script[i]

LEMMA ScriptFrames ==
    /\ Script[1] = "worker_started" /\ Script[2] = "stage_entered"
    /\ Script[3] = "preflight_receipts" /\ Script[4] = "admit" /\ Script[5] = "acknowledged"
    /\ \A i \in 1 .. 5 : Script[i] \in Frames
    /\ WorkerFrames = {"worker_started", "stage_entered", "preflight_receipts",
                       "acknowledged", "failure"}
    /\ Frames = WorkerFrames \cup {"admit"}
    /\ Preflight \in Seq(Frames) /\ Len(Preflight) = 3 /\ Follows(Preflight, 3)
<1>1. Range(Preflight) = {"worker_started", "stage_entered", "preflight_receipts"}
  BY DEF Range, Preflight
<1> QED BY <1>1 DEF Script, Frames, WorkerFrames, Preflight, Follows

-----------------------------------------------------------------------------
(* The invariant                                                           *)

\* The manifest is out, and the parent's transcript holds the admission.
Admitted == manifest = Preflight /\ Follows(supLog, 4)

\* How far the worker's transcript is, at every place in its code.  It follows
\* the script, up to a report of failure that ends it.
WorkerLogInStep ==
    /\ \A i \in 1 .. Len(workerLog) :
         \/ i <= 5 /\ workerLog[i] = Script[i]
         \/ /\ i = Len(workerLog) /\ workerLog[i] = "failure"
            /\ worker \in {"closing", "closed", "gone"}
    /\ worker \in {"none", "boot", "session", "load", "start"} => Len(workerLog) = 0
    /\ worker = "enter" => Len(workerLog) = 1
    /\ worker \in {"inspect", "deliver"} => Len(workerLog) = 2
    /\ worker = "await" => Len(workerLog) = 3
    /\ worker \in {"reverify", "acknowledge"} => Len(workerLog) = 4
    /\ worker = "attempt" => Len(workerLog) = 5

\* How far the parent's transcript is.
ParentLogInStep ==
    /\ sup \in {"publish", "admit"} => supLog = Preflight /\ validated
    /\ sup = "spawn" => worker = "none"
    /\ sup = "admit" => manifest = Preflight
    /\ sup = "answer" => Admitted /\ Len(supLog) = 4 /\ validated
    /\ sup = "authorized" =>
         Len(supLog) = 5 /\ Follows(supLog, 5) /\ Follows(workerLog, 5) /\ validated

\* What a frame in a pipe says of the side that sent it.
PipesInStep ==
    /\ toWorker # <<>> => Admitted
    /\ Follows(workerLog, 4) => Admitted
    /\ \A i \in 1 .. Len(toSup) : toSup[i] = "acknowledged" => Follows(workerLog, 5)

IInv == TypeOK /\ WorkerLogInStep /\ ParentLogInStep /\ PipesInStep

-----------------------------------------------------------------------------
(* Transcripts                                                             *)

LEMMA Shorter == ASSUME NEW log, NEW n \in 0 .. 5, NEW m \in 0 .. n, Len(log) \in Nat, Follows(log, n)
                 PROVE  Follows(log, m)
BY DEF Follows

LEMMA PartOf ==
    ASSUME NEW a \in Seq(Frames), NEW n \in 1 .. 5, Len(a) >= n
    PROVE  /\ SubSeq(a, 1, n) \in Seq(Frames) /\ Len(SubSeq(a, 1, n)) = n
           /\ \A i \in 1 .. n : SubSeq(a, 1, n)[i] = a[i]
<1> DEFINE c == SubSeq(a, 1, n)
<1>1. \A i \in 1 .. n : a[i] \in Frames
  BY ElementOfSeq
<1>2. 1 \in Int /\ n \in Int /\ 1 <= n
  OBVIOUS
<1>3. /\ c \in Seq(Frames) /\ Len(c) = IF 1 <= n THEN n - 1 + 1 ELSE 0
      /\ \A i \in 1 .. n - 1 + 1 : c[i] = a[1 + i - 1]
  BY ONLY <1>1, <1>2, SubSeqProperties
<1> HIDE DEF c
<1>4. Len(c) = n /\ \A i \in 1 .. n : c[i] = a[i]
  BY <1>2, <1>3
<1> QED BY <1>3, <1>4 DEF c

LEMMA SamePart ==
    ASSUME NEW a \in Seq(Frames), NEW b \in Seq(Frames), NEW n \in 1 .. 5,
           Follows(a, n), Follows(b, n)
    PROVE  /\ SubSeq(a, 1, n) = SubSeq(b, 1, n)
           /\ SubSeq(a, 1, n) \in Seq(Frames) /\ Len(SubSeq(a, 1, n)) = n
<1> DEFINE c == SubSeq(a, 1, n)
           d == SubSeq(b, 1, n)
<1>1. \A i \in 1 .. n : a[i] = b[i]
  BY DEF Follows
<1>2. /\ c \in Seq(Frames) /\ Len(c) = n /\ \A i \in 1 .. n : c[i] = a[i]
      /\ d \in Seq(Frames) /\ Len(d) = n /\ \A i \in 1 .. n : d[i] = b[i]
  BY PartOf DEF Follows
<1> HIDE DEF c, d
<1>3. c = d
  <2>1. Len(c) = Len(d) /\ \A i \in 1 .. Len(c) : c[i] = d[i]
    BY <1>1, <1>2
  <2> QED BY <1>2, <2>1, SeqEqual
<1> QED BY <1>2, <1>3 DEF c, d

\* One frame more leaves what was followed.
LEMMA Recorded ==
    ASSUME NEW log \in Seq(Frames), NEW f \in Frames
    PROVE  /\ Append(log, f) \in Seq(Frames) /\ Len(log) \in Nat
           /\ Len(Append(log, f)) = Len(log) + 1
           /\ \A i \in 1 .. Len(log) : Append(log, f)[i] = log[i]
           /\ Append(log, f)[Len(log) + 1] = f
           /\ \A n \in 1 .. 5 : Follows(log, n) => Follows(Append(log, f), n)
<1>1. /\ Append(log, f) \in Seq(Frames) /\ Len(log) \in Nat
      /\ Len(Append(log, f)) = Len(log) + 1
      /\ \A i \in 1 .. Len(log) : Append(log, f)[i] = log[i]
      /\ Append(log, f)[Len(log) + 1] = f
  BY AppendProperties
<1> QED BY <1>1 DEF Follows

LEMMA Taken ==
    ASSUME NEW S, NEW q \in Seq(S), q # <<>>
    PROVE  /\ Head(q) = q[1] /\ Head(q) \in S /\ Tail(q) \in Seq(S)
           /\ 1 \in 1 .. Len(q)
           /\ \A i \in 1 .. Len(Tail(q)) : i + 1 \in 1 .. Len(q) /\ Tail(q)[i] = q[i + 1]
BY HeadTailProperties, EmptySeq

\* A worker at work has a transcript that follows the script.
LEMMA WorkerFollows ==
    ASSUME workerLog \in Seq(Frames), WorkerLogInStep,
           worker \notin {"closing", "closed", "gone"}
    PROVE  Len(workerLog) \in 0 .. 5 /\ Follows(workerLog, Len(workerLog))
<1>1. Len(workerLog) \in Nat
      /\ \A i \in 1 .. Len(workerLog) : i <= 5 /\ workerLog[i] = Script[i]
  BY DEF WorkerLogInStep
<1>2. Len(workerLog) <= 5
  <2>1. Len(workerLog) > 0 => Len(workerLog) \in 1 .. Len(workerLog)
    BY <1>1
  <2> QED BY <1>1, <2>1
<1> DEFINE n == Len(workerLog)
<1>3. n \in Nat /\ n <= 5
  BY <1>1, <1>2
<1> HIDE DEF n
<1>4. n \in 0 .. 5 /\ n >= n
  BY <1>3
<1> QED BY <1>1, <1>4 DEF Follows, n

\* Authority on one side is authority on the other.
LEMMA MutualByScript == IInv => AuthorityIsMutual
<1> SUFFICES ASSUME IInv PROVE AuthorityIsMutual
  OBVIOUS
<1>0. supLog \in Seq(Frames) /\ workerLog \in Seq(Frames) /\ Preflight \in Seq(Frames)
      /\ Len(Preflight) = 3 /\ Follows(Preflight, 3)
  BY ScriptFrames DEF IInv, TypeOK
<1>1. ASSUME sup = "authorized"
      PROVE  validated /\ "acknowledged" \in Range(workerLog) /\ IsPrefix(supLog, workerLog)
  <2>1. Len(supLog) = 5 /\ Follows(supLog, 5) /\ Follows(workerLog, 5) /\ validated
    BY <1>1 DEF IInv, ParentLogInStep
  <2>2. SubSeq(supLog, 1, 5) = SubSeq(workerLog, 1, 5)
    BY <1>0, <2>1, SamePart
  <2>3. IsPrefix(supLog, workerLog)
    BY <2>1, <2>2 DEF IsPrefix, Follows
  <2>4. "acknowledged" \in Range(workerLog)
    <3>1. 5 \in DOMAIN workerLog /\ workerLog[5] = "acknowledged"
      BY <1>0, <2>1, ScriptFrames DEF Follows
    <3> QED BY <3>1 DEF Range
  <2> QED BY <2>1, <2>3, <2>4
<1>2. ASSUME worker = "attempt"
      PROVE  /\ manifest = SubSeq(workerLog, 1, Len(Preflight))
             /\ IsPrefix(SubSeq(workerLog, 1, Len(Preflight) + 1), supLog)
  <2>1. Follows(workerLog, 5)
    <3>1. Len(workerLog) = 5
      BY <1>2 DEF IInv, WorkerLogInStep
    <3> QED BY <1>0, <1>2, <3>1, WorkerFollows DEF IInv
  <2>2. Follows(workerLog, 3) /\ Follows(workerLog, 4)
    BY <1>0, <2>1 DEF Follows
  <2>3. manifest = Preflight /\ Follows(supLog, 4)
    BY <2>2 DEF IInv, PipesInStep, Admitted
  <2>4. SubSeq(workerLog, 1, 3) = SubSeq(Preflight, 1, 3) /\ SubSeq(Preflight, 1, 3) = Preflight
    BY <1>0, <2>2, SamePart, SubSeqFull
  <2>5. SubSeq(workerLog, 1, 4) = SubSeq(supLog, 1, 4)
        /\ SubSeq(workerLog, 1, 4) \in Seq(Frames) /\ Len(SubSeq(workerLog, 1, 4)) = 4
    BY <1>0, <2>2, <2>3, SamePart
  <2>6. SubSeq(SubSeq(workerLog, 1, 4), 1, 4) = SubSeq(workerLog, 1, 4)
    BY <2>5, SubSeqFull
  <2>7. IsPrefix(SubSeq(workerLog, 1, 4), supLog)
    BY <2>3, <2>5, <2>6 DEF IsPrefix, Follows
  <2> QED BY <1>0, <2>3, <2>4, <2>7
<1> QED BY <1>1, <1>2 DEF AuthorityIsMutual

-----------------------------------------------------------------------------
(* Every step keeps the invariant                                          *)

LEMMA FrameNames ==
    /\ \A f \in WorkerFrames : f \in Frames
    /\ "worker_started" \in WorkerFrames /\ "stage_entered" \in WorkerFrames
    /\ "preflight_receipts" \in WorkerFrames /\ "acknowledged" \in WorkerFrames
    /\ "failure" \in WorkerFrames /\ "admit" \in Frames
BY ScriptFrames

LEMMA WorkerTyped ==
    ASSUME TypeOK, WorkerNext
    PROVE  TypeOK'
<1>1. UNCHANGED <<target, time, overdue, tree, manifest, sup, supOpen, supLog, validated, signal>>
  BY DEF WorkerNext, Boot, Detach, LoadInputs, SendStarted, SendEntered, PublishReceipts,
         SendReceipts, ReceiveManifest, Reverify, Acknowledge, RunAttempt, SendFailure,
         CloseWorker, Exit, Gone, WorkerSend, clock, files, parent
<1>2. worker' \in WorkerSteps \cup {"none", "gone"}
  BY DEF WorkerNext, Boot, Detach, LoadInputs, SendStarted, SendEntered, PublishReceipts,
         SendReceipts, ReceiveManifest, Reverify, Acknowledge, RunAttempt, SendFailure,
         CloseWorker, Exit, Gone, WorkerSend, WorkerRaises, TypeOK, WorkerSteps
<1>3. detached' \in BOOLEAN /\ workerOpen' \in BOOLEAN
  BY DEF WorkerNext, Boot, Detach, LoadInputs, SendStarted, SendEntered, PublishReceipts,
         SendReceipts, ReceiveManifest, Reverify, Acknowledge, RunAttempt, SendFailure,
         CloseWorker, Exit, Gone, WorkerSend, TypeOK
<1>4. \A f \in WorkerFrames : /\ Append(toSup, f) \in Seq(WorkerFrames)
                              /\ Append(workerLog, f) \in Seq(Frames)
  BY FrameNames, AppendProperties DEF TypeOK
<1>5. toWorker # <<>> => /\ Tail(toWorker) \in Seq({"admit"})
                         /\ Append(workerLog, Head(toWorker)) \in Seq(Frames)
  <2>1. toWorker # <<>> => Tail(toWorker) \in Seq({"admit"}) /\ Head(toWorker) \in {"admit"}
    BY Taken DEF TypeOK
  <2> QED BY <2>1, FrameNames, AppendProperties DEF TypeOK
<1>6. CASE SendStarted \/ SendEntered \/ SendReceipts \/ Acknowledge \/ SendFailure
  <2>1. toWorker' = toWorker /\ (UNCHANGED <<toSup, workerLog>> \/ \E f \in WorkerFrames :
          toSup' = Append(toSup, f) /\ workerLog' = Append(workerLog, f))
    BY <1>6, FrameNames DEF SendStarted, SendEntered, SendReceipts, Acknowledge, SendFailure,
                            WorkerSend
  <2>2. toSup' \in Seq(WorkerFrames) /\ workerLog' \in Seq(Frames)
    BY <1>4, <2>1 DEF TypeOK
  <2> QED BY <1>1, <1>2, <1>3, <2>1, <2>2 DEF TypeOK
<1>7. CASE ReceiveManifest
  BY <1>1, <1>2, <1>3, <1>5, <1>7 DEF ReceiveManifest, TypeOK
<1>8. CASE \/ Boot \/ Detach \/ LoadInputs \/ PublishReceipts \/ Reverify \/ RunAttempt
           \/ CloseWorker \/ Exit
  <2>1. UNCHANGED <<workerLog, toSup, toWorker>>
    BY <1>8 DEF Boot, Detach, LoadInputs, PublishReceipts, Reverify, RunAttempt, CloseWorker,
                Exit, Gone, pipes
  <2> QED BY <1>1, <1>2, <1>3, <2>1 DEF TypeOK
<1> QED BY <1>6, <1>7, <1>8 DEF WorkerNext

LEMMA ParentTyped ==
    ASSUME TypeOK, ParentLogInStep, ParentNext
    PROVE  TypeOK'
<1>1. UNCHANGED <<target, time, overdue, tree, detached, workerOpen, workerLog>>
  BY DEF ParentNext, Spawn, ReceiveStarted, ReceiveEntered, ReceiveReceipts, SupReceive,
         CheckPreflight, Raise, PublishManifest, SendAdmission, ReceiveAnswer, Finish, Terminate,
         GraceEnds, Kill, WaitEnds, clock, files, process
<1>2. /\ sup' \in {"spawn", "authorized"} \cup Handshake \cup Cleanup \cup Returned
      /\ worker' \in WorkerSteps \cup {"none", "gone"} /\ signal' \in {"none", "term", "kill"}
  BY DEF ParentNext, Spawn, ReceiveStarted, ReceiveEntered, ReceiveReceipts, SupReceive, SupFails,
         CheckPreflight, Raise, PublishManifest, SendAdmission, ReceiveAnswer, Finish, Terminate,
         GraceEnds, Kill, WaitEnds, Leave, Survivor, process, TypeOK, Handshake, Cleanup, Returned,
         WorkerSteps
<1>3. supOpen' \in BOOLEAN /\ validated' \in BOOLEAN
  BY DEF ParentNext, Spawn, ReceiveStarted, ReceiveEntered, ReceiveReceipts, SupReceive, SupFails,
         CheckPreflight, Raise, PublishManifest, SendAdmission, ReceiveAnswer, Finish, Terminate,
         GraceEnds, Kill, WaitEnds, Leave, TypeOK
<1>4. toSup # <<>> => /\ Tail(toSup) \in Seq(WorkerFrames)
                      /\ Append(supLog, Head(toSup)) \in Seq(Frames)
  <2>1. toSup # <<>> => Tail(toSup) \in Seq(WorkerFrames) /\ Head(toSup) \in Frames
    BY Taken, FrameNames DEF TypeOK
  <2> QED BY <2>1, AppendProperties DEF TypeOK
<1>5. CASE ReceiveStarted \/ ReceiveEntered \/ ReceiveReceipts \/ ReceiveAnswer
  <2>1. /\ UNCHANGED <<manifest, toWorker>>
        /\ \/ toSup # <<>> /\ supLog' = Append(supLog, Head(toSup)) /\ toSup' = Tail(toSup)
           \/ UNCHANGED <<supLog, toSup>>
    BY <1>5 DEF ReceiveStarted, ReceiveEntered, ReceiveReceipts, SupReceive, SupFails,
                ReceiveAnswer, files
  <2> QED BY <1>1, <1>2, <1>3, <1>4, <2>1 DEF TypeOK
<1>6. CASE SendAdmission
  <2>1. /\ UNCHANGED <<manifest, toSup>>
        /\ \/ UNCHANGED <<supLog, toWorker>>
           \/ supLog' = Append(supLog, "admit") /\ toWorker' = Append(toWorker, "admit")
    BY <1>6 DEF SendAdmission, SupFails, files
  <2>2. Append(supLog, "admit") \in Seq(Frames) /\ Append(toWorker, "admit") \in Seq({"admit"})
    BY FrameNames, AppendProperties DEF TypeOK
  <2> QED BY <1>1, <1>2, <1>3, <2>1, <2>2 DEF TypeOK
<1>7. CASE PublishManifest
  <2>1. UNCHANGED <<supLog, toSup, toWorker>> /\ manifest' \in {manifest, Preflight}
    BY <1>7 DEF PublishManifest, ParentLogInStep, pipes
  <2> QED BY <1>1, <1>2, <1>3, <2>1 DEF TypeOK
<1>8. CASE \/ Spawn \/ CheckPreflight \/ Finish \/ Terminate \/ GraceEnds \/ Kill \/ WaitEnds
  <2>1. UNCHANGED <<manifest, supLog, toSup, toWorker>>
    BY <1>8 DEF Spawn, CheckPreflight, Raise, Finish, Terminate, GraceEnds, Kill, WaitEnds,
                files, pipes
  <2> QED BY <1>1, <1>2, <1>3, <2>1 DEF TypeOK
<1> QED BY <1>5, <1>6, <1>7, <1>8 DEF ParentNext

LEMMA Typed == ASSUME TypeOK, ParentLogInStep, [Next]_vars PROVE TypeOK'
<1>1. CASE Signalled \/ Killed \/ ParentDies
  BY <1>1 DEF Signalled, Killed, Gone, ParentDies, clock, files, parent, process, pipes, TypeOK,
              Returned
<1>2. CASE Tick
  BY <1>2 DEF Tick, files, parent, process, pipes, TypeOK
<1>3. CASE Overdue \/ EditSources
  BY <1>3 DEF Overdue, EditSources, clock, files, parent, process, pipes, TypeOK
<1>4. CASE UNCHANGED vars
  BY <1>4 DEF vars, clock, files, parent, process, pipes, TypeOK
<1> QED BY <1>1, <1>2, <1>3, <1>4, WorkerTyped, ParentTyped DEF Next, Environment

InStep == WorkerLogInStep /\ ParentLogInStep /\ PipesInStep
Over == {"closing", "closed", "gone"}

\* The worker writes the next frame of the script.
LEMMA FrameSent ==
    ASSUME IInv, NEW f \in WorkerFrames, NEW next, worker \notin Over \cup {"none"},
           \/ Len(workerLog) = 0 /\ f = "worker_started" /\ next = "enter"
           \/ Len(workerLog) = 1 /\ f = "stage_entered" /\ next = "inspect"
           \/ Len(workerLog) = 2 /\ f = "preflight_receipts" /\ next = "await"
           \/ Len(workerLog) = 4 /\ f = "acknowledged" /\ next = "attempt",
           worker' = next, toSup' = Append(toSup, f), workerLog' = Append(workerLog, f),
           UNCHANGED <<manifest, sup, supLog, validated, toWorker>>
    PROVE  InStep'
<1> DEFINE len == Len(workerLog)
<1>1. /\ workerLog \in Seq(Frames) /\ toSup \in Seq(WorkerFrames)
      /\ ParentLogInStep /\ PipesInStep /\ WorkerLogInStep
  BY DEF IInv, TypeOK
<1>2. len \in {0, 1, 2, 4} /\ f = Script[len + 1] /\ next \notin Over
      /\ (f = "acknowledged" => len = 4)
      /\ \/ len = 0 /\ next = "enter"
         \/ len = 1 /\ next = "inspect"
         \/ len = 2 /\ next = "await"
         \/ len = 4 /\ next = "attempt"
  <2>1. CASE Len(workerLog) = 0 /\ f = "worker_started" /\ next = "enter"
    BY <2>1, ScriptFrames DEF Over
  <2>2. CASE Len(workerLog) = 1 /\ f = "stage_entered" /\ next = "inspect"
    BY <2>2, ScriptFrames DEF Over
  <2>3. CASE Len(workerLog) = 2 /\ f = "preflight_receipts" /\ next = "await"
    BY <2>3, ScriptFrames DEF Over
  <2>4. CASE Len(workerLog) = 4 /\ f = "acknowledged" /\ next = "attempt"
    BY <2>4, ScriptFrames DEF Over
  <2> QED BY <2>1, <2>2, <2>3, <2>4
<1>3. Follows(workerLog, len) /\ \A i \in 1 .. len : workerLog[i] = Script[i]
  BY <1>1, WorkerFollows DEF Over, Follows
<1>4. /\ Len(workerLog') = len + 1 /\ workerLog'[len + 1] = f
      /\ \A i \in 1 .. len : workerLog'[i] = workerLog[i]
      /\ \A n \in 1 .. 5 : Follows(workerLog, n) => Follows(workerLog', n)
  BY <1>1, FrameNames, Recorded
<1> HIDE DEF len
<1>5. \A i \in 1 .. len + 1 : workerLog'[i] = Script[i]
  BY <1>2, <1>3, <1>4
<1>6. Follows(workerLog', len + 1)
  BY <1>2, <1>4, <1>5 DEF Follows
<1>7. WorkerLogInStep'
  BY <1>2, <1>4, <1>5 DEF WorkerLogInStep, Over
<1>8. ParentLogInStep'
  <2>1. sup # "spawn"
    BY <1>1 DEF ParentLogInStep
  <2>2. Follows(workerLog, 5) => Follows(workerLog', 5)
    BY <1>4
  <2> QED BY <1>1, <2>1, <2>2 DEF ParentLogInStep, Admitted
<1>9. PipesInStep'
  <2>1. Follows(workerLog', 4) => Follows(workerLog, 4)
    <3>1. CASE len = 4
      BY <1>3, <3>1
    <3>2. CASE len # 4
      BY <1>2, <1>4, <3>2 DEF Follows
    <3> QED BY <3>1, <3>2
  <2>2. /\ Len(toSup) \in Nat /\ Len(toSup') = Len(toSup) + 1 /\ toSup'[Len(toSup) + 1] = f
        /\ \A i \in 1 .. Len(toSup) : toSup'[i] = toSup[i]
    BY <1>1, AppendProperties
  <2>3. ASSUME NEW i \in 1 .. Len(toSup'), toSup'[i] = "acknowledged"
        PROVE  Follows(workerLog', 5)
    <3>1. CASE i \in 1 .. Len(toSup)
      BY <1>1, <1>4, <2>2, <2>3, <3>1 DEF PipesInStep
    <3>2. CASE i = Len(toSup) + 1
      BY <1>2, <1>6, <2>2, <2>3, <3>2
    <3> QED BY <2>2, <3>1, <3>2
  <2> QED BY <1>1, <2>1, <2>3 DEF PipesInStep, Admitted
<1> QED BY <1>7, <1>8, <1>9 DEF InStep

\* The worker moves on without a frame, fails, ends or is killed.
LEMMA WorkerMoves ==
    ASSUME IInv, worker # "none",
           UNCHANGED <<manifest, sup, supLog, validated, toSup, toWorker, workerLog>>,
           \/ worker' \in Over \cup {"raised"} /\ worker \notin Over
           \/ worker' \in Over /\ worker \in Over
           \/ worker \in {"boot", "session", "load"} /\ worker' \in {"session", "load", "start"}
           \/ worker = "inspect" /\ worker' = "deliver"
           \/ worker = "reverify" /\ worker' = "acknowledge"
    PROVE  InStep'
<1>1. WorkerLogInStep'
  BY DEF IInv, WorkerLogInStep, Over
<1>2. ParentLogInStep' /\ PipesInStep'
  BY DEF IInv, ParentLogInStep, PipesInStep, Admitted
<1> QED BY <1>1, <1>2 DEF InStep

LEMMA FailureSent ==
    ASSUME IInv, worker = "raised", worker' = "closing",
           toSup' = Append(toSup, "failure"), workerLog' = Append(workerLog, "failure"),
           UNCHANGED <<manifest, sup, supLog, validated, toWorker>>
    PROVE  InStep'
<1> DEFINE len == Len(workerLog)
<1>1. /\ workerLog \in Seq(Frames) /\ toSup \in Seq(WorkerFrames)
      /\ ParentLogInStep /\ PipesInStep /\ WorkerLogInStep
  BY DEF IInv, TypeOK
<1>2. len \in 0 .. 5 /\ Follows(workerLog, len) /\ \A i \in 1 .. len : workerLog[i] = Script[i]
  BY <1>1, WorkerFollows DEF Follows
<1>3. /\ Len(workerLog') = len + 1 /\ workerLog'[len + 1] = "failure"
      /\ \A i \in 1 .. len : workerLog'[i] = workerLog[i]
      /\ \A n \in 1 .. 5 : Follows(workerLog, n) => Follows(workerLog', n)
  BY <1>1, FrameNames, Recorded
<1> HIDE DEF len
<1>4. WorkerLogInStep'
  BY <1>2, <1>3 DEF WorkerLogInStep
<1>5. ParentLogInStep'
  <2>1. Follows(workerLog, 5) => Follows(workerLog', 5)
    BY <1>3
  <2> QED BY <1>1, <2>1 DEF ParentLogInStep, Admitted
<1>6. PipesInStep'
  <2>1. Follows(workerLog', 4) => Follows(workerLog, 4)
    <3>1. len < 4 => ~Follows(workerLog', 4)
      <4>1. CASE len = 3
        BY <1>3, <4>1, ScriptFrames DEF Follows
      <4>2. CASE len < 3
        BY <1>2, <1>3, <4>2 DEF Follows
      <4> QED BY <1>2, <4>1, <4>2
    <3>2. len >= 4 => Follows(workerLog, 4)
      BY <1>2 DEF Follows, len
    <3> QED BY <1>2, <3>1, <3>2
  <2>2. /\ Len(toSup) \in Nat /\ Len(toSup') = Len(toSup) + 1 /\ toSup'[Len(toSup) + 1] = "failure"
        /\ \A i \in 1 .. Len(toSup) : toSup'[i] = toSup[i]
    BY <1>1, FrameNames, AppendProperties
  <2>3. ASSUME NEW i \in 1 .. Len(toSup'), toSup'[i] = "acknowledged"
        PROVE  Follows(workerLog', 5)
    <3>1. i \in 1 .. Len(toSup)
      BY <2>2, <2>3
    <3> QED BY <1>1, <1>3, <2>2, <2>3, <3>1 DEF PipesInStep
  <2> QED BY <1>1, <2>1, <2>3 DEF PipesInStep, Admitted
<1> QED BY <1>4, <1>5, <1>6 DEF InStep

\* The worker reads the admission, which was sent for the published manifest.
LEMMA AdmissionRead ==
    ASSUME IInv, worker = "await", worker' = "reverify", toWorker # <<>>,
           workerLog' = Append(workerLog, Head(toWorker)), toWorker' = Tail(toWorker),
           UNCHANGED <<manifest, sup, supLog, validated, toSup>>
    PROVE  InStep'
<1>1. /\ workerLog \in Seq(Frames) /\ toWorker \in Seq({"admit"})
      /\ ParentLogInStep /\ PipesInStep /\ WorkerLogInStep
  BY DEF IInv, TypeOK
<1>2. Head(toWorker) = "admit" /\ Admitted
  BY <1>1, Taken DEF PipesInStep
<1>3. Len(workerLog) = 3 /\ \A i \in 1 .. 3 : workerLog[i] = Script[i]
  BY <1>1, WorkerFollows DEF WorkerLogInStep, Follows
<1>4. /\ Len(workerLog') = 4 /\ workerLog'[4] = "admit"
      /\ \A i \in 1 .. 3 : workerLog'[i] = workerLog[i]
      /\ \A n \in 1 .. 5 : Follows(workerLog, n) => Follows(workerLog', n)
  <2>1. workerLog' = Append(workerLog, "admit")
    BY <1>2
  <2>2. /\ Len(Append(workerLog, "admit")) = Len(workerLog) + 1
        /\ \A i \in 1 .. Len(workerLog) : Append(workerLog, "admit")[i] = workerLog[i]
        /\ Append(workerLog, "admit")[Len(workerLog) + 1] = "admit"
        /\ \A n \in 1 .. 5 : Follows(workerLog, n) => Follows(Append(workerLog, "admit"), n)
    BY <1>1, FrameNames, Recorded
  <2>3. Len(workerLog) + 1 = 4
    BY <1>3
  <2> QED BY <1>3, <2>1, <2>2, <2>3
<1>5. \A i \in 1 .. 4 : workerLog'[i] = Script[i]
  BY <1>3, <1>4, ScriptFrames
<1>6. WorkerLogInStep'
  BY <1>4, <1>5 DEF WorkerLogInStep
<1>7. Follows(workerLog, 5) => Follows(workerLog', 5)
  BY <1>4
<1>8. ParentLogInStep'
  BY <1>1, <1>7 DEF ParentLogInStep, Admitted
<1>9. PipesInStep'
  BY <1>1, <1>2, <1>7 DEF PipesInStep, Admitted
<1> QED BY <1>6, <1>8, <1>9 DEF InStep

LEMMA WorkerKeeps == ASSUME IInv, WorkerNext PROVE InStep'
<1>1. UNCHANGED <<manifest, sup, supLog, validated>>
  BY DEF WorkerNext, Boot, Detach, LoadInputs, SendStarted, SendEntered, PublishReceipts,
         SendReceipts, ReceiveManifest, Reverify, Acknowledge, RunAttempt, SendFailure,
         CloseWorker, Exit, Gone, WorkerSend, files, parent
<1>2. CASE \/ Boot \/ Detach \/ LoadInputs \/ PublishReceipts \/ Reverify \/ RunAttempt
           \/ CloseWorker \/ Exit
  <2>1. UNCHANGED <<toSup, toWorker, workerLog>>
    BY <1>2 DEF Boot, Detach, LoadInputs, PublishReceipts, Reverify, RunAttempt, CloseWorker,
                Exit, Gone, pipes
  <2>2. /\ worker # "none"
        /\ \/ worker' \in Over \cup {"raised"} /\ worker \notin Over
           \/ worker' \in Over /\ worker \in Over
           \/ worker \in {"boot", "session", "load"} /\ worker' \in {"session", "load", "start"}
           \/ worker = "inspect" /\ worker' = "deliver"
           \/ worker = "reverify" /\ worker' = "acknowledge"
    BY <1>2 DEF Boot, Detach, LoadInputs, PublishReceipts, Reverify, RunAttempt, CloseWorker,
                Exit, Gone, WorkerRaises, Over
  <2> QED BY <1>1, <2>1, <2>2, WorkerMoves
<1>3. ASSUME NEW here \in {"start", "enter", "deliver", "acknowledge"}, NEW f, NEW next,
             NEW expired, WorkerSend(here, f, next, expired)
      PROVE  /\ worker = here /\ UNCHANGED toWorker
             /\ \/ /\ toSup' = Append(toSup, f) /\ workerLog' = Append(workerLog, f)
                   /\ worker' = next
                \/ UNCHANGED <<toSup, workerLog>> /\ worker' = "raised"
  BY <1>3 DEF WorkerSend, WorkerRaises
<1>4. CASE SendStarted
  <2>1. worker = "start" /\ Len(workerLog) = 0 /\ UNCHANGED toWorker
    BY <1>3, <1>4 DEF SendStarted, IInv, WorkerLogInStep
  <2>2. CASE worker' = "raised" /\ UNCHANGED <<toSup, workerLog>>
    BY <1>1, <2>1, <2>2, WorkerMoves DEF Over
  <2>3. CASE /\ toSup' = Append(toSup, "worker_started") /\ worker' = "enter"
             /\ workerLog' = Append(workerLog, "worker_started")
    BY <1>1, <2>1, <2>3, FrameSent, FrameNames DEF Over
  <2> QED BY <1>3, <1>4, <2>2, <2>3 DEF SendStarted
<1>5. CASE SendEntered
  <2>1. worker = "enter" /\ Len(workerLog) = 1 /\ UNCHANGED toWorker
    BY <1>3, <1>5 DEF SendEntered, IInv, WorkerLogInStep
  <2>2. CASE worker' = "raised" /\ UNCHANGED <<toSup, workerLog>>
    BY <1>1, <2>1, <2>2, WorkerMoves DEF Over
  <2>3. CASE /\ toSup' = Append(toSup, "stage_entered") /\ worker' = "inspect"
             /\ workerLog' = Append(workerLog, "stage_entered")
    BY <1>1, <2>1, <2>3, FrameSent, FrameNames DEF Over
  <2> QED BY <1>3, <1>5, <2>2, <2>3 DEF SendEntered
<1>6. CASE SendReceipts
  <2>1. worker = "deliver" /\ Len(workerLog) = 2 /\ UNCHANGED toWorker
    BY <1>3, <1>6 DEF SendReceipts, IInv, WorkerLogInStep
  <2>2. CASE worker' = "raised" /\ UNCHANGED <<toSup, workerLog>>
    BY <1>1, <2>1, <2>2, WorkerMoves DEF Over
  <2>3. CASE /\ toSup' = Append(toSup, "preflight_receipts") /\ worker' = "await"
             /\ workerLog' = Append(workerLog, "preflight_receipts")
    BY <1>1, <2>1, <2>3, FrameSent, FrameNames DEF Over
  <2> QED BY <1>3, <1>6, <2>2, <2>3 DEF SendReceipts
<1>7. CASE Acknowledge
  <2>1. worker = "acknowledge" /\ Len(workerLog) = 4 /\ UNCHANGED toWorker
    BY <1>3, <1>7 DEF Acknowledge, IInv, WorkerLogInStep
  <2>2. CASE worker' = "raised" /\ UNCHANGED <<toSup, workerLog>>
    BY <1>1, <2>1, <2>2, WorkerMoves DEF Over
  <2>3. CASE /\ toSup' = Append(toSup, "acknowledged") /\ worker' = "attempt"
             /\ workerLog' = Append(workerLog, "acknowledged")
    BY <1>1, <2>1, <2>3, FrameSent, FrameNames DEF Over
  <2> QED BY <1>3, <1>7, <2>2, <2>3 DEF Acknowledge
<1>8. CASE ReceiveManifest
  <2>1. CASE worker' = "reverify"
    BY <1>1, <1>8, <2>1, AdmissionRead DEF ReceiveManifest, WorkerRaises
  <2>2. CASE worker' = "raised"
    BY <1>1, <1>8, <2>2, WorkerMoves DEF ReceiveManifest, WorkerRaises, Over
  <2> QED BY <1>8, <2>1, <2>2 DEF ReceiveManifest, WorkerRaises
<1>9. CASE SendFailure
  <2>1. CASE workerOpen /\ supOpen
    BY <1>1, <1>9, <2>1, FailureSent DEF SendFailure
  <2>2. CASE ~(workerOpen /\ supOpen)
    BY <1>1, <1>9, <2>2, WorkerMoves DEF SendFailure, Over
  <2> QED BY <2>1, <2>2
<1> QED BY <1>2, <1>4, <1>5, <1>6, <1>7, <1>8, <1>9 DEF WorkerNext

\* The parent's transcript, or where the parent is, leaves the worker's part.
LEMMA WorkerLogStays ==
    ASSUME WorkerLogInStep, UNCHANGED <<worker, workerLog>>
    PROVE  WorkerLogInStep'
BY DEF WorkerLogInStep

\* The parent moves on, or gives up, with the transcript as it is.
LEMMA ParentMoves ==
    ASSUME IInv, sup # "spawn", UNCHANGED <<manifest, supLog, worker, workerLog, toSup, toWorker>>,
           sup' \in Cleanup \cup Returned
    PROVE  InStep'
<1>1. WorkerLogInStep'
  BY WorkerLogStays DEF IInv
<1>2. ParentLogInStep' /\ PipesInStep'
  BY DEF IInv, ParentLogInStep, PipesInStep, Admitted, Cleanup, Returned
<1> QED BY <1>1, <1>2 DEF InStep

\* The parent reads a frame before it has admitted anything.
LEMMA FrameRead ==
    ASSUME IInv, sup \in {"started", "entered", "delivered"},
           sup' \in {"entered", "delivered", "checks"},
           toSup # <<>>, supLog' = Append(supLog, Head(toSup)), toSup' = Tail(toSup),
           UNCHANGED <<manifest, worker, workerLog, toWorker>>
    PROVE  InStep'
<1>1. /\ toSup \in Seq(WorkerFrames) /\ supLog \in Seq(Frames)
      /\ ParentLogInStep /\ PipesInStep /\ WorkerLogInStep
  BY DEF IInv, TypeOK
<1>2. Admitted => Admitted'
  <2>1. Head(toSup) \in Frames
    BY <1>1, Taken, FrameNames
  <2>2. Follows(supLog, 4) => Follows(supLog', 4)
    BY <1>1, <2>1, Recorded
  <2> QED BY <2>2 DEF Admitted
<1>3. PipesInStep'
  <2>1. \A i \in 1 .. Len(Tail(toSup)) : i + 1 \in 1 .. Len(toSup) /\ Tail(toSup)[i] = toSup[i + 1]
    BY <1>1, Taken
  <2>2. \A i \in 1 .. Len(toSup') : toSup'[i] = "acknowledged" => Follows(workerLog', 5)
    BY <1>1, <2>1 DEF PipesInStep
  <2>3. Follows(workerLog', 4) => Follows(workerLog, 4)
    OBVIOUS
  <2> QED BY <1>1, <1>2, <2>2, <2>3 DEF PipesInStep
<1>4. ParentLogInStep'
  BY <1>1 DEF ParentLogInStep
<1>5. WorkerLogInStep'
  BY <1>1, WorkerLogStays
<1> QED BY <1>3, <1>4, <1>5 DEF InStep

\* The admission goes out for the manifest that binds the preflight.
LEMMA AdmissionSent ==
    ASSUME IInv, sup = "admit", sup' = "answer",
           supLog' = Append(supLog, "admit"), toWorker' = Append(toWorker, "admit"),
           UNCHANGED <<manifest, validated, worker, workerLog, toSup>>
    PROVE  InStep'
<1>1. /\ ParentLogInStep /\ PipesInStep /\ WorkerLogInStep
      /\ supLog = Preflight /\ manifest = Preflight /\ validated
  BY DEF IInv, ParentLogInStep
<1>2. /\ supLog' = Append(Preflight, "admit")
      /\ Preflight \in Seq(Frames) /\ Len(Preflight) = 3 /\ \A i \in 1 .. 3 : Preflight[i] = Script[i]
  BY <1>1, ScriptFrames DEF Follows
<1>3. Len(supLog') = 4 /\ Follows(supLog', 4)
  <2>1. /\ Len(Append(Preflight, "admit")) = Len(Preflight) + 1
        /\ \A i \in 1 .. Len(Preflight) : Append(Preflight, "admit")[i] = Preflight[i]
        /\ Append(Preflight, "admit")[Len(Preflight) + 1] = "admit"
    BY <1>2, FrameNames, AppendProperties
  <2>2. Len(supLog') = 4 /\ supLog'[4] = "admit" /\ \A i \in 1 .. 3 : supLog'[i] = Script[i]
    <3>1. Len(Preflight) + 1 = 4
      BY <1>2
    <3> QED BY <1>2, <2>1, <3>1
  <2>3. \A i \in 1 .. 4 : supLog'[i] = Script[i]
    BY <2>2, ScriptFrames
  <2> QED BY <2>2, <2>3 DEF Follows
<1>4. Admitted'
  BY <1>1, <1>3 DEF Admitted
<1>5. ParentLogInStep'
  BY <1>1, <1>3, <1>4 DEF ParentLogInStep
<1>6. PipesInStep'
  BY <1>1, <1>4 DEF PipesInStep
<1>7. WorkerLogInStep'
  BY <1>1, WorkerLogStays
<1> QED BY <1>5, <1>6, <1>7 DEF InStep

\* The fourth frame of the worker's is the acknowledgement, or the end.
LEMMA AnswerRead ==
    ASSUME IInv, sup = "answer", toSup # <<>>,
           supLog' = Append(supLog, Head(toSup)), toSup' = Tail(toSup),
           sup' = IF Head(toSup) = "acknowledged" THEN "authorized" ELSE "terminate",
           UNCHANGED <<manifest, validated, worker, workerLog, toWorker>>
    PROVE  InStep'
<1>1. /\ toSup \in Seq(WorkerFrames) /\ supLog \in Seq(Frames)
      /\ ParentLogInStep /\ PipesInStep /\ WorkerLogInStep
      /\ Admitted /\ Len(supLog) = 4 /\ validated
  BY DEF IInv, TypeOK, ParentLogInStep
<1>2. /\ Len(supLog') = 5 /\ supLog'[5] = Head(toSup)
      /\ \A i \in 1 .. 4 : supLog'[i] = supLog[i]
      /\ \A n \in 1 .. 5 : Follows(supLog, n) => Follows(supLog', n)
  <2>1. Head(toSup) \in Frames
    BY <1>1, Taken, FrameNames
  <2>2. /\ Len(Append(supLog, Head(toSup))) = Len(supLog) + 1
        /\ \A i \in 1 .. Len(supLog) : Append(supLog, Head(toSup))[i] = supLog[i]
        /\ Append(supLog, Head(toSup))[Len(supLog) + 1] = Head(toSup)
        /\ \A n \in 1 .. 5 : Follows(supLog, n) => Follows(Append(supLog, Head(toSup)), n)
    BY <1>1, <2>1, Recorded
  <2>3. Len(supLog) + 1 = 5
    BY <1>1
  <2> QED BY <1>1, <2>2, <2>3
<1>3. Admitted'
  BY <1>1, <1>2 DEF Admitted
<1>4. PipesInStep'
  <2>1. \A i \in 1 .. Len(Tail(toSup)) : i + 1 \in 1 .. Len(toSup) /\ Tail(toSup)[i] = toSup[i + 1]
    BY <1>1, Taken
  <2>2. \A i \in 1 .. Len(toSup') : toSup'[i] = "acknowledged" => Follows(workerLog', 5)
    BY <1>1, <2>1 DEF PipesInStep
  <2> QED BY <1>3, <2>2 DEF PipesInStep
<1>5. ParentLogInStep'
  <2>1. CASE sup' = "terminate"
    BY <2>1 DEF ParentLogInStep
  <2>2. CASE sup' = "authorized" /\ Head(toSup) = "acknowledged"
    <3>1. Head(toSup) = toSup[1] /\ 1 \in 1 .. Len(toSup)
      BY <1>1, Taken
    <3>2. Follows(workerLog, 5)
      BY <1>1, <2>2, <3>1 DEF PipesInStep
    <3>3. \A i \in 1 .. 4 : supLog[i] = Script[i]
      BY <1>1 DEF Admitted, Follows
    <3>4. \A i \in 1 .. 5 : supLog'[i] = Script[i]
      BY <1>2, <2>2, <3>3, ScriptFrames
    <3>5. Follows(supLog', 5)
      BY <1>2, <3>4 DEF Follows
    <3> QED BY <1>1, <1>2, <2>2, <3>2, <3>5 DEF ParentLogInStep
  <2> QED BY <2>1, <2>2
<1>6. WorkerLogInStep'
  BY <1>1, WorkerLogStays
<1> QED BY <1>4, <1>5, <1>6 DEF InStep

LEMMA ParentKeeps == ASSUME IInv, ParentNext PROVE InStep'
<1>1. CASE Spawn
  <2>1. /\ worker = "none" /\ worker' = "boot" /\ sup' \in {"started", "spawn_failed"}
        /\ UNCHANGED <<manifest, supLog, validated, workerLog, toSup, toWorker>>
    BY <1>1 DEF Spawn, IInv, ParentLogInStep, files, pipes
  <2>2. Len(workerLog) = 0
    BY <2>1 DEF IInv, WorkerLogInStep
  <2>3. WorkerLogInStep'
    BY <2>1, <2>2 DEF WorkerLogInStep, IInv
  <2>4. ParentLogInStep' /\ PipesInStep'
    BY <2>1 DEF IInv, ParentLogInStep, PipesInStep, Admitted
  <2> QED BY <2>3, <2>4 DEF InStep
<1>2. CASE ReceiveStarted \/ ReceiveEntered \/ ReceiveReceipts
  <2>1. /\ sup \in {"started", "entered", "delivered"}
        /\ UNCHANGED <<manifest, worker, workerLog, toWorker>>
        /\ \/ /\ toSup # <<>> /\ supLog' = Append(supLog, Head(toSup)) /\ toSup' = Tail(toSup)
              /\ sup' \in {"entered", "delivered", "checks"}
           \/ sup' = "terminate" /\ UNCHANGED <<supLog, toSup>>
    BY <1>2 DEF ReceiveStarted, ReceiveEntered, ReceiveReceipts, SupReceive, SupFails, files, process
  <2> QED BY <2>1, FrameRead, ParentMoves DEF Cleanup
<1>3. CASE CheckPreflight
  <2>1. UNCHANGED <<manifest, supLog, worker, workerLog, toSup, toWorker>> /\ sup = "checks"
    BY <1>3 DEF CheckPreflight, Raise, files, process, pipes
  <2>2. CASE sup' = "terminate"
    BY <2>1, <2>2, ParentMoves DEF Cleanup
  <2>3. CASE sup' = "publish" /\ supLog = Preflight /\ validated' = TRUE
    <3>1. WorkerLogInStep'
      BY <2>1, WorkerLogStays DEF IInv
    <3>2. ParentLogInStep' /\ PipesInStep'
      BY <2>1, <2>3 DEF IInv, ParentLogInStep, PipesInStep, Admitted
    <3> QED BY <3>1, <3>2 DEF InStep
  <2> QED BY <1>3, <2>2, <2>3 DEF CheckPreflight, Raise, Delivered
<1>4. CASE PublishManifest
  <2>1. /\ UNCHANGED <<supLog, validated, worker, workerLog, toSup, toWorker>> /\ sup = "publish"
        /\ supLog = Preflight /\ validated
    BY <1>4 DEF PublishManifest, IInv, ParentLogInStep, process, pipes
  <2>2. CASE sup' = "terminate" /\ manifest' = manifest
    BY <2>1, <2>2, ParentMoves DEF Cleanup
  <2>3. CASE sup' = "admit" /\ manifest' = Preflight
    <3>1. WorkerLogInStep'
      BY <2>1, WorkerLogStays DEF IInv
    <3>2. ParentLogInStep' /\ PipesInStep'
      BY <2>1, <2>3 DEF IInv, ParentLogInStep, PipesInStep, Admitted
    <3> QED BY <3>1, <3>2 DEF InStep
  <2> QED BY <1>4, <2>1, <2>2, <2>3 DEF PublishManifest
<1>5. CASE SendAdmission
  <2>1. CASE sup' = "answer"
    BY <1>5, <2>1, AdmissionSent DEF SendAdmission, SupFails, files, process
  <2>2. CASE sup' = "terminate"
    <3>1. UNCHANGED <<manifest, supLog, worker, workerLog, toSup, toWorker>> /\ sup = "admit"
      BY <1>5, <2>2 DEF SendAdmission, SupFails, files, process
    <3> QED BY <2>2, <3>1, ParentMoves DEF Cleanup
  <2> QED BY <1>5, <2>1, <2>2 DEF SendAdmission, SupFails
<1>6. CASE ReceiveAnswer
  <2>1. /\ sup = "answer" /\ UNCHANGED <<manifest, validated, worker, workerLog, toWorker>>
        /\ \/ /\ toSup # <<>> /\ supLog' = Append(supLog, Head(toSup)) /\ toSup' = Tail(toSup)
              /\ sup' = IF Head(toSup) = "acknowledged" THEN "authorized" ELSE "terminate"
           \/ sup' = "terminate" /\ UNCHANGED <<supLog, toSup>>
    BY <1>6 DEF ReceiveAnswer, SupFails, IsAcknowledgement, files, process
  <2> QED BY <2>1, AnswerRead, ParentMoves DEF Cleanup
<1>7. CASE Finish \/ Terminate \/ GraceEnds \/ Kill \/ WaitEnds
  <2>1. /\ UNCHANGED <<manifest, supLog, worker, workerLog, toSup, toWorker>>
        /\ sup # "spawn" /\ sup' \in Cleanup \cup Returned
    BY <1>7 DEF Finish, Raise, Terminate, GraceEnds, Kill, WaitEnds, Leave, Survivor, Cleanup,
                Returned, files, process, pipes
  <2> QED BY <2>1, ParentMoves
<1> QED BY <1>1, <1>2, <1>3, <1>4, <1>5, <1>6, <1>7 DEF ParentNext

LEMMA EnvironmentKeeps == ASSUME IInv, Environment \/ UNCHANGED vars PROVE InStep'
<1>1. CASE Signalled \/ Killed
  BY <1>1, WorkerMoves DEF Signalled, Killed, Gone, WorkerAlive, WorkerSteps, Over, files, parent,
                           pipes
<1>2. CASE ParentDies
  BY <1>2, ParentMoves DEF ParentDies, Returned, files, process, pipes
<1>3. CASE Tick \/ Overdue \/ EditSources \/ UNCHANGED vars
  <2>1. UNCHANGED <<manifest, sup, supLog, validated, worker, workerLog, toSup, toWorker>>
    BY <1>3 DEF Tick, Overdue, EditSources, vars, files, parent, process, pipes
  <2> QED BY <2>1 DEF IInv, InStep, WorkerLogInStep, ParentLogInStep, PipesInStep, Admitted
<1> QED BY <1>1, <1>2, <1>3 DEF Environment

LEMMA InvariantAtStart == ASSUME Init PROVE IInv
<1>1. TypeOK
  <2>1. \A S : <<>> \in Seq(S)
    BY EmptySeq
  <2>2. /\ supLog \in Seq(Frames) /\ workerLog \in Seq(Frames)
        /\ toSup \in Seq(WorkerFrames) /\ toWorker \in Seq({"admit"})
    BY <2>1 DEF Init
  <2>3. /\ overdue \in BOOLEAN /\ supOpen \in BOOLEAN /\ validated \in BOOLEAN
        /\ detached \in BOOLEAN /\ workerOpen \in BOOLEAN
    BY DEF Init
  <2>4. /\ target \in Targets /\ time \in 0 .. 3 /\ tree \in {"bound", "edited"}
        /\ sup \in {"spawn", "authorized"} /\ worker \in {"none", "gone"}
        /\ signal \in {"none", "term", "kill"}
    BY DEF Init
  <2>5. manifest \in {<<>>, Preflight}
    BY DEF Init
  <2> QED BY <2>2, <2>3, <2>4, <2>5 DEF TypeOK
<1>2. Len(workerLog) = 0 /\ Len(toSup) = 0
  BY DEF Init
<1> QED BY <1>1, <1>2 DEF Init, IInv, WorkerLogInStep, ParentLogInStep, PipesInStep, Follows, Over,
                         Admitted

\* Every behaviour keeps both transcripts in step with the script.
LEMMA Invariance == Spec => []IInv
<1>1. Init => IInv
  BY InvariantAtStart
<1>2. IInv /\ [Next]_vars => IInv'
  <2> SUFFICES ASSUME IInv, [Next]_vars PROVE IInv'
    OBVIOUS
  <2>1. TypeOK'
    BY Typed DEF IInv
  <2>2. InStep'
    BY WorkerKeeps, ParentKeeps, EnvironmentKeeps DEF Next
  <2> QED BY <2>1, <2>2 DEF IInv, InStep
<1> QED BY <1>1, <1>2, PTL DEF Spec

\* Both processes, their transcripts, the pipes and the files keep their types
\* through failed sends, expired deadlines and deaths.
THEOREM TypeCorrect == Spec => []TypeOK
<1>1. IInv => TypeOK
  BY DEF IInv
<1> QED BY <1>1, Invariance, PTL

\* Construction is authorised on both sides of the channel or on neither: the
\* parent's authority rests on a worker that reverified the manifest, and the
\* worker's on a manifest this parent published and admitted over this channel.
THEOREM AuthorityMutual == Spec => []AuthorityIsMutual
BY Invariance, MutualByScript, PTL

-----------------------------------------------------------------------------
(* What becomes of an admission                                            *)

\* A frame that is no acknowledgement does not complete the script.
LEMMA FifthFrame ==
    ASSUME NEW log \in Seq(Frames), NEW f \in Frames, f # "acknowledged",
           Follows(Append(log, f), 5)
    PROVE  Follows(log, 5)
<1>1. /\ Len(log) \in Nat /\ Len(Append(log, f)) = Len(log) + 1
      /\ \A i \in 1 .. Len(log) : Append(log, f)[i] = log[i]
      /\ Append(log, f)[Len(log) + 1] = f
  BY Recorded
<1>2. Len(Append(log, f)) >= 5 /\ \A i \in 1 .. 5 : Append(log, f)[i] = Script[i]
  BY DEF Follows
<1>3. Len(log) # 4
  BY <1>1, <1>2, ScriptFrames
<1> DEFINE len == Len(log)
<1>4. len \in Nat /\ len + 1 >= 5 /\ len # 4
  BY <1>1, <1>2, <1>3
<1> HIDE DEF len
<1>5. len >= 5 /\ \A i \in 1 .. 5 : i \in 1 .. len
  BY <1>4
<1> QED BY <1>1, <1>2, <1>5 DEF Follows, len

\* Only an acknowledgement acknowledges.
LEMMA OthersDoNotAcknowledge ==
    ASSUME IInv, [Next]_vars, ~Acknowledge, Follows(workerLog', 5)
    PROVE  Follows(workerLog, 5)
<1>1. workerLog \in Seq(Frames) /\ toWorker \in Seq({"admit"})
  BY DEF IInv, TypeOK
<1>2. CASE UNCHANGED workerLog
  BY <1>2
<1>3. ASSUME NEW f \in Frames, f # "acknowledged", workerLog' = Append(workerLog, f)
      PROVE  Follows(workerLog, 5)
  BY <1>1, <1>3, FifthFrame
<1>4. toWorker # <<>> => Head(toWorker) = "admit"
  BY <1>1, Taken
<1>5. \/ UNCHANGED workerLog
      \/ \E f \in {"worker_started", "stage_entered", "preflight_receipts", "failure", "admit"} :
            workerLog' = Append(workerLog, f)
  <2>1. CASE WorkerNext
    BY <1>4, <2>1
    DEF WorkerNext, Boot, Detach, LoadInputs, SendStarted, SendEntered, PublishReceipts,
        SendReceipts, ReceiveManifest, Reverify, RunAttempt, SendFailure, CloseWorker, Exit,
        Gone, WorkerSend
  <2>2. CASE ParentNext
    BY <2>2
    DEF ParentNext, Spawn, ReceiveStarted, ReceiveEntered, ReceiveReceipts, SupReceive,
        CheckPreflight, Raise, PublishManifest, SendAdmission, ReceiveAnswer, Finish, Terminate,
        GraceEnds, Kill, WaitEnds, process
  <2>3. CASE Environment \/ UNCHANGED vars
    BY <2>3 DEF Environment, Signalled, Killed, Gone, ParentDies, Tick, Overdue, EditSources,
                vars, process
  <2> QED BY <2>1, <2>2, <2>3 DEF Next
<1> QED BY <1>2, <1>3, <1>5, FrameNames

\* Where the worker comes from, but for the spawn.
LEMMA WorkerCameFrom ==
    ASSUME [Next]_vars, UNCHANGED target
    PROVE  /\ worker' = "acknowledge" => worker = "acknowledge" \/ Reverify
           /\ worker' = "attempt" => worker = "attempt" \/ Acknowledge
           /\ worker' = "raised" /\ worker = "reverify" => Reverify
           /\ worker' \in WorkerSteps => worker \in WorkerSteps \/ Spawn
<1>1. CASE WorkerNext
  BY <1>1
  DEF WorkerNext, Boot, Detach, LoadInputs, SendStarted, SendEntered, PublishReceipts,
      SendReceipts, ReceiveManifest, Reverify, Acknowledge, RunAttempt, SendFailure, CloseWorker,
      Exit, Gone, WorkerSend, WorkerRaises, WorkerSteps
<1>2. CASE ParentNext
  BY <1>2
  DEF ParentNext, Spawn, ReceiveStarted, ReceiveEntered, ReceiveReceipts, SupReceive,
      CheckPreflight, Raise, PublishManifest, SendAdmission, ReceiveAnswer, Finish, Terminate,
      GraceEnds, Kill, WaitEnds, process
<1>3. CASE Environment \/ UNCHANGED vars
  BY <1>3 DEF Environment, Signalled, Killed, Gone, ParentDies, Tick, Overdue, EditSources,
              vars, process, WorkerSteps
<1> QED BY <1>1, <1>2, <1>3 DEF Next

\* The worker at hand stays the one it is.
LEMMA SameTarget == ASSUME [Next]_vars PROVE UNCHANGED target
<1>1. CASE WorkerNext
  BY <1>1
  DEF WorkerNext, Boot, Detach, LoadInputs, SendStarted, SendEntered, PublishReceipts,
      SendReceipts, ReceiveManifest, Reverify, Acknowledge, RunAttempt, SendFailure, CloseWorker,
      Exit, Gone, WorkerSend
<1>2. CASE ParentNext
  BY <1>2
  DEF ParentNext, Spawn, ReceiveStarted, ReceiveEntered, ReceiveReceipts, SupReceive,
      CheckPreflight, Raise, PublishManifest, SendAdmission, ReceiveAnswer, Finish, Terminate,
      GraceEnds, Kill, WaitEnds
<1>3. CASE Environment \/ UNCHANGED vars
  BY <1>3 DEF Environment, Signalled, Killed, Gone, ParentDies, Tick, Overdue, EditSources, vars
<1> QED BY <1>1, <1>2, <1>3 DEF Next

\* The transcript at the reverification: the three preflight frames and the
\* admission, over the published manifest.
LEMMA AtReverify ==
    ASSUME IInv, worker = "reverify"
    PROVE  /\ manifest = Preflight /\ Len(workerLog) = 4
           /\ Front(workerLog) = Preflight /\ Len(Front(workerLog)) = Len(Preflight)
<1>1. workerLog \in Seq(Frames) /\ WorkerLogInStep /\ PipesInStep /\ Len(workerLog) = 4
  BY DEF IInv, TypeOK, WorkerLogInStep
<1>2. Follows(workerLog, 4) /\ Follows(workerLog, 3)
  <2>1. Follows(workerLog, 4)
    BY <1>1, WorkerFollows
  <2> QED BY <1>1, <2>1, Shorter
<1>3. manifest = Preflight
  BY <1>1, <1>2 DEF PipesInStep, Admitted
<1>4. SubSeq(workerLog, 1, 3) = SubSeq(Preflight, 1, 3) /\ SubSeq(Preflight, 1, 3) = Preflight
  BY <1>1, <1>2, ScriptFrames, SamePart, SubSeqFull
<1>5. Front(workerLog) = SubSeq(workerLog, 1, 3)
  <2>1. Len(workerLog) - 1 = 3
    BY <1>1
  <2> QED BY <2>1 DEF Front
<1> QED BY <1>1, <1>3, <1>4, <1>5

\* The shipped worker reverifies a transcript that already holds the admission,
\* which no manifest binds: it never acknowledges, and no attempt with it is
\* ever authorised.
ShippedNeverAuthorized ==
    target = "shipped" => sup # "authorized" /\ worker # "attempt"

\* Whatever happens to the processes, the shipped worker gets no authority.
THEOREM ShippedUnauthorized == Spec => []ShippedNeverAuthorized
<1> DEFINE Silent == target = "shipped" => worker # "acknowledge" /\ ~Follows(workerLog, 5)
<1>1. Init => Silent
  BY DEF Init, Follows
<1>2. ASSUME IInv, Silent, [Next]_vars PROVE Silent'
  <2> SUFFICES ASSUME target = "shipped" PROVE worker' # "acknowledge" /\ ~Follows(workerLog', 5)
    BY <1>2, SameTarget
  <2>1. worker # "acknowledge" /\ ~Follows(workerLog, 5)
    BY <1>2
  <2>2. ~Acknowledge
    BY <2>1 DEF Acknowledge, WorkerSend
  <2>3. ~Follows(workerLog', 5)
    BY <1>2, <2>1, <2>2, OthersDoNotAcknowledge
  <2>4. ASSUME Reverify PROVE worker' = "raised"
    <3>1. worker = "reverify"
      BY <2>4 DEF Reverify
    <3>2. Len(workerLog) = 4 /\ Len(Preflight) = 3
      BY <1>2, <3>1, AtReverify, ScriptFrames
    <3>3. ~Reverified
      BY <3>2 DEF Reverified, Boundary
    <3> QED BY <2>4, <3>3 DEF Reverify, WorkerRaises
  <2>5. worker' # "acknowledge"
    BY <1>2, <2>1, <2>4, SameTarget, WorkerCameFrom
  <2> QED BY <2>3, <2>5
<1>3. ASSUME IInv, Silent PROVE ShippedNeverAuthorized
  <2>1. worker = "attempt" => Follows(workerLog, 5)
    BY <1>3, WorkerFollows DEF IInv, TypeOK, WorkerLogInStep
  <2>2. sup = "authorized" => Follows(workerLog, 5)
    BY <1>3 DEF IInv, ParentLogInStep
  <2> QED BY <1>3, <2>1, <2>2 DEF ShippedNeverAuthorized
<1> HIDE DEF Silent
<1>4. IInv /\ Silent /\ [Next]_vars => Silent'
  BY <1>2
<1>5. IInv /\ Silent => ShippedNeverAuthorized
  BY <1>3
<1> QED BY <1>1, <1>4, <1>5, Invariance, PTL DEF Spec

\* The boundary is all there is to it: a worker that takes its transcript before
\* the admission frame refuses no admitted manifest over unedited sources.
ConformingAcknowledged ==
    [][target = "conforming" /\ worker = "reverify" /\ tree = "bound" => worker' # "raised"]_vars

\* The conforming worker reverifies every manifest it is admitted with.
THEOREM ConformingReverifies == Spec => ConformingAcknowledged
<1> DEFINE Heeded == target = "conforming" /\ worker = "reverify" /\ tree = "bound"
                       => worker' # "raised"
<1>1. ASSUME IInv, [Next]_vars PROVE Heeded
  <2> SUFFICES ASSUME target = "conforming", worker = "reverify", tree = "bound",
                      worker' = "raised"
               PROVE  FALSE
    OBVIOUS
  <2>1. Reverify
    BY <1>1, SameTarget, WorkerCameFrom
  <2>2. Reverified
    BY <1>1, AtReverify DEF Reverified, Boundary
  <2> QED BY <2>1, <2>2 DEF Reverify
<1> HIDE DEF Heeded
<1>2. IInv /\ [Next]_vars => [Heeded]_vars
  BY <1>1
<1>3. Spec => [][Heeded]_vars
  BY <1>2, Invariance, PTL DEF Spec
<1> QED BY <1>3 DEF ConformingAcknowledged, Heeded

-----------------------------------------------------------------------------
(* The end of an attempt                                                   *)

\* terminate_tqc_worker_v2 never says of a living worker that it ended, and it
\* reports a survivor only when SIGKILL is on its way.
TerminationTruthful ==
    /\ sup = "ended" => worker = "gone"
    /\ sup = "survived" => signal = "kill"

\* No worker is left behind unreported.
THEOREM TerminationTells == Spec => []TerminationTruthful
<1> DEFINE Told == /\ sup = "ended" => ~WorkerAlive
                   /\ sup \in {"wait", "survived"} => signal = "kill"
                   /\ sup # "spawn" => worker # "none"
<1>1. Init => Told
  BY DEF Init
<1>2. ASSUME IInv, Told, [Next]_vars PROVE Told'
  <2>1. CASE ParentNext
    <3>1. CASE Spawn
      BY <3>1 DEF Spawn
    <3>2. CASE ReceiveStarted \/ ReceiveEntered \/ ReceiveReceipts \/ ReceiveAnswer
      BY <1>2, <3>2 DEF ReceiveStarted, ReceiveEntered, ReceiveReceipts, SupReceive, SupFails,
                        ReceiveAnswer, process
    <3>3. CASE CheckPreflight \/ PublishManifest \/ SendAdmission \/ Finish
      BY <1>2, <3>3 DEF CheckPreflight, Raise, PublishManifest, SendAdmission, SupFails, Finish,
                        process
    <3>4. CASE Terminate \/ GraceEnds \/ Kill \/ WaitEnds
      BY <1>2, <3>4 DEF Terminate, GraceEnds, Kill, WaitEnds, Leave, Survivor, WorkerAlive, process
    <3> QED BY <2>1, <3>1, <3>2, <3>3, <3>4 DEF ParentNext
  <2>2. CASE WorkerNext \/ Signalled \/ Killed
    <3>1. UNCHANGED <<sup, signal>> /\ worker \in WorkerSteps /\ worker' # "none"
      BY <2>2
      DEF WorkerNext, Boot, Detach, LoadInputs, SendStarted, SendEntered, PublishReceipts,
          SendReceipts, ReceiveManifest, Reverify, Acknowledge, RunAttempt, SendFailure,
          CloseWorker, Exit, Signalled, Killed, Gone, WorkerSend, WorkerRaises, WorkerAlive,
          WorkerSteps, parent
    <3> QED BY <1>2, <3>1 DEF WorkerAlive
  <2>3. CASE ParentDies \/ Tick \/ Overdue \/ EditSources \/ UNCHANGED vars
    BY <1>2, <2>3 DEF ParentDies, Tick, Overdue, EditSources, vars, parent, process, WorkerAlive
  <2> QED BY <1>2, <2>1, <2>2, <2>3 DEF Next, Environment
<1>3. ASSUME IInv, Told PROVE TerminationTruthful
  BY <1>3 DEF TerminationTruthful, IInv, TypeOK, WorkerAlive
<1> HIDE DEF Told
<1>4. IInv /\ Told /\ [Next]_vars => Told'
  BY <1>2
<1>5. IInv /\ Told => TerminationTruthful
  BY <1>3
<1> QED BY <1>1, <1>4, <1>5, Invariance, PTL DEF Spec
=============================================================================
