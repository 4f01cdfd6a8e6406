------------------------- MODULE TrainingJobProofs -------------------------
(***************************************************************************)
(* Proofs about TrainingJob, for any number of seeds and progress frames:  *)
(* the pipe keeps supervisor and worker in step, construction waits for    *)
(* its admission, and receipts, result and index account for the seeds.    *)
(***************************************************************************)
EXTENDS TrainingJob, SequenceTheorems, TLAPS

USE TrainingConstants DEF SeedIds

-----------------------------------------------------------------------------
(* The invariant                                                           *)

InSession == sup \in {"poll", "alive"}
Admitted == {"acknowledged", "training", "completed"}
Ended == {"closing", "closed", "gone"}

\* At most one seed has failed by itself; those before it succeeded, those
\* after it were not started.
ReceiptsOrdered ==
    \A s \in SeedIds :
      /\ receipt[s] \in Failures =>
           /\ \A t \in SeedIds : t < s => receipt[t] = "succeeded"
           /\ \A t \in SeedIds : s < t /\ t < seed => receipt[t] = "not_started"
      /\ receipt[s] = "not_started" => \E t \in SeedIds : t < s /\ receipt[t] \in Failures
      /\ receipt[s] = "succeeded" => s \in artifacts

\* The result comes after the last receipt, the index after a successful result.
JobRecord ==
    /\ ResultAccounts
    /\ result # "none" => seed = Seeds + 1 /\ sup \in {"index", "returned", "raised"}
    /\ sup = "index" => result = "succeeded"
    /\ index => sup = "returned" /\ result = "succeeded" /\ artifacts = SeedIds

\* A completion is kept only for a worker that completed and is gone, and a
\* worker outlives its seed only if that seed failed.
CompletionEarned ==
    /\ payload => stage = "completed"
    /\ sup \in {"settle", "receipt"} /\ payload => ~WorkerAlive
    /\ InSession => ~payload /\ terminal = "none"
    /\ WorkerAlive /\ ~JobFailed =>
         /\ seed \in SeedIds
         /\ sup \in {"poll", "alive", "cleanup", "settle", "receipt", "raised"}

\* The construction admission is sent, and used, only after the acknowledgement.
Begun ==
    /\ worker \in {"train", "persist"} => stage \in Admitted
    /\ \A i \in 1 .. Len(toWorker) : toWorker[i].type = "begin" => stage \in Admitted

\* Where the worker can be while the supervisor is at a stage.
WorkerInStep ==
    /\ steps <= done
    /\ worker \in {"await_admit", "await_begin"} => Len(toSup) <= 1
    /\ worker = "boot" => stage = "spawned" /\ toSup = <<>> /\ toWorker = <<>>
    /\ worker = "await_admit" =>
         \/ stage = "spawned" /\ toWorker = <<>>
         \/ stage = "worker_started" /\ toSup = <<>>
    /\ worker = "await_begin" =>
         \/ stage = "worker_started"
         \/ stage = "acknowledged" /\ toSup = <<>>
    /\ worker \in {"train", "persist"} =>
         /\ stage \in {"acknowledged", "training"}
         /\ \A i \in 1 .. Len(toSup) : toSup[i].type = "progress"

\* What a frame on its way says of both ends.
FrameInStep(i) ==
    /\ toSup[i].type = "worker_started" =>
         i = 1 /\ stage = "spawned" /\ worker \in {"await_admit"} \union Ended
    /\ toSup[i].type = "acknowledged" =>
         i = 1 /\ stage = "worker_started" /\ worker \in {"await_begin"} \union Ended
    /\ toSup[i].type \in {"progress", "completed"} =>
         /\ stage \in {"acknowledged", "training"}
         /\ worker \in {"train", "persist"} \union Ended
         /\ \A j \in 1 .. i - 1 : toSup[j].type = "progress"
    /\ toSup[i].type = "progress" =>
         /\ steps < toSup[i].n /\ toSup[i].n <= done
         /\ \A j \in 1 .. i - 1 : toSup[j].n < toSup[i].n

SessionInStep == InSession => WorkerInStep /\ \A i \in 1 .. Len(toSup) : FrameInStep(i)

IInv == /\ TypeOK
        /\ ReceiptsOrdered
        /\ JobRecord
        /\ CompletionEarned
        /\ Begun
        /\ SessionInStep
        /\ ConformingWorkerAccepted

-----------------------------------------------------------------------------
(* Frames                                                                  *)

LEMMA FrameKinds ==
    /\ \A t \in {"worker_started", "acknowledged", "completed", "failed",
                 "resource_breach", "torn", "admit", "begin"} :
          Frame(t) \in Frames /\ Frame(t).type = t
    /\ \A n \in 1 .. MaxSteps : [type |-> "progress", n |-> n] \in Frames
    /\ \A f \in Frames : f.type = "progress" => f.n \in 1 .. MaxSteps
BY DEF Frames, Frame

\* The rest of a pipe, and what is put at its end.
LEMMA TailShifts ==
    ASSUME NEW S, NEW q \in Seq(S), q # <<>>
    PROVE  /\ Len(q) \in Nat /\ Len(q) > 0 /\ Head(q) = q[1] /\ Head(q) \in S
           /\ Tail(q) \in Seq(S) /\ Len(Tail(q)) = Len(q) - 1
           /\ \A i \in 1 .. Len(q) - 1 : Tail(q)[i] = q[i + 1]
BY HeadTailProperties, EmptySeq

LEMMA OneMore ==
    ASSUME NEW S, NEW q \in Seq(S), NEW e \in S
    PROVE  /\ Append(q, e) = q \o <<e>>
           /\ Append(q, e) \in Seq(S) /\ Len(q) \in Nat /\ Len(Append(q, e)) = Len(q) + 1
           /\ \A i \in 1 .. Len(q) : Append(q, e)[i] = q[i]
           /\ Append(q, e)[Len(q) + 1] = e
BY AppendProperties

LEMMA TwoMore ==
    ASSUME NEW S, NEW q \in Seq(S), NEW e \in S, NEW f \in S
    PROVE  /\ q \o <<e, f>> \in Seq(S) /\ Len(q) \in Nat /\ Len(q \o <<e, f>>) = Len(q) + 2
           /\ \A i \in 1 .. Len(q) : (q \o <<e, f>>)[i] = q[i]
           /\ (q \o <<e, f>>)[Len(q) + 1] = e /\ (q \o <<e, f>>)[Len(q) + 2] = f
<1>1. <<e, f>> \in Seq(S) /\ Len(<<e, f>>) = 2
  OBVIOUS
<1> QED BY <1>1, ConcatProperties

-----------------------------------------------------------------------------
(* Types                                                                   *)

LEMMA SameJob == ASSUME UNCHANGED <<seed, receipt>> PROVE JobFailed' <=> JobFailed
BY DEF JobFailed

\* The seed of a living worker is one of the job's.
LEMMA WorkersSeed ==
    ASSUME TypeOK, ReceiptsOrdered, CompletionEarned, WorkerAlive
    PROVE  WorkerSeed \in SeedIds
<1>1. CASE JobFailed
  <2>1. PICK s \in 1 .. seed - 1 : receipt[s] # "succeeded"
    BY <1>1 DEF JobFailed
  <2>2. s \in SeedIds /\ receipt[s] # "none" /\ receipt[s] \in Statuses \union {"none"}
    BY <2>1 DEF TypeOK
  <2>3. \E f \in SeedIds : receipt[f] \in Failures
    BY <2>1, <2>2 DEF ReceiptsOrdered, Statuses
  <2> QED BY <1>1, <2>3 DEF WorkerSeed, FailedSeed
<1>2. CASE ~JobFailed
  BY <1>2 DEF CompletionEarned, WorkerSeed
<1> QED BY <1>1, <1>2

\* A receipt is written for the seed at hand.
LEMMA ReceiptTyped ==
    ASSUME TypeOK, seed \in SeedIds, seed' = seed + 1,
           NEW status \in Statuses, WriteReceiptOf(seed, status)
    PROVE  /\ seed' \in 1 .. Seeds + 1
           /\ receipt' \in [SeedIds -> Statuses \union {"none"}]
           /\ \A s \in SeedIds : receipt'[s] # "none" <=> s < seed'
           /\ receipt'[seed] = status /\ status # "none"
           /\ \A s \in SeedIds : s # seed => receipt'[s] = receipt[s]
<1>1. status # "none"
  BY DEF Statuses, Failures
<1> QED BY <1>1 DEF WriteReceiptOf, TypeOK

\* The monitor loop as the type invariant sees it.
LEMMA MonitorTyped ==
    ASSUME TypeOK, sup \in {"poll", "alive"}, sup' \in {"poll", "alive", "cleanup"},
           UNCHANGED <<seed, late, process, record>>,
           stage' \in Stages, payload' \in BOOLEAN, terminal' \in Failures \union {"none"},
           steps' \in 0 .. MaxSteps, toSup' \in Seq(Frames), toWorker' \in Seq(Frames)
    PROVE  TypeOK'
<1>1. JobFailed' <=> JobFailed
  BY SameJob DEF record
<1> QED BY <1>1 DEF TypeOK, process, record, SupLocations

LEMMA SupervisorTyped ==
    ASSUME TypeOK, ReceiptsOrdered, Supervise
    PROVE  TypeOK'
<1>1. CASE HitLimit
  BY <1>1, MonitorTyped DEF HitLimit, Break, TypeOK, Failures, pipe
<1>2. CASE HitDeadline
  BY <1>2, MonitorTyped DEF HitDeadline, Break, TypeOK, Failures, pipe
<1>3. CASE PollNothing
  BY <1>3, MonitorTyped DEF PollNothing, TypeOK, pipe, monitor
<1>4. CASE CheckAlive
  BY <1>4, MonitorTyped DEF CheckAlive, Break, TypeOK, Failures, pipe
<1>5. CASE ReceiveEnd
  BY <1>5, MonitorTyped DEF ReceiveEnd, Break, TypeOK, Failures, pipe
<1>6. ASSUME NEW type, Receive(type)
      PROVE  /\ sup = "poll" /\ UNCHANGED <<seed, late, process, record>>
             /\ Head(toSup) \in Frames /\ Head(toSup).type = type /\ toSup' \in Seq(Frames)
  BY <1>6, TailShifts DEF Receive, TypeOK
<1>7. ASSUME NEW f \in {"admit", "begin"}, NEW next \in Stages, Reply(f, next), sup = "poll"
      PROVE  /\ toWorker' \in Seq(Frames) /\ stage' \in Stages
             /\ terminal' \in Failures \union {"none"} /\ sup' \in {"poll", "cleanup"}
  <2>1. Frame(f) \in Frames /\ toWorker \in Seq(Frames)
    BY FrameKinds DEF TypeOK
  <2>2. Append(toWorker, Frame(f)) \in Seq(Frames)
    BY <2>1, OneMore
  <2> QED BY <1>7, <2>2 DEF Reply, Break, TypeOK, Failures
<1>8. CASE ReceiveStarted
  <2>1. Receive("worker_started") /\ Reply("admit", "worker_started") /\ UNCHANGED <<steps, payload>>
    BY <1>8 DEF ReceiveStarted
  <2>2. "worker_started" \in Stages
    BY DEF Stages
  <2>3. steps' \in 0 .. MaxSteps /\ payload' \in BOOLEAN
    BY <2>1 DEF TypeOK
  <2>4. sup = "poll" /\ UNCHANGED <<seed, late, process, record>> /\ toSup' \in Seq(Frames)
    BY <1>6, <2>1
  <2>5. /\ toWorker' \in Seq(Frames) /\ stage' \in Stages
        /\ terminal' \in Failures \union {"none"} /\ sup' \in {"poll", "cleanup"}
    BY <1>7, <2>1, <2>2, <2>4
  <2> QED BY <2>3, <2>4, <2>5, MonitorTyped
<1>9. CASE ReceiveAcknowledged
  <2>1. CASE stage # "worker_started"
    BY <1>6, <1>9, <2>1, MonitorTyped DEF ReceiveAcknowledged, Break, TypeOK, Failures
  <2>2. CASE stage = "worker_started"
    <3>1. Receive("acknowledged") /\ Reply("begin", "acknowledged") /\ UNCHANGED <<steps, payload>>
      BY <1>9, <2>2 DEF ReceiveAcknowledged
    <3>2. "acknowledged" \in Stages
      BY DEF Stages
    <3>3. steps' \in 0 .. MaxSteps /\ payload' \in BOOLEAN
      BY <3>1 DEF TypeOK
    <3>4. sup = "poll" /\ UNCHANGED <<seed, late, process, record>> /\ toSup' \in Seq(Frames)
      BY <1>6, <3>1
    <3>5. /\ toWorker' \in Seq(Frames) /\ stage' \in Stages
          /\ terminal' \in Failures \union {"none"} /\ sup' \in {"poll", "cleanup"}
      BY <1>7, <3>1, <3>2, <3>4
    <3> QED BY <3>3, <3>4, <3>5, MonitorTyped
  <2> QED BY <2>1, <2>2
<1>10. CASE ReceiveProgress
  <2>1. Head(toSup).n \in 0 .. MaxSteps
    BY <1>6, <1>10, FrameKinds DEF ReceiveProgress
  <2>2. sup = "poll" /\ UNCHANGED <<seed, late, process, record>> /\ toSup' \in Seq(Frames)
    BY <1>6, <1>10 DEF ReceiveProgress
  <2>3. /\ stage' \in Stages /\ payload' \in BOOLEAN /\ steps' \in 0 .. MaxSteps
        /\ toWorker' \in Seq(Frames)
        /\ terminal' \in Failures \union {"none"} /\ sup' \in {"poll", "cleanup"}
    BY <1>10, <2>1, <2>2 DEF ReceiveProgress, Break, TypeOK, Failures, Stages
  <2> QED BY <2>2, <2>3, MonitorTyped
<1>11. CASE ReceiveCompleted
  BY <1>6, <1>11, MonitorTyped DEF ReceiveCompleted, Break, TypeOK, Failures, Stages
<1>12. CASE ReceiveFailure
  BY <1>6, <1>12, MonitorTyped DEF ReceiveFailure, Break, TypeOK, Failures
<1>13. CASE SpawnWorker
  <2>1. JobFailed' <=> JobFailed
    BY <1>13, SameJob DEF SpawnWorker, record
  <2>2. /\ sup' \in SupLocations /\ stage' \in Stages /\ terminal' \in Failures \union {"none"}
        /\ worker' \in WorkerLocations /\ steps' \in 0 .. MaxSteps /\ done' \in 0 .. MaxSteps
        /\ ended' = "none"
    BY <1>13 DEF SpawnWorker, SupLocations, Stages, WorkerLocations
  <2>4. toSup' \in Seq(Frames) /\ toWorker' \in Seq(Frames)
    BY <1>13 DEF SpawnWorker
  <2>5. payload' \in BOOLEAN
    BY <1>13 DEF SpawnWorker
  <2>3. seed' \in SeedIds /\ ~JobFailed' /\ UNCHANGED <<seed, late, artifacts, receipt, result, index>>
    BY <1>13, <2>1 DEF SpawnWorker, record
  <2> QED BY <2>2, <2>3, <2>4, <2>5 DEF TypeOK
<1>14. CASE RefuseSeed
  BY <1>14 DEF RefuseSeed, TypeOK, SupLocations, monitor, process, pipe, record
<1>15. CASE SkipSeed
  BY <1>15, ReceiptTyped
     DEF SkipSeed, TypeOK, SupLocations, monitor, process, pipe, record, Statuses
<1>16. CASE SeedTooLate
  BY <1>16, ReceiptTyped
     DEF SeedTooLate, TypeOK, SupLocations, monitor, process, pipe, record, Statuses, Failures
<1>17. CASE CleanupWorker
  <2>1. JobFailed' <=> JobFailed
    BY <1>17, SameJob DEF CleanupWorker, record
  <2>2. /\ sup' = "settle" /\ terminal' \in Failures \union {"none"} /\ payload' \in BOOLEAN
        /\ worker' \in WorkerLocations /\ ended' \in {"none", "exited", "crashed", "xcpu", "killed"}
    BY <1>17 DEF CleanupWorker, TypeOK, WorkerLocations, Failures
  <2>5. toSup' \in Seq(Frames) /\ toWorker' \in Seq(Frames)
    BY <1>17 DEF CleanupWorker
  <2>3. seed \in SeedIds /\ ~JobFailed
    BY <1>17 DEF CleanupWorker, TypeOK
  <2>4. UNCHANGED <<seed, late, stage, steps, done, artifacts, receipt, result, index>>
    BY <1>17 DEF CleanupWorker, record
  <2> QED BY <2>1, <2>2, <2>3, <2>4, <2>5 DEF TypeOK, SupLocations
<1>18. CASE SettleSeed
  <2>1. JobFailed' <=> JobFailed
    BY <1>18, SameJob DEF SettleSeed, record
  <2>2. sup' = "receipt" /\ terminal' \in Failures \union {"none"} /\ payload' \in BOOLEAN
    BY <1>18 DEF SettleSeed, TypeOK, Failures
  <2>3. seed \in SeedIds /\ ~JobFailed
    BY <1>18 DEF SettleSeed, TypeOK
  <2>4. UNCHANGED <<seed, late, stage, steps, process, pipe, record>>
    BY <1>18 DEF SettleSeed
  <2> QED BY <2>1, <2>2, <2>3, <2>4 DEF TypeOK, SupLocations, process, pipe, record
<1>19. CASE WriteReceipt
  <2>1. seed \in SeedIds /\ seed' = seed + 1 /\ sup' = "checks"
        /\ UNCHANGED <<late, monitor, process, pipe, artifacts, result, index>>
    BY <1>19 DEF WriteReceipt, TypeOK
  <2>2. \E status \in Statuses : WriteReceiptOf(seed, status)
    BY <1>19 DEF WriteReceipt, TypeOK, Statuses, Failures
  <2> QED BY <2>1, <2>2, ReceiptTyped DEF TypeOK, SupLocations, monitor, process, pipe
<1>20. CASE PublishResult
  <2>1. result' \in Failures \union {"succeeded"}
    <3>1. CASE \A s \in SeedIds : receipt[s] = "succeeded"
      BY <1>20, <3>1 DEF PublishResult, Failures
    <3>2. CASE \E s \in SeedIds : receipt[s] # "succeeded"
      <4>1. PICK s \in SeedIds : receipt[s] # "succeeded"
        BY <3>2
      <4>2. receipt[s] # "none" /\ receipt[s] \in Statuses \union {"none"}
        BY <1>20 DEF PublishResult, TypeOK
      <4>3. \E f \in SeedIds : receipt[f] \in Failures
        BY <4>1, <4>2 DEF ReceiptsOrdered, Statuses
      <4> QED BY <1>20, <4>1, <4>3 DEF PublishResult, FailedSeed, Failures
    <3> QED BY <3>1, <3>2
  <2> QED BY <1>20, <2>1
          DEF PublishResult, TypeOK, SupLocations, monitor, process, pipe
<1>21. CASE PublishIndex
  BY <1>21 DEF PublishIndex, TypeOK, SupLocations, monitor, process, pipe
<1> QED BY <1>1, <1>2, <1>3, <1>4, <1>5, <1>8, <1>9, <1>10, <1>11, <1>12, <1>13, <1>14, <1>15,
           <1>16, <1>17, <1>18, <1>19, <1>20, <1>21 DEF Supervise

LEMMA WorkTyped ==
    ASSUME TypeOK, ReceiptsOrdered, CompletionEarned, Work
    PROVE  TypeOK'
<1>1. UNCHANGED <<sup, seed, late, monitor, receipt, result, index>>
  BY DEF Work, WorkerStarts, WorkerAcknowledges, WorkerBegins, WorkerProgresses, WorkerPublishes,
         WorkerCompletes, WorkerFails, WorkerCloses, WorkerExits, WorkerDies, record
<1>2. worker' \in WorkerLocations /\ ended' \in {"none", "exited", "crashed", "xcpu", "killed"}
  BY DEF Work, WorkerStarts, WorkerAcknowledges, WorkerBegins, WorkerProgresses, WorkerPublishes,
         WorkerCompletes, WorkerFails, WorkerCloses, WorkerExits, WorkerDies, Send, TypeOK,
         WorkerLocations
<1>3. done' \in 0 .. MaxSteps
  BY DEF Work, WorkerStarts, WorkerAcknowledges, WorkerBegins, WorkerProgresses, WorkerPublishes,
         WorkerCompletes, WorkerFails, WorkerCloses, WorkerExits, WorkerDies, TypeOK
<1>4. toWorker' \in Seq(Frames)
  <2>1. toWorker # <<>> => Tail(toWorker) \in Seq(Frames)
    BY TailShifts DEF TypeOK
  <2> QED BY <2>1 DEF Work, WorkerStarts, WorkerAcknowledges, WorkerBegins, WorkerProgresses,
         WorkerPublishes, WorkerCompletes, WorkerFails, WorkerCloses, WorkerExits, WorkerDies,
         TypeOK, pipe
<1>5. toSup' \in Seq(Frames)
  <2>1. ASSUME NEW t \in {"worker_started", "acknowledged", "completed", "failed", "torn"}
        PROVE  toSup \o <<Frame(t)>> \in Seq(Frames) /\ Append(toSup, Frame(t)) \in Seq(Frames)
    BY FrameKinds, OneMore DEF TypeOK
  <2>2. CASE WorkerProgresses
    <3> DEFINE progress == [type |-> "progress", n |-> done + 1]
    <3>1. progress \in Frames /\ Frame("resource_breach") \in Frames
      BY <2>2, FrameKinds DEF WorkerProgresses, TypeOK
    <3>2. toSup \o <<progress>> \in Seq(Frames)
          /\ toSup \o <<progress, Frame("resource_breach")>> \in Seq(Frames)
      BY <3>1, OneMore, TwoMore DEF TypeOK
    <3> QED BY <2>2, <3>2 DEF WorkerProgresses, Send, TypeOK
  <2>3. CASE WorkerStarts \/ WorkerAcknowledges \/ WorkerCompletes \/ WorkerFails \/ WorkerDies
    BY <2>1, <2>3 DEF WorkerStarts, WorkerAcknowledges, WorkerCompletes, WorkerFails, WorkerDies,
                      Send, TypeOK
  <2>4. CASE WorkerBegins \/ WorkerPublishes \/ WorkerCloses \/ WorkerExits
    BY <2>4 DEF WorkerBegins, WorkerPublishes, WorkerCloses, WorkerExits, TypeOK, pipe
  <2> QED BY <2>2, <2>3, <2>4 DEF Work
<1>6. artifacts' \subseteq SeedIds
  <2>1. CASE WorkerPublishes
    <3>1. WorkerSeed \in SeedIds
      BY <2>1, WorkersSeed DEF WorkerPublishes, WorkerAlive
    <3> QED BY <2>1, <3>1 DEF WorkerPublishes, TypeOK
  <2>2. CASE ~WorkerPublishes
    BY <2>2 DEF Work, WorkerStarts, WorkerAcknowledges, WorkerBegins, WorkerProgresses,
         WorkerCompletes, WorkerFails, WorkerCloses, WorkerExits, WorkerDies, record, TypeOK
  <2> QED BY <2>1, <2>2
<1>7. JobFailed' <=> JobFailed
  BY <1>1, SameJob
<1> QED BY <1>1, <1>2, <1>3, <1>4, <1>5, <1>6, <1>7 DEF TypeOK, monitor

LEMMA Typed ==
    ASSUME TypeOK, ReceiptsOrdered, CompletionEarned, [Next]_vars
    PROVE  TypeOK'
<1>1. CASE Interrupt
  <2>1. JobFailed' <=> JobFailed
    BY <1>1, SameJob DEF Interrupt, record
  <2>2. worker' \in WorkerLocations /\ ended' \in {"none", "exited", "crashed", "xcpu", "killed"}
    BY <1>1 DEF Interrupt, TypeOK, WorkerLocations
  <2>3. toSup' \in Seq(Frames) /\ toWorker' \in Seq(Frames) /\ sup' = "raised"
    BY <1>1 DEF Interrupt
  <2> QED BY <1>1, <2>1, <2>2, <2>3 DEF Interrupt, TypeOK, SupLocations, monitor, record
<1>2. CASE DeadlinePasses
  <2>1. JobFailed' <=> JobFailed
    BY <1>2, SameJob DEF DeadlinePasses, record
  <2>2. late' \in BOOLEAN
    BY <1>2 DEF DeadlinePasses
  <2> QED BY <1>2, <2>1, <2>2 DEF DeadlinePasses, TypeOK, monitor, process, pipe, record
<1>3. CASE UNCHANGED vars
  <2>1. JobFailed' <=> JobFailed
    BY <1>3, SameJob DEF vars
  <2> QED BY <1>3, <2>1 DEF TypeOK, vars
<1> QED BY <1>1, <1>2, <1>3, SupervisorTyped, WorkTyped DEF Next

-----------------------------------------------------------------------------
(* The record of the job                                                   *)

\* While no seed has failed, every receipt so far is a success.
LEMMA AllSucceeded ==
    ASSUME TypeOK, ~JobFailed
    PROVE  \A s \in SeedIds : s < seed => receipt[s] = "succeeded"
BY DEF TypeOK, JobFailed

\* A job that failed has one seed that failed by itself.
LEMMA SomeFailed ==
    ASSUME TypeOK, ReceiptsOrdered, JobFailed
    PROVE  \E f \in SeedIds : f < seed /\ receipt[f] \in Failures
<1>1. PICK s \in 1 .. seed - 1 : receipt[s] # "succeeded"
  BY DEF JobFailed
<1>2. s \in SeedIds /\ s < seed /\ receipt[s] # "none" /\ receipt[s] \in Statuses \union {"none"}
  BY <1>1 DEF TypeOK
<1>3. CASE receipt[s] = "not_started"
  <2>1. PICK f \in SeedIds : f < s /\ receipt[f] \in Failures
    BY <1>2, <1>3 DEF ReceiptsOrdered
  <2>2. f < seed
    BY <1>2, <2>1 DEF TypeOK
  <2> QED BY <2>1, <2>2
<1>4. CASE receipt[s] \in Failures
  BY <1>2, <1>4
<1> QED BY <1>1, <1>2, <1>3, <1>4 DEF Statuses

\* The actions that write a receipt; the others leave the receipts alone.
ReceiptSteps == SkipSeed \/ SeedTooLate \/ WriteReceipt

LEMMA OthersKeepReceipts ==
    ASSUME [Next]_vars, ~ReceiptSteps
    PROVE  UNCHANGED <<seed, receipt>>
BY DEF ReceiptSteps, Next, Supervise, Work, vars, record, RefuseSeed, SpawnWorker, HitLimit, HitDeadline,
       PollNothing, CheckAlive, ReceiveEnd, ReceiveStarted, ReceiveAcknowledged, ReceiveProgress,
       ReceiveCompleted, ReceiveFailure, Receive, CleanupWorker, SettleSeed, PublishResult,
       PublishIndex, Interrupt, DeadlinePasses, WorkerStarts, WorkerAcknowledges, WorkerBegins,
       WorkerProgresses, WorkerPublishes, WorkerCompletes, WorkerFails, WorkerCloses, WorkerExits,
       WorkerDies

LEMMA ArtifactsStay ==
    ASSUME [Next]_vars
    PROVE  artifacts \subseteq artifacts'
BY DEF Next, Supervise, Work, vars, record, SkipSeed, SeedTooLate, WriteReceipt, RefuseSeed,
       SpawnWorker, HitLimit, HitDeadline,
       PollNothing, CheckAlive, ReceiveEnd, ReceiveStarted, ReceiveAcknowledged, ReceiveProgress,
       ReceiveCompleted, ReceiveFailure, Receive, CleanupWorker, SettleSeed, PublishResult,
       PublishIndex, Interrupt, DeadlinePasses, WorkerStarts, WorkerAcknowledges, WorkerBegins,
       WorkerProgresses, WorkerPublishes, WorkerCompletes, WorkerFails, WorkerCloses, WorkerExits,
       WorkerDies

\* What a receipt step writes.
LEMMA ReceiptWritten ==
    ASSUME TypeOK, ReceiptsOrdered, ReceiptSteps
    PROVE  /\ seed \in SeedIds /\ seed' = seed + 1 /\ sup' = "checks"
           /\ UNCHANGED <<process, artifacts, result, index>>
           /\ \/ JobFailed /\ WriteReceiptOf(seed, "not_started")
              \/ ~JobFailed /\ \E status \in Failures : WriteReceiptOf(seed, status)
              \/ /\ ~JobFailed /\ WriteReceiptOf(seed, "succeeded")
                 /\ sup = "receipt" /\ payload /\ seed \in artifacts
<1>1. CASE SkipSeed
  BY <1>1 DEF SkipSeed
<1>2. CASE SeedTooLate
  BY <1>2 DEF SeedTooLate, Failures
<1>3. CASE WriteReceipt
  <2>1. seed \in SeedIds /\ ~JobFailed
    BY <1>3 DEF WriteReceipt, TypeOK
  <2>2. (IF terminal = "none" THEN "crash" ELSE terminal) \in Failures /\ "crash" \in Failures
    BY DEF TypeOK, Failures
  <2> QED BY <1>3, <2>1, <2>2 DEF WriteReceipt
<1> QED BY <1>1, <1>2, <1>3 DEF ReceiptSteps

LEMMA OrderKept ==
    ASSUME TypeOK, ReceiptsOrdered, [Next]_vars
    PROVE  ReceiptsOrdered'
<1>1. CASE ~ReceiptSteps
  BY <1>1, OthersKeepReceipts, ArtifactsStay DEF ReceiptsOrdered
<1>2. CASE ReceiptSteps
  <2>1. /\ seed \in SeedIds /\ seed' = seed + 1 /\ UNCHANGED artifacts
        /\ \/ JobFailed /\ WriteReceiptOf(seed, "not_started")
           \/ ~JobFailed /\ \E status \in Failures : WriteReceiptOf(seed, status)
           \/ ~JobFailed /\ WriteReceiptOf(seed, "succeeded") /\ seed \in artifacts
    BY <1>2, ReceiptWritten
  <2>2. receipt[seed] = "none" /\ \A s \in SeedIds : receipt[s] # "none" <=> s < seed
    BY <2>1 DEF TypeOK
  <2>3. "none" \notin Failures /\ "succeeded" \notin Failures /\ "not_started" \notin Failures
    BY DEF Failures
  <2>4. CASE JobFailed /\ WriteReceiptOf(seed, "not_started")
    <3>1. receipt'[seed] = "not_started" /\ \A s \in SeedIds : s # seed => receipt'[s] = receipt[s]
      BY <2>1, <2>4, ReceiptTyped DEF Statuses
    <3>2. PICK f \in SeedIds : f < seed /\ receipt[f] \in Failures
      BY <2>4, SomeFailed
    <3> QED BY <2>1, <2>2, <2>3, <3>1, <3>2 DEF ReceiptsOrdered
  <2>5. CASE ~JobFailed /\ \E status \in Failures : WriteReceiptOf(seed, status)
    <3>1. receipt'[seed] \in Failures /\ \A s \in SeedIds : s # seed => receipt'[s] = receipt[s]
      BY <2>1, <2>5, ReceiptTyped DEF Statuses
    <3>2. \A s \in SeedIds : s < seed => receipt[s] = "succeeded"
      BY <2>5, AllSucceeded
    <3> QED BY <2>1, <2>2, <2>3, <3>1, <3>2 DEF ReceiptsOrdered
  <2>6. CASE ~JobFailed /\ WriteReceiptOf(seed, "succeeded") /\ seed \in artifacts
    <3>1. receipt'[seed] = "succeeded" /\ \A s \in SeedIds : s # seed => receipt'[s] = receipt[s]
      BY <2>1, <2>6, ReceiptTyped DEF Statuses
    <3>2. \A s \in SeedIds : s < seed => receipt[s] = "succeeded"
      BY <2>6, AllSucceeded
    <3> QED BY <2>1, <2>2, <2>3, <2>6, <3>1, <3>2 DEF ReceiptsOrdered
  <2> QED BY <2>1, <2>4, <2>5, <2>6
<1> QED BY <1>1, <1>2

\* The actions that neither record nor end anything by themselves.
LEMMA OthersKeepRecord ==
    ASSUME [Next]_vars, ~ReceiptSteps, ~PublishResult, ~PublishIndex
    PROVE  /\ UNCHANGED <<result, index>>
           /\ \/ UNCHANGED sup
              \/ sup \notin {"index", "returned", "raised"} /\ sup' \notin {"index", "returned"}
              \/ sup = "index" /\ sup' = "raised"
<1>1. UNCHANGED <<result, index>>
  BY DEF ReceiptSteps, Next, Supervise, Work, vars, record, RefuseSeed, SpawnWorker, HitLimit,
       HitDeadline, PollNothing, CheckAlive, ReceiveEnd, ReceiveStarted, ReceiveAcknowledged,
       ReceiveProgress, ReceiveCompleted, ReceiveFailure, Receive, CleanupWorker, SettleSeed,
       Interrupt, DeadlinePasses, WorkerStarts, WorkerAcknowledges, WorkerBegins,
       WorkerProgresses, WorkerPublishes, WorkerCompletes, WorkerFails, WorkerCloses, WorkerExits,
       WorkerDies
<1>2. CASE Supervise
  BY <1>1, <1>2 DEF ReceiptSteps, Supervise, RefuseSeed, SpawnWorker, HitLimit,
       HitDeadline, PollNothing, CheckAlive, ReceiveEnd, ReceiveStarted, ReceiveAcknowledged,
       ReceiveProgress, ReceiveCompleted, ReceiveFailure, Receive, Reply, Break, CleanupWorker,
       SettleSeed
<1>3. CASE Work \/ DeadlinePasses \/ UNCHANGED vars
  BY <1>1, <1>3 DEF Work, DeadlinePasses, vars, WorkerStarts, WorkerAcknowledges, WorkerBegins,
       WorkerProgresses, WorkerPublishes, WorkerCompletes, WorkerFails, WorkerCloses, WorkerExits,
       WorkerDies
<1>4. CASE Interrupt
  BY <1>1, <1>4 DEF Interrupt
<1> QED BY <1>1, <1>2, <1>3, <1>4 DEF Next

LEMMA RecordKept ==
    ASSUME TypeOK, ReceiptsOrdered, JobRecord, [Next]_vars, TypeOK'
    PROVE  JobRecord'
<1>1. CASE ReceiptSteps
  <2>1. sup' = "checks" /\ UNCHANGED <<result, index>> /\ seed \in SeedIds
    BY <1>1, ReceiptWritten
  <2>2. result = "none" /\ ~index
    BY <2>1 DEF JobRecord
  <2> QED BY <2>1, <2>2 DEF JobRecord, ResultAccounts
<1>2. CASE PublishResult
  <2>1. /\ sup = "checks" /\ seed = Seeds + 1 /\ UNCHANGED <<seed, receipt, index, artifacts>>
        /\ sup' = IF result' = "succeeded" THEN "index" ELSE "returned"
        /\ \/ result' = IF \A s \in SeedIds : receipt[s] = "succeeded"
                        THEN "succeeded" ELSE receipt[FailedSeed]
           \/ result' = "breach"
    BY <1>2 DEF PublishResult
  <2>2. ~index'
    BY <2>1 DEF JobRecord
  <2>3. \A s \in SeedIds : receipt[s] # "none" /\ receipt[s] \in Statuses
    BY <2>1 DEF TypeOK
  <2>4. "none" \notin Failures /\ "succeeded" \notin Failures /\ "not_started" \notin Failures
        /\ "breach" # "succeeded"
    BY DEF Failures
  <2>5. CASE \A s \in SeedIds : receipt[s] = "succeeded"
    <3>1. ResultAccounts'
      BY <2>1, <2>4, <2>5 DEF ResultAccounts
    <3> QED BY <2>1, <2>2, <3>1 DEF JobRecord
  <2>6. CASE ~ \A s \in SeedIds : receipt[s] = "succeeded"
    <3>1. \E f \in SeedIds : receipt[f] \in Failures
      BY <2>3, <2>6 DEF ReceiptsOrdered, Statuses
    <3>2. FailedSeed \in SeedIds /\ receipt[FailedSeed] \in Failures
      BY <3>1 DEF FailedSeed
    <3>3. result' \in {receipt[FailedSeed], "breach"} /\ result' # "succeeded"
      BY <2>1, <2>4, <2>6, <3>2
    <3>4. ASSUME NEW s \in SeedIds, receipt[s] \in Failures
          PROVE  s = FailedSeed
      BY <2>4, <3>2, <3>4 DEF ReceiptsOrdered
    <3>5. ASSUME NEW s \in SeedIds, receipt[s] \in Failures
          PROVE  /\ \A t \in SeedIds : t < s => receipt[t] = "succeeded"
                 /\ \A t \in SeedIds : t > s => receipt[t] = "not_started"
                 /\ result' \in {receipt[s], "breach"}
      <4>1. \A t \in SeedIds : t < seed
        BY <2>1
      <4> QED BY <3>3, <3>4, <3>5, <4>1 DEF ReceiptsOrdered
    <3>6. ResultAccounts'
      BY <2>1, <2>3, <3>3, <3>5 DEF ResultAccounts
    <3> QED BY <2>1, <2>2, <3>3, <3>6 DEF JobRecord
  <2> QED BY <2>5, <2>6
<1>3. CASE PublishIndex
  <2>1. /\ sup = "index" /\ sup' = "returned" /\ index'
        /\ UNCHANGED <<seed, receipt, result, artifacts>>
    BY <1>3 DEF PublishIndex
  <2>2. result = "succeeded"
    BY <2>1 DEF JobRecord
  <2>3. \A s \in SeedIds : s \in artifacts
    BY <2>2 DEF JobRecord, ResultAccounts, ReceiptsOrdered
  <2>4. artifacts' = SeedIds
    BY <2>1, <2>3 DEF TypeOK
  <2> QED BY <2>1, <2>2, <2>4 DEF JobRecord, ResultAccounts
<1>4. CASE ~ReceiptSteps /\ ~PublishResult /\ ~PublishIndex
  <2>1. /\ UNCHANGED <<seed, receipt, result, index>>
        /\ \/ UNCHANGED sup
           \/ sup \notin {"index", "returned", "raised"} /\ sup' \notin {"index", "returned"}
           \/ sup = "index" /\ sup' = "raised"
    BY <1>4, OthersKeepRecord, OthersKeepReceipts
  <2>2. index => artifacts' = SeedIds
    <3>1. artifacts \subseteq artifacts' /\ artifacts' \subseteq SeedIds
      BY ArtifactsStay DEF TypeOK
    <3> QED BY <3>1 DEF JobRecord
  <2>3. ResultAccounts'
    BY <2>1 DEF JobRecord, ResultAccounts
  <2> QED BY <2>1, <2>2, <2>3 DEF JobRecord
<1> QED BY <1>1, <1>2, <1>3, <1>4

-----------------------------------------------------------------------------
(* The completion of a seed                                                *)

\* A worker that is gone stays gone until the next seed spawns one.
LEMMA NoWorkerRises ==
    ASSUME [Next]_vars, ~SpawnWorker, ~WorkerAlive
    PROVE  ~WorkerAlive'
BY DEF Next, Supervise, Work, vars, process, SkipSeed, SeedTooLate, WriteReceipt, RefuseSeed,
       HitLimit, HitDeadline,
       PollNothing, CheckAlive, ReceiveEnd, ReceiveStarted, ReceiveAcknowledged, ReceiveProgress,
       ReceiveCompleted, ReceiveFailure, Receive, CleanupWorker, SettleSeed, PublishResult,
       PublishIndex, Interrupt, DeadlinePasses, WorkerStarts, WorkerAcknowledges, WorkerBegins,
       WorkerProgresses, WorkerPublishes, WorkerCompletes, WorkerFails, WorkerCloses, WorkerExits,
       WorkerDies, WorkerAlive

LEMMA CompletionKept ==
    ASSUME TypeOK, ReceiptsOrdered, CompletionEarned, [Next]_vars
    PROVE  CompletionEarned'
<1>1. CASE SpawnWorker
  <2>1. JobFailed' <=> JobFailed
    BY <1>1, SameJob DEF SpawnWorker, record
  <2> QED BY <1>1, <2>1 DEF SpawnWorker, CompletionEarned, InSession, record
<1>2. CASE ReceiptSteps
  <2>1. /\ seed \in SeedIds /\ seed' = seed + 1 /\ sup' = "checks" /\ UNCHANGED process
        /\ \/ JobFailed /\ WriteReceiptOf(seed, "not_started")
           \/ ~JobFailed /\ \E status \in Failures : WriteReceiptOf(seed, status)
           \/ ~JobFailed /\ WriteReceiptOf(seed, "succeeded") /\ sup = "receipt" /\ payload
    BY <1>2, ReceiptWritten
  <2>2. UNCHANGED monitor
    BY <1>2 DEF ReceiptSteps, SkipSeed, SeedTooLate, WriteReceipt
  <2>3. WorkerAlive' => JobFailed'
    <3>1. CASE WriteReceiptOf(seed, "not_started") \/ \E status \in Failures : WriteReceiptOf(seed, status)
      <4>1. receipt'[seed] # "succeeded"
        BY <2>1, <3>1, ReceiptTyped DEF Statuses, Failures
      <4> QED BY <2>1, <4>1 DEF JobFailed
    <3>2. CASE sup = "receipt" /\ payload
      BY <2>1, <3>2 DEF CompletionEarned, WorkerAlive, process
    <3> QED BY <2>1, <3>1, <3>2
  <2> QED BY <2>1, <2>2, <2>3 DEF CompletionEarned, InSession, monitor
<1>3. CASE ~SpawnWorker /\ ~ReceiptSteps
  <2>1. UNCHANGED <<seed, receipt>> /\ (JobFailed' <=> JobFailed) /\ (WorkerAlive' => WorkerAlive)
    BY <1>3, OthersKeepReceipts, SameJob, NoWorkerRises
  <2>2. CASE Supervise
    <3>1. CASE HitLimit \/ HitDeadline \/ PollNothing \/ CheckAlive \/ ReceiveEnd
      BY <2>1, <3>1 DEF HitLimit, HitDeadline, PollNothing, CheckAlive, ReceiveEnd, Break,
                        CompletionEarned, InSession, monitor
    <3>2. CASE ReceiveStarted \/ ReceiveAcknowledged \/ ReceiveProgress \/ ReceiveFailure
      BY <2>1, <3>2 DEF ReceiveStarted, ReceiveAcknowledged, ReceiveProgress, ReceiveFailure,
                        Receive, Reply, Break, CompletionEarned, InSession
    <3>3. CASE ReceiveCompleted
      BY <2>1, <3>3 DEF ReceiveCompleted, Receive, Break, CompletionEarned, InSession
    <3>4. CASE CleanupWorker
      BY <2>1, <3>4 DEF CleanupWorker, CompletionEarned, InSession, WorkerAlive
    <3>5. CASE SettleSeed
      BY <2>1, <3>5 DEF SettleSeed, CompletionEarned, InSession, WorkerAlive, process
    <3>6. CASE RefuseSeed \/ PublishResult \/ PublishIndex
      BY <2>1, <3>6 DEF RefuseSeed, PublishResult, PublishIndex, CompletionEarned, InSession, monitor
    <3> QED BY <1>3, <2>2, <3>1, <3>2, <3>3, <3>4, <3>5, <3>6 DEF Supervise, ReceiptSteps
  <2>3. CASE Work \/ DeadlinePasses \/ UNCHANGED vars
    <3>1. UNCHANGED <<sup, stage, steps, terminal, payload>>
      BY <2>3 DEF Work, DeadlinePasses, vars, monitor, WorkerStarts, WorkerAcknowledges,
         WorkerBegins, WorkerProgresses, WorkerPublishes, WorkerCompletes, WorkerFails,
         WorkerCloses, WorkerExits, WorkerDies
    <3> QED BY <2>1, <3>1 DEF CompletionEarned, InSession
  <2>4. CASE Interrupt
    BY <2>1, <2>4 DEF Interrupt, CompletionEarned, InSession, monitor
  <2> QED BY <2>2, <2>3, <2>4 DEF Next
<1> QED BY <1>1, <1>2, <1>3

-----------------------------------------------------------------------------
(* The session: supervisor, pipe and worker in step                        *)

\* What the supervisor knows when it takes a frame off the pipe.
LEMMA HeadInStep ==
    ASSUME TypeOK, SessionInStep, NEW type, Receive(type)
    PROVE  /\ sup = "poll" /\ WorkerInStep /\ UNCHANGED process
           /\ \A i \in 1 .. Len(toSup) : FrameInStep(i)
           /\ 1 \in 1 .. Len(toSup) /\ toSup[1].type = type /\ Head(toSup) = toSup[1]
           /\ toSup[1] \in Frames /\ FrameInStep(1)
           /\ Len(toSup) \in Nat /\ Len(toSup') = Len(toSup) - 1
           /\ Len(toSup) <= 1 => toSup' = <<>>
           /\ \A i \in 1 .. Len(toSup') : i + 1 \in 1 .. Len(toSup) /\ toSup'[i] = toSup[i + 1]
<1>1. sup = "poll" /\ toSup # <<>> /\ Head(toSup).type = type /\ toSup' = Tail(toSup)
      /\ UNCHANGED process /\ toSup \in Seq(Frames)
  BY DEF Receive, TypeOK
<1>2. /\ Len(toSup) \in Nat /\ Len(toSup) > 0 /\ Head(toSup) = toSup[1] /\ toSup[1] \in Frames
      /\ toSup' \in Seq(Frames) /\ Len(toSup') = Len(toSup) - 1
      /\ \A i \in 1 .. Len(toSup) - 1 : toSup'[i] = toSup[i + 1]
  BY <1>1, TailShifts
<1>3. WorkerInStep /\ \A i \in 1 .. Len(toSup) : FrameInStep(i)
  BY <1>1 DEF SessionInStep, InSession
<1>4. Len(toSup) <= 1 => toSup' = <<>>
  BY <1>2, EmptySeq
<1> QED BY <1>1, <1>2, <1>3, <1>4

\* Once worker_started is read, the pipe is empty but for a last word.
LEMMA StartedRead ==
    ASSUME TypeOK, SessionInStep, CompletionEarned, ReceiveStarted
    PROVE  SessionInStep' /\ stage = "spawned"
<1>1. Receive("worker_started") /\ Reply("admit", "worker_started") /\ UNCHANGED <<steps, payload>>
  BY DEF ReceiveStarted
<1>2. /\ sup = "poll" /\ WorkerInStep /\ UNCHANGED <<worker, done>>
      /\ \A i \in 1 .. Len(toSup) : FrameInStep(i)
      /\ toSup[1].type = "worker_started" /\ FrameInStep(1) /\ Len(toSup) \in Nat
      /\ 1 \in 1 .. Len(toSup)
      /\ Len(toSup) <= 1 => toSup' = <<>>
      /\ \A i \in 1 .. Len(toSup') : i + 1 \in 1 .. Len(toSup) /\ toSup'[i] = toSup[i + 1]
  BY <1>1, HeadInStep DEF process
<1>3. stage = "spawned" /\ worker \in {"await_admit"} \union Ended
  BY <1>2 DEF FrameInStep
<1>4. CASE EndOfFile
  BY <1>1, <1>3, <1>4 DEF Reply, Break, SessionInStep, InSession
<1>5. CASE ~EndOfFile
  <2>1. stage' = "worker_started"
    BY <1>1, <1>5 DEF Reply
  <2>2. ASSUME NEW i \in 1 .. Len(toSup') PROVE FrameInStep(i)'
    <3>1. toSup'[i].type \notin {"worker_started", "acknowledged", "progress", "completed"}
      <4>1. FrameInStep(i + 1) /\ toSup'[i] = toSup[i + 1] /\ i + 1 # 1
        BY <1>2
      <4>2. 1 \in 1 .. (i + 1) - 1
        OBVIOUS
      <4> QED BY <1>2, <4>1, <4>2 DEF FrameInStep
    <3> QED BY <3>1 DEF FrameInStep
  <2>3. WorkerInStep'
    BY <1>1, <1>2, <1>3, <2>1 DEF WorkerInStep, Ended
  <2> QED BY <1>3, <2>2, <2>3 DEF SessionInStep
<1> QED BY <1>3, <1>4, <1>5

\* The same for acknowledged, which arrives in its stage.
LEMMA AcknowledgedRead ==
    ASSUME TypeOK, SessionInStep, ReceiveAcknowledged
    PROVE  SessionInStep' /\ stage = "worker_started"
<1>1. Receive("acknowledged") /\ UNCHANGED <<steps, payload>>
  BY DEF ReceiveAcknowledged
<1>2. /\ sup = "poll" /\ WorkerInStep /\ UNCHANGED <<worker, done>>
      /\ \A i \in 1 .. Len(toSup) : FrameInStep(i)
      /\ toSup[1].type = "acknowledged" /\ FrameInStep(1) /\ Len(toSup) \in Nat
      /\ 1 \in 1 .. Len(toSup)
      /\ Len(toSup) <= 1 => toSup' = <<>>
      /\ \A i \in 1 .. Len(toSup') : i + 1 \in 1 .. Len(toSup) /\ toSup'[i] = toSup[i + 1]
  BY <1>1, HeadInStep DEF process
<1>3. stage = "worker_started" /\ worker \in {"await_begin"} \union Ended
  BY <1>2 DEF FrameInStep
<1>4. Reply("begin", "acknowledged")
  BY <1>3 DEF ReceiveAcknowledged
<1>5. CASE EndOfFile
  BY <1>3, <1>4, <1>5 DEF Reply, Break, SessionInStep, InSession
<1>6. CASE ~EndOfFile
  <2>1. stage' = "acknowledged"
    BY <1>4, <1>6 DEF Reply
  <2>2. ASSUME NEW i \in 1 .. Len(toSup') PROVE FrameInStep(i)'
    <3>1. toSup'[i].type \notin {"worker_started", "acknowledged", "progress", "completed"}
      <4>1. FrameInStep(i + 1) /\ toSup'[i] = toSup[i + 1] /\ i + 1 # 1
        BY <1>2
      <4>2. 1 \in 1 .. (i + 1) - 1
        OBVIOUS
      <4> QED BY <1>2, <4>1, <4>2 DEF FrameInStep
    <3> QED BY <3>1 DEF FrameInStep
  <2>3. WorkerInStep'
    BY <1>1, <1>2, <1>3, <2>1 DEF WorkerInStep, Ended
  <2> QED BY <1>3, <2>2, <2>3 DEF SessionInStep
<1> QED BY <1>3, <1>5, <1>6

\* Progress counts up on both sides of the pipe.
LEMMA ProgressRead ==
    ASSUME TypeOK, SessionInStep, CompletionEarned, ReceiveProgress
    PROVE  SessionInStep' /\ stage \in {"acknowledged", "training"} /\ terminal' # "drift"
<1>1. Receive("progress") /\ UNCHANGED <<toWorker, payload>>
  BY DEF ReceiveProgress
<1>2. /\ sup = "poll" /\ WorkerInStep /\ UNCHANGED <<worker, done>>
      /\ \A i \in 1 .. Len(toSup) : FrameInStep(i)
      /\ toSup[1].type = "progress" /\ FrameInStep(1) /\ Len(toSup) \in Nat
      /\ toSup[1] = Head(toSup) /\ toSup[1] \in Frames /\ 1 \in 1 .. Len(toSup)
      /\ \A i \in 1 .. Len(toSup') : i + 1 \in 1 .. Len(toSup) /\ toSup'[i] = toSup[i + 1]
  BY <1>1, HeadInStep DEF process
<1>3. /\ stage \in {"acknowledged", "training"} /\ worker \in {"train", "persist"} \union Ended
      /\ steps < toSup[1].n /\ toSup[1].n <= done /\ toSup[1].n \in Nat
      /\ steps \in Nat /\ done \in Nat
  BY <1>2, FrameKinds DEF FrameInStep, TypeOK
<1>4. /\ steps' = toSup[1].n
      /\ \/ sup' = "cleanup" /\ terminal' = "breach"
         \/ stage' = "training" /\ UNCHANGED <<sup, terminal>>
  <2>1. ~(stage \notin {"acknowledged", "training"} \/ Head(toSup).n <= steps)
    BY <1>2, <1>3
  <2> QED BY <1>2, <2>1 DEF ReceiveProgress, Break
<1>5. terminal' # "drift"
  BY <1>2, <1>4 DEF CompletionEarned, InSession
<1>6. CASE sup' = "cleanup"
  BY <1>3, <1>5, <1>6 DEF SessionInStep, InSession
<1>7. CASE stage' = "training"
  <2>1. ASSUME NEW i \in 1 .. Len(toSup') PROVE FrameInStep(i)'
    <3>1. /\ FrameInStep(i + 1) /\ toSup'[i] = toSup[i + 1] /\ i + 1 # 1 /\ i \in Nat
          /\ 1 \in 1 .. (i + 1) - 1
          /\ \A j \in 1 .. i - 1 : toSup'[j] = toSup[j + 1] /\ j + 1 \in 1 .. (i + 1) - 1
      BY <1>2
    <3>2. toSup'[i].type \notin {"worker_started", "acknowledged"}
      BY <3>1 DEF FrameInStep
    <3>3. toSup'[i].type \in {"progress", "completed"} =>
            \A j \in 1 .. i - 1 : toSup'[j].type = "progress"
      BY <3>1 DEF FrameInStep
    <3>4. toSup'[i].type = "progress" =>
            /\ toSup[1].n < toSup'[i].n /\ toSup'[i].n <= done
            /\ \A j \in 1 .. i - 1 : toSup'[j].n < toSup'[i].n
      BY <3>1 DEF FrameInStep
    <3> QED BY <1>2, <1>3, <1>4, <1>7, <3>2, <3>3, <3>4 DEF FrameInStep
  <2>2. WorkerInStep'
    BY <1>2, <1>3, <1>4, <1>7 DEF WorkerInStep, Ended
  <2> QED BY <1>3, <1>5, <2>1, <2>2 DEF SessionInStep
<1> QED BY <1>3, <1>4, <1>5, <1>6, <1>7

LEMMA SameSession ==
    ASSUME SessionInStep, InSession' => InSession,
           UNCHANGED <<stage, steps, done, worker, toSup, toWorker>>
    PROVE  SessionInStep'
BY DEF SessionInStep, WorkerInStep, FrameInStep

\* A worker that ends leaves its frames as they are, perhaps with a last word.
LEMMA LastWord ==
    ASSUME TypeOK, SessionInStep, UNCHANGED <<sup, stage, steps, done>>,
           worker' \in Ended, Len(toSup') \in Nat,
           \A i \in 1 .. Len(toSup) : toSup'[i] = toSup[i],
           \A i \in 1 .. Len(toSup') : i \in 1 .. Len(toSup)
             \/ toSup'[i].type \in {"failed", "resource_breach", "torn"}
    PROVE  SessionInStep'
<1> SUFFICES ASSUME InSession
             PROVE  WorkerInStep' /\ \A i \in 1 .. Len(toSup') : FrameInStep(i)'
  BY DEF SessionInStep, InSession
<1>1. WorkerInStep /\ \A i \in 1 .. Len(toSup) : FrameInStep(i)
  BY DEF SessionInStep
<1>2. WorkerInStep'
  BY <1>1 DEF WorkerInStep, Ended
<1>3. ASSUME NEW i \in 1 .. Len(toSup') PROVE FrameInStep(i)'
  <2>1. CASE i \in 1 .. Len(toSup)
    <3>1. \A j \in 1 .. i - 1 : toSup'[j] = toSup[j]
      BY <2>1 DEF TypeOK
    <3> QED BY <1>1, <2>1, <3>1 DEF FrameInStep
  <2>2. CASE toSup'[i].type \in {"failed", "resource_breach", "torn"}
    BY <2>2 DEF FrameInStep
  <2> QED BY <2>1, <2>2
<1> QED BY <1>2, <1>3

LEMMA StartSent ==
    ASSUME TypeOK, SessionInStep, InSession, WorkerStarts
    PROVE  SessionInStep'
<1>1. WorkerInStep /\ stage = "spawned" /\ toSup = <<>> /\ toWorker = <<>>
  BY DEF SessionInStep, WorkerInStep, WorkerStarts
<1>2. toSup' = toSup \o <<Frame("worker_started")>> /\ worker' = "await_admit"
      /\ UNCHANGED <<stage, steps, done, toWorker>>
  BY DEF WorkerStarts, Send, ConnectionOpen, InSession, monitor
<1>3. toSup' = <<Frame("worker_started")>>
  BY <1>1, <1>2
<1>4. Len(toSup') = 1 /\ toSup'[1].type = "worker_started"
  BY <1>3, FrameKinds
<1> QED BY <1>1, <1>2, <1>4 DEF SessionInStep, WorkerInStep, FrameInStep

LEMMA AcknowledgementSent ==
    ASSUME TypeOK, SessionInStep, InSession, WorkerAcknowledges
    PROVE  SessionInStep'
<1>1. WorkerInStep /\ stage = "worker_started" /\ toSup = <<>>
  BY DEF SessionInStep, WorkerInStep, WorkerAcknowledges
<1>2. toSup' = toSup \o <<Frame("acknowledged")>> /\ worker' = "await_begin"
      /\ UNCHANGED <<stage, steps, done>>
  BY DEF WorkerAcknowledges, Send, ConnectionOpen, InSession, monitor
<1>3. toSup' = <<Frame("acknowledged")>>
  BY <1>1, <1>2
<1>4. Len(toSup') = 1 /\ toSup'[1].type = "acknowledged"
  BY <1>3, FrameKinds
<1> QED BY <1>1, <1>2, <1>4 DEF SessionInStep, WorkerInStep, FrameInStep

\* The admission that a worker reads has been sent after the acknowledgement.
LEMMA TrainingBegins ==
    ASSUME TypeOK, SessionInStep, Begun, WorkerBegins
    PROVE  SessionInStep' /\ stage \in Admitted
<1>1. toWorker # <<>> /\ Head(toWorker).type = "begin" /\ toWorker \in Seq(Frames)
  BY DEF WorkerBegins, TypeOK
<1>2. 1 \in 1 .. Len(toWorker) /\ Head(toWorker) = toWorker[1]
  BY <1>1, TailShifts
<1>3. stage \in Admitted
  BY <1>1, <1>2 DEF Begun
<1>4. ASSUME InSession PROVE SessionInStep'
  <2>1. WorkerInStep /\ stage = "acknowledged" /\ toSup = <<>>
    BY <1>3, <1>4 DEF SessionInStep, WorkerInStep, WorkerBegins, Admitted
  <2>2. worker' = "train" /\ UNCHANGED <<stage, steps, done, toSup>>
    BY DEF WorkerBegins, monitor
  <2> QED BY <2>1, <2>2 DEF SessionInStep, WorkerInStep, FrameInStep
<1>5. ASSUME ~InSession PROVE SessionInStep'
  BY <1>5 DEF SessionInStep, InSession, WorkerBegins
<1> QED BY <1>3, <1>4, <1>5

LEMMA ProgressSent ==
    ASSUME TypeOK, SessionInStep, InSession, WorkerProgresses
    PROVE  SessionInStep'
<1> DEFINE progress == [type |-> "progress", n |-> done + 1]
           len == Len(toSup)
<1>1. /\ WorkerInStep /\ stage \in {"acknowledged", "training"} /\ steps <= done
      /\ \A i \in 1 .. len : toSup[i].type = "progress" /\ FrameInStep(i)
  BY DEF SessionInStep, WorkerInStep, WorkerProgresses
<1>2. /\ UNCHANGED <<stage, steps>> /\ done' = done + 1
      /\ \/ toSup' = toSup \o <<progress>> /\ worker' = "train"
         \/ toSup' = toSup \o <<progress, Frame("resource_breach")>> /\ worker' = "closing"
  BY DEF WorkerProgresses, Send, ConnectionOpen, InSession, monitor
<1>3. progress \in Frames /\ Frame("resource_breach") \in Frames /\ toSup \in Seq(Frames)
      /\ Frame("resource_breach").type = "resource_breach"
      /\ progress.type = "progress" /\ progress.n = done + 1 /\ done \in Nat /\ steps \in Nat
  BY FrameKinds DEF WorkerProgresses, TypeOK
<1>4. /\ len \in Nat /\ Len(toSup') \in Nat
      /\ \A i \in 1 .. len : toSup'[i] = toSup[i]
      /\ toSup'[len + 1] = progress
      /\ \/ worker' = "train" /\ Len(toSup') = len + 1
         \/ /\ worker' = "closing" /\ Len(toSup') = len + 2
            /\ toSup'[len + 2] = Frame("resource_breach")
  <2>1. CASE toSup' = toSup \o <<progress>> /\ worker' = "train"
    <3>1. /\ Append(toSup, progress) = toSup \o <<progress>> /\ len \in Nat
          /\ Len(Append(toSup, progress)) = len + 1
          /\ \A i \in 1 .. len : Append(toSup, progress)[i] = toSup[i]
          /\ Append(toSup, progress)[len + 1] = progress
      BY <1>3, OneMore
    <3> QED BY <2>1, <3>1
  <2>2. CASE toSup' = toSup \o <<progress, Frame("resource_breach")>> /\ worker' = "closing"
    <3> DEFINE longer == toSup \o <<progress, Frame("resource_breach")>>
    <3>1. /\ len \in Nat /\ Len(longer) = len + 2
          /\ \A i \in 1 .. len : longer[i] = toSup[i]
          /\ longer[len + 1] = progress /\ longer[len + 2] = Frame("resource_breach")
      BY <1>3, TwoMore
    <3> QED BY <2>2, <3>1
  <2> QED BY <1>2, <2>1, <2>2
<1> HIDE DEF progress, len
<1>5. ASSUME NEW i \in 1 .. Len(toSup') PROVE FrameInStep(i)'
  <2>0. stage' \in {"acknowledged", "training"} /\ worker' \in {"train", "persist"} \union Ended
    BY <1>1, <1>2 DEF Ended
  <2>1. CASE i \in 1 .. len
    <3>1. /\ FrameInStep(i) /\ toSup[i].type = "progress" /\ toSup'[i] = toSup[i]
          /\ \A j \in 1 .. i - 1 : toSup'[j] = toSup[j]
      BY <1>1, <1>4, <2>1
    <3>2. steps < toSup[i].n /\ toSup[i].n <= done /\ toSup[i].n \in Nat
      <4>1. toSup[i] \in Frames
        BY <1>3, <2>1, ElementOfSeq DEF len
      <4> QED BY <3>1, <4>1, FrameKinds DEF FrameInStep
    <3>3. \A j \in 1 .. i - 1 : toSup[j].type = "progress" /\ toSup[j].n < toSup[i].n
      BY <3>1 DEF FrameInStep
    <3>4. /\ toSup'[i].type = "progress" /\ steps' < toSup'[i].n /\ toSup'[i].n <= done'
          /\ \A j \in 1 .. i - 1 : toSup'[j].type = "progress" /\ toSup'[j].n < toSup'[i].n
      <4>1. toSup'[i] = toSup[i] /\ \A j \in 1 .. i - 1 : toSup'[j] = toSup[j]
        BY <3>1
      <4>2. /\ toSup[i].type = "progress" /\ steps < toSup[i].n /\ toSup[i].n <= done + 1
        BY <1>3, <3>1, <3>2
      <4> QED BY <1>2, <3>3, <4>1, <4>2
    <3> QED BY <2>0, <3>4 DEF FrameInStep
  <2>2. CASE i = len + 1
    <3>1. \A j \in 1 .. i - 1 : /\ toSup'[j] = toSup[j] /\ toSup[j].type = "progress"
                                /\ toSup[j].n <= done /\ toSup[j] \in Frames /\ j \in 1 .. len
      BY <1>1, <1>3, <1>4, <2>2, ElementOfSeq DEF FrameInStep, len
    <3>2. \A j \in 1 .. i - 1 : toSup'[j].type = "progress" /\ toSup'[j].n < done + 1
      BY <1>3, <3>1, FrameKinds
    <3> QED BY <1>1, <1>2, <1>3, <1>4, <2>2, <3>2 DEF FrameInStep, Ended
  <2>3. CASE i = len + 2
    <3>1. toSup'[i].type = "resource_breach"
      BY <1>3, <1>4, <2>3
    <3> QED BY <3>1 DEF FrameInStep
  <2> QED BY <1>4, <2>1, <2>2, <2>3
<1>6. WorkerInStep'
  <2>1. worker' = "train" => \A i \in 1 .. Len(toSup') : toSup'[i].type = "progress"
    BY <1>1, <1>3, <1>4
  <2>2. worker' \in {"train", "closing"} /\ stage' = stage /\ steps' <= done'
    BY <1>1, <1>2, <1>3
  <2> QED BY <1>1, <2>1, <2>2 DEF WorkerInStep
<1> QED BY <1>5, <1>6 DEF SessionInStep

LEMMA CompletionSent ==
    ASSUME TypeOK, SessionInStep, InSession, WorkerCompletes
    PROVE  SessionInStep'
<1> DEFINE len == Len(toSup)
<1>1. /\ WorkerInStep /\ stage \in {"acknowledged", "training"}
      /\ \A i \in 1 .. len : toSup[i].type = "progress" /\ FrameInStep(i)
  BY DEF SessionInStep, WorkerInStep, WorkerCompletes
<1>2. /\ UNCHANGED <<stage, steps, done>> /\ worker' = "closing"
      /\ toSup' = toSup \o <<Frame("completed")>>
  BY DEF WorkerCompletes, Send, ConnectionOpen, InSession, monitor
<1>3. /\ len \in Nat /\ Len(toSup') = len + 1 /\ toSup'[len + 1].type = "completed"
      /\ \A i \in 1 .. len : toSup'[i] = toSup[i]
  <2>1. Frame("completed") \in Frames /\ Frame("completed").type = "completed"
        /\ toSup \in Seq(Frames)
    BY FrameKinds DEF TypeOK
  <2> QED BY <1>2, <2>1, OneMore
<1> HIDE DEF len
<1>4. ASSUME NEW i \in 1 .. Len(toSup') PROVE FrameInStep(i)'
  <2>1. CASE i \in 1 .. len
    <3>1. /\ FrameInStep(i) /\ toSup[i].type = "progress" /\ toSup'[i] = toSup[i]
          /\ \A j \in 1 .. i - 1 : toSup'[j] = toSup[j]
      BY <1>1, <1>3, <2>1
    <3> QED BY <1>1, <1>2, <3>1 DEF FrameInStep, Ended
  <2>2. CASE i = len + 1
    <3>1. \A j \in 1 .. i - 1 : toSup'[j].type = "progress"
      BY <1>1, <1>3, <2>2
    <3> QED BY <1>1, <1>2, <1>3, <2>2, <3>1 DEF FrameInStep, Ended
  <2> QED BY <1>3, <2>1, <2>2
<1>5. WorkerInStep'
  BY <1>1, <1>2 DEF WorkerInStep
<1> QED BY <1>4, <1>5 DEF SessionInStep

\* Whatever the worker does, the session stays in step.
LEMMA WorkInStep ==
    ASSUME TypeOK, SessionInStep, Begun, Work
    PROVE  SessionInStep'
<1>1. UNCHANGED <<sup, stage, steps>>
  BY DEF Work, monitor, WorkerStarts, WorkerAcknowledges, WorkerBegins, WorkerProgresses,
         WorkerPublishes, WorkerCompletes, WorkerFails, WorkerCloses, WorkerExits, WorkerDies
<1>2. CASE ~InSession
  BY <1>1, <1>2 DEF SessionInStep, InSession
<1>3. CASE InSession
  <2>1. CASE WorkerPublishes
    <3>1. worker = "train" /\ worker' = "persist" /\ UNCHANGED <<done, toSup, toWorker>>
      BY <2>1 DEF WorkerPublishes, pipe
    <3> QED BY <1>1, <1>3, <3>1 DEF SessionInStep, WorkerInStep, FrameInStep, Ended
  <2>2. ASSUME NEW word \in {"failed", "torn"}, toSup' = toSup \o <<Frame(word)>>,
               worker' \in Ended, UNCHANGED done
        PROVE  SessionInStep'
    <3>1. Frame(word) \in Frames /\ Frame(word).type = word /\ toSup \in Seq(Frames)
      BY FrameKinds DEF TypeOK
    <3>2. /\ Len(toSup) \in Nat /\ Len(toSup') = Len(toSup) + 1
          /\ toSup'[Len(toSup) + 1] = Frame(word)
          /\ \A i \in 1 .. Len(toSup) : toSup'[i] = toSup[i]
      BY <2>2, <3>1, OneMore
    <3>3. \A i \in 1 .. Len(toSup') : i \in 1 .. Len(toSup)
             \/ toSup'[i].type \in {"failed", "resource_breach", "torn"}
      BY <2>2, <3>1, <3>2
    <3> QED BY <1>1, <2>2, <3>2, <3>3, LastWord
  <2>3. ASSUME UNCHANGED <<toSup, done>>, worker' \in Ended PROVE SessionInStep'
    <3>1. Len(toSup) \in Nat
      BY DEF TypeOK
    <3> QED BY <1>1, <2>3, <3>1, LastWord
  <2>4. CASE WorkerFails
    BY <1>3, <2>2, <2>4 DEF WorkerFails, Send, ConnectionOpen, InSession, Ended
  <2>5. CASE WorkerCloses \/ WorkerExits
    BY <2>3, <2>5 DEF WorkerCloses, WorkerExits, pipe, Ended
  <2>6. CASE WorkerDies
    <3>1. UNCHANGED done /\ worker' \in Ended
      BY <2>6 DEF WorkerDies, Ended
    <3>2. UNCHANGED toSup \/ toSup' = toSup \o <<Frame("torn")>>
      <4>1. Append(toSup, Frame("torn")) = toSup \o <<Frame("torn")>>
        BY FrameKinds, OneMore DEF TypeOK
      <4> QED BY <2>6, <4>1 DEF WorkerDies
    <3> QED BY <2>2, <2>3, <3>1, <3>2
  <2> QED BY <1>3, <2>1, <2>4, <2>5, <2>6, StartSent, AcknowledgementSent, TrainingBegins,
             ProgressSent, CompletionSent DEF Work
<1> QED BY <1>2, <1>3

LEMMA SessionKept ==
    ASSUME TypeOK, SessionInStep, CompletionEarned, Begun, [Next]_vars
    PROVE  SessionInStep'
<1>1. CASE Work
  BY <1>1, WorkInStep
<1>2. CASE DeadlinePasses \/ UNCHANGED vars
  BY <1>2, SameSession DEF DeadlinePasses, vars, monitor, process, pipe, InSession
<1>3. CASE Interrupt
  BY <1>3 DEF Interrupt, SessionInStep, InSession
<1>4. CASE Supervise
  <2>1. CASE SpawnWorker
    <3>1. /\ stage' = "spawned" /\ steps' = 0 /\ done' = 0 /\ worker' = "boot"
          /\ toSup' = <<>> /\ toWorker' = <<>>
      BY <2>1 DEF SpawnWorker
    <3>2. Len(toSup') = 0
      BY <3>1
    <3> QED BY <3>1, <3>2 DEF SessionInStep, WorkerInStep
  <2>2. CASE PollNothing \/ CheckAlive
    <3>1. InSession /\ UNCHANGED <<stage, steps, process, pipe>>
      BY <2>2 DEF PollNothing, CheckAlive, monitor, InSession
    <3> QED BY <3>1, SameSession DEF process, pipe
  <2>3. CASE \/ SkipSeed \/ SeedTooLate \/ RefuseSeed \/ HitLimit \/ HitDeadline \/ ReceiveEnd
             \/ ReceiveCompleted \/ ReceiveFailure \/ CleanupWorker \/ SettleSeed \/ WriteReceipt
             \/ PublishResult \/ PublishIndex
    <3>1. sup' \notin {"poll", "alive"}
      BY <2>3 DEF SkipSeed, SeedTooLate, RefuseSeed, HitLimit, HitDeadline, ReceiveEnd,
         ReceiveCompleted, ReceiveFailure, Break, CleanupWorker, SettleSeed, WriteReceipt,
         PublishResult, PublishIndex
    <3> QED BY <3>1 DEF SessionInStep, InSession
  <2> QED BY <1>4, <2>1, <2>2, <2>3, StartedRead, AcknowledgedRead, ProgressRead DEF Supervise
<1> QED BY <1>1, <1>2, <1>3, <1>4 DEF Next

LEMMA BegunKept ==
    ASSUME TypeOK, SessionInStep, CompletionEarned, Begun, [Next]_vars
    PROVE  Begun'
<1>1. ASSUME UNCHANGED <<stage, toWorker>>, worker' \in {"train", "persist"} => worker \in {"train", "persist"}
      PROVE  Begun'
  BY <1>1 DEF Begun
<1>2. ASSUME toWorker' = <<>>, UNCHANGED stage,
             worker' \in {"train", "persist"} => worker \in {"train", "persist"}
      PROVE  Begun'
  BY <1>2 DEF Begun
<1>3. CASE SpawnWorker
  BY <1>3 DEF SpawnWorker, Begun
<1>4. ASSUME NEW f, NEW next \in Stages, Reply(f, next), UNCHANGED worker,
             f # "begin" \/ next \in Admitted, f \in {"admit", "begin"},
             next \notin Admitted => stage \notin Admitted,
             stage \in Admitted => next \in Admitted
      PROVE  Begun'
  <2>1. CASE EndOfFile
    BY <1>1, <1>4, <2>1 DEF Reply
  <2>2. CASE ~EndOfFile
    <3>1. toWorker' = Append(toWorker, Frame(f)) /\ stage' = next
      BY <1>4, <2>2 DEF Reply
    <3>2. Frame(f) \in Frames /\ Frame(f).type = f /\ toWorker \in Seq(Frames)
      BY <1>4, FrameKinds DEF TypeOK
    <3>3. /\ Len(toWorker) \in Nat /\ Len(toWorker') = Len(toWorker) + 1
          /\ toWorker'[Len(toWorker) + 1] = Frame(f)
          /\ \A i \in 1 .. Len(toWorker) : toWorker'[i] = toWorker[i]
      BY <3>1, <3>2, OneMore
    <3>4. ASSUME NEW i \in 1 .. Len(toWorker'), toWorker'[i].type = "begin"
          PROVE  next \in Admitted
      <4>1. CASE i \in 1 .. Len(toWorker)
        BY <1>4, <3>3, <3>4, <4>1 DEF Begun
      <4>2. CASE i = Len(toWorker) + 1
        BY <1>4, <3>2, <3>3, <3>4, <4>2
      <4> QED BY <3>3, <4>1, <4>2
    <3> QED BY <1>4, <3>1, <3>4 DEF Begun
  <2> QED BY <2>1, <2>2
<1>5. CASE ReceiveStarted
  <2>1. Reply("admit", "worker_started") /\ UNCHANGED worker /\ stage = "spawned"
    BY <1>5, StartedRead DEF ReceiveStarted, Receive, process
  <2> QED BY <1>4, <2>1 DEF Stages, Admitted
<1>6. CASE ReceiveAcknowledged
  <2>1. Reply("begin", "acknowledged") /\ UNCHANGED worker
    BY <1>6, AcknowledgedRead DEF ReceiveAcknowledged, Receive, process
  <2> QED BY <1>4, <2>1 DEF Stages, Admitted
<1>7. CASE ReceiveProgress
  <2>1. UNCHANGED <<toWorker, worker>> /\ (UNCHANGED stage \/ stage' = "training")
    BY <1>7 DEF ReceiveProgress, Receive, Break, process
  <2> QED BY <2>1 DEF Begun, Admitted
<1>8. CASE ReceiveCompleted
  <2>1. UNCHANGED <<toWorker, worker>> /\ (UNCHANGED stage \/ stage' = "completed")
    BY <1>8 DEF ReceiveCompleted, Receive, Break, process
  <2> QED BY <2>1 DEF Begun, Admitted
<1>9. CASE CleanupWorker \/ Interrupt
  BY <1>2, <1>9 DEF CleanupWorker, Interrupt, monitor
<1>10. CASE \/ SkipSeed \/ SeedTooLate \/ RefuseSeed \/ HitLimit \/ HitDeadline \/ PollNothing
            \/ CheckAlive \/ ReceiveEnd \/ SettleSeed \/ WriteReceipt \/ PublishResult
            \/ PublishIndex \/ ReceiveFailure \/ DeadlinePasses \/ UNCHANGED vars
  <2>1. UNCHANGED <<stage, toWorker, worker>>
    BY <1>10 DEF SkipSeed, SeedTooLate, RefuseSeed, HitLimit, HitDeadline, PollNothing,
         CheckAlive, ReceiveEnd, SettleSeed, WriteReceipt, PublishResult, PublishIndex,
         ReceiveFailure, Receive, DeadlinePasses, vars, monitor, process, pipe
  <2> QED BY <1>1, <2>1
<1>11. CASE WorkerAcknowledges
  <2>1. /\ toWorker # <<>> /\ toWorker' = Tail(toWorker) /\ worker' \notin {"train", "persist"}
        /\ UNCHANGED stage /\ toWorker \in Seq(Frames)
    BY <1>11 DEF WorkerAcknowledges, Send, TypeOK, monitor
  <2>2. \A i \in 1 .. Len(toWorker') : i + 1 \in 1 .. Len(toWorker) /\ toWorker'[i] = toWorker[i + 1]
    BY <2>1, TailShifts
  <2> QED BY <2>1, <2>2 DEF Begun
<1>12. CASE WorkerBegins
  <2>1. stage \in Admitted /\ UNCHANGED stage
    BY <1>12, TrainingBegins DEF WorkerBegins, monitor
  <2> QED BY <2>1 DEF Begun
<1>13. CASE \/ WorkerStarts \/ WorkerProgresses \/ WorkerPublishes \/ WorkerCompletes
            \/ WorkerFails \/ WorkerCloses \/ WorkerExits \/ WorkerDies
  <2>1. UNCHANGED <<stage, toWorker>>
    BY <1>13 DEF WorkerStarts, WorkerProgresses, WorkerPublishes, WorkerCompletes, WorkerFails,
         WorkerCloses, WorkerExits, WorkerDies, monitor, pipe
  <2>2. worker' \in {"train", "persist"} => worker \in {"train", "persist"}
    BY <1>13 DEF WorkerStarts, WorkerProgresses, WorkerPublishes, WorkerCompletes, WorkerFails,
         WorkerCloses, WorkerExits, WorkerDies, Send
  <2> QED BY <1>1, <2>1, <2>2
<1> QED BY <1>3, <1>5, <1>6, <1>7, <1>8, <1>9, <1>10, <1>11, <1>12, <1>13
        DEF Next, Supervise, Work

\* Every frame arrives in the stage and with the count the loop expects.
LEMMA NoneBlamed ==
    ASSUME TypeOK, SessionInStep, CompletionEarned, ConformingWorkerAccepted, [Next]_vars
    PROVE  ConformingWorkerAccepted'
<1>1. CASE ReceiveAcknowledged
  <2>1. Reply("begin", "acknowledged")
    BY <1>1, AcknowledgedRead DEF ReceiveAcknowledged
  <2> QED BY <2>1 DEF Reply, Break, ConformingWorkerAccepted
<1>2. CASE ReceiveProgress
  <2>1. terminal' # "drift"
    BY <1>2, ProgressRead
  <2>2. terminal' \in {"drift", "breach", terminal}
    BY <1>2 DEF ReceiveProgress, Break
  <2> QED BY <2>1, <2>2 DEF ConformingWorkerAccepted
<1>3. CASE ReceiveCompleted
  <2>1. Receive("completed")
    BY <1>3 DEF ReceiveCompleted
  <2>2. stage \in {"acknowledged", "training"}
    BY <2>1, HeadInStep DEF FrameInStep
  <2> QED BY <1>3, <2>2 DEF ReceiveCompleted, ConformingWorkerAccepted
<1>4. CASE Supervise /\ ~ReceiveAcknowledged /\ ~ReceiveProgress /\ ~ReceiveCompleted
  BY <1>4 DEF Supervise, SpawnWorker, SkipSeed, SeedTooLate, RefuseSeed, HitLimit, HitDeadline,
         PollNothing, CheckAlive, ReceiveEnd, ReceiveStarted, ReceiveFailure, Reply, Break,
         CleanupWorker, SettleSeed, WriteReceipt, PublishResult, PublishIndex, monitor,
         ConformingWorkerAccepted
<1>5. CASE Work \/ Interrupt \/ DeadlinePasses \/ UNCHANGED vars
  <2>1. UNCHANGED terminal
    BY <1>5 DEF Work, Interrupt, DeadlinePasses, vars, monitor, WorkerStarts, WorkerAcknowledges,
         WorkerBegins, WorkerProgresses, WorkerPublishes, WorkerCompletes, WorkerFails,
         WorkerCloses, WorkerExits, WorkerDies
  <2> QED BY <2>1 DEF ConformingWorkerAccepted
<1> QED BY <1>1, <1>2, <1>3, <1>4, <1>5 DEF Next

\* Every reachable state: the ends of the pipe are in step, and the record says
\* what happened.
LEMMA Invariance == Spec => []IInv
<1>1. Init => IInv
  <2> SUFFICES ASSUME Init PROVE IInv
    OBVIOUS
  <2>1. ~WorkerAlive /\ ~JobFailed /\ "none" \notin Statuses
    BY DEF Init, WorkerAlive, JobFailed, Statuses, Failures
  <2>2. TypeOK
    <3>1. toSup \in Seq(Frames) /\ toWorker \in Seq(Frames)
      BY DEF Init
    <3>2. \A s \in SeedIds : receipt[s] = "none" /\ ~(s < seed)
      BY DEF Init
    <3>3. receipt \in [SeedIds -> Statuses \union {"none"}] /\ artifacts \subseteq SeedIds
      BY DEF Init
    <3>4. late \in BOOLEAN /\ payload \in BOOLEAN /\ index \in BOOLEAN
      BY DEF Init
    <3>5. seed \in 1 .. Seeds + 1 /\ steps \in 0 .. MaxSteps /\ done \in 0 .. MaxSteps
      BY DEF Init
    <3> QED BY <3>1, <3>2, <3>3, <3>4, <3>5 DEF Init, TypeOK, SupLocations, Stages, WorkerLocations
  <2>3. ReceiptsOrdered /\ JobRecord
    BY <2>1 DEF Init, ReceiptsOrdered, JobRecord, ResultAccounts, Statuses
  <2>4. CompletionEarned /\ Begun /\ SessionInStep /\ ConformingWorkerAccepted
    <3>1. Len(toWorker) = 0
      BY DEF Init
    <3> QED BY <2>1, <3>1 DEF Init, CompletionEarned, Begun, SessionInStep, InSession,
                              ConformingWorkerAccepted
  <2> QED BY <2>2, <2>3, <2>4 DEF IInv
<1>2. ASSUME IInv, [Next]_vars PROVE IInv'
  <2>1. TypeOK'
    BY <1>2, Typed DEF IInv
  <2>2. ReceiptsOrdered' /\ JobRecord' /\ CompletionEarned'
    BY <1>2, <2>1, OrderKept, RecordKept, CompletionKept DEF IInv
  <2>3. Begun' /\ SessionInStep' /\ ConformingWorkerAccepted'
    BY <1>2, BegunKept, SessionKept, NoneBlamed DEF IInv
  <2> QED BY <2>1, <2>2, <2>3 DEF IInv
<1> QED BY <1>1, <1>2, PTL DEF Spec

-----------------------------------------------------------------------------
(* Theorems                                                                *)

\* Every variable keeps its type; receipts are written in the order of the
\* seeds, and a seed is monitored only while the job has not failed.
THEOREM TypeCorrect == Spec => []TypeOK
<1>1. IInv => TypeOK
  BY DEF IInv
<1> QED BY <1>1, Invariance, PTL

\* No model or environment is constructed before the supervisor has read the
\* worker's acknowledgement, for any number of seeds and frames.
THEOREM ConstructionWaits == Spec => []ConstructionAdmitted
<1>1. IInv => ConstructionAdmitted
  BY DEF IInv, Begun, Admitted, ConstructionAdmitted
<1> QED BY <1>1, Invariance, PTL

\* A worker that follows its session is never blamed for its frames.
THEOREM ConformingAccepted == Spec => []ConformingWorkerAccepted
<1>1. IInv => ConformingWorkerAccepted
  BY DEF IInv
<1> QED BY <1>1, Invariance, PTL

\* A published result accounts for every declared seed and claims success only
\* if all of them succeeded.
THEOREM ResultsAccount == Spec => []ResultAccounts
<1>1. IInv => ResultAccounts
  BY DEF IInv, JobRecord
<1> QED BY <1>1, Invariance, PTL

\* The checkpoint index stands on a published success with all its artifacts.
THEOREM IndexesComplete == Spec => []IndexComplete
<1>1. IInv => IndexComplete
  BY DEF IInv, JobRecord, IndexComplete
<1> QED BY <1>1, Invariance, PTL

\* A success receipt is earned by a worker that completed, is gone, and left
\* its artifacts.
THEOREM SuccessesEarned == Spec => SuccessEarned
<1> DEFINE Earned == \A s \in SeedIds : receipt[s] = "none" /\ receipt'[s] = "succeeded" =>
                        /\ s \in artifacts
                        /\ stage = "completed"
                        /\ ~WorkerAlive
<1>1. ASSUME IInv, [Next]_vars PROVE Earned
  <2> SUFFICES ASSUME NEW s \in SeedIds, receipt[s] = "none", receipt'[s] = "succeeded"
               PROVE  s \in artifacts /\ stage = "completed" /\ ~WorkerAlive
    OBVIOUS
  <2>1. TypeOK /\ ReceiptsOrdered /\ CompletionEarned
    BY <1>1 DEF IInv
  <2>2. ReceiptSteps
    BY <1>1, OthersKeepReceipts
  <2>3. /\ seed \in SeedIds /\ seed' = seed + 1
        /\ \/ WriteReceiptOf(seed, "not_started")
           \/ \E status \in Failures : WriteReceiptOf(seed, status)
           \/ WriteReceiptOf(seed, "succeeded") /\ sup = "receipt" /\ payload /\ seed \in artifacts
    BY <2>1, <2>2, ReceiptWritten
  <2>4. s = seed
    BY <2>1, <2>3, ReceiptTyped DEF Statuses
  <2>5. sup = "receipt" /\ payload /\ seed \in artifacts
    <3>1. \A status \in Failures \union {"not_started"} :
             WriteReceiptOf(seed, status) => receipt'[s] = status /\ status # "succeeded"
      BY <2>1, <2>3, <2>4, ReceiptTyped DEF Statuses, Failures
    <3> QED BY <2>3, <3>1
  <2> QED BY <2>1, <2>4, <2>5 DEF CompletionEarned
<1> HIDE DEF Earned
<1>2. ASSUME IInv, [Next]_vars PROVE [Earned]_vars
  BY <1>1, <1>2
<1>3. Spec => [][Earned]_vars
  BY <1>2, Invariance, PTL DEF Spec
<1> QED BY <1>3 DEF SuccessEarned, Earned

-----------------------------------------------------------------------------
(* The ledger                                                              *)

\* A receipt step is an entry of the ledger.
LEMMA ReceiptEntered ==
    ASSUME IInv, ReceiptSteps
    PROVE  \E s \in SeedIds : Ledger!Succeed(s) \/ Ledger!Fail(s) \/ Ledger!Skip(s)
<1>1. TypeOK /\ ReceiptsOrdered
  BY DEF IInv
<1>2. /\ seed \in SeedIds /\ UNCHANGED <<artifacts, result, index>>
      /\ \/ JobFailed /\ WriteReceiptOf(seed, "not_started")
         \/ ~JobFailed /\ \E status \in Failures : WriteReceiptOf(seed, status)
         \/ ~JobFailed /\ WriteReceiptOf(seed, "succeeded") /\ seed \in artifacts
  BY <1>1, ReceiptWritten
<1>3. receipt[seed] = "none" /\ \A t \in 1 .. seed - 1 : t \in SeedIds /\ receipt[t] # "none"
  BY <1>1, <1>2 DEF TypeOK
<1>4. ASSUME ~JobFailed PROVE Ledger!Turn(seed)
  <2>1. \A t \in 1 .. seed - 1 : receipt[t] = "succeeded"
    BY <1>4 DEF JobFailed
  <2> QED BY <1>3, <2>1 DEF Ledger!Turn
<1>5. \A status : WriteReceiptOf(seed, status) => Ledger!Enter(seed, status)
  BY <1>2 DEF WriteReceiptOf, Ledger!Enter
<1>6. CASE JobFailed /\ WriteReceiptOf(seed, "not_started")
  <2>1. PICK f \in SeedIds : f < seed /\ receipt[f] \in Failures
    BY <1>1, <1>6, SomeFailed
  <2>2. f \in 1 .. seed - 1
    BY <1>2, <2>1
  <2>3. Ledger!Skip(seed)
    BY <1>3, <1>5, <1>6, <2>1, <2>2 DEF Ledger!Skip, Ledger!Due
  <2> QED BY <1>2, <2>3
<1>7. CASE ~JobFailed /\ \E status \in Failures : WriteReceiptOf(seed, status)
  BY <1>2, <1>4, <1>5, <1>7 DEF Ledger!Fail
<1>8. CASE ~JobFailed /\ WriteReceiptOf(seed, "succeeded") /\ seed \in artifacts
  BY <1>2, <1>4, <1>5, <1>8 DEF Ledger!Succeed
<1> QED BY <1>2, <1>6, <1>7, <1>8

\* A living worker is that of the seed whose turn it is, or of the failed one.
LEMMA ArtifactsStored ==
    ASSUME IInv, WorkerPublishes
    PROVE  \E s \in SeedIds : Ledger!Store(s)
<1>1. WorkerAlive /\ artifacts' = artifacts \union {WorkerSeed}
      /\ UNCHANGED <<receipt, result, index>>
  BY DEF WorkerPublishes, WorkerAlive
<1>2. TypeOK /\ ReceiptsOrdered /\ CompletionEarned
  BY DEF IInv
<1>3. WorkerSeed \in SeedIds
  BY <1>1, <1>2, WorkersSeed
<1>4. CASE JobFailed
  <2>1. \E f \in SeedIds : receipt[f] \in Failures
    BY <1>2, <1>4, SomeFailed
  <2>2. receipt[WorkerSeed] \in Failures
    BY <1>4, <2>1 DEF WorkerSeed, FailedSeed
  <2> QED BY <1>1, <1>3, <2>2 DEF Ledger!Store
<1>5. CASE ~JobFailed
  <2>1. WorkerSeed = seed /\ seed \in SeedIds
    BY <1>3, <1>5 DEF WorkerSeed
  <2>2. receipt[seed] = "none" /\ \A t \in 1 .. seed - 1 : receipt[t] = "succeeded"
    BY <1>2, <1>5, <2>1 DEF TypeOK, JobFailed
  <2> QED BY <1>1, <2>1, <2>2 DEF Ledger!Store, Ledger!Turn
<1> QED BY <1>4, <1>5

\* The result sums up the receipts, once.
LEMMA ResultConcludes ==
    ASSUME IInv, PublishResult
    PROVE  Ledger!Conclude
<1>1. /\ sup = "checks" /\ seed = Seeds + 1 /\ UNCHANGED <<receipt, artifacts, index>>
      /\ \/ result' = IF \A s \in SeedIds : receipt[s] = "succeeded"
                      THEN "succeeded" ELSE receipt[FailedSeed]
         \/ result' = "breach"
  BY DEF PublishResult
<1>2. result = "none"
  BY <1>1 DEF IInv, JobRecord
<1>3. \A s \in SeedIds : receipt[s] # "none" /\ receipt[s] \in Statuses
  BY <1>1 DEF IInv, TypeOK
<1>4. ASSUME ~ \A s \in SeedIds : receipt[s] = "succeeded"
      PROVE  FailedSeed \in SeedIds /\ receipt[FailedSeed] \in Failures
  <2>1. \E f \in SeedIds : receipt[f] \in Failures
    BY <1>3, <1>4 DEF IInv, ReceiptsOrdered, Statuses
  <2> QED BY <2>1 DEF FailedSeed
<1>5. \/ result' = "breach"
      \/ (\A s \in SeedIds : receipt[s] = "succeeded") /\ result' = "succeeded"
      \/ \E s \in SeedIds : receipt[s] \in Failures /\ result' = receipt[s]
  BY <1>1, <1>4
<1> QED BY <1>1, <1>2, <1>3, <1>5 DEF Ledger!Conclude, Ledger!Declared

\* Only a worker that publishes adds artifacts.
LEMMA OthersKeepArtifacts ==
    ASSUME [Next]_vars, ~WorkerPublishes
    PROVE  UNCHANGED artifacts
BY DEF Next, Supervise, Work, vars, record, SkipSeed, SeedTooLate, WriteReceipt, RefuseSeed,
       SpawnWorker, HitLimit, HitDeadline,
       PollNothing, CheckAlive, ReceiveEnd, ReceiveStarted, ReceiveAcknowledged, ReceiveProgress,
       ReceiveCompleted, ReceiveFailure, Receive, CleanupWorker, SettleSeed, PublishResult,
       PublishIndex, Interrupt, DeadlinePasses, WorkerStarts, WorkerAcknowledges, WorkerBegins,
       WorkerProgresses, WorkerCompletes, WorkerFails, WorkerCloses, WorkerExits,
       WorkerDies

\* Every step of the job is a step of its ledger or leaves the files alone.
LEMMA LedgerStep ==
    ASSUME IInv, [Next]_vars
    PROVE  [Ledger!LedgerNext]_(Ledger!ledgerVars)
<1> USE DEF Ledger!LedgerNext, Ledger!Declared
<1>1. CASE ReceiptSteps
  BY <1>1, ReceiptEntered
<1>2. CASE WorkerPublishes
  BY <1>2, ArtifactsStored
<1>3. CASE PublishResult
  BY <1>3, ResultConcludes
<1>4. CASE PublishIndex
  <2>1. sup = "index" /\ index' = TRUE /\ UNCHANGED <<artifacts, receipt, result>>
    BY <1>4 DEF PublishIndex
  <2>2. result = "succeeded" /\ ~index
    BY <2>1 DEF IInv, JobRecord
  <2> QED BY <2>1, <2>2 DEF Ledger!Index
<1>5. CASE ~ReceiptSteps /\ ~WorkerPublishes /\ ~PublishResult /\ ~PublishIndex
  BY <1>5, OthersKeepReceipts, OthersKeepRecord, OthersKeepArtifacts DEF Ledger!ledgerVars
<1> QED BY <1>1, <1>2, <1>3, <1>4, <1>5

\* The job implements its ledger, for any number of seeds and frames: no
\* interleaving, kill, interrupt or survivor writes a file the ledger forbids.
THEOREM LedgerKept == Spec => ImplementsLedger
<1>1. Init => Ledger!LedgerInit
  BY DEF Init, Ledger!LedgerInit, Ledger!Declared
<1>2. IInv /\ [Next]_vars => [Ledger!LedgerNext]_(Ledger!ledgerVars)
  BY LedgerStep
<1> QED BY <1>1, <1>2, Invariance, PTL DEF Spec, ImplementsLedger, Ledger!LedgerSpec

\* What readers of a successful job rely on: from the result on its receipts,
\* its artifacts and the result itself never change, whoever is still alive.
SuccessFrozen == [][result = "succeeded" => UNCHANGED <<receipt, artifacts, result>>]_vars

\* A success is final.
THEOREM SuccessFinal == Spec => SuccessFrozen
<1> DEFINE Frozen == result = "succeeded" => UNCHANGED <<receipt, artifacts, result>>
<1>1. ASSUME IInv, [Next]_vars PROVE Frozen
  <2> SUFFICES ASSUME result = "succeeded" PROVE UNCHANGED <<receipt, artifacts, result>>
    OBVIOUS
  <2>1. \A s \in SeedIds : receipt[s] = "succeeded"
    BY <1>1 DEF IInv, JobRecord, ResultAccounts
  <2>2. [Ledger!LedgerNext]_(Ledger!ledgerVars)
    BY <1>1, LedgerStep
  <2>3. ASSUME NEW s \in SeedIds
        PROVE  ~Ledger!Store(s) /\ ~Ledger!Succeed(s) /\ ~Ledger!Fail(s) /\ ~Ledger!Skip(s)
    BY <2>1 DEF Ledger!Store, Ledger!Succeed, Ledger!Fail, Ledger!Skip, Ledger!Turn, Ledger!Due,
                Failures
  <2>4. ~Ledger!Conclude
    BY DEF Ledger!Conclude
  <2> QED BY <2>2, <2>3, <2>4
          DEF Ledger!LedgerNext, Ledger!Declared, Ledger!ledgerVars, Ledger!Index
<1> HIDE DEF Frozen
<1>2. IInv /\ [Next]_vars => [Frozen]_vars
  BY <1>1
<1>3. Spec => [][Frozen]_vars
  BY <1>2, Invariance, PTL DEF Spec
<1> QED BY <1>3 DEF SuccessFrozen, Frozen

-----------------------------------------------------------------------------
(* The course of the job                                                   *)

Rank(where) == CASE where = "checks"            -> 0
                 [] where \in {"poll", "alive"} -> 1
                 [] where = "cleanup"           -> 2
                 [] where = "settle"            -> 3
                 [] where = "receipt"           -> 4
                 [] where = "index"             -> 5
                 [] OTHER                       -> 6

\* The supervisor goes from seed to seed and, within one, from the checks
\* through monitor, cleanup and receipt; it never goes back.  A seed is thus
\* spawned at most once and gets at most one receipt.
JobAdvances == [][\/ seed' = seed + 1 /\ sup' = "checks"
                  \/ seed' = seed /\ Rank(sup) <= Rank(sup')]_vars

\* No seed is begun again.
THEOREM NoSeedTwice == Spec => JobAdvances
<1> DEFINE Advance == \/ seed' = seed + 1 /\ sup' = "checks"
                      \/ seed' = seed /\ Rank(sup) <= Rank(sup')
<1>1. ASSUME IInv, [Next]_vars PROVE Advance
  <2>1. CASE ReceiptSteps
    BY <1>1, <2>1, ReceiptWritten DEF IInv
  <2>2. CASE PublishResult \/ PublishIndex
    BY <2>2 DEF PublishResult, PublishIndex, Rank
  <2>3. CASE SpawnWorker \/ RefuseSeed
    BY <2>3 DEF SpawnWorker, RefuseSeed, Rank
  <2>4. CASE CleanupWorker \/ SettleSeed
    BY <2>4 DEF CleanupWorker, SettleSeed, Rank
  <2>5. CASE HitLimit \/ HitDeadline \/ PollNothing \/ CheckAlive \/ ReceiveEnd
    BY <2>5 DEF HitLimit, HitDeadline, PollNothing, CheckAlive, ReceiveEnd, Break, Rank
  <2>6. CASE \/ ReceiveStarted \/ ReceiveAcknowledged \/ ReceiveProgress
             \/ ReceiveCompleted \/ ReceiveFailure
    BY <2>6 DEF ReceiveStarted, ReceiveAcknowledged, ReceiveProgress, ReceiveCompleted,
                ReceiveFailure, Receive, Reply, Break, Rank
  <2>7. CASE Interrupt
    BY <2>7 DEF Interrupt, Rank
  <2>8. CASE Work \/ DeadlinePasses \/ UNCHANGED vars
    <3>1. UNCHANGED <<seed, sup>>
      BY <2>8 DEF Work, DeadlinePasses, vars, WorkerStarts, WorkerAcknowledges, WorkerBegins,
                  WorkerProgresses, WorkerPublishes, WorkerCompletes, WorkerFails, WorkerCloses,
                  WorkerExits, WorkerDies
    <3> QED BY <3>1 DEF Rank
  <2> QED BY <1>1, <2>1, <2>2, <2>3, <2>4, <2>5, <2>6, <2>7, <2>8
          DEF Next, Supervise, ReceiptSteps
<1> HIDE DEF Advance
<1>2. IInv /\ [Next]_vars => [Advance]_vars
  BY <1>1
<1>3. Spec => [][Advance]_vars
  BY <1>2, Invariance, PTL DEF Spec
<1> QED BY <1>3 DEF JobAdvances, Advance

\* What a job that ends with an exception before a spawn leaves: a success
\* receipt for every seed before the one refused, nothing for that one and the
\* later ones, no result and no index.  The accounting that the seeds after a
\* failed one get is the part it lacks.
RefusalLeaves ==
    sup = "refused" =>
      /\ \A s \in SeedIds : receipt[s] = IF s < seed THEN "succeeded" ELSE "none"
      /\ result = "none"
      /\ ~index

\* A refusal comes before any failure, and nothing follows it.
THEOREM RefusalRecord == Spec => []RefusalLeaves
<1> DEFINE Inv == sup = "refused" => ~JobFailed
<1>1. Init => Inv
  BY DEF Init
<1>2. IInv /\ [Next]_vars /\ Inv => Inv'
  <2> SUFFICES ASSUME IInv, [Next]_vars, Inv, sup' = "refused" PROVE ~JobFailed'
    OBVIOUS
  <2>1. CASE RefuseSeed
    <3>1. ~JobFailed /\ UNCHANGED <<seed, receipt>>
      BY <2>1 DEF RefuseSeed, record
    <3> QED BY <3>1, SameJob
  <2>2. CASE ~RefuseSeed
    <3>1. sup = "refused" /\ ~ReceiptSteps
      BY <2>2 DEF Next, Supervise, ReceiptSteps, SkipSeed, SeedTooLate, SpawnWorker, HitLimit,
           HitDeadline, PollNothing, CheckAlive, ReceiveEnd, ReceiveStarted, ReceiveAcknowledged,
           ReceiveProgress, ReceiveCompleted, ReceiveFailure, Receive, Reply, Break, CleanupWorker,
           SettleSeed, WriteReceipt, PublishResult, PublishIndex, Interrupt, Work, DeadlinePasses,
           vars, WorkerStarts, WorkerAcknowledges, WorkerBegins, WorkerProgresses, WorkerPublishes,
           WorkerCompletes, WorkerFails, WorkerCloses, WorkerExits, WorkerDies
    <3> QED BY <3>1, OthersKeepReceipts, SameJob
  <2> QED BY <2>1, <2>2
<1>3. IInv /\ Inv => RefusalLeaves
  <2> SUFFICES ASSUME IInv, Inv, sup = "refused"
               PROVE  /\ \A s \in SeedIds : receipt[s] = IF s < seed THEN "succeeded" ELSE "none"
                      /\ result = "none" /\ ~index
    BY DEF RefusalLeaves
  <2>1. TypeOK /\ ~JobFailed
    BY DEF IInv
  <2>2. \A s \in SeedIds : s < seed => receipt[s] = "succeeded"
    BY <2>1, AllSucceeded
  <2>3. \A s \in SeedIds : ~(s < seed) => receipt[s] = "none"
    BY <2>1 DEF TypeOK
  <2>4. result = "none" /\ ~index
    BY DEF IInv, JobRecord
  <2> QED BY <2>2, <2>3, <2>4
<1> HIDE DEF Inv
<1> QED BY <1>1, <1>2, <1>3, Invariance, PTL DEF Spec
=============================================================================
