----------------------------- MODULE TrainingJob -----------------------------
(***************************************************************************)
(* One job of src/oracle_composition/phase_b/supervision.py from the       *)
(* inside: the seed loop of _supervise_training_job, the monitor loop of   *)
(* _supervise_seed, the worker session on the other end of the pipe, and   *)
(* the receipts, the job result and the checkpoint index they leave.       *)
(*                                                                         *)
(* Supervisor and worker are two processes joined by a socket pair: frames *)
(* arrive in order, a closed end reads as end of file once the frames      *)
(* before it are consumed, and each side checks the clock, the pipe and    *)
(* the other process in steps of its own.  The job's hold on the heavy-job *)
(* slot is HeavyJobs' subject.                                             *)
(***************************************************************************)
EXTENDS Naturals, Sequences

CONSTANTS Seeds,     \* how many seeds the job declares
          MaxSteps   \* bound: progress frames a worker sends

ASSUME TrainingConstants == Seeds \in Nat \ {0} /\ MaxSteps \in Nat

VARIABLES
    sup,       \* where the supervisor is
    seed,      \* the seed at hand, Seeds + 1 when all are accounted for
    late,      \* the cohort or job wall limit has passed
    stage,     \* last_stage, the last stage the worker acknowledged
    steps,     \* last_progress_steps
    terminal,  \* terminal_status, or "none"
    payload,   \* terminal_payload is not None
    worker,    \* where the worker process of this seed is
    done,      \* the worker's own count of progress frames
    ended,     \* how the worker process ended
    toSup,     \* frames on the way to the supervisor
    toWorker,  \* frames on the way to the worker
    artifacts, \* seeds whose checkpoint, export and receipt are published
    receipt,   \* seed -> the status its receipt records, or "none"
    result,    \* the status in job_result_v1.json, or "none"
    index      \* the checkpoint index is published

vars == <<sup, seed, late, stage, steps, terminal, payload, worker, done, ended,
          toSup, toWorker, artifacts, receipt, result, index>>

monitor == <<stage, steps, terminal, payload>>
process == <<worker, done, ended>>
pipe == <<toSup, toWorker>>
record == <<artifacts, receipt, result, index>>

SeedIds == 1 .. Seeds

\* "failed" stands for the statuses a worker reports of itself.
Failures == {"timeout", "breach", "crash", "cleanup_failure", "drift",
             "malformed", "precondition", "mutation", "failed"}
Statuses == Failures \union {"succeeded", "not_started"}

Stages == {"spawned", "worker_started", "acknowledged", "training", "completed"}
SupLocations == {"checks", "poll", "alive", "cleanup", "settle", "receipt",
                 "index", "returned", "refused", "raised"}

\* "closing": a terminal frame is sent or the session failed; "closed": the
\* connection is closed and the interpreter shuts down; "gone": exited.
WorkerLocations == {"none", "boot", "await_admit", "await_begin", "train",
                    "persist", "closing", "closed", "gone"}

Frames == {[type |-> t, n |-> 0] :
             t \in {"worker_started", "acknowledged", "completed", "failed",
                    "resource_breach", "torn", "admit", "begin"}}
          \union [type : {"progress"}, n : 1 .. MaxSteps]
Frame(t) == [type |-> t, n |-> 0]

Init == /\ sup = "checks"
        /\ seed = 1
        /\ late = FALSE
        /\ stage = "spawned" /\ steps = 0 /\ terminal = "none" /\ payload = FALSE
        /\ worker = "none" /\ done = 0 /\ ended = "none"
        /\ toSup = <<>> /\ toWorker = <<>>
        /\ artifacts = {}
        /\ receipt = [s \in SeedIds |-> "none"]
        /\ result = "none"
        /\ index = FALSE

-----------------------------------------------------------------------------
(* Helpers                                                                 *)

WorkerAlive == worker \notin {"none", "gone"}

\* The supervisor reads end of file: every copy of the other end is closed.
EndOfFile == worker \in {"closed", "gone"}

\* failed_seed is not None.
JobFailed == \E s \in 1 .. seed - 1 : receipt[s] # "succeeded"

\* failed_seed; only one seed can fail by itself.
FailedSeed == CHOOSE s \in SeedIds : receipt[s] \in Failures

\* The seed of the worker process.  It outlives its seed only when its cleanup
\* was not verified, and that seed is then the failed one.
WorkerSeed == IF JobFailed THEN FailedSeed ELSE seed

\* The monitor loop breaks with a status.
Break(status) ==
    /\ terminal' = status
    /\ sup' = "cleanup"

WriteReceiptOf(s, status) == receipt' = [receipt EXCEPT ![s] = status]

-----------------------------------------------------------------------------
(* The seed loop                                                           *)

\* Mutant: the seeds after the failed one are passed over.
SkipSeedSilently ==
    /\ sup = "checks" /\ seed \in SeedIds
    /\ JobFailed
    /\ seed' = seed + 1
    /\ UNCHANGED <<sup, late, monitor, process, pipe, record>>

\* A seed after the failed one gets a NOT_STARTED receipt.
SkipSeed ==
    /\ sup = "checks" /\ seed \in SeedIds
    /\ JobFailed
    /\ WriteReceiptOf(seed, "not_started")
    /\ seed' = seed + 1
    /\ UNCHANGED <<sup, late, monitor, process, pipe, artifacts, result, index>>

\* The wall limit passed between two seeds.
SeedTooLate ==
    /\ sup = "checks" /\ seed \in SeedIds
    /\ ~JobFailed
    /\ late
    /\ WriteReceiptOf(seed, "timeout")
    /\ seed' = seed + 1
    /\ UNCHANGED <<sup, late, monitor, process, pipe, artifacts, result, index>>

\* A check before the spawn raises: the reservation is stale, another training
\* process runs, a sealed input changed, the slot refuses, or the spawn fails.
RefuseSeed ==
    /\ sup = "checks" /\ seed \in SeedIds
    /\ ~JobFailed /\ ~late
    /\ sup' = "refused"
    /\ UNCHANGED <<seed, late, monitor, process, pipe, record>>

SpawnWorker ==
    /\ sup = "checks" /\ seed \in SeedIds
    /\ ~JobFailed /\ ~late
    /\ sup' = "poll"
    /\ stage' = "spawned" /\ steps' = 0 /\ terminal' = "none" /\ payload' = FALSE
    /\ worker' = "boot" /\ done' = 0 /\ ended' = "none"
    /\ toSup' = <<>> /\ toWorker' = <<>>
    /\ UNCHANGED <<seed, late, record>>

-----------------------------------------------------------------------------
(* The monitor loop                                                        *)

\* The checks at the top of the loop, but for the job's wall limit: per-seed
\* and acknowledgement limits, free disk, output size, process-tree RSS.
HitLimit ==
    /\ sup = "poll"
    /\ \E status \in {"timeout", "breach"} : Break(status)
    /\ UNCHANGED <<seed, late, stage, steps, payload, process, pipe, record>>

\* now >= cohort_job_deadline.
HitDeadline ==
    /\ sup = "poll"
    /\ late
    /\ Break("timeout")
    /\ UNCHANGED <<seed, late, stage, steps, payload, process, pipe, record>>

\* Mutant: the job's wall limit is not looked at while the pipe is silent.
PollPastDeadline ==
    /\ sup = "poll"
    /\ toSup = <<>> /\ ~EndOfFile
    /\ sup' = "alive"
    /\ UNCHANGED <<seed, late, monitor, process, pipe, record>>

\* poll times out: nothing to read and no end of file.  Whether the worker
\* still lives is asked in a step of its own.
PollNothing ==
    /\ sup = "poll"
    /\ ~late
    /\ toSup = <<>> /\ ~EndOfFile
    /\ sup' = "alive"
    /\ UNCHANGED <<seed, late, monitor, process, pipe, record>>

\* is_alive, and the exit code of a worker that is not.
CheckAlive ==
    /\ sup = "alive"
    /\ \/ WorkerAlive /\ sup' = "poll" /\ UNCHANGED terminal
       \/ ~WorkerAlive /\ Break(IF ended = "xcpu" THEN "breach" ELSE "crash")
    /\ UNCHANGED <<seed, late, stage, steps, payload, process, pipe, record>>

\* recv_bytes at end of file raises EOFError, which the loop records as CRASH.
ReceiveEnd ==
    /\ sup = "poll"
    /\ ~late
    /\ toSup = <<>> /\ EndOfFile
    /\ Break("crash")
    /\ UNCHANGED <<seed, late, stage, steps, payload, process, pipe, record>>

\* The head of the pipe is taken off it.
Receive(type) ==
    /\ sup = "poll"
    /\ ~late
    /\ toSup # <<>>
    /\ Head(toSup).type = type
    /\ toSup' = Tail(toSup)
    /\ UNCHANGED <<seed, late, process, record>>

\* A reply to a worker that has closed its end fails with EPIPE: CRASH.
Reply(frame, next) ==
    IF EndOfFile
    THEN Break("crash") /\ UNCHANGED <<toWorker, stage>>
    ELSE /\ toWorker' = Append(toWorker, Frame(frame))
         /\ stage' = next
         /\ UNCHANGED <<sup, terminal>>

\* Mutant: the construction admission goes out with the execution admission,
\* without waiting for the acknowledgement.
AdmitAndBegin ==
    /\ Receive("worker_started")
    /\ IF EndOfFile
       THEN Break("crash") /\ UNCHANGED <<toWorker, stage>>
       ELSE /\ toWorker' = toWorker \o <<Frame("admit"), Frame("begin")>>
            /\ stage' = "worker_started"
            /\ UNCHANGED <<sup, terminal>>
    /\ UNCHANGED <<steps, payload>>

ReceiveStarted ==
    /\ Receive("worker_started")
    /\ Reply("admit", "worker_started")
    /\ UNCHANGED <<steps, payload>>

\* Mutant: the stage is not advanced, so the next frame looks out of order.
AcknowledgeSilently ==
    /\ Receive("acknowledged")
    /\ Reply("begin", stage)
    /\ UNCHANGED <<steps, payload>>

ReceiveAcknowledged ==
    /\ Receive("acknowledged")
    /\ IF stage # "worker_started"
       THEN Break("precondition") /\ UNCHANGED <<toWorker, stage>>
       ELSE Reply("begin", "acknowledged")
    /\ UNCHANGED <<steps, payload>>

\* A progress frame in order, counting up; the throughput floor may be breached.
ReceiveProgress ==
    /\ Receive("progress")
    /\ LET n == Head(toSup).n IN
       IF stage \notin {"acknowledged", "training"} \/ n <= steps
       THEN Break("drift") /\ UNCHANGED <<stage, steps>>
       ELSE /\ steps' = n
            /\ \/ Break("breach") /\ UNCHANGED stage
               \/ stage' = "training" /\ UNCHANGED <<sup, terminal>>
    /\ UNCHANGED <<toWorker, payload>>

ReceiveCompleted ==
    /\ Receive("completed")
    /\ IF stage \notin {"acknowledged", "training"}
       THEN Break("drift") /\ UNCHANGED <<stage, payload>>
       ELSE /\ payload' = TRUE
            /\ stage' = "completed"
            /\ sup' = "cleanup"
            /\ UNCHANGED terminal
    /\ UNCHANGED <<steps, toWorker>>

\* The worker reports its own failure, or died inside a frame: recv_bytes then
\* raises OSError or, with nothing of the body read, EOFError.
ReceiveFailure ==
    /\ \/ Receive("failed") /\ Break("failed")
       \/ Receive("resource_breach") /\ Break("breach")
       \/ Receive("torn") /\ \E status \in {"malformed", "crash"} : Break(status)
    /\ UNCHANGED <<stage, steps, payload, toWorker>>

-----------------------------------------------------------------------------
(* After the loop                                                          *)

\* Mutant: an unverified cleanup does not take the completion back.
CleanupKeepsPayload ==
    /\ sup = "cleanup"
    /\ sup' = "settle"
    /\ \/ WorkerAlive /\ worker' = "gone" /\ ended' = "killed"
       \/ UNCHANGED <<worker, ended>>
    /\ toSup' = <<>> /\ toWorker' = <<>>
    /\ UNCHANGED <<seed, late, monitor, done, record>>

\* cleanup_guard.cleanup: TERM, KILL, verification; the connection is closed
\* either way.  A cleanup that raises fails the seed.
CleanupWorker ==
    /\ sup = "cleanup"
    /\ sup' = "settle"
    /\ \/ /\ ~WorkerAlive
          /\ UNCHANGED <<worker, ended, terminal, payload>>
       \/ /\ WorkerAlive
          /\ worker' = "gone" /\ ended' = "killed"
          /\ UNCHANGED <<terminal, payload>>
       \/ /\ payload' = FALSE
          /\ terminal' = IF terminal = "none" THEN "cleanup_failure" ELSE terminal
          /\ UNCHANGED <<worker, ended>>
    /\ toSup' = <<>> /\ toWorker' = <<>>
    /\ UNCHANGED <<seed, late, stage, steps, done, record>>

\* Sealed inputs, disk and output are checked once more for a completed seed.
SettleSeed ==
    /\ sup = "settle"
    /\ sup' = "receipt"
    /\ \/ UNCHANGED <<payload, terminal>>
       \/ /\ payload
          /\ payload' = FALSE
          /\ terminal' \in {"mutation", "breach"}
    /\ UNCHANGED <<seed, late, stage, steps, process, pipe, record>>

\* The telemetry and the one receipt of the seed: success only if the files
\* the worker named are on disk with the bytes it named.
WriteReceipt ==
    /\ sup = "receipt"
    /\ \/ /\ ~payload
          /\ WriteReceiptOf(seed, IF terminal = "none" THEN "crash" ELSE terminal)
       \/ /\ payload
          /\ WriteReceiptOf(seed, "crash")
       \/ /\ payload
          /\ seed \in artifacts
          /\ WriteReceiptOf(seed, "succeeded")
    /\ seed' = seed + 1
    /\ sup' = "checks"
    /\ UNCHANGED <<late, monitor, process, pipe, artifacts, result, index>>

\* Mutant: the status of the last seed stands for the job.
ResultOfLastSeed ==
    /\ sup = "checks" /\ seed = Seeds + 1
    /\ result' = IF receipt[Seeds] = "not_started" THEN "failed" ELSE receipt[Seeds]
    /\ sup' = IF result' = "succeeded" THEN "index" ELSE "returned"
    /\ UNCHANGED <<seed, late, monitor, process, pipe, artifacts, receipt, index>>

\* Mutant: the index is published for any result.
ResultAlwaysIndexed ==
    /\ sup = "checks" /\ seed = Seeds + 1
    /\ \/ result' = IF \A s \in SeedIds : receipt[s] = "succeeded"
                    THEN "succeeded" ELSE receipt[FailedSeed]
       \/ result' = "breach"
    /\ sup' = "index"
    /\ UNCHANGED <<seed, late, monitor, process, pipe, artifacts, receipt, index>>

\* job_result_v1.json: success if every seed succeeded, else the status of the
\* seed that failed; over the output cap it becomes a resource breach.
PublishResult ==
    /\ sup = "checks" /\ seed = Seeds + 1
    /\ \/ result' = IF \A s \in SeedIds : receipt[s] = "succeeded"
                    THEN "succeeded" ELSE receipt[FailedSeed]
       \/ result' = "breach"
    /\ sup' = IF result' = "succeeded" THEN "index" ELSE "returned"
    /\ UNCHANGED <<seed, late, monitor, process, pipe, artifacts, receipt, index>>

\* publish_checkpoint_index re-reads every checkpoint and success receipt.
PublishIndex ==
    /\ sup = "index"
    /\ index' = TRUE
    /\ sup' = "returned"
    /\ UNCHANGED <<seed, late, monitor, process, pipe, artifacts, receipt, result>>

\* KeyboardInterrupt, or an exception nobody catches: the finally clauses clean
\* the worker up or fail to, and the job ends without a result.
Interrupt ==
    /\ sup \notin {"returned", "refused", "raised"}
    /\ sup' = "raised"
    /\ \/ WorkerAlive /\ worker' = "gone" /\ ended' = "killed"
       \/ UNCHANGED <<worker, ended>>
    /\ toSup' = <<>> /\ toWorker' = <<>>
    /\ UNCHANGED <<seed, late, monitor, done, record>>

DeadlinePasses ==
    /\ ~late
    /\ late' = TRUE
    /\ UNCHANGED <<sup, seed, monitor, process, pipe, record>>

-----------------------------------------------------------------------------
(* The worker session                                                      *)

ConnectionOpen == sup \in {"poll", "alive", "cleanup"}

\* A send on a connection the supervisor has closed ends the session.
Send(frames, next) ==
    IF ConnectionOpen
    THEN toSup' = toSup \o frames /\ worker' = next
    ELSE worker' = "closing" /\ UNCHANGED toSup

\* Process group, limits and authorities are checked, then worker_started.
WorkerStarts ==
    /\ worker = "boot"
    /\ Send(<<Frame("worker_started")>>, "await_admit")
    /\ UNCHANGED <<sup, seed, late, monitor, done, ended, toWorker, record>>

WorkerAcknowledges ==
    /\ worker = "await_admit"
    /\ toWorker # <<>> /\ Head(toWorker).type = "admit"
    /\ toWorker' = Tail(toWorker)
    /\ Send(<<Frame("acknowledged")>>, "await_begin")
    /\ UNCHANGED <<sup, seed, late, monitor, done, ended, record>>

\* begin_construction: models and environments are built from here on.
WorkerBegins ==
    /\ worker = "await_begin"
    /\ toWorker # <<>> /\ Head(toWorker).type = "begin"
    /\ toWorker' = Tail(toWorker)
    /\ worker' = "train"
    /\ UNCHANGED <<sup, seed, late, monitor, done, ended, toSup, record>>

\* A progress frame, followed by resource_breach if the RSS limit is exceeded.
WorkerProgresses ==
    /\ worker = "train"
    /\ done < MaxSteps
    /\ done' = done + 1
    /\ LET progress == [type |-> "progress", n |-> done + 1] IN
       \/ Send(<<progress>>, "train")
       \/ Send(<<progress, Frame("resource_breach")>>, "closing")
    /\ UNCHANGED <<sup, seed, late, monitor, ended, toWorker, record>>

\* Training ends: facts, ledger, checkpoint and export are published.
WorkerPublishes ==
    /\ worker = "train"
    /\ worker' = "persist"
    /\ artifacts' = artifacts \union {WorkerSeed}
    /\ UNCHANGED <<sup, seed, late, monitor, done, ended, pipe, receipt, result,
                   index>>

WorkerCompletes ==
    /\ worker = "persist"
    /\ Send(<<Frame("completed")>>, "closing")
    /\ UNCHANGED <<sup, seed, late, monitor, done, ended, toWorker, record>>

\* An error, an admission that does not come within WORKER_ACK_TIMEOUT_SECONDS,
\* or end of file from the supervisor: the session reports it and ends.
WorkerFails ==
    /\ worker \in {"boot", "await_admit", "await_begin", "train", "persist"}
    /\ Send(<<Frame("failed")>>, "closing")
    /\ UNCHANGED <<sup, seed, late, monitor, done, ended, toWorker, record>>

\* connection.close() in the finally clause, then the exit of the process.
WorkerCloses ==
    /\ worker = "closing"
    /\ worker' = "closed"
    /\ UNCHANGED <<sup, seed, late, monitor, done, ended, pipe, record>>

WorkerExits ==
    /\ worker = "closed"
    /\ worker' = "gone" /\ ended' = "exited"
    /\ UNCHANGED <<sup, seed, late, monitor, done, pipe, record>>

\* The process dies, for good or by SIGXCPU at its CPU-time limit; the kernel
\* closes its end of the pipe, perhaps inside a frame.
WorkerDies ==
    /\ WorkerAlive
    /\ worker' = "gone"
    /\ ended' \in {"crashed", "xcpu"}
    /\ \/ UNCHANGED toSup
       \/ /\ worker \in {"boot", "await_admit", "train", "persist"}
          /\ ConnectionOpen
          /\ toSup' = Append(toSup, Frame("torn"))
    /\ UNCHANGED <<sup, seed, late, monitor, done, toWorker, record>>

-----------------------------------------------------------------------------
Supervise == \/ SkipSeed \/ SeedTooLate \/ RefuseSeed \/ SpawnWorker
             \/ HitLimit \/ HitDeadline \/ PollNothing \/ CheckAlive \/ ReceiveEnd
             \/ ReceiveStarted \/ ReceiveAcknowledged \/ ReceiveProgress
             \/ ReceiveCompleted \/ ReceiveFailure
             \/ CleanupWorker \/ SettleSeed \/ WriteReceipt
             \/ PublishResult \/ PublishIndex

Work == \/ WorkerStarts \/ WorkerAcknowledges \/ WorkerBegins \/ WorkerProgresses
        \/ WorkerPublishes \/ WorkerCompletes \/ WorkerFails \/ WorkerCloses
        \/ WorkerExits \/ WorkerDies

Next == Supervise \/ Interrupt \/ Work \/ DeadlinePasses

Spec == Init /\ [][Next]_vars

\* The supervisor runs and time passes; the worker may hang anywhere.
FairSpec == Spec /\ WF_vars(Supervise) /\ WF_vars(DeadlinePasses)

-----------------------------------------------------------------------------
(* Properties                                                              *)

\* Every variable has its type; receipts are written in the order of the
\* seeds, and a seed is monitored only while the job has not failed.
TypeOK ==
    /\ sup \in SupLocations
    /\ seed \in 1 .. Seeds + 1
    /\ late \in BOOLEAN
    /\ stage \in Stages
    /\ steps \in 0 .. MaxSteps
    /\ terminal \in Failures \union {"none"}
    /\ payload \in BOOLEAN
    /\ worker \in WorkerLocations
    /\ done \in 0 .. MaxSteps
    /\ ended \in {"none", "exited", "crashed", "xcpu", "killed"}
    /\ toSup \in Seq(Frames)
    /\ toWorker \in Seq(Frames)
    /\ artifacts \subseteq SeedIds
    /\ receipt \in [SeedIds -> Statuses \union {"none"}]
    /\ result \in Failures \union {"none", "succeeded"}
    /\ index \in BOOLEAN
    /\ \A s \in SeedIds : receipt[s] # "none" <=> s < seed
    /\ sup \in {"poll", "alive", "cleanup", "settle", "receipt"}
         => seed \in SeedIds /\ ~JobFailed

\* No model or environment exists before the supervisor has read the worker's
\* acknowledgement of the execution manifest.
ConstructionAdmitted ==
    worker \in {"train", "persist"} =>
      stage \in {"acknowledged", "training", "completed"}

\* A worker that follows its session is never blamed for its frames: whatever
\* the interleaving, they arrive in the stage and with the count the monitor
\* loop expects.
ConformingWorkerAccepted == terminal \notin {"drift", "precondition"}

\* A success receipt is written only for a worker that completed, is gone and
\* left its artifacts.
SuccessEarned ==
    [][\A s \in SeedIds : receipt[s] = "none" /\ receipt'[s] = "succeeded" =>
         /\ s \in artifacts
         /\ stage = "completed"
         /\ ~WorkerAlive]_vars

\* A published job result accounts for every declared seed: successes, then
\* at most one failure and NOT_STARTED for the rest; it claims success only if
\* all succeeded, and otherwise names the failure or the output cap.
ResultAccounts ==
    result # "none" =>
      /\ \A s \in SeedIds :
           /\ receipt[s] # "none"
           /\ receipt[s] \in Failures =>
                /\ \A t \in SeedIds : t < s => receipt[t] = "succeeded"
                /\ \A t \in SeedIds : t > s => receipt[t] = "not_started"
                /\ result \in {receipt[s], "breach"}
           /\ result = "succeeded" => receipt[s] = "succeeded"

\* The checkpoint index appears only over a published success with all the
\* artifacts of all the seeds.
IndexComplete ==
    index => result = "succeeded" /\ artifacts = SeedIds

\* The job implements its ledger: whatever the processes do, its files change
\* only as JobLedger allows.  No receipt is written twice, out of order or after
\* a failure but for NOT_STARTED; no artifacts appear for a seed that was passed
\* over or has its success; and result and index sum up what is there.
Ledger == INSTANCE JobLedger
          WITH entry <- receipt, stored <- artifacts, verdict <- result, indexed <- index
ImplementsLedger == Ledger!LedgerSpec

\* Every job ends, even with a worker that hangs.
JobEnds == <>(sup \in {"returned", "raised", "refused"})

\* A worker that is ended by its CPU-time limit is a resource breach.
CpuLimitIsBreach == sup = "cleanup" /\ ended = "xcpu" => terminal # "crash"

\* A job that fails with an exception has accounted for every declared seed.
RefusalAccounts == sup = "refused" => \A s \in SeedIds : receipt[s] # "none"
=============================================================================
