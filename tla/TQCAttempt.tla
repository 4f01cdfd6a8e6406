----------------------------- MODULE TQCAttempt -----------------------------
(***************************************************************************)
(* The handshake of one target-speed attempt, as three files of            *)
(* src/oracle_composition/experiments have it: the parent of               *)
(* tqc_development_supervisor_v2.py, the worker of                         *)
(* tqc_development_worker_v2.py and the pipe pair of                       *)
(* tqc_development_channel_v2.py between them, with the preflight contract *)
(* and the execution manifest of tqc_development_manifest_v2.py as what    *)
(* the two sides read.                                                     *)
(*                                                                         *)
(* src/ has no caller of the supervisor; the one modelled is the one the   *)
(* supervisor's tests write: spawn, then receive, publish and admit in a   *)
(* try block, whose finally clause terminates the worker.                  *)
(*                                                                         *)
(* A frame is written and read in one step: a torn frame reads as an end   *)
(* of file or as an expired deadline, which the channel answers alike.     *)
(***************************************************************************)
EXTENDS Naturals, Sequences, SequencesExt

CONSTANT Targets   \* "shipped", "conforming": which worker may be spawned

ASSUME TargetsAssumption == Targets \subseteq {"shipped", "conforming"}

VARIABLES
    target,     \* the worker at hand, see Boundary
    time,       \* 0, then 1, 2, 3: the deadlines passed since the spawn
    overdue,    \* the caller's deadline for the admission has passed
    tree,       \* the project's sources: as the preflight contract binds them
    manifest,   \* the transcript the published manifest binds, or <<>>
    sup,        \* where the parent is
    supOpen,    \* the parent's channel is neither failed nor closed
    supLog,     \* the frames of the parent's transcript
    validated,  \* _group_validated
    worker,     \* where the worker process is
    detached,   \* the worker has taken its pipe ends over
    workerOpen, \* the worker's channel is neither failed nor closed
    workerLog,  \* the frames of the worker's transcript
    signal,     \* the signal on its way to the worker
    toSup, toWorker \* frames in the pipes

clock == <<time, overdue>>
files == <<tree, manifest>>
parent == <<sup, supOpen, supLog, validated>>
process == <<worker, detached, workerOpen, workerLog, signal>>
pipes == <<toSup, toWorker>>
vars == <<target, clock, files, parent, process, pipes>>

Preflight == <<"worker_started", "stage_entered", "preflight_receipts">>
WorkerFrames == Range(Preflight) \cup {"acknowledged", "failure"}
Frames == WorkerFrames \cup {"admit"}

\* Mutant: the preflight has no deadline.
NeverExpired == FALSE

\* WORKER_STARTED_TIMEOUT_SECONDS, PREFLIGHT_TIMEOUT_SECONDS, and the worker's
\* own 300 seconds, which begin later than the parent's.
StartExpired == time >= 1
PreflightExpired == time >= 2
WorkerExpired == time >= 3

Handshake == {"started", "entered", "delivered", "checks", "publish", "admit", "answer"}
Cleanup == {"terminate", "grace", "kill", "wait"}
Returned == {"ended", "survived", "spawn_failed", "dead"}

WorkerSteps == {"boot", "session", "load", "start", "enter", "inspect", "deliver", "await",
                "reverify", "acknowledge", "attempt", "raised", "closing", "closed"}
WorkerAlive == worker \in WorkerSteps

Init == /\ target \in Targets
        /\ time = 0 /\ overdue = FALSE
        /\ tree = "bound" /\ manifest = <<>>
        /\ sup = "spawn" /\ supOpen = FALSE /\ supLog = <<>> /\ validated = FALSE
        /\ worker = "none" /\ detached = FALSE /\ workerOpen = FALSE /\ workerLog = <<>>
        /\ signal = "none"
        /\ toSup = <<>> /\ toWorker = <<>>

-----------------------------------------------------------------------------
(* The channel                                                             *)

\* The worker's write end has no copy left: not its own, and not the one the
\* parent keeps until the worker takes it over.
SupEndOfFile == detached /\ ~workerOpen

\* A channel error fails the channel for good and raises to the try block.
SupFails ==
    /\ supOpen' = FALSE
    /\ sup' = "terminate"
    /\ UNCHANGED <<supLog, validated>>

\* receive, in the parent: a passed deadline counts even when a frame is there.
SupReceive(here, next, expired) ==
    /\ sup = here
    /\ \/ /\ ~expired /\ toSup # <<>>
          /\ supLog' = Append(supLog, Head(toSup))
          /\ toSup' = Tail(toSup)
          /\ sup' = next
          /\ UNCHANGED <<supOpen, validated>>
       \/ /\ expired \/ (toSup = <<>> /\ SupEndOfFile)
          /\ SupFails
          /\ toSup' = toSup
    /\ UNCHANGED <<target, clock, files, process, toWorker>>

\* The worker's exception reaches run_tqc_development_worker_v2.
WorkerRaises == worker' = "raised"

\* send, in the worker: the frame counts once it is written whole.
WorkerSend(here, frame, next, expired) ==
    /\ worker = here
    /\ \/ /\ ~expired /\ supOpen
          /\ toSup' = Append(toSup, frame)
          /\ workerLog' = Append(workerLog, frame)
          /\ worker' = next
          /\ UNCHANGED <<workerOpen, detached, signal>>
       \/ /\ expired \/ ~supOpen
          /\ workerOpen' = FALSE
          /\ WorkerRaises
          /\ UNCHANGED <<workerLog, detached, signal, toSup>>
    /\ UNCHANGED <<target, clock, files, parent, toWorker>>

-----------------------------------------------------------------------------
(* The worker                                                              *)

\* spawn has returned, or has failed after the process was started.
Boot ==
    /\ worker = "boot"
    /\ worker' = "session"
    /\ UNCHANGED <<target, clock, files, parent, detached, workerOpen, workerLog, signal, pipes>>

\* The pipe ends come from a thread of the parent's.
Detach ==
    /\ worker = "session"
    /\ \/ /\ sup # "dead"
          /\ detached' = TRUE /\ workerOpen' = TRUE
          /\ worker' = "load"
       \/ /\ sup = "dead"
          /\ worker' = "closed"
          /\ UNCHANGED <<detached, workerOpen>>
    /\ UNCHANGED <<target, clock, files, parent, workerLog, signal, pipes>>

\* _load_worker_inputs reads the contract and every source it binds.
LoadInputs ==
    /\ worker = "load"
    /\ \/ tree = "bound" /\ worker' = "start"
       \/ WorkerRaises
    /\ UNCHANGED <<target, clock, files, parent, detached, workerOpen, workerLog, signal, pipes>>

SendStarted == WorkerSend("start", "worker_started", "enter", WorkerExpired)
SendEntered == WorkerSend("enter", "stage_entered", "inspect", WorkerExpired)

\* The runtime and the instrumentation are inspected, and four receipts published.
PublishReceipts ==
    /\ worker = "inspect"
    /\ \/ worker' = "deliver"
       \/ WorkerRaises
    /\ UNCHANGED <<target, clock, files, parent, detached, workerOpen, workerLog, signal, pipes>>

SendReceipts == WorkerSend("deliver", "preflight_receipts", "await", WorkerExpired)

\* Mutant: an empty read is retried, whoever closed the pipe.
ReceiveManifestRetried ==
    /\ worker = "await" /\ toWorker # <<>>
    /\ workerLog' = Append(workerLog, Head(toWorker))
    /\ toWorker' = Tail(toWorker)
    /\ worker' = "reverify"
    /\ UNCHANGED <<target, clock, files, parent, detached, workerOpen, signal, toSup>>

ReceiveManifest ==
    /\ worker = "await"
    /\ \/ /\ ~WorkerExpired /\ toWorker # <<>>
          /\ workerLog' = Append(workerLog, Head(toWorker))
          /\ toWorker' = Tail(toWorker)
          /\ worker' = "reverify"
          /\ workerOpen' = workerOpen
       \/ /\ WorkerExpired \/ (toWorker = <<>> /\ ~supOpen)
          /\ workerOpen' = FALSE
          /\ WorkerRaises
          /\ UNCHANGED <<workerLog, toWorker>>
    /\ UNCHANGED <<target, clock, files, parent, detached, signal, toSup>>

\* The transcript the worker hands to the reverification.  The shipped worker
\* takes it after the admission frame, the worker of the tests before it.
Boundary == IF target = "shipped" THEN workerLog ELSE Front(workerLog)

\* What revalidate_tqc_execution_manifest_for_worker_v2 compares.
Reverified == /\ Len(Boundary) = Len(Preflight)
              /\ Boundary = manifest
              /\ tree = "bound"

Reverify ==
    /\ worker = "reverify"
    /\ IF Reverified THEN worker' = "acknowledge" ELSE WorkerRaises
    /\ UNCHANGED <<target, clock, files, parent, detached, workerOpen, workerLog, signal, pipes>>

Acknowledge == WorkerSend("acknowledge", "acknowledged", "attempt", WorkerExpired)

\* _run_acknowledged_attempt_v2: nothing follows the acknowledgement yet.
RunAttempt ==
    /\ worker = "attempt"
    /\ WorkerRaises
    /\ UNCHANGED <<target, clock, files, parent, detached, workerOpen, workerLog, signal, pipes>>

\* _send_failure, which swallows its own errors.
SendFailure ==
    /\ worker = "raised"
    /\ worker' = "closing"
    /\ \/ /\ workerOpen /\ supOpen
          /\ toSup' = Append(toSup, "failure")
          /\ workerLog' = Append(workerLog, "failure")
          /\ workerOpen' = workerOpen
       \/ /\ ~(workerOpen /\ supOpen)
          /\ workerOpen' = FALSE
          /\ UNCHANGED <<toSup, workerLog>>
    /\ UNCHANGED <<target, clock, files, parent, detached, signal, toWorker>>

\* The adapter closes the channel, and the process exits.
CloseWorker ==
    /\ worker = "closing"
    /\ worker' = "closed" /\ workerOpen' = FALSE
    /\ UNCHANGED <<target, clock, files, parent, detached, workerLog, signal, pipes>>

Gone == /\ worker' = "gone" /\ workerOpen' = FALSE
        /\ UNCHANGED <<target, clock, files, parent, detached, workerLog, signal, pipes>>

Exit == worker = "closed" /\ Gone

\* The signal takes effect, or the process is killed from outside.
Signalled == WorkerAlive /\ signal # "none" /\ Gone
Killed == WorkerAlive /\ Gone

WorkerNext ==
    \/ Boot \/ Detach \/ LoadInputs \/ SendStarted \/ SendEntered \/ PublishReceipts
    \/ SendReceipts \/ ReceiveManifest \/ Reverify \/ Acknowledge \/ RunAttempt
    \/ SendFailure \/ CloseWorker \/ Exit

-----------------------------------------------------------------------------
(* The parent                                                              *)

\* A failed spawn closes the channel and terminates the child, never kills it.
Spawn ==
    /\ sup = "spawn"
    /\ worker' = "boot"
    /\ \/ sup' = "started" /\ supOpen' = TRUE /\ signal' = signal
       \/ sup' = "spawn_failed" /\ supOpen' = FALSE /\ signal' = "term"
    /\ UNCHANGED <<target, clock, files, supLog, validated, detached, workerOpen, workerLog, pipes>>

ReceiveStarted == SupReceive("started", "entered", StartExpired)
ReceiveEntered == SupReceive("entered", "delivered", StartExpired)
ReceiveReceipts == SupReceive("delivered", "checks", PreflightExpired)

Raise == /\ sup' = "terminate"
         /\ UNCHANGED <<target, clock, files, supOpen, supLog, process, pipes>>

\* Mutant: the third frame is taken for the receipts.
DeliveredSomething == SubSeq(supLog, 1, 2) = SubSeq(Preflight, 1, 2)

Delivered == supLog = Preflight

\* Three frames are in: now their order and content are looked at, the process
\* group is observed, and the receipts are read back.  A worker that is gone
\* may or may not be found.
CheckPreflight ==
    /\ sup = "checks"
    /\ \/ /\ SubSeq(supLog, 1, 2) # SubSeq(Preflight, 1, 2) \/ ~WorkerAlive
          /\ validated' = FALSE
          /\ Raise
       \/ /\ SubSeq(supLog, 1, 2) = SubSeq(Preflight, 1, 2)
          /\ validated' = TRUE
          /\ IF Delivered
             THEN /\ sup' = "publish"
                  /\ UNCHANGED <<target, clock, files, supOpen, supLog, process, pipes>>
             ELSE Raise

\* publish_tqc_execution_manifest_v2 binds the delivery's transcript.
PublishManifest ==
    /\ sup = "publish"
    /\ IF tree = "bound"
       THEN manifest' = supLog /\ sup' = "admit"
       ELSE manifest' = manifest /\ sup' = "terminate"
    /\ UNCHANGED <<target, clock, tree, supOpen, supLog, validated, process, pipes>>

\* The first half of admit_tqc_execution_manifest_v2.
SendAdmission ==
    /\ sup = "admit"
    /\ \/ /\ ~overdue /\ workerOpen
          /\ toWorker' = Append(toWorker, "admit")
          /\ supLog' = Append(supLog, "admit")
          /\ sup' = "answer"
          /\ UNCHANGED <<supOpen, validated>>
       \/ /\ overdue \/ ~workerOpen
          /\ SupFails
          /\ toWorker' = toWorker
    /\ UNCHANGED <<target, clock, files, process, toSup>>

\* Mutant: whatever the worker sends next is taken for the acknowledgement.
IsAnyFrame(frame) == frame \in WorkerFrames

\* The second half: the fourth frame must be the acknowledgement.
IsAcknowledgement(frame) == frame = "acknowledged"

ReceiveAnswer ==
    /\ sup = "answer"
    /\ \/ /\ ~overdue /\ toSup # <<>>
          /\ supLog' = Append(supLog, Head(toSup))
          /\ toSup' = Tail(toSup)
          /\ sup' = IF IsAcknowledgement(Head(toSup)) THEN "authorized" ELSE "terminate"
          /\ UNCHANGED <<supOpen, validated>>
       \/ /\ overdue \/ (toSup = <<>> /\ SupEndOfFile)
          /\ SupFails
          /\ toSup' = toSup
    /\ UNCHANGED <<target, clock, files, process, toWorker>>

\* The caller is done with the authority, and its finally clause runs.
Finish ==
    /\ sup = "authorized"
    /\ validated' = validated
    /\ Raise

\* terminate_tqc_worker_v2 is over: the channel is closed, the handle spent.
Leave(result) == sup' = result /\ supOpen' = FALSE

\* SIGTERM, to the group when it is validated and to the child before.
Terminate ==
    /\ sup = "terminate"
    /\ IF WorkerAlive
       THEN sup' = "grace" /\ signal' = "term" /\ supOpen' = supOpen
       ELSE Leave("ended") /\ signal' = signal
    /\ UNCHANGED <<target, clock, files, supLog, validated, worker, detached, workerOpen,
                   workerLog, pipes>>

\* TERMINATION_GRACE_SECONDS pass, or the worker is absent before.
GraceEnds ==
    /\ sup = "grace"
    /\ sup' = "kill"
    /\ UNCHANGED <<target, clock, files, supOpen, supLog, validated, process, pipes>>

Kill ==
    /\ sup = "kill"
    /\ IF WorkerAlive
       THEN sup' = "wait" /\ signal' = "kill" /\ supOpen' = supOpen
       ELSE Leave("ended") /\ signal' = signal
    /\ UNCHANGED <<target, clock, files, supLog, validated, worker, detached, workerOpen,
                   workerLog, pipes>>

\* JOIN_TIMEOUT_SECONDS pass, or the worker is absent before; then the last look.
Survivor == IF WorkerAlive THEN "survived" ELSE "ended"

WaitEnds ==
    /\ sup = "wait"
    /\ Leave(Survivor)
    /\ UNCHANGED <<target, clock, files, supLog, validated, process, pipes>>

ParentNext ==
    \/ Spawn \/ ReceiveStarted \/ ReceiveEntered \/ ReceiveReceipts \/ CheckPreflight
    \/ PublishManifest \/ SendAdmission \/ ReceiveAnswer \/ Finish
    \/ Terminate \/ GraceEnds \/ Kill \/ WaitEnds

\* The parent process is killed.
ParentDies ==
    /\ sup \notin Returned \cup {"spawn"}
    /\ sup' = "dead" /\ supOpen' = FALSE
    /\ UNCHANGED <<target, clock, files, supLog, validated, process, pipes>>

-----------------------------------------------------------------------------
(* Time and the operator's hands                                           *)

\* The worker's 300 seconds begin when its inputs are loaded.
Tick ==
    /\ sup # "spawn"
    /\ time < IF worker \in {"boot", "session", "load"} THEN 2 ELSE 3
    /\ time' = time + 1
    /\ UNCHANGED <<target, overdue, files, parent, process, pipes>>

Overdue ==
    /\ sup \in {"admit", "answer"} /\ ~overdue
    /\ overdue' = TRUE
    /\ UNCHANGED <<target, time, files, parent, process, pipes>>

\* A source file is edited while the attempt runs.
EditSources ==
    /\ tree = "bound" /\ sup # "spawn"
    /\ tree' = "edited"
    /\ UNCHANGED <<target, clock, manifest, parent, process, pipes>>

Environment == Signalled \/ Killed \/ ParentDies \/ Tick \/ Overdue \/ EditSources

Next == ParentNext \/ WorkerNext \/ Environment

\* Both processes are scheduled and time passes; signals may stay pending, and
\* nothing bounds how long the worker loads and inspects.
Prompt == \/ Boot \/ Detach \/ SendStarted \/ SendEntered \/ SendReceipts \/ ReceiveManifest
          \/ Reverify \/ Acknowledge \/ RunAttempt \/ SendFailure \/ CloseWorker \/ Exit

Spec == Init /\ [][Next]_vars
        /\ WF_vars(ParentNext) /\ WF_vars(Prompt) /\ WF_vars(Tick) /\ WF_vars(Overdue)

-----------------------------------------------------------------------------
(* Properties                                                              *)

TypeOK ==
    /\ target \in Targets
    /\ time \in 0 .. 3 /\ overdue \in BOOLEAN
    /\ tree \in {"bound", "edited"} /\ manifest \in {<<>>, Preflight}
    /\ sup \in {"spawn", "authorized"} \cup Handshake \cup Cleanup \cup Returned
    /\ supOpen \in BOOLEAN /\ validated \in BOOLEAN
    /\ supLog \in Seq(Frames) /\ workerLog \in Seq(Frames)
    /\ worker \in WorkerSteps \cup {"none", "gone"}
    /\ detached \in BOOLEAN /\ workerOpen \in BOOLEAN
    /\ signal \in {"none", "term", "kill"}
    /\ toSup \in Seq(WorkerFrames) /\ toWorker \in Seq({"admit"})

\* Construction is authorised on both sides or it is on neither: the parent
\* holds the authority only when the worker has reverified the manifest and
\* both have the same transcript, and the worker only for the manifest that
\* this parent published and admitted over this channel.
AuthorityIsMutual ==
    /\ sup = "authorized" =>
         /\ validated /\ "acknowledged" \in Range(workerLog)
         /\ IsPrefix(supLog, workerLog)
    /\ worker = "attempt" =>
         /\ manifest = SubSeq(workerLog, 1, Len(Preflight))
         /\ IsPrefix(SubSeq(workerLog, 1, Len(Preflight) + 1), supLog)

\* The parent always comes to an end, with a worker that hangs in its
\* inspection, that dies before it takes its pipe ends over (no end of file
\* then), or that no signal reaches.
AttemptReturns == <>(sup \in Returned)

\* A worker that the parent's death orphans does not wait for a manifest
\* forever: once it has inspected, it comes to its end by itself.
OrphanStops ==
    (sup = "dead" /\ worker \notin {"none", "boot", "session", "load", "start", "enter", "inspect"})
        ~> worker = "gone"

\* DEV_1M_BASE_CONTROLLER_V2.md: the worker receives the manifest, re-verifies
\* it, and acknowledges the same bytes.  A manifest that binds the transcript
\* both sides have, over unedited sources, is not refused.
FaithfulManifestAcknowledged ==
    [][worker = "reverify" /\ tree = "bound" /\ manifest = SubSeq(workerLog, 1, Len(Preflight))
         => worker' # "raised"]_vars
=============================================================================
