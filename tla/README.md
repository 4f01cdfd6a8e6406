# humanoid-harness in TLA+

This directory holds TLA+ models of the parts of humanoid-harness whose
correctness depends on order, failure and repetition: the slot that admits one
heavy job at a time, the supervisor that trains under it, the two interpreters
that switch references while a robot runs, the library that gives result files
their names and the protocols that rest on it, and the handshake that must come
before a target-speed attempt constructs anything. TLC checks the models
on small instances; TLAPS proves the main results for every value of the
constants. Paths below are relative to the repository's root; `OC` stands for
`src/oracle_composition`.

    tlc -workers 2 -config MCResourceSlot.cfg MCResourceSlot    # one run
    tlapm ResourceSlotProofs.tla                                # one proof module

## 1. Inventory

| component | state it keeps | operations | who it talks to | hard behaviour |
|---|---|---|---|---|
| **heavy-job slot**, `OC/harness/resource_slot.py` | `heavy-job.lock` (one token, one inode), `heavy-job.guard` (flock), temporary files | `reserve_slot`, `release_slot`, `read_slot`, `slot_status`, `validate_slot_for_reservation` | the mailbox script, the training supervisor | processes interleave between file operations; crash between any two; expiry while waiting; a stale release |
| **training supervision**, `OC/phase_b/supervision.py` | the session's pinned token and pending flag; per seed the stage, last progress and status; receipts, job result, checkpoint index | `supervise_training_job` with its seed loop, monitor loop and cleanup; the worker session | the slot; one worker process per seed over a pipe | limits against late frames, death against poll and `is_alive`, interrupts, unverified cleanup, kill of the supervisor, relaunch |
| **reference orchestration**, `OC/contracts/program.py`, `OC/runtime/oracle.py` | mode, dwell, offset, query count, latched guards | `validate_program`, `reset`, `query` | a tracker, one call per control step | hysteresis across visits, dwell limits, rounding of a carried phase, retries after a failed query |
| **composition oracle program**, `OC/harness/contract.py`, `OC/phase_b/reference_runtime.py` | state, behavior, dwell, recovery counters; phase and task step | `decide`, `advance`; `frame`, `advance` of the driver | the fine-tuning environment and the GMT adapter | relative counters over long runs of calls: recovery, rejoin, reentry |
| **policy evaluation supervision**, `OC/phase_b/evaluation_supervision.py` | one worker, its receipts | `supervise_policy_evaluation` | one worker over a pipe | as training supervision, without seeds |
| **artifact publication**, `OC/experiments/artifact_io.py`, `OC/phase_b/persistence.py` | a folder's entries as seen and as synced, pending files, JSON reservations | `publish_bytes_without_overwrite`, streaming and JSON reservations, `finalize` | every writer of results | two writers of a name; a kill or a stop of the machine between create, rename, exchange and fsync; an exchange that cannot be undone |
| **mailbox and orchestration scripts**, `scripts/` | message, acknowledgement and lease files | send, ack, reserve, release; acquire, renew, take over | orchestrators, the slot | `mkdir` and `link` as the only atomic steps, stale leases |
| **cycle command line**, `OC/harness/cycle_cli.py` | write-once records | prepare, train, evaluate | the supervisors | partial writes |
| **target-speed development channel**, `OC/experiments/tqc_development_*_v2.py` | two transcripts, a published manifest, a persisted bundle | preflight, admission, acknowledgement, termination; persist a completion | one worker over a pipe pair; artifact publication | deadlines against late frames, pipe ends handed over late, orphans, the transcript boundary |
| **reward search**, `OC/reward_search/` | identity, intent, claim, receipts of one model call | dispatch, ingest | a language model's operator; artifact publication | retries and races of calls that may be made once; crashes between their files |
| **reward programs and sandbox**, **reward study** | a sandbox worker; manifests | evaluate, publish | the sandbox | a worker's limits |
| evaluation and evidence, fine-tuning numerics, contracts and reports, experiment runners, adapters, feedback, traces, status and UI | files, arrays | pure checks, numerics, reports | each other through files | little: single-shot and deterministic |

`PROJECT.json` lists every component with what is modelled of it, and every
hazard at its line.

What makes the components correct:

* *Slot.* Two callers never both hold a returned, unreleased token; a token
  leaves the slot only by the release that names it; a reader never sees a
  half-written or an outdated token; the guard comes back.
* *Training supervision.* A worker trains only under its job's token, one
  worker at a time; construction waits for the acknowledgement; success needs a
  completed worker that is gone and left its files; every declared seed is
  accounted for; the job ends.
* *Reference orchestration.* Guards start afresh at each visit; a mode cannot
  overstay; the frames emitted follow the mode's span and enter it at the
  nearest frame; a recovery leads back to a task.
* *Artifact publication.* A published name shows nothing or complete bytes, is
  never replaced, and survives every crash once its call has returned.
* *Reward search.* The external model is started once, one of its answers is
  accepted, and what an accepted receipt names is permanent.
* *Target-speed channel.* Both sides authorise construction or neither does; a
  faithful manifest is acknowledged; the parent returns and no orphan waits.
* *Composition oracle.* The acting controller is the one the state or the
  recovery asks for; recoveries are bounded and spaced; transitions are earned
  by dwell; the reference is rematched only at switches and never runs ahead.

## 2. Modules

| module | stands for | form |
|---|---|---|
| `HeavySlot` | what the slot promises: a token is published into an empty slot and released by name | abstract specification |
| `ResourceSlot` | the slot's files, one action per file operation | refines `HeavySlot` |
| `HeavyJobs` | several jobs that share the slot: session, cleanup guard, owner, expiry | uses `HeavySlot` as its slot |
| `JobLedger` | what a training job promises the readers of its output directory | abstract specification |
| `TrainingJob` | one job from inside: seed loop, monitor loop, worker, pipe, files | refines `JobLedger` |
| `OracleRuntime` | `validate_program` and `OracleRuntime` together | |
| `OracleMachine` | the composition oracle under its fine-tuning driver | |
| `WriteOnce` | what the artifact library promises of a published name | abstract specification |
| `ArtifactFiles` | `artifact_io.py`, one action per system call, with failures, kills and stops of the machine | refines `WriteOnce` |
| `ArtifactCallers` | what scripts over the library have in common | extends `ArtifactFiles` |
| `ModelCall` | dispatch and ingestion of the one model call | extends `ArtifactCallers` |
| `ResultBundle` | the persisted completion of an attempt, and the resource probe | extends `ArtifactCallers` |
| `ArtifactUse` | the processes that use the library at the same time | composes `ModelCall` and `ResultBundle` |
| `TQCAttempt` | parent, worker and channel of one target-speed attempt | |
| `ResourceSlotProofs`, `HeavyJobsProofs`, `TrainingJobProofs`, `ArtifactFilesProofs`, `ArtifactUseProofs`, `TQCAttemptProofs`, `OracleRuntimeProofs`, `OracleMachineProofs` | the theorems about these | |
| `MC...` | instances for TLC | |

`HeavySlot` is the joint: `ResourceSlot` is shown to implement it (checked as
`ImplementsSlot`, proved as `Refinement`), and `HeavyJobs` is built on it, so a
reservation and a release are one step each there. `WriteOnce` plays the same
part for result files, `JobLedger` for the receipts, result and index of a job
(`ImplementsLedger`, `LedgerKept`), and `ArtifactUse` runs the library's callers over the
detailed model, so that a crash may fall between any two system calls of theirs.

### How state and actions correspond

**ResourceSlot.** `slot` is what the name `heavy-job.lock` leads to, `temps` the
temporary files, `written` the tokens whose bytes are complete and synced,
`ctime` the inode's change time that the readers compare, `guard` the flock's
holder, `fd` the token a call has open; `call` and `pc` are the operation in
progress. `returned` and `released` are history. `BeginReserve`, `BeginRelease`
and `BeginRead` start a call; `AcquireGuard` to `UnlinkSlot` are its system
calls; `Crash` kills the process wherever it is. Names, permissions, hard-link
counts and JSON shape are abstracted to "the read fails closed". Kernel
timestamps are coarse, so a `ctime` may or may not move (`TouchInode`).

**HeavyJobs.** `at` is the line a supervisor has reached, `pinned` and `pending`
are `HeavyJobSlotSession`'s two fields, `worker` the process of the current seed
(alive before or after `begin_construction`). `Raise` is any exception outside
the cleanup guard's scope; `KillSupervisor` is SIGKILL; `Spawn` has the three
outcomes of `_spawn_worker`. An owner releases only a token whose jobs he knows
to have ended; the script itself does not check this.

**TrainingJob.** `sup` is the supervisor's place in `_supervise_seed` and
`_supervise_training_job`, `worker` the worker's place in
`_worker_session_entry`; `toSup` and `toWorker` are the two directions of the
pipe. `PollNothing` and `CheckAlive` are two steps because the code makes two
calls; the worker may move between them. A closed end reads as end of file after
the frames before it. Limits of time, memory and disk are choices
(`HitLimit`), except the job's wall limit, which is a clock (`late`) that also
decides between seeds. Cleanup succeeds or raises.

**OracleRuntime.** `Init` takes any program of `Programs` that `Valid` accepts,
so that the validator is a part of what is checked. A guard is its operator,
threshold and hysteresis over integer readings; a reading that is missing or not
finite is `Invalid`. `Stall`, `RefuseSignals` and `OverBudget` raise without a
change of state; the caller may query again. `seen` and `frames` are history.

**OracleMachine.** One `Frame` action per way `decide` returns or raises, then
`Advance`. Guards are the environment's choice; the text of guard expressions is
not modelled. `SelectPhase` raises past the end of the reference, or for tracking
errors that are not finite, when the machine has decided already; this ends the
episode, as the fine-tuning environment does. `arrived`, `entered` and `exited`
are history. The GMT adapter's deferral of ordinary transitions
(`allow_transitions`) is included as `Hold`; its own phase handling is not.

**ArtifactFiles.** `dir` is what the processes see of a folder, `disk` what its
last fsync made permanent, `call` the library call each process is in and the
system call that comes next, `reported` the names whose publication returned. An
entry carries the process that wrote it, its record, whether it is whole and
whether its bytes are flushed. `MachineStops` lets every name come back as seen or
as synced. `FailPublish`, `FailReserve` and `FailFinalize` are an `OSError` at any
system call with the code's own clean-up, `Abandon` a kill. Taken for granted:
fsync of a folder makes all of its entries permanent; the entries of the folders
themselves are permanent (the library creates missing ancestors without syncing
their parents); nobody edits the files by hand; a name is used by one kind of
operation (`Reserved`).

**ModelCall, ResultBundle, ArtifactUse.** `at` is the line a script has reached,
`know` what an ingestion has read. A retry is another actor with the same record
and run. The several retained files of a run are one, and a run is good, invalid
or unreadable. `SaveScript` is the order of the saver's calls; an exception
between them leaves the files as a kill does. `ArtifactUse` adds `Kill`,
`PowerLoss` and a budget of faults.

**TQCAttempt.** `sup` and `worker` are the lines the two processes have reached,
`supLog` and `workerLog` their channel transcripts, `toSup` and `toWorker` the
pipes. `detached` says that the worker has taken over its pipe ends; before, its
death gives no end of file. `time` counts the deadlines that have passed since the
spawn. A frame is read and written in one step. `target` picks the worker: the
shipped one, or a *conforming* one that takes its transcript boundary before the
admission frame, as the reverification's own tests hand it over. The repository
has no caller of the supervisor yet; the one modelled is the `try`/`finally` of
its tests.

## 3. Runs

| run | instance | result |
|---|---|---|
| `slot` | two processes, two reservations of one owner (one may expire), a mistaken owner, two tokens | all properties hold, 913,297 states |
| `heavy_jobs` | two jobs with a reservation each, two seeds, three tokens | all hold, 66,228 states |
| `heavy_jobs_relaunch` | two launches of one reservation | `TrainingHoldsSlot` is violated |
| `heavy_jobs_window` | as `heavy_jobs` with one token | `WorkerHoldsSlot` is violated |
| `training_job` | three seeds, two progress frames | all hold, 27,626 states |
| `training_job_cpu` | one seed | `CpuLimitIsBreach` is violated |
| `training_job_refusal` | two seeds | `RefusalAccounts` is violated |
| `artifacts` | up to three processes in eight casts (two dispatches, retried and racing ingestions, a bundle, two probes), two records, two runs, two faults | all hold, 825,355 states |
| `tqc_attempt` | one attempt of the shipped and one of a conforming worker, three deadlines | all hold, 14,036 states |
| `tqc_handshake` | the shipped worker | `FaithfulManifestAcknowledged` is violated |
| `oracle_runtime` | four modes, every accepted subset of nine rules, two signals of three values, six queries, one reset | all hold, 94,200 states |
| `oracle_machine` | three states over two behaviors, a recovery, a reference of nine rows, eleven steps | all hold, 31,554 states |

What the passing runs show:

* `slot`: `ReservationSurvives`, `ReadTokensHeld`, `PublishedComplete`,
  `ExactRelease`, `GuardedReadsStable`, the refinement `ImplementsSlot`, and
  `GuardComesBack`, for every interleaving of file operations and crashes.
* `heavy_jobs`: `TrainingHoldsSlot` over every exit, exception, kill and expiry;
  `SeedsAreSerial`; `TokenComesBack`.
* `training_job`: `ConstructionAdmitted` and `ConformingWorkerAccepted` for the
  handshake; `SuccessEarned`, `ResultAccounts` and the refinement
  `ImplementsLedger` for the files (receipts in order and for good, no seed after a
  failed one, an index under a successful result only); `JobEnds`.
* `artifacts`: the refinement `ImplementsWriteOnce`; `OneDispatch` and
  `OneAcceptance` over retries, races and restarts; `EvidenceIsDurable` for what an
  accepted receipt names; `ManifestComesLast` for the bundle; `OneProbe`.
* `tqc_attempt`: `AuthorityIsMutual`, `AttemptReturns`, `OrphanStops`.
* `oracle_runtime`: `LatchesAreFresh`, `VisitBounded` (dwell limits and the frames
  of a visit), `EntryIsNearest`, `RecoveryRejoins`.
* `oracle_machine`: `RecoveryBounded`, `RecoverySpaced`, `TransitionsEarned`,
  `PhaseBehindTask`. That the acting behavior agrees with the state and that the
  phase is continuous is proved and needs no run.

### Bounds

* `MaxTokens`, `MaxClock` (slot): two tokens are the least for a stale release
  against a new token of the same owner; one tick lets one reservation expire at
  any moment and leaves the other current. A third process adds no kind of
  interference: the guard serializes writers, and a reader meets one change at a
  time.
* `MaxTokens` (jobs): three tokens let each job run and the slot be reserved once
  more. Two seeds give a first, a next and a last one.
* `Seeds`, `MaxSteps` (training job): with three seeds a success, a failure and a
  seed not started meet in one job; two frames make the counter count.
* `MaxFaults` (artifacts): two faults are a failure and a second one in its
  clean-up or its retry. Three processes give a dispatcher, an ingester and its
  retry or rival; two records and two runs tell "the same" from "another".
* `time` in 0..3 (TQC): one tick for each deadline that the code tells apart (the
  first two frames, the receipts, the worker's own).
* `maxQueries` of the programs, `MaxEpisodes` (runtime): six queries reach every
  dwell limit (at most three) and come back to a mode; one reset starts afresh.
* `Horizon`, `Length` (machine): eleven steps hold two recoveries with a
  transition in between, and outlast a reference of nine rows.

### Fairness

* `slot`: a running process takes the steps of its call (`WF` of `Step(p)`).
  Nobody is obliged to begin a call, and the flock may go to any waiter. Each
  step is one system call on a local file. A failing one (`OSError`), which ends
  the call with `SlotMalformedError`, is not modelled; a kill at the same place is.
* `heavy_jobs`: a live supervisor goes on (`WF` of `Supervise(j)`): its monitor
  loop is bounded by wall-time limits and its cleanup by two grace periods.
  Nothing obliges an owner to release, a worker to end or anybody to launch. An
  interrupt inside the final release of the slot is not modelled: `TokenComesBack`
  says nothing of a job that is interrupted there.
* `training_job`: the supervisor goes on and the job's deadline passes. The
  worker has no fairness: it may hang in any state. A frame arrives as a whole:
  a worker that hangs in the middle of writing one, so that `poll` returns and
  `recv_bytes` waits for the rest, is not modelled, and `JobEnds` does not cover it.
* `tqc_attempt`: the parent goes on, its waits end (`WF` of `ParentNext`, `Tick`,
  `Overdue`), and a worker takes the steps that are bounded (`Prompt`). Loading,
  inspecting and the effect of a signal get no fairness: the worker may hang there.
* `artifacts` has no liveness property: a killed script need not be started again.
* the oracle modules have no liveness property: they move when called.

Deadlock checking is off where the system may stop: all jobs done, the job
ended, the episode at its end.

### Disagreements between code and documents

Each is a run that TLC ends with a violation; `PROJECT.json` quotes the line.

* `heavy_jobs_relaunch`: launching a running reservation a second time pins the
  running job's token, fails at the output directory, and releases the token
  under the first job's worker.
* `heavy_jobs_window`: an interrupt between the return of `_spawn_worker` and
  `cleanup_guard.attach` frees the slot with a live worker, which has not been
  told to construct anything and ends by itself.
* `training_job_cpu`: a worker ended by its CPU-time limit is recorded as a
  crash, since its closed pipe is read before `is_alive` is asked.
* `training_job_refusal`: a check that raises before a spawn leaves the seeds
  that remain without a receipt and the job without a result.
* `tqc_handshake`: the shipped worker counts the admission frame into the
  transcript it compares with the manifest's, so it refuses every manifest and no
  attempt reaches construction. `AuthorityIsMutual` and the liveness properties
  are therefore checked for a conforming worker as well, or they would hold only
  because nothing is ever acknowledged.

## 4. Proofs

tlapm checks every step; nothing is assumed but the named assumptions on
constants, which TLC evaluates in the runs.

**ResourceSlotProofs** (any number of processes, owners, reservations, tokens).
The invariant is `IInv`: `TypeOK`; `GuardRegion` (a process between lock and
unlock is the guard's holder); `FreshReads` (what a guarded call has open is
what the slot names); `SafeToPublish` (a call that found the slot missing finds
it missing still when it links); `FreshTokens` (a token under way is not yet
returned or released); `PublishedComplete`; `ReservationSurvives`. The last one
is not inductive by itself: that a release unlinks the token it compared needs
`FreshReads`, and that needs the guard. From it follow `TypeCorrect`,
`ReservationsSurvive`, `PublishedTokensComplete`, `ReleasesExact`,
`GuardedReadsAreStable` and `Refinement` (initial states map to initial states,
`LinkToken` to `Publish`, `UnlinkSlot` to `Release`, all else to a stutter).
`ReadTokensStay` is about the callers without the guard: the token they have read
can leave the slot before they answer, but only by its own release. The step of
`IInv` is one lemma per conjunct (`RegionKept`, `ReadsKept`, `PublishingKept`,
`TokensKept`, `CompleteKept`, `SurvivalKept`, `IdleKept`), each over the actions that
can disturb it; a process moves alone (`OneMoves`). Three consequences are stated of
the slot as a lock: `ReservationsExclusive` (one unreleased token at a time),
`SpentIdsOut` (no released id names the slot again, so a stale release can hit
nothing), and `CallsBounded` (a call has no loop and the guard's holder is in a call;
this is what `GuardComesBack` needs besides fairness, for any number of processes).

**HeavyJobsProofs** (any number of jobs, seeds, tokens). `TypeCorrect`,
`WorkerAccounted` and `SerialSeeds` hold for any assignment of reservations to
jobs. `SlotHeldThroughTraining` and `TrainingExclusive` assume
`DistinctReservations`, that no reservation is launched twice; the run
`heavy_jobs_relaunch` shows that they need it. The invariant says that a
supervisor in its seed loop has its pinned token in the slot (`LoopHoldsSlot`),
that the token names its own reservation (`PinnedOwn`), and that a training
worker is pending (`TrainingIsPending`), so that its session does not release.
The proof also rests on two things the model takes for granted: token ids are
never reused (`uuid4`), and an owner releases by hand only after his jobs ended.
Under the same assumption `OwnersRelease` says who can take a pinned token out of the
slot: its job's own session with no cleanup pending, or its owner once the job is
gone. `WindowIsOnlyHole` is the other side of the violation `heavy_jobs_window`: a
living worker without its token in the slot was never attached, and it was told to
build nothing.

**TrainingJobProofs** (any number of seeds and progress frames). `IInv` has two
halves. The files: `ReceiptsOrdered` (at most one seed failed by itself, those
before it succeeded, those after it were not started), `JobRecord` (the result
comes after the last receipt, the index after a successful result) and
`CompletionEarned` (a completion is kept only for a worker that is gone; a worker
outlives its seed only if that seed failed). They give `ResultsAccount`,
`IndexesComplete` and `SuccessesEarned`. The session: `SessionInStep` says where the
worker can be at each stage of the supervisor and what each frame in the pipe tells
of both ends (`FrameInStep`), the last frame included, which may be read when the
worker is long gone. `ConformingAccepted` needs all of it: a frame is accepted
because of where its sender was when it was written. `ConstructionWaits` needs only
`Begun`. On the same invariant stands the refinement `LedgerKept`: a receipt maps to
`Succeed`, `Fail` or `Skip` (`ReceiptEntered`), a worker's publication to `Store` even
if it comes from the survivor of a failed seed (`ArtifactsStored`), the result to
`Conclude`, which needs that the first failed seed is the only one
(`ResultConcludes`), the index to `Index`, and all else to a stutter. From it follows
`SuccessFinal`: no survivor touches a successful job's files. `NoSeedTwice` says that
the supervisor never goes back, and `RefusalRecord` is the other side of the violation
`training_job_refusal`: what such a job leaves is a success for every seed before the
refused one and nothing else. `IInv` was checked by TLC on the instance of `training_job` first.

**TQCAttemptProofs** (shipped and conforming worker; every deadline, death and edit).
`Script` is the five frames of a handshake that succeeds. `IInv` says how far along
it either transcript is at each place of the code (`WorkerLogInStep`,
`ParentLogInStep`) and what a frame in a pipe implies (`PipesInStep`): an admission
that the manifest is out and bound to the preflight, an acknowledgement that the
worker's transcript is complete. `AuthorityMutual` follows because two transcripts
that follow the script as far agree as far (`SamePart`). `ShippedUnauthorized` and
`ConformingReverifies` are the two halves of what `tqc_handshake` shows on one trace:
the shipped worker is never authorised, whatever the timing, and a worker that differs
from it in the transcript boundary only refuses nothing it should accept, so the
boundary is the whole defect. `TerminationTells` is about the parent's report of the
end of its worker. The instances differ only in
`Targets`, so what the proof adds to the run is the argument. `IInv` was checked by
TLC on the instance of `tqc_attempt` first.

**OracleRuntimeProofs** (any candidate programs, signals and readings, any run of
queries). `ValidLimits` is what the runtime needs from the validator: spans that are
not empty, a limit for every mode that is not terminal, rejoins that lead to tasks.
`IInv` ties the code's variables to the visit they came from: `dwell` is the number
of frames emitted; `FramesFollow` says that the offset is the one after the last
frame, or of the last frame held, without which `VisitBounded` is not inductive; and
`LatchesAreFresh`, whose step is `ArmedStep`: one more reading is evaluated with the
slack exactly if the guard was armed, because a guard that holds afresh holds with
slack (`SlackIsWider`). `ChosenMatches` needs that the natural numbers are well
founded, so it holds for a program with infinitely many rules as well.
`EntriesNearest` is arithmetic on the bounds of the quotient (`Nearest`): with last
frame `L`, scale `S` and phase `p` the rounded `q` satisfies
`2Sq <= 2pL + S < 2Sq + 2S`, which puts it in the span and nearest, later on a tie.
The code computes the product and the sum in binary floating point; the model and
the theorem are about their exact values, so within a rounding error of a tie the
code may pick the other of two frames that are as good as equally near.

**OracleMachineProofs** (any program with a recovery, any reference, any run of
guard values). The code's counters are relative; the properties speak of control
steps. `IInv` ties them: during a recovery `step = entered + elapsed` and there
is a step left before `max_duration` (`RecoveryCounted`); outside,
`step + blocked >= exited + reentry_dwell + 1` (`ReentryCounted`, where the
`+ 1` of the code's exit branch is used); `dwell` reaches back neither past the
last arrival nor past the last exit (`DwellCounted`). From it follow
`RecoveriesEnd`, `RecoveriesSpaced`, `TransitionsAreEarned`,
`BehaviorAlwaysAgrees` and `PhaseNeverAhead`; `PhaseIsContinuous` needs no
invariant. `FirstIsLeast` proves that the priorities single out one transition.

**ArtifactFilesProofs** (any processes, names, folders, values; callers that use
the library in any order). `FInv` says that a published name leads to nothing or
to a whole, flushed file, and that the last fsync of its folder knows this file or
none (`SealedFiles`); that a reported name is permanent (`ReportedFiles`); and that
a call works on a name of its own kind (`CallsInPlace`). Then a rename is the
register's `Publish`, a commit its `Promise`, a stop of the machine its `Lose`, and
every other step a stutter: `FilesRefine`. The reservations, which the register says
nothing of, need a second invariant, `RInv`: a process inside a reservation or its
finalization owns the file the name leads to, which holds no final record before the
exchange and the one of the call after it (`HeldFiles`), so no two ever work on one
name (`HeldAlone`), and a finished one is whole and permanent (`FinishedFiles`).
`ReportedFinal` puts both together: whatever the library ever reported, a publication
or a finalized reservation, no failed call, kill or stop takes away, replaces or loses.

**ArtifactUseProofs** (any cast, any number of faults). The scripts only take steps
of the library, so `ScriptsImplementWriteOnce` follows from the module before. The
invariant `IInv` rests on three facts. While no machine stops, a published name
that shows something goes on showing it and what is permanent stays so (`Calm`),
so that what a script has read remains true (`KnowledgeInv`) although others run
between its reads and its writes. What was reported outlives a stop, and no script
in the middle of its work does, so only reported facts have to survive one. And a
process whose claim has been committed knows more than its claim: the fsync of the
claim's folder has made the identity and the intent permanent as well, whoever
wrote them (`Evidence`), as the fsync for the acceptance does for the run, the
proposal and the recipe (`ReceiptInv`). From it follow `DispatchedOnce` and
`AcceptedOnce` (the intent and the claim are the files of one process),
`EvidenceDurable`, `ManifestLast` and `ProbedOnce`. The folders matter: the proof
uses that identity, intent and claim share one folder, and that run, proposal,
recipe and receipt share another (`FolderUsed`). `IInv` was checked by TLC on the
instance of `artifacts` before it was proved, and so was what `AnswersOnRecord` rests
on (`RInv` and `Told`): as long as a process stands at its answer, what the answer
says is permanent: identity and intent of a dispatched call, the claim too of an
accepted one, the four files of a saved bundle, the receipt of a reported probe.

The receipt of an accepted call is not in that list, because it need not be
permanent. If the fsync of the folder after the rename fails,
`publish_bytes_without_overwrite` raises and keeps the file ("retain, but never
endorse, failed attempts", `OC/experiments/artifact_io.py:1132`), but
`_publish_or_reuse_exact` (`OC/reward_search/t2_model_protocol.py:697`) takes any file
of the right bytes for its publication, and the ingestion answers "accepted". TLC
finds such an answer over a receipt that is not permanent on the instance of
`artifacts`. If the machine stops now, the receipt may be gone while the claim is
permanent, and a new ingestion of the run is a replay. The claim and what it binds
are safe all the same (`AnswersOnRecord`), and so is what any receipt that can still
be seen rests on (`EvidenceDurable`).

Only model-checked: liveness (`GuardComesBack`, `TokenComesBack`, `JobEnds`,
`AttemptReturns`, `OrphanStops`), which is out of this prover's reach.
Every other property of the passing runs is a theorem.

## 5. Not modelled

* Policy evaluation supervision: the pattern of `TrainingJob` with one worker.
* Artifact publication: the checkpoint writer of `OC/phase_b/persistence.py`, which
  `TrainingJob` takes as one step, and the readers' digest checks.
* Mailbox and orchestration scripts, beyond the owner of `HeavyJobs`.
* Target-speed channel: what comes after the acknowledgement (nothing calls it
  yet), the resource monitor, the children of the runtime inspection. Reward
  search: the older loops. The sandbox: a protocol of its own.
* Numerics, schema checks, digests, reports, adapters and the UI: pure or
  single-shot; where a model needs their outcome it is a choice.

## 6. Plan

In order of what a fault would cost:

1. slot and jobs (`HeavySlot`, `ResourceSlot`, `HeavyJobs`) -- done, proved;
2. the job from inside (`TrainingJob`) -- done, proved;
3. the interpreters (`OracleRuntime`, `OracleMachine`) -- done, proved;
4. artifact publication (`WriteOnce`, `ArtifactFiles`) and its users
   (`ModelCall`, `ResultBundle`, `ArtifactUse`) -- done, proved;
5. the target-speed handshake (`TQCAttempt`) -- done, proved;
6. mailbox and orchestration lease: acknowledgement written once, one holder of
   a lease at a time, takeover of a stale one;
7. policy evaluation supervision as a variant of `TrainingJob`.
