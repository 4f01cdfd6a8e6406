------------------------------ MODULE HeavyJobs ------------------------------
(***************************************************************************)
(* Production training jobs that share the heavy-job slot:                 *)
(* supervise_training_job, HeavyJobSlotSession and _WorkerCleanupGuard of  *)
(* src/oracle_composition/phase_b/supervision.py.                          *)
(*                                                                         *)
(* A job is one invocation of supervise_training_job.  It pins the token   *)
(* of its reservation, makes its output directory, spawns one worker per   *)
(* seed, each only after the slot was validated again, and releases the    *)
(* pinned token on every way out unless the cleanup of a worker is         *)
(* unverified.  An exception or a KeyboardInterrupt may end the work of    *)
(* the supervisor between any two steps, and the process may be killed.    *)
(*                                                                         *)
(* What happens between a supervisor and its worker while a seed runs is   *)
(* TrainingJob's subject; the slot's own files are ResourceSlot's.         *)
(* Here the slot is the abstract one that ResourceSlot implements.         *)
(***************************************************************************)
EXTENDS Naturals

CONSTANTS Jobs,          \* invocations of supervise_training_job
          Reservations,  \* accepted reservations; each names its own output
          ResOf,         \* the reservation a job is started with
          Seeds,         \* how many seeds a job trains, one after the other
          MaxTokens,     \* bound: tokens reserved in a run
          None           \* no token

Token == [id : 1 .. MaxTokens, res : Reservations]

ASSUME JobConstants ==
    /\ ResOf \in [Jobs -> Reservations]
    /\ Seeds \in Nat \ {0}
    /\ MaxTokens \in Nat
    /\ None \notin Token

VARIABLES
    held,     \* the token in the slot, or None
    spent,    \* released tokens
    minted,   \* token ids generated so far
    expired,  \* reservations whose accepted_until_utc has passed
    outputs,  \* reservations whose output directory exists
    at,       \* job -> where its supervisor is
    left,     \* job -> seeds not yet begun
    pinned,   \* job -> the token its HeavyJobSlotSession captured, or None
    pending,  \* job -> _worker_cleanup_pending
    worker    \* job -> its current worker process

vars == <<held, spent, minted, expired, outputs, at, left, pinned, pending, worker>>

Slot == INSTANCE HeavySlot

slotVars == <<held, spent, minted>>
jobVars == <<at, left, pinned, pending, worker>>

Locations == {"idle", "admit", "output", "seed", "validate", "spawn", "attach",
              "monitor", "cleanup", "unwind", "done", "killed"}

\* "waiting": alive and not yet told to build a model or an environment.
\* "training": alive after begin_construction.
WorkerStates == {"none", "waiting", "training"}

Init == /\ Slot!SlotInit
        /\ minted = 0
        /\ expired = {}
        /\ outputs = {}
        /\ at = [j \in Jobs |-> "idle"]
        /\ left = [j \in Jobs |-> Seeds]
        /\ pinned = [j \in Jobs |-> None]
        /\ pending = [j \in Jobs |-> FALSE]
        /\ worker = [j \in Jobs |-> "none"]

-----------------------------------------------------------------------------
(* Helpers                                                                 *)

Goto(j, where) == at' = [at EXCEPT ![j] = where]

SupervisorAlive(j) == at[j] \notin {"idle", "done", "killed"}
Alive(j) == worker[j] # "none"

\* validate_slot_for_reservation: the slot holds an unexpired token of the
\* reservation.
SlotAdmits(j) == /\ held # None
                 /\ held.res = ResOf[j]
                 /\ ResOf[j] \notin expired

-----------------------------------------------------------------------------
(* The slot's owners                                                       *)

\* research-mailbox reserve, with a reservation that is still accepted.
Reserve(r) ==
    /\ minted < MaxTokens
    /\ r \notin expired
    /\ Slot!Publish([id |-> minted + 1, res |-> r])
    /\ minted' = minted + 1
    /\ UNCHANGED <<expired, outputs, jobVars>>

\* research-mailbox release by the owner, who makes sure first that nothing
\* of the reservation runs any more.
OwnerRelease ==
    /\ held # None
    /\ \A j \in Jobs : ResOf[j] = held.res => ~SupervisorAlive(j) /\ ~Alive(j)
    /\ Slot!Release(held)
    /\ UNCHANGED <<minted, expired, outputs, jobVars>>

Expire(r) ==
    /\ r \notin expired
    /\ expired' = expired \union {r}
    /\ UNCHANGED <<slotVars, outputs, jobVars>>

-----------------------------------------------------------------------------
(* The supervisor                                                          *)

\* supervise_training_job is called; validate_reservation refuses a stale
\* reservation before anything is pinned.
Launch(j) ==
    /\ at[j] = "idle"
    /\ Goto(j, IF ResOf[j] \in expired THEN "unwind" ELSE "admit")
    /\ UNCHANGED <<slotVars, expired, outputs, left, pinned, pending, worker>>

\* configure and the first validate_before_spawn capture the token identity.
PinToken(j) ==
    /\ at[j] = "admit"
    /\ \/ /\ SlotAdmits(j)
          /\ pinned' = [pinned EXCEPT ![j] = held]
          /\ Goto(j, "output")
       \/ /\ ~SlotAdmits(j)
          /\ Goto(j, "unwind")
          /\ UNCHANGED pinned
    /\ UNCHANGED <<slotVars, expired, outputs, left, pending, worker>>

\* _fresh_output: the directory the reservation names must not exist.
FreshOutput(j) ==
    /\ at[j] = "output"
    /\ Goto(j, IF ResOf[j] \in outputs THEN "unwind" ELSE "seed")
    /\ outputs' = outputs \union {ResOf[j]}
    /\ UNCHANGED <<slotVars, expired, left, pinned, pending, worker>>

\* The checks of the seed loop: the reservation once more and the ps listing,
\* which knows supervisors by their command line and no worker.
BeginSeed(j) ==
    /\ at[j] = "seed"
    /\ left' = [left EXCEPT ![j] = @ - 1]
    /\ Goto(j, IF ResOf[j] \in expired \/ \E k \in Jobs \ {j} : SupervisorAlive(k)
               THEN "unwind" ELSE "validate")
    /\ UNCHANGED <<slotVars, expired, outputs, pinned, pending, worker>>

\* validate_before_spawn: the slot admits the job, with the pinned identity.
Validate(j) ==
    /\ at[j] = "validate"
    /\ Goto(j, IF SlotAdmits(j) /\ held = pinned[j] THEN "spawn" ELSE "unwind")
    /\ UNCHANGED <<slotVars, expired, outputs, left, pinned, pending, worker>>

\* _spawn_worker returns a process; it raises and has cleaned up; or it raises
\* _SpawnCleanupUnverified, and retain_for_unverified_spawn keeps the slot.
Spawn(j) ==
    /\ at[j] = "spawn"
    /\ \/ /\ worker' = [worker EXCEPT ![j] = "waiting"]
          /\ Goto(j, "attach")
          /\ UNCHANGED pending
       \/ /\ Goto(j, "unwind")
          /\ UNCHANGED <<pending, worker>>
       \/ /\ worker' = [worker EXCEPT ![j] = "waiting"]
          /\ pending' = [pending EXCEPT ![j] = TRUE]
          /\ Goto(j, "unwind")
    /\ UNCHANGED <<slotVars, expired, outputs, left, pinned>>

\* cleanup_guard.attach: from here the worker is cleaned up on every way out.
\* worker_spawned raises if an earlier cleanup is still pending.
Attach(j) ==
    /\ at[j] = "attach"
    /\ pending' = [pending EXCEPT ![j] = TRUE]
    /\ Goto(j, IF pending[j] THEN "cleanup" ELSE "monitor")
    /\ UNCHANGED <<slotVars, expired, outputs, left, pinned, worker>>

\* The handshake reaches begin_construction.
AdmitWorker(j) ==
    /\ at[j] = "monitor"
    /\ worker[j] = "waiting"
    /\ worker' = [worker EXCEPT ![j] = "training"]
    /\ UNCHANGED <<slotVars, expired, outputs, at, left, pinned, pending>>

\* The seed ends: a terminal frame, a limit, an exit or an exception.
EndMonitor(j) ==
    /\ at[j] = "monitor"
    /\ Goto(j, "cleanup")
    /\ UNCHANGED <<slotVars, expired, outputs, left, pinned, pending, worker>>

\* Mutant: the seed loop goes on after a cleanup that was not verified.
CleanupContinues(j) ==
    /\ at[j] = "cleanup"
    /\ \/ /\ worker' = [worker EXCEPT ![j] = "none"]
          /\ pending' = [pending EXCEPT ![j] = FALSE]
       \/ UNCHANGED <<pending, worker>>
    /\ \/ left[j] > 0 /\ Goto(j, "seed")
       \/ Goto(j, "unwind")
    /\ UNCHANGED <<slotVars, expired, outputs, left, pinned>>

\* Mutant: the loop looks for a next seed after the last one.
CleanupOffByOne(j) ==
    /\ at[j] = "cleanup"
    /\ \/ /\ worker' = [worker EXCEPT ![j] = "none"]
          /\ pending' = [pending EXCEPT ![j] = FALSE]
          /\ \/ left[j] >= 0 /\ Goto(j, "seed")
             \/ Goto(j, "unwind")
       \/ /\ Goto(j, "unwind")
          /\ UNCHANGED <<pending, worker>>
    /\ UNCHANGED <<slotVars, expired, outputs, left, pinned>>

\* _WorkerCleanupGuard.cleanup.  Verified, the worker is gone and the job may
\* go on to the next seed if this one succeeded; unverified, the seed failed
\* and the job ends with the cleanup still pending.
Cleanup(j) ==
    /\ at[j] = "cleanup"
    /\ \/ /\ worker' = [worker EXCEPT ![j] = "none"]
          /\ pending' = [pending EXCEPT ![j] = FALSE]
          /\ \/ left[j] > 0 /\ Goto(j, "seed")
             \/ Goto(j, "unwind")
       \/ /\ Goto(j, "unwind")
          /\ UNCHANGED <<pending, worker>>
    /\ UNCHANGED <<slotVars, expired, outputs, left, pinned>>

\* Mutant: the token is released whether or not the cleanup was verified, as
\* before the repair of T2C2-A01.
ReleasePending(j) ==
    /\ at[j] = "unwind"
    /\ Goto(j, "done")
    /\ \/ /\ pinned[j] # None
          /\ Slot!Release(pinned[j])
          /\ pinned' = [pinned EXCEPT ![j] = None]
       \/ /\ pinned[j] = None \/ held # pinned[j]
          /\ UNCHANGED <<held, spent, pinned>>
    /\ UNCHANGED <<minted, expired, outputs, left, pending, worker>>

\* Mutant: an expired token is left to the owner.
ReleaseUnexpired(j) ==
    /\ at[j] = "unwind"
    /\ Goto(j, "done")
    /\ \/ /\ pinned[j] # None
          /\ ~pending[j]
          /\ ResOf[j] \notin expired
          /\ Slot!Release(pinned[j])
          /\ pinned' = [pinned EXCEPT ![j] = None]
       \/ /\ pinned[j] = None \/ pending[j] \/ ResOf[j] \in expired
          /\ UNCHANGED <<held, spent, pinned>>
    /\ UNCHANGED <<minted, expired, outputs, left, pending, worker>>

\* slot_session.release() in the finally clause of supervise_training_job: a
\* no-op without a pinned token or with a cleanup pending, an error if the
\* slot holds something else.
ReleaseSession(j) ==
    /\ at[j] = "unwind"
    /\ Goto(j, "done")
    /\ \/ /\ pinned[j] # None
          /\ ~pending[j]
          /\ Slot!Release(pinned[j])
          /\ pinned' = [pinned EXCEPT ![j] = None]
       \/ /\ pinned[j] = None \/ pending[j] \/ held # pinned[j]
          /\ UNCHANGED <<held, spent, pinned>>
    /\ UNCHANGED <<minted, expired, outputs, left, pending, worker>>

\* An exception nobody catches, or an interrupt, outside the guard's scope.
Raise(j) ==
    /\ at[j] \in {"admit", "output", "seed", "validate", "spawn", "attach"}
    /\ Goto(j, "unwind")
    /\ UNCHANGED <<slotVars, expired, outputs, left, pinned, pending, worker>>

\* SIGKILL: no finally clause runs; `pinned` is history from here.
KillSupervisor(j) ==
    /\ SupervisorAlive(j)
    /\ Goto(j, "killed")
    /\ UNCHANGED <<slotVars, expired, outputs, left, pinned, pending, worker>>

-----------------------------------------------------------------------------
(* The worker                                                              *)

\* A worker ends: it completes, fails, times out on an admission that never
\* comes, or finds its pipe broken.
WorkerExits(j) ==
    /\ Alive(j)
    /\ worker' = [worker EXCEPT ![j] = "none"]
    /\ UNCHANGED <<slotVars, expired, outputs, at, left, pinned, pending>>

-----------------------------------------------------------------------------
Supervise(j) == \/ PinToken(j) \/ FreshOutput(j) \/ BeginSeed(j) \/ Validate(j)
                \/ Spawn(j) \/ Attach(j) \/ EndMonitor(j) \/ Cleanup(j)
                \/ ReleaseSession(j)

Next == \/ OwnerRelease
        \/ \E r \in Reservations : Reserve(r) \/ Expire(r)
        \/ \E j \in Jobs : \/ Launch(j) \/ Supervise(j) \/ AdmitWorker(j)
                           \/ Raise(j) \/ KillSupervisor(j) \/ WorkerExits(j)

Spec == Init /\ [][Next]_vars

\* A supervisor runs on: its monitor loop is bounded by wall-time limits and
\* its cleanup by the two grace periods.  Nothing obliges anybody to launch a
\* job, an owner to release, or a worker to end.
FairSpec == Spec /\ \A j \in Jobs : WF_vars(Supervise(j))

-----------------------------------------------------------------------------
(* Properties                                                              *)

\* Every variable has its type, and the seed loop runs only with seeds left.
TypeOK ==
    /\ held \in Token \union {None}
    /\ spent \subseteq Token
    /\ minted \in 0 .. MaxTokens
    /\ expired \subseteq Reservations
    /\ outputs \subseteq Reservations
    /\ at \in [Jobs -> Locations]
    /\ left \in [Jobs -> 0 .. Seeds]
    /\ pinned \in [Jobs -> Token \union {None}]
    /\ pending \in [Jobs -> BOOLEAN]
    /\ worker \in [Jobs -> WorkerStates]
    /\ \A j \in Jobs :
         at[j] \in {"idle", "admit", "output", "seed"} => left[j] > 0

\* A worker that builds models and environments runs under the token its job
\* pinned, and that token is in the slot: no exit of the supervisor, no
\* unverified cleanup, no kill and no expiry frees the slot under it.  Two
\* jobs therefore never train at once.  It needs every reservation to be
\* started once (DistinctReservations in HeavyJobsProofs): a second launch of a
\* running one fails at its output directory and releases the token it pinned.
TrainingHoldsSlot ==
    \A j \in Jobs : worker[j] = "training" => /\ pinned[j] # None
                                             /\ held = pinned[j]

\* The same for every worker process from its spawn on.
WorkerHoldsSlot ==
    \A j \in Jobs : Alive(j) => pinned[j] # None /\ held = pinned[j]

\* A job comes to its next seed only when the worker of the last one is gone
\* and its cleanup is accounted for.
SeedsAreSerial ==
    \A j \in Jobs : at[j] \in {"seed", "validate", "spawn"} =>
                      ~Alive(j) /\ ~pending[j]

\* A pinned token is given back, expired or not, unless the supervisor is
\* killed or ends with a worker whose cleanup is unverified.
TokenComesBack ==
    \A j \in Jobs : pinned[j] # None ~> \/ pinned[j] = None
                                        \/ at[j] = "killed"
                                        \/ at[j] = "done" /\ pending[j]
=============================================================================
