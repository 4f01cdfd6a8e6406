--------------------------- MODULE HeavyJobsProofs ---------------------------
(***************************************************************************)
(* Proofs about HeavyJobs, for any number of jobs, seeds and tokens: if no *)
(* reservation is launched twice, a training worker always has its job's   *)
(* token in the slot, and no two workers train at once.                    *)
(*                                                                         *)
(* The argument: a supervisor in its seed loop has pinned the token that   *)
(* is in the slot (LoopHoldsSlot); only its own session may release that   *)
(* token while it or its worker lives, because a token names a reservation *)
(* and a reservation one job (PinnedOwn, DistinctReservations); and the    *)
(* session does not release while a worker it attached is unaccounted for  *)
(* (TrainingIsPending).                                                    *)
(***************************************************************************)
EXTENDS HeavyJobs, TLAPS

\* The assumption the code does not enforce by itself.
DistinctReservations == \A j, k \in Jobs : ResOf[j] = ResOf[k] => j = k

PinnedOwn == \A j \in Jobs : pinned[j] # None => pinned[j].res = ResOf[j]

InLoop(j) == at[j] \in {"output", "seed", "validate", "spawn", "attach",
                        "monitor", "cleanup"}

LoopHoldsSlot ==
    \A j \in Jobs : InLoop(j) => pinned[j] # None /\ held = pinned[j]

\* Before a worker is spawned none is alive and none is pending; while it is
\* monitored it is pending; and it stays so as long as it trains.
TrainingIsPending ==
    \A j \in Jobs :
      /\ at[j] \in {"idle", "admit", "output", "seed", "validate", "spawn"}
           => worker[j] = "none" /\ ~pending[j]
      /\ at[j] = "attach" => worker[j] # "training" /\ ~pending[j]
      /\ at[j] = "monitor" => pending[j]
      /\ worker[j] = "training" => pending[j]

IInv == TypeOK /\ PinnedOwn /\ LoopHoldsSlot /\ TrainingIsPending
               /\ TrainingHoldsSlot

-----------------------------------------------------------------------------
(* Types                                                                   *)

\* Every step keeps every variable in its type.
THEOREM TypeCorrect == Spec => []TypeOK
<1>1. Init => TypeOK
  BY JobConstants
  DEF Init, TypeOK, Slot!SlotInit, Locations, WorkerStates
<1>2. TypeOK /\ [Next]_vars => TypeOK'
  <2> SUFFICES ASSUME TypeOK, [Next]_vars PROVE TypeOK'
    OBVIOUS
  <2> USE JobConstants DEF TypeOK, Locations, WorkerStates, Goto, slotVars, jobVars
  <2>1. CASE OwnerRelease
    BY <2>1 DEF OwnerRelease, Slot!Release
  <2>2. ASSUME NEW r \in Reservations, Reserve(r) \/ Expire(r) PROVE TypeOK'
    BY <2>2 DEF Reserve, Expire, Slot!Publish, Token
  <2>3. ASSUME NEW j \in Jobs, Supervise(j) PROVE TypeOK'
    <3>1. CASE PinToken(j) \/ FreshOutput(j) \/ BeginSeed(j) \/ Validate(j)
      BY <3>1 DEF PinToken, FreshOutput, BeginSeed, Validate, SlotAdmits
    <3>2. CASE Spawn(j) \/ Attach(j) \/ EndMonitor(j) \/ Cleanup(j)
      BY <3>2 DEF Spawn, Attach, EndMonitor, Cleanup
    <3>3. CASE ReleaseSession(j)
      BY <3>3 DEF ReleaseSession, Slot!Release
    <3> QED BY <2>3, <3>1, <3>2, <3>3 DEF Supervise
  <2>4. ASSUME NEW j \in Jobs,
               Launch(j) \/ AdmitWorker(j) \/ Raise(j) \/ KillSupervisor(j)
                         \/ WorkerExits(j)
        PROVE  TypeOK'
    BY <2>4 DEF Launch, AdmitWorker, Raise, KillSupervisor, WorkerExits
  <2>5. CASE UNCHANGED vars
    BY <2>5 DEF vars
  <2> QED BY <2>1, <2>2, <2>3, <2>4, <2>5 DEF Next
<1> QED BY <1>1, <1>2, PTL DEF Spec

-----------------------------------------------------------------------------
(* The worker is accounted for, whoever launches what                      *)

\* Every step keeps the bookkeeping of one job's worker; the slot plays no
\* part in it.
THEOREM WorkerAccounted == Spec => []TrainingIsPending
<1>1. Init => TrainingIsPending
  BY DEF Init, TrainingIsPending
<1>2. TypeOK /\ TrainingIsPending /\ [Next]_vars => TrainingIsPending'
  <2> SUFFICES ASSUME TypeOK, TrainingIsPending, [Next]_vars
               PROVE  TrainingIsPending'
    OBVIOUS
  <2> USE DEF TypeOK, TrainingIsPending, Goto, jobVars
  <2>1. ASSUME NEW j \in Jobs, Supervise(j) PROVE TrainingIsPending'
    <3>1. CASE PinToken(j) \/ FreshOutput(j) \/ BeginSeed(j) \/ Validate(j)
      BY <3>1 DEF PinToken, FreshOutput, BeginSeed, Validate
    <3>2. CASE Spawn(j) \/ Attach(j)
      BY <3>2 DEF Spawn, Attach
    <3>3. CASE EndMonitor(j) \/ Cleanup(j) \/ ReleaseSession(j)
      BY <3>3 DEF EndMonitor, Cleanup, ReleaseSession
    <3> QED BY <2>1, <3>1, <3>2, <3>3 DEF Supervise
  <2>2. ASSUME NEW j \in Jobs,
               Launch(j) \/ AdmitWorker(j) \/ Raise(j) \/ KillSupervisor(j)
                         \/ WorkerExits(j)
        PROVE  TrainingIsPending'
    BY <2>2 DEF Launch, AdmitWorker, Raise, KillSupervisor, WorkerExits,
                SupervisorAlive, Alive
  <2>3. ASSUME UNCHANGED jobVars PROVE TrainingIsPending'
    BY <2>3
  <2> QED BY <2>1, <2>2, <2>3
      DEF Next, OwnerRelease, Reserve, Expire, vars
<1> QED BY <1>1, <1>2, TypeCorrect, PTL DEF Spec

\* The seeds of a job never overlap.
THEOREM SerialSeeds == Spec => []SeedsAreSerial
<1>1. TrainingIsPending => SeedsAreSerial
  BY DEF TrainingIsPending, SeedsAreSerial, Alive
<1> QED BY <1>1, WorkerAccounted, PTL

-----------------------------------------------------------------------------
(* The slot stays with the worker                                          *)

\* Every step keeps the invariant when reservations are launched once.
LEMMA InvStep ==
  ASSUME DistinctReservations, IInv, TypeOK', TrainingIsPending', [Next]_vars
  PROVE  IInv'
<1> SUFFICES PinnedOwn' /\ LoopHoldsSlot' /\ TrainingHoldsSlot'
  BY DEF IInv
<1> USE DEF IInv, TypeOK, PinnedOwn, LoopHoldsSlot, TrainingHoldsSlot, InLoop,
            Goto, slotVars, jobVars
<1>1. CASE OwnerRelease
  BY <1>1 DEF OwnerRelease, SupervisorAlive, Alive
<1>2. ASSUME NEW r \in Reservations, Reserve(r) \/ Expire(r)
      PROVE  PinnedOwn' /\ LoopHoldsSlot' /\ TrainingHoldsSlot'
  BY <1>2 DEF Reserve, Expire, Slot!Publish
<1>3. ASSUME NEW j \in Jobs, ReleaseSession(j)
      PROVE  PinnedOwn' /\ LoopHoldsSlot' /\ TrainingHoldsSlot'
  <2>1. CASE UNCHANGED <<held, pinned>>
    BY <1>3, <2>1 DEF ReleaseSession
  <2>2. CASE ~pending[j] /\ Slot!Release(pinned[j])
                         /\ pinned' = [pinned EXCEPT ![j] = None]
    <3>1. \A k \in Jobs : pinned[k] # None /\ held = pinned[k]
                            => ResOf[k] = ResOf[j]
      BY <2>2 DEF Slot!Release
    <3>2. \A k \in Jobs \ {j} : pinned[k] = None \/ held # pinned[k]
      BY <3>1 DEF DistinctReservations
    <3>3. worker[j] # "training"
      BY <2>2 DEF TrainingIsPending
    <3> QED BY <1>3, <2>2, <3>2, <3>3 DEF ReleaseSession
  <2> QED BY <1>3, <2>1, <2>2 DEF ReleaseSession
<1>4. ASSUME NEW j \in Jobs, PinToken(j)
      PROVE  PinnedOwn' /\ LoopHoldsSlot' /\ TrainingHoldsSlot'
  BY <1>4 DEF PinToken, SlotAdmits, TrainingIsPending
<1>5. ASSUME NEW j \in Jobs, FreshOutput(j) \/ BeginSeed(j) \/ Validate(j)
                               \/ EndMonitor(j) \/ Spawn(j) \/ Attach(j)
                               \/ Cleanup(j)
      PROVE  PinnedOwn' /\ LoopHoldsSlot' /\ TrainingHoldsSlot'
  BY <1>5 DEF FreshOutput, BeginSeed, Validate, EndMonitor, Spawn, Attach, Cleanup
<1>6. ASSUME NEW j \in Jobs, Launch(j) \/ Raise(j) \/ KillSupervisor(j)
                               \/ WorkerExits(j) \/ AdmitWorker(j)
      PROVE  PinnedOwn' /\ LoopHoldsSlot' /\ TrainingHoldsSlot'
  BY <1>6 DEF Launch, Raise, KillSupervisor, WorkerExits, AdmitWorker
<1>7. CASE UNCHANGED vars
  BY <1>7 DEF vars
<1> QED BY <1>1, <1>2, <1>3, <1>4, <1>5, <1>6, <1>7 DEF Next, Supervise

\* The invariant holds in every reachable state.
THEOREM Invariance == ASSUME DistinctReservations PROVE Spec => []IInv
<1>1. Init => IInv
  BY JobConstants
  DEF Init, IInv, TypeOK, Slot!SlotInit, Locations, WorkerStates, PinnedOwn,
      LoopHoldsSlot, TrainingIsPending, TrainingHoldsSlot, InLoop
<1>2. IInv /\ TypeOK' /\ TrainingIsPending' /\ [Next]_vars => IInv'
  BY DistinctReservations, InvStep
<1> QED BY <1>1, <1>2, TypeCorrect, WorkerAccounted, PTL DEF Spec

\* What HeavyJobSlotSession's docstring says of a training worker: the token
\* is retained until its cleanup finishes.
THEOREM SlotHeldThroughTraining ==
  ASSUME DistinctReservations PROVE Spec => []TrainingHoldsSlot
<1>1. IInv => TrainingHoldsSlot
  BY DEF IInv
<1>2. Spec => []IInv
  BY DistinctReservations, Invariance
<1> QED BY <1>1, <1>2, PTL

\* What the slot is for: two workers that train at one time are the same one.
OneTrainingWorker ==
  \A j, k \in Jobs : worker[j] = "training" /\ worker[k] = "training" => j = k

\* At most one job trains at a time.
THEOREM TrainingExclusive ==
  ASSUME DistinctReservations PROVE Spec => []OneTrainingWorker
<1>1. IInv => OneTrainingWorker
  BY DistinctReservations
  DEF IInv, TrainingHoldsSlot, PinnedOwn, DistinctReservations, OneTrainingWorker
<1>2. Spec => []IInv
  BY DistinctReservations, Invariance
<1> QED BY <1>1, <1>2, PTL

-----------------------------------------------------------------------------
(* What can take the token away                                            *)

\* While a token is in the slot and pinned, it leaves only by the session of
\* the job that pinned it, with no cleanup pending, or by its owner once
\* neither supervisor nor worker of that job lives: no other job's release,
\* exception, kill or expiry takes it.
TokenLeaves ==
    [][\A j \in Jobs : pinned[j] # None /\ held = pinned[j] /\ held' # held =>
         \/ at[j] = "unwind" /\ ~pending[j] /\ pinned'[j] = None
         \/ ~SupervisorAlive(j) /\ ~Alive(j)]_vars

\* A pinned token is freed by its own job or its owner.
THEOREM OwnersRelease == ASSUME DistinctReservations PROVE Spec => TokenLeaves
<1> DEFINE Leaves == \A j \in Jobs : pinned[j] # None /\ held = pinned[j] /\ held' # held =>
                       \/ at[j] = "unwind" /\ ~pending[j] /\ pinned'[j] = None
                       \/ ~SupervisorAlive(j) /\ ~Alive(j)
<1>1. ASSUME IInv, [Next]_vars PROVE Leaves
  <2> SUFFICES ASSUME NEW j \in Jobs, pinned[j] # None, held = pinned[j], held' # held
               PROVE  \/ at[j] = "unwind" /\ ~pending[j] /\ pinned'[j] = None
                      \/ ~SupervisorAlive(j) /\ ~Alive(j)
    OBVIOUS
  <2>1. held.res = ResOf[j]
    BY <1>1 DEF IInv, PinnedOwn
  <2>2. CASE OwnerRelease
    BY <2>1, <2>2 DEF OwnerRelease
  <2>3. ASSUME NEW k \in Jobs, ReleaseSession(k)
        PROVE  at[j] = "unwind" /\ ~pending[j] /\ pinned'[j] = None
    <3>1. /\ at[k] = "unwind" /\ ~pending[k] /\ pinned[k] # None /\ held = pinned[k]
          /\ pinned' = [pinned EXCEPT ![k] = None]
      BY <2>3 DEF ReleaseSession, Slot!Release
    <3>2. ResOf[k] = ResOf[j]
      BY <1>1, <2>1, <3>1 DEF IInv, PinnedOwn
    <3>3. k = j
      BY <3>2, DistinctReservations DEF DistinctReservations
    <3> QED BY <1>1, <3>1, <3>3 DEF IInv, TypeOK
  <2>4. ASSUME NEW r \in Reservations, Reserve(r) PROVE FALSE
    BY <1>1, <2>4, JobConstants DEF Reserve, Slot!Publish, IInv, TypeOK
  <2>5. OwnerRelease \/ (\E r \in Reservations : Reserve(r)) \/ \E k \in Jobs : ReleaseSession(k)
    BY <1>1 DEF Next, Supervise, vars, slotVars, Expire, Launch, PinToken, FreshOutput, BeginSeed,
                Validate, Spawn, Attach, EndMonitor, Cleanup, AdmitWorker, Raise, KillSupervisor,
                WorkerExits
  <2> QED BY <2>2, <2>3, <2>4, <2>5
<1> HIDE DEF Leaves
<1>2. IInv /\ [Next]_vars => [Leaves]_vars
  BY <1>1
<1>3. Spec => []IInv
  BY DistinctReservations, Invariance
<1>4. Spec => [][Leaves]_vars
  BY <1>2, <1>3, PTL DEF Spec
<1> QED BY <1>4 DEF TokenLeaves, Leaves

-----------------------------------------------------------------------------
(* The one window                                                          *)

\* A living worker's token is in the slot, but for one case: an exception or an
\* interrupt between the return of _spawn_worker and cleanup_guard.attach let
\* the session release.  The worker of that case was told to build nothing and
\* never will be.
Covered(j) ==
    \/ pinned[j] # None /\ held = pinned[j]
    \/ at[j] = "done" /\ ~pending[j] /\ worker[j] = "waiting" /\ pinned[j] = None

OnlyWindowFrees == \A j \in Jobs : Alive(j) => Covered(j)

\* Every step keeps it.
LEMMA WindowStep ==
  ASSUME DistinctReservations, IInv, IInv', OnlyWindowFrees, [Next]_vars
  PROVE  OnlyWindowFrees'
<1> SUFFICES ASSUME NEW j \in Jobs, Alive(j)'
             PROVE  Covered(j)'
  BY DEF OnlyWindowFrees
<1> USE DEF IInv, TypeOK, Goto, slotVars, jobVars, Alive, Covered
<1>1. CASE OwnerRelease
  BY <1>1 DEF OwnerRelease, OnlyWindowFrees, PinnedOwn
<1>2. ASSUME NEW r \in Reservations, Reserve(r) \/ Expire(r)
      PROVE  Covered(j)'
  BY <1>2 DEF Reserve, Expire, Slot!Publish, OnlyWindowFrees
<1>3. ASSUME NEW k \in Jobs, ReleaseSession(k)
      PROVE  Covered(j)'
  <2>1. UNCHANGED <<worker, pending>>
    BY <1>3 DEF ReleaseSession
  <2>2. CASE k = j
    <3>1. pinned[j] # None /\ held = pinned[j]
      BY <1>3, <2>1, <2>2 DEF ReleaseSession, OnlyWindowFrees
    <3>2. CASE pending[j]
      BY <1>3, <2>1, <2>2, <3>1, <3>2 DEF ReleaseSession
    <3>3. CASE ~pending[j]
      <4>1. at'[j] = "done" /\ pinned'[j] = None
        BY <1>3, <2>2, <3>1, <3>3 DEF ReleaseSession
      <4>2. worker[j] = "waiting"
        BY <2>1, <3>3 DEF TrainingIsPending, WorkerStates
      <4> QED BY <2>1, <3>3, <4>1, <4>2
    <3> QED BY <3>2, <3>3
  <2>3. CASE k # j
    <3>1. at'[j] = at[j] /\ pinned'[j] = pinned[j]
      BY <1>3, <2>3 DEF ReleaseSession
    <3>2. CASE pinned[j] # None /\ held = pinned[j]
      <4>1. pinned[k] = None \/ held # pinned[k]
        BY <2>3, <3>2, DistinctReservations DEF DistinctReservations, PinnedOwn
      <4>2. held' = held
        BY <1>3, <4>1 DEF ReleaseSession, Slot!Release
      <4> QED BY <3>1, <3>2, <4>2
    <3>3. CASE ~(pinned[j] # None /\ held = pinned[j])
      BY <2>1, <3>1, <3>3 DEF OnlyWindowFrees
    <3> QED BY <3>2, <3>3
  <2> QED BY <2>2, <2>3
<1>4. ASSUME NEW k \in Jobs, PinToken(k) \/ FreshOutput(k) \/ BeginSeed(k) \/ Validate(k)
      PROVE  Covered(j)'
  <2>1. UNCHANGED <<held, worker, pending>>
    BY <1>4 DEF PinToken, FreshOutput, BeginSeed, Validate
  <2>2. k # j
    BY <1>4, <2>1 DEF PinToken, FreshOutput, BeginSeed, Validate, TrainingIsPending
  <2>3. at'[j] = at[j] /\ pinned'[j] = pinned[j]
    BY <1>4, <2>2 DEF PinToken, FreshOutput, BeginSeed, Validate
  <2> QED BY <2>1, <2>3 DEF OnlyWindowFrees
<1>5. ASSUME NEW k \in Jobs, Spawn(k) \/ Attach(k) \/ EndMonitor(k) \/ Cleanup(k)
      PROVE  Covered(j)'
  <2>1. UNCHANGED <<held, pinned>> /\ InLoop(k)
    BY <1>5 DEF Spawn, Attach, EndMonitor, Cleanup, InLoop
  <2>2. CASE k = j
    BY <2>1, <2>2 DEF LoopHoldsSlot
  <2>3. CASE k # j
    <3>1. at'[j] = at[j] /\ worker'[j] = worker[j] /\ pending'[j] = pending[j]
      BY <1>5, <2>3 DEF Spawn, Attach, EndMonitor, Cleanup
    <3> QED BY <2>1, <3>1 DEF OnlyWindowFrees
  <2> QED BY <2>2, <2>3
<1>6. ASSUME NEW k \in Jobs, Launch(k) \/ Raise(k) \/ KillSupervisor(k) \/ AdmitWorker(k)
                               \/ WorkerExits(k)
      PROVE  Covered(j)'
  <2>1. UNCHANGED <<held, pinned, pending>>
    BY <1>6 DEF Launch, Raise, KillSupervisor, AdmitWorker, WorkerExits
  <2>2. CASE pinned[j] # None /\ held = pinned[j]
    BY <2>1, <2>2
  <2>3. CASE ~(pinned[j] # None /\ held = pinned[j])
    <3>1. Alive(j)
      BY <1>6 DEF Launch, Raise, KillSupervisor, AdmitWorker, WorkerExits
    <3>2. at[j] = "done" /\ ~pending[j] /\ worker[j] = "waiting" /\ pinned[j] = None
      BY <2>3, <3>1 DEF OnlyWindowFrees
    <3>3. at'[j] = "done" /\ worker'[j] = "waiting"
      BY <1>6, <3>2 DEF Launch, Raise, KillSupervisor, SupervisorAlive, AdmitWorker, WorkerExits
    <3> QED BY <2>1, <3>2, <3>3
  <2> QED BY <2>2, <2>3
<1>7. CASE UNCHANGED vars
  BY <1>7 DEF vars, OnlyWindowFrees
<1> QED BY <1>1, <1>2, <1>3, <1>4, <1>5, <1>6, <1>7 DEF Next, Supervise

\* The interrupt between spawn and attach is the only way a worker outlives its
\* token.
THEOREM WindowIsOnlyHole ==
  ASSUME DistinctReservations PROVE Spec => []OnlyWindowFrees
<1>1. Init => OnlyWindowFrees
  BY DEF Init, OnlyWindowFrees, Alive
<1>2. IInv /\ IInv' /\ OnlyWindowFrees /\ [Next]_vars => OnlyWindowFrees'
  BY DistinctReservations, WindowStep
<1>3. Spec => []IInv
  BY DistinctReservations, Invariance
<1> QED BY <1>1, <1>2, <1>3, PTL DEF Spec
=============================================================================
