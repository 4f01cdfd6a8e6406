------------------------ MODULE OracleMachineProofs ------------------------
(***************************************************************************)
(* Proofs about OracleMachine, for any program with a recovery, any        *)
(* reference and any sequence of guard values.                             *)
(*                                                                         *)
(* The counters of the code are relative (elapsed, blocked, dwell); the    *)
(* properties speak of control steps.  The invariant IInv ties each counter *)
(* to the step it stands for: elapsed to the entry of the recovery, blocked *)
(* to its exit, and dwell to the last arrival and to the last exit.        *)
(***************************************************************************)
EXTENDS OracleMachine, TLAPS, WellFoundedInduction

USE DEF Admitted

\* Before the step of a frame is taken, a recovery has a step left.
RecoveryCounted ==
    recovering => /\ entered # Never
                  /\ step = entered + elapsed
                  /\ elapsed <= RecMax
                  /\ awaiting => elapsed < RecMax

ReentryCounted ==
    ~recovering /\ exited # Never => step + blocked >= exited + RecReentry + 1

DwellCounted == /\ arrived + dwell <= step
                /\ exited # Never => exited + dwell <= step

IInv == /\ TypeOK
        /\ BehaviorAgrees
        /\ PhaseBehindTask
        /\ RecoveryCounted
        /\ ReentryCounted
        /\ DwellCounted

-----------------------------------------------------------------------------
(* The order of transitions                                                *)

\* Among transitions of one state whose guards are true, the machine's order
\* by priority finds one, and it comes strictly before all the others: the
\* choice does not depend on the order in which the program lists them.
LEMMA FirstIsLeast ==
    ASSUME NEW true \in SUBSET Outgoing, true # {}
    PROVE  /\ FirstOf(true) \in true
           /\ \A u \in true : u # FirstOf(true)
                                => FirstOf(true).priority < u.priority
<1> DEFINE P == {t.priority : t \in true}
<1>1. \A t \in true : t \in Transitions /\ t.priority \in Nat /\ t.from = state
  BY ProgramAdmitted DEF Outgoing
<1>2. \E n \in P : \A m \in P : ~(<<m, n>> \in OpToRel(<, Nat))
  <2>1. P \subseteq Nat /\ P # {}
    BY <1>1
  <2> HIDE DEF P
  <2> QED BY <2>1, NatLessThanWellFounded, WFMin
<1>3. \E t \in true : \A u \in true : t.priority <= u.priority
  <2>1. PICK t \in true :
          \A u \in true : ~(<<u.priority, t.priority>> \in OpToRel(<, Nat))
    BY <1>2
  <2>2. \A u \in true : ~(u.priority < t.priority)
    BY <2>1, <1>1 DEF OpToRel
  <2> QED BY <2>2, <1>1
<1>4. /\ FirstOf(true) \in true
      /\ \A u \in true : FirstOf(true).priority <= u.priority
  BY <1>3 DEF FirstOf
<1> QED BY <1>1, <1>4, ProgramAdmitted

\* What a transition leads to.
LEMMA TransitTarget ==
    ASSUME NEW true \in SUBSET Outgoing, true # {}
    PROVE  FirstOf(true).to \in States
BY FirstIsLeast, ProgramAdmitted DEF Outgoing

-----------------------------------------------------------------------------
(* Types                                                                   *)

\* The phase of a frame is a row of the reference, if the last one was.
LEMMA PhaseStep ==
    ASSUME TypeOK, PhaseBehindTask, KeepPhase \/ SelectPhase
    PROVE  /\ phase' \in 0 .. Length - 1
           /\ awaiting' \in BOOLEAN
           /\ raised' \in BOOLEAN
           /\ step' = step
           /\ phase' <= step
<1>1. CASE KeepPhase
  BY <1>1 DEF TypeOK, PhaseBehindTask, KeepPhase
<1>2. CASE SelectPhase
  <2>1. awaiting' \in BOOLEAN /\ raised' \in BOOLEAN /\ step' = step
    BY <1>2, Zenon DEF TypeOK, SelectPhase
  <2>2. phase' \in 0 .. Length - 1 /\ phase' <= step
    <3>1. phase' = phase \/ (step < Length /\ phase' \in 0 .. step)
      BY <1>2, Zenon DEF SelectPhase
    <3> QED BY <3>1, ProgramAdmitted DEF TypeOK, PhaseBehindTask
  <2> QED BY <2>1, <2>2
<1> QED BY <1>1, <1>2

\* Every variable keeps its type and the phase stays on the reference and
\* behind the task.
LEMMA TypeStep ==
    ASSUME TypeOK, PhaseBehindTask, [Next]_vars
    PROVE  TypeOK' /\ PhaseBehindTask'
<1> USE ProgramAdmitted DEF TypeOK, PhaseBehindTask, machine, history
<1>1. CASE RecoveryOverdue
  BY <1>1 DEF RecoveryOverdue, FrameReady
<1>2. ASSUME NEW guard \in BOOLEAN, RecoveryHold(guard)
      PROVE  TypeOK' /\ PhaseBehindTask'
  BY <1>2, PhaseStep DEF RecoveryHold
<1>3. CASE RecoveryRejoin
  <2>1. KeepPhase \/ SelectPhase
    BY <1>3 DEF RecoveryRejoin
  <2>2. behavior' \in Behaviors /\ blocked' \in Nat /\ exited' \in Nat
    BY <1>3 DEF RecoveryRejoin
  <2> QED BY <1>3, <2>1, <2>2, PhaseStep DEF RecoveryRejoin
<1>4. CASE ReentryBlocked \/ Hold
  BY <1>4, PhaseStep DEF ReentryBlocked, Hold
<1>5. CASE RecoveryEnter
  BY <1>5, PhaseStep DEF RecoveryEnter
<1>6. ASSUME NEW true \in SUBSET Outgoing, Transit(true)
      PROVE  TypeOK' /\ PhaseBehindTask'
  <2>1. KeepPhase \/ SelectPhase
    BY <1>6 DEF Transit
  <2>2. state' \in States /\ behavior' \in Behaviors
    BY <1>6, TransitTarget DEF Transit
  <2> QED BY <1>6, <2>1, <2>2, PhaseStep DEF Transit
<1>7. CASE Advance
  <2>1. /\ phase' \in 0 .. Length - 1 /\ phase' <= step'
        /\ dwell' \in Nat /\ elapsed' \in Nat /\ blocked' \in Nat
        /\ step' \in Nat
    BY <1>7 DEF Advance
  <2> QED BY <1>7, <2>1 DEF Advance
<1>8. CASE UNCHANGED vars
  BY <1>8 DEF vars
<1> QED BY <1>1, <1>2, <1>3, <1>4, <1>5, <1>6, <1>7, <1>8 DEF Next, Frame

-----------------------------------------------------------------------------
(* The inductive invariant                                                 *)

\* Every step keeps the counters tied to the steps they stand for, and the
\* acting behavior to the state or the recovery.
LEMMA CounterStep ==
    ASSUME IInv, [Next]_vars
    PROVE  BehaviorAgrees' /\ RecoveryCounted' /\ ReentryCounted' /\ DwellCounted'
<1> DEFINE Goal == /\ BehaviorAgrees' /\ RecoveryCounted'
                   /\ ReentryCounted' /\ DwellCounted'
<1> USE ProgramAdmitted
    DEF IInv, TypeOK, BehaviorAgrees, RecoveryCounted, ReentryCounted,
        DwellCounted, machine, history, FrameReady
<1>1. CASE RecoveryOverdue
  BY <1>1 DEF RecoveryOverdue
<1>2. ASSUME NEW guard \in BOOLEAN, RecoveryHold(guard) PROVE Goal
  BY <1>2 DEF RecoveryHold, KeepPhase
<1>3. CASE RecoveryRejoin
  BY <1>3 DEF RecoveryRejoin, SelectPhase
<1>4. CASE ReentryBlocked \/ Hold
  BY <1>4 DEF ReentryBlocked, Hold, KeepPhase
<1>5. CASE RecoveryEnter
  BY <1>5 DEF RecoveryEnter, SelectPhase
<1>6. ASSUME NEW true \in SUBSET Outgoing, Transit(true) PROVE Goal
  <2>1. step' = step
    BY <1>6 DEF Transit, KeepPhase, SelectPhase
  <2> QED BY <1>6, <2>1 DEF Transit
<1>7. CASE Advance
  BY <1>7 DEF Advance
<1>8. CASE UNCHANGED vars
  BY <1>8 DEF vars
<1> QED BY <1>1, <1>2, <1>3, <1>4, <1>5, <1>6, <1>7, <1>8 DEF Next, Frame

\* The inductive invariant holds in every reachable state.
THEOREM Invariance == Spec => []IInv
<1>1. Init => IInv
  <2> SUFFICES ASSUME Init PROVE IInv
    OBVIOUS
  <2>1. TypeOK /\ BehaviorAgrees
    <3>1. state \in States /\ behavior \in Behaviors /\ BehaviorAgrees
      BY ProgramAdmitted DEF Init, BehaviorAgrees
    <3>2. recovering \in BOOLEAN /\ awaiting \in BOOLEAN /\ raised \in BOOLEAN
      BY DEF Init
    <3>3. phase \in 0 .. Length - 1
      BY ProgramAdmitted DEF Init
    <3> QED BY <3>1, <3>2, <3>3 DEF Init, TypeOK
  <2>2. PhaseBehindTask /\ RecoveryCounted /\ ReentryCounted /\ DwellCounted
    BY ProgramAdmitted
    DEF Init, PhaseBehindTask, RecoveryCounted, ReentryCounted, DwellCounted
  <2> QED BY <2>1, <2>2 DEF IInv
<1>2. IInv /\ [Next]_vars => IInv'
  BY TypeStep, CounterStep DEF IInv
<1> QED BY <1>1, <1>2, PTL DEF Spec

-----------------------------------------------------------------------------
(* The properties                                                          *)

\* Every reachable state is well typed; the phase is a row of the reference.
THEOREM TypeCorrect == Spec => []TypeOK
<1>1. IInv => TypeOK
  BY DEF IInv
<1> QED BY <1>1, Invariance, PTL

\* The behavior that acts is always the one the machine's state asks for.
THEOREM BehaviorAlwaysAgrees == Spec => []BehaviorAgrees
<1>1. IInv => BehaviorAgrees
  BY DEF IInv
<1> QED BY <1>1, Invariance, PTL

\* The reference never runs ahead of the task.
THEOREM PhaseNeverAhead == Spec => []PhaseBehindTask
<1>1. IInv => PhaseBehindTask
  BY DEF IInv
<1> QED BY <1>1, Invariance, PTL

\* No recovery outlasts max_duration, whatever its guard does.
THEOREM RecoveriesEnd == Spec => []RecoveryBounded
<1>1. IInv => RecoveryBounded
  BY ProgramAdmitted DEF IInv, TypeOK, RecoveryCounted, RecoveryBounded
<1> QED BY <1>1, Invariance, PTL

\* A recovery lasts min_dwell steps at least, and the next one keeps its
\* distance.
THEOREM RecoveriesSpaced == Spec => RecoverySpaced
<1> DEFINE A == /\ exited' # exited =>
                     entered # Never /\ step >= entered + RecMin
                /\ entered' # entered /\ exited # Never =>
                     step > exited + RecReentry
<1>1. ASSUME IInv, [Next]_vars PROVE [A]_vars
  <2> USE ProgramAdmitted DEF IInv, TypeOK, RecoveryCounted, ReentryCounted,
                              machine, history
  <2>1. CASE RecoveryRejoin
    BY <1>1, <2>1 DEF RecoveryRejoin
  <2>2. CASE RecoveryEnter
    BY <1>1, <2>2 DEF RecoveryEnter
  <2>3. ASSUME UNCHANGED <<entered, exited>> PROVE A
    BY <2>3
  <2> QED
    BY <1>1, <2>1, <2>2, <2>3
    DEF Next, Frame, RecoveryOverdue, RecoveryHold, ReentryBlocked, Transit,
        Hold, Advance, vars
<1> QED BY <1>1, Invariance, PTL DEF Spec, RecoverySpaced

\* Every ordinary transition is earned by the dwell of the state it leaves.
THEOREM TransitionsAreEarned == Spec => TransitionsEarned
<1> DEFINE A == arrived' # arrived \/ state' # state =>
                  /\ ~recovering
                  /\ step >= arrived + MinDwell[state]
                  /\ exited # Never => step >= exited + MinDwell[state]
<1>1. ASSUME IInv, [Next]_vars PROVE [A]_vars
  <2>1. ASSUME NEW true \in SUBSET Outgoing, Transit(true) PROVE A
    BY <1>1, <2>1, ProgramAdmitted DEF Transit, IInv, TypeOK, DwellCounted
  <2>2. ASSUME UNCHANGED <<arrived, state>> PROVE A
    BY <2>2
  <2> QED
    BY <1>1, <2>1, <2>2
    DEF Next, Frame, RecoveryOverdue, RecoveryHold, RecoveryRejoin,
        ReentryBlocked, RecoveryEnter, Hold, Advance, vars, machine, history
<1> QED BY <1>1, Invariance, PTL DEF Spec, TransitionsEarned

\* The phase is rematched only where the controller changes or a recovery
\* begins or ends.
THEOREM PhaseIsContinuous == Spec => PhaseContinuous
<1> DEFINE A == phase' # phase =>
                  \/ awaiting /\ phase' = phase + 1 /\ behavior' = behavior
                  \/ behavior' # behavior \/ recovering' # recovering
<1>1. ASSUME [Next]_vars PROVE [A]_vars
  <2>1. ASSUME NEW true \in SUBSET Outgoing, Transit(true) PROVE A
    BY <2>1 DEF Transit, KeepPhase
  <2>2. CASE RecoveryRejoin \/ RecoveryEnter
    BY <2>2 DEF RecoveryRejoin, RecoveryEnter
  <2>3. CASE Advance
    BY <2>3 DEF Advance
  <2>4. ASSUME UNCHANGED phase PROVE A
    BY <2>4
  <2> QED
    BY <1>1, <2>1, <2>2, <2>3, <2>4
    DEF Next, Frame, RecoveryOverdue, RecoveryHold, ReentryBlocked, Hold,
        KeepPhase, vars
<1> QED BY <1>1, PTL DEF Spec, PhaseContinuous
=============================================================================
