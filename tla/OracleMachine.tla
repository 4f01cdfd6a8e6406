---------------------------- MODULE OracleMachine ----------------------------
(***************************************************************************)
(* The composition oracle of src/oracle_composition/harness/contract.py    *)
(* under the driver that fine-tuning uses, ComposedReferenceRuntime of     *)
(* phase_b/reference_runtime.py: one frame (a decision and, at a switch, a *)
(* choice of phase) and one advance per control step.  A behaviour of this *)
(* module is one episode; a new episode makes a new machine.               *)
(*                                                                         *)
(* Which guards are true is the environment's choice at every step.  The   *)
(* history variables remember at which control step the machine arrived in *)
(* its state and when it last entered and left its recovery.               *)
(***************************************************************************)
EXTENDS Integers

CONSTANTS States,       \* oracle states
          Initial,      \* the initial state
          Behaviors,    \* controllers or reference clips
          BehaviorOf,   \* the behavior of a state
          MinDwell,     \* the min_dwell of a state
          Transitions,  \* records with from, to and priority
          RecBehavior,  \* recovery.behavior
          RecMin,       \* recovery.min_dwell
          RecMax,       \* recovery.max_duration
          RecReentry,   \* recovery.reentry_dwell
          Length,       \* rows of every behavior's reference
          Horizon,      \* bound: control steps of an episode
          Never         \* not a step

\* What oracle_program_from_dict admits of a program with a recovery.
Admitted ==
    /\ Initial \in States
    /\ BehaviorOf \in [States -> Behaviors]
    /\ MinDwell \in [States -> Nat]
    /\ Transitions \subseteq [from : States, to : States, priority : Nat]
    /\ \A t, u \in Transitions :
         t # u /\ t.from = u.from => t.priority # u.priority
    /\ RecBehavior \in Behaviors
    /\ RecMin \in Nat \ {0}
    /\ RecMax \in Nat /\ RecMin <= RecMax
    /\ RecReentry \in Nat \ {0}
    /\ Length \in Nat \ {0}
    /\ Horizon \in Nat
    /\ Never \notin Nat

ASSUME ProgramAdmitted == Admitted

VARIABLES
    state,       \* _state
    behavior,    \* _behavior
    dwell,       \* _dwell
    recovering,  \* _recovery_active
    elapsed,     \* _recovery_elapsed
    blocked,     \* _recovery_reentry_remaining
    phase,       \* _phase, the row of the behavior's reference
    step,        \* _task_step
    awaiting,    \* _awaiting_advance
    raised,      \* a frame failed: the episode is over
    arrived,     \* history: the step of the last state transition
    entered,     \* history: the step of the last recovery entry
    exited       \* history: the step of the last recovery exit

machine == <<state, behavior, dwell, recovering, elapsed, blocked>>
history == <<arrived, entered, exited>>
vars == <<machine, phase, step, awaiting, raised, history>>

Init == /\ state = Initial
        /\ behavior = BehaviorOf[Initial]
        /\ dwell = 0
        /\ recovering = FALSE /\ elapsed = 0 /\ blocked = 0
        /\ phase = 0 /\ step = 0
        /\ awaiting = FALSE /\ raised = FALSE
        /\ arrived = 0 /\ entered = Never /\ exited = Never

-----------------------------------------------------------------------------
(* One frame: decide, then the phase of what is followed next              *)

FrameReady == ~awaiting /\ ~raised

\* The decision keeps controller and phase.
KeepPhase == awaiting' = TRUE /\ UNCHANGED <<phase, step, raised>>

\* Mutant: any row may match, also one later than the task.
SelectAnyPhase ==
    /\ UNCHANGED step
    /\ \/ /\ step < Length
          /\ phase' \in 0 .. Length - 1
          /\ awaiting' = TRUE
          /\ UNCHANGED raised
       \/ /\ raised' = TRUE
          /\ UNCHANGED <<phase, awaiting>>

\* select_nearest_phase: the row that matches the robot best among those not
\* later than the task step.  It raises past the end of the reference, or for
\* tracking errors that are not finite, when the machine has already decided.
SelectPhase ==
    /\ UNCHANGED step
    /\ \/ /\ step < Length
          /\ phase' \in 0 .. step
          /\ awaiting' = TRUE
          /\ UNCHANGED raised
       \/ /\ raised' = TRUE
          /\ UNCHANGED <<phase, awaiting>>

\* The recovery guard still holds after max_duration.
RecoveryOverdue ==
    /\ FrameReady
    /\ recovering
    /\ elapsed >= RecMax
    /\ raised' = TRUE
    /\ UNCHANGED <<machine, phase, step, awaiting, history>>

\* The guard holds, or min_dwell has not passed.
RecoveryHold(guard) ==
    /\ FrameReady
    /\ recovering
    /\ guard => elapsed < RecMax
    /\ guard \/ elapsed < RecMin
    /\ KeepPhase
    /\ UNCHANGED <<machine, history>>

\* Mutant: the exit step itself uses up one of the blocked steps.
RejoinEarly ==
    /\ FrameReady
    /\ recovering
    /\ elapsed >= RecMin
    /\ recovering' = FALSE
    /\ elapsed' = 0
    /\ blocked' = RecReentry
    /\ behavior' = BehaviorOf[state]
    /\ dwell' = 0
    /\ exited' = step
    /\ SelectPhase
    /\ UNCHANGED <<state, arrived, entered>>

\* Mutant: the suspended state is rejoined with the dwell it had.
RejoinKeepingDwell ==
    /\ FrameReady
    /\ recovering
    /\ elapsed >= RecMin
    /\ recovering' = FALSE
    /\ elapsed' = 0
    /\ blocked' = RecReentry + 1
    /\ behavior' = BehaviorOf[state]
    /\ exited' = step
    /\ SelectPhase
    /\ UNCHANGED <<state, dwell, arrived, entered>>

\* The guard is false after min_dwell: the suspended state is rejoined.
RecoveryRejoin ==
    /\ FrameReady
    /\ recovering
    /\ elapsed >= RecMin
    /\ recovering' = FALSE
    /\ elapsed' = 0
    /\ blocked' = RecReentry + 1
    /\ behavior' = BehaviorOf[state]
    /\ dwell' = 0
    /\ exited' = step
    /\ SelectPhase
    /\ UNCHANGED <<state, arrived, entered>>

\* The guard holds within reentry_dwell: neither recovery nor a transition.
ReentryBlocked ==
    /\ FrameReady
    /\ ~recovering
    /\ blocked > 0
    /\ KeepPhase
    /\ UNCHANGED <<machine, history>>

RecoveryEnter ==
    /\ FrameReady
    /\ ~recovering
    /\ blocked = 0
    /\ recovering' = TRUE
    /\ elapsed' = 0
    /\ behavior' = RecBehavior
    /\ dwell' = 0
    /\ entered' = step
    /\ SelectPhase
    /\ UNCHANGED <<state, blocked, arrived, exited>>

\* The outgoing transition of the lowest priority number whose guard is true.
FirstOf(true) == CHOOSE t \in true : \A u \in true : t.priority <= u.priority

\* The recovery guard is false and min_dwell has passed.  Two states may share
\* a behavior; then the phase runs on.
Transit(true) ==
    /\ FrameReady
    /\ ~recovering
    /\ dwell >= MinDwell[state]
    /\ true # {}
    /\ state' = FirstOf(true).to
    /\ behavior' = BehaviorOf[FirstOf(true).to]
    /\ dwell' = 0
    /\ arrived' = step
    /\ IF behavior' = behavior THEN KeepPhase ELSE SelectPhase
    /\ UNCHANGED <<recovering, elapsed, blocked, entered, exited>>

\* No guard is true, min_dwell has not passed, or the caller defers ordinary
\* transitions (allow_transitions).
Hold ==
    /\ FrameReady
    /\ ~recovering
    /\ KeepPhase
    /\ UNCHANGED <<machine, history>>

-----------------------------------------------------------------------------
\* Mutant: the elapsed recovery is not counted.
AdvanceUncounted ==
    /\ awaiting
    /\ step < Horizon
    /\ phase' = IF phase < Length - 1 THEN phase + 1 ELSE phase
    /\ dwell' = dwell + 1
    /\ blocked' = IF blocked > 0 THEN blocked - 1 ELSE blocked
    /\ step' = step + 1
    /\ awaiting' = FALSE
    /\ UNCHANGED <<state, behavior, recovering, elapsed, raised, history>>

\* Mutant: the phase runs past the last row of the reference.
AdvanceUnclamped ==
    /\ awaiting
    /\ step < Horizon
    /\ phase' = phase + 1
    /\ dwell' = dwell + 1
    /\ elapsed' = IF recovering THEN elapsed + 1 ELSE elapsed
    /\ blocked' = IF ~recovering /\ blocked > 0 THEN blocked - 1 ELSE blocked
    /\ step' = step + 1
    /\ awaiting' = FALSE
    /\ UNCHANGED <<state, behavior, recovering, raised, history>>

\* advance of the runtime and of its machine, after the physical step.
Advance ==
    /\ awaiting
    /\ step < Horizon
    /\ phase' = IF phase < Length - 1 THEN phase + 1 ELSE phase
    /\ dwell' = dwell + 1
    /\ elapsed' = IF recovering THEN elapsed + 1 ELSE elapsed
    /\ blocked' = IF ~recovering /\ blocked > 0 THEN blocked - 1 ELSE blocked
    /\ step' = step + 1
    /\ awaiting' = FALSE
    /\ UNCHANGED <<state, behavior, recovering, raised, history>>

Outgoing == {t \in Transitions : t.from = state}

Frame == \/ RecoveryOverdue
         \/ \E guard \in BOOLEAN : RecoveryHold(guard)
         \/ RecoveryRejoin
         \/ ReentryBlocked
         \/ RecoveryEnter
         \/ \E true \in SUBSET Outgoing : Transit(true)
         \/ Hold

Next == Frame \/ Advance

Spec == Init /\ [][Next]_vars

-----------------------------------------------------------------------------
(* Properties                                                              *)

\* Every variable has its type, and the phase is a row of the reference.
TypeOK ==
    /\ state \in States
    /\ behavior \in Behaviors
    /\ dwell \in Nat
    /\ recovering \in BOOLEAN
    /\ elapsed \in Nat
    /\ blocked \in Nat
    /\ phase \in 0 .. Length - 1
    /\ step \in Nat
    /\ awaiting \in BOOLEAN
    /\ raised \in BOOLEAN
    /\ arrived \in Nat
    /\ entered \in Nat \union {Never}
    /\ exited \in Nat \union {Never}

\* The controller that acts is the recovery's while the machine recovers and
\* the state's otherwise, whatever entries, exits and transitions came before.
BehaviorAgrees ==
    behavior = IF recovering THEN RecBehavior ELSE BehaviorOf[state]

\* No recovery outlasts max_duration control steps: the machine rejoins or the
\* episode fails.
RecoveryBounded == recovering => entered # Never /\ step <= entered + RecMax

\* A recovery lasts at least min_dwell steps, and after its exit at least
\* reentry_dwell whole steps pass before another one begins.
RecoverySpaced ==
    [][/\ exited' # exited => entered # Never /\ step >= entered + RecMin
       /\ entered' # entered /\ exited # Never => step > exited + RecReentry]_vars

\* An ordinary transition is earned: min_dwell steps of the state have passed
\* since the machine came to it and since it last came back to it from a
\* recovery, and none happens during a recovery.
TransitionsEarned ==
    [][arrived' # arrived \/ state' # state =>
         /\ ~recovering
         /\ step >= arrived + MinDwell[state]
         /\ exited # Never => step >= exited + MinDwell[state]]_vars

\* The reference never runs ahead of the task.
PhaseBehindTask == phase <= step

\* There is no continuous rematching: the phase moves one row per step, and
\* jumps only where the controller changes or a recovery begins or ends.
PhaseContinuous ==
    [][phase' # phase =>
         \/ awaiting /\ phase' = phase + 1 /\ behavior' = behavior
         \/ behavior' # behavior \/ recovering' # recovering]_vars
=============================================================================
