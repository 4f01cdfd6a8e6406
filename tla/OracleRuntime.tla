---------------------------- MODULE OracleRuntime ----------------------------
(***************************************************************************)
(* The oracle program of src/oracle_composition/contracts/program.py and   *)
(* the episode-local executor of runtime/oracle.py: at every query the     *)
(* runtime evaluates the guards that leave the current mode, takes the     *)
(* matching rule of the lowest priority number, and emits one window of    *)
(* the mode's reference span, or fails closed.                             *)
(*                                                                         *)
(* Init chooses any program of Programs that validate_program accepts, so  *)
(* the properties are about validator and runtime together.  A signal is a *)
(* number of units of 1/Scale; Invalid stands for one that is missing, not *)
(* a number or not finite.  Hashes and identities are left out.            *)
(***************************************************************************)
EXTENDS Integers, Sequences

CONSTANTS Modes, Signals,
          Scale,        \* units in 1.0, the end of a normalized phase
          Readings,     \* values a signal can have
          Invalid,      \* a reading the runtime refuses
          NFrames,      \* frames of the bound reference
          Programs,     \* candidate programs, valid or not
          MaxEpisodes,  \* bound: resets in a run
          None          \* no limit, no signal

Kinds == {"task", "recovery", "terminal"}

Rule == [from : Modes, to : Modes, kind : {"advance", "recovery", "rejoin"},
         priority : Nat, minDwell : Nat, signal : Signals,
         op : {"ge", "gt", "le", "lt"}, threshold : Int, hysteresis : Nat,
         phase : Signals \union {None}]

\* The span of mode m is the frames start[m] .. stop[m] - 1.
Program == [entry : Modes, kind : [Modes -> Kinds],
            start : [Modes -> Nat], stop : [Modes -> Nat],
            maxDwell : [Modes -> (Nat \ {0}) \union {None}],
            rules : SUBSET Rule, maxQueries : Nat \ {0}]

ASSUME OracleConstants ==
    /\ Programs \subseteq Program
    /\ Readings \subseteq Int
    /\ Invalid \notin Readings
    /\ None \notin Nat \union Signals
    /\ Scale \in Nat \ {0}
    /\ NFrames \in Nat
    /\ MaxEpisodes \in Nat

VARIABLES
    program,  \* the validated program; it never changes
    mode,     \* mode_name
    dwell,    \* dwell_steps
    offset,   \* reference_offset_frames
    query,    \* query_index
    active,   \* the rules whose guard is latched
    outcome,  \* what the last query did: "window" or "raised"
    episode,  \* how often the runtime was reset
    seen,     \* history: the readings of this visit's queries
    frames    \* history: the frames emitted in this visit

vars == <<program, mode, dwell, offset, query, active, outcome, episode, seen,
          frames>>
state == <<mode, dwell, offset, query, active>>
history == <<seen, frames>>

-----------------------------------------------------------------------------
(* validate_program                                                        *)

Leaving(p, m) == {r \in p.rules : r.from = m}

\* The modes a path of rules leads to: the least set with m that is closed.
PathReachable(p, m) ==
    {n \in Modes : \A S \in SUBSET Modes :
        m \in S /\ (\A r \in p.rules : r.from \in S => r.to \in S) => n \in S}

ModesLimited(p) ==
    /\ p.kind[p.entry] = "task"
    /\ \E m \in Modes : p.kind[m] = "terminal"
    /\ \A m \in Modes : /\ p.start[m] < p.stop[m] /\ p.stop[m] <= NFrames
                        /\ p.kind[m] = "terminal" <=> p.maxDwell[m] = None

RulesDeterministic(p) ==
    /\ \A r, q \in p.rules :
         r # q /\ r.from = q.from => r.priority # q.priority
    /\ \A r \in p.rules :
         /\ r.from # r.to
         /\ p.maxDwell[r.from] # None => r.minDwell <= p.maxDwell[r.from]

\* Mutant: a rejoin may lead anywhere.
RecoveryEnteredExplicitly(p) ==
    /\ \A r \in p.rules :
         /\ r.kind = "recovery" <=> p.kind[r.to] = "recovery"
         /\ r.kind = "rejoin" <=> p.kind[r.from] = "recovery"
    /\ \A m \in Modes : p.kind[m] = "recovery" =>
         /\ \E r \in p.rules : r.to = m /\ r.kind = "recovery"
         /\ \E r \in Leaving(p, m) : r.kind = "rejoin"

\* Edges into and out of recovery modes are explicit, and a rejoin leads to a
\* task mode.
RecoveryExplicit(p) ==
    /\ \A r \in p.rules :
         /\ r.kind = "recovery" <=> p.kind[r.to] = "recovery"
         /\ r.kind = "rejoin" <=> p.kind[r.from] = "recovery"
         /\ r.kind = "rejoin" => p.kind[r.to] = "task"
    /\ \A m \in Modes : p.kind[m] = "recovery" =>
         /\ \E r \in p.rules : r.to = m /\ r.kind = "recovery"
         /\ \E r \in Leaving(p, m) : r.kind = "rejoin"

\* A directed cycle is a set of modes each of which leads into the set.
NoZeroDwellCycle(p) ==
    \A S \in SUBSET Modes \ {{}} :
      \E m \in S : \A r \in Leaving(p, m) : r.minDwell = 0 => r.to \notin S

Connected(p) ==
    /\ \A m \in Modes : p.kind[m] = "terminal" <=> Leaving(p, m) = {}
    /\ PathReachable(p, p.entry) = Modes
    /\ \A m \in Modes : \E t \in PathReachable(p, m) : p.kind[t] = "terminal"

Valid(p) == /\ ModesLimited(p)
            /\ RulesDeterministic(p)
            /\ RecoveryExplicit(p)
            /\ NoZeroDwellCycle(p)
            /\ Connected(p)

-----------------------------------------------------------------------------
(* Helpers                                                                 *)

Smaller(a, b) == IF a < b THEN a ELSE b
Larger(a, b) == IF a < b THEN b ELSE a

Outgoing == Leaving(program, mode)
Size(m) == program.stop[m] - program.start[m]

\* ScalarGuard.evaluate: a latched guard is released only beyond its
\* hysteresis.
Evaluate(r, v, latched) ==
    LET slack == IF latched THEN r.hysteresis ELSE 0 IN
    CASE r.op = "ge" -> v >= r.threshold - slack
      [] r.op = "gt" -> v > r.threshold - slack
      [] r.op = "le" -> v <= r.threshold + slack
      [] r.op = "lt" -> v < r.threshold + slack

Latched(s) == {r \in Outgoing : Evaluate(r, s[r.signal], r \in active)}
Matching(s) == {r \in Latched(s) : dwell >= r.minDwell}
Chosen(s) == CHOOSE r \in Matching(s) :
               \A q \in Matching(s) : r.priority <= q.priority

\* _validate_signals: every signal of every outgoing rule is a finite number,
\* and a phase lies in [0, 1].
Admissible(s) ==
    \A r \in Outgoing :
      /\ s[r.signal] # Invalid
      /\ r.phase # None => s[r.phase] # Invalid /\ s[r.phase] \in 0 .. Scale

\* Mutant: the phase is scaled by the number of frames, not of intervals.
EntryOffsetByFrames(r, s) ==
    IF r.phase = None \/ Size(r.to) = 1 THEN 0
    ELSE (2 * s[r.phase] * Size(r.to) + Scale) \div (2 * Scale)

\* _phase_transfer_offset: the nearest frame, half up.
EntryOffset(r, s) ==
    IF r.phase = None \/ Size(r.to) = 1 THEN 0
    ELSE Smaller(Larger((2 * s[r.phase] * (Size(r.to) - 1) + Scale)
                           \div (2 * Scale), 0),
                 Size(r.to) - 1)

FrameAt(m, o) == Smaller(program.start[m] + o, program.stop[m] - 1)

\* Mutant: the offset is advanced past the last frame.
EmitUnclamped(m, d, o) ==
    /\ mode' = m
    /\ dwell' = d + 1
    /\ offset' = o + 1
    /\ query' = query + 1
    /\ outcome' = "window"
    /\ UNCHANGED <<program, episode>>

\* What a query commits once its window is made.
EmitAt(m, d, o) ==
    /\ mode' = m
    /\ dwell' = d + 1
    /\ offset' = Smaller(o + 1, Size(m) - 1)
    /\ query' = query + 1
    /\ outcome' = "window"
    /\ UNCHANGED <<program, episode>>

Init == /\ program \in {p \in Programs : Valid(p)}
        /\ mode = program.entry
        /\ dwell = 0 /\ offset = 0 /\ query = 0
        /\ active = {}
        /\ outcome = "none"
        /\ episode = 0
        /\ seen = <<>> /\ frames = <<>>

-----------------------------------------------------------------------------
(* OracleRuntime.query                                                     *)

\* Nothing is committed before the window is made, so a query that raises
\* leaves the state alone, and the caller may query again.
Raise == outcome' = "raised" /\ UNCHANGED <<program, state, episode, history>>

OverBudget == query >= program.maxQueries /\ Raise

RefuseSignals(s) ==
    /\ query < program.maxQueries
    /\ ~Admissible(s)
    /\ Raise

Queryable(s) == query < program.maxQueries /\ Admissible(s)

\* Mutant: one window more than max_dwell_steps.
StalledLate == program.maxDwell[mode] # None /\ dwell > program.maxDwell[mode]

Stalled == program.maxDwell[mode] # None /\ dwell >= program.maxDwell[mode]

Stall(s) ==
    /\ Queryable(s)
    /\ Matching(s) = {}
    /\ Stalled
    /\ Raise

\* A terminal mode has no guard, so its readings are of no consequence.
Continue(s) ==
    /\ Queryable(s)
    /\ Matching(s) = {}
    /\ ~Stalled
    /\ active' = (active \ Outgoing) \union Latched(s)
    /\ EmitAt(mode, dwell, offset)
    /\ seen' = IF Outgoing = {} THEN seen ELSE Append(seen, s)
    /\ frames' = Append(frames, FrameAt(mode, offset))

\* Mutant: the latches of the mode that is left survive.
SwitchKeepingLatches(s) ==
    /\ Queryable(s)
    /\ Matching(s) # {}
    /\ LET r == Chosen(s) IN
         /\ active' = (active \ Outgoing) \union Latched(s)
         /\ EmitAt(r.to, 0, EntryOffset(r, s))
         /\ frames' = <<FrameAt(r.to, EntryOffset(r, s))>>
    /\ seen' = <<>>

Switch(s) ==
    /\ Queryable(s)
    /\ Matching(s) # {}
    /\ LET r == Chosen(s) IN
         /\ active' = active \ Outgoing
         /\ EmitAt(r.to, 0, EntryOffset(r, s))
         /\ frames' = <<FrameAt(r.to, EntryOffset(r, s))>>
    /\ seen' = <<>>

Reset == /\ episode < MaxEpisodes
         /\ episode' = episode + 1
         /\ mode' = program.entry
         /\ dwell' = 0 /\ offset' = 0 /\ query' = 0
         /\ active' = {}
         /\ outcome' = "none"
         /\ seen' = <<>> /\ frames' = <<>>
         /\ UNCHANGED program

Query == \/ OverBudget
         \/ \E s \in [Signals -> Readings \union {Invalid}] :
              RefuseSignals(s) \/ Stall(s) \/ Continue(s) \/ Switch(s)

Next == Query \/ Reset

Spec == Init /\ [][Next]_vars

-----------------------------------------------------------------------------
(* Properties                                                              *)

\* Every variable has its type; the offset stays inside the mode's span.
TypeOK ==
    /\ program \in Programs
    /\ mode \in Modes
    /\ dwell \in Nat
    /\ offset \in 0 .. Size(mode) - 1
    /\ query \in 0 .. program.maxQueries
    /\ active \subseteq program.rules
    /\ outcome \in {"none", "window", "raised"}
    /\ episode \in 0 .. MaxEpisodes
    /\ seen \in Seq([Signals -> Readings \union {Invalid}])
    /\ frames \in Seq(Nat)

\* The threshold was reached at some query of this visit and the signal has
\* stayed within the hysteresis ever since.
Armed(r) ==
    \E k \in 1 .. Len(seen) :
      /\ Evaluate(r, seen[k][r.signal], FALSE)
      /\ \A i \in k + 1 .. Len(seen) :
           CASE r.op = "ge" -> seen[i][r.signal] >= r.threshold - r.hysteresis
             [] r.op = "gt" -> seen[i][r.signal] > r.threshold - r.hysteresis
             [] r.op = "le" -> seen[i][r.signal] <= r.threshold + r.hysteresis
             [] r.op = "lt" -> seen[i][r.signal] < r.threshold + r.hysteresis

\* The latches are exactly those of a Schmitt trigger that starts afresh with
\* every visit of a mode: none survives a transition, a reset or a failed
\* query, so a mode that is entered again waits for its guards again.
LatchesAreFresh == active = {r \in Outgoing : Armed(r)}

\* A visit emits one window per dwell step, and in a mode that is not terminal
\* at most max_dwell_steps of them, after which the runtime leaves it or fails
\* closed.  The windows are frames of the mode's span, one after the other from
\* the entry frame on, and the last one is held, failed queries or not.
VisitBounded ==
    /\ dwell = Len(frames)
    /\ program.kind[mode] # "terminal" => dwell <= program.maxDwell[mode]
    /\ \A i \in 1 .. Len(frames) :
         /\ frames[i] \in program.start[mode] .. program.stop[mode] - 1
         /\ i > 1 => frames[i] = Smaller(frames[i - 1] + 1, program.stop[mode] - 1)

\* A transition that carries a phase over enters its target at the frame nearest
\* to that phase, the later one of two that are equally near.
EntryIsNearest ==
    \A r \in Outgoing : r.phase # None =>
      \A s \in [{r.phase} -> 0 .. Scale] :
        LET last == Size(r.to) - 1
            entry == EntryOffset(r, s)
            Distance(k) == LET d == s[r.phase] * last - Scale * k
                           IN  IF d < 0 THEN -d ELSE d
        IN  /\ entry \in 0 .. last
            /\ \A k \in 0 .. last : \/ Distance(entry) < Distance(k)
                                    \/ Distance(entry) = Distance(k) /\ k <= entry

\* A recovery is a detour: it is entered from a task or another mode by an edge
\* that says so, and what follows it is a task, never the end of the program
\* and never another recovery.
RecoveryRejoins ==
    [][program.kind[mode] = "recovery" /\ mode' # mode /\ episode' = episode
         => program.kind[mode'] = "task"]_vars
=============================================================================
