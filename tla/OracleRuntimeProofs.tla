------------------------ MODULE OracleRuntimeProofs ------------------------
(***************************************************************************)
(* Proofs about OracleRuntime, for any set of candidate programs, any      *)
(* signals and any run of queries: what the validator accepts, the runtime *)
(* executes within its limits, with fresh latches, along the span of the   *)
(* mode, and entering it at the nearest frame.                             *)
(***************************************************************************)
EXTENDS OracleRuntime, SequenceTheorems, NaturalsInduction, WellFoundedInduction, TLAPS

\* The limits that the validator guarantees.
LEMMA ValidLimits ==
    ASSUME NEW p \in Programs, Valid(p)
    PROVE  /\ p.entry \in Modes /\ p.rules \subseteq Rule /\ p.maxQueries \in Nat \ {0}
           /\ \A m \in Modes :
                 /\ p.start[m] \in Nat /\ p.stop[m] \in Nat /\ p.start[m] < p.stop[m]
                 /\ p.kind[m] # "terminal" => p.maxDwell[m] \in Nat \ {0}
                 /\ p.kind[m] = "terminal" => p.maxDwell[m] = None
           /\ \A r \in p.rules : p.kind[r.from] = "recovery" => p.kind[r.to] = "task"
<1>1. p \in Program
  BY OracleConstants
<1>2. ModesLimited(p) /\ RecoveryExplicit(p)
  BY DEF Valid
<1>3. /\ p.entry \in Modes /\ p.rules \subseteq Rule /\ p.maxQueries \in Nat \ {0}
      /\ p.start \in [Modes -> Nat] /\ p.stop \in [Modes -> Nat]
      /\ p.maxDwell \in [Modes -> (Nat \ {0}) \union {None}]
      /\ p.kind \in [Modes -> Kinds]
  BY <1>1 DEF Program
<1>4. \A m \in Modes : p.kind[m] # "terminal" => p.maxDwell[m] \in Nat \ {0}
  BY <1>2, <1>3 DEF ModesLimited
<1> QED BY <1>2, <1>3, <1>4 DEF ModesLimited, RecoveryExplicit

\* The program in execution was accepted, and the mode has a span.
Accepted == program \in Programs /\ Valid(program) /\ mode \in Modes

LEMMA OutgoingRules ==
    ASSUME Accepted, NEW r \in Outgoing
    PROVE  /\ r \in program.rules /\ r.from = mode /\ r.to \in Modes
           /\ r.signal \in Signals /\ r.phase \in Signals \union {None}
           /\ r.op \in {"ge", "gt", "le", "lt"}
           /\ r.threshold \in Int /\ r.hysteresis \in Nat
           /\ Size(r.to) \in Nat \ {0}
<1>1. r \in program.rules /\ r.from = mode /\ r \in Rule
  BY ValidLimits DEF Outgoing, Leaving, Accepted
<1>2. r.to \in Modes
  BY <1>1 DEF Rule
<1>3. Size(r.to) \in Nat \ {0}
  BY <1>2, ValidLimits DEF Accepted, Size
<1> QED BY <1>1, <1>2, <1>3 DEF Rule

LEMMA SizePositive ==
    ASSUME Accepted
    PROVE  Size(mode) \in Nat \ {0} /\ program.start[mode] \in Nat /\ program.stop[mode] \in Nat
           /\ program.stop[mode] = program.start[mode] + Size(mode)
BY ValidLimits DEF Accepted, Size

-----------------------------------------------------------------------------
(* Entering a mode at the nearest frame                                    *)

\* Half up is nearest, the later of two: by the bounds of the quotient.
LEMMA Nearest ==
    ASSUME NEW S \in Nat \ {0}, NEW L \in Nat, NEW p \in 0 .. S, NEW q \in Int,
           2 * S * q <= 2 * p * L + S, 2 * p * L + S < 2 * S * q + 2 * S
    PROVE  /\ 0 <= q /\ q <= L
           /\ \A k \in 0 .. L :
                 LET dq == IF p * L - S * q < 0 THEN -(p * L - S * q) ELSE p * L - S * q
                     dk == IF p * L - S * k < 0 THEN -(p * L - S * k) ELSE p * L - S * k
                 IN  dq < dk \/ (dq = dk /\ k <= q)
<1> DEFINE x == p * L
<1>1. x \in Int /\ 0 <= x /\ x <= S * L
  <2>1. S * L - p * L = (S - p) * L /\ S - p \in Nat
    OBVIOUS
  <2>2. (S - p) * L \in Nat /\ p * L \in Nat
    BY <2>1
  <2> QED BY <2>1, <2>2
<1>2. \A a, b \in Int : a < b => S * a + S <= S * b
  <2> SUFFICES ASSUME NEW a \in Int, NEW b \in Int, a < b PROVE S * a + S <= S * b
    OBVIOUS
  <2>1. b - a - 1 \in Nat
    OBVIOUS
  <2>2. S * (b - a - 1) \in Nat
    BY <2>1
  <2>3. S * (b - a - 1) = S * b - S * a - S
    OBVIOUS
  <2> QED BY <2>2, <2>3
<1>3. 2 * (S * q) <= 2 * x + S /\ 2 * x + S < 2 * (S * q) + 2 * S
  BY DEF x
<1>4. S * q \in Int /\ S * L \in Int /\ S * 0 = 0
  OBVIOUS
<1> HIDE DEF x
<1>5. 0 <= q
  <2>1. CASE q < 0
    <3>1. S * q + S <= 0
      BY <1>2, <1>4, <2>1
    <3> QED BY <1>1, <1>3, <1>4, <3>1
  <2> QED BY <2>1
<1>6. q <= L
  <2>1. CASE L < q
    <3>1. S * L + S <= S * q
      BY <1>2, <2>1
    <3> QED BY <1>1, <1>3, <1>4, <3>1
  <2> QED BY <2>1
<1>7. ASSUME NEW k \in 0 .. L
      PROVE  LET dq == IF x - S * q < 0 THEN -(x - S * q) ELSE x - S * q
                 dk == IF x - S * k < 0 THEN -(x - S * k) ELSE x - S * k
             IN  dq < dk \/ (dq = dk /\ k <= q)
  <2>1. S * k \in Int
    OBVIOUS
  <2>2. CASE k < q
    <3>1. S * k + S <= S * q
      BY <1>2, <2>2
    <3> QED BY <1>1, <1>3, <1>4, <2>1, <2>2, <3>1
  <2>3. CASE q < k
    <3>1. S * q + S <= S * k
      BY <1>2, <2>3
    <3> QED BY <1>1, <1>3, <1>4, <2>1, <3>1
  <2> QED BY <2>2, <2>3
<1> QED BY <1>5, <1>6, <1>7 DEF x

LEMMA Quotient ==
    ASSUME NEW a \in Int, NEW b \in Nat \ {0}
    PROVE  a \div b \in Int /\ b * (a \div b) <= a /\ a < b * (a \div b) + b
OBVIOUS

\* Without a phase, or into a span of one frame, a transition enters at frame 0.
LEMMA EntryInSpan ==
    ASSUME Accepted, NEW r \in Outgoing, NEW s, Admissible(s),
           r.phase # None => s[r.phase] \in 0 .. Scale
    PROVE  EntryOffset(r, s) \in 0 .. Size(r.to) - 1
<1>1. Size(r.to) \in Nat \ {0}
  BY OutgoingRules
<1>2. CASE r.phase = None \/ Size(r.to) = 1
  BY <1>1, <1>2 DEF EntryOffset
<1>3. CASE ~(r.phase = None \/ Size(r.to) = 1)
  <2> DEFINE a == 2 * s[r.phase] * (Size(r.to) - 1) + Scale
  <2>1. a \in Int /\ 2 * Scale \in Nat \ {0}
    BY <1>1, <1>3, OracleConstants
  <2>2. PICK q \in Int : q = a \div (2 * Scale)
    BY <2>1, Quotient
  <2>3. EntryOffset(r, s) = Smaller(Larger(q, 0), Size(r.to) - 1)
    BY <1>3, <2>2 DEF EntryOffset
  <2> QED BY <1>1, <2>2, <2>3 DEF Smaller, Larger
<1> QED BY <1>2, <1>3

\* Every transition that carries a phase over enters at the nearest frame.
LEMMA AcceptedEntryIsNearest == ASSUME Accepted PROVE EntryIsNearest
<1> SUFFICES ASSUME NEW r \in Outgoing, r.phase # None, NEW s \in [{r.phase} -> 0 .. Scale]
             PROVE  LET last == Size(r.to) - 1
                        entry == EntryOffset(r, s)
                        Distance(k) == LET d == s[r.phase] * last - Scale * k
                                       IN  IF d < 0 THEN -d ELSE d
                    IN  /\ entry \in 0 .. last
                        /\ \A k \in 0 .. last : \/ Distance(entry) < Distance(k)
                                                \/ Distance(entry) = Distance(k) /\ k <= entry
  BY DEF EntryIsNearest
<1> DEFINE L == Size(r.to) - 1
           p == s[r.phase]
           a == 2 * p * L + Scale
           q == a \div (2 * Scale)
<1>1. L \in Nat /\ p \in 0 .. Scale /\ Scale \in Nat \ {0} /\ Size(r.to) = L + 1
  BY OutgoingRules, OracleConstants
<1>2. CASE Size(r.to) = 1
  <2>1. EntryOffset(r, s) = 0 /\ L = 0
    BY <1>2 DEF EntryOffset
  <2> QED BY <1>1, <2>1
<1>3. CASE Size(r.to) # 1
  <2>1. a \in Int /\ 2 * Scale \in Nat \ {0}
    BY <1>1
  <2>2. q \in Int /\ 2 * Scale * q <= a /\ a < 2 * Scale * q + 2 * Scale
    BY <2>1, Quotient
  <2>3. EntryOffset(r, s) = Smaller(Larger(q, 0), L)
    BY <1>3 DEF EntryOffset
  <2> HIDE DEF q, p, L
  <2>4. /\ 0 <= q /\ q <= L
        /\ \A k \in 0 .. L :
              LET dq == IF p * L - Scale * q < 0 THEN -(p * L - Scale * q) ELSE p * L - Scale * q
                  dk == IF p * L - Scale * k < 0 THEN -(p * L - Scale * k) ELSE p * L - Scale * k
              IN  dq < dk \/ (dq = dk /\ k <= q)
    BY <1>1, <2>2, Nearest
  <2>5. EntryOffset(r, s) = q /\ q \in 0 .. L
    BY <1>1, <2>2, <2>3, <2>4 DEF Smaller, Larger
  <2> QED BY <2>4, <2>5 DEF p, L
<1> QED BY <1>2, <1>3

-----------------------------------------------------------------------------
(* The invariant                                                           *)

\* The offset is that of the frame after the last one, or of the held last one.
FramesFollow ==
    /\ \A i \in 1 .. Len(frames) :
         /\ frames[i] \in program.start[mode] .. program.stop[mode] - 1
         /\ i > 1 => frames[i] = Smaller(frames[i - 1] + 1, program.stop[mode] - 1)
    /\ frames # <<>> =>
         program.start[mode] + offset = Smaller(frames[Len(frames)] + 1, program.stop[mode] - 1)

IInv ==
    /\ TypeOK
    /\ Valid(program)
    /\ dwell = Len(frames)
    /\ program.kind[mode] # "terminal" => dwell <= program.maxDwell[mode]
    /\ FramesFollow
    /\ LatchesAreFresh

\* The runtime's choice exists, whatever the order of the rules.
LEMMA ChosenMatches ==
    ASSUME Accepted, NEW s, Matching(s) # {}
    PROVE  Chosen(s) \in Matching(s) /\ Chosen(s) \in Outgoing
<1> DEFINE M == Matching(s)
           P == {r.priority : r \in M}
<1>1. \A r \in M : r \in Outgoing /\ r.priority \in Nat
  <2>1. \A r \in M : r \in Outgoing
    BY DEF Matching, Latched
  <2>2. \A r \in Outgoing : r \in Rule
    BY ValidLimits DEF Outgoing, Leaving, Accepted
  <2> QED BY <2>1, <2>2 DEF Rule
<1>2. \E n \in P : \A m \in P : ~(<<m, n>> \in OpToRel(<, Nat))
  <2>1. P \subseteq Nat /\ P # {}
    BY <1>1
  <2> HIDE DEF P
  <2> QED BY <2>1, NatLessThanWellFounded, WFMin
<1>3. \E r \in M : \A q \in M : r.priority <= q.priority
  <2>1. PICK r \in M : \A q \in M : ~(<<q.priority, r.priority>> \in OpToRel(<, Nat))
    BY <1>2
  <2>2. \A q \in M : ~(q.priority < r.priority)
    BY <2>1, <1>1 DEF OpToRel
  <2> QED BY <2>2, <1>1
<1>4. Chosen(s) \in M
  BY <1>3 DEF Chosen
<1> QED BY <1>1, <1>4

-----------------------------------------------------------------------------
(* The latches                                                             *)

\* A guard that is not latched, and one that is.
Fresh(r, v) == Evaluate(r, v, FALSE)
Slack(r, v) == Evaluate(r, v, TRUE)

\* A guard that holds afresh holds with the slack of its hysteresis.
LEMMA SlackIsWider ==
    ASSUME Accepted, NEW r \in Outgoing, NEW v \in Int, Fresh(r, v)
    PROVE  Slack(r, v)
<1>1. /\ r.op \in {"ge", "gt", "le", "lt"}
      /\ r.threshold \in Int /\ r.hysteresis \in Nat
  BY OutgoingRules
<1>2. CASE r.op = "ge"
  BY <1>1, <1>2 DEF Fresh, Slack, Evaluate
<1>3. CASE r.op = "gt"
  BY <1>1, <1>3 DEF Fresh, Slack, Evaluate
<1>4. CASE r.op = "le"
  BY <1>1, <1>4 DEF Fresh, Slack, Evaluate
<1>5. CASE r.op = "lt"
  BY <1>1, <1>5 DEF Fresh, Slack, Evaluate
<1> QED BY <1>1, <1>2, <1>3, <1>4, <1>5

\* What the history says of a latch, in terms of the guard's evaluation.
ArmedAt(r, hist) ==
    \E k \in 1 .. Len(hist) :
      /\ Fresh(r, hist[k][r.signal])
      /\ \A i \in k + 1 .. Len(hist) : Slack(r, hist[i][r.signal])

LEMMA ArmedMeaning ==
    ASSUME Accepted, NEW r \in Outgoing
    PROVE  Armed(r) <=> ArmedAt(r, seen)
<1>1. r.op \in {"ge", "gt", "le", "lt"}
  BY OutgoingRules
<1>2. CASE r.op = "ge"
  BY <1>2 DEF Armed, ArmedAt, Fresh, Slack, Evaluate
<1>3. CASE r.op = "gt"
  BY <1>3 DEF Armed, ArmedAt, Fresh, Slack, Evaluate
<1>4. CASE r.op = "le"
  BY <1>4 DEF Armed, ArmedAt, Fresh, Slack, Evaluate
<1>5. CASE r.op = "lt"
  BY <1>5 DEF Armed, ArmedAt, Fresh, Slack, Evaluate
<1> QED BY <1>1, <1>2, <1>3, <1>4, <1>5

LEMMA ArmedNext ==
    ASSUME Accepted, NEW r \in Outgoing
    PROVE  Armed(r)' <=> ArmedAt(r, seen')
<1>1. r.op \in {"ge", "gt", "le", "lt"}
  BY OutgoingRules
<1>2. CASE r.op = "ge"
  BY <1>2 DEF Armed, ArmedAt, Fresh, Slack, Evaluate
<1>3. CASE r.op = "gt"
  BY <1>3 DEF Armed, ArmedAt, Fresh, Slack, Evaluate
<1>4. CASE r.op = "le"
  BY <1>4 DEF Armed, ArmedAt, Fresh, Slack, Evaluate
<1>5. CASE r.op = "lt"
  BY <1>5 DEF Armed, ArmedAt, Fresh, Slack, Evaluate
<1> QED BY <1>1, <1>2, <1>3, <1>4, <1>5

\* One more reading: the latch is evaluated with slack if it was set.
LEMMA ArmedStep ==
    ASSUME Accepted, NEW r \in Outgoing, NEW H, NEW hist \in Seq(H), NEW s \in H,
           s[r.signal] \in Int
    PROVE  ArmedAt(r, Append(hist, s)) <=> IF ArmedAt(r, hist) THEN Slack(r, s[r.signal])
                                                                 ELSE Fresh(r, s[r.signal])
<1> DEFINE next == Append(hist, s)
           n == Len(hist)
<1>1. /\ n \in Nat /\ Len(next) = n + 1 /\ next[n + 1] = s
      /\ \A i \in 1 .. n : next[i] = hist[i]
  BY AppendProperties
<1> HIDE DEF next, n
<1>2. CASE ArmedAt(r, hist)
  <2>2. PICK k \in 1 .. n :
           /\ Fresh(r, hist[k][r.signal])
           /\ \A i \in k + 1 .. n : Slack(r, hist[i][r.signal])
    BY <1>2 DEF ArmedAt, n
  <2>3. ASSUME Slack(r, s[r.signal]) PROVE ArmedAt(r, next)
    <3>1. k \in 1 .. Len(next) /\ Fresh(r, next[k][r.signal])
      BY <1>1, <2>2
    <3>2. \A i \in k + 1 .. Len(next) : Slack(r, next[i][r.signal])
      <4> SUFFICES ASSUME NEW i \in k + 1 .. Len(next) PROVE Slack(r, next[i][r.signal])
        OBVIOUS
      <4>1. CASE i = n + 1
        BY <1>1, <2>3, <4>1
      <4>2. CASE i \in k + 1 .. n
        BY <1>1, <2>2, <4>2
      <4> QED BY <1>1, <4>1, <4>2
    <3> QED BY <3>1, <3>2 DEF ArmedAt
  <2>4. ASSUME ArmedAt(r, next) PROVE Slack(r, s[r.signal])
    <3>1. PICK j \in 1 .. n + 1 :
             /\ Fresh(r, next[j][r.signal])
             /\ \A i \in j + 1 .. n + 1 : Slack(r, next[i][r.signal])
      BY <1>1, <2>4 DEF ArmedAt
    <3>2. CASE j = n + 1
      BY <1>1, <3>1, <3>2, SlackIsWider
    <3>3. CASE j \in 1 .. n
      BY <1>1, <3>1, <3>3
    <3> QED BY <1>1, <3>2, <3>3
  <2> QED BY <1>2, <2>3, <2>4 DEF next
<1>3. CASE ~ArmedAt(r, hist)
  <2>2. ASSUME Fresh(r, s[r.signal]) PROVE ArmedAt(r, next)
    BY <1>1, <2>2 DEF ArmedAt
  <2>3. ASSUME ArmedAt(r, next) PROVE Fresh(r, s[r.signal])
    <3>1. PICK j \in 1 .. n + 1 :
             /\ Fresh(r, next[j][r.signal])
             /\ \A i \in j + 1 .. n + 1 : Slack(r, next[i][r.signal])
      BY <1>1, <2>3 DEF ArmedAt
    <3>2. CASE j = n + 1
      BY <1>1, <3>1, <3>2
    <3>3. CASE j \in 1 .. n
      <4>1. Fresh(r, hist[j][r.signal])
        BY <1>1, <3>1, <3>3
      <4>2. \A i \in j + 1 .. n : Slack(r, hist[i][r.signal])
        BY <1>1, <3>1, <3>3
      <4> QED BY <1>3, <3>3, <4>1, <4>2 DEF ArmedAt, n
    <3> QED BY <1>1, <3>2, <3>3
  <2> QED BY <1>3, <2>2, <2>3 DEF next
<1> QED BY <1>2, <1>3

-----------------------------------------------------------------------------
(* Every step keeps the invariant                                          *)

SignalValues == [Signals -> Readings \union {Invalid}]

\* A query that raises, and a step of nobody.
LEMMA StandsStill ==
    ASSUME IInv, UNCHANGED <<program, mode, dwell, offset, query, active, episode, seen, frames>>,
           outcome' \in {"none", "window", "raised"}
    PROVE  IInv'
BY DEF IInv, TypeOK, Valid, ModesLimited, RulesDeterministic, RecoveryExplicit, NoZeroDwellCycle,
       Connected, FramesFollow, LatchesAreFresh, Armed, Outgoing, Size

\* The offset is held at the last frame exactly when the frame is.
LEMMA HeldFrame ==
    ASSUME NEW first \in Nat, NEW size \in Nat \ {0}, NEW o \in 0 .. size - 1
    PROVE  first + Smaller(o + 1, size - 1) = Smaller(first + o + 1, first + size - 1)
BY DEF Smaller

\* No step changes the program that was accepted.
LEMMA AcceptedForGood ==
    ASSUME Valid(program), program' = program
    PROVE  Valid(program)'
BY DEF Valid, ModesLimited, RulesDeterministic, RecoveryExplicit, NoZeroDwellCycle, Connected,
       PathReachable, Leaving

LEMMA ContinueKeeps ==
    ASSUME IInv, NEW s \in SignalValues, Continue(s)
    PROVE  IInv'
<1>1. TypeOK /\ Accepted /\ FramesFollow /\ LatchesAreFresh
  BY DEF IInv, TypeOK, Accepted
<1>2. /\ program' = program /\ mode' = mode /\ episode' = episode /\ outcome' = "window"
      /\ dwell' = dwell + 1 /\ query' = query + 1 /\ query < program.maxQueries
      /\ offset' = Smaller(offset + 1, Size(mode) - 1)
      /\ frames' = Append(frames, FrameAt(mode, offset))
      /\ active' = (active \ Outgoing) \union Latched(s)
      /\ seen' = IF Outgoing = {} THEN seen ELSE Append(seen, s)
      /\ Admissible(s) /\ ~Stalled
  BY DEF Continue, Queryable, EmitAt
<1>3. Outgoing' = Outgoing /\ Size(mode)' = Size(mode) /\ Valid(program)'
  <2>1. Valid(program)'
    BY <1>2, AcceptedForGood DEF IInv
  <2> QED BY <1>2, <2>1 DEF Outgoing, Leaving, Size
<1>4. /\ Size(mode) \in Nat \ {0} /\ program.start[mode] \in Nat /\ program.stop[mode] \in Nat
      /\ program.stop[mode] = program.start[mode] + Size(mode)
  BY <1>1, SizePositive
<1>5. /\ frames' \in Seq(Nat) /\ Len(frames') = Len(frames) + 1
      /\ frames'[Len(frames) + 1] = program.start[mode] + offset
      /\ \A i \in 1 .. Len(frames) : frames'[i] = frames[i]
      /\ Len(frames) \in Nat
  <2>0. offset \in 0 .. Size(mode) - 1
    BY <1>1 DEF TypeOK
  <2>1. FrameAt(mode, offset) = program.start[mode] + offset
    BY <1>4, <2>0 DEF FrameAt, Smaller
  <2>2. FrameAt(mode, offset) \in Nat /\ frames \in Seq(Nat)
    BY <1>1, <1>4, <2>1 DEF TypeOK
  <2> QED BY <1>2, <2>1, <2>2, AppendProperties
<1>6. FramesFollow'
  <2>1. offset \in 0 .. Size(mode) - 1
    BY <1>1 DEF TypeOK
  <2>2. frames # <<>> <=> Len(frames) > 0
    BY <1>1, EmptySeq DEF TypeOK
  <2>3. ASSUME NEW i \in 1 .. Len(frames')
        PROVE  /\ frames'[i] \in program.start[mode] .. program.stop[mode] - 1
               /\ i > 1 => frames'[i] = Smaller(frames'[i - 1] + 1, program.stop[mode] - 1)
    <3>1. CASE i \in 1 .. Len(frames)
      <4>1. frames'[i] = frames[i] /\ (i > 1 => frames'[i - 1] = frames[i - 1])
        BY <1>5, <3>1
      <4> QED BY <1>1, <3>1, <4>1 DEF FramesFollow
    <3>2. CASE i = Len(frames) + 1
      <4>1. frames'[i] = program.start[mode] + offset
        BY <1>5, <3>2
      <4>2. i > 1 => frames'[i - 1] = frames[Len(frames)] /\ frames # <<>>
        BY <1>5, <2>2, <3>2
      <4> QED BY <1>1, <1>4, <2>1, <4>1, <4>2 DEF FramesFollow
    <3> QED BY <1>5, <3>1, <3>2
  <2>4. program.start[mode] + offset'
           = Smaller(frames'[Len(frames')] + 1, program.stop[mode] - 1)
    <3>1. frames'[Len(frames')] = program.start[mode] + offset
      BY <1>5
    <3>2. program.start[mode] + Smaller(offset + 1, Size(mode) - 1)
             = Smaller(program.start[mode] + offset + 1, program.start[mode] + Size(mode) - 1)
      BY <1>4, <2>1, HeldFrame
    <3> QED BY <1>2, <1>4, <3>1, <3>2
  <2> QED BY <1>2, <2>3, <2>4 DEF FramesFollow
<1>7. LatchesAreFresh'
  <2>1. active \subseteq Outgoing
    BY <1>1 DEF LatchesAreFresh
  <2>2. active' = Latched(s)
    BY <1>2, <2>1
  <2>3. ASSUME NEW r \in Outgoing PROVE r \in active' <=> Armed(r)'
    <3>1. seen' = Append(seen, s) /\ seen \in Seq(SignalValues)
      BY <1>1, <1>2 DEF TypeOK, SignalValues
    <3>2. r.signal \in Signals /\ s[r.signal] \in Int
      BY <1>1, <1>2, OutgoingRules, OracleConstants DEF Admissible, SignalValues
    <3>3. r \in active <=> ArmedAt(r, seen)
      BY <1>1, ArmedMeaning DEF LatchesAreFresh
    <3>4. r \in active' <=> IF r \in active THEN Slack(r, s[r.signal]) ELSE Fresh(r, s[r.signal])
      <4>1. r \in active' <=> Evaluate(r, s[r.signal], r \in active)
        BY <2>2 DEF Latched
      <4> QED BY <4>1 DEF Slack, Fresh, Evaluate
    <3>5. ArmedAt(r, seen') <=> IF ArmedAt(r, seen) THEN Slack(r, s[r.signal])
                                                    ELSE Fresh(r, s[r.signal])
      BY <1>1, <3>1, <3>2, ArmedStep
    <3>6. Armed(r)' <=> ArmedAt(r, seen')
      BY <1>1, ArmedNext
    <3> QED BY <3>3, <3>4, <3>5, <3>6
  <2>4. active' \subseteq Outgoing
    BY <2>2 DEF Latched
  <2> QED BY <1>3, <2>3, <2>4 DEF LatchesAreFresh
<1>8. TypeOK'
  <2>1. active' \subseteq program.rules
    BY <1>1, <1>2 DEF TypeOK, Latched, Outgoing, Leaving
  <2>2. seen' \in Seq([Signals -> Readings \union {Invalid}])
    BY <1>1, <1>2, AppendProperties DEF TypeOK, SignalValues
  <2>3. offset' \in 0 .. Size(mode) - 1
    BY <1>1, <1>2, <1>4 DEF Smaller, TypeOK
  <2>4. program.maxQueries \in Nat
    BY <1>1, ValidLimits DEF Accepted
  <2>5. dwell' \in Nat /\ query' \in 0 .. program.maxQueries
    BY <1>1, <1>2, <2>4 DEF TypeOK
  <2> QED BY <1>1, <1>2, <1>3, <1>5, <2>1, <2>2, <2>3, <2>5 DEF TypeOK
<1>9. /\ dwell' = Len(frames')
      /\ program.kind[mode] # "terminal" => dwell' <= program.maxDwell[mode]
  <2>1. dwell = Len(frames) /\ dwell \in Nat
    BY <1>1 DEF IInv, TypeOK
  <2>2. program.kind[mode] # "terminal" => program.maxDwell[mode] \in Nat /\ program.maxDwell[mode] # None
    BY <1>1, ValidLimits, OracleConstants DEF Accepted
  <2> QED BY <1>2, <1>5, <2>1, <2>2 DEF Stalled
<1> QED BY <1>2, <1>3, <1>6, <1>7, <1>8, <1>9 DEF IInv

\* A transition starts the target's visit: one window, the entry frame, and no latch.
LEMMA SwitchKeeps ==
    ASSUME IInv, NEW s \in SignalValues, Switch(s)
    PROVE  /\ IInv'
           /\ program.kind[mode] = "recovery" => program.kind[mode'] = "task"
<1>1. TypeOK /\ Accepted /\ LatchesAreFresh
  BY DEF IInv, TypeOK, Accepted
<1> DEFINE r == Chosen(s)
           entry == EntryOffset(r, s)
<1>2. /\ program' = program /\ mode' = r.to /\ episode' = episode /\ outcome' = "window"
      /\ dwell' = 1 /\ query' = query + 1 /\ query < program.maxQueries
      /\ offset' = Smaller(entry + 1, Size(r.to) - 1)
      /\ frames' = <<FrameAt(r.to, entry)>>
      /\ active' = active \ Outgoing
      /\ seen' = <<>>
      /\ Admissible(s) /\ Matching(s) # {}
  BY DEF Switch, Queryable, EmitAt
<1>3. r \in Outgoing
  BY <1>1, <1>2, ChosenMatches
<1> HIDE DEF r
<1>4. /\ r \in program.rules /\ r.from = mode /\ r.to \in Modes
      /\ Size(r.to) \in Nat \ {0}
      /\ r.phase # None => s[r.phase] \in 0 .. Scale
  BY <1>1, <1>2, <1>3, OutgoingRules DEF Admissible
<1>5. entry \in 0 .. Size(r.to) - 1
  BY <1>1, <1>2, <1>3, <1>4, EntryInSpan
<1> HIDE DEF entry
<1>6. /\ Valid(program)' /\ Size(mode)' = Size(r.to)
      /\ program.start[r.to] \in Nat /\ program.stop[r.to] \in Nat
      /\ program.stop[r.to] = program.start[r.to] + Size(r.to)
  <2>1. Valid(program)'
    BY <1>2, AcceptedForGood DEF IInv
  <2>2. program.start[r.to] \in Nat /\ program.stop[r.to] \in Nat
    BY <1>1, <1>4, ValidLimits DEF Accepted
  <2> QED BY <1>2, <2>1, <2>2 DEF Size
<1>7. FrameAt(r.to, entry) = program.start[r.to] + entry
  BY <1>4, <1>5, <1>6 DEF FrameAt, Smaller
<1>8. /\ frames' \in Seq(Nat) /\ Len(frames') = 1 /\ frames' # <<>>
      /\ frames'[1] = program.start[r.to] + entry
  <2>1. program.start[r.to] + entry \in Nat
    BY <1>4, <1>5, <1>6
  <2> QED BY <1>2, <1>7, <2>1
<1>9. FramesFollow'
  <2>1. program.start[r.to] + offset' = Smaller(frames'[1] + 1, program.stop[r.to] - 1)
    <3>1. program.start[r.to] + Smaller(entry + 1, Size(r.to) - 1)
             = Smaller(program.start[r.to] + entry + 1, program.start[r.to] + Size(r.to) - 1)
      BY <1>4, <1>5, <1>6, HeldFrame
    <3>2. program.stop[r.to] - 1 = program.start[r.to] + Size(r.to) - 1
      BY <1>4, <1>6
    <3> QED BY <1>2, <1>8, <3>1, <3>2
  <2>2. frames'[1] \in program.start[r.to] .. program.stop[r.to] - 1
    BY <1>4, <1>5, <1>6, <1>8
  <2> QED BY <1>2, <1>8, <2>1, <2>2 DEF FramesFollow
<1>10. LatchesAreFresh' /\ active' = {}
  <2>1. active' = {}
    BY <1>1, <1>2 DEF LatchesAreFresh
  <2> QED BY <1>2, <2>1 DEF LatchesAreFresh, Armed
<1>11. TypeOK'
  <2>1. offset' \in 0 .. Size(r.to) - 1
    BY <1>2, <1>4, <1>5 DEF Smaller
  <2>2. program.maxQueries \in Nat
    BY <1>1, ValidLimits DEF Accepted
  <2>3. query' \in 0 .. program.maxQueries
    BY <1>1, <1>2, <2>2 DEF TypeOK
  <2>4. seen' \in Seq([Signals -> Readings \union {Invalid}])
    BY <1>2
  <2> QED BY <1>1, <1>2, <1>4, <1>6, <1>8, <1>10, <2>1, <2>3, <2>4 DEF TypeOK
<1>12. /\ dwell' = Len(frames')
       /\ program.kind[r.to] # "terminal" => dwell' <= program.maxDwell[r.to]
  BY <1>1, <1>2, <1>4, <1>8, ValidLimits DEF Accepted
<1>13. program.kind[mode] = "recovery" => program.kind[r.to] = "task"
  BY <1>1, <1>4, ValidLimits DEF Accepted
<1> QED BY <1>2, <1>6, <1>9, <1>10, <1>11, <1>12, <1>13 DEF IInv

\* The first state of an episode, whichever it is.
AtStart ==
    /\ program \in Programs /\ Valid(program)
    /\ mode = program.entry
    /\ dwell = 0 /\ offset = 0 /\ query = 0
    /\ active = {}
    /\ outcome = "none"
    /\ episode \in 0 .. MaxEpisodes
    /\ seen = <<>> /\ frames = <<>>

LEMMA EpisodeStarts == AtStart => IInv
<1> SUFFICES ASSUME AtStart PROVE IInv
  OBVIOUS
<1>1. Accepted /\ program.maxQueries \in Nat
  BY ValidLimits DEF AtStart, Accepted
<1>2. Size(mode) \in Nat \ {0}
  BY <1>1, SizePositive
<1>3. TypeOK
  BY <1>1, <1>2 DEF AtStart, TypeOK, Accepted
<1>4. program.kind[mode] # "terminal" => 0 <= program.maxDwell[mode]
  BY <1>1, ValidLimits DEF Accepted
<1>5. LatchesAreFresh
  BY DEF AtStart, LatchesAreFresh, Armed
<1> QED BY <1>3, <1>4, <1>5 DEF AtStart, IInv, FramesFollow

\* A reset starts an episode of the same program.
LEMMA ResetKeeps == ASSUME IInv, Reset PROVE IInv'
<1>1. program' = program /\ Valid(program)'
  BY AcceptedForGood DEF Reset, IInv
<1>2. AtStart'
  BY <1>1, OracleConstants DEF Reset, AtStart, IInv, TypeOK
<1> QED BY <1>2, EpisodeStarts, PTL

\* Every reachable state: the program was accepted, the visit so far follows the
\* span within the limit, and the latches are those of the visit's readings.
LEMMA Invariance == Spec => []IInv
<1>1. Init => IInv
  <2>1. Init => AtStart
    BY OracleConstants DEF Init, AtStart
  <2> QED BY <2>1, EpisodeStarts
<1>2. ASSUME IInv, [Next]_vars PROVE IInv'
  <2>1. CASE OverBudget
    BY <1>2, <2>1, StandsStill DEF OverBudget, Raise, state, history
  <2>2. ASSUME NEW s \in SignalValues, RefuseSignals(s) \/ Stall(s) PROVE IInv'
    BY <1>2, <2>2, StandsStill DEF RefuseSignals, Stall, Raise, state, history
  <2>3. ASSUME NEW s \in SignalValues, Continue(s) PROVE IInv'
    BY <1>2, <2>3, ContinueKeeps
  <2>4. ASSUME NEW s \in SignalValues, Switch(s) PROVE IInv'
    BY <1>2, <2>4, SwitchKeeps
  <2>5. CASE Reset
    BY <1>2, <2>5, ResetKeeps
  <2>6. CASE UNCHANGED vars
    <3>1. outcome' \in {"none", "window", "raised"}
      BY <1>2, <2>6 DEF vars, IInv, TypeOK
    <3> QED BY <1>2, <2>6, <3>1, StandsStill DEF vars
  <2> QED BY <1>2, <2>1, <2>2, <2>3, <2>4, <2>5, <2>6 DEF Next, Query, SignalValues
<1> QED BY <1>1, <1>2, PTL DEF Spec

-----------------------------------------------------------------------------
(* Theorems                                                                *)

\* Every variable keeps its type in every reachable state: the offset never
\* leaves the span of the mode, nor the query index the program's budget.
THEOREM TypeCorrect == Spec => []TypeOK
<1>1. IInv => TypeOK
  BY DEF IInv
<1> QED BY <1>1, Invariance, PTL

\* In every reachable state of every accepted program the latches are those of
\* Schmitt triggers that start with the visit: none survives a transition, a
\* reset or a failed query.
THEOREM LatchesFresh == Spec => []LatchesAreFresh
<1>1. IInv => LatchesAreFresh
  BY DEF IInv
<1> QED BY <1>1, Invariance, PTL

\* No visit of a mode that is not terminal outlasts max_dwell_steps, and its
\* windows are consecutive frames of the span, the last one held.
THEOREM VisitsBounded == Spec => []VisitBounded
<1>1. IInv => VisitBounded
  BY DEF IInv, VisitBounded, FramesFollow
<1> QED BY <1>1, Invariance, PTL

\* Half-up rounding over the intervals of the span picks the nearest frame,
\* whatever the scale, the phase and the lengths of the spans.
THEOREM EntriesNearest == Spec => []EntryIsNearest
<1>1. IInv => EntryIsNearest
  BY AcceptedEntryIsNearest DEF IInv, TypeOK, Accepted
<1> QED BY <1>1, Invariance, PTL

\* In every accepted program a recovery that is left leads to a task.
THEOREM RecoveriesRejoin == Spec => RecoveryRejoins
<1> DEFINE Rejoins == program.kind[mode] = "recovery" /\ mode' # mode /\ episode' = episode
                        => program.kind[mode'] = "task"
<1>1. ASSUME IInv, [Next]_vars PROVE [Rejoins]_vars
  <2>1. ASSUME NEW s \in SignalValues, Switch(s) PROVE Rejoins
    BY <1>1, <2>1, SwitchKeeps
  <2>2. CASE Reset
    <3>1. episode' # episode
      BY <1>1, <2>2 DEF Reset, IInv, TypeOK
    <3> QED BY <3>1
  <2>3. ASSUME NEW s \in SignalValues, Continue(s) \/ RefuseSignals(s) \/ Stall(s) PROVE Rejoins
    BY <2>3 DEF Continue, EmitAt, RefuseSignals, Stall, Raise, state
  <2>4. CASE OverBudget
    BY <2>4 DEF OverBudget, Raise, state
  <2>5. CASE UNCHANGED vars
    BY <2>5
  <2> HIDE DEF Rejoins
  <2> QED BY <1>1, <2>1, <2>2, <2>3, <2>4, <2>5 DEF Next, Query, SignalValues
<1> QED BY <1>1, Invariance, PTL DEF Spec, RecoveryRejoins

=============================================================================
