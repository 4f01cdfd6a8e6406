-------------------------- MODULE ResourceSlotProofs --------------------------
(***************************************************************************)
(* Proofs about ResourceSlot, for any set of processes, any reservations   *)
(* and any bounds: the type invariant, then the inductive invariant IInv   *)
(* and what follows from it.                                               *)
(*                                                                         *)
(* The argument is the one the module's authors make in prose.  The flock  *)
(* makes the guarded region exclusive (GuardRegion), so nothing a guarded  *)
(* call has read can change before it acts on it (FreshReads), so reserve  *)
(* links only into an empty slot and release unlinks only the token it     *)
(* compared (SafeToPublish).  Token ids are never generated twice          *)
(* (FreshTokens), so a released token cannot come back.                    *)
(***************************************************************************)
EXTENDS ResourceSlot, TLAPS

\* The calls that take the guard.
Locker(c) == c \in ReserveCall \/ c \in ReleaseCall

\* Exactly the holder of the guard is between flock and its release.
GuardRegion ==
    \A p \in Procs :
      guard = p <=> \/ pc[p] \in Guarded
                    \/ pc[p] \in {"open", "verify"} /\ Locker(call[p])

\* What a guarded call has read of the slot is still so.
FreshReads ==
    \A p \in Procs :
      /\ pc[p] = "verify" /\ guard = p => /\ slot = fd[p]
                                          /\ ctime[fd[p].id] = stat[p]
      /\ pc[p] = "unlink" => slot = fd[p] /\ Matches(call[p], fd[p])

\* A call that is about to link has seen the slot empty and its token whole;
\* one that has linked finds its own token there.
SafeToPublish ==
    \A p \in Procs :
      /\ pc[p] \in {"mktemp", "write", "link"} => slot = None
      /\ pc[p] = "link" => call[p].tok.id \in written
      /\ pc[p] = "drop" => slot = call[p].tok /\ outcome[p] = "reserved"
      /\ pc[p] = "guard" => outcome[p] = "running"
      /\ guard = p => outcome[p] \in {"running", "reserved"}

\* Ids that were generated are accounted for once.
FreshTokens ==
    /\ slot # None => slot.id <= minted
    /\ \A t \in released : t.id <= minted
    /\ \A p \in Procs : call[p] \in ReserveCall =>
         /\ call[p].tok.id <= minted
         /\ \A t \in released : t.id # call[p].tok.id
         /\ pc[p] # "drop" => slot = None \/ slot.id # call[p].tok.id
         /\ \A q \in Procs : q # p /\ call[q] \in ReserveCall =>
              call[q].tok.id # call[p].tok.id

IInv == /\ TypeOK
        /\ GuardRegion
        /\ FreshReads
        /\ SafeToPublish
        /\ FreshTokens
        /\ PublishedComplete
        /\ ReservationSurvives
-----------------------------------------------------------------------------
(* Types                                                                   *)

\* The shapes of the three kinds of call.
LEMMA CallShapes ==
  /\ \A c \in ReserveCall : /\ c.kind = "reserve" /\ c.tok \in Token
                            /\ c \notin ReleaseCall /\ c \notin ReadCall
  /\ \A c \in ReleaseCall : /\ c.kind = "release" /\ c \notin ReserveCall
                            /\ c \notin ReadCall
  /\ \A c \in ReadCall : c.kind = "read"
  /\ \A t \in Token : t.id \in TokenIds /\ t.id \in Nat
  /\ None \notin ReserveCall /\ None \notin ReleaseCall /\ None \notin Token
BY SlotConstants DEF ReserveCall, ReleaseCall, ReadCall, Calls, Token, TokenIds

\* Every step keeps every variable in its type.
THEOREM TypeCorrect == Spec => []TypeOK
<1>1. Init => TypeOK
  BY SlotConstants DEF Init, TypeOK, Locations, Outcomes, Guarded, Publishing
<1>2. TypeOK /\ [Next]_vars => TypeOK'
  <2> SUFFICES ASSUME TypeOK, [Next]_vars PROVE TypeOK'
    OBVIOUS
  <2> USE SlotConstants DEF TypeOK, Calls, Locations, Outcomes, Guarded, Publishing,
          files, history, Goto
  <2>1. CASE Tick
    BY <2>1 DEF Tick
  <2>2. ASSUME NEW p \in Procs, NEW r \in Reservations, BeginReserve(p, r)
        PROVE  TypeOK'
    BY <2>2 DEF BeginReserve, Start, Token, TokenIds, ReserveCall, ReadCall
  <2>3. ASSUME NEW p \in Procs, NEW r \in Reservations, BeginRead(p, r)
        PROVE  TypeOK'
    BY <2>3 DEF BeginRead, Start, ReadCall
  <2>4. ASSUME NEW p \in Procs, NEW o \in Owners, NEW i \in TokenIds,
               BeginRelease(p, o, i)
        PROVE  TypeOK'
    BY <2>4 DEF BeginRelease, Start, ReleaseCall, ReadCall
  <2>5. ASSUME NEW p \in Procs, Step(p) PROVE TypeOK'
    <3>1. CASE AcquireGuard(p)
      BY <3>1 DEF AcquireGuard, AfterGuard, ReserveCall, ReleaseCall, ReadCall
    <3>2. CASE RecheckExpiry(p)
      BY <3>2 DEF RecheckExpiry, Return
    <3>3. CASE OpenSlot(p)
      BY <3>3, CallShapes DEF OpenSlot, Return
    <3>4. CASE VerifySlot(p)
      BY <3>4, CallShapes DEF VerifySlot, Return
    <3>5. CASE JudgeToken(p)
      BY <3>5 DEF JudgeToken, Return
    <3>6. CASE MakeTemp(p)
      BY <3>6 DEF MakeTemp, ReserveCall, Token
    <3>7. CASE WriteTemp(p)
      BY <3>7 DEF WriteTemp, ReserveCall, Token
    <3>8. CASE LinkToken(p)
      BY <3>8 DEF LinkToken, TouchInode, ReserveCall, Token
    <3>9. CASE DropTemp(p)
      BY <3>9 DEF DropTemp, TouchInode, Return, ReserveCall, Token
    <3>10. CASE UnlinkSlot(p)
      BY <3>10 DEF UnlinkSlot, TouchInode, Return, Token
    <3> QED BY <2>5, <3>1, <3>2, <3>3, <3>4, <3>5, <3>6, <3>7, <3>8, <3>9,
               <3>10 DEF Step
  <2>6. ASSUME NEW p \in Procs, Crash(p) PROVE TypeOK'
    BY <2>6 DEF Crash, Return
  <2>7. CASE UNCHANGED vars
    BY <2>7 DEF vars
  <2> QED BY <2>1, <2>2, <2>3, <2>4, <2>5, <2>6, <2>7 DEF Next, Begin
<1> QED BY <1>1, <1>2, PTL DEF Spec

-----------------------------------------------------------------------------
(* The inductive invariant                                                 *)

\* The steps that change the slot, and those that only look at it or the clock.
Changes(p) == LinkToken(p) \/ UnlinkSlot(p)
Reads(p) == RecheckExpiry(p) \/ OpenSlot(p) \/ VerifySlot(p) \/ JudgeToken(p)

\* Only a link and an unlink change the slot or what was released, and a process
\* leaves the others where they are.
LEMMA OneMoves ==
  ASSUME TypeOK, NEW p \in Procs, Begin(p) \/ Step(p) \/ Crash(p)
  PROVE  /\ \A q \in Procs \ {p} : /\ pc'[q] = pc[q] /\ call'[q] = call[q] /\ fd'[q] = fd[q]
                                    /\ stat'[q] = stat[q] /\ outcome'[q] = outcome[q]
         /\ ~Changes(p) => UNCHANGED <<slot, released>>
         /\ written \subseteq written'
<1> USE DEF TypeOK, Goto, files, history
<1>1. CASE Begin(p)
  BY <1>1 DEF Begin, BeginReserve, BeginRead, BeginRelease, Start
<1>2. CASE AcquireGuard(p) \/ Reads(p)
  BY <1>2 DEF AcquireGuard, Reads, RecheckExpiry, OpenSlot, VerifySlot, JudgeToken, Return
<1>3. CASE MakeTemp(p) \/ WriteTemp(p) \/ LinkToken(p)
  BY <1>3 DEF MakeTemp, WriteTemp, LinkToken, Changes
<1>4. CASE DropTemp(p) \/ UnlinkSlot(p) \/ Crash(p)
  BY <1>4 DEF DropTemp, UnlinkSlot, Crash, Return, Changes
<1> QED BY <1>1, <1>2, <1>3, <1>4 DEF Step, Reads

\* The flock is exclusive, and every way out of a call gives it back.
LEMMA RegionKept ==
  ASSUME TypeOK, GuardRegion, NEW p \in Procs, Begin(p) \/ Step(p) \/ Crash(p)
  PROVE  GuardRegion'
<1> USE CallShapes DEF TypeOK, GuardRegion, Goto, Locker, Guarded, Publishing
<1>1. None \notin Procs
  BY SlotConstants
<1>2. CASE Begin(p)
  BY <1>2 DEF Begin, BeginReserve, BeginRead, BeginRelease, Start, ReadCall
<1>3. CASE AcquireGuard(p)
  BY <1>1, <1>3 DEF AcquireGuard, AfterGuard, Calls
<1>4. CASE RecheckExpiry(p) \/ OpenSlot(p)
  BY <1>1, <1>4 DEF RecheckExpiry, OpenSlot, Return, Calls
<1>5. CASE VerifySlot(p) \/ JudgeToken(p)
  BY <1>1, <1>5 DEF VerifySlot, JudgeToken, Return, Calls
<1>6. CASE MakeTemp(p) \/ WriteTemp(p) \/ LinkToken(p)
  BY <1>6 DEF MakeTemp, WriteTemp, LinkToken
<1>7. CASE DropTemp(p) \/ UnlinkSlot(p) \/ Crash(p)
  BY <1>1, <1>7 DEF DropTemp, UnlinkSlot, Crash, Return
<1> QED BY <1>2, <1>3, <1>4, <1>5, <1>6, <1>7 DEF Step

\* A slot changes, and its token's metadata moves, only under the guard: what
\* its holder has read is still so.
LEMMA ReadsKept ==
  ASSUME TypeOK, GuardRegion, FreshReads, SafeToPublish, FreshTokens,
         NEW p \in Procs, Begin(p) \/ Step(p) \/ Crash(p), GuardRegion'
  PROVE  FreshReads'
<1>1. \A q \in Procs \ {p} : /\ pc'[q] = pc[q] /\ call'[q] = call[q] /\ fd'[q] = fd[q]
                             /\ stat'[q] = stat[q] /\ outcome'[q] = outcome[q]
  BY OneMoves
<1> USE DEF TypeOK, FreshReads, Goto, files, Guarded, Publishing
<1>2. CASE Begin(p)
  BY <1>1, <1>2 DEF Begin, BeginReserve, BeginRead, BeginRelease, Start
<1>3. CASE AcquireGuard(p)
  BY <1>1, <1>3, SlotConstants DEF AcquireGuard, AfterGuard, GuardRegion
<1>4. CASE Reads(p)
  <2>1. UNCHANGED <<slot, ctime>>
    BY <1>4 DEF Reads, RecheckExpiry, OpenSlot, VerifySlot, JudgeToken
  <2>2. ASSUME NEW q \in Procs, q # p, guard' = q PROVE guard = q
    BY <1>4, <2>2, SlotConstants
    DEF Reads, RecheckExpiry, OpenSlot, VerifySlot, JudgeToken, Return
  <2>3. /\ pc'[p] = "verify" => slot = fd'[p] /\ ctime[fd'[p].id] = stat'[p]
        /\ pc'[p] = "unlink" => slot = fd'[p] /\ Matches(call'[p], fd'[p])
    BY <1>4 DEF Reads, RecheckExpiry, OpenSlot, VerifySlot, JudgeToken, Return, Suspect
  <2> QED BY <1>1, <2>1, <2>2, <2>3 DEF Matches, TokenOwner
<1>5. CASE MakeTemp(p) \/ WriteTemp(p)
  BY <1>1, <1>5 DEF MakeTemp, WriteTemp, Matches, TokenOwner
<1>6. CASE LinkToken(p) \/ DropTemp(p) \/ UnlinkSlot(p)
  <2>1. guard = p /\ pc'[p] \in {"drop", "idle"}
    BY <1>6 DEF LinkToken, DropTemp, UnlinkSlot, Return, GuardRegion
  <2>2. \A q \in Procs \ {p} : pc[q] # "unlink" /\ guard' # q
    BY <1>6, <2>1, SlotConstants DEF LinkToken, DropTemp, UnlinkSlot, Return, GuardRegion
  <2> QED BY <1>1, <2>1, <2>2
<1>7. CASE Crash(p)
  <2>1. /\ UNCHANGED <<slot, ctime>> /\ pc'[p] = "idle"
        /\ \A q \in Procs \ {p} : guard' = q => guard = q
    BY <1>7, SlotConstants DEF Crash, Return
  <2> QED BY <1>1, <2>1 DEF Matches, TokenOwner
<1> QED BY <1>2, <1>3, <1>4, <1>5, <1>6, <1>7 DEF Step, Reads

\* Nobody links, or has linked, but the one who found the slot empty.
LEMMA PublishingKept ==
  ASSUME TypeOK, GuardRegion, SafeToPublish,
         NEW p \in Procs, Begin(p) \/ Step(p) \/ Crash(p)
  PROVE  SafeToPublish'
<1>1. /\ \A q \in Procs \ {p} : /\ pc'[q] = pc[q] /\ call'[q] = call[q]
                               /\ outcome'[q] = outcome[q]
      /\ ~Changes(p) => UNCHANGED slot
      /\ written \subseteq written'
  BY OneMoves
<1> USE DEF TypeOK, SafeToPublish, Goto, files, Guarded, Publishing
<1>2. CASE Begin(p)
  BY <1>1, <1>2, SlotConstants
  DEF Begin, BeginReserve, BeginRead, BeginRelease, Start, Changes, LinkToken, UnlinkSlot,
      GuardRegion, Locker
<1>3. CASE AcquireGuard(p)
  BY <1>1, <1>3, SlotConstants DEF AcquireGuard, AfterGuard
<1>4. CASE Reads(p)
  <2>1. UNCHANGED <<slot, written>>
    BY <1>4 DEF Reads, RecheckExpiry, OpenSlot, VerifySlot, JudgeToken
  <2>2. \A q \in Procs \ {p} : guard' = q => guard = q
    BY <1>4, SlotConstants DEF Reads, RecheckExpiry, OpenSlot, VerifySlot, JudgeToken, Return
  <2>3. /\ pc'[p] = "mktemp" => slot = None
        /\ pc'[p] \notin {"write", "link", "drop", "guard"}
        /\ guard' = p => outcome'[p] = outcome[p]
    BY <1>4, SlotConstants
    DEF Reads, RecheckExpiry, OpenSlot, VerifySlot, JudgeToken, Return
  <2>4. guard' = p => guard = p
    BY <1>4, SlotConstants DEF Reads, RecheckExpiry, OpenSlot, VerifySlot, JudgeToken, Return
  <2> QED BY <1>1, <2>1, <2>2, <2>3, <2>4
<1>5. CASE MakeTemp(p) \/ WriteTemp(p)
  BY <1>1, <1>5 DEF MakeTemp, WriteTemp
<1>6. CASE LinkToken(p)
  <2>1. guard = p /\ guard' = p /\ slot = None
    BY <1>6 DEF LinkToken, GuardRegion
  <2>2. pc'[p] = "drop" /\ slot' = call'[p].tok /\ outcome'[p] = "reserved"
    BY <1>6, <2>1 DEF LinkToken
  <2>3. \A q \in Procs \ {p} : pc[q] \notin Publishing
    BY <2>1 DEF GuardRegion
  <2> QED BY <1>1, <2>1, <2>2, <2>3
<1>7. CASE DropTemp(p) \/ Crash(p)
  <2>1. UNCHANGED <<slot, written>> /\ pc'[p] = "idle" /\ guard' # p
    BY <1>7, SlotConstants DEF DropTemp, Crash, Return
  <2>2. \A q \in Procs \ {p} : guard' = q => guard = q
    BY <1>7, SlotConstants DEF DropTemp, Crash, Return
  <2> QED BY <1>1, <2>1, <2>2
<1>8. CASE UnlinkSlot(p)
  <2>1. guard = p /\ guard' = None /\ pc'[p] = "idle"
    BY <1>8 DEF UnlinkSlot, Return, GuardRegion
  <2>2. \A q \in Procs \ {p} : pc[q] \notin Publishing
    BY <2>1 DEF GuardRegion
  <2> QED BY <1>1, <2>1, <2>2, SlotConstants
<1> QED BY <1>2, <1>3, <1>4, <1>5, <1>6, <1>7, <1>8 DEF Step, Reads

\* A token is generated for one call, linked once and released once.
LEMMA TokensKept ==
  ASSUME TypeOK, GuardRegion, FreshReads, FreshTokens,
         NEW p \in Procs, Begin(p) \/ Step(p) \/ Crash(p)
  PROVE  FreshTokens'
<1>1. /\ \A q \in Procs \ {p} : pc'[q] = pc[q] /\ call'[q] = call[q]
      /\ ~Changes(p) => UNCHANGED <<slot, released>>
  BY OneMoves
<1> USE CallShapes DEF TypeOK, FreshTokens, Goto
<1>2. ASSUME NEW r \in Reservations, BeginReserve(p, r) PROVE FreshTokens'
  <2>1. /\ minted' = minted + 1 /\ UNCHANGED <<slot, released>>
        /\ call'[p].tok.id = minted + 1
    BY <1>2 DEF BeginReserve, Start, files, history
  <2>2. \A q \in Procs \ {p} : call[q] \in ReserveCall => call[q].tok.id <= minted
    BY <1>1
  <2>3. \A t \in Token : t.id <= minted => t.id # minted + 1 /\ t.id <= minted + 1
    OBVIOUS
  <2> QED BY <1>1, <2>1, <2>2, <2>3
<1>3. ASSUME Begin(p), minted' = minted PROVE FreshTokens'
  <2>1. call'[p] \notin ReserveCall /\ UNCHANGED <<slot, released>>
    BY <1>3 DEF Begin, BeginReserve, BeginRead, BeginRelease, Start, files, history, ReserveCall
  <2> QED BY <1>1, <1>3, <2>1
<1>4. CASE AcquireGuard(p) \/ Reads(p) \/ MakeTemp(p) \/ WriteTemp(p)
  <2>1. UNCHANGED <<slot, released, minted>> /\ call'[p] \in {call[p], None} /\ pc'[p] # "drop"
    BY <1>4 DEF AcquireGuard, AfterGuard, Reads, RecheckExpiry, OpenSlot, VerifySlot, JudgeToken,
                MakeTemp, WriteTemp, Return, files, history
  <2>2. pc[p] # "drop"
    BY <1>4 DEF AcquireGuard, Reads, RecheckExpiry, OpenSlot, VerifySlot, JudgeToken, MakeTemp,
                WriteTemp
  <2> QED BY <1>1, <2>1, <2>2
<1>5. CASE LinkToken(p)
  <2>1. /\ slot' \in {slot, call[p].tok} /\ UNCHANGED <<released, minted, call>>
        /\ pc'[p] = "drop" /\ call[p] \in ReserveCall
    BY <1>5 DEF LinkToken, history, Publishing
  <2> QED BY <1>1, <2>1
<1>6. CASE DropTemp(p) \/ Crash(p)
  <2>1. UNCHANGED <<slot, released, minted>> /\ call'[p] = None
    BY <1>6 DEF DropTemp, Crash, Return, files, history
  <2> QED BY <1>1, <2>1
<1>7. CASE UnlinkSlot(p)
  <2>1. /\ slot = fd[p] /\ slot' = None /\ slot # None /\ UNCHANGED minted
        /\ released' = released \union {slot} /\ call'[p] = None
    BY <1>7 DEF UnlinkSlot, Return, FreshReads
  <2>2. \A q \in Procs \ {p} : pc[q] # "drop"
    BY <1>7 DEF UnlinkSlot, GuardRegion, Guarded, Publishing
  <2> QED BY <1>1, <2>1, <2>2
<1> QED BY <1>2, <1>3, <1>4, <1>5, <1>6, <1>7 DEF Step, Reads, Begin, BeginRead, BeginRelease

\* What is linked was written, and what was written stays.
LEMMA CompleteKept ==
  ASSUME TypeOK, SafeToPublish, PublishedComplete,
         NEW p \in Procs, Begin(p) \/ Step(p) \/ Crash(p)
  PROVE  PublishedComplete'
<1>1. (~Changes(p) => UNCHANGED slot) /\ written \subseteq written'
  BY OneMoves
<1>2. CASE LinkToken(p)
  BY <1>1, <1>2 DEF LinkToken, SafeToPublish, PublishedComplete, TypeOK
<1>3. CASE ~LinkToken(p)
  BY <1>1, <1>3 DEF Changes, UnlinkSlot, PublishedComplete
<1> QED BY <1>2, <1>3

\* A returned token is in the slot it was linked into, which nobody but its own
\* release empties.
LEMMA SurvivalKept ==
  ASSUME TypeOK, GuardRegion, FreshReads, SafeToPublish, ReservationSurvives,
         NEW p \in Procs, Begin(p) \/ Step(p) \/ Crash(p)
  PROVE  ReservationSurvives'
<1>1. CASE LinkToken(p)
  <2>1. slot = None /\ UNCHANGED <<returned, released>>
    BY <1>1 DEF LinkToken, SafeToPublish, history
  <2>2. returned \ released = {}
    BY <2>1, CallShapes DEF ReservationSurvives, TypeOK
  <2> QED BY <2>1, <2>2 DEF ReservationSurvives
<1>2. CASE DropTemp(p)
  <2>1. returned' \subseteq returned \union {slot} /\ UNCHANGED <<slot, released>>
    BY <1>2 DEF DropTemp, SafeToPublish, TypeOK
  <2> QED BY <2>1 DEF ReservationSurvives
<1>3. CASE UnlinkSlot(p)
  <2>1. released' = released \union {slot} /\ UNCHANGED returned
    BY <1>3 DEF UnlinkSlot, FreshReads
  <2> QED BY <2>1 DEF ReservationSurvives
<1>4. CASE ~Changes(p) /\ ~DropTemp(p)
  <2>1. UNCHANGED <<slot, released>>
    BY <1>4, OneMoves
  <2>2. UNCHANGED returned
    BY <1>4 DEF Changes, Begin, BeginReserve, BeginRead, BeginRelease, Start, Step, AcquireGuard,
                RecheckExpiry, OpenSlot, VerifySlot, JudgeToken, MakeTemp, WriteTemp, Crash, history
  <2> QED BY <2>1, <2>2 DEF ReservationSurvives
<1> QED BY <1>1, <1>2, <1>3, <1>4 DEF Changes

\* Time passes and nothing else.
LEMMA IdleKept ==
  ASSUME IInv, TypeOK', Tick \/ UNCHANGED vars
  PROVE  IInv'
<1>1. UNCHANGED <<slot, guard, written, ctime, minted, pc, call, fd, stat, outcome, returned,
                  released>>
  BY DEF Tick, vars, files, history
<1> QED BY <1>1 DEF IInv, GuardRegion, FreshReads, Matches, TokenOwner, SafeToPublish, FreshTokens,
                    PublishedComplete, ReservationSurvives

\* Every step keeps the protocol invariant, given the types on both sides.
LEMMA InvStep ==
  ASSUME IInv, TypeOK', [Next]_vars PROVE IInv'
<1>1. ASSUME NEW p \in Procs, Begin(p) \/ Step(p) \/ Crash(p) PROVE IInv'
  <2>1. GuardRegion'
    BY <1>1, RegionKept DEF IInv
  <2>2. FreshReads' /\ SafeToPublish'
    BY <1>1, <2>1, ReadsKept, PublishingKept DEF IInv
  <2>3. FreshTokens'
    BY <1>1, TokensKept DEF IInv
  <2>4. PublishedComplete' /\ ReservationSurvives'
    BY <1>1, CompleteKept, SurvivalKept DEF IInv
  <2> QED BY <2>1, <2>2, <2>3, <2>4 DEF IInv
<1> QED BY <1>1, IdleKept DEF Next

\* The invariant holds in every reachable state.
THEOREM Invariance == Spec => []IInv
<1>1. Init => IInv
  BY SlotConstants
  DEF Init, IInv, TypeOK, Locations, Outcomes, Guarded, Publishing, GuardRegion,
      FreshReads, SafeToPublish, FreshTokens, PublishedComplete,
      ReservationSurvives, Locker, ReserveCall, ReleaseCall, Calls
<1>2. IInv /\ TypeOK' /\ [Next]_vars => IInv'
  BY InvStep
<1> QED BY <1>1, <1>2, TypeCorrect, PTL DEF Spec

-----------------------------------------------------------------------------
(* What follows from it                                                    *)

\* reserve_slot's promise: the token it returned is in the slot until it is
\* released itself.
THEOREM ReservationsSurvive == Spec => []ReservationSurvives
BY Invariance, PTL DEF IInv

\* _publish_token's promise: the slot never names an incomplete token.
THEOREM PublishedTokensComplete == Spec => []PublishedComplete
BY Invariance, PTL DEF IInv

\* release_slot's promise: only the exact owner and id take a token out.
THEOREM ReleasesExact == Spec => ExactRelease
<1> DEFINE A == \A t \in Token :
                  slot = t /\ slot' # t =>
                    /\ slot' = None
                    /\ \E p \in Procs : /\ guard = p
                                        /\ pc[p] = "unlink"
                                        /\ call[p].owner = TokenOwner(t)
                                        /\ call[p].id = t.id
<1>1. IInv /\ [Next]_vars => A
  <2> SUFFICES ASSUME IInv, [Next]_vars, NEW t \in Token, slot = t, slot' # t
               PROVE  /\ slot' = None
                      /\ \E p \in Procs : /\ guard = p
                                          /\ pc[p] = "unlink"
                                          /\ call[p].owner = TokenOwner(t)
                                          /\ call[p].id = t.id
    OBVIOUS
  <2>1. PICK p \in Procs : LinkToken(p) \/ UnlinkSlot(p)
    BY DEF Next, Begin, Step, Tick, BeginReserve, BeginRead, BeginRelease,
           Start, AcquireGuard, RecheckExpiry, OpenSlot, VerifySlot,
           JudgeToken, MakeTemp, WriteTemp, DropTemp, Crash, files, vars
  <2>2. ~LinkToken(p)
    BY CallShapes DEF LinkToken
  <2>3. UnlinkSlot(p)
    BY <2>1, <2>2
  <2> QED BY <2>3 DEF UnlinkSlot, IInv, GuardRegion, FreshReads, Guarded, Matches
<1>2. IInv /\ [Next]_vars => [A]_vars
  BY <1>1
<1> QED BY <1>2, Invariance, PTL DEF Spec, ExactRelease

\* A caller that holds the guard never sees the slot change under it.
THEOREM GuardedReadsAreStable == Spec => GuardedReadsStable
<1> DEFINE A == \A p \in Procs : guard = p => outcome'[p] # "malformed"
<1>1. IInv /\ [Next]_vars => A
  <2> SUFFICES ASSUME IInv, [Next]_vars, NEW p \in Procs, guard = p
               PROVE  outcome'[p] # "malformed"
    OBVIOUS
  <2> USE DEF IInv, TypeOK
  <2>1. outcome[p] # "malformed"
    BY DEF SafeToPublish
  <2>2. ASSUME VerifySlot(p) PROVE outcome'[p] # "malformed"
    <3>1. ~Suspect(p)
      BY <2>2, CallShapes
      DEF VerifySlot, Suspect, FreshReads, PublishedComplete
    <3> QED BY <2>1, <2>2, <3>1 DEF VerifySlot, Return, Goto
  <2>3. ASSUME NEW q \in Procs, q # p, VerifySlot(q)
        PROVE  outcome'[p] = outcome[p]
    BY <2>3 DEF VerifySlot, Return, Goto
  <2>4. ASSUME NEW q \in Procs, Begin(q) \/ Crash(q) PROVE outcome'[p] # "malformed"
    BY <2>1, <2>4 DEF Begin, BeginReserve, BeginRead, BeginRelease, Start, Crash, Return
  <2>5. ASSUME NEW q \in Procs, Step(q), ~VerifySlot(q)
        PROVE  outcome'[p] # "malformed"
    BY <2>1, <2>5, SMTT(30)
    DEF Step, AcquireGuard, RecheckExpiry, OpenSlot, JudgeToken, MakeTemp,
        WriteTemp, LinkToken, DropTemp, UnlinkSlot, Return, SafeToPublish
  <2>6. CASE Tick \/ UNCHANGED vars
    BY <2>1, <2>6 DEF Tick, vars
  <2> QED BY <2>1, <2>2, <2>3, <2>4, <2>5, <2>6 DEF Next
<1>2. IInv /\ [Next]_vars => [A]_vars
  BY <1>1
<1> QED BY <1>2, Invariance, PTL DEF Spec, GuardedReadsStable

\* A step that leaves the slot alone opens at most what the slot names now.
LEMMA OpensWhatIsThere ==
  ASSUME TypeOK, NEW p \in Procs, Begin(p) \/ Step(p) \/ Crash(p)
  PROVE  fd'[p] \in {fd[p], None} \/ (fd'[p] = slot /\ ~Changes(p))
<1> USE DEF TypeOK
<1>1. CASE OpenSlot(p)
  BY <1>1 DEF OpenSlot, Return, Changes, LinkToken, UnlinkSlot
<1> QED BY <1>1
        DEF Begin, BeginReserve, BeginRead, BeginRelease, Start, Step, AcquireGuard, RecheckExpiry,
            VerifySlot, JudgeToken, MakeTemp, WriteTemp, LinkToken, DropTemp, UnlinkSlot, Crash,
            Return

\* A token that was read stays until it is released, read with the guard or
\* without: reserve links only into an empty slot, and a release records the
\* very token its unlink takes.
THEOREM ReadTokensStay == Spec => []ReadTokensHeld
<1>1. Init => ReadTokensHeld
  BY DEF Init, ReadTokensHeld
<1>2. IInv /\ ReadTokensHeld /\ [Next]_vars => ReadTokensHeld'
  <2> SUFFICES ASSUME IInv, ReadTokensHeld, [Next]_vars, NEW p \in Procs, fd'[p] # None
               PROVE  slot' = fd'[p] \/ fd'[p] \in released'
    BY DEF ReadTokensHeld
  <2>1. TypeOK /\ FreshReads /\ SafeToPublish
    BY DEF IInv
  <2>2. CASE Tick \/ UNCHANGED vars
    BY <2>2 DEF Tick, vars, files, history, ReadTokensHeld
  <2>3. ASSUME NEW q \in Procs, Begin(q) \/ Step(q) \/ Crash(q)
        PROVE  slot' = fd'[p] \/ fd'[p] \in released'
    <3>1. fd'[p] = fd[p] \/ (fd'[p] = slot /\ ~Changes(q))
      BY <2>1, <2>3, OneMoves, OpensWhatIsThere
    <3>2. CASE LinkToken(q)
      <4>1. slot = None /\ released' = released
        BY <2>1, <3>2 DEF SafeToPublish, LinkToken, history
      <4> QED BY <3>1, <3>2, <4>1 DEF Changes, ReadTokensHeld
    <3>3. CASE UnlinkSlot(q)
      <4>1. slot = fd[q] /\ released' = released \union {fd[q]}
        BY <2>1, <3>3 DEF FreshReads, UnlinkSlot
      <4> QED BY <3>1, <3>3, <4>1 DEF Changes, ReadTokensHeld
    <3>4. CASE ~Changes(q)
      <4>1. slot' = slot /\ released' = released
        BY <2>1, <2>3, <3>4, OneMoves
      <4> QED BY <3>1, <4>1 DEF ReadTokensHeld
    <3> QED BY <3>2, <3>3, <3>4 DEF Changes
  <2> QED BY <2>2, <2>3 DEF Next
<1> QED BY <1>1, <1>2, Invariance, PTL DEF Spec

\* The files implement the abstract slot: LinkToken is Publish, UnlinkSlot is
\* Release and every other step leaves the abstract slot as it is.
THEOREM Refinement == Spec => ImplementsSlot
<1>1. Init => Slot!SlotInit
  BY DEF Init, Slot!SlotInit
<1>2. IInv /\ [Next]_vars => [Slot!SlotNext]_(Slot!slotVars)
  <2> SUFFICES ASSUME IInv, [Next]_vars, <<slot, released>>' # <<slot, released>>
               PROVE  Slot!SlotNext
    BY DEF Slot!slotVars
  <2>1. PICK p \in Procs : LinkToken(p) \/ UnlinkSlot(p)
    BY DEF Next, Begin, Step, Tick, BeginReserve, BeginRead, BeginRelease,
           Start, AcquireGuard, RecheckExpiry, OpenSlot, VerifySlot,
           JudgeToken, MakeTemp, WriteTemp, DropTemp, Crash, files, history, vars
  <2>2. CASE LinkToken(p)
    <3>1. call[p].tok \in Token /\ call[p].tok \notin released
      BY <2>2, CallShapes DEF LinkToken, IInv, TypeOK, FreshTokens, Publishing
    <3>2. Slot!Publish(call[p].tok)
      BY <2>2, <3>1
      DEF LinkToken, Slot!Publish, IInv, SafeToPublish, history
    <3> QED BY <3>1, <3>2 DEF Slot!SlotNext
  <2>3. CASE UnlinkSlot(p)
    <3>1. fd[p] \in Token /\ slot = fd[p] /\ slot # None
      BY <2>3, CallShapes DEF UnlinkSlot, IInv, TypeOK, FreshReads
    <3>2. Slot!Release(fd[p])
      BY <2>3, <3>1 DEF UnlinkSlot, Slot!Release
    <3> QED BY <3>1, <3>2 DEF Slot!SlotNext
  <2> QED BY <2>1, <2>2, <2>3
<1> QED BY <1>1, <1>2, Invariance, PTL DEF Spec, ImplementsSlot, Slot!SlotSpec

\* At most one token is returned and not yet released, whoever called.
OneReservation == \A t, u \in returned \ released : t = u

\* No two callers ever hold a reservation at once.
THEOREM ReservationsExclusive == Spec => []OneReservation
<1>1. IInv => OneReservation
  BY DEF IInv, ReservationSurvives, OneReservation
<1> QED BY <1>1, Invariance, PTL

\* The id of a released token is not that of the token in the slot: a release
\* command kept from an earlier job names nothing that can still be taken out.
SpentIdsStayOut == slot # None => \A t \in released : t.id # slot.id

\* Ids never come back.
THEOREM SpentIdsOut == Spec => []SpentIdsStayOut
<1>1. Init => SpentIdsStayOut
  BY DEF Init, SpentIdsStayOut
<1>2. ASSUME IInv, SpentIdsStayOut, [Next]_vars PROVE SpentIdsStayOut'
  <2>1. ASSUME NEW p \in Procs, LinkToken(p) PROVE SpentIdsStayOut'
    <3>1. call[p] \in ReserveCall /\ slot' = call[p].tok /\ UNCHANGED released
      BY <1>2, <2>1 DEF LinkToken, IInv, TypeOK, SafeToPublish, Publishing, history
    <3> QED BY <1>2, <3>1 DEF IInv, FreshTokens, SpentIdsStayOut
  <2>2. ASSUME NEW p \in Procs, UnlinkSlot(p) PROVE SpentIdsStayOut'
    BY <2>2 DEF UnlinkSlot, SpentIdsStayOut
  <2>3. ASSUME NEW p \in Procs, Begin(p) \/ Step(p) \/ Crash(p), ~Changes(p)
        PROVE  SpentIdsStayOut'
    BY <1>2, <2>3, OneMoves DEF IInv, SpentIdsStayOut
  <2>4. CASE Tick \/ UNCHANGED vars
    BY <1>2, <2>4 DEF Tick, vars, files, history, SpentIdsStayOut
  <2> QED BY <1>2, <2>1, <2>2, <2>3, <2>4 DEF Next, Changes
<1>3. IInv /\ SpentIdsStayOut /\ [Next]_vars => SpentIdsStayOut'
  BY <1>2
<1> QED BY <1>1, <1>3, Invariance, PTL DEF Spec

\* How far a call has come.
Progress(where) == CASE where = "guard"                          -> 1
                     [] where = "expiry"                         -> 2
                     [] where = "open"                           -> 3
                     [] where = "verify"                         -> 4
                     [] where \in {"judge", "unlink", "mktemp"}  -> 5
                     [] where = "write"                          -> 6
                     [] where = "link"                           -> 7
                     [] OTHER                                    -> 8

\* A call has no loop: every step it takes returns or brings it further, so it
\* ends within eight of them, and whoever holds the guard is within a call.
CallsAreBounded ==
    [][\A p \in Procs :
          /\ guard = p => pc[p] # "idle"
          /\ Step(p) => pc'[p] = "idle" \/ Progress(pc[p]) < Progress(pc'[p])]_vars

\* Nobody keeps the guard by going on for ever.
THEOREM CallsBounded == Spec => CallsAreBounded
<1> DEFINE A == \A p \in Procs :
                  /\ guard = p => pc[p] # "idle"
                  /\ Step(p) => pc'[p] = "idle" \/ Progress(pc[p]) < Progress(pc'[p])
<1>1. ASSUME IInv, [Next]_vars PROVE A
  <2> SUFFICES ASSUME NEW p \in Procs
               PROVE  /\ guard = p => pc[p] # "idle"
                      /\ Step(p) => pc'[p] = "idle" \/ Progress(pc[p]) < Progress(pc'[p])
    OBVIOUS
  <2>1. guard = p => pc[p] # "idle"
    BY <1>1 DEF IInv, GuardRegion, Guarded, Publishing
  <2>2. pc \in [Procs -> Locations]
    BY <1>1 DEF IInv, TypeOK
  <2>3. CASE AcquireGuard(p) \/ RecheckExpiry(p) \/ OpenSlot(p)
    BY <2>2, <2>3 DEF AcquireGuard, AfterGuard, RecheckExpiry, OpenSlot, Return, Goto, Progress
  <2>4. CASE VerifySlot(p) \/ JudgeToken(p)
    BY <2>2, <2>4 DEF VerifySlot, JudgeToken, Return, Goto, Progress
  <2>5. CASE MakeTemp(p) \/ WriteTemp(p) \/ LinkToken(p)
    BY <2>2, <2>5 DEF MakeTemp, WriteTemp, LinkToken, Goto, Progress
  <2>6. CASE DropTemp(p) \/ UnlinkSlot(p)
    BY <2>2, <2>6 DEF DropTemp, UnlinkSlot, Return, Goto
  <2> QED BY <2>1, <2>3, <2>4, <2>5, <2>6 DEF Step
<1> HIDE DEF A
<1>2. IInv /\ [Next]_vars => [A]_vars
  BY <1>1
<1>3. Spec => [][A]_vars
  BY <1>2, Invariance, PTL DEF Spec
<1> QED BY <1>3 DEF CallsAreBounded, A
=============================================================================
