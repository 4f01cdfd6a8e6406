---------------------------- MODULE ResourceSlot ----------------------------
(***************************************************************************)
(* The heavy-job slot of src/oracle_composition/harness/resource_slot.py:  *)
(* any number of processes of one user call reserve_slot, release_slot and *)
(* the read-only helpers (read_slot, slot_status,                          *)
(* validate_slot_for_reservation) on one coordination directory.           *)
(*                                                                         *)
(* The directory holds heavy-job.lock (the slot: a hard link to a token    *)
(* file), heavy-job.guard (an empty file that is only flocked) and the     *)
(* temporary names of tokens being published.  Every file operation that   *)
(* another process can observe is a step of its own, and a process may be  *)
(* killed between any two of them.                                         *)
(*                                                                         *)
(* A token file is identified with its token: a uuid4 is never generated   *)
(* twice and the inode of a token is created for it by mkstemp.            *)
(***************************************************************************)
EXTENDS Naturals, FiniteSets

CONSTANTS Procs,         \* processes that call the module
          Reservations,  \* accepted and acknowledged v2 reservations
          Owners,        \* owner strings
          OwnerOf,       \* the owner a reservation names
          ExpiryOf,      \* its accepted_until_utc
          MaxTokens,     \* bound: tokens generated in a run
          MaxClock,      \* bound: the last value of the clock
          None           \* no process, no token, no call

TokenIds == 1 .. MaxTokens
Token == [id : TokenIds, res : Reservations]

ReserveCall == [kind : {"reserve"}, tok : Token]
ReleaseCall == [kind : {"release"}, owner : Owners, id : TokenIds]
ReadCall == [kind : {"read"}, res : Reservations]
Calls == ReserveCall \union ReleaseCall \union ReadCall

ASSUME SlotConstants ==
    /\ OwnerOf \in [Reservations -> Owners]
    /\ ExpiryOf \in [Reservations -> Nat]
    /\ MaxTokens \in Nat
    /\ MaxClock \in Nat
    /\ None \notin Procs \union Token \union Calls

VARIABLES
    slot,      \* the token heavy-job.lock names, or None
    guard,     \* the process that holds the flock on heavy-job.guard, or None
    temps,     \* ids whose temporary name still exists
    written,   \* ids whose file holds the complete, fsynced token
    ctime,     \* id -> version of the inode metadata that a stat can tell apart
    clock,     \* UTC, abstracted to the instants the reservations tell apart
    minted,    \* token ids generated so far
    pc,        \* process -> where it is in its call
    call,      \* process -> the call it executes, with its arguments
    fd,        \* process -> the token file it has open, or None
    stat,      \* process -> the metadata version it saw when it opened it
    outcome,   \* process -> what its last call returned or raised
    returned,  \* history: tokens that reserve_slot returned to a caller
    released   \* history: tokens that release_slot set out to unlink

vars == <<slot, guard, temps, written, ctime, clock, minted, pc, call, fd,
          stat, outcome, returned, released>>

files == <<slot, temps, written, ctime>>
history == <<returned, released>>

Publishing == {"mktemp", "write", "link", "drop"}
Guarded == Publishing \union {"expiry", "unlink"}
Locations == Guarded \union {"idle", "guard", "open", "verify", "judge"}

\* "refused" stands for every error that names its reason: a stale reservation,
\* an occupied slot, a wrong owner or token id, a wrong binding, an expired token.
Outcomes == {"none", "running", "reserved", "released", "authorized",
             "missing", "malformed", "refused", "crashed"}

TokenOwner(t) == OwnerOf[t.res]

Init == /\ slot = None
        /\ guard = None
        /\ temps = {}
        /\ written = {}
        /\ ctime = [i \in TokenIds |-> 0]
        /\ clock = 0
        /\ minted = 0
        /\ pc = [p \in Procs |-> "idle"]
        /\ call = [p \in Procs |-> None]
        /\ fd = [p \in Procs |-> None]
        /\ stat = [p \in Procs |-> 0]
        /\ outcome = [p \in Procs |-> "none"]
        /\ returned = {}
        /\ released = {}

-----------------------------------------------------------------------------
(* Helpers                                                                 *)

\* link and unlink change the ctime of an inode, but kernel timestamps are
\* coarse: a change within one tick is invisible to a later stat.
TouchInode(i) == \E bump \in {0, 1} : ctime' = [ctime EXCEPT ![i] = @ + bump]

Goto(p, where) == pc' = [pc EXCEPT ![p] = where]

\* Mutant: an exit path that forgets LOCK_UN and the close of the guard.
ReturnHoldingGuard(p, result) ==
    /\ Goto(p, "idle")
    /\ outcome' = [outcome EXCEPT ![p] = result]
    /\ call' = [call EXCEPT ![p] = None]
    /\ fd' = [fd EXCEPT ![p] = None]
    /\ stat' = [stat EXCEPT ![p] = 0]
    /\ guard' = IF guard = p /\ result # "refused" THEN None ELSE guard

\* The call returns or raises: its descriptors are closed and, if it holds
\* the guard, the finally clause of _serialized unlocks and closes it.
Return(p, result) ==
    /\ Goto(p, "idle")
    /\ outcome' = [outcome EXCEPT ![p] = result]
    /\ call' = [call EXCEPT ![p] = None]
    /\ fd' = [fd EXCEPT ![p] = None]
    /\ stat' = [stat EXCEPT ![p] = 0]
    /\ guard' = IF guard = p THEN None ELSE guard

Start(p, c, where) ==
    /\ pc[p] = "idle"
    /\ Goto(p, where)
    /\ call' = [call EXCEPT ![p] = c]
    /\ outcome' = [outcome EXCEPT ![p] = "running"]
    /\ UNCHANGED <<files, guard, clock, fd, stat, history>>

-----------------------------------------------------------------------------
(* Calls begin                                                             *)

\* reserve_slot up to the guard: the reservation is loaded and found current,
\* the owner matches and a fresh token is made.  A call that fails here has
\* changed nothing.
BeginReserve(p, r) ==
    /\ minted < MaxTokens
    /\ clock < ExpiryOf[r]
    /\ minted' = minted + 1
    /\ Start(p, [kind |-> "reserve", tok |-> [id |-> minted + 1, res |-> r]],
             "guard")

\* release_slot for any owner and any token id that was ever printed.
BeginRelease(p, o, i) ==
    /\ i <= minted
    /\ Start(p, [kind |-> "release", owner |-> o, id |-> i], "guard")
    /\ UNCHANGED minted

\* read_slot, slot_status or validate_slot_for_reservation: no guard.
BeginRead(p, r) ==
    /\ Start(p, [kind |-> "read", res |-> r], "open")
    /\ UNCHANGED minted

-----------------------------------------------------------------------------
(* The guard                                                               *)

AfterGuard(c) == IF c.kind = "reserve" THEN "expiry" ELSE "open"

\* Mutant: LOCK_SH in place of LOCK_EX, so that the guard excludes nobody.
AcquireShared(p) ==
    /\ pc[p] = "guard"
    /\ guard' = p
    /\ Goto(p, AfterGuard(call[p]))
    /\ UNCHANGED <<files, clock, minted, call, fd, stat, outcome, history>>

\* flock(LOCK_EX) in _serialized.
AcquireGuard(p) ==
    /\ pc[p] = "guard"
    /\ guard = None
    /\ guard' = p
    /\ Goto(p, AfterGuard(call[p]))
    /\ UNCHANGED <<files, clock, minted, call, fd, stat, outcome, history>>

\* The second expiry check of reserve_slot, made under the guard.
RecheckExpiry(p) ==
    /\ pc[p] = "expiry"
    /\ \/ /\ clock < ExpiryOf[call[p].tok.res]
          /\ Goto(p, "open")
          /\ UNCHANGED <<guard, call, fd, stat, outcome>>
       \/ /\ clock >= ExpiryOf[call[p].tok.res]
          /\ Return(p, "refused")
    /\ UNCHANGED <<files, clock, minted, history>>

-----------------------------------------------------------------------------
(* Reading the slot: _read_regular_file through _read_slot_record          *)

\* Mutant: every caller takes a missing slot for one it may publish into.
OpenSlotAnyPublish(p) ==
    /\ pc[p] = "open"
    /\ \/ /\ slot = None
          /\ Goto(p, "mktemp")
          /\ UNCHANGED <<guard, call, fd, stat, outcome>>
       \/ /\ slot # None
          /\ fd' = [fd EXCEPT ![p] = slot]
          /\ stat' = [stat EXCEPT ![p] = ctime[slot.id]]
          /\ Goto(p, "verify")
          /\ UNCHANGED <<guard, call, outcome>>
    /\ UNCHANGED <<files, clock, minted, history>>

\* open and the first fstat.  A missing slot lets reserve publish and ends
\* every other call with SlotMissingError.
OpenSlot(p) ==
    /\ pc[p] = "open"
    /\ \/ /\ slot = None
          /\ call[p].kind = "reserve"
          /\ Goto(p, "mktemp")
          /\ UNCHANGED <<guard, call, fd, stat, outcome>>
       \/ /\ slot = None
          /\ call[p].kind # "reserve"
          /\ Return(p, "missing")
       \/ /\ slot # None
          /\ fd' = [fd EXCEPT ![p] = slot]
          /\ stat' = [stat EXCEPT ![p] = ctime[slot.id]]
          /\ Goto(p, "verify")
          /\ UNCHANGED <<guard, call, outcome>>
    /\ UNCHANGED <<files, clock, minted, history>>

\* What makes the read fail closed: incomplete bytes, metadata that moved
\* since the first fstat, or a name that no longer leads to the open file.
Suspect(p) == \/ fd[p].id \notin written
              \/ ctime[fd[p].id] # stat[p]
              \/ slot # fd[p]

\* Mutant: the release compares the owner and forgets the token id.
MatchesOwnerOnly(c, t) == c.owner = TokenOwner(t)

Matches(c, t) == c.owner = TokenOwner(t) /\ c.id = t.id

\* The second fstat, the lstat of the name and the decoding; then what the
\* caller does with the token.  release_slot's own lstat repeats the one just
\* made with nothing but comparisons of local values in between.
VerifySlot(p) ==
    /\ pc[p] = "verify"
    /\ \/ /\ Suspect(p)
          /\ Return(p, "malformed")
       \/ /\ ~Suspect(p)
          /\ call[p].kind = "reserve"
          /\ Return(p, "refused")
       \/ /\ ~Suspect(p)
          /\ call[p].kind = "release"
          /\ ~Matches(call[p], fd[p])
          /\ Return(p, "refused")
       \/ /\ ~Suspect(p)
          /\ call[p].kind = "release"
          /\ Matches(call[p], fd[p])
          /\ Goto(p, "unlink")
          /\ UNCHANGED <<guard, call, fd, stat, outcome>>
       \/ /\ ~Suspect(p)
          /\ call[p].kind = "read"
          /\ Goto(p, "judge")
          /\ UNCHANGED <<guard, call, fd, stat, outcome>>
    /\ UNCHANGED <<files, clock, minted, history>>

\* validate_slot_for_reservation after the read: the binding, then expiry.
JudgeToken(p) ==
    /\ pc[p] = "judge"
    /\ \/ /\ fd[p].res # call[p].res
          /\ Return(p, "refused")
       \/ /\ fd[p].res = call[p].res
          /\ clock >= ExpiryOf[fd[p].res]
          /\ Return(p, "refused")
       \/ /\ fd[p].res = call[p].res
          /\ clock < ExpiryOf[fd[p].res]
          /\ Return(p, "authorized")
    /\ UNCHANGED <<files, clock, minted, history>>

-----------------------------------------------------------------------------
(* Publishing: _publish_token                                              *)

\* Mutant: the token is published before its bytes are written.
MakeTempAndLink(p) ==
    /\ pc[p] = "mktemp"
    /\ slot' = IF slot = None THEN call[p].tok ELSE slot
    /\ temps' = temps \union {call[p].tok.id}
    /\ Goto(p, "write")
    /\ UNCHANGED <<written, ctime, guard, clock, minted, call, fd, stat,
                   outcome, history>>

\* mkstemp.
MakeTemp(p) ==
    /\ pc[p] = "mktemp"
    /\ temps' = temps \union {call[p].tok.id}
    /\ Goto(p, "write")
    /\ UNCHANGED <<slot, written, ctime, guard, clock, minted, call, fd, stat,
                   outcome, history>>

\* write, flush, fchmod and fsync.
WriteTemp(p) ==
    /\ pc[p] = "write"
    /\ written' = written \union {call[p].tok.id}
    /\ Goto(p, "link")
    /\ UNCHANGED <<slot, temps, ctime, guard, clock, minted, call, fd, stat,
                   outcome, history>>

\* os.link refuses an existing name, whatever put it there.
LinkToken(p) ==
    /\ pc[p] = "link"
    /\ slot' = IF slot = None THEN call[p].tok ELSE slot
    /\ outcome' = [outcome EXCEPT
                     ![p] = IF slot = None THEN "reserved" ELSE "refused"]
    /\ TouchInode(call[p].tok.id)
    /\ Goto(p, "drop")
    /\ UNCHANGED <<temps, written, guard, clock, minted, call, fd, stat,
                   history>>

\* The finally clause unlinks the temporary name; the guard is released and
\* reserve_slot returns its token or raises SlotOccupiedError.
DropTemp(p) ==
    /\ pc[p] = "drop"
    /\ temps' = temps \ {call[p].tok.id}
    /\ TouchInode(call[p].tok.id)
    /\ returned' = IF outcome[p] = "reserved"
                   THEN returned \union {call[p].tok} ELSE returned
    /\ Return(p, outcome[p])
    /\ UNCHANGED <<slot, written, clock, minted, released>>

-----------------------------------------------------------------------------
(* Releasing                                                               *)

\* path.unlink() removes whatever the name leads to at this instant.
UnlinkSlot(p) ==
    /\ pc[p] = "unlink"
    /\ slot' = None
    /\ released' = released \union {fd[p]}
    /\ TouchInode(fd[p].id)
    /\ Return(p, "released")
    /\ UNCHANGED <<temps, written, clock, minted, returned>>

-----------------------------------------------------------------------------
(* The environment                                                         *)

\* A process is killed: the kernel closes its descriptors and drops its
\* flock, and nothing removes its temporary file.
Crash(p) ==
    /\ pc[p] # "idle"
    /\ Return(p, "crashed")
    /\ UNCHANGED <<files, clock, minted, history>>

Tick ==
    /\ clock < MaxClock
    /\ clock' = clock + 1
    /\ UNCHANGED <<files, guard, minted, pc, call, fd, stat, outcome, history>>

Begin(p) == \/ \E r \in Reservations : BeginReserve(p, r) \/ BeginRead(p, r)
            \/ \E o \in Owners, i \in TokenIds : BeginRelease(p, o, i)

\* The steps a call takes once it is begun.
Step(p) == \/ AcquireGuard(p)
           \/ RecheckExpiry(p)
           \/ OpenSlot(p)
           \/ VerifySlot(p)
           \/ JudgeToken(p)
           \/ MakeTemp(p)
           \/ WriteTemp(p)
           \/ LinkToken(p)
           \/ DropTemp(p)
           \/ UnlinkSlot(p)

Next == Tick \/ \E p \in Procs : Begin(p) \/ Step(p) \/ Crash(p)

Spec == Init /\ [][Next]_vars

\* A running process is scheduled; nobody is obliged to begin a call, and
\* the flock may go to any waiter.
FairSpec == Spec /\ \A p \in Procs : WF_vars(Step(p))

-----------------------------------------------------------------------------
(* Properties                                                              *)

\* Every variable has its type, and where a process stands agrees with the
\* call it makes: only reserve_slot publishes and only release_slot unlinks.
TypeOK ==
    /\ slot \in Token \union {None}
    /\ guard \in Procs \union {None}
    /\ temps \subseteq TokenIds
    /\ written \subseteq TokenIds
    /\ ctime \in [TokenIds -> Nat]
    /\ clock \in Nat
    /\ minted \in 0 .. MaxTokens
    /\ pc \in [Procs -> Locations]
    /\ call \in [Procs -> Calls \union {None}]
    /\ fd \in [Procs -> Token \union {None}]
    /\ stat \in [Procs -> Nat]
    /\ outcome \in [Procs -> Outcomes]
    /\ returned \subseteq Token
    /\ released \subseteq Token
    /\ \A p \in Procs :
         /\ pc[p] = "idle" <=> call[p] = None
         /\ pc[p] \in Publishing \union {"expiry"} => call[p] \in ReserveCall
         /\ pc[p] = "unlink" => call[p] \in ReleaseCall
         /\ pc[p] = "judge" => call[p] \in ReadCall
         /\ pc[p] = "guard" => call[p] \notin ReadCall
         /\ pc[p] \in {"verify", "judge", "unlink"} => fd[p] \in Token

\* A token that reserve_slot returned stays in the slot until it is released
\* itself: no later reserve, no expiry, no crash and no release of another
\* token of the same owner takes it away.  Two callers can therefore never
\* both hold a returned, unreleased token.
ReservationSurvives == \A t \in returned \ released : slot = t

\* A token that a call has read stays in the slot until the call answers, or has
\* been released itself.  A validation holds no guard and may be delayed between
\* its last look and its answer: it may then answer for a token that its owner
\* has released since, never for one that another reservation displaced, that a
\* release of some other token took along or that a crash lost.  So of two
\* validations about to answer for different tokens, one answers for a released
\* one.
ReadTokensHeld == \A p \in Procs : fd[p] # None => slot = fd[p] \/ fd[p] \in released

\* What heavy-job.lock names is always a complete, fsynced token: no reader
\* and no crash can meet a half-written one.
PublishedComplete == slot # None => slot.id \in written

\* A token leaves the slot only in the unlink of a release_slot call that
\* names its exact owner and id and holds the guard, and never in favour of
\* another token: no stealing, no replacement, no stale release.
ExactRelease ==
    [][\A t \in Token :
          slot = t /\ slot' # t =>
            /\ slot' = None
            /\ \E p \in Procs : /\ guard = p
                                /\ pc[p] = "unlink"
                                /\ call[p].owner = TokenOwner(t)
                                /\ call[p].id = t.id]_vars

\* Under the guard a read never fails for a change made by another caller:
\* reserve_slot and release_slot do not take a healthy slot for a malformed one.
\* (_serialized raises the same SlotMalformedError for an unsafe guard file and
\* for any OSError under the guard; neither is modelled.)
GuardedReadsStable ==
    [][\A p \in Procs : guard = p => outcome'[p] # "malformed"]_vars

\* The files implement the abstract slot.
Slot == INSTANCE HeavySlot WITH held <- slot, spent <- released
ImplementsSlot == Slot!SlotSpec

\* Whoever takes the guard gives it back, killed or not.
GuardComesBack == \A p \in Procs : guard = p ~> guard # p
=============================================================================
