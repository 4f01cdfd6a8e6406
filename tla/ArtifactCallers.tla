-------------------------- MODULE ArtifactCallers --------------------------
(***************************************************************************)
(* What every process that calls artifact_io.py has in common: a script    *)
(* of its own that goes on when the call it is in has returned or raised.  *)
(***************************************************************************)
EXTENDS ArtifactFiles

VARIABLES
    cast,       \* what each actor was started to do
    at          \* where the script of each actor stands

Moves(a, step) == at' = [at EXCEPT ![a] = step]
Done(a) == call[a].at = "done"
Refused(a) == call[a].at = "refused"

\* The library goes on inside the call the script is in.
Library(a) ==
    \/ Rename(a) \/ Commit(a)
    \/ Fill(a) \/ Hold(a)
    \/ Exchange(a) \/ Settle(a) \/ Retire(a)

\* A system call of the library fails.
Fails(a) == FailPublish(a) \/ FailReserve(a) \/ FailFinalize(a)
=============================================================================
