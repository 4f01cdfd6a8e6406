---------------------------- MODULE MCTQCAttempt ----------------------------
(* Both workers for the passing run, the shipped one alone for the other.   *)
EXTENDS TQCAttempt

MCTargets == {"shipped", "conforming"}
MCShipped == {"shipped"}
=============================================================================
