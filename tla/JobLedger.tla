------------------------------ MODULE JobLedger ------------------------------
(***************************************************************************)
(* What a training job of phase_b/supervision.py promises whoever reads    *)
(* its output directory, with the processes, the pipe and the clocks left  *)
(* out: one receipt per seed, in order and for good; a success only over   *)
(* stored artifacts; nothing started after a failure; one result that sums *)
(* up the receipts; and an index under a successful result only.           *)
(***************************************************************************)
EXTENDS Naturals

CONSTANTS Seeds,     \* how many seeds the job declares
          Failures   \* the statuses of a seed that failed by itself

VARIABLES entry,     \* seed -> the status its receipt records, or "none"
          stored,    \* seeds whose artifacts are published
          verdict,   \* the status of the job result, or "none"
          indexed    \* the checkpoint index is published

ledgerVars == <<entry, stored, verdict, indexed>>

Declared == 1 .. Seeds

LedgerInit == /\ entry = [s \in Declared |-> "none"]
              /\ stored = {}
              /\ verdict = "none"
              /\ indexed = FALSE

\* The next seed without a receipt.
Due(s) == entry[s] = "none" /\ \A t \in 1 .. s - 1 : entry[t] # "none"

\* The seed whose turn it is to train: nothing before it failed.
Turn(s) == entry[s] = "none" /\ \A t \in 1 .. s - 1 : entry[t] = "succeeded"

Enter(s, status) == /\ entry' = [entry EXCEPT ![s] = status]
                    /\ UNCHANGED <<stored, verdict, indexed>>

\* A worker publishes: that of the seed at hand, or a survivor of the one that
\* failed.  A seed that succeeded or was passed over gains no artifacts.
Store(s) == /\ Turn(s) \/ entry[s] \in Failures
            /\ stored' = stored \union {s}
            /\ UNCHANGED <<entry, verdict, indexed>>

Succeed(s) == Turn(s) /\ s \in stored /\ Enter(s, "succeeded")

Fail(s) == Turn(s) /\ \E status \in Failures : Enter(s, status)

Skip(s) == /\ Due(s)
           /\ \E t \in 1 .. s - 1 : entry[t] \in Failures
           /\ Enter(s, "not_started")

\* All seeds are accounted for.  Whatever the receipts say, a directory over
\* the output cap is a breach.
Conclude == /\ verdict = "none"
            /\ \A s \in Declared : entry[s] # "none"
            /\ \/ verdict' = "breach"
               \/ /\ \A s \in Declared : entry[s] = "succeeded"
                  /\ verdict' = "succeeded"
               \/ \E s \in Declared : entry[s] \in Failures /\ verdict' = entry[s]
            /\ UNCHANGED <<entry, stored, indexed>>

Index == /\ verdict = "succeeded" /\ ~indexed
         /\ indexed' = TRUE
         /\ UNCHANGED <<entry, stored, verdict>>

LedgerNext == \/ \E s \in Declared : Store(s) \/ Succeed(s) \/ Fail(s) \/ Skip(s)
              \/ Conclude
              \/ Index

LedgerSpec == LedgerInit /\ [][LedgerNext]_ledgerVars
=============================================================================
