----------------------------- MODULE ModelCall -----------------------------
(***************************************************************************)
(* reward_search/t2_model_protocol.py: the one model call of the T2 study. *)
(* A dispatcher (publish_initial_t2_dispatch_intent) claims the canonical  *)
(* call identity and then publishes the intent that lets an operator start *)
(* the external model.  An ingester (ingest_initial_t2_sol_run) copies the *)
(* run, checks the intent, claims the ingestion and writes the proposal,   *)
(* the recipe and a receipt.  The only mutual exclusion any of them has is *)
(* that a name can be published once, so every property here rests on      *)
(* ArtifactFiles.  A call that is tried again after a crash is a fresh     *)
(* actor with the same record and run.  Records, runs and their contents   *)
(* are opaque; a content-addressed name stands for its own bytes.          *)
(***************************************************************************)
EXTENDS ArtifactCallers

CONSTANTS Records, Runs

VARIABLES
    quality,    \* what each run directory holds
    know        \* what an ingester has read and decided

Identity == <<"identity">>
Intent == <<"intent">>
Claim == <<"claim">>
Kept(run) == <<"kept", run>>
Proposal(run) == <<"proposal", run>>
Recipe(run) == <<"recipe", run>>
Receipt(run, verdict) == <<"receipt", run, verdict>>
Refusal(record, reason) == <<"refusal", record, reason>>

Verdicts == {"accepted", "missing", "mismatched", "replay", "unread", "invalid"}
Reasons == {"noncanonical", "conflict", "claimed", "intentExists"}

PerRun == {Kept(run) : run \in Runs} \cup {Proposal(run) : run \in Runs}
          \cup {Recipe(run) : run \in Runs}
          \cup {Receipt(run, v) : run \in Runs, v \in Verdicts}
Refusals == {Refusal(record, reason) : record \in Records, reason \in Reasons}
CallNames == {Identity, Intent, Claim} \cup PerRun \cup Refusals

\* The run as it was bound to one record: what an ingestion claim names.
Bound(record, run) == <<record, run>>
CallValues == Records \cup PerRun \cup Refusals \cup {Bound(r, run) : r \in Records, run \in Runs}

CallFolder == [n \in CallNames |-> IF n \in PerRun THEN "records"
                                   ELSE IF n \in Refusals THEN "refusals" ELSE "call"]

\* The run is of the record's packet and passes the envelope and proposal
\* checks ("good"), can be read but fails one of them, or cannot be read.
Quality == [Runs -> [made : Records, holds : {"good", "invalid", "unread"}]]

Blank == [kept |-> FALSE, identity |-> NoFile, intent |-> "unknown", replay |-> FALSE]

Learns(a, k) == know' = [know EXCEPT ![a] = k]

\* _publish_or_reuse_exact: an existing file of exactly these bytes will do.
Stored(a) == Done(a) \/ (Refused(a) /\ Shows(call[a].name, call[a].data))

Record(a) == cast[a].record
Run(a) == cast[a].run

-----------------------------------------------------------------------------
(* publish_initial_t2_dispatch_intent *)

Retain(a, reason) ==
    /\ Prepare(a, Refusal(Record(a), reason), Refusal(Record(a), reason))
    /\ Moves(a, "retainRefusal")
    /\ UNCHANGED <<cast, quality, know>>

DispatchElsewhere(a) ==
    /\ at[a] = "dispatch"
    /\ Retain(a, "noncanonical")

ClaimIdentity(a) ==
    /\ at[a] = "dispatch"
    /\ Prepare(a, Identity, Record(a))
    /\ Moves(a, "claimIdentity")
    /\ UNCHANGED <<cast, quality, know>>

IdentityTaken(a) ==
    /\ at[a] = "claimIdentity" /\ Refused(a)
    /\ Retain(a, IF Shows(Identity, Record(a)) THEN "claimed" ELSE "conflict")

PublishIntent(a) ==
    /\ at[a] = "claimIdentity" /\ Done(a)
    /\ Prepare(a, Intent, Record(a))
    /\ Moves(a, "publishIntent")
    /\ UNCHANGED <<cast, quality, know>>

IntentTaken(a) ==
    /\ at[a] = "publishIntent" /\ Refused(a)
    /\ Retain(a, "intentExists")

\* The caller holds the published intent and starts the external model.
Dispatched(a) ==
    /\ at[a] = "publishIntent" /\ Done(a)
    /\ Moves(a, "dispatched")
    /\ UNCHANGED <<fileVars, cast, quality, know>>

DispatchRaises(a) ==
    /\ at[a] = "retainRefusal" /\ (Done(a) \/ Refused(a))
    /\ Moves(a, "raised")
    /\ UNCHANGED <<fileVars, cast, quality, know>>

Dispatch(a) ==
    \/ DispatchElsewhere(a) \/ ClaimIdentity(a) \/ IdentityTaken(a)
    \/ PublishIntent(a) \/ IntentTaken(a) \/ Dispatched(a) \/ DispatchRaises(a)

-----------------------------------------------------------------------------
(* ingest_initial_t2_sol_run *)

RetainRun(a) ==
    /\ at[a] = "ingest" /\ quality[Run(a)].holds # "unread"
    /\ Prepare(a, Kept(Run(a)), Kept(Run(a)))
    /\ Moves(a, "retain")
    /\ UNCHANGED <<cast, quality, know>>

\* _inspect_dispatch_intent reads the two files one after the other.
ReadIdentity(a) ==
    /\ \/ at[a] = "ingest" /\ quality[Run(a)].holds = "unread"
       \/ at[a] = "retain" /\ Stored(a)
    /\ Learns(a, [know[a] EXCEPT !.kept = at[a] = "retain",
                                 !.identity = IF Free(Identity) THEN NoFile ELSE dir[Identity].data])
    /\ Moves(a, "readIntent")
    /\ UNCHANGED <<fileVars, cast, quality>>

\* Mutant: an unreadable intent is reported as neither missing nor mismatched.
IntentFoundUnreadable(a) == IF Free(Intent) THEN "unreadable" ELSE "mismatched"

IntentFound(a) ==
    IF Free(Intent) THEN "missing"
    ELSE IF know[a].identity = Record(a) /\ Shows(Intent, Record(a)) THEN "verified"
    ELSE "mismatched"

ReadIntent(a) ==
    /\ at[a] = "readIntent" /\ IntentFound(a) # "verified"
    /\ Learns(a, [know[a] EXCEPT !.intent = IntentFound(a)])
    /\ Moves(a, "judge")
    /\ UNCHANGED <<fileVars, cast, quality>>

ClaimIngestion(a) ==
    /\ at[a] = "readIntent" /\ IntentFound(a) = "verified"
    /\ Learns(a, [know[a] EXCEPT !.intent = "verified"])
    /\ Prepare(a, Claim, Bound(Record(a), Run(a)))
    /\ Moves(a, "claim")
    /\ UNCHANGED <<cast, quality>>

\* Mutant: a claim of the very same bytes counts as the caller's own.
ClaimReused(a) ==
    /\ at[a] = "claim"
    /\ Done(a) \/ (Refused(a) /\ ~Free(Claim))
    /\ Learns(a, [know[a] EXCEPT !.replay = ~Stored(a)])
    /\ Moves(a, "judge")
    /\ UNCHANGED <<fileVars, cast, quality>>

\* Any existing claim is a replay, even one of the very same bytes.
ClaimAnswered(a) ==
    /\ at[a] = "claim"
    /\ Done(a) \/ (Refused(a) /\ ~Free(Claim))
    /\ Learns(a, [know[a] EXCEPT !.replay = Refused(a)])
    /\ Moves(a, "judge")
    /\ UNCHANGED <<fileVars, cast, quality>>

Verdict(a) ==
    CASE know[a].intent # "verified" -> know[a].intent
      [] know[a].intent = "verified" /\ know[a].replay -> "replay"
      [] know[a].intent = "verified" /\ ~know[a].replay /\ ~know[a].kept -> "unread"
      [] OTHER -> IF quality[Run(a)] = [made |-> Record(a), holds |-> "good"]
                  THEN "accepted" ELSE "invalid"

WriteReceipt(a) ==
    /\ Prepare(a, Receipt(Run(a), Verdict(a)), Receipt(Run(a), Verdict(a)))
    /\ Moves(a, "receipt")
    /\ UNCHANGED <<cast, quality, know>>

Judge(a) ==
    /\ at[a] = "judge" /\ Verdict(a) # "accepted"
    /\ WriteReceipt(a)

WriteProposal(a) ==
    /\ at[a] = "judge" /\ Verdict(a) = "accepted"
    /\ Prepare(a, Proposal(Run(a)), Proposal(Run(a)))
    /\ Moves(a, "proposal")
    /\ UNCHANGED <<cast, quality, know>>

WriteRecipe(a) ==
    /\ at[a] = "proposal" /\ Stored(a)
    /\ Prepare(a, Recipe(Run(a)), Recipe(Run(a)))
    /\ Moves(a, "recipe")
    /\ UNCHANGED <<cast, quality, know>>

WriteAcceptance(a) ==
    /\ at[a] = "recipe" /\ Stored(a)
    /\ WriteReceipt(a)

Ingested(a) ==
    /\ at[a] = "receipt" /\ Stored(a)
    /\ Moves(a, IF Verdict(a) = "accepted" THEN "accepted" ELSE "rejected")
    /\ Learns(a, Blank)
    /\ UNCHANGED <<fileVars, cast, quality>>

\* A publication that failed and left no file of these bytes ends the call.
IngestRaises(a) ==
    /\ Refused(a)
    /\ \/ at[a] \in {"retain", "proposal", "recipe", "receipt"} /\ ~Stored(a)
       \/ at[a] = "claim" /\ Free(Claim)
    /\ Moves(a, "raised")
    /\ Learns(a, Blank)
    /\ UNCHANGED <<fileVars, cast, quality>>

Ingest(a) ==
    \/ RetainRun(a) \/ ReadIdentity(a) \/ ReadIntent(a)
    \/ ClaimIngestion(a) \/ ClaimAnswered(a) \/ Judge(a) \/ WriteProposal(a)
    \/ WriteRecipe(a) \/ WriteAcceptance(a) \/ Ingested(a) \/ IngestRaises(a)

-----------------------------------------------------------------------------
(* Properties *)

\* Whatever is dispatched concurrently, retried or restarted after the machine
\* stopped, at most one caller is ever told to start the external model.
OneDispatch ==
    \A a, b \in Actors : at[a] = "dispatched" /\ at[b] = "dispatched" => a = b

\* At most one ingestion of the call is ever accepted, of one run, and no
\* second accepted receipt exists even where the first caller was killed.
OneAcceptance ==
    /\ \A a, b \in Actors : at[a] = "accepted" /\ at[b] = "accepted" => a = b
    /\ \A r, s \in Runs :
          ~Free(Receipt(r, "accepted")) /\ ~Free(Receipt(s, "accepted")) => r = s

\* Whoever sees an accepted receipt can rely on the claim, the intent and the
\* identity it names being permanent; and once the receipt was reported, the
\* run, the proposal and the recipe are permanent too, although each of them
\* may have been reused from a caller that was killed before it synced them.
EvidenceIsDurable ==
    \A run \in Runs : ~Free(Receipt(run, "accepted")) =>
        \E record \in Records :
            /\ Durable(Identity, record) /\ Durable(Intent, record)
            /\ Durable(Claim, Bound(record, run))
            /\ quality[run] = [made |-> record, holds |-> "good"]
            /\ Receipt(run, "accepted") \in reported =>
                  \A n \in {Kept(run), Proposal(run), Recipe(run)} : Durable(n, n)

=============================================================================
