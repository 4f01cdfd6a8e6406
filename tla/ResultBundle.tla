---------------------------- MODULE ResultBundle ----------------------------
(***************************************************************************)
(* The two users of reserved names.  A saver                               *)
(* (experiments/tqc_development_persistence_v2.py) reserves the names of   *)
(* the model, the replay buffer, the actor and the actor's manifest before *)
(* it writes any of them, and publishes them in that order, the manifest   *)
(* last.  A prober (experiments/tqc_calibration.py) reserves the name of   *)
(* its receipt, spends the probe, and exchanges the receipt for the final  *)
(* one.  An exception between two calls of the library leaves the files as *)
(* a kill does; the resource samples between the calls are not modelled.   *)
(***************************************************************************)
EXTENDS ArtifactCallers, Naturals, Sequences

ModelFile == <<"model">>
ReplayFile == <<"replay">>
ActorFile == <<"actor">>
ManifestFile == <<"manifest">>
ProbeFile == <<"probe">>

Streams == {ModelFile, ReplayFile, ActorFile}
BundleReserved == {ManifestFile, ProbeFile}
BundleNames == Streams \cup BundleReserved
Final == <<"final">>

BundleFolder == [n \in BundleNames |-> "work"]

-----------------------------------------------------------------------------
(* persist_tqc_training_completion_v2 *)

\* The calls of the script in order: its position is the call it is in.
SaveScript == <<"save", "reserveModel", "reserveReplay", "reserveActor", "reserveManifest",
                "saveModel", "saveReplay", "exportActor", "publishManifest", "saved">>

SavePlaces == {SaveScript[i] : i \in DOMAIN SaveScript}

\* The call before this one returned: the script goes on to position i.
Continues(a, i) ==
    /\ at[a] = SaveScript[i - 1]
    /\ i = 2 \/ Done(a)
    /\ Moves(a, SaveScript[i])
    /\ UNCHANGED cast

ReserveBundle(a) ==
    \/ Continues(a, 2) /\ ReserveStream(a, ModelFile, Final)
    \/ Continues(a, 3) /\ ReserveStream(a, ReplayFile, Final)
    \/ Continues(a, 4) /\ ReserveStream(a, ActorFile, Final)
    \/ Continues(a, 5) /\ ReserveJson(a, ManifestFile)

\* Mutant: the manifest is published before the actor file it names.
SaveManifestFirst(a) ==
    \/ Continues(a, 6) /\ FinalizeStream(a, ModelFile, Final)
    \/ Continues(a, 7) /\ FinalizeStream(a, ReplayFile, Final)
    \/ Continues(a, 8) /\ FinalizeJson(a, ManifestFile, Final)
    \/ Continues(a, 9) /\ FinalizeStream(a, ActorFile, Final)

SaveArtifacts(a) ==
    \/ Continues(a, 6) /\ FinalizeStream(a, ModelFile, Final)
    \/ Continues(a, 7) /\ FinalizeStream(a, ReplayFile, Final)
    \/ Continues(a, 8) /\ FinalizeStream(a, ActorFile, Final)
    \/ Continues(a, 9) /\ FinalizeJson(a, ManifestFile, Final)

IssueAuthority(a) == Continues(a, 10) /\ UNCHANGED fileVars

SaveRaises(a) ==
    /\ at[a] \in SavePlaces \ {"save", "saved"} /\ Refused(a)
    /\ Moves(a, "raised")
    /\ UNCHANGED <<fileVars, cast>>

-----------------------------------------------------------------------------
(* run_tqc_calibration *)

StartProbe(a) ==
    /\ at[a] = "probe"
    /\ ReserveJson(a, ProbeFile)
    /\ Moves(a, "reserveProbe")
    /\ UNCHANGED cast

\* The probe itself runs here, with the reservation in place.
FinishProbe(a) ==
    /\ at[a] = "reserveProbe" /\ Done(a)
    /\ FinalizeJson(a, ProbeFile, Final)
    /\ Moves(a, "publishProbe")
    /\ UNCHANGED cast

ReportProbe(a) ==
    /\ at[a] = "publishProbe" /\ Done(a)
    /\ Moves(a, "reported")
    /\ UNCHANGED <<fileVars, cast>>

ProbeRaises(a) ==
    /\ at[a] \in {"reserveProbe", "publishProbe"} /\ Refused(a)
    /\ Moves(a, "raised")
    /\ UNCHANGED <<fileVars, cast>>

Save(a) == ReserveBundle(a) \/ SaveArtifacts(a) \/ IssueAuthority(a) \/ SaveRaises(a)
Probe(a) == StartProbe(a) \/ FinishProbe(a) \/ ReportProbe(a) \/ ProbeRaises(a)

-----------------------------------------------------------------------------
(* Properties *)

\* A manifest that is no longer the provisional record is only ever seen over
\* a complete bundle: the model, the replay buffer and the actor it names are
\* permanent before its name changes hands, also when a failed exchange could
\* not be undone or the machine stopped in between.
ManifestComesLast ==
    ~Free(ManifestFile) /\ dir[ManifestFile].data = Final =>
        /\ dir[ManifestFile].whole
        /\ \A n \in Streams : Durable(n, Final)

\* The probe runs, or ran to its report, on the reservation of its own process.
Probing(a) ==
    \/ at[a] = "reserveProbe" /\ Done(a)
    \/ at[a] \in {"publishProbe", "reported"}

\* Two probes of one output never both run: from the moment a probe starts its
\* name shows a file of that process, also after a failed or undone exchange,
\* a kill of another process, and a stop of the machine.
OneProbe ==
    \A a \in Actors : Probing(a) => ~Free(ProbeFile) /\ dir[ProbeFile].by = a
=============================================================================
