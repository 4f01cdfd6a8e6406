------------------------- MODULE ArtifactUseProofs -------------------------
(***************************************************************************)
(* Proofs about ArtifactUse, for any cast: the scripts keep to the library *)
(* (so that what they publish is write-once), the model call is dispatched *)
(* and accepted once on durable evidence, a bundle's manifest comes last,  *)
(* and an output has one probe.                                            *)
(***************************************************************************)
EXTENDS ArtifactUse, ArtifactFilesProofs

-----------------------------------------------------------------------------
(* The names                                                               *)

\* Every family of names has a tag of its own.
LEMMA Tags ==
  /\ Identity[1] = "identity" /\ Intent[1] = "intent" /\ Claim[1] = "claim"
  /\ ModelFile[1] = "model" /\ ReplayFile[1] = "replay" /\ ActorFile[1] = "actor"
  /\ ManifestFile[1] = "manifest" /\ ProbeFile[1] = "probe"
  /\ \A run : Kept(run)[1] = "kept" /\ Proposal(run)[1] = "proposal"
              /\ Recipe(run)[1] = "recipe"
  /\ \A run, v : Receipt(run, v)[1] = "receipt"
  /\ \A record, reason : Refusal(record, reason)[1] = "refusal"
BY DEF Identity, Intent, Claim, ModelFile, ReplayFile, ActorFile, ManifestFile, ProbeFile,
       Kept, Proposal, Recipe, Receipt, Refusal

LEMMA Distinct ==
  /\ \A run, v, run2, v2 : Receipt(run, v) = Receipt(run2, v2) => run = run2 /\ v = v2
  /\ \A r, run, r2, run2 : Bound(r, run) = Bound(r2, run2) => r = r2 /\ run = run2
BY DEF Receipt, Bound

\* Except for the two reservations, every name is published.
LEMMA PublishedNames ==
  /\ Identity \in Published /\ Intent \in Published /\ Claim \in Published
  /\ \A n \in PerRun \cup Refusals \cup Streams : n \in Published
  /\ ManifestFile \in Reserved /\ ProbeFile \in Reserved
  /\ ManifestFile \in Names /\ ProbeFile \in Names
  /\ \A n \in CallNames : n \in Published
<1>1. \A n \in CallNames \cup Streams : n[1] \notin {"manifest", "probe"}
  BY Tags DEF CallNames, Streams, PerRun, Refusals
<1>2. \A n \in Reserved : n[1] \in {"manifest", "probe"}
  BY NamesUsed, Tags DEF BundleReserved
<1>3. CallNames \cup Streams \subseteq Names
  BY NamesUsed DEF BundleNames
<1>4. \A n \in CallNames \cup Streams : n \in Published
  BY <1>1, <1>2, <1>3 DEF Published
<1> QED BY <1>4, NamesUsed DEF CallNames, BundleReserved, BundleNames

LEMMA RunNames ==
  ASSUME NEW run \in Runs
  PROVE  /\ Kept(run) \in PerRun /\ Proposal(run) \in PerRun /\ Recipe(run) \in PerRun
         /\ \A v \in Verdicts : Receipt(run, v) \in PerRun
         /\ \A n \in PerRun : n \in Published /\ n \in Values
         /\ \A n \in {Kept(run), Proposal(run), Recipe(run)} \cup {Receipt(run, v) : v \in Verdicts} :
               Folder[n] = "records"
<1>1. PerRun \subseteq CallNames
  BY DEF CallNames
<1>2. \A n \in PerRun : CallFolder[n] = "records"
  BY <1>1 DEF CallFolder
<1> QED BY <1>1, <1>2, FolderUsed, PublishedNames, ValuesUsed DEF PerRun, CallValues

LEMMA CallFolders ==
  Folder[Identity] = "call" /\ Folder[Intent] = "call" /\ Folder[Claim] = "call"
<1>1. \A n \in {Identity, Intent, Claim} : n \in CallNames /\ n \notin PerRun /\ n \notin Refusals
  BY Tags DEF CallNames, PerRun, Refusals
<1> QED BY <1>1, FolderUsed DEF CallFolder

LEMMA ScriptValues ==
  /\ \A r \in Records : r \in Values
  /\ \A r \in Records, run \in Runs : Bound(r, run) \in Values
  /\ \A n \in Refusals : n \in Values /\ n \in CallNames
  /\ Final \in Values /\ Final # Provisional
BY ValuesUsed, ProvisionalIsNoValue DEF CallValues, CallNames

-----------------------------------------------------------------------------
(* The invariant                                                           *)

\* What a name shows, and that it does so for good.
Present(n, v) == dir[n] # NoFile /\ dir[n].data = v
Fixed(n, v) == Present(n, v) /\ disk[n] = dir[n]
Own(a, n) == dir[n] # NoFile /\ dir[n].by = a
OwnForGood(a, n) == Own(a, n) /\ disk[n] # NoFile /\ disk[n].by = a

\* Actor a is in a publication of v under n, or has just come out of it.
InCall(a, n, v) ==
    /\ call[a].name = n /\ call[a].data = v
    /\ call[a].at \in {"rename", "commit", "done", "refused"}
    /\ call[a].at \in {"commit", "done"} => Own(a, n) /\ Present(n, v)
    /\ call[a].at = "done" => n \in reported

DispatchPlaces == {"retainRefusal", "claimIdentity", "publishIntent"}
PublishPlaces == DispatchPlaces \cup {"retain", "claim", "proposal", "recipe", "receipt",
                                      "saveModel", "saveReplay", "exportActor"}

\* Only a script in the middle of a call has one under way.
CallsOfScripts(a) ==
    /\ call[a].at \in {"rename", "commit"} => at[a] \in PublishPlaces
    /\ call[a].at \in {"fill", "hold"} => at[a] \in {"reserveManifest", "reserveProbe"}
    /\ call[a].at \in {"exchange", "settle", "retire"} => at[a] \in {"publishManifest", "publishProbe"}

DispatchInv(a) ==
    /\ at[a] = "retainRefusal" => call[a].name \in Refusals
    /\ at[a] = "claimIdentity" => InCall(a, Identity, Record(a))
    /\ at[a] = "publishIntent" => InCall(a, Intent, Record(a))
    /\ at[a] = "dispatched" => Own(a, Intent) /\ Intent \in reported

Ingesting == {"readIntent", "claim", "judge", "proposal", "recipe", "receipt"}

\* What an ingestion knows still holds: a published name does not change while
\* the process lives.
KnowledgeInv(a) ==
    /\ at[a] = "readIntent" /\ know[a].identity # NoFile => Present(Identity, know[a].identity)
    /\ know[a].kept => at[a] \in Ingesting /\ Present(Kept(Run(a)), Kept(Run(a)))
    /\ at[a] \in {"judge", "proposal", "recipe", "receipt"} => know[a].intent # "unknown"
    /\ at[a] \in {"proposal", "recipe"} => Verdict(a) = "accepted"

\* What an acceptance rests on.
Evidence(a) ==
    /\ Fixed(Identity, Record(a)) /\ Fixed(Intent, Record(a))
    /\ Fixed(Claim, Bound(Record(a), Run(a))) /\ Own(a, Claim) /\ Claim \in reported

IngestInv(a) ==
    /\ at[a] = "retain" => InCall(a, Kept(Run(a)), Kept(Run(a)))
    /\ at[a] = "claim" =>
          /\ InCall(a, Claim, Bound(Record(a), Run(a)))
          /\ know[a].intent = "verified"
          /\ Present(Identity, Record(a)) /\ Present(Intent, Record(a))
          /\ call[a].at = "done" => disk[Identity] = dir[Identity] /\ disk[Intent] = dir[Intent]
    /\ at[a] \in {"judge", "proposal", "recipe", "receipt"} /\ Verdict(a) = "accepted"
          => Evidence(a)
    /\ at[a] = "proposal" => InCall(a, Proposal(Run(a)), Proposal(Run(a)))
    /\ at[a] = "recipe" => /\ InCall(a, Recipe(Run(a)), Recipe(Run(a)))
                           /\ Present(Proposal(Run(a)), Proposal(Run(a)))
    /\ at[a] = "receipt" =>
          /\ InCall(a, Receipt(Run(a), Verdict(a)), Receipt(Run(a), Verdict(a)))
          /\ Verdict(a) = "accepted" => /\ Present(Proposal(Run(a)), Proposal(Run(a)))
                                        /\ Present(Recipe(Run(a)), Recipe(Run(a)))
    /\ at[a] = "accepted" => Claim \in reported /\ Own(a, Claim)

\* An accepted receipt, whoever wrote it and whatever became of him.
ReceiptInv ==
    \A run \in Runs : ~Free(Receipt(run, "accepted")) =>
        \E record \in Records :
            /\ Fixed(Identity, record) /\ Fixed(Intent, record)
            /\ Fixed(Claim, Bound(record, run))
            /\ quality[run] = [made |-> record, holds |-> "good"]
            /\ Receipt(run, "accepted") \in reported =>
                  \A n \in {Kept(run), Proposal(run), Recipe(run)} : Fixed(n, n)

Saved(n) == n \in reported /\ Present(n, Final)

SaveInv(a) ==
    /\ at[a] = "reserveManifest" => call[a].name = ManifestFile
    /\ at[a] = "saveModel" => InCall(a, ModelFile, Final)
    /\ at[a] = "saveReplay" => InCall(a, ReplayFile, Final) /\ Saved(ModelFile)
    /\ at[a] = "exportActor" =>
          InCall(a, ActorFile, Final) /\ Saved(ModelFile) /\ Saved(ReplayFile)
    /\ at[a] = "publishManifest" =>
          call[a].name = ManifestFile /\ \A n \in Streams : Saved(n)

\* A record of the manifest other than the provisional one, seen or permanent.
ManifestInv ==
    \A file \in {dir[ManifestFile], disk[ManifestFile]} :
        file # NoFile /\ file.data = Final =>
            /\ file.whole /\ file.flushed
            /\ \A n \in Streams : Saved(n)

ProbeInv(a) ==
    /\ at[a] = "reserveProbe" =>
          /\ call[a].name = ProbeFile
          /\ call[a].at \in {"fill", "hold"} => Own(a, ProbeFile)
          /\ call[a].at = "done" => OwnForGood(a, ProbeFile)
    /\ at[a] = "publishProbe" => call[a].name = ProbeFile /\ OwnForGood(a, ProbeFile)
    /\ at[a] = "reported" => OwnForGood(a, ProbeFile)

ScriptInv(a) ==
    /\ CallsOfScripts(a) /\ DispatchInv(a) /\ KnowledgeInv(a) /\ IngestInv(a)
    /\ SaveInv(a)

IInv == /\ TypeOK
        /\ FInv
        /\ \A a \in Actors : ScriptInv(a) /\ ProbeInv(a)
        /\ ReceiptInv
        /\ ManifestInv

-----------------------------------------------------------------------------
(* Helpers                                                                 *)

LEMMA CastTypes ==
    ASSUME TypeOK, NEW a \in Actors
    PROVE  /\ Record(a) \in Records /\ Run(a) \in Runs
           /\ quality \in Quality
           /\ know[a] \in Knowledge
           /\ at[a] \in Places
BY SceneType DEF TypeOK, Record, Run

LEMMA AcceptedVerdict ==
    ASSUME TypeOK, NEW a \in Actors
    PROVE  /\ Verdict(a) = "accepted" <=>
                 /\ know[a].intent = "verified" /\ ~know[a].replay /\ know[a].kept
                 /\ quality[Run(a)] = [made |-> Record(a), holds |-> "good"]
           /\ know[a].intent # "unknown" => Verdict(a) \in Verdicts
<1>1. know[a].intent \in {"unknown", "missing", "mismatched", "verified"}
      /\ know[a].replay \in BOOLEAN /\ know[a].kept \in BOOLEAN
  BY CastTypes DEF Knowledge
<1>2. CASE know[a].intent # "verified"
  BY <1>1, <1>2 DEF Verdict, Verdicts
<1>3. CASE know[a].intent = "verified"
  BY <1>1, <1>3 DEF Verdict, Verdicts
<1> QED BY <1>2, <1>3

\* What an actor's script rests on is left alone by everybody else.
LEMMA OthersKeep ==
    ASSUME IInv, FInv', Calm, NEW b \in Actors, UNCHANGED <<cast, quality>>,
           at'[b] = at[b], call'[b] = call[b], know'[b] = know[b]
    PROVE  ScriptInv(b)'
<1>1. /\ TypeOK /\ FInv /\ CallsOfScripts(b) /\ DispatchInv(b) /\ KnowledgeInv(b)
      /\ IngestInv(b) /\ SaveInv(b)
  BY DEF IInv, ScriptInv
<1>2. /\ Record(b)' = Record(b) /\ Run(b)' = Run(b) /\ Verdict(b)' = Verdict(b)
      /\ Record(b) \in Records /\ Run(b) \in Runs
  BY <1>1, CastTypes DEF Record, Run, Verdict
<1>3. /\ Kept(Run(b)) \in Published /\ Proposal(Run(b)) \in Published
      /\ Recipe(Run(b)) \in Published
      /\ Verdict(b) \in Verdicts => Receipt(Run(b), Verdict(b)) \in Published
      /\ Identity \in Published /\ Intent \in Published /\ Claim \in Published
      /\ \A n \in Streams : n \in Published
      /\ ModelFile \in Streams /\ ReplayFile \in Streams /\ ActorFile \in Streams
  BY <1>2, RunNames, PublishedNames DEF Streams
<1>5. CallsOfScripts(b)'
  BY <1>1 DEF CallsOfScripts
<1>6. DispatchInv(b)'
  BY <1>1, <1>2, <1>3 DEF DispatchInv, Calm, InCall, Own, Present
<1>7. KnowledgeInv(b)'
  BY <1>1, <1>2, <1>3 DEF KnowledgeInv, Calm, Present
<1>8. IngestInv(b)'
  <2>1. Evidence(b) => Evidence(b)'
    BY <1>2, <1>3 DEF Evidence, Calm, Fixed, Present, Own
  <2>2. at[b] = "receipt" => Verdict(b) \in Verdicts
    BY <1>1, AcceptedVerdict DEF KnowledgeInv
  <2>3. CASE at[b] = "claim"
    BY <1>1, <1>2, <1>3, <2>3 DEF IngestInv, Present, Calm, InCall, Own
  <2>4. CASE at[b] = "retain"
    BY <1>1, <1>2, <1>3, <2>4 DEF IngestInv, Calm, InCall, Own, Present
  <2>5. CASE at[b] = "proposal"
    BY <1>1, <1>2, <1>3, <2>1, <2>5 DEF IngestInv, Calm, InCall, Own, Present
  <2>6. CASE at[b] = "recipe"
    BY <1>1, <1>2, <1>3, <2>1, <2>6 DEF IngestInv, Calm, InCall, Own, Present
  <2>7. CASE at[b] = "receipt"
    BY <1>1, <1>2, <1>3, <2>1, <2>2, <2>7 DEF IngestInv, Calm, InCall, Own, Present
  <2>8. CASE at[b] = "accepted"
    BY <1>1, <1>2, <1>3, <2>8 DEF IngestInv, Calm, Own
  <2>9. CASE at[b] = "judge"
    BY <1>1, <1>2, <2>1, <2>9 DEF IngestInv
  <2>10. CASE at[b] \notin {"claim", "retain", "proposal", "recipe", "receipt", "accepted", "judge"}
    BY <2>10 DEF IngestInv
  <2> QED BY <2>3, <2>4, <2>5, <2>6, <2>7, <2>8, <2>9, <2>10
<1>9. SaveInv(b)'
  <2>1. \A n \in Streams : Saved(n) => n \in reported' /\ dir'[n] # NoFile /\ dir'[n].data = Final
    BY <1>3 DEF Saved, Calm, Present
  <2> QED BY <1>1, <1>3, <2>1 DEF SaveInv, Calm, InCall, Own, Present, Saved
<1> QED BY <1>5, <1>6, <1>7, <1>8, <1>9 DEF ScriptInv

-----------------------------------------------------------------------------
(* The steps of the scripts                                                *)

\* A step of actor a that leaves the scripts and calls of all others alone.
Local(a) ==
    /\ at' \in [Actors -> Places] /\ know' \in [Actors -> Knowledge]
    /\ call' \in [Actors -> Call]
    /\ \A b \in Actors \ {a} : at'[b] = at[b] /\ call'[b] = call[b] /\ know'[b] = know[b]
    /\ UNCHANGED <<cast, quality>>

LEMMA PrepareEnters ==
    ASSUME TypeOK, NEW a \in Actors, NEW n \in Published, NEW v \in Values, Prepare(a, n, v)
    PROVE  /\ FilesStep(a)
           /\ call'[a].name = n /\ call'[a].data = v /\ call'[a].at \in {"rename", "refused"}
           /\ call' \in [Actors -> Call]
           /\ \A b \in Actors \ {a} : call'[b] = call[b]
           /\ UNCHANGED <<dir, disk, reported>>
<1>1. PICK s \in {"rename", "refused"} : Enter(a, s, n, v)
  BY DEF Prepare
<1>2. FilesTypeOK /\ n \in Names \ Reserved
  BY DEF TypeOK, Published
<1> QED BY <1>1, <1>2, Entered DEF Prepare, Working, FilesStep

LEMMA MovesTo ==
    ASSUME TypeOK, NEW a \in Actors, NEW s \in Places, Moves(a, s)
    PROVE  /\ at' \in [Actors -> Places] /\ at'[a] = s
           /\ \A b \in Actors \ {a} : at'[b] = at[b]
BY DEF Moves, TypeOK

LEMMA LearnsThat ==
    ASSUME TypeOK, NEW a \in Actors, NEW k \in Knowledge, Learns(a, k)
    PROVE  /\ know' \in [Actors -> Knowledge] /\ know'[a] = k
           /\ \A b \in Actors \ {a} : know'[b] = know[b]
BY DEF Learns, TypeOK

LEMMA BlankKnows == Blank \in Knowledge
BY DEF Blank, Knowledge

LEMMA DispatchSteps ==
    ASSUME IInv, NEW a \in Actors, Dispatch(a)
    PROVE  /\ FilesStep(a) \/ UNCHANGED fileVars
           /\ UNCHANGED <<dir, disk, reported>>
           /\ Local(a) /\ ScriptInv(a)'
<1>1. TypeOK /\ FInv /\ CallsOfScripts(a) /\ DispatchInv(a) /\ KnowledgeInv(a)
  BY DEF IInv, ScriptInv
<1>2. Record(a) \in Records /\ Run(a) \in Runs /\ Record(a) \in Values
  BY <1>1, CastTypes, ScriptValues
<1>3. Identity \in Published /\ Intent \in Published
  BY PublishedNames
<1>4. at \in [Actors -> Places] /\ know \in [Actors -> Knowledge] /\ call \in [Actors -> Call]
  BY <1>1 DEF TypeOK, FilesTypeOK
<1>5. ASSUME NEW reason \in Reasons, Retain(a, reason), at[a] \notin Ingesting
      PROVE  /\ FilesStep(a) \/ UNCHANGED fileVars
             /\ UNCHANGED <<dir, disk, reported>>
             /\ Local(a) /\ ScriptInv(a)'
  <2> DEFINE n == Refusal(Record(a), reason)
  <2>1. n \in Refusals /\ n \in Published /\ n \in Values
    BY <1>2, ScriptValues, PublishedNames DEF Refusals
  <2>2. /\ FilesStep(a) /\ call'[a].name = n /\ call'[a].at \in {"rename", "refused"}
        /\ call' \in [Actors -> Call]
        /\ \A b \in Actors \ {a} : call'[b] = call[b]
        /\ UNCHANGED <<dir, disk, reported>>
    BY <1>1, <1>5, <2>1, PrepareEnters DEF Retain
  <2>3. at' \in [Actors -> Places] /\ at'[a] = "retainRefusal"
        /\ \A b \in Actors \ {a} : at'[b] = at[b]
    BY <1>1, <1>5, MovesTo DEF Retain, Places
  <2>4. Local(a)
    BY <1>4, <1>5, <2>2, <2>3 DEF Retain, Local
  <2>5. know' = know /\ cast' = cast
    BY <1>5 DEF Retain
  <2> HIDE DEF n
  <2>6. ScriptInv(a)'
    BY <1>1, <1>5, <2>1, <2>2, <2>3, <2>5
    DEF ScriptInv, CallsOfScripts, DispatchInv, KnowledgeInv, Ingesting, IngestInv, SaveInv,
        PublishPlaces, DispatchPlaces, Present, Run
  <2> QED BY <2>2, <2>4, <2>6
<1>6. CASE DispatchElsewhere(a)
  BY <1>5, <1>6 DEF DispatchElsewhere, Reasons, Ingesting
<1>7. CASE IdentityTaken(a)
  BY <1>5, <1>7 DEF IdentityTaken, Reasons, Ingesting
<1>8. CASE IntentTaken(a)
  BY <1>5, <1>8 DEF IntentTaken, Reasons, Ingesting
<1>9. CASE ClaimIdentity(a) \/ PublishIntent(a)
  <2>1. PICK n \in {Identity, Intent}, s \in {"claimIdentity", "publishIntent"} :
           /\ Prepare(a, n, Record(a)) /\ Moves(a, s) /\ UNCHANGED <<cast, quality, know>>
           /\ (n = Identity /\ s = "claimIdentity") \/ (n = Intent /\ s = "publishIntent")
           /\ at[a] \notin Ingesting
    BY <1>9 DEF Ingesting, ClaimIdentity, PublishIntent
  <2>2. /\ FilesStep(a) /\ call'[a].name = n /\ call'[a].data = Record(a)
        /\ call'[a].at \in {"rename", "refused"}
        /\ call' \in [Actors -> Call]
        /\ \A b \in Actors \ {a} : call'[b] = call[b]
        /\ UNCHANGED <<dir, disk, reported>>
    BY <1>1, <1>2, <1>3, <2>1, PrepareEnters
  <2>3. at' \in [Actors -> Places] /\ at'[a] = s
        /\ \A b \in Actors \ {a} : at'[b] = at[b]
    BY <1>1, <2>1, MovesTo DEF Places
  <2>4. Local(a)
    BY <1>4, <2>1, <2>2, <2>3 DEF Local
  <2>5. ScriptInv(a)'
    BY <1>1, <2>1, <2>2, <2>3
    DEF ScriptInv, CallsOfScripts, DispatchInv, KnowledgeInv, Ingesting, IngestInv, SaveInv, InCall,
        PublishPlaces, DispatchPlaces, Present, Run, Record
  <2> QED BY <2>2, <2>4, <2>5
<1>10. CASE Dispatched(a) \/ DispatchRaises(a)
  <2>1. PICK s \in {"dispatched", "raised"} :
           /\ Moves(a, s) /\ UNCHANGED <<fileVars, cast, quality, know>>
           /\ s = "dispatched" => at[a] = "publishIntent" /\ Done(a)
           /\ Done(a) \/ Refused(a)
           /\ at[a] \notin Ingesting
    BY <1>10 DEF Ingesting, Dispatched, DispatchRaises
  <2>2. at' \in [Actors -> Places] /\ at'[a] = s
        /\ \A b \in Actors \ {a} : at'[b] = at[b]
    BY <1>1, <2>1, MovesTo DEF Places, Ends
  <2>3. Local(a)
    BY <1>4, <2>1, <2>2 DEF Local, fileVars
  <2>4. s = "dispatched" => Own(a, Intent) /\ Intent \in reported
    BY <1>1, <2>1 DEF DispatchInv, InCall, Done
  <2>5. ScriptInv(a)'
    BY <1>1, <2>1, <2>2, <2>4
    DEF ScriptInv, CallsOfScripts, DispatchInv, KnowledgeInv, Ingesting, IngestInv, SaveInv,
        PublishPlaces, DispatchPlaces, Present, Run, fileVars, Done, Refused, Own
  <2> QED BY <2>1, <2>3, <2>5 DEF fileVars
<1> QED BY <1>6, <1>7, <1>8, <1>9, <1>10 DEF Dispatch

\* A script that begins the publication of v under n and keeps what it knows.
LEMMA Publishing ==
    ASSUME IInv, NEW a \in Actors, NEW n \in Published, NEW v \in Values, NEW s \in Places,
           Prepare(a, n, v), Moves(a, s), UNCHANGED <<cast, quality, know>>
    PROVE  /\ FilesStep(a) /\ Local(a)
           /\ call'[a].name = n /\ call'[a].data = v /\ call'[a].at \in {"rename", "refused"}
           /\ at'[a] = s
           /\ UNCHANGED <<dir, disk, reported>>
           /\ Record(a)' = Record(a) /\ Run(a)' = Run(a) /\ Verdict(a)' = Verdict(a)
           /\ know'[a] = know[a]
<1>1. TypeOK
  BY DEF IInv
<1>2. Verdict(a)' = Verdict(a)
  BY DEF Verdict, Run, Record
<1>3. know' \in [Actors -> Knowledge]
  BY <1>1 DEF TypeOK
<1> QED BY <1>1, <1>2, <1>3, PrepareEnters, MovesTo DEF Local, Record, Run

\* A script that makes no call.
LEMMA Thinking ==
    ASSUME IInv, NEW a \in Actors, NEW s \in Places, NEW k \in Knowledge,
           Moves(a, s), Learns(a, k), UNCHANGED <<fileVars, cast, quality>>
    PROVE  /\ Local(a)
           /\ at'[a] = s /\ know'[a] = k /\ call'[a] = call[a]
           /\ UNCHANGED <<dir, disk, reported>>
           /\ Record(a)' = Record(a) /\ Run(a)' = Run(a)
<1>1. TypeOK
  BY DEF IInv
<1>2. call' \in [Actors -> Call]
  BY <1>1 DEF TypeOK, FilesTypeOK, fileVars
<1> QED BY <1>1, <1>2, MovesTo, LearnsThat DEF Local, Record, Run, fileVars

LEMMA IngestSteps ==
    ASSUME IInv, NEW a \in Actors, Ingest(a)
    PROVE  /\ FilesStep(a) \/ UNCHANGED fileVars
           /\ UNCHANGED <<dir, disk, reported>>
           /\ Local(a) /\ ScriptInv(a)'
<1>1. TypeOK /\ FInv /\ CallsOfScripts(a) /\ KnowledgeInv(a) /\ IngestInv(a)
  BY DEF IInv, ScriptInv
<1>2. Record(a) \in Records /\ Run(a) \in Runs
      /\ Bound(Record(a), Run(a)) \in Values
  BY <1>1, CastTypes, ScriptValues
<1>3. /\ Kept(Run(a)) \in Published /\ Kept(Run(a)) \in Values
      /\ Proposal(Run(a)) \in Published /\ Proposal(Run(a)) \in Values
      /\ Recipe(Run(a)) \in Published /\ Recipe(Run(a)) \in Values
      /\ \A v \in Verdicts : Receipt(Run(a), v) \in Published /\ Receipt(Run(a), v) \in Values
      /\ Identity \in Published /\ Intent \in Published /\ Claim \in Published
  BY <1>2, RunNames, PublishedNames
<1>4. know[a] \in Knowledge
  BY <1>1, CastTypes
<1>5. CASE RetainRun(a)
  <2>1. Prepare(a, Kept(Run(a)), Kept(Run(a))) /\ Moves(a, "retain")
        /\ UNCHANGED <<cast, quality, know>> /\ at[a] = "ingest"
    BY <1>5 DEF RetainRun
  <2>2. /\ FilesStep(a) /\ Local(a) /\ at'[a] = "retain"
        /\ call'[a].name = Kept(Run(a)) /\ call'[a].data = Kept(Run(a))
        /\ call'[a].at \in {"rename", "refused"}
        /\ UNCHANGED <<dir, disk, reported>> /\ Run(a)' = Run(a) /\ know'[a] = know[a]
    BY <1>3, <2>1, Publishing DEF Places
  <2>3. ScriptInv(a)'
    BY <1>1, <2>1, <2>2
    DEF ScriptInv, CallsOfScripts, DispatchInv, KnowledgeInv, Ingesting, IngestInv, SaveInv, InCall,
        PublishPlaces, Present
  <2> QED BY <2>2, <2>3
<1>6. CASE ReadIdentity(a)
  <2> DEFINE k == [know[a] EXCEPT !.kept = at[a] = "retain",
                         !.identity = IF Free(Identity) THEN NoFile ELSE dir[Identity].data]
  <2>1. dir[Identity] # NoFile => dir[Identity].data \in Values
    BY <1>1, <1>3 DEF FInv, SealedFiles, Sealed
  <2>2. k \in Knowledge /\ (k.kept => at[a] = "retain")
        /\ (k.identity # NoFile => Present(Identity, k.identity))
    BY <1>4, <2>1 DEF Knowledge, Free, Present
  <2>3. Moves(a, "readIntent") /\ Learns(a, k) /\ UNCHANGED <<fileVars, cast, quality>>
        /\ (at[a] = "retain" => Stored(a))
    BY <1>6 DEF ReadIdentity
  <2>4. call[a].at \notin Working
    BY <1>1, <1>6 DEF ReadIdentity, Stored, Done, Refused, CallsOfScripts, PublishPlaces,
                      DispatchPlaces, Working
  <2>5. at[a] = "retain" => Present(Kept(Run(a)), Kept(Run(a)))
    BY <1>1, <2>3 DEF IngestInv, InCall, Stored, Done, Refused, Shows, Present
  <2> HIDE DEF k
  <2>6. /\ Local(a) /\ at'[a] = "readIntent" /\ know'[a] = k /\ call'[a] = call[a]
        /\ UNCHANGED <<dir, disk, reported>> /\ Run(a)' = Run(a)
    BY <2>2, <2>3, Thinking DEF Places
  <2>7. ScriptInv(a)'
    BY <2>2, <2>4, <2>5, <2>6
    DEF ScriptInv, CallsOfScripts, DispatchInv, KnowledgeInv, Ingesting, IngestInv, SaveInv, Present, Working
  <2> QED BY <2>3, <2>6, <2>7
<1>7. CASE ReadIntent(a)
  <2> DEFINE k == [know[a] EXCEPT !.intent = IntentFound(a)]
  <2>1. k \in Knowledge /\ k.intent \in {"missing", "mismatched"} /\ k.kept = know[a].kept
    BY <1>4, <1>7 DEF Knowledge, ReadIntent, IntentFound
  <2>2. Moves(a, "judge") /\ Learns(a, k) /\ UNCHANGED <<fileVars, cast, quality>>
        /\ at[a] = "readIntent"
    BY <1>7 DEF ReadIntent
  <2>3. call[a].at \notin Working
    BY <1>1, <2>2 DEF CallsOfScripts, PublishPlaces, DispatchPlaces, Working
  <2> HIDE DEF k
  <2>4. /\ Local(a) /\ at'[a] = "judge" /\ know'[a] = k /\ call'[a] = call[a]
        /\ UNCHANGED <<dir, disk, reported>> /\ Run(a)' = Run(a)
    BY <2>1, <2>2, Thinking DEF Places
  <2>5. Verdict(a)' # "accepted"
    BY <2>1, <2>4 DEF Verdict
  <2>6. ScriptInv(a)'
    BY <1>1, <2>1, <2>3, <2>4, <2>5
    DEF ScriptInv, CallsOfScripts, DispatchInv, KnowledgeInv, Ingesting, IngestInv, SaveInv, Present, Working
  <2> QED BY <2>2, <2>4, <2>6
<1>8. CASE ClaimIngestion(a)
  <2> DEFINE k == [know[a] EXCEPT !.intent = "verified"]
  <2>1. k \in Knowledge /\ k.intent = "verified" /\ k.kept = know[a].kept
    BY <1>4 DEF Knowledge
  <2>2. /\ Prepare(a, Claim, Bound(Record(a), Run(a))) /\ Moves(a, "claim") /\ Learns(a, k)
        /\ UNCHANGED <<cast, quality>> /\ at[a] = "readIntent" /\ IntentFound(a) = "verified"
    BY <1>8 DEF ClaimIngestion
  <2>3. Present(Identity, Record(a)) /\ Present(Intent, Record(a))
    BY <1>1, <1>2, <2>2, ScriptValues, NoFileIsNoValue
    DEF IntentFound, KnowledgeInv, Present, Shows, Free
  <2> HIDE DEF k
  <2>4. /\ FilesStep(a) /\ call'[a].name = Claim /\ call'[a].data = Bound(Record(a), Run(a))
        /\ call'[a].at \in {"rename", "refused"}
        /\ call' \in [Actors -> Call]
        /\ \A b \in Actors \ {a} : call'[b] = call[b]
        /\ UNCHANGED <<dir, disk, reported>>
    BY <1>1, <1>2, <1>3, <2>2, PrepareEnters
  <2>5. /\ Local(a) /\ at'[a] = "claim" /\ know'[a] = k
        /\ Run(a)' = Run(a) /\ Record(a)' = Record(a)
    BY <1>1, <2>1, <2>2, <2>4, MovesTo, LearnsThat DEF Places, Local, Run, Record
  <2>6. ScriptInv(a)'
    BY <1>1, <2>1, <2>3, <2>4, <2>5
    DEF ScriptInv, CallsOfScripts, DispatchInv, KnowledgeInv, Ingesting, IngestInv, SaveInv, InCall,
        PublishPlaces, Present
  <2> QED BY <2>4, <2>5, <2>6
<1>9. CASE ClaimAnswered(a)
  <2> DEFINE k == [know[a] EXCEPT !.replay = Refused(a)]
  <2>1. k \in Knowledge /\ k.intent = know[a].intent /\ k.kept = know[a].kept
        /\ (k.replay <=> Refused(a))
    BY <1>4 DEF Knowledge, Refused
  <2>2. Moves(a, "judge") /\ Learns(a, k) /\ UNCHANGED <<fileVars, cast, quality>>
        /\ at[a] = "claim" /\ (Done(a) \/ Refused(a))
    BY <1>9 DEF ClaimAnswered
  <2>3. call[a].at \notin Working
    BY <2>2 DEF Done, Refused, Working
  <2>4. Done(a) => Evidence(a)
    BY <1>1, <1>3, <2>2 DEF IngestInv, InCall, Done, Evidence, Fixed, FInv, ReportedFiles, Present
  <2> HIDE DEF k
  <2>5. /\ Local(a) /\ at'[a] = "judge" /\ know'[a] = k /\ call'[a] = call[a]
        /\ UNCHANGED <<dir, disk, reported>> /\ Run(a)' = Run(a) /\ Record(a)' = Record(a)
    BY <2>1, <2>2, Thinking DEF Places
  <2>6. Verdict(a)' = "accepted" => Evidence(a)'
    <3>1. k.replay /\ k.intent = "verified" => Verdict(a)' # "accepted"
      BY <2>5 DEF Verdict
    <3>2. know[a].intent = "verified"
      BY <1>1, <2>2 DEF IngestInv
    <3>3. Evidence(a) => Evidence(a)'
      BY <2>5 DEF Evidence, Fixed, Present, Own
    <3> QED BY <2>1, <2>2, <2>4, <3>1, <3>2, <3>3
  <2>7. ScriptInv(a)'
    BY <1>1, <2>1, <2>2, <2>3, <2>5, <2>6
    DEF ScriptInv, CallsOfScripts, DispatchInv, KnowledgeInv, Ingesting, IngestInv, SaveInv, Present, Working
  <2> QED BY <2>2, <2>5, <2>7
<1>10. ASSUME at[a] \in {"judge", "recipe"}, WriteReceipt(a),
              Verdict(a) = "accepted" <=> at[a] = "recipe", at[a] = "recipe" => Stored(a)
       PROVE  /\ FilesStep(a) /\ UNCHANGED <<dir, disk, reported>>
              /\ Local(a) /\ ScriptInv(a)'
  <2> DEFINE n == Receipt(Run(a), Verdict(a))
  <2>1. n \in Published /\ n \in Values
    <3>1. Verdict(a) \in Verdicts
      BY <1>1, <1>10, AcceptedVerdict DEF KnowledgeInv, Verdicts
    <3> QED BY <1>3, <3>1
  <2>2. Prepare(a, n, n) /\ Moves(a, "receipt") /\ UNCHANGED <<cast, quality, know>>
    BY <1>10 DEF WriteReceipt
  <2>3. /\ FilesStep(a) /\ Local(a) /\ at'[a] = "receipt"
        /\ call'[a].name = n /\ call'[a].data = n /\ call'[a].at \in {"rename", "refused"}
        /\ UNCHANGED <<dir, disk, reported>> /\ Run(a)' = Run(a) /\ Record(a)' = Record(a)
        /\ Verdict(a)' = Verdict(a) /\ know'[a] = know[a]
    BY <2>1, <2>2, Publishing DEF Places
  <2>4. at[a] = "recipe" => Present(Recipe(Run(a)), Recipe(Run(a)))
                            /\ Present(Proposal(Run(a)), Proposal(Run(a)))
    BY <1>1, <1>10 DEF IngestInv, InCall, Stored, Done, Refused, Shows, Present
  <2>5. Verdict(a) = "accepted" => Evidence(a)'
    <3>1. Evidence(a) => Evidence(a)'
      BY <2>3 DEF Evidence, Fixed, Present, Own
    <3> QED BY <1>1, <1>10, <3>1 DEF IngestInv
  <2>6. InCall(a, Receipt(Run(a), Verdict(a)), Receipt(Run(a), Verdict(a)))'
    BY <2>3 DEF InCall
  <2>7. ScriptInv(a)'
    BY <1>1, <1>10, <2>3, <2>4, <2>5, <2>6
    DEF ScriptInv, CallsOfScripts, DispatchInv, KnowledgeInv, Ingesting, IngestInv, SaveInv,
        PublishPlaces, Present
  <2> QED BY <2>3, <2>7
<1>11. CASE Judge(a)
  BY <1>10, <1>11 DEF Judge
<1>12. CASE WriteAcceptance(a)
  BY <1>1, <1>10, <1>12 DEF WriteAcceptance, KnowledgeInv
<1>13. CASE WriteProposal(a)
  <2>1. Prepare(a, Proposal(Run(a)), Proposal(Run(a))) /\ Moves(a, "proposal")
        /\ UNCHANGED <<cast, quality, know>> /\ at[a] = "judge" /\ Verdict(a) = "accepted"
    BY <1>13 DEF WriteProposal
  <2>2. /\ FilesStep(a) /\ Local(a) /\ at'[a] = "proposal"
        /\ call'[a].name = Proposal(Run(a)) /\ call'[a].data = Proposal(Run(a))
        /\ call'[a].at \in {"rename", "refused"}
        /\ UNCHANGED <<dir, disk, reported>> /\ Run(a)' = Run(a) /\ Record(a)' = Record(a)
        /\ Verdict(a)' = Verdict(a) /\ know'[a] = know[a]
    BY <1>3, <2>1, Publishing DEF Places
  <2>3. Evidence(a)'
    BY <1>1, <2>1, <2>2 DEF IngestInv, Evidence, Fixed, Present, Own
  <2>4. ScriptInv(a)'
    BY <1>1, <2>1, <2>2, <2>3
    DEF ScriptInv, CallsOfScripts, DispatchInv, KnowledgeInv, Ingesting, IngestInv, SaveInv, InCall,
        PublishPlaces, Present
  <2> QED BY <2>2, <2>4
<1>14. CASE WriteRecipe(a)
  <2>1. Prepare(a, Recipe(Run(a)), Recipe(Run(a))) /\ Moves(a, "recipe")
        /\ UNCHANGED <<cast, quality, know>> /\ at[a] = "proposal" /\ Stored(a)
        /\ Verdict(a) = "accepted"
    BY <1>1, <1>14 DEF WriteRecipe, KnowledgeInv
  <2>2. /\ FilesStep(a) /\ Local(a) /\ at'[a] = "recipe"
        /\ call'[a].name = Recipe(Run(a)) /\ call'[a].data = Recipe(Run(a))
        /\ call'[a].at \in {"rename", "refused"}
        /\ UNCHANGED <<dir, disk, reported>> /\ Run(a)' = Run(a) /\ Record(a)' = Record(a)
        /\ Verdict(a)' = Verdict(a) /\ know'[a] = know[a]
    BY <1>3, <2>1, Publishing DEF Places
  <2>3. Evidence(a)'
    BY <1>1, <2>1, <2>2 DEF IngestInv, Evidence, Fixed, Present, Own
  <2>4. Present(Proposal(Run(a)), Proposal(Run(a)))
    BY <1>1, <2>1 DEF IngestInv, InCall, Stored, Done, Refused, Shows, Present
  <2>5. ScriptInv(a)'
    BY <1>1, <2>1, <2>2, <2>3, <2>4
    DEF ScriptInv, CallsOfScripts, DispatchInv, KnowledgeInv, Ingesting, IngestInv, SaveInv, InCall,
        PublishPlaces, Present
  <2> QED BY <2>2, <2>5
<1>15. CASE Ingested(a) \/ IngestRaises(a)
  <2>1. PICK s \in {"accepted", "rejected", "raised"} :
           /\ Moves(a, s) /\ Learns(a, Blank) /\ UNCHANGED <<fileVars, cast, quality>>
           /\ Done(a) \/ Refused(a)
           /\ s = "accepted" => at[a] = "receipt" /\ Verdict(a) = "accepted"
    BY <1>15 DEF Ingested, IngestRaises, Stored
  <2>2. /\ Local(a) /\ at'[a] = s /\ know'[a] = Blank /\ call'[a] = call[a]
        /\ UNCHANGED <<dir, disk, reported>>
    BY <2>1, BlankKnows, Thinking DEF Places, Ends
  <2>3. s = "accepted" => Claim \in reported /\ Own(a, Claim)
    BY <1>1, <2>1 DEF IngestInv, Evidence
  <2>4. ScriptInv(a)'
    BY <1>1, <2>1, <2>2, <2>3
    DEF ScriptInv, CallsOfScripts, DispatchInv, KnowledgeInv, Ingesting, IngestInv, SaveInv, Blank,
        Done, Refused, Own
  <2> QED BY <2>1, <2>2, <2>4
<1> QED BY <1>5, <1>6, <1>7, <1>8, <1>9, <1>11, <1>12, <1>13, <1>14, <1>15 DEF Ingest

LEMMA SaverPlaces ==
    /\ SaveScript[1] = "save" /\ SaveScript[2] = "reserveModel"
    /\ SaveScript[3] = "reserveReplay" /\ SaveScript[4] = "reserveActor"
    /\ SaveScript[5] = "reserveManifest" /\ SaveScript[6] = "saveModel"
    /\ SaveScript[7] = "saveReplay" /\ SaveScript[8] = "exportActor"
    /\ SaveScript[9] = "publishManifest" /\ SaveScript[10] = "saved"
    /\ \A i \in 1..10 : SaveScript[i] \in SavePlaces /\ SaveScript[i] \in Places
<1>1. DOMAIN SaveScript = 1..10
  BY DEF SaveScript
<1> QED BY <1>1 DEF SaveScript, SavePlaces, Places

\* A script that goes on to a reservation or to the end of one.
LEMMA Reserving ==
    ASSUME IInv, NEW a \in Actors, NEW s \in Places, Moves(a, s),
           UNCHANGED <<cast, quality, know>>,
           \/ \E n \in Streams : ReserveStream(a, n, Final)
           \/ \E n \in Streams : FinalizeStream(a, n, Final)
           \/ \E n \in Reserved : ReserveJson(a, n)
           \/ \E n \in Reserved : FinalizeJson(a, n, Final)
           \/ UNCHANGED fileVars
    PROVE  /\ FilesStep(a) \/ UNCHANGED fileVars
           /\ Local(a) /\ at'[a] = s /\ know'[a] = know[a] /\ Run(a)' = Run(a)
           /\ \A n \in Published : dir'[n] = dir[n]
           /\ UNCHANGED <<disk, reported>>
           /\ \A n \in Streams :
                 /\ ReserveStream(a, n, Final) => call'[a].at \in {"done", "refused"}
                 /\ FinalizeStream(a, n, Final)
                       => call'[a].at = "rename" /\ call'[a].name = n /\ call'[a].data = Final
           /\ \A n \in Reserved :
                 /\ ReserveJson(a, n) => call'[a].at \in {"fill", "refused"} /\ call'[a].name = n
                 /\ FinalizeJson(a, n, Final)
                       => call'[a].at \in {"exchange", "refused"} /\ call'[a].name = n
<1>1. TypeOK /\ FilesTypeOK
  BY DEF IInv, TypeOK
<1>2. Final \in Values /\ (\A n \in Streams : n \in Names \ Reserved) /\ Reserved \subseteq Names
  BY ScriptValues, PublishedNames, ReservedAreNames DEF Published
<1>3. know' \in [Actors -> Knowledge] /\ call \in [Actors -> Call] /\ dir \in [Names -> Entry]
  BY <1>1 DEF TypeOK, FilesTypeOK
<1>4. Run(a)' = Run(a)
  BY DEF Run
<1> DEFINE Goal(n, v, S) ==
             /\ call' \in [Actors -> Call]
             /\ \A b \in Actors \ {a} : call'[b] = call[b]
             /\ call'[a].at \in S /\ call'[a].name = n /\ call'[a].data = v
             /\ UNCHANGED <<disk, reported>>
             /\ \A m \in Published : dir'[m] = dir[m]
<1>5. \A n \in Streams : ReserveStream(a, n, Final) => Goal(n, Final, {"done", "refused"})
  BY <1>1, <1>2, Entered DEF ReserveStream
<1>6. \A n \in Streams : FinalizeStream(a, n, Final) => Goal(n, Final, {"rename"})
  BY <1>1, <1>2, Entered DEF FinalizeStream, Working
<1>7. \A n \in Reserved : ReserveJson(a, n) => Goal(n, Provisional, {"fill", "refused"})
  <2> SUFFICES ASSUME NEW n \in Reserved, ReserveJson(a, n)
               PROVE  Goal(n, Provisional, {"fill", "refused"})
    OBVIOUS
  <2>1. PICK s2 \in {"fill", "refused"} : Enter(a, s2, n, Provisional)
    BY DEF ReserveJson
  <2>2. \A m \in Published : dir'[m] = dir[m]
    BY <1>3 DEF ReserveJson, Published
  <2> QED BY <1>1, <1>2, <2>1, <2>2, Entered DEF ReserveJson, Working
<1>8. \A n \in Reserved : FinalizeJson(a, n, Final) => Goal(n, Final, {"exchange", "refused"})
  <2> SUFFICES ASSUME NEW n \in Reserved, FinalizeJson(a, n, Final)
               PROVE  Goal(n, Final, {"exchange", "refused"})
    OBVIOUS
  <2>1. PICK s2 \in {"exchange", "refused"} : Enter(a, s2, n, Final)
    BY DEF FinalizeJson
  <2> QED BY <1>1, <1>2, <2>1, Entered DEF FinalizeJson, Working
<1>9. FilesStep(a) \/ UNCHANGED fileVars
  BY <1>2 DEF FilesStep
<1>10. at' \in [Actors -> Places] /\ at'[a] = s /\ (\A b \in Actors \ {a} : at'[b] = at[b])
  BY <1>1, MovesTo
<1>11. /\ call' \in [Actors -> Call]
       /\ \A b \in Actors \ {a} : call'[b] = call[b]
       /\ UNCHANGED <<disk, reported>>
       /\ \A m \in Published : dir'[m] = dir[m]
  BY <1>3, <1>5, <1>6, <1>7, <1>8 DEF fileVars
<1> QED BY <1>3, <1>4, <1>5, <1>6, <1>7, <1>8, <1>9, <1>10, <1>11 DEF Local

LEMMA SaveSteps ==
    ASSUME IInv, NEW a \in Actors, Save(a), UNCHANGED <<quality, know>>
    PROVE  /\ FilesStep(a) \/ UNCHANGED fileVars
           /\ \A n \in Published : dir'[n] = dir[n]
           /\ UNCHANGED <<disk, reported>>
           /\ Local(a) /\ ScriptInv(a)'
<1>1. TypeOK /\ FInv /\ CallsOfScripts(a) /\ KnowledgeInv(a) /\ SaveInv(a)
  BY DEF IInv, ScriptInv
<1>2. Run(a) \in Runs /\ Kept(Run(a)) \in Published
  BY <1>1, CastTypes, RunNames
<1>3. /\ ModelFile \in Streams /\ ReplayFile \in Streams /\ ActorFile \in Streams
      /\ ManifestFile \in Reserved /\ (\A n \in Streams : n \in Published)
  BY PublishedNames DEF Streams
<1>4. ~know[a].kept
  <2>1. at[a] \in SavePlaces
    <3>1. \A i \in 2..10 : Continues(a, i) => at[a] \in SavePlaces
      BY SaverPlaces DEF Continues
    <3> QED BY <3>1 DEF Save, ReserveBundle, SaveArtifacts, IssueAuthority, SaveRaises
  <2>2. SavePlaces \cap Ingesting = {}
    BY DEF SavePlaces, SaveScript, Ingesting
  <2> QED BY <1>1, <2>1, <2>2 DEF KnowledgeInv
<1>5. ASSUME \A n \in Published : dir'[n] = dir[n], at'[a] \in SavePlaces \cup {"raised"},
             know'[a] = know[a], Run(a)' = Run(a), CallsOfScripts(a)', SaveInv(a)'
      PROVE  ScriptInv(a)'
  <2>1. at'[a] \notin DispatchPlaces \cup {"dispatched", "readIntent", "retain", "claim", "judge",
                                        "proposal", "recipe", "receipt", "accepted"}
    BY <1>5 DEF SavePlaces, SaveScript, DispatchPlaces
  <2>2. KnowledgeInv(a)'
    BY <1>4, <1>5, <2>1 DEF KnowledgeInv
  <2>3. DispatchInv(a)' /\ IngestInv(a)'
    BY <2>1 DEF DispatchInv, IngestInv, DispatchPlaces
  <2> QED BY <1>5, <2>2, <2>3 DEF ScriptInv
<1>6. CASE ReserveBundle(a)
  <2>1. PICK s \in {"reserveModel", "reserveReplay", "reserveActor", "reserveManifest"} :
           /\ Moves(a, s) /\ UNCHANGED cast
           /\ s # "reserveManifest" => \E n \in Streams : ReserveStream(a, n, Final)
           /\ s = "reserveManifest" => ReserveJson(a, ManifestFile)
    BY <1>3, <1>6, SaverPlaces DEF ReserveBundle, Continues
  <2>2. s \in Places /\ s \in SavePlaces
    BY SaverPlaces
  <2>3. /\ FilesStep(a) \/ UNCHANGED fileVars
        /\ Local(a) /\ at'[a] = s /\ know'[a] = know[a] /\ Run(a)' = Run(a)
        /\ \A n \in Published : dir'[n] = dir[n]
        /\ UNCHANGED <<disk, reported>>
        /\ s # "reserveManifest" => call'[a].at \in {"done", "refused"}
        /\ s = "reserveManifest" => call'[a].at \in {"fill", "refused"} /\ call'[a].name = ManifestFile
    BY <1>3, <2>1, <2>2, Reserving
  <2>4. CallsOfScripts(a)' /\ SaveInv(a)'
    BY <2>3 DEF CallsOfScripts, SaveInv
  <2> QED BY <1>5, <2>2, <2>3, <2>4
<1>7. CASE SaveArtifacts(a)
  <2>1. PICK s \in {"saveModel", "saveReplay", "exportActor", "publishManifest"} :
           /\ Moves(a, s) /\ UNCHANGED cast /\ Done(a)
           /\ s = "saveModel" => FinalizeStream(a, ModelFile, Final)
           /\ s = "saveReplay" => at[a] = "saveModel" /\ FinalizeStream(a, ReplayFile, Final)
           /\ s = "exportActor" => at[a] = "saveReplay" /\ FinalizeStream(a, ActorFile, Final)
           /\ s = "publishManifest" => at[a] = "exportActor" /\ FinalizeJson(a, ManifestFile, Final)
    BY <1>7, SaverPlaces DEF SaveArtifacts, Continues
  <2>2. s \in Places /\ s \in SavePlaces
    BY SaverPlaces
  <2>3. /\ FilesStep(a) \/ UNCHANGED fileVars
        /\ Local(a) /\ at'[a] = s /\ know'[a] = know[a] /\ Run(a)' = Run(a)
        /\ \A n \in Published : dir'[n] = dir[n]
        /\ UNCHANGED <<disk, reported>>
        /\ s = "saveModel" => call'[a].at = "rename" /\ call'[a].name = ModelFile /\ call'[a].data = Final
        /\ s = "saveReplay" => call'[a].at = "rename" /\ call'[a].name = ReplayFile /\ call'[a].data = Final
        /\ s = "exportActor" => call'[a].at = "rename" /\ call'[a].name = ActorFile /\ call'[a].data = Final
        /\ s = "publishManifest" => call'[a].at \in {"exchange", "refused"} /\ call'[a].name = ManifestFile
    BY <1>3, <2>1, <2>2, Reserving
  <2>4. \A n \in Streams : Saved(n) => Saved(n)'
    BY <1>3, <2>3 DEF Saved, Present
  <2>5. /\ s = "saveReplay" => Saved(ModelFile)
        /\ s = "exportActor" => Saved(ModelFile) /\ Saved(ReplayFile)
        /\ s = "publishManifest" => \A n \in Streams : Saved(n)
    BY <1>1, <2>1 DEF SaveInv, InCall, Saved, Done, Streams
  <2>6. CallsOfScripts(a)'
    BY <2>3 DEF CallsOfScripts, PublishPlaces
  <2>7. SaveInv(a)'
    BY <1>3, <2>3, <2>4, <2>5 DEF SaveInv, InCall
  <2> QED BY <1>5, <2>2, <2>3, <2>6, <2>7
<1>8. CASE IssueAuthority(a) \/ SaveRaises(a)
  <2>1. PICK s \in {"saved", "raised"} :
           Moves(a, s) /\ UNCHANGED <<fileVars, cast>> /\ (Done(a) \/ Refused(a))
    BY <1>8, SaverPlaces DEF IssueAuthority, SaveRaises, Continues
  <2>2. s \in Places /\ s \in SavePlaces \cup {"raised"}
    BY SaverPlaces DEF Places, Ends
  <2>3. /\ Local(a) /\ at'[a] = s /\ know'[a] = know[a] /\ Run(a)' = Run(a)
        /\ UNCHANGED <<dir, disk, reported>>
    BY <2>1, <2>2, Reserving DEF fileVars
  <2>4. CallsOfScripts(a)' /\ SaveInv(a)'
    BY <2>1, <2>3 DEF CallsOfScripts, SaveInv, fileVars, Done, Refused
  <2> QED BY <1>5, <2>1, <2>2, <2>3, <2>4
<1> QED BY <1>6, <1>7, <1>8 DEF Save

LEMMA ProbeSteps ==
    ASSUME IInv, NEW a \in Actors, Probe(a), UNCHANGED <<quality, know>>
    PROVE  /\ FilesStep(a) \/ UNCHANGED fileVars
           /\ \A n \in Published : dir'[n] = dir[n]
           /\ UNCHANGED <<disk, reported>>
           /\ Local(a) /\ ScriptInv(a)'
<1>1. TypeOK /\ CallsOfScripts(a) /\ KnowledgeInv(a)
  BY DEF IInv, ScriptInv
<1>2. Run(a) \in Runs /\ Kept(Run(a)) \in Published /\ ProbeFile \in Reserved
  BY <1>1, CastTypes, RunNames, PublishedNames
<1>3. PICK s \in {"reserveProbe", "publishProbe", "reported", "raised"} :
         /\ Moves(a, s) /\ UNCHANGED cast
         /\ s = "reserveProbe" => ReserveJson(a, ProbeFile)
         /\ s = "publishProbe" => FinalizeJson(a, ProbeFile, Final)
         /\ s \in {"reported", "raised"} => UNCHANGED fileVars /\ (Done(a) \/ Refused(a))
         /\ at[a] \notin Ingesting
  BY DEF Ingesting, Probe, StartProbe, FinishProbe, ReportProbe, ProbeRaises
<1>4. s \in Places
  BY DEF Places, Ends
<1>5. /\ FilesStep(a) \/ UNCHANGED fileVars
      /\ Local(a) /\ at'[a] = s /\ know'[a] = know[a] /\ Run(a)' = Run(a)
      /\ \A n \in Published : dir'[n] = dir[n]
      /\ UNCHANGED <<disk, reported>>
      /\ s = "reserveProbe" => call'[a].at \in {"fill", "refused"}
      /\ s = "publishProbe" => call'[a].at \in {"exchange", "refused"}
  BY <1>2, <1>3, <1>4, Reserving
<1>6. CallsOfScripts(a)'
  BY <1>3, <1>5 DEF CallsOfScripts, fileVars, Done, Refused
<1>7. KnowledgeInv(a)'
  BY <1>1, <1>3, <1>5 DEF KnowledgeInv
<1>8. DispatchInv(a)' /\ IngestInv(a)' /\ SaveInv(a)'
  BY <1>5 DEF DispatchInv, IngestInv, SaveInv
<1> QED BY <1>5, <1>6, <1>7, <1>8 DEF ScriptInv

-----------------------------------------------------------------------------
(* The steps of the library                                                *)

\* Inside a publication: the rename makes the name the actor's own, the commit
\* reports it.
LEMMA InCallKeeps ==
    ASSUME FInv, NEW a \in Actors, NEW n \in Published, NEW v, InCall(a, n, v),
           Library(a) \/ Fails(a)
    PROVE  /\ call'[a].name = n /\ call'[a].data = v
           /\ call'[a].at \in {"rename", "commit", "done", "refused"}
           /\ call'[a].at \in {"commit", "done"}
                 => dir'[n] # NoFile /\ dir'[n].by = a /\ dir'[n].data = v
           /\ call'[a].at = "done" => n \in reported' /\ disk' = Synced(Folder[n]) /\ dir' = dir
<1>1. FilesTypeOK /\ CallsInPlace
  BY DEF FInv
<1>2. n \in Names
  BY DEF Published
<1>3. CASE Rename(a)
  <2>1. v \in Values
    BY <1>1, <1>3 DEF InCall, Rename, CallsInPlace
  <2>2. Written(a, v) # NoFile /\ Written(a, v).data = v /\ Written(a, v).by = a
    BY <2>1, WrittenIsFile, NoFileIsNoFile DEF Written
  <2>3. CASE Free(n)
    <3>1. dir'[n] = Written(a, v) /\ Goto(a, "commit") /\ call[a].at = "rename"
      BY <1>1, <1>2, <1>3, <2>3 DEF Rename, InCall, FilesTypeOK
    <3> QED BY <1>1, <2>2, <3>1, Moved DEF InCall, Working
  <2>4. CASE ~Free(n)
    BY <1>1, <1>3, <2>4, Moved DEF Rename, InCall, Working
  <2> QED BY <2>3, <2>4
<1>4. CASE Commit(a)
  BY <1>1, <1>4, Moved DEF Commit, InCall, Own, Present, Working
<1>5. CASE FailPublish(a)
  BY <1>1, <1>5, Moved DEF FailPublish, InCall, Working
<1> QED BY <1>3, <1>4, <1>5
        DEF Library, Fails, InCall, Fill, Hold, FailReserve, Exchange, Settle, Retire, FailFinalize

LEMMA LibrarySteps ==
    ASSUME IInv, NEW a \in Actors, Library(a) \/ Fails(a), UNCHANGED <<cast, quality, at, know>>
    PROVE  /\ FilesStep(a) /\ FInv' /\ Calm /\ Local(a)
           /\ call[a].at \in Working /\ call'[a].name = call[a].name
           /\ ScriptInv(a)'
<1>1. /\ TypeOK /\ FInv /\ CallsOfScripts(a) /\ DispatchInv(a) /\ KnowledgeInv(a)
      /\ IngestInv(a) /\ SaveInv(a)
  BY DEF IInv, ScriptInv
<1>2. FilesStep(a)
  BY DEF Library, Fails, FilesStep
<1>3. FInv' /\ Calm
  BY <1>1, <1>2, StepKeeps, StepCalm
<1>4. /\ call[a].at \in Working /\ call'[a].name = call[a].name
      /\ call' \in [Actors -> Call] /\ (\A b \in Actors \ {a} : call'[b] = call[b])
      /\ call'[a].at \in {"commit", "done", "refused", "hold", "settle", "retire"}
      /\ call'[a].at = "commit" => call[a].at = "rename"
      /\ call'[a].at = "hold" => call[a].at = "fill"
      /\ call'[a].at \in {"settle", "retire"} => call[a].at \in {"exchange", "settle"}
  <2>1. PICK s \in {"commit", "done", "refused", "hold", "settle", "retire"} :
           /\ Goto(a, s) /\ call[a].at \in Working
           /\ s = "commit" => call[a].at = "rename"
           /\ s = "hold" => call[a].at = "fill"
           /\ s \in {"settle", "retire"} => call[a].at \in {"exchange", "settle"}
    BY DEF Library, Fails, Rename, Commit, Fill, Hold, Exchange, Settle, Retire, FailPublish,
           FailReserve, FailFinalize, Working
  <2>2. FilesTypeOK /\ s \in {"done", "refused"} \cup Working
    BY <1>1 DEF TypeOK, Working
  <2> QED BY <2>1, <2>2, Moved
<1>5. Local(a)
  BY <1>1, <1>4 DEF Local, TypeOK
<1>6. /\ Record(a)' = Record(a) /\ Run(a)' = Run(a) /\ Verdict(a)' = Verdict(a)
      /\ Record(a) \in Records /\ Run(a) \in Runs
  BY <1>1, CastTypes DEF Record, Run, Verdict
<1>7. /\ Kept(Run(a)) \in Published /\ Proposal(Run(a)) \in Published
      /\ Recipe(Run(a)) \in Published
      /\ Verdict(a) \in Verdicts => Receipt(Run(a), Verdict(a)) \in Published
      /\ Identity \in Published /\ Intent \in Published /\ Claim \in Published
      /\ \A n \in Streams : n \in Published
      /\ ModelFile \in Streams /\ ReplayFile \in Streams /\ ActorFile \in Streams
  BY <1>6, RunNames, PublishedNames DEF Streams
<1>8. CallsOfScripts(a)'
  BY <1>1, <1>4 DEF CallsOfScripts
<1>9. DispatchInv(a)'
  <2>1. CASE at[a] = "claimIdentity"
    BY <1>1, <1>6, <1>7, <2>1, InCallKeeps DEF DispatchInv, InCall, Own, Present
  <2>2. CASE at[a] = "publishIntent"
    BY <1>1, <1>6, <1>7, <2>2, InCallKeeps DEF DispatchInv, InCall, Own, Present
  <2>3. CASE at[a] \notin {"claimIdentity", "publishIntent"}
    BY <1>1, <1>3, <1>4, <1>7, <2>3 DEF DispatchInv, Calm, Own
  <2> QED BY <2>1, <2>2, <2>3
<1>10. KnowledgeInv(a)'
  BY <1>1, <1>3, <1>6, <1>7 DEF KnowledgeInv, Calm, Present
<1>11. IngestInv(a)'
  <2>1. Evidence(a) => Evidence(a)'
    BY <1>3, <1>6, <1>7 DEF Evidence, Calm, Fixed, Present, Own
  <2>2. at[a] = "receipt" => Verdict(a) \in Verdicts
    BY <1>1, AcceptedVerdict DEF KnowledgeInv
  <2>3. CASE at[a] = "claim"
    <3>1. /\ InCall(a, Claim, Bound(Record(a), Run(a))) /\ know[a].intent = "verified"
          /\ Present(Identity, Record(a)) /\ Present(Intent, Record(a))
      BY <1>1, <2>3 DEF IngestInv
    <3>2. call'[a].at = "done" => disk'[Identity] = dir'[Identity] /\ disk'[Intent] = dir'[Intent]
      <4>1. call'[a].at = "done" => disk' = Synced("call") /\ dir' = dir
        BY <1>1, <1>7, <3>1, InCallKeeps, CallFolders
      <4> QED BY <1>7, <4>1, CallFolders DEF Synced, Published
    <3>3. InCall(a, Claim, Bound(Record(a), Run(a)))'
      BY <1>1, <1>6, <1>7, <3>1, InCallKeeps DEF InCall, Own, Present
    <3> QED BY <1>3, <1>6, <1>7, <2>3, <3>1, <3>2, <3>3 DEF IngestInv, Calm, Present
  <2>4. CASE at[a] = "retain"
    BY <1>1, <1>6, <1>7, <2>4, InCallKeeps DEF IngestInv, InCall, Own, Present
  <2>5. CASE at[a] = "proposal"
    <3>1. InCall(a, Proposal(Run(a)), Proposal(Run(a)))
      BY <1>1, <2>5 DEF IngestInv
    <3>2. InCall(a, Proposal(Run(a)), Proposal(Run(a)))'
      BY <1>1, <1>6, <1>7, <3>1, InCallKeeps DEF InCall, Own, Present
    <3> QED BY <1>1, <1>6, <2>1, <2>5, <3>2 DEF IngestInv
  <2>6. CASE at[a] = "recipe"
    <3>1. InCall(a, Recipe(Run(a)), Recipe(Run(a))) /\ Present(Proposal(Run(a)), Proposal(Run(a)))
      BY <1>1, <2>6 DEF IngestInv
    <3>2. InCall(a, Recipe(Run(a)), Recipe(Run(a)))'
      BY <1>1, <1>6, <1>7, <3>1, InCallKeeps DEF InCall, Own, Present
    <3>3. Present(Proposal(Run(a)), Proposal(Run(a)))'
      BY <1>3, <1>6, <1>7, <3>1 DEF Calm, Present
    <3> QED BY <1>1, <1>6, <2>1, <2>6, <3>2, <3>3 DEF IngestInv
  <2>7. CASE at[a] = "receipt"
    <3>1. InCall(a, Receipt(Run(a), Verdict(a)), Receipt(Run(a), Verdict(a)))
      BY <1>1, <2>7 DEF IngestInv
    <3>2. InCall(a, Receipt(Run(a), Verdict(a)), Receipt(Run(a), Verdict(a)))'
      BY <1>1, <1>6, <1>7, <2>2, <2>7, <3>1, InCallKeeps DEF InCall, Own, Present
    <3>3. Verdict(a) = "accepted" => /\ Present(Proposal(Run(a)), Proposal(Run(a)))'
                                    /\ Present(Recipe(Run(a)), Recipe(Run(a)))'
      BY <1>1, <1>3, <1>6, <1>7, <2>7 DEF IngestInv, Calm, Present
    <3> QED BY <1>1, <1>6, <2>1, <2>7, <3>2, <3>3 DEF IngestInv
  <2>8. CASE at[a] = "judge"
    BY <1>1, <1>6, <2>1, <2>8 DEF IngestInv
  <2>9. CASE at[a] \notin {"claim", "retain", "proposal", "recipe", "receipt", "judge"}
    BY <1>1, <1>3, <1>7, <2>9 DEF IngestInv, Calm, Own
  <2> QED BY <2>3, <2>4, <2>5, <2>6, <2>7, <2>8, <2>9
<1>12. SaveInv(a)'
  <2>1. \A n \in Streams : Saved(n) => Saved(n)'
    BY <1>3, <1>7 DEF Saved, Calm, Present
  <2>2. \A n \in Streams : InCall(a, n, Final) => InCall(a, n, Final)'
    BY <1>1, <1>7, InCallKeeps DEF InCall, Own, Present
  <2> QED BY <1>1, <1>4, <1>7, <2>1, <2>2 DEF SaveInv
<1> QED BY <1>2, <1>3, <1>4, <1>5, <1>8, <1>9, <1>10, <1>11, <1>12 DEF ScriptInv

-----------------------------------------------------------------------------
(* Receipts                                                                *)

\* Who is about to name or to report an accepted receipt has accepted.
LEMMA ReceiptIsAccepted ==
    ASSUME IInv, NEW a \in Actors, call[a].at \in {"rename", "commit"}, NEW run \in Runs,
           call[a].name = Receipt(run, "accepted")
    PROVE  at[a] = "receipt" /\ Run(a) = run /\ Verdict(a) = "accepted"
<1>1. /\ CallsOfScripts(a) /\ DispatchInv(a) /\ IngestInv(a) /\ SaveInv(a)
  BY DEF IInv, ScriptInv
<1>2. call[a].name[1] = "receipt"
  BY Tags
<1>3. \A n \in Refusals : n[1] = "refusal"
  BY Tags DEF Refusals
<1>4. at[a] = "receipt"
  BY <1>1, <1>2, <1>3, Tags
  DEF CallsOfScripts, PublishPlaces, DispatchPlaces, DispatchInv, IngestInv, SaveInv, InCall
<1>5. Receipt(Run(a), Verdict(a)) = Receipt(run, "accepted")
  BY <1>1, <1>4 DEF IngestInv, InCall
<1> QED BY <1>4, <1>5, Distinct

LEMMA ReceiptsKeep ==
    ASSUME IInv, FInv', NEW a \in Actors, FilesStep(a), UNCHANGED quality
    PROVE  ReceiptInv'
<1> SUFFICES ASSUME NEW run \in Runs, ~Free(Receipt(run, "accepted"))'
             PROVE  \E record \in Records :
                      /\ Fixed(Identity, record)' /\ Fixed(Intent, record)'
                      /\ Fixed(Claim, Bound(record, run))'
                      /\ quality'[run] = [made |-> record, holds |-> "good"]
                      /\ Receipt(run, "accepted") \in reported' =>
                            \A n \in {Kept(run), Proposal(run), Recipe(run)} : Fixed(n, n)'
  BY DEF ReceiptInv
<1> DEFINE R == Receipt(run, "accepted")
<1>1. TypeOK /\ FInv /\ ReceiptInv /\ Calm /\ ScriptInv(a)
  BY StepCalm DEF IInv
<1>2. /\ R \in Published /\ Kept(run) \in Published /\ Proposal(run) \in Published
      /\ Recipe(run) \in Published
      /\ Identity \in Published /\ Intent \in Published /\ Claim \in Published
  BY RunNames, PublishedNames DEF Verdicts
<1>3. \A n \in Published : \A v : Fixed(n, v) => Fixed(n, v)'
  BY <1>1 DEF Calm, Fixed, Present
<1>4. CASE Free(R)
  <2>1. Rename(a) /\ call[a].name = R
    <3>1. dir'[R] # dir[R] /\ ~Commit(a)
      BY <1>4 DEF Free, Commit
    <3>2. Rename(a)
      BY <1>1, <1>2, <3>1, OnlyRenameShows
    <3>3. \A m \in Names \ {call[a].name} : dir'[m] = dir[m]
      BY <1>1, <3>2 DEF Rename, FInv, FilesTypeOK
    <3>4. R \in Names
      BY <1>2 DEF Published
    <3> QED BY <3>1, <3>2, <3>3, <3>4
  <2>2. at[a] = "receipt" /\ Run(a) = run /\ Verdict(a) = "accepted"
    BY <2>1, ReceiptIsAccepted DEF Rename
  <2>3. Fixed(Identity, Record(a)) /\ Fixed(Intent, Record(a)) /\ Fixed(Claim, Bound(Record(a), run))
    BY <1>1, <2>2 DEF ScriptInv, IngestInv, Evidence
  <2>4. Record(a) \in Records /\ quality[run] = [made |-> Record(a), holds |-> "good"]
    BY <1>1, <2>2, CastTypes, AcceptedVerdict
  <2>5. R \notin reported'
    BY <1>1, <1>2, <1>4, <2>1 DEF Rename, FInv, ReportedFiles, Free
  <2> HIDE DEF R
  <2> QED BY <1>2, <1>3, <2>3, <2>4, <2>5 DEF R
<1>5. CASE ~Free(R)
  <2>1. PICK record \in Records :
           /\ Fixed(Identity, record) /\ Fixed(Intent, record)
           /\ Fixed(Claim, Bound(record, run))
           /\ quality[run] = [made |-> record, holds |-> "good"]
           /\ R \in reported => \A n \in {Kept(run), Proposal(run), Recipe(run)} : Fixed(n, n)
    BY <1>1, <1>5 DEF ReceiptInv
  <2>2. CASE R \in reported \/ R \notin reported'
    BY <1>1, <1>2, <1>3, <2>1, <2>2 DEF Calm
  <2>3. CASE R \notin reported /\ R \in reported'
    <3>1. Commit(a) /\ call[a].name = R
      <4>1. Commit(a)
        BY <1>1, <1>2, <2>3, OnlyRenameShows DEF Rename
      <4> QED BY <2>3, <4>1 DEF Commit
    <3>2. at[a] = "receipt" /\ Run(a) = run /\ Verdict(a) = "accepted"
      BY <3>1, ReceiptIsAccepted DEF Commit
    <3>3. Present(Kept(run), Kept(run)) /\ Present(Proposal(run), Proposal(run))
          /\ Present(Recipe(run), Recipe(run))
      BY <1>1, <3>2, AcceptedVerdict DEF ScriptInv, KnowledgeInv, IngestInv
    <3>4. dir' = dir /\ disk' = Synced("records")
      BY <3>1, RunNames DEF Commit, Verdicts
    <3>5. \A n \in {Kept(run), Proposal(run), Recipe(run)} : n \in Names /\ Folder[n] = "records"
      BY <1>2, RunNames DEF Published
    <3>6. \A n \in {Kept(run), Proposal(run), Recipe(run)} : Fixed(n, n)'
      BY <3>3, <3>4, <3>5 DEF Fixed, Present, Synced
    <3> QED BY <1>2, <1>3, <2>1, <3>6
  <2> QED BY <2>2, <2>3
<1> QED BY <1>4, <1>5
-----------------------------------------------------------------------------
(* The reserved names                                                      *)

\* What a step may make of a reserved name.
LEMMA ReservedMade ==
    ASSUME FInv, NEW a \in Actors, FilesStep(a), NEW n \in Reserved
    PROVE  /\ \/ dir'[n] \in {dir[n], NoFile, Created(a), Written(a, Provisional)}
              \/ Exchange(a) /\ call[a].name = n /\ dir'[n] = Written(a, call[a].data)
           /\ disk'[n] \in {disk[n], dir[n], Written(a, Provisional)}
<1>1. FilesTypeOK /\ CallsInPlace /\ n \in Names
  BY ReservedAreNames DEF FInv
<1>2. CASE dir' = dir /\ disk' = disk
  BY <1>2
<1>3. ASSUME NEW m \in Reserved, ReserveJson(a, m)
      PROVE  dir'[n] \in {dir[n], Created(a)} /\ disk' = disk
  BY <1>1, <1>3 DEF ReserveJson, FilesTypeOK
<1>4. CASE Rename(a)
  BY <1>1, <1>4 DEF Rename, CallsInPlace, Published, FilesTypeOK
<1>5. CASE Commit(a) \/ Hold(a) \/ Settle(a)
  BY <1>1, <1>5 DEF Commit, Hold, Settle, Synced
<1>6. CASE Fill(a)
  BY <1>1, <1>6 DEF Fill, FilesTypeOK
<1>7. CASE FailReserve(a) \/ FailFinalize(a)
  BY <1>1, <1>7 DEF FailReserve, FailFinalize, FilesTypeOK
<1>8. CASE Exchange(a)
  BY <1>1, <1>8 DEF Exchange, FilesTypeOK
<1> QED BY <1>2, <1>3, <1>4, <1>5, <1>6, <1>7, <1>8
        DEF FilesStep, Prepare, ReserveStream, FinalizeStream, FinalizeJson, FailPublish, Retire, Abandon

LEMMA ManifestKeeps ==
    ASSUME IInv, NEW a \in Actors, FilesStep(a)
    PROVE  ManifestInv'
<1>1. TypeOK /\ FInv /\ FilesTypeOK /\ ManifestInv /\ Calm /\ ScriptInv(a) /\ ProbeInv(a)
  BY StepCalm DEF IInv, FInv
<1>2. \A n \in Streams : Saved(n) => Saved(n)'
  BY <1>1, PublishedNames DEF Saved, Calm, Present
<1>3. ManifestFile # ProbeFile /\ ManifestFile \in Reserved
  BY Tags, PublishedNames
<1> DEFINE Sound(file) == file # NoFile /\ file.data = Final =>
              file.whole /\ file.flushed /\ \A n \in Streams : Saved(n)'
<1>4. Sound(dir[ManifestFile]) /\ Sound(disk[ManifestFile])
  BY <1>1, <1>2 DEF ManifestInv
<1>5. Sound(NoFile) /\ Sound(Created(a)) /\ Sound(Written(a, Provisional))
  BY ScriptValues DEF Created, Written
<1>6. ASSUME Exchange(a), call[a].name = ManifestFile
      PROVE  Sound(Written(a, call[a].data))
  <2>1. at[a] \in {"publishManifest", "publishProbe"}
    BY <1>1, <1>6 DEF Exchange, ScriptInv, CallsOfScripts
  <2>2. at[a] # "publishProbe"
    BY <1>1, <1>3, <1>6 DEF ProbeInv
  <2>3. \A n \in Streams : Saved(n)'
    BY <1>1, <1>2, <2>1, <2>2 DEF ScriptInv, SaveInv
  <2> QED BY <2>3 DEF Written
<1> HIDE DEF Sound
<1>7. Sound(dir'[ManifestFile]) /\ Sound(disk'[ManifestFile])
  BY <1>1, <1>3, <1>4, <1>5, <1>6, ReservedMade
<1> QED BY <1>7 DEF Sound, ManifestInv

-----------------------------------------------------------------------------
(* The probe                                                               *)

LEMMA ProbeIsOwn ==
    ASSUME IInv, NEW a \in Actors, call[a].name = ProbeFile,
           call[a].at \in {"fill", "hold", "exchange", "settle", "retire"}
    PROVE  Own(a, ProbeFile)
<1>1. CallsOfScripts(a) /\ SaveInv(a) /\ ProbeInv(a)
  BY DEF IInv, ScriptInv
<1>2. ManifestFile # ProbeFile
  BY Tags
<1>3. at[a] \in {"reserveProbe", "publishProbe"}
  BY <1>1, <1>2 DEF CallsOfScripts, SaveInv
<1>4. at[a] = "reserveProbe" => call[a].at \in {"fill", "hold"}
  BY <1>1 DEF CallsOfScripts
<1> QED BY <1>1, <1>3, <1>4 DEF ProbeInv, OwnForGood

\* A probe's reservation is left alone by everybody else.
LEMMA OthersProbe ==
    ASSUME IInv, NEW a \in Actors, FilesStep(a), NEW b \in Actors \ {a},
           at'[b] = at[b], call'[b] = call[b]
    PROVE  ProbeInv(b)'
<1>1. FInv /\ ProbeInv(b) /\ ProbeFile \in Reserved
  BY PublishedNames DEF IInv
<1>2. Own(b, ProbeFile) => dir'[ProbeFile] = dir[ProbeFile]
                           /\ disk'[ProbeFile] \in {disk[ProbeFile], dir[ProbeFile]}
  BY <1>1, ProbeIsOwn, ReservedLeft DEF Own, Free, Holding
<1>3. Own(b, ProbeFile) => Own(b, ProbeFile)'
  BY <1>2 DEF Own
<1>4. OwnForGood(b, ProbeFile) => OwnForGood(b, ProbeFile)'
  BY <1>2 DEF Own, OwnForGood
<1> QED BY <1>1, <1>3, <1>4 DEF ProbeInv

\* Inside its calls a probe stays the owner of its reservation.
LEMMA LibraryProbe ==
    ASSUME IInv, NEW a \in Actors, Library(a) \/ Fails(a), UNCHANGED <<cast, quality, at, know>>
    PROVE  ProbeInv(a)'
<1>1. FInv /\ FilesTypeOK /\ CallsOfScripts(a) /\ ProbeInv(a) /\ ProbeFile \in Names
  BY PublishedNames DEF IInv, ScriptInv, FInv
<1>2. call'[a].name = call[a].name /\ call[a].at \in Working
  BY LibrarySteps
<1>3. /\ Written(a, Provisional) # NoFile /\ Written(a, Provisional).by = a
      /\ \A v \in Values \cup {Provisional} : Written(a, v) # NoFile /\ Written(a, v).by = a
  BY WrittenIsFile, NoFileIsNoFile DEF Written
<1>4. call[a].data \in Values \cup {Provisional}
  BY <1>1, CallFields
<1>5. CASE at[a] = "reserveProbe"
  <2>1. call[a].name = ProbeFile /\ call[a].at \in {"fill", "hold"} /\ Own(a, ProbeFile)
    BY <1>1, <1>2, <1>5 DEF ProbeInv, CallsOfScripts, Working, PublishPlaces, DispatchPlaces
  <2>2. CASE Fill(a)
    <3>1. dir'[ProbeFile] = Written(a, Provisional) /\ Goto(a, "hold")
      BY <1>1, <2>1, <2>2 DEF Fill, FilesTypeOK
    <3>2. call'[a].at = "hold"
      BY <1>1, <1>2, <3>1, Moved DEF Working
    <3> QED BY <1>2, <1>3, <1>5, <2>1, <3>1, <3>2 DEF ProbeInv, Own
  <2>3. CASE Hold(a)
    <3>1. dir' = dir /\ disk'[ProbeFile] = dir[ProbeFile]
      BY <1>1, <2>1, <2>3 DEF Hold, Synced
    <3>2. call'[a].at = "done"
      BY <1>1, <1>2, <2>3, Moved DEF Hold
    <3> QED BY <1>2, <1>5, <2>1, <3>1, <3>2 DEF ProbeInv, Own, OwnForGood
  <2>4. CASE FailReserve(a)
    <3>1. call'[a].at = "refused"
      BY <1>1, <1>2, <2>4, Moved DEF FailReserve
    <3> QED BY <1>2, <1>5, <2>1, <3>1 DEF ProbeInv
  <2> QED BY <2>1, <2>2, <2>3, <2>4
          DEF Library, Fails, Rename, Commit, FailPublish, Exchange, Settle, Retire, FailFinalize
<1>6. CASE at[a] = "publishProbe"
  <2>1. /\ call[a].name = ProbeFile /\ OwnForGood(a, ProbeFile)
        /\ call[a].at \in {"exchange", "settle", "retire"}
    BY <1>1, <1>2, <1>6 DEF ProbeInv, CallsOfScripts, Working, PublishPlaces, DispatchPlaces
  <2>2. CASE Exchange(a) \/ FailFinalize(a)
    <3>1. disk' = disk /\ (dir' = dir \/ \E v \in Values \cup {Provisional} : dir'[ProbeFile] = Written(a, v))
      BY <1>1, <1>4, <2>1, <2>2 DEF Exchange, FailFinalize, FilesTypeOK
    <3> QED BY <1>2, <1>3, <1>6, <2>1, <3>1 DEF ProbeInv, Own, OwnForGood
  <2>3. CASE Settle(a) \/ Retire(a)
    <3>1. dir' = dir /\ disk'[ProbeFile] \in {disk[ProbeFile], dir[ProbeFile]}
      BY <1>1, <2>3 DEF Settle, Retire, Synced
    <3> QED BY <1>2, <1>6, <2>1, <3>1 DEF ProbeInv, Own, OwnForGood
  <2> QED BY <2>1, <2>2, <2>3
          DEF Library, Fails, Rename, Commit, FailPublish, Fill, Hold, FailReserve
<1>7. at[a] # "reported"
  BY <1>1, <1>2 DEF CallsOfScripts, Working, PublishPlaces, DispatchPlaces
<1> QED BY <1>5, <1>6, <1>7 DEF ProbeInv

LEMMA ProbeGoesOn ==
    ASSUME IInv, NEW a \in Actors, Probe(a), UNCHANGED <<quality, know>>
    PROVE  ProbeInv(a)'
<1>1. TypeOK /\ FInv /\ FilesTypeOK /\ ProbeInv(a) /\ ProbeFile \in Names /\ ProbeFile \in Reserved
  BY PublishedNames DEF IInv, FInv
<1>2. CASE StartProbe(a)
  <2>1. at'[a] = "reserveProbe"
    BY <1>1, <1>2, MovesTo DEF StartProbe, Places
  <2>2. PICK s \in {"fill", "refused"} :
           /\ Enter(a, s, ProbeFile, Provisional)
           /\ s = "fill" => dir'[ProbeFile] = Created(a)
    BY <1>1, <1>2 DEF StartProbe, ReserveJson, FilesTypeOK
  <2>3. call'[a].at = s /\ call'[a].name = ProbeFile
    BY <1>1, <2>2, Entered DEF Working
  <2>4. Created(a) # NoFile /\ Created(a).by = a
    BY WrittenIsFile, NoFileIsNoFile DEF Created
  <2> QED BY <2>1, <2>2, <2>3, <2>4 DEF ProbeInv, Own
<1>3. CASE FinishProbe(a)
  <2>1. at'[a] = "publishProbe" /\ OwnForGood(a, ProbeFile)
    BY <1>1, <1>3, MovesTo DEF FinishProbe, Places, ProbeInv, Done
  <2>2. PICK s \in {"exchange", "refused"} : Enter(a, s, ProbeFile, Final)
    BY <1>3 DEF FinishProbe, FinalizeJson
  <2>3. call'[a].name = ProbeFile
    BY <1>1, <2>2, Entered, ScriptValues DEF Working
  <2> QED BY <1>3, <2>1, <2>3 DEF ProbeInv, FinishProbe, FinalizeJson, OwnForGood, Own
<1>4. CASE ReportProbe(a)
  <2>1. at'[a] = "reported" /\ OwnForGood(a, ProbeFile)
    BY <1>1, <1>4, MovesTo DEF ReportProbe, Places, Ends, ProbeInv
  <2> QED BY <1>4, <2>1 DEF ProbeInv, ReportProbe, OwnForGood, Own, fileVars
<1>5. CASE ProbeRaises(a)
  BY <1>1, <1>5, MovesTo DEF ProbeRaises, Places, Ends, ProbeInv
<1> QED BY <1>2, <1>3, <1>4, <1>5 DEF Probe

LEMMA ElsewhereNoProbe ==
    ASSUME TypeOK, NEW a \in Actors, Dispatch(a) \/ Ingest(a) \/ Save(a) \/ Kill(a)
    PROVE  ProbeInv(a)'
<1> SUFFICES at'[a] \notin {"reserveProbe", "publishProbe", "reported"}
  BY DEF ProbeInv
<1>1. \A s : Moves(a, s) => at'[a] = s
  BY DEF Moves, TypeOK
<1>2. CASE Dispatch(a)
  BY <1>1, <1>2
  DEF Dispatch, DispatchElsewhere, ClaimIdentity, IdentityTaken, PublishIntent, IntentTaken,
      Dispatched, DispatchRaises, Retain
<1>3. CASE Ingest(a)
  BY <1>1, <1>3
  DEF Ingest, RetainRun, ReadIdentity, ReadIntent, ClaimIngestion, ClaimAnswered, Judge,
      WriteProposal, WriteRecipe, WriteAcceptance, Ingested, IngestRaises, WriteReceipt
<1>4. CASE Save(a)
  <2>1. \A i \in 2..10 : Continues(a, i) => at'[a] = SaveScript[i]
    BY <1>1 DEF Continues
  <2>2. \A i \in 2..10 : Continues(a, i) => at'[a] \notin {"reserveProbe", "publishProbe", "reported"}
    BY <2>1, SaverPlaces
  <2> QED BY <1>1, <1>4, <2>2 DEF Save, ReserveBundle, SaveArtifacts, IssueAuthority, SaveRaises
<1>5. CASE Kill(a)
  BY <1>1, <1>5 DEF Kill
<1> QED BY <1>2, <1>3, <1>4, <1>5

-----------------------------------------------------------------------------
(* Every step keeps the invariant                                          *)

\* A process is killed: its script and its knowledge are gone.
LEMMA KillSteps ==
    ASSUME IInv, NEW a \in Actors, Kill(a)
    PROVE  FilesStep(a) /\ Local(a) /\ ScriptInv(a)'
<1>1. TypeOK /\ FilesTypeOK
  BY DEF IInv, TypeOK
<1>2. FilesStep(a)
  BY DEF Kill, FilesStep
<1>3. at' \in [Actors -> Places] /\ at'[a] = "killed" /\ (\A b \in Actors \ {a} : at'[b] = at[b])
  BY <1>1, MovesTo DEF Kill, Places, Ends
<1>4. /\ know' \in [Actors -> Knowledge] /\ know'[a] = Blank
      /\ \A b \in Actors \ {a} : know'[b] = know[b]
  BY <1>1, LearnsThat, BlankKnows DEF Kill
<1>5. /\ call' \in [Actors -> Call] /\ call'[a].at = "idle"
      /\ \A b \in Actors \ {a} : call'[b] = call[b]
  BY <1>1 DEF Kill, Abandon, FilesTypeOK, Call, Idle
<1>6. Local(a)
  BY <1>3, <1>4, <1>5 DEF Local, Kill
<1>7. ScriptInv(a)'
  BY <1>3, <1>4, <1>5
  DEF ScriptInv, CallsOfScripts, DispatchInv, KnowledgeInv, Ingesting, IngestInv, SaveInv, Blank
<1> QED BY <1>2, <1>6, <1>7

\* What one actor does, whatever it is, while no machine stops.
LEMMA ActorSteps ==
    ASSUME IInv, NEW a \in Actors,
           Step(a) \/ Kill(a) \/ (Fails(a) /\ UNCHANGED <<cast, quality, at, know>>)
    PROVE  /\ FilesStep(a) \/ UNCHANGED fileVars
           /\ Local(a) /\ ScriptInv(a)' /\ ProbeInv(a)'
<1>1. TypeOK
  BY DEF IInv
<1>2. CASE Dispatch(a)
  BY <1>1, <1>2, DispatchSteps, ElsewhereNoProbe
<1>3. CASE Ingest(a)
  BY <1>1, <1>3, IngestSteps, ElsewhereNoProbe
<1>4. CASE Save(a) /\ UNCHANGED <<quality, know>>
  BY <1>1, <1>4, SaveSteps, ElsewhereNoProbe
<1>5. CASE Probe(a) /\ UNCHANGED <<quality, know>>
  BY <1>5, ProbeSteps, ProbeGoesOn
<1>6. CASE (Library(a) \/ Fails(a)) /\ UNCHANGED <<cast, quality, at, know>>
  BY <1>6, LibrarySteps, LibraryProbe
<1>7. CASE Kill(a)
  BY <1>1, <1>7, KillSteps, ElsewhereNoProbe
<1> QED BY <1>2, <1>3, <1>4, <1>5, <1>6, <1>7 DEF Step

LEMMA CalmKeeps ==
    ASSUME IInv, NEW a \in Actors,
           FilesStep(a) \/ UNCHANGED fileVars,
           Local(a), ScriptInv(a)', ProbeInv(a)', faults' \in 0..MaxFaults
    PROVE  IInv'
<1>1. TypeOK /\ FInv /\ ReceiptInv /\ ManifestInv
  BY DEF IInv
<1>2. FInv' /\ Calm
  <2>1. CASE UNCHANGED fileVars
    BY <1>1, <2>1
    DEF fileVars, FInv, FilesTypeOK, SealedFiles, ReportedFiles, CallsInPlace, Calm
  <2> QED BY <1>1, <2>1, StepKeeps, StepCalm
<1>3. TypeOK'
  BY <1>1, <1>2 DEF TypeOK, FInv, Local
<1>4. \A b \in Actors \ {a} : ScriptInv(b)'
  BY <1>2, OthersKeep DEF Local
<1>5. \A b \in Actors \ {a} : ProbeInv(b)'
  <2> SUFFICES ASSUME NEW b \in Actors \ {a} PROVE ProbeInv(b)'
    OBVIOUS
  <2>1. at'[b] = at[b] /\ call'[b] = call[b] /\ ProbeInv(b)
    BY DEF Local, IInv
  <2>2. CASE UNCHANGED fileVars
    BY <2>1, <2>2 DEF ProbeInv, Own, OwnForGood, fileVars
  <2> QED BY <2>1, <2>2, OthersProbe
<1>6. ReceiptInv'
  <2>1. CASE UNCHANGED fileVars
    BY <1>1, <2>1 DEF ReceiptInv, Fixed, Present, Free, fileVars, Local
  <2> QED BY <1>2, <2>1, ReceiptsKeep DEF Local
<1>7. ManifestInv'
  <2>1. CASE UNCHANGED fileVars
    BY <1>1, <2>1 DEF ManifestInv, Saved, Present, fileVars
  <2> QED BY <2>1, ManifestKeeps
<1> QED BY <1>2, <1>3, <1>4, <1>5, <1>6, <1>7 DEF IInv

\* When the machine stops, every script in the middle of its work is gone, and
\* what the others rest on is permanent.
LEMMA PowerLossKeeps ==
    ASSUME IInv, PowerLoss, faults' \in 0..MaxFaults
    PROVE  IInv'
<1>1. TypeOK /\ FInv /\ FilesTypeOK /\ ReceiptInv /\ ManifestInv /\ MachineStops
  BY DEF IInv, FInv, PowerLoss
<1>2. FInv'
  BY <1>1, StopKeeps
<1>3. reported' = reported /\ cast' = cast /\ quality' = quality /\ disk' = dir'
  BY DEF PowerLoss, MachineStops
<1>4. ASSUME NEW n \in Published, NEW v PROVE Fixed(n, v) => Fixed(n, v)'
  BY <1>1, FixedStays DEF Fixed, Present
<1>5. ASSUME NEW n \in Published, n \in reported
      PROVE  dir[n] # NoFile /\ dir'[n] = dir[n]
  BY <1>1, <1>5, ReportedIsFixed, FixedStays
<1>6. ASSUME NEW a \in Actors
      PROVE  /\ call'[a].at = "idle"
             /\ Running(a) => at'[a] = "killed" /\ know'[a] = Blank
             /\ ~Running(a) => at'[a] = at[a] /\ know'[a] = know[a]
             /\ at'[a] \in Places /\ know'[a] \in Knowledge
  BY <1>1, BlankKnows DEF PowerLoss, MachineStops, Idle, TypeOK, Places, Ends
<1>7. TypeOK'
  <2>1. at' \in [Actors -> Places] /\ know' \in [Actors -> Knowledge]
    BY <1>6 DEF PowerLoss
  <2> QED BY <1>1, <1>2, <1>3, <2>1 DEF TypeOK, FInv
<1>8. ASSUME NEW a \in Actors PROVE ScriptInv(a)'
  <2>1. Run(a)' = Run(a) /\ Run(a) \in Runs
    BY <1>1, <1>3, CastTypes DEF Run
  <2>2. CASE Running(a)
    BY <1>6, <2>2
    DEF ScriptInv, CallsOfScripts, DispatchInv, KnowledgeInv, Ingesting, IngestInv, SaveInv, Blank
  <2>3. CASE ~Running(a)
    <3>1. DispatchInv(a) /\ IngestInv(a) /\ KnowledgeInv(a)
      BY DEF IInv, ScriptInv
    <3>2. at'[a] = at[a] /\ know'[a] = know[a] /\ at[a] \in Starts \cup Ends
      BY <1>6, <2>3 DEF Running
    <3>3. DispatchInv(a)'
      BY <1>3, <1>5, <3>1, <3>2, PublishedNames DEF DispatchInv, Starts, Ends, Own
    <3>4. IngestInv(a)'
      BY <1>3, <1>5, <3>1, <3>2, PublishedNames DEF IngestInv, Starts, Ends, Own
    <3>5. know[a].kept = FALSE
      BY <1>1, <3>1, <3>2, CastTypes DEF KnowledgeInv, Ingesting, Starts, Ends, Knowledge
    <3> QED BY <1>6, <3>2, <3>3, <3>4, <3>5
            DEF ScriptInv, CallsOfScripts, KnowledgeInv, SaveInv, Starts, Ends, Ingesting
  <2> QED BY <2>2, <2>3
<1>9. ProbeFile \in Names /\ ManifestFile \in Names
  BY PublishedNames
<1>10. ASSUME NEW a \in Actors PROVE ProbeInv(a)'
  <2>1. ProbeInv(a)
    BY DEF IInv
  <2>2. at'[a] \notin {"reserveProbe", "publishProbe"}
    BY <1>6 DEF Running, Starts, Ends
  <2>3. CASE at'[a] = "reported"
    <3>1. OwnForGood(a, ProbeFile)
      BY <1>6, <2>1, <2>3 DEF ProbeInv
    <3>2. OwnForGood(a, ProbeFile)'
      BY <1>1, <1>3, <1>9, <3>1, StopKeepsWhat DEF OwnForGood, Own
    <3> QED BY <2>3, <3>2 DEF ProbeInv
  <2> QED BY <2>2, <2>3 DEF ProbeInv
<1>11. ManifestInv'
  <2>1. \A n \in Streams : Saved(n) => Saved(n)'
    BY <1>3, <1>5, PublishedNames DEF Saved, Present
  <2> SUFFICES ASSUME dir'[ManifestFile] # NoFile, dir'[ManifestFile].data = Final
               PROVE  /\ dir'[ManifestFile].whole /\ dir'[ManifestFile].flushed
                      /\ \A n \in Streams : Saved(n)'
    BY <1>3 DEF ManifestInv
  <2>2. PICK file \in {dir[ManifestFile], disk[ManifestFile]} :
           /\ file # NoFile /\ dir'[ManifestFile].data = file.data
           /\ file.flushed => dir'[ManifestFile] = file
    BY <1>1, <1>9, StopKeepsWhat
  <2>3. file.whole /\ file.flushed /\ (\A n \in Streams : Saved(n))
    BY <1>1, <2>2 DEF ManifestInv
  <2> QED BY <2>1, <2>2, <2>3
<1>12. ReceiptInv'
  <2> SUFFICES ASSUME NEW run \in Runs, ~Free(Receipt(run, "accepted"))'
               PROVE  \E record \in Records :
                        /\ Fixed(Identity, record)' /\ Fixed(Intent, record)'
                        /\ Fixed(Claim, Bound(record, run))'
                        /\ quality'[run] = [made |-> record, holds |-> "good"]
                        /\ Receipt(run, "accepted") \in reported' =>
                              \A n \in {Kept(run), Proposal(run), Recipe(run)} : Fixed(n, n)'
    BY DEF ReceiptInv
  <2>1. /\ Receipt(run, "accepted") \in Published /\ Kept(run) \in Published
        /\ Proposal(run) \in Published /\ Recipe(run) \in Published
        /\ Identity \in Published /\ Intent \in Published /\ Claim \in Published
    BY RunNames, PublishedNames DEF Verdicts
  <2>2. ~Free(Receipt(run, "accepted"))
    BY <1>1, <2>1, StopShows DEF Free, FInv, SealedFiles
  <2>3. PICK record \in Records :
           /\ Fixed(Identity, record) /\ Fixed(Intent, record)
           /\ Fixed(Claim, Bound(record, run))
           /\ quality[run] = [made |-> record, holds |-> "good"]
           /\ Receipt(run, "accepted") \in reported =>
                 \A n \in {Kept(run), Proposal(run), Recipe(run)} : Fixed(n, n)
    BY <1>1, <2>2 DEF ReceiptInv
  <2>4. /\ Fixed(Identity, record)' /\ Fixed(Intent, record)'
        /\ Fixed(Claim, Bound(record, run))'
    BY <1>4, <2>1, <2>3
  <2>5. Receipt(run, "accepted") \in reported =>
           \A n \in {Kept(run), Proposal(run), Recipe(run)} : Fixed(n, n)'
    BY <1>4, <2>1, <2>3
  <2> QED BY <1>3, <2>3, <2>4, <2>5
<1> QED BY <1>2, <1>7, <1>8, <1>10, <1>11, <1>12 DEF IInv

LEMMA Invariance == Spec => []IInv
<1>1. Init => IInv
  <2> SUFFICES ASSUME Init PROVE IInv
    OBVIOUS
  <2>1. FInv /\ FilesTypeOK
    BY DEF Init, FilesInit, FInv, FilesTypeOK, SealedFiles, ReportedFiles, CallsInPlace,
           Entry, Call, Idle, Published
  <2>2. PICK scene \in Scenes : cast = scene.cast /\ quality = scene.quality
    BY DEF Init
  <2>3. scene \in [cast : [Actors -> [role : Starts, record : Records, run : Runs]],
                   quality : Quality]
    BY SceneType
  <2>4. [cast |-> cast, quality |-> quality] = scene
    BY <2>2, <2>3
  <2>5. \A a \in Actors : at[a] \in Starts /\ know[a] = Blank /\ call[a].at = "idle"
    BY <2>2, <2>3 DEF Init, FilesInit, Idle
  <2>6. at \in [Actors -> Places] /\ know \in [Actors -> Knowledge]
    BY <2>5, BlankKnows DEF Init, Places
  <2>7. TypeOK
    BY <2>1, <2>2, <2>4, <2>6, MaxFaultsType DEF TypeOK, Init
  <2>8. \A a \in Actors : ScriptInv(a) /\ ProbeInv(a)
    BY <2>5
    DEF ScriptInv, CallsOfScripts, DispatchInv, KnowledgeInv, Ingesting, IngestInv, SaveInv,
        ProbeInv, Starts, Blank
  <2>9. ReceiptInv
    <3>1. \A run \in Runs : Receipt(run, "accepted") \in Names
      BY RunNames DEF Published, Verdicts
    <3> QED BY <3>1 DEF Init, FilesInit, ReceiptInv, Free
  <2>10. ManifestInv
    BY PublishedNames DEF Init, FilesInit, ManifestInv
  <2> QED BY <2>1, <2>7, <2>8, <2>9, <2>10 DEF IInv
<1>2. IInv /\ [Next]_vars => IInv'
  <2> SUFFICES ASSUME IInv, [Next]_vars PROVE IInv'
    OBVIOUS
  <2>1. faults \in 0..MaxFaults /\ MaxFaults \in Nat
    BY MaxFaultsType DEF IInv, TypeOK
  <2>2. ASSUME NEW a \in Actors, Step(a), UNCHANGED faults PROVE IInv'
    BY <2>1, <2>2, ActorSteps, CalmKeeps
  <2>3. ASSUME faults < MaxFaults, faults' = faults + 1 PROVE faults' \in 0..MaxFaults
    BY <2>1, <2>3
  <2>4. ASSUME faults < MaxFaults, faults' = faults + 1, NEW a \in Actors,
               Kill(a) \/ (Fails(a) /\ UNCHANGED <<cast, quality, at, know>>)
        PROVE  IInv'
    BY <2>3, <2>4, ActorSteps, CalmKeeps
  <2>5. ASSUME faults < MaxFaults, faults' = faults + 1, PowerLoss PROVE IInv'
    BY <2>3, <2>5, PowerLossKeeps
  <2>6. CASE UNCHANGED vars
    <3>1. UNCHANGED <<dir, disk, call, reported, cast, quality, at, know, faults>>
      BY <2>6 DEF vars, fileVars
    <3>2. TypeOK' /\ FInv'
      BY <3>1 DEF IInv, TypeOK, FInv, FilesTypeOK, SealedFiles, ReportedFiles, CallsInPlace
    <3>3. \A a \in Actors : ScriptInv(a)'
      BY <3>1, <3>2, OthersKeep DEF Calm
    <3>4. \A a \in Actors : ProbeInv(a)'
      BY <3>1 DEF IInv, ProbeInv, Own, OwnForGood
    <3>5. ReceiptInv'
      BY <3>1 DEF IInv, ReceiptInv, Fixed, Present, Free
    <3>6. ManifestInv'
      BY <3>1 DEF IInv, ManifestInv, Saved, Present
    <3> QED BY <3>2, <3>3, <3>4, <3>5, <3>6 DEF IInv
  <2> QED BY <2>2, <2>4, <2>5, <2>6 DEF Next, Fault
<1> QED BY <1>1, <1>2, PTL DEF Spec

-----------------------------------------------------------------------------
(* What the processes were told                                            *)

\* A step of the scripts is a step of the library, or leaves the files alone.
LEMMA ScriptsUseFiles == ASSUME IInv, [Next]_vars PROVE [FilesNext]_fileVars
<1>1. \A a \in Actors : Step(a) => FilesStep(a) \/ UNCHANGED fileVars
  BY ActorSteps
<1>2. \A a \in Actors : Kill(a) \/ (Fails(a) /\ UNCHANGED <<cast, quality, at, know>>)
         => FilesStep(a) \/ UNCHANGED fileVars
  BY ActorSteps
<1> QED BY <1>1, <1>2 DEF Next, Fault, FilesNext, vars, PowerLoss

\* A name was reported and shows this value.
Recorded(n, v) == n \in reported /\ Present(n, v)

\* Actor a finalizes the reservation of n, or has just come out of it.
Finalizing(a, n) ==
    /\ call[a].name = n /\ call[a].data = Final
    /\ call[a].at \in {"exchange", "settle", "retire", "done", "refused"}
    /\ call[a].at = "done" => Recorded(n, Final)

\* What an answer of a script, or a place on the way to it, rests on.
Told(a) ==
    /\ at[a] \in {"publishIntent", "dispatched"} => Recorded(Identity, Record(a))
    /\ at[a] = "dispatched" => Recorded(Intent, Record(a))
    /\ at[a] = "accepted" => Evidence(a)
    /\ at[a] = "publishManifest" => Finalizing(a, ManifestFile)
    /\ at[a] = "saved" => \A n \in Streams \cup {ManifestFile} : Recorded(n, Final)
    /\ at[a] = "publishProbe" => Finalizing(a, ProbeFile)
    /\ at[a] = "reported" => Recorded(ProbeFile, Final)

ToldPlaces == {"publishIntent", "dispatched", "accepted", "publishManifest", "saved",
               "publishProbe", "reported"}

TInv == IInv /\ RInv /\ \A a \in Actors : Told(a)

LEMMA RecordedStays ==
    ASSUME RInv, [FilesNext]_fileVars, NEW n, NEW v, Recorded(n, v)
    PROVE  Recorded(n, v)'
BY ReportedStays DEF Recorded, ReportedStay, Present

LEMMA EvidenceStays ==
    ASSUME RInv, [FilesNext]_fileVars, NEW a \in Actors, UNCHANGED cast, Evidence(a)
    PROVE  Evidence(a)'
<1>1. FInv /\ Identity \in Published /\ Intent \in Published /\ Claim \in Published
  BY PublishedNames DEF RInv
<1>2. (Calm \/ MachineStops) /\ reported \subseteq reported'
  BY <1>1, StepCalm DEF FilesNext, fileVars, Calm, MachineStops
<1>3. \A n \in Published : dir[n] # NoFile /\ disk[n] = dir[n]
                           => dir'[n] = dir[n] /\ disk'[n] = dir[n]
  BY <1>1, <1>2, FixedStays
<1>4. Record(a)' = Record(a) /\ Run(a)' = Run(a)
  BY DEF Record, Run
<1> QED BY <1>1, <1>2, <1>3, <1>4 DEF Evidence, Fixed, Present, Own

\* A process that stands where it stood, its call included.
LEMMA ToldStays ==
    ASSUME RInv, [FilesNext]_fileVars, NEW a \in Actors, Told(a), UNCHANGED cast,
           at'[a] = at[a],
           at[a] \in {"publishManifest", "publishProbe"} => call'[a] = call[a]
    PROVE  Told(a)'
<1>1. \A n, v : Recorded(n, v) => Recorded(n, v)'
  BY RecordedStays
<1>2. Evidence(a) => Evidence(a)'
  BY EvidenceStays
<1>3. Record(a)' = Record(a)
  BY DEF Record
<1>4. ASSUME NEW n, at[a] \in {"publishManifest", "publishProbe"}, Finalizing(a, n)
      PROVE  Finalizing(a, n)'
  BY <1>1, <1>4 DEF Finalizing
<1> QED BY <1>1, <1>2, <1>3, <1>4 DEF Told

\* Inside a finalization.
LEMMA FinalizingGoesOn ==
    ASSUME IInv, RInv, [FilesNext]_fileVars, NEW a \in Actors, NEW n \in Reserved,
           Finalizing(a, n), at[a] \in {"publishManifest", "publishProbe"},
           Library(a) \/ Fails(a), UNCHANGED <<cast, quality, at, know>>
    PROVE  Finalizing(a, n)'
<1>1. FilesTypeOK /\ CallsOfScripts(a) /\ HeldBy(a)
  BY DEF IInv, FInv, ScriptInv, RInv, HeldFiles
<1>2. call[a].at \in Working
  BY LibrarySteps
<1>3. call[a].at \in {"exchange", "settle", "retire"}
  BY <1>2 DEF Finalizing, Working
<1>4. CASE Exchange(a) \/ Settle(a)
  BY <1>1, <1>2, <1>4, Moved DEF Exchange, Settle, Finalizing, Working
<1>5. CASE FailFinalize(a)
  BY <1>1, <1>2, <1>5, Moved DEF FailFinalize, Finalizing
<1>6. CASE Retire(a)
  <2>1. dir[n] = Written(a, Final)
    BY <1>1, <1>6 DEF HeldBy, Finalizing, Retire, Holding
  <2>2. Written(a, Final) # NoFile /\ Written(a, Final).data = Final
    BY WrittenIsFile, NoFileIsNoFile, ScriptValues
  <2>3. Recorded(n, Final)'
    BY <1>6, <2>1, <2>2 DEF Retire, Recorded, Present, Finalizing
  <2> QED BY <1>1, <1>2, <1>6, <2>3, Moved DEF Retire, Finalizing
<1> QED BY <1>3, <1>4, <1>5, <1>6
        DEF Library, Fails, Rename, Commit, FailPublish, Fill, Hold, FailReserve

LEMMA DispatchTold ==
    ASSUME IInv, NEW a \in Actors, Told(a), Dispatch(a)
    PROVE  Told(a)'
<1>1. TypeOK /\ DispatchInv(a)
  BY DEF IInv, ScriptInv
<1>2. \A s : Moves(a, s) => at'[a] = s
  BY <1>1 DEF Moves, TypeOK
<1>3. CASE PublishIntent(a)
  <2>1. at'[a] = "publishIntent" /\ Recorded(Identity, Record(a))
    BY <1>1, <1>2, <1>3 DEF PublishIntent, DispatchInv, InCall, Recorded, Done
  <2> QED BY <1>3, <2>1 DEF PublishIntent, Prepare, Told, Recorded, Present, Record
<1>4. CASE Dispatched(a)
  <2>1. at'[a] = "dispatched" /\ Recorded(Identity, Record(a)) /\ Recorded(Intent, Record(a))
    BY <1>1, <1>2, <1>4 DEF Dispatched, DispatchInv, InCall, Recorded, Done, Told
  <2> QED BY <1>4, <2>1 DEF Dispatched, Told, Recorded, Present, Record, fileVars
<1>5. CASE at'[a] \in {"retainRefusal", "claimIdentity", "raised"}
  BY <1>5 DEF Told
<1> QED BY <1>2, <1>3, <1>4, <1>5
        DEF Dispatch, DispatchElsewhere, ClaimIdentity, IdentityTaken, IntentTaken, DispatchRaises,
            Retain

LEMMA IngestTold ==
    ASSUME IInv, NEW a \in Actors, Told(a), Ingest(a)
    PROVE  Told(a)'
<1>1. TypeOK /\ IngestInv(a)
  BY DEF IInv, ScriptInv
<1>2. \A s : Moves(a, s) => at'[a] = s
  BY <1>1 DEF Moves, TypeOK
<1>3. CASE Ingested(a)
  <2>1. at'[a] \in {"accepted", "rejected"} /\ (at'[a] = "accepted" => Evidence(a))
    BY <1>1, <1>2, <1>3 DEF Ingested, IngestInv
  <2> QED BY <1>3, <2>1 DEF Ingested, Told, Evidence, Fixed, Present, Own, Record, Run, fileVars
<1>4. CASE at'[a] \notin ToldPlaces
  BY <1>4 DEF Told, ToldPlaces
<1> QED BY <1>2, <1>3, <1>4
        DEF Ingest, RetainRun, ReadIdentity, ReadIntent, ClaimIngestion, ClaimAnswered, Judge,
            WriteProposal, WriteRecipe, WriteAcceptance, IngestRaises, WriteReceipt, ToldPlaces

\* A finalization that begins.
LEMMA FinalizingBegins ==
    ASSUME FilesTypeOK, NEW a \in Actors, NEW n \in Reserved, FinalizeJson(a, n, Final)
    PROVE  Finalizing(a, n)'
<1>1. PICK s \in {"exchange", "refused"} : Enter(a, s, n, Final)
  BY DEF FinalizeJson
<1>2. call'[a].at = s /\ call'[a].name = n /\ call'[a].data = Final
  BY <1>1, Entered, ScriptValues, ReservedAreNames DEF Working
<1> QED BY <1>2 DEF Finalizing

LEMMA SaveTold ==
    ASSUME IInv, NEW a \in Actors, Told(a), Save(a)
    PROVE  Told(a)'
<1>1. TypeOK /\ FilesTypeOK /\ SaveInv(a) /\ ManifestFile \in Reserved
  BY PublishedNames DEF IInv, ScriptInv, TypeOK
<1>2. \A s : Moves(a, s) => at'[a] = s
  BY <1>1 DEF Moves, TypeOK
<1>3. \A i \in 2..10 : Continues(a, i) => at'[a] = SaveScript[i]
  BY <1>2 DEF Continues
<1>4. CASE Continues(a, 9) /\ FinalizeJson(a, ManifestFile, Final)
  <2>1. at'[a] = "publishManifest"
    BY <1>3, <1>4, SaverPlaces
  <2> QED BY <1>1, <1>4, <2>1, FinalizingBegins DEF Told
<1>5. CASE IssueAuthority(a)
  <2>1. at'[a] = "saved" /\ at[a] = "publishManifest" /\ Done(a)
    BY <1>3, <1>5, SaverPlaces DEF IssueAuthority, Continues
  <2>2. \A n \in Streams \cup {ManifestFile} : Recorded(n, Final)
    BY <1>1, <2>1 DEF Told, Finalizing, Done, SaveInv, Saved, Recorded
  <2> QED BY <1>5, <2>1, <2>2 DEF IssueAuthority, Told, Recorded, Present, fileVars
<1>6. CASE at'[a] \notin ToldPlaces
  BY <1>6 DEF Told, ToldPlaces
<1>7. \A i \in 2..8 : Continues(a, i) => at'[a] \notin ToldPlaces
  BY <1>3, SaverPlaces DEF ToldPlaces
<1> QED BY <1>2, <1>4, <1>5, <1>6, <1>7 DEF Save, ReserveBundle, SaveArtifacts, SaveRaises, ToldPlaces

LEMMA ProbeTold ==
    ASSUME IInv, NEW a \in Actors, Told(a), Probe(a)
    PROVE  Told(a)'
<1>1. TypeOK /\ FilesTypeOK /\ ProbeFile \in Reserved
  BY PublishedNames DEF IInv, TypeOK
<1>2. \A s : Moves(a, s) => at'[a] = s
  BY <1>1 DEF Moves, TypeOK
<1>3. CASE FinishProbe(a)
  <2>1. at'[a] = "publishProbe"
    BY <1>2, <1>3 DEF FinishProbe
  <2> QED BY <1>1, <1>3, <2>1, FinalizingBegins DEF Told, FinishProbe
<1>4. CASE ReportProbe(a)
  <2>1. at'[a] = "reported" /\ Recorded(ProbeFile, Final)
    BY <1>2, <1>4 DEF ReportProbe, Told, Finalizing, Done
  <2> QED BY <1>4, <2>1 DEF ReportProbe, Told, Recorded, Present, fileVars
<1>5. CASE at'[a] \in {"reserveProbe", "raised"}
  BY <1>5 DEF Told
<1> QED BY <1>2, <1>3, <1>4, <1>5 DEF Probe, StartProbe, ProbeRaises

\* Whatever one actor does.
LEMMA ActorTold ==
    ASSUME IInv, RInv, [FilesNext]_fileVars, NEW a \in Actors, Told(a),
           Step(a) \/ Kill(a) \/ (Fails(a) /\ UNCHANGED <<cast, quality, at, know>>)
    PROVE  Told(a)'
<1>1. TypeOK
  BY DEF IInv
<1>2. CASE Kill(a)
  <2>1. at'[a] = "killed"
    BY <1>1, <1>2 DEF Kill, Moves, TypeOK
  <2> QED BY <2>1 DEF Told
<1>3. CASE (Library(a) \/ Fails(a)) /\ UNCHANGED <<cast, quality, at, know>>
  <2>1. CASE at[a] \in {"publishManifest", "publishProbe"}
    <3>1. at'[a] = at[a]
      BY <1>3
    <3>2. CASE at[a] = "publishManifest"
      BY <1>3, <3>1, <3>2, FinalizingGoesOn, PublishedNames DEF Told
    <3>3. CASE at[a] = "publishProbe"
      BY <1>3, <3>1, <3>3, FinalizingGoesOn, PublishedNames DEF Told
    <3> QED BY <2>1, <3>2, <3>3
  <2> QED BY <1>3, <2>1, ToldStays
<1> QED BY <1>2, <1>3, DispatchTold, IngestTold, SaveTold, ProbeTold DEF Step

LEMMA ToldInvariance == Spec => []TInv
<1>1. Init /\ IInv => TInv
  <2>1. Init => RInv
    BY ReservationsStart DEF Init
  <2>2. ASSUME Init, NEW a \in Actors PROVE at[a] \in Starts
    BY <2>2, SceneType DEF Init
  <2> QED BY <2>1, <2>2 DEF Told, Starts, TInv
<1>2. TInv /\ IInv' /\ [Next]_vars => TInv'
  <2> SUFFICES ASSUME TInv, [Next]_vars PROVE RInv' /\ \A a \in Actors : Told(a)'
    BY DEF TInv
  <2>1. IInv /\ RInv /\ [FilesNext]_fileVars /\ TypeOK
    BY ScriptsUseFiles DEF TInv, IInv
  <2>2. RInv'
    BY <2>1, ReservationsLast
  <2>3. ASSUME NEW a \in Actors,
               Step(a) \/ Kill(a) \/ (Fails(a) /\ UNCHANGED <<cast, quality, at, know>>)
        PROVE  \A b \in Actors : Told(b)'
    <3>1. Told(a)'
      BY <2>1, <2>3, ActorTold DEF TInv
    <3>2. \A b \in Actors \ {a} : Told(b)'
      BY <2>1, <2>3, ActorSteps, ToldStays DEF TInv, Local
    <3> QED BY <3>1, <3>2
  <2>4. ASSUME PowerLoss, NEW a \in Actors PROVE Told(a)'
    <3>1. CASE Running(a)
      BY <2>1, <2>4, <3>1 DEF PowerLoss, Told
    <3>2. CASE ~Running(a)
      <4>1. at'[a] = at[a] /\ cast' = cast
        BY <2>1, <2>4, <3>2 DEF PowerLoss
      <4>2. at[a] \notin {"publishManifest", "publishProbe"}
        BY <3>2 DEF Running, Starts, Ends
      <4> QED BY <2>1, <4>1, <4>2, ToldStays DEF TInv
    <3> QED BY <3>1, <3>2
  <2>5. CASE UNCHANGED vars
    BY <2>1, <2>2, <2>5, ToldStays DEF TInv, vars, fileVars
  <2> QED BY <2>2, <2>3, <2>4, <2>5 DEF Next, Fault
<1> QED BY <1>1, <1>2, Invariance, PTL DEF Spec

-----------------------------------------------------------------------------
(* The theorems                                                            *)

\* Every reachable state of the processes and of their files is well typed.
THEOREM TypeCorrect == Spec => []TypeOK
BY Invariance, PTL DEF IInv

\* However many dispatchers there are, at most one is told to start the model:
\* the intent is the file of the one process that was.
THEOREM DispatchedOnce == Spec => []OneDispatch
<1>1. IInv => OneDispatch
  BY DEF IInv, ScriptInv, DispatchInv, Own, OneDispatch
<1> QED BY <1>1, Invariance, PTL

\* However many ingesters there are, at most one accepts: the claim is its own
\* file, and it names the run of every accepted receipt.
THEOREM AcceptedOnce == Spec => []OneAcceptance
<1>1. ASSUME IInv PROVE OneAcceptance
  <2>1. \A a, b \in Actors : at[a] = "accepted" /\ at[b] = "accepted" => a = b
    BY <1>1 DEF IInv, ScriptInv, IngestInv, Own
  <2>2. ASSUME NEW r \in Runs, NEW s \in Runs,
               ~Free(Receipt(r, "accepted")), ~Free(Receipt(s, "accepted"))
        PROVE  r = s
    <3>1. PICK record \in Records : Fixed(Claim, Bound(record, r))
      BY <1>1, <2>2 DEF IInv, ReceiptInv
    <3>2. PICK other \in Records : Fixed(Claim, Bound(other, s))
      BY <1>1, <2>2 DEF IInv, ReceiptInv
    <3>3. Bound(record, r) = Bound(other, s)
      BY <3>1, <3>2 DEF Fixed, Present
    <3> QED BY <3>3, Distinct
  <2> QED BY <2>1, <2>2 DEF OneAcceptance
<1> QED BY <1>1, Invariance, PTL

\* An accepted receipt is only ever seen over permanent evidence.
THEOREM EvidenceDurable == Spec => []EvidenceIsDurable
<1>1. ASSUME IInv PROVE EvidenceIsDurable
  <2>1. \A n \in Published : \A v : Fixed(n, v) => Durable(n, v)
    BY <1>1 DEF IInv, FInv, SealedFiles, Sealed, Fixed, Present, Durable
  <2> SUFFICES ASSUME NEW run \in Runs, ~Free(Receipt(run, "accepted"))
               PROVE  \E record \in Records :
                        /\ Durable(Identity, record) /\ Durable(Intent, record)
                        /\ Durable(Claim, Bound(record, run))
                        /\ quality[run] = [made |-> record, holds |-> "good"]
                        /\ Receipt(run, "accepted") \in reported =>
                              \A n \in {Kept(run), Proposal(run), Recipe(run)} : Durable(n, n)
    BY DEF EvidenceIsDurable
  <2>2. PICK record \in Records :
           /\ Fixed(Identity, record) /\ Fixed(Intent, record)
           /\ Fixed(Claim, Bound(record, run))
           /\ quality[run] = [made |-> record, holds |-> "good"]
           /\ Receipt(run, "accepted") \in reported =>
                 \A n \in {Kept(run), Proposal(run), Recipe(run)} : Fixed(n, n)
    BY <1>1 DEF IInv, ReceiptInv
  <2>3. /\ Kept(run) \in Published /\ Proposal(run) \in Published /\ Recipe(run) \in Published
        /\ Identity \in Published /\ Intent \in Published /\ Claim \in Published
    BY RunNames, PublishedNames
  <2> QED BY <2>1, <2>2, <2>3
<1> QED BY <1>1, Invariance, PTL

\* A final manifest is only ever seen over a complete and permanent bundle.
THEOREM ManifestLast == Spec => []ManifestComesLast
<1>1. ASSUME IInv PROVE ManifestComesLast
  <2>1. \A n \in Streams : Saved(n) => Durable(n, Final)
    BY <1>1, PublishedNames, ReportedIsFixed
    DEF IInv, FInv, SealedFiles, Sealed, Saved, Present, Durable
  <2> QED BY <1>1, <2>1 DEF IInv, ManifestInv, ManifestComesLast, Free
<1> QED BY <1>1, Invariance, PTL

\* Two probes of one output never both run.
THEOREM ProbedOnce == Spec => []OneProbe
<1>1. IInv => OneProbe
  BY DEF IInv, ProbeInv, OneProbe, Probing, Done, Own, OwnForGood, Free
<1> QED BY <1>1, Invariance, PTL

\* The processes use the library in an order of their own, and kills and stops
\* interrupt them, but what they publish is the write-once register still.
THEOREM ScriptsImplementWriteOnce == Spec => ImplementsWriteOnce
<1>1. Init => Once!Init
  BY DEF Init, FilesInit, Once!Init, Shown, Published
<1>2. IInv /\ [Next]_vars => FInv /\ [FilesNext]_fileVars
  BY ScriptsUseFiles DEF IInv
<1>3. FInv /\ [FilesNext]_fileVars
      => [Once!Next]_<<[n \in Published |-> Shown(n)], reported \cap Published>>
  BY StepImplements
<1> QED BY <1>1, <1>2, <1>3, Invariance, PTL DEF Spec, ImplementsWriteOnce, Once!Spec

\* What an answer of a script stands on.
OnRecord ==
    \A a \in Actors :
        /\ at[a] \in {"dispatched", "accepted"} =>
              Durable(Identity, Record(a)) /\ Durable(Intent, Record(a))
        /\ at[a] = "accepted" => Durable(Claim, Bound(Record(a), Run(a)))
        /\ at[a] = "saved" => \A n \in Streams \cup {ManifestFile} : Durable(n, Final)
        /\ at[a] = "reported" => Durable(ProbeFile, Final)

\* The answers are on record: as long as a process stands at its answer, the
\* files the answer rests on are permanent and hold what it says, for a model
\* call that was dispatched or accepted, a bundle that was saved and a probe
\* that was reported, whatever fails, is killed or stops afterwards.
THEOREM AnswersOnRecord == Spec => []OnRecord
<1>1. ASSUME TInv PROVE OnRecord
  <2>1. ASSUME NEW n \in Published, NEW v, Fixed(n, v) PROVE Durable(n, v)
    BY <1>1, <2>1 DEF TInv, RInv, FInv, SealedFiles, Sealed, Fixed, Present, Durable
  <2>2. ASSUME NEW n \in Names, NEW v, Recorded(n, v) PROVE Durable(n, v)
    <3>1. CASE n \in Published
      BY <1>1, <2>1, <2>2, <3>1, ReportedIsFixed DEF TInv, RInv, Recorded, Fixed
    <3>2. CASE n \in Reserved
      BY <1>1, <2>2, <3>2, NoFileIsNoFile
      DEF TInv, RInv, FinishedFiles, Sealed, Recorded, Present, Durable
    <3> QED BY <3>1, <3>2 DEF Published
  <2> SUFFICES ASSUME NEW a \in Actors
               PROVE  /\ at[a] \in {"dispatched", "accepted"} =>
                            Durable(Identity, Record(a)) /\ Durable(Intent, Record(a))
                      /\ at[a] = "accepted" => Durable(Claim, Bound(Record(a), Run(a)))
                      /\ at[a] = "saved" => \A n \in Streams \cup {ManifestFile} : Durable(n, Final)
                      /\ at[a] = "reported" => Durable(ProbeFile, Final)
    BY DEF OnRecord
  <2>3. /\ Identity \in Published /\ Intent \in Published /\ Claim \in Published
        /\ Streams \cup {ManifestFile, ProbeFile, Identity, Intent} \subseteq Names
    BY PublishedNames DEF Published
  <2>4. Told(a)
    BY <1>1 DEF TInv
  <2>5. CASE at[a] = "dispatched"
    BY <2>2, <2>3, <2>4, <2>5 DEF Told
  <2>6. CASE at[a] = "accepted"
    BY <2>1, <2>3, <2>4, <2>6 DEF Told, Evidence
  <2>7. CASE at[a] = "saved"
    BY <2>2, <2>3, <2>4, <2>7 DEF Told
  <2>8. CASE at[a] = "reported"
    BY <2>2, <2>3, <2>4, <2>8 DEF Told
  <2> QED BY <2>5, <2>6, <2>7, <2>8
<1> QED BY <1>1, ToldInvariance, PTL
=============================================================================
