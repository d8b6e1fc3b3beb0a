------------------------------- MODULE Release --------------------------------
(***************************************************************************)
(* How a trained adapter becomes a release and a running server:           *)
(* the release record and the upload (scripts/release_model.py, and        *)
(* scripts/release_gemma_final.py for the releases of PinnedReleases, with *)
(* rupsaa/release.py), the restore (scripts/fetch_adapter.py,              *)
(* setup_rupsaa.sh, scripts/verify_installation.py) and the owner's        *)
(* approval (scripts/finalize_release.sh) with the check before a start    *)
(* (scripts/check_production_config.py).                                   *)
(*                                                                         *)
(* A build is what one training run leaves, a number; 0 is none.  The      *)
(* weights and the configuration of an adapter are two files, each of some *)
(* build; a checksum is the number of the build it was taken of.           *)
(*                                                                         *)
(* One command runs at a time and may die between two of its steps;        *)
(* training may put a new build into an adapter's directory at any time.   *)
(***************************************************************************)
EXTENDS Integers, FiniteSets

CONSTANTS
    Releases,        \* each with its own adapter directory, hub folder and tag
    PinnedReleases,  \* those whose checksum is written in the script
    ImpliedPrompt,   \* release -> the prompt version its name implies
    MaxBuilds, MaxDeaths, MaxScripts   \* bounds

ASSUME ReleaseAssumption == {MaxBuilds, MaxDeaths, MaxScripts} \subseteq Nat

VARIABLES
    dir,        \* release -> [weights, config] in its adapter directory
    builds,     \* training runs so far
    dataset,    \* the frozen inputs of the releases are unchanged
    releaseManifest,   \* release -> [weights, uploaded] of release/<name>/manifest.json
    checksums,  \* release -> [weights, config] of checksums.sha256
    card,       \* the releases with a MODEL_CARD.md
    hub,        \* release -> [folder, tag]: what lies on the Hub
    dotenv,     \* .env: [release, sha, prompt]; release Unset when there is no file
    approved,   \* history: [release, weights, prompt] of the approvals
    launched,   \* the last start that passed the check: [release, weights, prompt]
    job, scripts, deaths
releaseVars == <<dir, builds, dataset, releaseManifest, checksums, card, hub, dotenv, approved, launched, job, scripts, deaths>>

Unset == ""     \* no value: a line of .env that is not there
Prompts == {Unset, "v0.1", "v0.2"}
NoFiles == [weights |-> 0, config |-> 0]
AtRest == [steps |-> 0]
Steps == [prepare |-> 3, upload |-> 4, fetch |-> 2, finalize |-> 2]
RecordUnchanged == UNCHANGED <<releaseManifest, checksums, card>>
ServingUnchanged == UNCHANGED <<dotenv, approved, launched>>

\* A command has passed its first checks; `more` is what it read.
BeginScript(kind, r, more) == job' = [kind |-> kind, release |-> r, steps |-> Steps[kind], read |-> more]
At(kind, left) == job # AtRest /\ job.kind = kind /\ job.steps = left
Done == job' = IF job.steps = 1 THEN AtRest ELSE [job EXCEPT !.steps = @ - 1]
Command == job = AtRest /\ scripts < MaxScripts /\ scripts' = scripts + 1

ReleaseInit ==
  /\ dir = [r \in Releases |-> NoFiles] /\ builds = 0 /\ dataset = TRUE
  /\ releaseManifest = [r \in Releases |-> [weights |-> 0, uploaded |-> FALSE]]
  /\ checksums = [r \in Releases |-> NoFiles] /\ card = {}
  /\ hub = [r \in Releases |-> [folder |-> NoFiles, tag |-> NoFiles]]
  /\ dotenv = [release |-> Unset, sha |-> 0, prompt |-> Unset]
  /\ approved = {} /\ launched = [release |-> Unset, weights |-> 0, prompt |-> Unset]
  /\ job = AtRest /\ scripts = 0 /\ deaths = 0

\* A training run saves its adapter, or the owner edits a frozen input.
Train(r) ==
  /\ builds < MaxBuilds
  /\ builds' = builds + 1
  /\ dir' = [dir EXCEPT ![r] = [weights |-> builds', config |-> builds']]
  /\ UNCHANGED <<dataset, hub, job, scripts, deaths>> /\ RecordUnchanged /\ ServingUnchanged
EditInputs ==
  /\ dataset /\ dataset' = FALSE
  /\ UNCHANGED <<dir, builds, hub, job, scripts, deaths>> /\ RecordUnchanged /\ ServingUnchanged

-----------------------------------------------------------------------------
(* The release record *)

\* validate_adapter
AdapterValid(r) == dir[r].weights # 0 /\ dir[r].config # 0

\* A record of other weights is never replaced; a pinned release is of one build only, and .env.example names the same.
PinnedBuild == 1

MayPreparePinned(r) == dir[r].weights = PinnedBuild
MayPrepare(r) ==
  /\ AdapterValid(r) /\ dataset /\ releaseManifest[r].weights \in {0, dir[r].weights}
  /\ r \in PinnedReleases => MayPreparePinned(r)

Prepare(r) ==
  /\ Command /\ MayPrepare(r) /\ BeginScript("prepare", r, dir[r].weights)
  /\ UNCHANGED <<dir, builds, dataset, hub, deaths>> /\ RecordUnchanged /\ ServingUnchanged

\* The manifest hashes the weights once more; a pinned release keeps the checksum that was compared.
PinnedManifest == job.read
Manifest(r) == IF r \in PinnedReleases THEN PinnedManifest ELSE dir[r].weights
WriteRecord ==
  /\ At("prepare", 3)
  /\ releaseManifest' = [releaseManifest EXCEPT ![job.release].weights = Manifest(job.release)]
  /\ Done /\ UNCHANGED <<dir, builds, dataset, checksums, card, hub, scripts, deaths>> /\ ServingUnchanged
WriteChecksums ==
  /\ At("prepare", 2)
  /\ checksums' = [checksums EXCEPT ![job.release] = dir[job.release]]
  /\ Done /\ UNCHANGED <<dir, builds, dataset, releaseManifest, card, hub, scripts, deaths>> /\ ServingUnchanged
WriteCard ==
  /\ At("prepare", 1)
  /\ card' = card \cup {job.release}
  /\ Done /\ UNCHANGED <<dir, builds, dataset, releaseManifest, checksums, hub, scripts, deaths>> /\ ServingUnchanged

-----------------------------------------------------------------------------
(* The upload *)

\* Mutant of MayUpload: a folder without its tag may be overwritten.
MayUploadUntagged(r) == releaseManifest[r].weights # 0 /\ dir[r].weights = releaseManifest[r].weights /\ hub[r].tag = NoFiles

\* cmd_upload refuses what is on the Hub already, a folder without its tag too.
MayUpload(r) == MayUploadUntagged(r) /\ hub[r].folder = NoFiles

Upload(r) ==
  /\ Command /\ MayUpload(r) /\ BeginScript("upload", r, releaseManifest[r])
  /\ UNCHANGED <<dir, builds, dataset, hub, deaths>> /\ RecordUnchanged /\ ServingUnchanged

\* _staging copies the files as they are by then, and needs the card.
Stage ==
  /\ At("upload", 4)
  /\ IF job.release \in card
     THEN job' = [job EXCEPT !.steps = 3, !.read = [manifest |-> @, files |-> dir[job.release]]]
     ELSE job' = AtRest
  /\ UNCHANGED <<dir, builds, dataset, hub, scripts, deaths>> /\ RecordUnchanged /\ ServingUnchanged
UploadFolder ==
  /\ At("upload", 3)
  /\ hub' = [hub EXCEPT ![job.release].folder = job.read.files]
  /\ Done /\ UNCHANGED <<dir, builds, dataset, scripts, deaths>> /\ RecordUnchanged /\ ServingUnchanged
CreateTag ==
  /\ At("upload", 2)
  /\ hub' = [hub EXCEPT ![job.release].tag = hub[job.release].folder]
  /\ Done /\ UNCHANGED <<dir, builds, dataset, scripts, deaths>> /\ RecordUnchanged /\ ServingUnchanged

\* Mutant of Landed: what landed is not looked at.
LandedUnread(r) == TRUE

\* What landed is compared with the record before the record says so.
LandedPinned(r) == hub[r].tag.weights = job.read.manifest.weights
Landed(r) == IF r \in PinnedReleases THEN LandedPinned(r) ELSE hub[r].tag.weights = checksums[r].weights
MarkUploaded ==
  /\ At("upload", 1)
  /\ IF Landed(job.release)
     THEN releaseManifest' = [releaseManifest EXCEPT ![job.release] = [job.read.manifest EXCEPT !.uploaded = TRUE]]
     ELSE UNCHANGED releaseManifest
  /\ Done /\ UNCHANGED <<dir, builds, dataset, checksums, card, hub, scripts, deaths>> /\ ServingUnchanged

-----------------------------------------------------------------------------
(* The restore *)

\* RUPSAA_ADAPTER_PATH, which .env sets for every script, names the directory; without it the release's own.
Destination(r) == IF dotenv.release = Unset THEN r ELSE dotenv.release

\* Mutant of Matches: any two files will do.
MatchesAny(files, r) == files.weights # 0 /\ files.config # 0

\* verify_dir
Matches(files, r) == files.weights # 0 /\ files.config # 0 /\ files = checksums[r]

\* main and install of fetch_adapter.py: from a kept copy of any build, or from the tag on the Hub; a source that does not
\* match the release is not installed.
Fetch(r, source) ==
  /\ Command /\ checksums[r] # NoFiles
  /\ source \in {hub[r].tag} \cup {[weights |-> b, config |-> b] : b \in 1 .. builds}
  /\ source # hub[r].tag \/ ~Matches(dir[Destination(r)], r)
  /\ IF Matches(source, r) THEN BeginScript("fetch", r, [files |-> source, to |-> Destination(r)]) ELSE UNCHANGED job
  /\ UNCHANGED <<dir, builds, dataset, hub, deaths>> /\ RecordUnchanged /\ ServingUnchanged
InstallConfig ==
  /\ At("fetch", 2)
  /\ dir' = [dir EXCEPT ![job.read.to].config = job.read.files.config]
  /\ Done /\ UNCHANGED <<builds, dataset, hub, scripts, deaths>> /\ RecordUnchanged /\ ServingUnchanged
InstallWeights ==
  /\ At("fetch", 1)
  /\ dir' = [dir EXCEPT ![job.read.to].weights = job.read.files.weights]
  /\ Done /\ UNCHANGED <<builds, dataset, hub, scripts, deaths>> /\ RecordUnchanged /\ ServingUnchanged

-----------------------------------------------------------------------------
(* The owner's approval and the start *)

\* finalize_release.sh: the checksum of the report is compared, then the lines of .env are written one after the other.
Finalize(r, weights, prompt) ==
  /\ Command /\ AdapterValid(r) /\ dir[r].weights = weights
  /\ BeginScript("finalize", r, [weights |-> weights, prompt |-> prompt])
  /\ approved' = approved \cup {[release |-> r, weights |-> weights, prompt |-> prompt]}
  /\ UNCHANGED <<dir, builds, dataset, hub, dotenv, launched, deaths>> /\ RecordUnchanged

\* A fresh .env is a copy of .env.example, which names a prompt version and the checksum of the pinned build.
Example == [release |-> Unset, sha |-> PinnedBuild, prompt |-> "v0.2"]
SetAdapterPath ==
  /\ At("finalize", 2)
  /\ dotenv' = [(IF dotenv.release = Unset THEN Example ELSE dotenv) EXCEPT !.release = job.release]
  /\ Done /\ UNCHANGED <<dir, builds, dataset, hub, approved, launched, scripts, deaths>> /\ RecordUnchanged
SetChecksum ==
  /\ At("finalize", 1)
  /\ dotenv' = [dotenv EXCEPT !.sha = job.read.weights, !.prompt = IF job.read.prompt = Unset THEN @ ELSE job.read.prompt]
  /\ Done /\ UNCHANGED <<dir, builds, dataset, hub, approved, launched, scripts, deaths>> /\ RecordUnchanged

\* Mutant of Check: the checksum is not compared.
CheckUnpinned == dotenv.release # Unset /\ AdapterValid(dotenv.release)

\* check_production_config: the weights in the directory that .env names have the checksum that .env names.
Check == CheckUnpinned /\ dotenv.sha \in {0, dir[dotenv.release].weights}

\* resolve_prompt_version
PromptOf(r) == IF dotenv.prompt # Unset THEN dotenv.prompt ELSE ImpliedPrompt[r]
Launch ==
  /\ Command /\ Check
  /\ launched' = [release |-> dotenv.release, weights |-> dir[dotenv.release].weights, prompt |-> PromptOf(dotenv.release)]
  /\ UNCHANGED <<dir, builds, dataset, hub, dotenv, approved, job, deaths>> /\ RecordUnchanged

\* The command that is under way dies, or an operator stops it.
Die ==
  /\ job # AtRest /\ deaths < MaxDeaths
  /\ deaths' = deaths + 1 /\ job' = AtRest
  /\ UNCHANGED <<dir, builds, dataset, hub, scripts>> /\ RecordUnchanged /\ ServingUnchanged

ReleaseNext ==
  \/ EditInputs \/ Launch \/ Die
  \/ WriteRecord \/ WriteChecksums \/ WriteCard
  \/ Stage \/ UploadFolder \/ CreateTag \/ MarkUploaded
  \/ InstallConfig \/ InstallWeights \/ SetAdapterPath \/ SetChecksum
  \/ \E r \in Releases :
       \/ Train(r) \/ Prepare(r) \/ Upload(r)
       \/ \E source \in [weights : 0 .. MaxBuilds, config : 0 .. MaxBuilds] : Fetch(r, source)
       \/ \E weights \in 1 .. MaxBuilds, prompt \in Prompts : Finalize(r, weights, prompt)

ReleaseSpec == ReleaseInit /\ [][ReleaseNext]_releaseVars

-----------------------------------------------------------------------------
(* Properties *)

\* "an existing release ... is never overwritten" (release_model.py:21): what lies in a release's folder on the Hub, and what
\* its tag names, stays, whatever was trained, restored or interrupted meanwhile.
PublishedStays ==
  [][\A r \in Releases : /\ hub[r].folder # NoFiles => hub'[r].folder = hub[r].folder
                         /\ hub[r].tag # NoFiles => hub'[r].tag = hub[r].tag]_releaseVars

\* A record says that its release is on the Hub only when the very weights of the record are, though the adapter may have been
\* trained anew while the upload was under way.
UploadedIsWhatWasRecorded ==
  [][\A r \in Releases : ~releaseManifest[r].uploaded /\ releaseManifest'[r].uploaded => hub[r].tag.weights = releaseManifest'[r].weights]_releaseVars

\* "a mismatch is a hard failure and the download is not moved into place" (fetch_adapter.py:18): besides training, only
\* files of the very build that the release records are put into an adapter's directory.
OnlyReleasedFilesInstalled ==
  [][dir' # dir /\ builds' = builds => job.read.files = checksums[job.release]]_releaseVars

\* Only weights that the owner has approved, or that .env.example pins, pass the check before a start, also when an approval was interrupted between the
\* lines of .env, or another build or release has been put into the directory since.
LaunchedIsApproved ==
  launched.weights \in {0, PinnedBuild} \/ \E a \in approved : a.weights = launched.weights
=============================================================================
