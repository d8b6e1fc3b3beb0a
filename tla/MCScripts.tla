------------------------------ MODULE MCScripts ------------------------------
(***************************************************************************)
(* What is run from a terminal: the curation of the dataset, its voice     *)
(* audit, its splits, the review for training, the training sets, the      *)
(* checks before a training, the training of an adapter, the suites it is  *)
(* evaluated with, its measurement, and its release.                       *)
(* They share no state here, so a behaviour is one of theirs; the others   *)
(* stand still.                                                            *)
(***************************************************************************)
EXTENDS DatasetCuration, VoiceAudit, DatasetSplits, TrainingReview, TrainingSets, AdapterTraining, Release,
        EvalSuites, PostTraining, PreflightChecks

VARIABLE part

workVars == <<part, curationVars, auditVars, splitsVars, reviewVars, trainingSetVars, trainingVars, releaseVars,
              suitesVars, postVars, preflightVars>>

\* Replies of a conversation: one that is right, and one for each kind of repair or finding.
Plain == [language |-> "banglish", source |-> "imported", user |-> "latin", script |-> "latin", foreign |-> FALSE, mixed |-> "none",
          stranded |-> "none", fillers |-> {}, bare |-> FALSE, calque |-> FALSE, overused |-> FALSE, dodges |-> FALSE, factual |-> FALSE,
          risky |-> FALSE]
SampleReplies == {
    Plain,
    [Plain EXCEPT !.fillers = {"opening"}],
    [Plain EXCEPT !.mixed = "letter"],
    [Plain EXCEPT !.mixed = "stem", !.script = "nearly_latin", !.stranded = "short", !.user = "bengali"],
    [Plain EXCEPT !.fillers = {"opening"}, !.user = "bengali"],
    [Plain EXCEPT !.fillers = {"closing"}, !.bare = TRUE],
    [Plain EXCEPT !.language = "en", !.fillers = {"middle"}, !.source = "human_authored"]}

\* The conversations that the training sets are built from.
Conv(i, k, c, a, s, ab, g, f, q) ==
    [id |-> i, kind |-> k, category |-> c, asks |-> a, says |-> s, about |-> ab, grounded |-> g, flaws |-> f, question |-> q]
WrittenCorpus == {
    Conv(1, "base", "chat", "a1", "ok", "x1", {1, 2}, {}, FALSE),
    Conv(2, "base", "chat", "a2", "s2", "x2", {1, 2}, {"catchphrase"}, FALSE),
    Conv(3, "base", "chat", "a3", "s3", "x3", {1, 2}, {"script_mix"}, TRUE),
    Conv(4, "base_eval", "chat", "a4", "s4", "x4", {1, 2}, {}, TRUE),
    Conv(5, "corrective", "term", "a5", "s5", "x5", {1}, {}, FALSE),
    Conv(6, "corrective", "term", "a6", "s6", "x6", {1, 2}, {}, FALSE),
    Conv(7, "corrective", "term", "a5", "s7", "x7", {1, 2}, {}, FALSE),
    Conv(8, "dance", "dance", "a8", "s8", "d8", {1}, {}, TRUE),
    Conv(9, "dance_held", "dance", "a9", "ok", "d9", {1}, {}, FALSE),
    Conv(12, "dance_held", "dance", "a2", "s12", "d12", {1}, {}, FALSE),
    Conv(10, "draft", "term", "a9", "s10", "x10", {1}, {}, FALSE),
    Conv(11, "final", "term", "a11", "s11", "x11", {1}, {}, FALSE)}
StartingCorpus == {{c \in WrittenCorpus : c.id \in {5, 6, 8, 9, 10, 11}}}
EvalSlices == [n \in 3..27 |-> IF n = 3 THEN {2} ELSE {1, n - 1}]

\* What an evaluation can measure.
Measured(l, t, h) == [loss |-> l, loss_v01 |-> 2, loss_base |-> 3, terms |-> t, terms_v01 |-> 75, scripts |-> 9, honestly |-> h]
Measurements == {Measured(1, 80, FALSE), Measured(2, 80, FALSE), Measured(1, 79, FALSE), Measured(1, 90, TRUE)}

PromptByName == [r \in Releases |-> IF r = "rupsaa-v0.2" THEN "v0.2" ELSE "v0.1"]

\* What a variant is asked, and what it may answer.
Expect(s, n, shorter, needs) == [script |-> s, lengths |-> 0..n, shorter |-> shorter, needs |-> needs]
MeasuredJobs ==
    << [kind |-> "loss", expect |-> <<>>],
       [kind |-> "loss", expect |-> <<>>],
       [kind |-> "term", expect |-> <<Expect("latin", 2, FALSE, {"grounding"}), Expect("any", 2, TRUE, {})>>],
       [kind |-> "live", expect |-> <<Expect("any", 2, FALSE, {}), Expect("bengali", 1, FALSE, {})>>] >>
Said(s, n, says) == [script |-> s, length |-> n, says |-> says]
PossibleReplies == {Said("latin", 2, {"grounding"}), Said("latin", 1, {"forbidden"}), Said("bengali", 1, {"grounding"})}

Faultless == CHOOSE c \in AuditedConversations : c.text = {}

WorkInit ==
    /\ part \in {"curation", "audit", "splits", "review", "sets", "training", "release", "suites", "measuring", "preflight"}
    /\ CurationInit /\ (part # "curation" => \A p \in Paths : files[p] = NoFile)
    /\ AuditInit /\ (part # "audit" => conversation = Faultless)
    /\ SplitsInit /\ (part # "splits" => links = {} /\ \A r \in SplitRecords : recordLanguage[r] = "bn")
    /\ ReviewInit /\ (part # "review" => \A r \in Records : stored[r].reply = Plain)
    /\ TrainingSetsInit /\ (part # "sets" => serving = 1)
    /\ TrainingInit /\ ReleaseInit
    /\ SuitesInit /\ (part # "suites" => \A r \in EvalRecords : exported[r] = "none" /\ approvedText[r] = "said")
    /\ PostInit
    /\ PreflightInit /\ (part # "preflight" => ~filled)

\* The data of the parts, in groups that stand still together.
datasetVars == <<curationVars, auditVars, splitsVars, reviewVars, trainingSetVars>>
modelVars == <<trainingVars, releaseVars, suitesVars, postVars, preflightVars>>

WorkNext ==
    /\ UNCHANGED part
    /\ \/ /\ UNCHANGED modelVars
          /\ \/ /\ part = "curation" /\ CurationNext
                /\ UNCHANGED <<auditVars, splitsVars, reviewVars, trainingSetVars>>
             \/ /\ part = "audit" /\ AuditNext
                /\ UNCHANGED <<curationVars, splitsVars, reviewVars, trainingSetVars>>
             \/ /\ part = "splits" /\ SplitsNext
                /\ UNCHANGED <<curationVars, auditVars, reviewVars, trainingSetVars>>
             \/ /\ part = "review" /\ ReviewNext
                /\ UNCHANGED <<curationVars, auditVars, splitsVars, trainingSetVars>>
             \/ /\ part = "sets" /\ TrainingSetsNext
                /\ UNCHANGED <<curationVars, auditVars, splitsVars, reviewVars>>
       \/ /\ UNCHANGED datasetVars
          /\ \/ /\ part = "training" /\ TrainingNext
                /\ UNCHANGED <<releaseVars, suitesVars, postVars, preflightVars>>
             \/ /\ part = "release" /\ ReleaseNext
                /\ UNCHANGED <<trainingVars, suitesVars, postVars, preflightVars>>
             \/ /\ part = "suites" /\ SuitesNext
                /\ UNCHANGED <<trainingVars, releaseVars, postVars, preflightVars>>
             \/ /\ part = "measuring" /\ PostNext
                /\ UNCHANGED <<trainingVars, releaseVars, suitesVars, preflightVars>>
             \/ /\ part = "preflight" /\ PreflightNext
                /\ UNCHANGED <<trainingVars, releaseVars, suitesVars, postVars>>

WorkSpec == WorkInit /\ [][WorkNext]_workVars
-----------------------------------------------------------------------------
(* What is finished stays: no later command, and no command that dies,     *)
(* changes or loses a record, a snapshot, a freeze, the weights of a run   *)
(* or a published release; only a death while a record's one file is       *)
(* written over loses it (save, move, create_snapshot, freeze,             *)
(* step_output_dir, cmd_upload).                                           *)
FinishedStays ==
    KeptUntilRestored /\ SnapshotIntact /\ FrozenNeverChanges /\ FreezesStay /\ FinishedRunsStay /\ PublishedStays

(* Reviews count: no bulk review undoes one made since its list, nothing   *)
(* enters a frozen set that nobody decided on and a check objects to, and  *)
(* a manifest names what there is (cmd_apply, v02_build_candidate, freeze).*)
(* What was rejected may still be frozen: RejectedStaysOut.                *)
ReviewsCount == [][FrozenIsClean' /\ ManifestTellsTruth']_workVars /\ BulkRespectsReviews

(* What is recommended was measured to be good, by measures taken alike of *)
(* every variant; what is recorded as published was published, and what is *)
(* installed or launched was recorded or approved (posttrain_v02,          *)
(* cmd_upload, fetch_adapter, check).                                      *)
OnlyApprovedServes ==
    /\ [][GuideNamesTheBest' /\ GuideWasEarned' /\ MeasuredAlike' /\ LaunchedIsApproved']_workVars
    /\ UploadedIsWhatWasRecorded /\ OnlyReleasedFilesInstalled

(* What a model is judged by is unseen: no relation crosses a split, no    *)
(* set is far off its share, and what V0.2 and V0.1 are compared on is     *)
(* what neither was trained with (leakage_groups, split, build_manifests). *)
JudgedOnUnseen == SplitIsFair /\ ComparisonIsFair

(* What is trained on is sound: the sets are what was authorized, without  *)
(* what is held out (but for short turns that V0.2 has too), and a         *)
(* preflight that passed can be believed (v021_leakage_check, v03_freeze,  *)
(* v02_preflight).                                                         *)
TrainedOnSound == SetsAreSound /\ PreflightIsHonest
=============================================================================
