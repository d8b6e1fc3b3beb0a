---- MODULE AdapterTraining ----
(* The V0.2 adapter from training to the integration guide: scripts/v02_preflight.py, which      *)
(* moves an earlier run aside; LLaMA-Factory, which trains into adapters/rupsaa-v0.2 (external); *)
(* and scripts/posttrain_rupsaa_v02.sh with posttrain_v02.py, which verify, evaluate and, when   *)
(* the gate is passed, write the guide.  The owner starts each by hand, in any order.            *)
EXTENDS Naturals, Sequences

CONSTANTS
    Checkpoints,    \* checkpoints a run saves
    Losses,         \* evaluation losses a checkpoint may have
    Outcomes,       \* what the evaluation of an adapter may measure
    MinTermRate, MinLiveScripts,      \* GATE
    MaxRuns, MaxEvaluations           \* bounds

VARIABLES
    adapterDir,    \* adapters/rupsaa-v0.2
    preserved,     \* adapters/_preserved
    trainer,       \* the training process
    lossLog,       \* log_history of each run
    evaluation,    \* the posttrain process
    results,       \* posttrain_results.json
    guide,         \* APP_INTEGRATION.md
    evaluations

trainingVars == <<adapterDir, preserved, trainer, lossLog, evaluation, results, guide, evaluations>>

NoWeights == <<0, 0>>
EmptyDir == [saved |-> {}, root |-> NoWeights, best |-> NoWeights]
NoProcess == [at |-> "none"]
WeightsOf(run, step) == <<run, step>>
(* best_model_checkpoint: the first checkpoint no later one was better than *)
BestStep(log) == CHOOSE i \in DOMAIN log : \A j \in DOMAIN log : log[i] < log[j] \/ (log[i] = log[j] /\ i <= j)

TrainingInit ==
    /\ adapterDir = EmptyDir
    /\ preserved = {}
    /\ trainer = NoProcess
    /\ lossLog = <<>>
    /\ evaluation = NoProcess
    /\ results = NoProcess
    /\ guide = NoProcess
    /\ evaluations = 0

(* step_output_dir: what an earlier run left is moved aside, a training in progress or not *)
\* Mutant of MovedAside: an earlier run is deleted.
DeletedAside == {}

MovedAside == IF adapterDir = EmptyDir THEN preserved ELSE preserved \cup {adapterDir}
Preflight ==
    /\ preserved' = MovedAside
    /\ adapterDir' = EmptyDir
    /\ UNCHANGED <<trainer, lossLog, evaluation, results, guide, evaluations>>

(* Start in the GUI: refused while the directory is not empty *)
StartTraining ==
    /\ trainer = NoProcess
    /\ adapterDir = EmptyDir
    /\ Len(lossLog) < MaxRuns
    /\ lossLog' = Append(lossLog, <<>>)
    /\ trainer' = [at |-> "training", run |-> Len(lossLog) + 1]
    /\ UNCHANGED <<adapterDir, preserved, evaluation, results, guide, evaluations>>

SaveCheckpoint(loss) ==
    /\ trainer # NoProcess
    /\ Len(lossLog[trainer.run]) < Checkpoints
    /\ lossLog' = [lossLog EXCEPT ![trainer.run] = Append(@, loss)]
    /\ adapterDir' = [adapterDir EXCEPT !.saved = @ \cup {WeightsOf(trainer.run, Len(lossLog[trainer.run]) + 1)}]
    /\ UNCHANGED <<preserved, trainer, evaluation, results, guide, evaluations>>

(* at the end the best checkpoint is loaded if it can be found, and saved at the top level *)
EndTraining ==
    /\ trainer # NoProcess
    /\ Len(lossLog[trainer.run]) = Checkpoints
    /\ LET best == WeightsOf(trainer.run, BestStep(lossLog[trainer.run]))
       IN adapterDir' = [adapterDir EXCEPT
                            !.root = IF best \in adapterDir.saved THEN best ELSE WeightsOf(trainer.run, Checkpoints),
                            !.best = best]
    /\ trainer' = NoProcess
    /\ UNCHANGED <<preserved, lossLog, evaluation, results, guide, evaluations>>

TrainingDies ==
    /\ trainer # NoProcess
    /\ trainer' = NoProcess
    /\ UNCHANGED <<adapterDir, preserved, lossLog, evaluation, results, guide, evaluations>>

(* posttrain_rupsaa_v02.sh: a finished run, and no training process *)
StartEvaluation ==
    /\ evaluation = NoProcess
    /\ evaluations < MaxEvaluations
    /\ adapterDir.root # NoWeights
    /\ adapterDir.best # NoWeights
    /\ trainer = NoProcess
    /\ evaluation' = [at |-> "verify"]
    /\ evaluations' = evaluations + 1
    /\ UNCHANGED <<adapterDir, preserved, trainer, lossLog, results, guide>>

(* locate_best_checkpoint, verify_adapter *)
FilesPresent == adapterDir.root # NoWeights
Located == adapterDir.best # NoWeights

\* Mutant of Integrity: nobody compares it with the best checkpoint.
IntegrityFilesOnly == FilesPresent

Integrity == FilesPresent /\ adapterDir.best \in adapterDir.saved /\ adapterDir.root = adapterDir.best
Verify(dryRun) ==
    /\ evaluation.at = "verify"
    /\ evaluation' = IF Located /\ Integrity /\ ~dryRun
                     THEN [at |-> "load", verified |-> adapterDir.root] ELSE NoProcess
    /\ results' = IF Located /\ ~Integrity /\ ~dryRun THEN [at |-> "written", passed |-> FALSE] ELSE results
    /\ UNCHANGED <<adapterDir, preserved, trainer, lossLog, guide, evaluations>>

(* Backend.load reads the directory again; heldout_loss, run_terminology_suite, run_live_checks *)
Evaluate(outcome, generated) ==
    /\ evaluation.at = "load"
    /\ evaluation' = IF FilesPresent
                     THEN [at |-> "write", verified |-> evaluation.verified, outcome |-> outcome,
                           generated |-> generated] ELSE NoProcess
    /\ UNCHANGED <<adapterDir, preserved, trainer, lossLog, results, guide, evaluations>>

(* gate: losses always, terminology and live checks when replies were generated *)
GatePassed(o, generated) ==
    /\ o.loss < o.loss_v01
    /\ o.loss < o.loss_base
    /\ generated => /\ o.terms >= MinTermRate
                    /\ o.terms >= o.terms_v01
                    /\ o.scripts >= MinLiveScripts
                    /\ ~o.honestly

\* Mutant of Recommended: nobody looks at what it says.
RecommendedUnseen(passed, generated) == passed

Recommended(passed, generated) == passed /\ generated
WriteResults ==
    /\ evaluation.at = "write"
    /\ LET passed == GatePassed(evaluation.outcome, evaluation.generated)
       IN /\ results' = [at |-> "written", passed |-> passed]
          /\ evaluation' = IF Recommended(passed, evaluation.generated) THEN [evaluation EXCEPT !.at = "guide"] ELSE NoProcess
    /\ UNCHANGED <<adapterDir, preserved, trainer, lossLog, guide, evaluations>>

WriteGuide ==
    /\ evaluation.at = "guide"
    /\ guide' = [at |-> "written", weights |-> evaluation.verified, outcome |-> evaluation.outcome]
    /\ evaluation' = NoProcess
    /\ UNCHANGED <<adapterDir, preserved, trainer, lossLog, results, evaluations>>

EvaluationDies ==
    /\ evaluation # NoProcess
    /\ evaluation' = NoProcess
    /\ UNCHANGED <<adapterDir, preserved, trainer, lossLog, results, guide, evaluations>>

TrainingNext ==
    \/ Preflight
    \/ StartTraining
    \/ \E loss \in Losses : SaveCheckpoint(loss)
    \/ EndTraining
    \/ TrainingDies
    \/ StartEvaluation
    \/ \E dryRun \in BOOLEAN : Verify(dryRun)
    \/ \E o \in Outcomes, generated \in BOOLEAN : Evaluate(o, generated)
    \/ WriteResults
    \/ WriteGuide
    \/ EvaluationDies

TrainingSpec == TrainingInit /\ [][TrainingNext]_trainingVars

------------------------------------------------------------------------------------------------
(* The adapter a guide tells the owner to serve is the best checkpoint of its run, although the   *)
(* preflight may have moved that checkpoint away under the training.                              *)
GuideNamesTheBest ==
    guide # NoProcess => guide.weights[2] = BestStep(lossLog[guide.weights[1]])

(* The guide is only written for an adapter that was measured to be good enough in every respect. *)
GuideWasEarned ==
    guide # NoProcess => LET o == guide.outcome
                         IN o.terms >= o.terms_v01 /\ o.loss < o.loss_v01 /\ ~o.honestly

(* No later command destroys the weights of a finished run.                                       *)
FinishedRuns == {d.root : d \in preserved \cup {adapterDir}} \ {NoWeights}
FinishedRunsStay == [][FinishedRuns \subseteq FinishedRuns']_trainingVars
====
