-------------------------- MODULE PreflightChecks ---------------------------
(***************************************************************************)
(* scripts/v02_preflight.py, before V0.2 is trained: it runs               *)
(* v02_verify_frozen.py, v02_pretrain_smoke.py and the dry run of the GUI  *)
(* launcher, reads what they leave behind, moves an earlier run aside and  *)
(* writes a report. The scripts may die half way, and then their files are *)
(* those of an earlier run; the owner may edit anything meanwhile.         *)
(***************************************************************************)
EXTENDS Sequences, Naturals

CONSTANTS
    NoReport,     \* a file that was never written
    MaxChanges, MaxPreflights    \* bounds

VARIABLES
    sound,        \* aspects of the repository that are as they should be
    config,       \* the CLI config and the GUI template: right, off, or pointing at V0.1
    rendered,     \* config/rupsaa_v0.2.yaml, rendered from the template
    filled,       \* adapters/rupsaa-v0.2 holds something
    summary,      \* all_passed of smoke_check.json
    runner,       \* the running preflight
    reported,       \* PREFLIGHT.json
    editedSince,  \* somebody changed something since the run of the report began
    changes, preflights

preflightVars == <<sound, config, rendered, filled, summary, runner, reported, editedSince, changes, preflights>>

Aspects == {"frozen", "exports", "tokens", "prompts", "repository", "v01", "tests"}
Contents == {"right", "off", "v01"}
PreflightSteps == <<"frozen", "smoke", "serve", "cli", "gui", "pointer", "audit", "output", "tests", "report">>
NoRunner == [at |-> 0]
AtStep(step) == runner.at # 0 /\ PreflightSteps[runner.at] = step

PreflightInit ==
    /\ sound = Aspects
    /\ config = [f \in {"cli", "template"} |-> "right"]
    /\ rendered = NoReport
    /\ filled \in BOOLEAN
    /\ summary = NoReport
    /\ runner = NoRunner
    /\ reported = NoReport
    /\ editedSince = FALSE
    /\ changes = 0 /\ preflights = 0

(* The owner, at any time.                                                 *)
Edited ==
    /\ changes < MaxChanges
    /\ changes' = changes + 1
    /\ editedSince' = TRUE
    /\ runner' = IF runner = NoRunner THEN runner ELSE [runner EXCEPT !.edited = TRUE]
    /\ UNCHANGED <<rendered, summary, reported, preflights>>
Spoil(a) == Edited /\ sound' = sound \ {a} /\ UNCHANGED <<config, filled>>
Repair(a) == Edited /\ sound' = sound \cup {a} /\ UNCHANGED <<config, filled>>
EditConfig(f, c) == Edited /\ config' = [config EXCEPT ![f] = c] /\ UNCHANGED <<sound, filled>>
TrainInto == Edited /\ filled' = TRUE /\ UNCHANGED <<sound, config>>

StartPreflight(withTests) ==
    /\ runner = NoRunner
    /\ preflights < MaxPreflights
    /\ preflights' = preflights + 1
    /\ runner' = [at |-> 1, withTests |-> withTests, failed |-> {}, edited |-> FALSE]
    /\ UNCHANGED <<sound, config, rendered, filled, summary, reported, editedSince, changes>>
-----------------------------------------------------------------------------
(* A step records its result, and an exception as a failure; the next one  *)
(* follows either way.                                                     *)
Record(step, ok) ==
    /\ AtStep(step)
    /\ runner' = [runner EXCEPT !.failed = IF ok THEN @ ELSE @ \cup {step}, !.at = @ + 1]
    /\ UNCHANGED <<sound, config, reported, editedSince, changes, preflights>>

\* v02_verify_frozen.py: hashes, counts, exports, leakage, diversity, and V0.1 as it was released.
FrozenVerified == {"frozen", "exports"} \subseteq sound
StepFrozen(dies) == Record("frozen", ~dies /\ FrozenVerified) /\ UNCHANGED <<rendered, filled, summary>>

\* v02_pretrain_smoke.py: it writes its summary last.
SmokePasses == {"exports", "tokens", "prompts"} \subseteq sound /\ config["cli"] = "right" /\ ~filled
\* Mutant of SmokeAccepted: the summary is believed whoever wrote it.
SummaryBelieved(dies, written) == written = TRUE
SmokeAccepted(dies, written) == ~dies /\ written = TRUE
StepSmoke(dies) ==
    /\ summary' = IF dies THEN summary ELSE SmokePasses
    /\ Record("smoke", SmokeAccepted(dies, summary'))
    /\ UNCHANGED <<rendered, filled>>

StepTrainAsServe(raises) ==
    Record("serve", ~raises /\ {"frozen", "prompts"} \subseteq sound) /\ UNCHANGED <<rendered, filled, summary>>

StepCliConfig == Record("cli", config["cli"] = "right") /\ UNCHANGED <<rendered, filled, summary>>

\* The launcher renders before it verifies; the rendered file is then compared field by field.
StepGuiConfig(diesEarly) ==
    /\ rendered' = IF diesEarly THEN rendered ELSE config["template"]
    /\ Record("gui", ~diesEarly /\ "exports" \in sound /\ rendered' = "right")
    /\ UNCHANGED <<filled, summary>>

\* A file that is not there points nowhere.
StepNoV01Pointer ==
    Record("pointer", "v01" \notin {config["cli"], config["template"], rendered}) /\ UNCHANGED <<rendered, filled, summary>>

StepRepoAudit(dies) == Record("audit", ~dies /\ "repository" \in sound) /\ UNCHANGED <<rendered, filled, summary>>

\* An earlier run is moved to adapters/_preserved before the directory is judged.
StepOutputDir ==
    /\ filled' = FALSE
    /\ Record("output", "v01" \in sound)
    /\ UNCHANGED <<rendered, summary>>

\* Only with --with-tests, and outside the try.
StepTests == Record("tests", runner.withTests => "tests" \in sound) /\ UNCHANGED <<rendered, filled, summary>>
Ends ==
    /\ runner' = NoRunner
    /\ UNCHANGED <<sound, config, rendered, filled, summary, changes, preflights>>
TestsTimeOut == AtStep("tests") /\ runner.withTests /\ Ends /\ UNCHANGED <<reported, editedSince>>

WriteReport ==
    /\ AtStep("report")
    /\ Ends
    /\ reported' = [passed |-> runner.failed = {}, tests |-> runner.withTests]
    /\ editedSince' = runner.edited

PreflightDies == runner # NoRunner /\ Ends /\ UNCHANGED <<reported, editedSince>>

PreflightNext ==
    \/ \E a \in Aspects : Spoil(a) \/ Repair(a)
    \/ \E f \in {"cli", "template"}, c \in Contents : EditConfig(f, c)
    \/ TrainInto
    \/ \E withTests \in BOOLEAN : StartPreflight(withTests)
    \/ \E dies \in BOOLEAN : StepFrozen(dies) \/ StepSmoke(dies) \/ StepTrainAsServe(dies) \/ StepGuiConfig(dies)
                             \/ StepRepoAudit(dies)
    \/ StepCliConfig
    \/ StepNoV01Pointer
    \/ StepOutputDir
    \/ StepTests
    \/ TestsTimeOut
    \/ WriteReport
    \/ PreflightDies
-----------------------------------------------------------------------------
(* A preflight that passed means that training may begin: unless somebody  *)
(* changed something since that run began, everything is as it should be   *)
(* now, the files it judged by are of no earlier state, and the output     *)
(* directory is empty, although scripts died and files of earlier runs lay *)
(* about (main, step_smoke, step_gui_config, step_output_dir).             *)
PreflightIsHonest ==
    reported # NoReport /\ reported.passed /\ ~editedSince =>
        /\ Aspects \ {"tests"} \subseteq sound
        /\ reported.tests => "tests" \in sound
        /\ {config["cli"], config["template"], rendered} = {"right"}
        /\ summary = TRUE
        /\ ~filled
=============================================================================
