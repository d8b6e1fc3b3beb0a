---------------------------- MODULE PostTraining ----------------------------
(***************************************************************************)
(* How scripts/posttrain_v02.py measures V0.2, V0.1 and the base model on  *)
(* one loaded model with two adapters: the losses of the held-out records, *)
(* then the terminology cases and the live checks, each variant in turn.   *)
(* The active adapter is state of the model, and what one turn leaves for  *)
(* the next (history, previous reply, previous terms) is state of the run. *)
(* What the model answers is open.                                         *)
(***************************************************************************)
EXTENDS Naturals, Sequences, SequencesExt

CONSTANTS
    Jobs,          \* what is measured, in order: [kind, expect]; a record's loss expects one answer
    ModelReplies   \* what a model may answer: [script, length, says]

VARIABLES
    measuring,        \* the current job; Len(Jobs) + 1 when all are done
    runs,       \* variants still to run in this job, the current one first
    active,     \* the adapter the model has set
    history,    \* replies of this run so far
    entry,      \* the measurements of this job, per variant
    score       \* jobs each variant passed, per kind

postVars == <<measuring, runs, active, history, entry, score>>

Variants == {"rupsaa_v02", "rupsaa_v01", "base"}
\* heldout_loss takes another order than VARIANTS.
Order(kind) == IF kind = "loss" THEN <<"rupsaa_v02", "base", "rupsaa_v01">> ELSE <<"rupsaa_v02", "rupsaa_v01", "base">>
NoEntry == [v \in Variants |-> <<>>]
Running == measuring <= Len(Jobs)
Current == Head(runs)

PostInit ==
    /\ measuring = 1
    /\ runs = Order(Jobs[1].kind)
    /\ active = "default"
    /\ history = <<>>
    /\ entry = NoEntry
    /\ score = [v \in Variants |-> [term |-> 0, live |-> 0]]

\* Mutant of Activated: an adapter that was set once stays.
ActivatedOnce(v) == active
\* Backend._with: the base model is measured with the adapters disabled, and they come back as they were.
Activated(v) == IF v = "base" THEN active ELSE IF v = "rupsaa_v02" THEN "default" ELSE "rupsaa_v01"
WeightsUsed(v) == IF v = "base" THEN "none" ELSE Activated(v)
\* Every variant is asked as it is served, and the base model as V0.2.
PromptVersion(v) == IF v = "rupsaa_v01" THEN "v0.1" ELSE "v0.2"

\* check_turn; a turn is only compared with one before it.
TurnPasses(reply, expect, earlier) ==
    /\ expect.script \in {"any", reply.script}
    /\ reply.length \in expect.lengths
    /\ expect.shorter /\ earlier # <<>> => reply.length < Last(earlier).length
    /\ expect.needs \subseteq reply.says
    /\ "forbidden" \notin reply.says
    /\ reply.length > 0
\* run_live_checks looks at the last reply only, at its script and its length.
LivePasses(reply, expect) == expect.script \in {"any", reply.script} /\ reply.length \in expect.lengths

LossRow(v) == [weights |-> WeightsUsed(v), prompt |-> PromptVersion(v), given |-> history]
TurnRow(v, reply, passes) ==
    [weights |-> WeightsUsed(v), prompt |-> PromptVersion(v), given |-> history, reply |-> reply, pass |-> passes]

\* A row of heldout_loss: no reply, nothing is judged.
MeasureLoss ==
    /\ Running /\ runs # <<>>
    /\ Jobs[measuring].kind = "loss"
    /\ entry' = [entry EXCEPT ![Current] = <<LossRow(Current)>>]
    /\ active' = Activated(Current)
    /\ runs' = Tail(runs)
    /\ UNCHANGED <<measuring, history, score>>

\* Mutant of HistoryAfter: the conversation goes on with the next variant.
HistoryGoesOn(reply, last) == Append(history, reply)
HistoryAfter(reply, last) == IF last THEN <<>> ELSE Append(history, reply)
Answer(reply) ==
    /\ Running /\ runs # <<>>
    /\ Jobs[measuring].kind # "loss"
    /\ LET turn == Len(entry[Current]) + 1
           expect == Jobs[measuring].expect
           last == turn = Len(expect)
           passes == IF Jobs[measuring].kind = "term" THEN TurnPasses(reply, expect[turn], history)
                     ELSE last => LivePasses(reply, expect[turn])
       IN  /\ entry' = [entry EXCEPT ![Current] = Append(@, TurnRow(Current, reply, passes))]
           /\ history' = HistoryAfter(reply, last)
           /\ runs' = IF last THEN Tail(runs) ELSE runs
    /\ active' = Activated(Current)
    /\ UNCHANGED <<measuring, score>>

Passed(turns) == \A i \in DOMAIN turns : turns[i].pass
FinishJob ==
    /\ Running /\ runs = <<>>
    /\ score' = IF Jobs[measuring].kind = "loss" THEN score
                ELSE [v \in Variants |-> IF Passed(entry[v]) THEN [score[v] EXCEPT ![Jobs[measuring].kind] = @ + 1] ELSE score[v]]
    /\ measuring' = measuring + 1
    /\ runs' = IF measuring < Len(Jobs) THEN Order(Jobs[measuring + 1].kind) ELSE <<>>
    /\ entry' = NoEntry
    /\ UNCHANGED <<active, history>>

PostNext == MeasureLoss \/ (\E r \in ModelReplies : Answer(r)) \/ FinishJob
-----------------------------------------------------------------------------
(* The three variants are measured alike: every number and every reply is  *)
(* of the variant it is filed under, asked with the prompt that variant is *)
(* served with, and given this variant's own earlier turns of this case    *)
(* and nothing else, so that a verdict compares a reply with what the same *)
(* variant said before (Backend._with, PROMPT_VERSION, heldout_loss,       *)
(* run_terminology_suite, run_live_checks).                                *)
MeasuredAlike ==
    \A v \in Variants : \A i \in DOMAIN entry[v] :
        LET m == entry[v][i]
        IN  /\ m.weights = [rupsaa_v02 |-> "default", rupsaa_v01 |-> "rupsaa_v01", base |-> "none"][v]
            /\ m.prompt = [rupsaa_v02 |-> "v0.2", rupsaa_v01 |-> "v0.1", base |-> "v0.2"][v]
            /\ m.given = [k \in 1..(i - 1) |-> entry[v][k].reply]
            /\ Jobs[measuring].kind = "term" /\ Jobs[measuring].expect[i].shorter /\ i > 1 /\ m.pass
               => m.reply.length < entry[v][i - 1].reply.length
=============================================================================
