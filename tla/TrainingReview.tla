---------------------------- MODULE TrainingReview ----------------------------
(***************************************************************************)
(* How the V0.2 training set came about: the diagnosis of every stored     *)
(* record (rupsaa/dataset/language_quality.py and                          *)
(* scripts/v02_dataset_diagnosis.py), the automatic acceptance of harmless *)
(* repairs (scripts/v02_repair_automate.py), the review by hand            *)
(* (scripts/v02_repair_review.py), the candidate set                       *)
(* (scripts/v02_build_candidate.py) and its freeze                         *)
(* (scripts/v02_freeze.py, scripts/v02_verify_frozen.py).                  *)
(*                                                                         *)
(* Each command is a program of its own that reads the files the others    *)
(* left; the store may have changed in between.  A record is one reply,    *)
(* described by what the heuristics look at:                               *)
(*   script    the script that dominates it; a "nearly_latin" one turns    *)
(*             Latin when its mixed words are transliterated, and an       *)
(*             emptied one has "none"                                      *)
(*   mixed     words spelled in two scripts: "stem" (a Latin stem with a   *)
(*             short Bengali suffix), "letter" (one Latin letter), "long"  *)
(*   stranded  words of the other script: "short" ones or "long" ones      *)
(*   fillers   where it has filler words (a "middle" one may have a        *)
(*             meaning there)                                              *)
(*   bare      it has nothing but filler words                             *)
(*   risky     it claims facts, is a template or shrinks a lot             *)
(*   calque, overused, dodges, foreign, factual   the other heuristics     *)
(* with its language, source and the script of the user's turn.  The new   *)
(* drafts that are in no triage, the corpus gates and the expected totals  *)
(* are not modelled.                                                       *)
(***************************************************************************)
EXTENDS Integers, FiniteSets, Sequences

CONSTANTS Records,      \* the ids of the stored records
          Replies,      \* the replies the store may hold
          Written,      \* the reply a reviewer writes
          NoReply,      \* no reply, entry, decision or file
          MaxReviews   \* bound: commands run, changes of the store included

VARIABLES stored,       \* record -> [reply, status]
          triage,       \* record -> triage.jsonl's [class, reply, proposal], or NoReply
          automation,   \* record -> repair_automation.jsonl's confidence, or NoReply
          decisions,    \* record -> the latest action in review_decisions.jsonl, or NoReply
          rewritten,    \* the records with an entry in keep_rewrites.jsonl
          candidate,    \* candidate_set.jsonl: record -> [reply, fresh], or NoReply
          freezing,     \* the running freeze: [step, rows]
          export,       \* exports/rupsaa_v0.2: NoReply, its rows, none of them as long as it is not whole
          records,      \* snapshots/rupsaa_v0.2_training: the same
          manifest,     \* the rows V02_TRAINING_MANIFEST.json describes, or NoReply
          ran           \* how many commands ran
reviewVars == <<stored, triage, automation, decisions, rewritten, candidate, freezing, export, records, manifest, ran>>

SEVERE == {"FOREIGN_SCRIPT", "INTRAWORD_SCRIPT_MIX", "LANGUAGE_MISMATCH", "SCRIPT_INCONSISTENT", "QUESTION_UNANSWERED"}
Corrupt == {"FOREIGN_SCRIPT", "INTRAWORD_SCRIPT_MIX"}
Actions == {"accept", "keep-original", "reject", "edit"}
ASSUME ReviewAssumption == NoReply \notin Actions /\ MaxReviews \in Nat
Partial == [r \in {} |-> r]
FreezeSteps == <<"export", "exported", "records", "manifest", "register">>

-----------------------------------------------------------------------------
(* The heuristics and the mechanical repair *)

Raised(reply) ==
  [FOREIGN_SCRIPT            |-> reply.foreign,
   INTRAWORD_SCRIPT_MIX      |-> reply.mixed # "none",
   LANGUAGE_MISMATCH         |-> \/ (reply.user = "bengali" /\ reply.script = "latin")
                                 \/ (reply.user = "latin" /\ reply.script = "bengali" /\ reply.language # "bn"),
   SCRIPT_INCONSISTENT       |-> /\ reply.stranded # "none"
                                 /\ reply.script = "bengali" \/ (reply.script = "latin" /\ reply.language = "banglish"),
   ENGLISH_FILLER_IN_BENGALI |-> reply.script = "bengali" /\ reply.fillers # {},
   ENGLISH_DISCOURSE_OPENER  |-> reply.language # "en" /\ "opening" \in reply.fillers,
   FILLER_STACK              |-> Cardinality(reply.fillers) >= 2,
   TRAILING_FILLER           |-> "closing" \in reply.fillers,
   ENGLISH_CALQUE            |-> reply.language \in {"banglish", "mixed"} /\ reply.calque,
   CATCHPHRASE               |-> reply.overused,
   QUESTION_UNANSWERED       |-> reply.dodges]

\* analyze_record
Codes(reply) == {code \in DOMAIN Raised(reply) : Raised(reply)[code]}

\* repair_script_mix: only unambiguous words are transliterated.
RepairScriptMix(reply) ==
  LET spelled == reply.mixed = "stem" \/ (reply.mixed = "letter" /\ reply.script # "latin")
      moved == reply.stranded = "short" /\ reply.language = "banglish" /\ reply.script = "latin"
  IN [reply EXCEPT !.mixed = IF spelled THEN "none" ELSE @,
                   !.stranded = IF moved THEN "none" ELSE @,
                   !.script = IF reply.mixed = "stem" /\ @ = "nearly_latin" THEN "latin" ELSE @]

\* propose_filler_repair: a single filler inside an English sentence is meaning, not a tic.
RemoveFillers(reply) ==
  LET left == IF reply.language = "en" /\ Cardinality(reply.fillers) < 2 THEN reply.fillers \cap {"middle"} ELSE {}
  IN [reply EXCEPT !.fillers = left, !.script = IF reply.bare /\ left = {} THEN "none" ELSE @]

\* propose_repair
Proposal(reply) == RemoveFillers(RepairScriptMix(reply))

\* For a mutant: what is left is taken to be what the repair is not about.
ResidueAssumed(reply) == Codes(reply) \ {"INTRAWORD_SCRIPT_MIX", "SCRIPT_INCONSISTENT", "FILLER_STACK", "TRAILING_FILLER",
                                         "ENGLISH_FILLER_IN_BENGALI", "ENGLISH_DISCOURSE_OPENER"}
\* What the triage judges by: the codes the proposal still raises.
Residue(reply) == Codes(Proposal(reply))

\* triage_record
Classified(reply, status) ==
  LET severe == Residue(reply) \cap SEVERE
      changed == Proposal(reply) # reply
  IN IF status = "rejected" THEN "REJECT"
     ELSE IF reply.source = "human_authored"
       THEN IF Codes(reply) \ {"CATCHPHRASE"} # {} \/ reply.factual \/ changed THEN "HUMAN_REVIEW" ELSE "KEEP"
     ELSE IF Cardinality(severe) >= 2 THEN "REJECT"
     ELSE IF severe # {} \/ reply.factual THEN "HUMAN_REVIEW"
     ELSE IF ~changed THEN "KEEP"
     ELSE IF Residue(reply) \ {"CATCHPHRASE"} # {} \/ Proposal(reply).script = "none" THEN "HUMAN_REVIEW"
     ELSE "REPAIR"

-----------------------------------------------------------------------------
(* The commands.  An entry keeps its proposal when the text changed and    *)
(* the class is one a proposal is kept for.                                *)

ReviewInit ==
  /\ stored \in [Records -> [reply : Replies, status : {"draft"}]]
  /\ triage = [r \in Records |-> NoReply] /\ automation = triage /\ decisions = triage /\ candidate = triage
  /\ rewritten = {}
  /\ freezing = [step |-> 0, rows |-> NoReply]
  /\ export = NoReply /\ records = NoReply /\ manifest = NoReply /\ ran = 0

Run == ran < MaxReviews /\ ran' = ran + 1

\* The curation of the store goes on beside all this (module DatasetCuration).
Curate(r) ==
  /\ Run
  /\ \E reply \in Replies, status \in {"draft", "rejected"} : stored' = [stored EXCEPT ![r] = [reply |-> reply, status |-> status]]
  /\ stored'[r] # stored[r]
  /\ UNCHANGED <<triage, automation, decisions, rewritten, candidate, freezing, export, records, manifest>>

\* v02_dataset_diagnosis.py: every record of the store, the file written anew.
Diagnose ==
  /\ Run
  /\ triage' = [r \in Records |->
       LET reply == stored[r].reply
           class == Classified(reply, stored[r].status)
       IN [class |-> class, reply |-> reply,
           proposal |-> IF class \in {"REPAIR", "HUMAN_REVIEW"} /\ Proposal(reply) # reply THEN Proposal(reply) ELSE NoReply]]
  /\ UNCHANGED <<stored, automation, decisions, rewritten, candidate, freezing, export, records, manifest>>

\* v02_repair_automate.py classify: the stored reply may not be the diagnosed one any more.
Confidence(r) == IF RepairScriptMix(stored[r].reply) = stored[r].reply /\ ~triage[r].proposal.risky
                 THEN "AUTO_ACCEPT_REPAIR" ELSE "HUMAN_REVIEW"
Automate ==
  /\ Run
  /\ \A r \in Records : triage[r] # NoReply
  /\ automation' = [r \in Records |-> IF triage[r].class = "REPAIR" THEN Confidence(r) ELSE NoReply]
  /\ UNCHANGED <<stored, triage, decisions, rewritten, candidate, freezing, export, records, manifest>>

\* v02_repair_review.py decide: any record of the triage; the latest decision is the one that is read.
Decide(r) ==
  /\ Run
  /\ triage[r] # NoReply
  /\ \E action \in Actions : /\ action = "accept" => triage[r].proposal # NoReply
                             /\ decisions' = [decisions EXCEPT ![r] = action]
  /\ UNCHANGED <<stored, triage, automation, rewritten, candidate, freezing, export, records, manifest>>

\* keep_rewrites.jsonl is written by hand.
RewriteKept(r) ==
  /\ Run
  /\ triage[r] # NoReply /\ triage[r].class = "KEEP"
  /\ rewritten' = rewritten \cup {r}
  /\ UNCHANGED <<stored, triage, automation, decisions, candidate, freezing, export, records, manifest>>

\* apply_decision
Decided(r) ==
  CASE decisions[r] \in {NoReply, "reject"} -> NoReply
    [] decisions[r] = "keep-original"       -> stored[r].reply
    [] decisions[r] = "accept"              -> triage[r].proposal
    [] decisions[r] = "edit"                -> Written

\* What v02_build_candidate.py takes of a record.
Included(r) ==
  CASE triage[r].class = "KEEP"   -> IF r \in rewritten THEN Written ELSE stored[r].reply
    [] triage[r].class = "REJECT" -> NoReply
    [] triage[r].class = "REPAIR" /\ automation[r] = "AUTO_ACCEPT_REPAIR" -> triage[r].proposal
    [] OTHER                      -> Decided(r)

\* "fresh" is not in the file: the record was still the one that had been diagnosed.
Build ==
  /\ Run
  /\ \A r \in Records : triage[r] # NoReply
  /\ candidate' = [r \in Records |-> IF Included(r) = NoReply THEN NoReply
                                     ELSE [reply |-> Included(r), fresh |-> stored[r].reply = triage[r].reply,
                                           seen |-> decisions[r] # NoReply \/ r \in rewritten]]
  /\ UNCHANGED <<stored, triage, automation, decisions, rewritten, freezing, export, records, manifest>>

-----------------------------------------------------------------------------
(* The freeze *)

\* decision_label: by the files as they are now.
Undecided(r) == /\ triage[r].class \in {"REPAIR", "HUMAN_REVIEW"}
                /\ ~(triage[r].class = "REPAIR" /\ automation[r] = "AUTO_ACCEPT_REPAIR")
                /\ decisions[r] = NoReply

Rows == {r \in Records : candidate[r] # NoReply}

\* validate: every problem refuses the freeze.
Valid == /\ Rows # {}
         /\ \A r \in Rows : ~Undecided(r) /\ candidate[r].reply.script # "none"
         /\ \A r \in Rows : Codes(candidate[r].reply) \cap Corrupt = {}

\* For a mutant: only the export is asked after.
MayFreezeAgain == export = NoReply \/ records # NoReply
MayFreeze == export = NoReply /\ records = NoReply

Freeze ==
  /\ Run
  /\ freezing.step = 0 /\ Valid /\ MayFreeze
  /\ freezing' = [step |-> 1, rows |-> [r \in Rows |-> candidate[r]]]
  /\ UNCHANGED <<stored, triage, automation, decisions, rewritten, candidate, export, records, manifest>>

\* For a mutant: the manifest first.
ManifestFirst(step) ==
  /\ manifest' = IF step = "export" THEN freezing.rows ELSE manifest
  /\ export' = CASE step = "exported" -> Partial [] step = "records" -> freezing.rows [] OTHER -> export
  /\ records' = IF step = "manifest" THEN freezing.rows ELSE records
\* The files in the order freeze() writes them; the manifest is last but for the registration.
FilesWritten(step) ==
  /\ export' = CASE step = "export" -> Partial [] step = "exported" -> freezing.rows [] OTHER -> export
  /\ records' = IF step = "records" THEN freezing.rows ELSE records
  /\ manifest' = IF step = "manifest" THEN freezing.rows ELSE manifest

FreezeStep ==
  /\ freezing.step > 0
  /\ FilesWritten(FreezeSteps[freezing.step])
  /\ freezing' = IF freezing.step = Len(FreezeSteps) THEN [step |-> 0, rows |-> NoReply] ELSE [freezing EXCEPT !.step = @ + 1]
  /\ UNCHANGED <<stored, triage, automation, decisions, rewritten, candidate, ran>>

\* The freeze dies; what it has written stays.
FreezeDies ==
  /\ freezing.step > 0
  /\ freezing' = [step |-> 0, rows |-> NoReply]
  /\ UNCHANGED <<stored, triage, automation, decisions, rewritten, candidate, export, records, manifest, ran>>

ReviewNext ==
  \/ Diagnose \/ Automate \/ Build \/ Freeze \/ FreezeStep \/ FreezeDies
  \/ \E r \in Records : Curate(r) \/ Decide(r) \/ RewriteKept(r)

ReviewSpec == ReviewInit /\ [][ReviewNext]_reviewVars

-----------------------------------------------------------------------------
(* Properties *)

\* "The latest decision per record wins" (v02_repair_review.py:23): a record rejected by hand is not in a candidate set
\* built afterwards. The build takes an automatically accepted repair without looking at the decisions.
RejectedStaysOut ==
  [][candidate' # candidate => \A r \in Records : decisions[r] = "reject" => candidate'[r] = NoReply]_reviewVars

\* Nothing reaches the frozen set behind the reviewers' backs: a frozen reply that nobody decided on raises no severe
\* code, unless the record was changed after its diagnosis; words of two scripts never get in at all.
FrozenIsClean ==
  manifest # NoReply =>
    \A r \in DOMAIN manifest :
      /\ Codes(manifest[r].reply) \cap Corrupt = {}
      /\ manifest[r].fresh /\ ~manifest[r].seen => Codes(manifest[r].reply) \cap SEVERE = {}

\* A manifest describes what is on the disk, wherever a freeze died: v02_verify_frozen.py and the trainer rely on it.
ManifestTellsTruth == manifest # NoReply => export = manifest /\ records = manifest

\* A frozen set is never written again, whatever is diagnosed, decided, built or frozen after it (v02_freeze.py:374).
FrozenNeverChanges == [][manifest # NoReply => UNCHANGED <<export, records, manifest>>]_reviewVars
=============================================================================
