----------------------------- MODULE EvalSuites -----------------------------
(***************************************************************************)
(* The suites V0.2 is evaluated with: which held-out records V0.1 never    *)
(* trained on (scripts/v02_freeze.py records them from the live store, and *)
(* scripts/v02_build_eval_suites.py works them out again from V0.1's       *)
(* snapshot and export), and the terminology cases, whose terms must not   *)
(* occur in the frozen data. V0.1 exported its conversations without ids,  *)
(* so both can only compare texts.                                         *)
(***************************************************************************)
EXTENDS FiniteSets, Naturals

CONSTANTS
    EvalRecords,    \* conversations, by id
    Wordings,       \* what a conversation may say
    Words,          \* words a term may be called by, or the frozen data mention
    Missing,        \* a file that was never written
    MaxStoreEdits   \* bound

ASSUME SuitesAssumption == IsFiniteSet(EvalRecords)

VARIABLES
    exported,      \* the V0.1 export file each record went into, or "none"
    approvedText,  \* the record in the snapshot of V0.1
    storeText,     \* the record in the live store, or "gone"
    frozenIn,      \* the V0.2 split of each record, or "none"
    mentioned,     \* words in the frozen V0.2 data
    seenMark,      \* ids_also_in_v01_train of the V0.2 manifest; Missing before the freeze
    names,         \* names and aliases of the terms the cases ask about
    builder,       \* the running builder
    suite,         \* names in terminology_generalization.jsonl
    manifests,     \* B_clean_v01_vs_v02 of eval_manifests.json
    storeEdits

suitesVars == <<exported, approvedText, storeText, frozenIn, mentioned, seenMark, names, builder, suite, manifests, storeEdits>>

EvalSplits == {"validation", "test"}
Places == EvalSplits \cup {"train", "none"}
NoBuilder == [at |-> "none"]

SuitesInit ==
    /\ exported \in [EvalRecords -> Places]
    /\ approvedText \in [EvalRecords -> Wordings]
    /\ storeText = approvedText
    /\ frozenIn = [r \in EvalRecords |-> "none"]
    /\ mentioned = {}
    /\ seenMark = Missing
    /\ names = {}
    /\ builder = NoBuilder
    /\ suite = Missing
    /\ manifests = Missing
    /\ storeEdits = 0

\* The owner corrects or deletes a record that V0.1 was trained with; the snapshot keeps it.
EditStored(r, w) ==
    /\ storeEdits < MaxStoreEdits
    /\ storeEdits' = storeEdits + 1
    /\ storeText' = [storeText EXCEPT ![r] = w]
    /\ UNCHANGED <<exported, approvedText, frozenIn, mentioned, seenMark, names, builder, suite, manifests>>

\* A term gets a name, or a case about it is written.
NameTerm(w) ==
    /\ names' = names \cup {w}
    /\ UNCHANGED <<exported, approvedText, storeText, frozenIn, mentioned, seenMark, builder, suite, manifests, storeEdits>>

V01 == {r \in EvalRecords : exported[r] # "none"}
EvalTexts == {approvedText[r] : r \in {x \in V01 : exported[x] \in EvalSplits}}
\* What the freeze takes for V0.1's training records: it looks at the store as it is now.
SeenByFreeze == {r \in V01 : storeText[r] # "gone" /\ storeText[r] \notin EvalTexts}
\* v01_train_ids: the snapshot tells what V0.1 was given.
Reconstructed == {r \in V01 : approvedText[r] \notin EvalTexts}

FreezeSplits(into, words) ==
    /\ seenMark = Missing
    /\ frozenIn' = into
    /\ mentioned' = words
    /\ seenMark' = [s \in EvalSplits |-> {r \in SeenByFreeze : into[r] = s}]
    /\ UNCHANGED <<exported, approvedText, storeText, names, builder, suite, manifests, storeEdits>>

\* Mutant of Consistent: the number of reconstructed records is not compared with V0.1's train.jsonl.
ConsistentMarks == \A s \in EvalSplits : seenMark[s] = {r \in Reconstructed : frozenIn[r] = s}
\* build_manifests stops when a number or a recorded id disagrees.
Consistent ==
    /\ Cardinality(Reconstructed) = Cardinality({r \in V01 : exported[r] = "train"})
    /\ \A s \in EvalSplits : seenMark[s] = {r \in Reconstructed : frozenIn[r] = s}

\* Everything is worked out before anything is written.
BuildSuites ==
    /\ builder = NoBuilder
    /\ seenMark # Missing
    /\ names \cap mentioned = {}
    /\ Consistent
    /\ builder' = [at |-> "suite", names |-> names,
                   clean |-> [s \in EvalSplits |-> {r \in EvalRecords : frozenIn[r] = s} \ Reconstructed]]
    /\ UNCHANGED <<exported, approvedText, storeText, frozenIn, mentioned, seenMark, names, suite, manifests, storeEdits>>

WriteSuite ==
    /\ builder.at = "suite"
    /\ suite' = builder.names
    /\ builder' = [builder EXCEPT !.at = "manifests"]
    /\ UNCHANGED <<exported, approvedText, storeText, frozenIn, mentioned, seenMark, names, manifests, storeEdits>>

WriteManifests ==
    /\ builder.at = "manifests"
    /\ manifests' = builder.clean
    /\ builder' = NoBuilder
    /\ UNCHANGED <<exported, approvedText, storeText, frozenIn, mentioned, seenMark, names, suite, storeEdits>>

BuilderDies ==
    /\ builder # NoBuilder
    /\ builder' = NoBuilder
    /\ UNCHANGED <<exported, approvedText, storeText, frozenIn, mentioned, seenMark, names, suite, manifests, storeEdits>>

SuitesNext ==
    \/ \E r \in EvalRecords, w \in Wordings \cup {"gone"} : EditStored(r, w)
    \/ \E w \in Words : NameTerm(w)
    \/ \E into \in [EvalRecords -> Places], words \in SUBSET Words : FreezeSplits(into, words)
    \/ BuildSuites
    \/ WriteSuite
    \/ WriteManifests
    \/ BuilderDies
-----------------------------------------------------------------------------
(* The comparison of V0.2 with V0.1 is fair: its records are exactly the   *)
(* held-out ones that V0.1 was not trained with, whatever happened to them *)
(* in the store since, and no term it asks about is in the frozen data     *)
(* (build_manifests, build_terminology_suite).                             *)
ComparisonIsFair ==
    /\ manifests # Missing =>
           \A s \in EvalSplits : manifests[s] = {r \in EvalRecords : frozenIn[r] = s /\ exported[r] # "train"}
    /\ suite # Missing => suite \cap mentioned = {}
=============================================================================
