---- MODULE TrainingSets ----
(* How the corrective training sets are built and frozen, one on the other:                      *)
(*   first   rupsaa_v0.2.1      scripts/v021_prepare_training_set.py                             *)
(*   second  rupsaa_v0.2.1_r2   scripts/v021r2_prepare_training_set.py                           *)
(*   third   rupsaa_v0.2.2      scripts/v022_build_final.py                                      *)
(*   fourth  rupsaa_v0.3_final  scripts/v03_build_final.py                                       *)
(* A conversation is a record: id, kind (the source file it stands in), category, asks / says    *)
(* (classes of near-identical user turns / replies), about (a term, a dance or a concept),       *)
(* grounded (the states of the owner's knowledge under which the runtime attaches what the       *)
(* conversation expects), flaws, and question (its reply ends with a question mark).             *)
(* The knowledge is its version, "serving"; what a build writes is the conversation with the     *)
(* prompt the runtime makes for it at that version.                                              *)
EXTENDS Naturals, Sequences, FiniteSets, Ordering

CONSTANTS
    Conversations,     \* every conversation the owner may write, the frozen V0.2 ones included
    FirstSources,      \* what may stand in the source files at the start
    Slice,             \* datasets.train_test_split: the rows it takes out of n rows (seed 42)
    Copies,            \* UPSAMPLE
    HoldoutPercent,    \* HOLDOUT_FRACTION
    QuestionLimit,     \* LIMITS["question_rate_all"], in percent
    ShortTurns,        \* classes of turns and replies below MIN_LEN characters, each of one text only
    Benchmarks,        \* user turns of the live checks, the terminology cases and the owner's tests
    Rewrites,          \* ids whose replies corpus_repairs.py rewrites by hand
    Servings,          \* versions of the knowledge the runtime may be serving
    MaxEdits           \* bound on changes of the sources and of the knowledge

VARIABLES
    sources,      \* conversations standing in the source files
    serving,      \* version of the knowledge
    built,        \* corrective and dance records, and draft records, as last built
    approvals,    \* what FREEZE_AUTHORIZATION(_R2).json name, and V1_SHA in v03_build_final.py
    sets,         \* what stands on disk of each training set
    freeze,       \* the freeze in progress
    edits

trainingSetVars == <<sources, serving, built, approvals, sets, freeze, edits>>

\* Every source file numbers its conversations with a prefix of its own ("c021-", "d021-", "d021h-", "d022-", "f03-").
ASSUME SourcesAssumption == /\ \A written \in FirstSources : written \subseteq Conversations
                            /\ \A c, d \in Conversations : c.id = d.id => c.kind = d.kind

NoFreeze == [at |-> "none"]
Corrective == {"corrective"}
DanceKinds == {"dance", "dance_held"}
CorpusKinds == Corrective \cup DanceKinds
OfKinds(recs, kinds) == {r \in recs : r.kind \in kinds}
Ids(recs) == {r.id : r \in recs}

(* v021_build_corrective.py: every conversation goes through the runtime's own router and prompt *)
Replay(c) == [id |-> c.id, kind |-> c.kind, category |-> c.category, asks |-> c.asks,
              says |-> c.says, about |-> c.about, flaws |-> c.flaws, question |-> c.question,
              prompt |-> serving, gap |-> serving \notin c.grounded]
Rebuilt(kinds) == {Replay(c) : c \in OfKinds(sources, kinds)}
DuplicateIds(kinds) == \E c, d \in OfKinds(sources, kinds) : c # d /\ c.id = d.id
BuildErrors(kinds) == DuplicateIds(kinds) \/ \E r \in Rebuilt(kinds) : r.gap

Percentage(n, percent) == (n * percent + 99) \div 100
(* holdout_ids: of each category the ceil(10%) ids that come first by their hash, at least one *)
HeldOutIds(recs) ==
    UNION {LET ids == {r.id : r \in {q \in recs : q.category = c}}
               k == IF Percentage(Cardinality(ids), HoldoutPercent) = 0 THEN 1
                    ELSE Percentage(Cardinality(ids), HoldoutPercent)
           IN {i \in ids : Cardinality({j \in ids : j < i}) < k} : c \in {r.category : r \in recs}}
HeldOut(recs) == {r \in recs : r.kind = "dance_held"
                                  \/ r.id \in HeldOutIds(OfKinds(recs, Corrective))}

(* v021_corrective_checks.py: flags of single records, then shares and duplicates of them all *)
Flagged(r) == r.flaws # {} \/ r.asks \in Benchmarks
CorpusPasses(recs) ==
    /\ \A r \in recs : ~Flagged(r)
    /\ \A r, q \in recs : r # q => r.says # q.says
    /\ Cardinality({r \in recs : r.question}) * 100 <= QuestionLimit * Cardinality(recs)

Base == {Replay(c) : c \in OfKinds(Conversations, {"base", "base_eval"})}
Near(r, q) == r.asks = q.asks \/ r.says = q.says
NearLong(r, q) == \/ r.asks = q.asks /\ r.asks \notin ShortTurns
                  \/ r.says = q.says /\ r.says \notin ShortTurns
(* v021_leakage_check.py: what blocks; a short held-out turn that stands in V0.2 too only warns *)
Leaks(held, train) ==
    \/ \E h \in held, r \in train : Near(h, r) \/ h.about = r.about
    \/ \E h \in held, b \in Base : NearLong(h, b)
    \/ \E r \in held \cup train, b \in Base : b.kind = "base_eval" /\ Near(r, b)
    \/ \E r \in held \cup train : r.asks \in Benchmarks
LeaksByIdOnly(held, train) == Ids(held) \cap Ids(train) # {}

\* Mutant of LeakCheckPasses: only ids are compared.
LeakCheckByIdOnly(recs) == ~LeaksByIdOnly(HeldOut(recs), recs \ HeldOut(recs))

LeakCheckPasses(recs) == ~Leaks(HeldOut(recs), recs \ HeldOut(recs))

(* build_rows: the rows that will be the internal evaluation slice hold base rows, one copy      *)
(* each, those of the base's own slice first; the other base rows and the copies fill the rest.  *)
(* A row is the id of its conversation.                                                          *)
BaseIds == Ids(OfKinds(Conversations, {"base"}))
RowCount(ids) == Cardinality(BaseIds) + Copies * Cardinality(ids)
RankOf(p, places) == Cardinality({q \in places : q <= p})
OwnSlice == {i \in BaseIds : RankOf(i, BaseIds) \in Slice[Cardinality(BaseIds)]}
EvalSources(n) ==
    LET preferred == Sorted({<<IF i \in OwnSlice THEN 0 ELSE 1, i>> : i \in BaseIds})
    IN [k \in 1..Cardinality(Slice[n]) |-> preferred[k][2]]
Copied(ids) == (1..Copies) \X ids

\* Mutant of Rest: the sources of the slice stay among the other rows.
RestWithEvalSources(n, ids) ==
    LET first == {i \in BaseIds : RankOf(i, BaseIds) <= Cardinality(BaseIds) - Cardinality(Slice[n])}
    IN Sorted(({0} \X first) \cup Copied(ids))

Rest(n, ids) ==
    LET taken == {EvalSources(n)[k] : k \in 1..Cardinality(Slice[n])}
    IN Sorted(({0} \X (BaseIds \ taken)) \cup Copied(ids))
PlacedRows(ids) ==
    LET n == RowCount(ids)
        eval == EvalSources(n)
        rest == Rest(n, ids)
    IN [p \in 1..n |-> IF p \in Slice[n] THEN eval[RankOf(p, Slice[n])] ELSE rest[RankOf(p, (1..n) \ Slice[n])][2]]

\* Without a base row for each row of the slice, next(eval_iter) has nothing to give, and nothing is written.
RowsFit(ids) == Cardinality(Slice[RowCount(ids)]) <= Cardinality(BaseIds)

ASSUME SliceAssumption ==
    /\ IsFiniteSet(Conversations) /\ \A c \in Conversations : c.id \in Nat
    /\ Copies \in Nat
    /\ \A ids \in SUBSET Ids(Conversations) : Slice[RowCount(ids)] \subseteq 1..RowCount(ids)

(* inputs_sha: what each authorization must name *)
Inputs(s) == CASE s = "first" -> OfKinds(built.corpus, Corrective)
               [] s = "second" -> {<<built.corpus, serving>>}
Trained(s) == sets[s].at = "frozen" /\ sets[s].undisturbed

TrainingSetsInit ==
    /\ sources \in FirstSources
    /\ serving \in Servings
    /\ built = [corpus |-> {}, drafts |-> {}]
    /\ approvals = [first |-> {}, second |-> {}, third |-> {}]
    /\ sets = [s \in {"first", "second", "third", "fourth"} |-> [at |-> "absent"]]
    /\ freeze = NoFreeze
    /\ edits = 0

Disturbed == IF freeze = NoFreeze THEN freeze ELSE [freeze EXCEPT !.undisturbed = FALSE]

(* the owner writes or removes a conversation of a source file *)
EditSources(c) ==
    /\ edits < MaxEdits
    /\ sources' = IF c \in sources THEN sources \ {c} ELSE sources \cup {c}
    /\ edits' = edits + 1
    /\ freeze' = Disturbed
    /\ UNCHANGED <<serving, built, approvals, sets>>

(* the owner changes a term or a dance the conversations are grounded in *)
EditServing(v) ==
    /\ edits < MaxEdits
    /\ v # serving
    /\ serving' = v
    /\ edits' = edits + 1
    /\ freeze' = Disturbed
    /\ UNCHANGED <<sources, built, approvals, sets>>

(* v021_build_corrective.py: all three files, or none *)
BuildCorpus ==
    /\ ~BuildErrors(CorpusKinds)
    /\ built' = [built EXCEPT !.corpus = Rebuilt(CorpusKinds)]
    /\ freeze' = Disturbed
    /\ UNCHANGED <<sources, serving, approvals, sets, edits>>

(* v022_build_draft.py: a record the runtime does not ground is kept with its gap *)
BuildDrafts ==
    /\ ~DuplicateIds({"draft"})
    /\ built' = [built EXCEPT !.drafts = Rebuilt({"draft"})]
    /\ freeze' = Disturbed
    /\ UNCHANGED <<sources, serving, approvals, sets, edits>>

(* the owner authorizes the records as they stand, or pins the third set in v03_build_final.py *)
Authorize(s) ==
    /\ s = "third" => sets.third.at = "frozen"
    /\ approvals' = [approvals EXCEPT ![s] = IF s = "third" THEN sets.third.rows ELSE Inputs(s)]
    /\ freeze' = Disturbed
    /\ UNCHANGED <<sources, serving, built, sets, edits>>

(* the records are read, and must be what the runtime builds now *)
Reading(s, recs) == [at |-> "read", set |-> s, recs |-> recs, undisturbed |-> TRUE]
BeginFirst ==
    /\ ~BuildErrors(Corrective)
    /\ Rebuilt(Corrective) = OfKinds(built.corpus, Corrective)
    /\ built.corpus # {}
    /\ freeze' = Reading("first", Rebuilt(Corrective))
BeginSecond ==
    /\ sets.first.at = "frozen"
    /\ ~BuildErrors(CorpusKinds)
    /\ Rebuilt(CorpusKinds) = built.corpus
    /\ Rebuilt(Corrective) = sets.first.recs
    /\ freeze' = Reading("second", built.corpus)
BeginBuild ==
    /\ freeze = NoFreeze
    /\ BeginFirst \/ BeginSecond
    /\ UNCHANGED <<sources, serving, built, approvals, sets, edits>>

(* the corpus gates and the leakage check are programs of their own that read the files again *)
GatesPass == CorpusPasses(built.corpus) /\ LeakCheckPasses(built.corpus)
RunGates ==
    /\ freeze.at = "read"
    /\ freeze.set \in {"first", "second"}
    /\ freeze' = IF GatesPass THEN [freeze EXCEPT !.at = "gated"] ELSE NoFreeze
    /\ UNCHANGED <<sources, serving, built, approvals, sets, edits>>

(* authorization, then what stands there already *)
\* Mutant of Authorized: any authorization will do.
AuthorizedAtAll(s) == approvals[s] # {}

Authorized(s) == approvals[s] # {} /\ approvals[s] = Inputs(s)

\* Mutant of Free: a finished set is written again.
FreeAlways(s) == TRUE

Free(s) == sets[s].at = "absent"

Snapshot(s) == [at |-> "snapshot", approval |-> approvals[s], recs |-> OfKinds(built.corpus, Corrective)]
WriteSnapshot ==
    /\ freeze.at = "gated"
    /\ LET s == freeze.set
           ok == RowsFit(Ids(freeze.recs \ HeldOut(freeze.recs))) /\ Authorized(s) /\ Free(s)
       IN /\ freeze' = IF ok THEN [freeze EXCEPT !.at = "snapshot"] ELSE NoFreeze
          /\ sets' = IF ok THEN [sets EXCEPT ![s] = Snapshot(s)] ELSE sets
    /\ UNCHANGED <<sources, serving, built, approvals, edits>>

Export(s, held, train, rows) ==
    [at |-> "export", recs |-> s.recs, approval |-> s.approval, held |-> held, train |-> train, rows |-> rows]
WriteExport ==
    /\ freeze.at = "snapshot"
    /\ LET held == HeldOut(freeze.recs)
           train == freeze.recs \ held
       IN sets' = [sets EXCEPT ![freeze.set] = Export(@, held, train, PlacedRows(Ids(train)))]
    /\ freeze' = [freeze EXCEPT !.at = "export"]
    /\ UNCHANGED <<sources, serving, built, approvals, edits>>

(* the manifest is written last, into both directories; then everything is made read-only *)
Manifested(s) ==
    [at |-> "frozen", recs |-> s.recs, held |-> s.held, train |-> s.train, rows |-> s.rows,
     approval |-> s.approval, undisturbed |-> freeze.undisturbed]
WriteFreezeManifest ==
    /\ freeze.at = "export"
    /\ freeze.set \in {"first", "second"}
    /\ sets' = [sets EXCEPT ![freeze.set] = Manifested(@)]
    /\ freeze' = NoFreeze
    /\ UNCHANGED <<sources, serving, built, approvals, edits>>

(* v022_build_final.py build: what stays of V0.2, the rebuilt corpus without the second set's    *)
(* held-out ids, and the drafts as they were built; of equal conversations the first             *)
Dropped == {"bad_reply", "human_life", "catchphrase", "mixed_word"}
Gathered == OfKinds(Base, {"base"})
            \cup {r \in Rebuilt({"corrective", "dance"}) : r.id \notin Ids(OfKinds(sets.second.held, Corrective))}
            \cup built.drafts
KeptRecords(recs) == {r \in recs : /\ r.flaws \cap Dropped = {}
                            /\ \A q \in recs : q.flaws \cap Dropped = {} /\ q.asks = r.asks /\ q.says = r.says
                                                  => r.id <= q.id}
ThirdGate(recs) ==
    /\ ~LeaksByIdOnly(sets.second.held, recs)
    /\ \A r \in recs : r.kind = "draft" => r.prompt = serving
BeginThird ==
    /\ freeze = NoFreeze
    /\ sets.second.at \in {"export", "frozen"}
    /\ ~BuildErrors(CorpusKinds)
    /\ \A r \in built.drafts : ~r.gap
    /\ ThirdGate(KeptRecords(Gathered))
    /\ freeze' = Reading("third", KeptRecords(Gathered))
    /\ UNCHANGED <<sources, serving, built, approvals, sets, edits>>

(* v03_build_final.py: the pinned third set and the new conversations, which are checked alone *)
NewRecords == Rebuilt({"final"})
Rewritten(r) == IF r.id \in Rewrites THEN [r EXCEPT !.flaws = @ \ {"script_mix"}] ELSE r
FourthTrain == {Rewritten(r) : r \in sets.third.train} \cup NewRecords
FourthErrors ==
    \/ BuildErrors({"final"})
    \/ \E r \in NewRecords : r.asks \in Benchmarks \/ r.flaws \cap {"human_life", "danda"} # {}
    \/ \E r \in NewRecords, h \in sets.third.held \cup OfKinds(Base, {"base_eval"}) : r.asks = h.asks
    \/ \E r \in FourthTrain : r.flaws \cap {"script_mix", "foreign"} # {}
    \/ \E r, q \in FourthTrain : r # q /\ r.asks = q.asks /\ r.says = q.says
BeginFourth ==
    /\ freeze = NoFreeze
    /\ approvals.third # {}
    /\ sets.third.at # "absent"
    /\ sets.third.rows = approvals.third
    /\ ~FourthErrors
    /\ Free("fourth")
    /\ freeze' = Reading("fourth", FourthTrain)
    /\ UNCHANGED <<sources, serving, built, approvals, sets, edits>>

(* both write train.jsonl first and the manifest last; the third over whatever stands there *)
HeldBefore(s) == IF s = "third" THEN sets.second.held ELSE sets.third.held
TrainFiles(s) == [at |-> "export", recs |-> freeze.recs, approval |-> {}, held |-> HeldBefore(s),
                  train |-> freeze.recs, rows |-> freeze.recs]
WriteTrain ==
    /\ freeze.at = "read"
    /\ freeze.set \in {"third", "fourth"}
    /\ sets' = [sets EXCEPT ![freeze.set] = TrainFiles(freeze.set)]
    /\ freeze' = [freeze EXCEPT !.at = "export"]
    /\ UNCHANGED <<sources, serving, built, approvals, edits>>

WriteFinalManifest ==
    /\ freeze.at = "export"
    /\ freeze.set \in {"third", "fourth"}
    /\ sets' = [sets EXCEPT ![freeze.set] = Manifested(@)]
    /\ freeze' = NoFreeze
    /\ UNCHANGED <<sources, serving, built, approvals, edits>>

(* the process ends: what is on disk stays *)
BuildDies ==
    /\ freeze # NoFreeze
    /\ freeze' = NoFreeze
    /\ UNCHANGED <<sources, serving, built, approvals, sets, edits>>

TrainingSetsNext ==
    \/ \E c \in Conversations : c.kind \notin {"base", "base_eval"} /\ EditSources(c)
    \/ \E v \in Servings : EditServing(v)
    \/ BuildCorpus
    \/ BuildDrafts
    \/ \E s \in {"first", "second", "third"} : Authorize(s)
    \/ BeginBuild
    \/ RunGates
    \/ WriteSnapshot
    \/ WriteExport
    \/ WriteFreezeManifest
    \/ BeginThird
    \/ BeginFourth
    \/ WriteTrain
    \/ WriteFinalManifest
    \/ BuildDies

TrainingSetsSpec == TrainingSetsInit /\ [][TrainingSetsNext]_trainingSetVars

------------------------------------------------------------------------------------------------
(* A freeze that nothing was changed under holds out no user turn, reply or subject that a new   *)
(* record trains on, and shares with the V0.2 records, which are trained on again, no more than  *)
(* turns below MIN_LEN characters (line 134 of the check only warns of those); none of its       *)
(* records is a benchmark or near V0.2's validation and test. The third and the fourth set       *)
(* compare ids only: they train on no record that is held out, and nothing more is claimed.      *)
KeptApart(held, train) ==
    /\ \A h \in held, r \in train : ~Near(h, r) /\ h.about # r.about
    /\ \A h \in held, b \in Base : ~NearLong(h, b)
    /\ \A r \in held \cup train : r.asks \notin Benchmarks /\ \A b \in OfKinds(Base, {"base_eval"}) : ~Near(r, b)
HoldoutNeverTrained ==
    /\ \A s \in {"first", "second"} : Trained(s) => KeptApart(sets[s].held, sets[s].train)
    /\ \A s \in {"third", "fourth"} : Trained(s) => ~LeaksByIdOnly(sets[s].held, sets[s].train)

(* What a freeze trains on and holds out is what the owner's authorization named.                *)
FrozenAsAuthorized ==
    \A s \in {"first", "second"} : Trained(s) =>
        LET named == IF s = "first" THEN sets[s].approval ELSE UNION {a[1] : a \in sets[s].approval}
        IN sets[s].train \cup sets[s].held = named

(* The rows LLaMA-Factory takes for its evaluation slice share no conversation with the rows it  *)
(* trains on, and no row is lost: each base row once, each new conversation Copies times.        *)
SliceIsUnseen ==
    \A s \in {"first", "second"} : sets[s].at = "frozen" =>
        LET rows == sets[s].rows
            slice == Slice[Len(rows)]
            times(i) == Cardinality({p \in DOMAIN rows : rows[p] = i})
        IN /\ {rows[p] : p \in slice} \cap {rows[p] : p \in DOMAIN rows \ slice} = {}
           /\ \A i \in BaseIds : times(i) = 1
           /\ \A r \in sets[s].train : times(r.id) = Copies

(* A finished freeze is never changed again (the third set alone may be frozen anew).            *)
FreezesStay ==
    [][\A s \in {"first", "second", "fourth"} : sets[s].at = "frozen" => sets'[s] = sets[s]]_trainingSetVars

(* A frozen set is what it was said to be, and nothing it is measured with. *)
SetsAreSound == HoldoutNeverTrained /\ FrozenAsAuthorized /\ SliceIsUnseen
====
