--------------------------- MODULE Scripts_proofs ---------------------------
(***************************************************************************)
(* Proofs about what is run from a terminal (MCScripts), for every value   *)
(* of the constants. The parts share no state, so a step of the work is a  *)
(* step or a stutter of each part, and each part has an invariant of its   *)
(* own:                                                                    *)
(* - SuitesInv: whenever the counts agree, what was reconstructed from the *)
(*   texts is what V0.1 was trained with.                                  *)
(* - SplitsInv: the union of groups is a forest, so that related records   *)
(*   have one root, and the neediest split is never further over its share *)
(*   than one group.                                                       *)
(* - ReleaseInv: an upload under way is of its record, or newer than every *)
(*   checksum.                                                             *)
(* - TrainingInv, PostInv: a run that is over keeps its log; the history   *)
(*   is what is filed under the variant.                                   *)
(* - CurationInv: files of an id given to one record say the same, and     *)
(*   what was decided is in no draft.                                      *)
(* - AuditInv: while things only got worse, an audit would say nothing     *)
(*   better than the last one said.                                        *)
(* - ReviewInv: a class tells what severe codes are left; a freeze has     *)
(*   written what its step says.                                           *)
(* - SetsInv: only the build writes, and what nothing disturbed is what    *)
(*   was authorized, in rows that fit their slice.                         *)
(* - PreflightInv: a check that did not fail found things right.           *)
(***************************************************************************)
EXTENDS MCScripts, DataLemmas, FiniteSetTheorems, FunctionTheorems

\* Every part of the work goes on by steps of its own.
LEMMA PartsStep ==
    ASSUME [WorkNext]_workVars
    PROVE  /\ [CurationNext]_curationVars /\ [AuditNext]_auditVars /\ [SplitsNext]_splitsVars
           /\ [ReviewNext]_reviewVars /\ [TrainingSetsNext]_trainingSetVars
           /\ [TrainingNext]_trainingVars /\ [ReleaseNext]_releaseVars /\ [SuitesNext]_suitesVars
           /\ [PostNext]_postVars /\ [PreflightNext]_preflightVars
    BY DEF WorkNext, workVars, datasetVars, modelVars

LEMMA PartsBegin ==
    WorkInit => /\ CurationInit /\ AuditInit /\ SplitsInit /\ ReviewInit /\ TrainingSetsInit
                /\ TrainingInit /\ ReleaseInit /\ SuitesInit /\ PostInit /\ PreflightInit
    BY DEF WorkInit

-----------------------------------------------------------------------------
(***************************************************************************)
(* The suites. What the builder worked out is what V0.1 never saw: the     *)
(* records reconstructed from the texts are among those V0.1 was trained   *)
(* with, and they are as many. Nothing is frozen again once it is counted. *)
(***************************************************************************)
Unseen == [s \in EvalSplits |-> {r \in EvalRecords : frozenIn[r] = s /\ exported[r] # "train"}]
SuitesInv ==
    /\ exported \in [EvalRecords -> Places] /\ names \subseteq Words
    /\ builder \in {NoBuilder} \cup [at : {"suite", "manifests"}, names : SUBSET Words, clean : {Unseen}]
    /\ builder.at = "suite" => builder.names \cap mentioned = {}
    /\ suite # Missing => suite \cap mentioned = {}
    /\ manifests # Missing => manifests = Unseen
    /\ seenMark = Missing => builder = NoBuilder /\ suite = Missing /\ manifests = Missing

\* As many reconstructed records as V0.1 was trained with: then they are those records.
LEMMA AsManyIsTheSame ==
    ASSUME exported \in [EvalRecords -> Places], Consistent
    PROVE  Reconstructed = {r \in V01 : exported[r] = "train"}
<1> DEFINE train == {r \in V01 : exported[r] = "train"}
<1>1. Reconstructed \subseteq train
    <2> SUFFICES ASSUME NEW r \in Reconstructed PROVE r \in train
        OBVIOUS
    <2>1. r \in V01 /\ approvedText[r] \notin EvalTexts
        BY DEF Reconstructed
    <2>2. exported[r] \notin EvalSplits
        BY <2>1 DEF EvalTexts
    <2>3. exported[r] = "train"
        BY <2>1, <2>2 DEF V01, Places, EvalSplits
    <2> QED
        BY <2>1, <2>3
<1>2. IsFiniteSet(train)
    BY SuitesAssumption, FS_Subset DEF V01
<1>3. Cardinality(Reconstructed) = Cardinality(train)
    BY DEF Consistent
<1> QED
    BY <1>1, <1>2, <1>3, FS_Subset

LEMMA BuildSuitesUnseen ==
    ASSUME SuitesInv, BuildSuites
    PROVE  builder' = [at |-> "suite", names |-> names, clean |-> Unseen]
<1>1. Reconstructed = {r \in V01 : exported[r] = "train"}
    BY AsManyIsTheSame DEF SuitesInv, BuildSuites
<1>2. ASSUME NEW s \in EvalSplits
      PROVE  {r \in EvalRecords : frozenIn[r] = s} \ Reconstructed = {r \in EvalRecords : frozenIn[r] = s /\ exported[r] # "train"}
    BY <1>1 DEF V01
<1>3. [s \in EvalSplits |-> {r \in EvalRecords : frozenIn[r] = s} \ Reconstructed] = Unseen
    BY <1>2 DEF Unseen
<1> QED
    BY <1>3 DEF BuildSuites

LEMMA SuitesBegin == SuitesInit => SuitesInv
    BY DEF SuitesInit, SuitesInv, NoBuilder

LEMMA SuitesStep == SuitesInv /\ [SuitesNext]_suitesVars => SuitesInv'
<1> SUFFICES ASSUME SuitesInv, [SuitesNext]_suitesVars PROVE SuitesInv'
    OBVIOUS
<1>1. ASSUME NEW r \in EvalRecords, NEW w \in Wordings \cup {"gone"}, EditStored(r, w) PROVE SuitesInv'
    BY <1>1 DEF EditStored, SuitesInv, Unseen
<1>2. ASSUME NEW w \in Words, NameTerm(w) PROVE SuitesInv'
    BY <1>2 DEF NameTerm, SuitesInv, Unseen
<1>3. ASSUME NEW into \in [EvalRecords -> Places], NEW words \in SUBSET Words, FreezeSplits(into, words) PROVE SuitesInv'
    BY <1>3 DEF FreezeSplits, SuitesInv, NoBuilder
<1>4. CASE BuildSuites
    <2>1. builder' = [at |-> "suite", names |-> names, clean |-> Unseen]
        BY <1>4, BuildSuitesUnseen
    <2>2. Unseen' = Unseen
        BY <1>4 DEF BuildSuites, Unseen
    <2> QED
        BY <1>4, <2>1, <2>2 DEF BuildSuites, SuitesInv
<1>5. CASE WriteSuite
    BY <1>5 DEF WriteSuite, SuitesInv, NoBuilder, Unseen
<1>6. CASE WriteManifests
    <2>1. builder # NoBuilder /\ seenMark # Missing
        BY <1>6 DEF WriteManifests, SuitesInv, NoBuilder
    <2>2. builder.clean = Unseen
        BY <2>1 DEF SuitesInv
    <2>3. Unseen' = Unseen
        BY <1>6 DEF WriteManifests, Unseen
    <2>4. builder' = NoBuilder /\ builder'.at = "none"
        BY <1>6 DEF WriteManifests, NoBuilder
    <2> QED
        BY <1>6, <2>1, <2>2, <2>3, <2>4 DEF WriteManifests, SuitesInv
<1>7. CASE BuilderDies
    BY <1>7 DEF BuilderDies, SuitesInv, NoBuilder, Unseen
<1>8. CASE UNCHANGED suitesVars
    BY <1>8 DEF suitesVars, SuitesInv, Unseen
<1> QED
    BY <1>1, <1>2, <1>3, <1>4, <1>5, <1>6, <1>7, <1>8 DEF SuitesNext

LEMMA SuitesAreFair == SuitesInv => ComparisonIsFair
    BY DEF SuitesInv, ComparisonIsFair, Unseen, EvalSplits

-----------------------------------------------------------------------------
(***************************************************************************)
(* The division. The forest has a root for every record, and a height that *)
(* falls on the way there: so Find is the map of roots.                    *)
(***************************************************************************)
Leads(g, f) == g = [x \in SplitRecords |-> IF f[x] = x THEN x ELSE g[f[x]]]
Falls(height, f) == \A x \in SplitRecords : f[x] # x => height[f[x]] < height[x]
Forest == parent \in [SplitRecords -> SplitRecords] /\ \E height \in [SplitRecords -> Nat] : Falls(height, parent)
Roots == /\ [x \in SplitRecords |-> Find(x)] \in [SplitRecords -> SplitRecords]
         /\ Leads([x \in SplitRecords |-> Find(x)], parent)
         /\ \A x \in SplitRecords : parent[Find(x)] = Find(x)

LEMMA RootsAreUnique ==
    ASSUME NEW f \in [SplitRecords -> SplitRecords], NEW height \in [SplitRecords -> Nat], Falls(height, f),
           NEW g, NEW h, Leads(g, f), Leads(h, f)
    PROVE  g = h
<1> DEFINE Differ == {x \in SplitRecords : g[x] # h[x]}
<1>1. ASSUME Differ # {} PROVE FALSE
    <2>1. PICK n \in {height[x] : x \in Differ} : \A m \in {height[x] : x \in Differ} : n <= m
        <3>1. {height[x] : x \in Differ} \subseteq Nat /\ {height[x] : x \in Differ} # {}
            BY <1>1
        <3> HIDE DEF Differ
        <3> QED
            BY <3>1, LeastElement
    <2>2. PICK x \in Differ : n = height[x]
        BY <2>1
    <2>3. f[x] # x
        BY <2>2 DEF Leads
    <2>4. f[x] \in SplitRecords /\ height[f[x]] < height[x] /\ height[f[x]] \in Nat /\ height[x] \in Nat
        BY <2>3 DEF Falls
    <2>5. f[x] \notin Differ
        BY <2>1, <2>2, <2>4
    <2>6. g[f[x]] = h[f[x]] /\ g[x] = g[f[x]] /\ h[x] = h[f[x]]
        BY <2>3, <2>4, <2>5 DEF Leads
    <2> QED
        BY <2>2, <2>6
<1>2. \A x \in SplitRecords : g[x] = h[x]
    BY <1>1
<1>3. g = [x \in SplitRecords |-> g[x]]
    BY DEF Leads
<1>4. h = [x \in SplitRecords |-> h[x]]
    BY DEF Leads
<1> QED
    BY <1>2, <1>3, <1>4

LEMMA FindFollows ==
    ASSUME Forest, NEW g, Leads(g, parent)
    PROVE  \A r \in SplitRecords : Find(r) = g[r]
<1> DEFINE up[x \in SplitRecords] == IF parent[x] = x THEN x ELSE up[parent[x]]
<1>1. Leads(up, parent)
    BY DEF Leads
<1>2. up = g
    <2> HIDE DEF up
    <2> QED
        BY <1>1, RootsAreUnique DEF Forest
<1>3. ASSUME NEW r \in SplitRecords PROVE Find(r) = up[r]
    BY DEF Find
<1> HIDE DEF up
<1> QED
    BY <1>2, <1>3
LEMMA FindFollowsThen ==
    ASSUME Forest', NEW g, Leads(g, parent')
    PROVE  \A r \in SplitRecords : Find(r)' = g[r]
<1> DEFINE up[x \in SplitRecords] == IF parent'[x] = x THEN x ELSE up[parent'[x]]
<1>1. Leads(up, parent')
    BY DEF Leads
<1>2. up = g
    <2> HIDE DEF up
    <2>1. PICK height \in [SplitRecords -> Nat] : Falls(height, parent')
        BY DEF Forest, Falls
    <2> QED
        BY <1>1, <2>1, RootsAreUnique DEF Forest
<1>3. ASSUME NEW r \in SplitRecords PROVE Find(r)' = up[r]
    BY DEF Find
<1> HIDE DEF up
<1> QED
    BY <1>2, <1>3

\* Uniting two groups: whatever led to the root of the one now leads to the root of the other.
LEMMA UniteMerges ==
    ASSUME Forest, Roots, NEW a \in SplitRecords, NEW b \in SplitRecords, UniteRoots(a, b)
    PROVE  /\ Forest' /\ Roots'
           /\ \A x \in SplitRecords : Find(x)' = IF Find(x) = Find(a) THEN Find(b) ELSE Find(x)
<1>1. PICK g \in [SplitRecords -> SplitRecords] : g = [x \in SplitRecords |-> Find(x)]
    BY DEF Roots
<1>2. /\ Leads(g, parent) /\ \A x \in SplitRecords : Find(x) = g[x] /\ parent[g[x]] = g[x] /\ g[x] \in SplitRecords
    BY <1>1 DEF Roots
<1>3. PICK height \in [SplitRecords -> Nat] : Falls(height, parent)
    BY DEF Forest
<1>4. parent \in [SplitRecords -> SplitRecords]
    BY DEF Forest
<1>5. parent' = [parent EXCEPT ![g[a]] = g[b]]
    BY <1>2 DEF UniteRoots
<1>6. \A x \in SplitRecords : g[x] = IF parent[x] = x THEN x ELSE g[parent[x]]
    BY <1>2 DEF Leads
<1>7. PICK h \in [SplitRecords -> SplitRecords] : h = [x \in SplitRecords |-> IF g[x] = g[a] THEN g[b] ELSE g[x]]
    BY <1>2
<1>8. parent' \in [SplitRecords -> SplitRecords]
    BY <1>2, <1>4, <1>5
<1>9. g[g[a]] = g[a] /\ g[g[b]] = g[b]
    BY <1>2, <1>6
<1>10. Leads(h, parent') /\ \A x \in SplitRecords : parent'[h[x]] = h[x]
    <2>1. ASSUME NEW x \in SplitRecords PROVE h[x] = IF parent'[x] = x THEN x ELSE h[parent'[x]]
        <3>1. CASE x = g[a]
            BY <3>1, <1>2, <1>4, <1>5, <1>7, <1>9
        <3>2. CASE x # g[a]
            <4>1. parent'[x] = parent[x] /\ parent[x] \in SplitRecords
                BY <3>2, <1>4, <1>5
            <4>2. CASE parent[x] = x
                <5>1. g[x] = x
                    BY <4>2, <1>6
                <5> QED
                    BY <5>1, <4>1, <4>2, <3>2, <1>7
            <4>3. CASE parent[x] # x
                <5>1. g[x] = g[parent[x]]
                    BY <4>3, <1>6
                <5> QED
                    BY <5>1, <4>1, <4>3, <1>7
            <4> QED
                BY <4>2, <4>3
        <3> QED
            BY <3>1, <3>2
    <2>2. h = [x \in SplitRecords |-> h[x]]
        OBVIOUS
    <2>3. ASSUME NEW x \in SplitRecords PROVE parent'[h[x]] = h[x]
        BY <1>2, <1>4, <1>5, <1>7, <1>9
    <2> QED
        BY <2>1, <2>2, <2>3 DEF Leads
<1>11. \E top \in [SplitRecords -> Nat] : Falls(top, parent')
    <2>1. CASE g[a] = g[b]
        <3>1. parent' = parent
            BY <2>1, <1>2, <1>4, <1>5
        <3> QED
            BY <3>1, <1>3
    <2>2. CASE g[a] # g[b]
        <3>1. PICK n \in Nat : n = height[g[b]]
            BY <1>2
        <3>2. PICK top \in [SplitRecords -> Nat] :
                  top = [x \in SplitRecords |-> IF g[x] = g[a] THEN height[x] + n + 1 ELSE height[x]]
            <4>1. \A x \in SplitRecords : height[x] \in Nat
                BY <1>3
            <4>2. \A x \in SplitRecords : (IF g[x] = g[a] THEN height[x] + n + 1 ELSE height[x]) \in Nat
                BY <3>1, <4>1
            <4> QED
                BY <4>2
        <3>3. ASSUME NEW x \in SplitRecords, parent'[x] # x PROVE top[parent'[x]] < top[x]
            <4>1. CASE x = g[a]
                <5>1. parent'[x] = g[b] /\ g[b] \in SplitRecords
                    BY <4>1, <1>2, <1>4, <1>5
                <5>2. top[g[b]] = n
                    BY <3>1, <3>2, <5>1, <1>9, <2>2
                <5>3. top[x] = height[x] + n + 1 /\ height[x] \in Nat
                    BY <4>1, <3>2, <1>9
                <5> QED
                    BY <5>1, <5>2, <5>3
            <4>2. CASE x # g[a]
                <5>1. parent'[x] = parent[x] /\ parent[x] \in SplitRecords /\ parent[x] # x
                    BY <4>2, <3>3, <1>4, <1>5
                <5>2. height[parent[x]] < height[x] /\ g[x] = g[parent[x]] /\ height[parent[x]] \in Nat /\ height[x] \in Nat
                    BY <5>1, <1>3, <1>6 DEF Falls
                <5> QED
                    BY <5>1, <5>2, <3>2
            <4> QED
                BY <4>1, <4>2
        <3> QED
            BY <3>3 DEF Falls
    <2> QED
        BY <2>1, <2>2
<1>12. Forest'
    BY <1>8, <1>11 DEF Forest, Falls
<1>13. \A x \in SplitRecords : Find(x)' = h[x]
    BY <1>10, <1>12, FindFollowsThen
<1>14. Roots'
    <2>1. [x \in SplitRecords |-> Find(x)'] = h
        BY <1>13
    <2> QED
        BY <2>1, <1>10, <1>13 DEF Roots, Leads
<1> QED
    BY <1>12, <1>13, <1>14, <1>2, <1>7

\* Sets without a common element add up.
LEMMA ApartAdds ==
    ASSUME NEW S, NEW T, IsFiniteSet(S), IsFiniteSet(T), S \cap T = {}
    PROVE  IsFiniteSet(S \cup T) /\ Cardinality(S \cup T) = Cardinality(S) + Cardinality(T)
<1>1. IsFiniteSet(S \cup T) /\ Cardinality(S \cup T) = Cardinality(S) + Cardinality(T) - Cardinality(S \cap T)
    BY FS_Union
<1>2. Cardinality(S \cap T) = 0 /\ Cardinality(S) \in Nat /\ Cardinality(T) \in Nat
    BY FS_EmptySet, FS_CardinalityType
<1> QED
    BY <1>1, <1>2

\* Groups are the sets of records with one root.
LEMMA GroupsAreClasses ==
    ASSUME NEW g \in Groups
    PROVE  /\ g \subseteq SplitRecords /\ g # {} /\ IsFiniteSet(g)
           /\ \A r \in g : g = {x \in SplitRecords : Find(x) = Find(r)}
<1>1. PICK r \in SplitRecords : g = {x \in SplitRecords : Find(x) = Find(r)}
    BY DEF Groups
<1> QED
    BY <1>1, SplitsAssumption, FS_Subset

LEMMA GroupsAreApart ==
    ASSUME NEW g \in Groups, NEW h \in Groups, NEW r, r \in g, r \in h
    PROVE  g = h
<1>1. g = {x \in SplitRecords : Find(x) = Find(r)}
    BY GroupsAreClasses
<1>2. h = {x \in SplitRecords : Find(x) = Find(r)}
    BY GroupsAreClasses
<1> QED
    BY <1>1, <1>2

LEMMA PercentsAreShares ==
    /\ \A s \in Splits : Percent(s) \in Nat /\ Position(s) \in Nat
    /\ Percent("train") + Percent("validation") + Percent("test") = 100
    /\ Position("train") = 1 /\ Position("validation") = 2 /\ Position("test") = 3
    /\ Candidates = {s \in Splits : Percent(s) > 0} /\ Candidates # {}
<1>1. TrainPercent \in Nat /\ ValidationPercent \in Nat /\ TrainPercent + ValidationPercent <= 100
    BY SplitsAssumption
<1>2. Percent("train") = TrainPercent /\ Percent("validation") = ValidationPercent
      /\ Percent("test") = 100 - TrainPercent - ValidationPercent
    BY DEF Percent
<1>3. Position("train") = 1 /\ Position("validation") = 2 /\ Position("test") = 3
    BY DEF Position
<1>4. \A s \in Splits : Percent(s) \in Nat /\ Position(s) \in Nat
    BY <1>1, <1>2, <1>3 DEF Splits
<1>5. Percent("train") + Percent("validation") + Percent("test") = 100
    BY <1>1, <1>2
<1>6. Percent("train") > 0 \/ Percent("validation") > 0 \/ Percent("test") > 0
    BY <1>4, <1>5 DEF Splits
<1>7. \E s \in Splits : Percent(s) > 0
    BY <1>6 DEF Splits
<1> QED
    BY <1>3, <1>4, <1>5, <1>7 DEF Candidates

\* Of some of the sets, one is furthest below its share, the first of those that are.
LEMMA NeediestExists ==
    ASSUME NEW C \in SUBSET {1, 2, 3}, C # {}, NEW d \in [{1, 2, 3} -> Int]
    PROVE  \E s \in C : \A x \in C \ {s} : d[s] > d[x] \/ (d[s] = d[x] /\ s < x)
<1>1. d[1] \in Int /\ d[2] \in Int /\ d[3] \in Int
    OBVIOUS
<1>2. 1 \in C \/ 2 \in C \/ 3 \in C
    OBVIOUS
<1>3. CASE 1 \in C /\ (2 \in C => d[1] >= d[2]) /\ (3 \in C => d[1] >= d[3])
    BY <1>1, <1>3
<1>4. CASE 2 \in C /\ (1 \in C => d[2] > d[1]) /\ (3 \in C => d[2] >= d[3])
    BY <1>1, <1>4
<1>5. CASE 3 \in C /\ (1 \in C => d[3] > d[1]) /\ (2 \in C => d[3] > d[2])
    BY <1>1, <1>5
<1>6. \/ 1 \in C /\ (2 \in C => d[1] >= d[2]) /\ (3 \in C => d[1] >= d[3])
      \/ 2 \in C /\ (1 \in C => d[2] > d[1]) /\ (3 \in C => d[2] >= d[3])
      \/ 3 \in C /\ (1 \in C => d[3] > d[1]) /\ (2 \in C => d[3] > d[2])
    BY <1>1, <1>2
<1> QED
    BY <1>3, <1>4, <1>5, <1>6

LEMMA ChosenIsNeediest ==
    ASSUME NEW l, \A s \in Splits : Deficit(l, s) \in Int
    PROVE  Chosen(l) \in Candidates /\ \A x \in Candidates : Deficit(l, Chosen(l)) >= Deficit(l, x)
<1> DEFINE Better(s) == \A x \in Candidates \ {s} : \/ Deficit(l, s) > Deficit(l, x)
                                                    \/ Deficit(l, s) = Deficit(l, x) /\ Position(s) < Position(x)
<1>1. Candidates \subseteq Splits /\ Candidates # {}
    BY PercentsAreShares
<1>2. \E s \in Candidates : Better(s)
    <2>1. PICK d1 \in Int : d1 = Deficit(l, "train")
        BY DEF Splits
    <2>2. PICK d2 \in Int : d2 = Deficit(l, "validation")
        BY DEF Splits
    <2>3. PICK d3 \in Int : d3 = Deficit(l, "test")
        BY DEF Splits
    <2>4. PICK C : C = {Position(s) : s \in Candidates}
        OBVIOUS
    <2>5. C \in SUBSET {1, 2, 3} /\ C # {}
        BY <2>4, <1>1, PercentsAreShares DEF Splits
    <2>6. PICK d \in [{1, 2, 3} -> Int] : d = [i \in {1, 2, 3} |-> IF i = 1 THEN d1 ELSE IF i = 2 THEN d2 ELSE d3]
        OBVIOUS
    <2>7. PICK n \in C : \A m \in C \ {n} : d[n] > d[m] \/ (d[n] = d[m] /\ n < m)
        BY <2>5, NeediestExists
    <2>8. \A s \in Splits : d[Position(s)] = Deficit(l, s)
        BY <2>1, <2>2, <2>3, <2>6, PercentsAreShares DEF Splits
    <2>9. \A s, x \in Splits : s # x => Position(s) # Position(x)
        BY PercentsAreShares DEF Splits
    <2>10. PICK s \in Candidates : n = Position(s)
        BY <2>4
    <2>11. ASSUME NEW x \in Candidates \ {s}
           PROVE  Deficit(l, s) > Deficit(l, x) \/ (Deficit(l, s) = Deficit(l, x) /\ Position(s) < Position(x))
        <3>1. Position(x) \in C \ {n}
            BY <2>4, <2>9, <2>10, <1>1
        <3> QED
            BY <3>1, <2>7, <2>8, <2>10, <1>1
    <2> QED
        BY <2>11
<1>3. Chosen(l) = CHOOSE s \in Candidates : Better(s)
    BY DEF Chosen
<1>4. Chosen(l) \in Candidates /\ Better(Chosen(l))
    <2> HIDE DEF Better
    <2> QED
        BY <1>2, <1>3
<1> QED
    BY <1>1, <1>4

\* While a group of a language waits, some set of that language is below its share.
LEMMA SomeSetIsBelow ==
    ASSUME NEW l, NEW g, g \in Waiting(l)
    PROVE  /\ \A s \in Splits : Deficit(l, s) \in Int /\ Count(l, s) \in Nat
           /\ Deficit(l, Chosen(l)) > 0 /\ Chosen(l) \in Splits
           /\ IsFiniteSet(UNION GroupsOf(l)) /\ g \subseteq UNION GroupsOf(l)
           /\ IsFiniteSet(g) /\ Cardinality(g) \in Nat /\ g # {} /\ g \subseteq SplitRecords
<1>1. PICK U : U = UNION GroupsOf(l)
    OBVIOUS
<1>2. g \in Groups /\ g \in GroupsOf(l) /\ \A r \in g : placed[r] = "none"
    BY DEF Waiting, GroupsOf
<1>3. U \subseteq SplitRecords
    BY <1>1, GroupsAreClasses DEF GroupsOf
<1>4. IsFiniteSet(U)
    BY <1>3, SplitsAssumption, FS_Subset
<1>5. g \subseteq U /\ g # {} /\ IsFiniteSet(g) /\ g \subseteq SplitRecords
    BY <1>1, <1>2, GroupsAreClasses
<1> DEFINE In(s) == {r \in U : placed[r] = s}
<1>6. \A s : IsFiniteSet(In(s)) /\ Cardinality(In(s)) \in Nat
    BY <1>4, FS_Subset, FS_CardinalityType
<1>7. Cardinality(g) \in Nat /\ Cardinality(g) > 0
    BY <1>5, FS_CardinalityType, FS_EmptySet
<1>8. PICK total \in Nat : total = Cardinality(U)
    BY <1>4, FS_CardinalityType
<1>9. PICK c1 \in Nat : c1 = Cardinality(In("train"))
    BY <1>6
<1>10. PICK c2 \in Nat : c2 = Cardinality(In("validation"))
    BY <1>6
<1>11. PICK c3 \in Nat : c3 = Cardinality(In("test"))
    BY <1>6
<1>12. c1 + c2 + c3 + Cardinality(g) <= total
    <2>1. In("train") \cap In("validation") = {} /\ (In("train") \cup In("validation")) \cap In("test") = {}
        OBVIOUS
    <2>2. IsFiniteSet(In("train") \cup In("validation"))
          /\ Cardinality(In("train") \cup In("validation")) = c1 + c2
        BY <2>1, <1>6, <1>9, <1>10, ApartAdds
    <2>3. PICK P : P = In("train") \cup In("validation") \cup In("test")
        OBVIOUS
    <2>4. IsFiniteSet(P) /\ Cardinality(P) = c1 + c2 + c3
        BY <2>1, <2>2, <2>3, <1>6, <1>11, ApartAdds
    <2>5. P \cap g = {} /\ P \cup g \subseteq U
        BY <2>3, <1>2, <1>5
    <2>6. IsFiniteSet(P \cup g) /\ Cardinality(P \cup g) = c1 + c2 + c3 + Cardinality(g)
        BY <2>4, <2>5, <1>5, ApartAdds
    <2>7. Cardinality(P \cup g) <= Cardinality(U)
        BY <2>5, <1>4, FS_Subset
    <2> QED
        BY <2>6, <2>7, <1>8
<1>13. PICK p1 \in Nat : p1 = Percent("train")
    BY PercentsAreShares DEF Splits
<1>14. PICK p2 \in Nat : p2 = Percent("validation")
    BY PercentsAreShares DEF Splits
<1>15. PICK p3 \in Nat : p3 = Percent("test")
    BY PercentsAreShares DEF Splits
<1>16. p1 + p2 + p3 = 100
    BY <1>13, <1>14, <1>15, PercentsAreShares
<1>17. /\ Count(l, "train") = c1 /\ Count(l, "validation") = c2 /\ Count(l, "test") = c3
       /\ Deficit(l, "train") = total * p1 - 100 * c1
       /\ Deficit(l, "validation") = total * p2 - 100 * c2
       /\ Deficit(l, "test") = total * p3 - 100 * c3
    BY <1>1, <1>8, <1>9, <1>10, <1>11, <1>13, <1>14, <1>15 DEF Deficit, Count, SplitTotal
<1>18. total * p1 \in Nat /\ total * p2 \in Nat /\ total * p3 \in Nat /\ total * p1 + total * p2 + total * p3 = total * 100
    BY <1>16
<1>19. \A s \in Splits : Deficit(l, s) \in Int /\ Count(l, s) \in Nat
    BY <1>17, <1>18 DEF Splits
<1>20. Deficit(l, "train") > 0 \/ Deficit(l, "validation") > 0 \/ Deficit(l, "test") > 0
    BY <1>7, <1>12, <1>17, <1>18
<1>21. \A s \in Splits : Percent(s) = 0 => Deficit(l, s) <= 0
    BY <1>13, <1>14, <1>15, <1>17 DEF Splits
<1>22. PICK s \in Splits : Deficit(l, s) > 0
    BY <1>20 DEF Splits
<1>23. s \in Candidates
    BY <1>19, <1>21, <1>22, PercentsAreShares
<1>24. Chosen(l) \in Candidates /\ Deficit(l, Chosen(l)) >= Deficit(l, s)
    BY <1>19, <1>23, ChosenIsNeediest
<1>25. Chosen(l) \in Splits /\ Deficit(l, Chosen(l)) > 0
    BY <1>19, <1>22, <1>24, PercentsAreShares
<1> QED
    BY <1>1, <1>4, <1>5, <1>7, <1>19, <1>25

SplitsInv ==
    /\ links \subseteq Pairs /\ unread \subseteq links
    /\ placed \in [SplitRecords -> Splits \cup {"none"}]
    /\ Forest /\ Roots
    /\ \A p \in links \ unread : Find(p[1]) = Find(p[2])
    /\ unread # {} => \A r \in SplitRecords : placed[r] = "none"
    /\ \A a, b \in SplitRecords : Find(a) = Find(b) => placed[a] = placed[b]
    /\ NearTheTarget

LEMMA SplitsBegin == SplitsInit => SplitsInv
<1> SUFFICES ASSUME SplitsInit PROVE SplitsInv
    OBVIOUS
<1>1. parent = [r \in SplitRecords |-> r] /\ \A r \in SplitRecords : placed[r] = "none"
    BY DEF SplitsInit
<1>2. Forest
    <2>1. Falls([x \in SplitRecords |-> 0], parent)
        BY <1>1 DEF Falls
    <2> QED
        BY <2>1, <1>1 DEF Forest
<1>3. \A r \in SplitRecords : Find(r) = r
    <2>1. Leads([r \in SplitRecords |-> r], parent)
        BY <1>1 DEF Leads
    <2> QED
        BY <2>1, <1>2, FindFollows
<1>4. Roots
    BY <1>1, <1>3 DEF Roots, Leads
<1>5. NearTheTarget
    BY <1>1 DEF NearTheTarget, Splits
<1> QED
    BY <1>1, <1>2, <1>3, <1>4, <1>5 DEF SplitsInit, SplitsInv

LEMMA UniteKeeps ==
    ASSUME SplitsInv, NEW a \in SplitRecords, NEW b \in SplitRecords, Unite(a, b)
    PROVE  SplitsInv'
<1>1. /\ Forest' /\ Roots'
      /\ \A x \in SplitRecords : Find(x)' = IF Find(x) = Find(a) THEN Find(b) ELSE Find(x)
    BY UniteMerges DEF SplitsInv, Unite
<1>2. UNCHANGED <<links, placed, recordLanguage>> /\ unread' = unread \ {<<a, b>>} /\ unread # {}
    BY DEF Unite
<1>3. \A r \in SplitRecords : placed'[r] = "none"
    BY <1>2 DEF SplitsInv
<1>4. ASSUME NEW p \in links' \ unread' PROVE Find(p[1])' = Find(p[2])'
    <2>1. p[1] \in SplitRecords /\ p[2] \in SplitRecords
        BY <1>2 DEF SplitsInv, Pairs
    <2>2. CASE p = <<a, b>>
        BY <1>1, <2>2
    <2>3. CASE p # <<a, b>>
        <3>1. Find(p[1]) = Find(p[2])
            BY <2>3, <1>2 DEF SplitsInv
        <3> QED
            BY <3>1, <2>1, <1>1
    <2> QED
        BY <2>2, <2>3
<1>5. NearTheTarget'
    BY <1>3 DEF NearTheTarget, Splits
<1> QED
    BY <1>1, <1>2, <1>3, <1>4, <1>5 DEF SplitsInv

LEMMA PlaceKeeps ==
    ASSUME SplitsInv, unread = {}, NEW g \in Groups, Place(g)
    PROVE  SplitsInv'
<1>1. PICK l : l = LanguageOf(g)
    OBVIOUS
<1>2. PICK s : s = Chosen(l)
    OBVIOUS
<1>3. /\ g \in Waiting(l) /\ UNCHANGED <<links, recordLanguage, parent, unread>>
      /\ placed' = [r \in SplitRecords |-> IF r \in g THEN s ELSE placed[r]]
    BY <1>1, <1>2 DEF Place
<1>4. /\ \A x \in Splits : Deficit(l, x) \in Int /\ Count(l, x) \in Nat
      /\ Deficit(l, s) > 0 /\ s \in Splits
      /\ IsFiniteSet(UNION GroupsOf(l)) /\ g \subseteq UNION GroupsOf(l)
      /\ IsFiniteSet(g) /\ Cardinality(g) \in Nat /\ g # {} /\ g \subseteq SplitRecords
    BY <1>2, <1>3, SomeSetIsBelow
<1>5. \A r : Find(r)' = Find(r)
    BY <1>3 DEF Find
<1>6. Forest' /\ Roots'
    BY <1>3, <1>5 DEF SplitsInv, Forest, Roots, Falls, Leads
<1>7. Groups' = Groups /\ \A h : LanguageOf(h)' = LanguageOf(h)
    BY <1>3, <1>5 DEF Groups, LanguageOf
<1>8. \A k : GroupsOf(k)' = GroupsOf(k) /\ SplitTotal(k)' = SplitTotal(k)
    BY <1>7 DEF GroupsOf, SplitTotal
<1>9. placed' \in [SplitRecords -> Splits \cup {"none"}]
    BY <1>3, <1>4 DEF SplitsInv
<1>10. ASSUME NEW a \in SplitRecords, NEW b \in SplitRecords, Find(a)' = Find(b)'
       PROVE  placed'[a] = placed'[b]
    <2>1. Find(a) = Find(b)
        BY <1>5, <1>10
    <2>2. a \in g <=> b \in g
        BY <2>1, GroupsAreClasses
    <2> QED
        BY <2>1, <2>2, <1>3 DEF SplitsInv
<1>11. \A r \in g : placed[r] = "none"
    BY <1>3 DEF Waiting
<1>12. ASSUME NEW k \in Languages, NEW x \in Splits, Count(k, x)' > 0
       PROVE  \E h \in GroupsOf(k)' : -(Deficit(k, x)') < 100 * Cardinality(h)
    <2> DEFINE Of(y) == {r \in UNION GroupsOf(k) : placed[r] = y}
               OfThen(y) == {r \in UNION GroupsOf(k) : placed'[r] = y}
    <2>1. Count(k, x)' = Cardinality(OfThen(x)) /\ Count(k, x) = Cardinality(Of(x))
        BY <1>8 DEF Count
    <2>2. UNION GroupsOf(k) \subseteq SplitRecords
        BY GroupsAreClasses DEF GroupsOf
    <2>3. CASE k = l /\ x = s
        <3>1. OfThen(x) = Of(x) \cup g /\ Of(x) \cap g = {}
            BY <2>2, <2>3, <1>3, <1>4, <1>11 DEF Splits
        <3>2. IsFiniteSet(Of(x))
            BY <2>3, <1>4, FS_Subset
        <3>3. Count(k, x)' = Count(k, x) + Cardinality(g)
            BY <3>1, <3>2, <2>1, <1>4, ApartAdds
        <3>4. PICK t : t = SplitTotal(k) * Percent(x)
            OBVIOUS
        <3>5. Deficit(k, x)' = t - 100 * Count(k, x)' /\ Deficit(k, x) = t - 100 * Count(k, x)
            BY <3>4, <1>8 DEF Deficit, Percent
        <3>6. PICK n \in Nat : n = Count(k, x)
            BY <2>3, <1>4
        <3>7. PICK m \in Nat : m = Cardinality(g)
            BY <1>4
        <3>8. PICK d \in Int : d = Deficit(k, x)
            BY <2>3, <1>4
        <3>9. d > 0 /\ d = t - 100 * n /\ Deficit(k, x)' = t - 100 * (n + m)
            BY <3>3, <3>5, <3>6, <3>7, <3>8, <2>3, <1>4
        <3>10. t \in Int
            <4>1. SplitTotal(k) \in Int
                BY <2>3, <1>4, FS_CardinalityType DEF SplitTotal
            <4> QED
                BY <4>1, <3>4, PercentsAreShares
        <3>11. -(Deficit(k, x)') < 100 * m
            BY <3>9, <3>10
        <3> QED
            BY <3>7, <3>11, <2>3, <1>3, <1>8 DEF Waiting
    <2>4. CASE ~(k = l /\ x = s)
        <3>1. OfThen(x) = Of(x)
            <4>1. CASE k = l
                BY <4>1, <2>2, <2>4, <1>3, <1>11 DEF Splits
            <4>2. CASE k # l
                <5>1. ASSUME NEW r \in UNION GroupsOf(k) PROVE r \notin g
                    BY <5>1, <4>2, <1>1, GroupsAreApart DEF GroupsOf
                <5> QED
                    BY <5>1, <2>2, <1>3
            <4> QED
                BY <4>1, <4>2
        <3>2. Count(k, x)' = Count(k, x)
            BY <3>1, <2>1
        <3>3. Deficit(k, x)' = Deficit(k, x)
            BY <3>2, <1>8 DEF Deficit, Percent
        <3>4. \E r \in SplitRecords : placed[r] = x
            <4>1. Of(x) # {}
                <5>1. Cardinality(Of(x)) > 0
                    BY <2>1, <3>2, <1>12
                <5> HIDE DEF Of
                <5> QED
                    BY <5>1, FS_EmptySet
            <4> QED
                BY <4>1, <2>2
        <3>5. \E h \in GroupsOf(k) : -Deficit(k, x) < 100 * Cardinality(h)
            BY <3>2, <3>4, <1>12 DEF SplitsInv, NearTheTarget
        <3> QED
            BY <3>3, <3>5, <1>8
    <2> QED
        BY <2>3, <2>4
<1>13. NearTheTarget'
    BY <1>12 DEF NearTheTarget
<1>14. \A p \in links' \ unread' : Find(p[1])' = Find(p[2])'
    BY <1>3, <1>5 DEF SplitsInv
<1> QED
    BY <1>3, <1>6, <1>9, <1>10, <1>13, <1>14 DEF SplitsInv

LEMMA SplitsStep == SplitsInv /\ [SplitsNext]_splitsVars => SplitsInv'
<1> SUFFICES ASSUME SplitsInv, [SplitsNext]_splitsVars PROVE SplitsInv'
    OBVIOUS
<1>1. CASE UNCHANGED splitsVars
    <2>1. UNCHANGED <<links, recordLanguage, parent, unread, placed>>
        BY <1>1 DEF splitsVars
    <2>2. \A r : Find(r)' = Find(r)
        BY <2>1 DEF Find
    <2>3. Groups' = Groups /\ \A h : LanguageOf(h)' = LanguageOf(h)
        BY <2>1, <2>2 DEF Groups, LanguageOf
    <2>4. \A k : GroupsOf(k)' = GroupsOf(k)
        BY <2>3 DEF GroupsOf
    <2>5. \A k, x : Count(k, x)' = Count(k, x) /\ Deficit(k, x)' = Deficit(k, x)
        BY <2>1, <2>4 DEF Count, Deficit, SplitTotal, Percent
    <2>6. NearTheTarget'
        BY <2>1, <2>4, <2>5 DEF SplitsInv, NearTheTarget
    <2> QED
        BY <2>1, <2>2, <2>6 DEF SplitsInv, Forest, Roots, Falls, Leads
<1> QED
    BY <1>1, UniteKeeps, PlaceKeeps DEF SplitsNext

LEMMA SplitsAreFair == SplitsInv => SplitIsFair
<1> SUFFICES ASSUME SplitsInv, \A r \in SplitRecords : placed[r] # "none", NEW p \in links
             PROVE  placed[p[1]] = placed[p[2]]
    BY DEF SplitsInv, SplitIsFair, NoLeak
<1>1. p[1] \in SplitRecords /\ p[2] \in SplitRecords
    BY DEF SplitsInv, Pairs
<1>2. unread = {}
    BY <1>1 DEF SplitsInv
<1> QED
    BY <1>1, <1>2 DEF SplitsInv

-----------------------------------------------------------------------------
(***************************************************************************)
(* What a model is judged by.                                              *)
(***************************************************************************)
\* SplitsInv and SuitesInv hold in every behaviour of the scripts.
THEOREM JudgesCorrect == WorkSpec => [](SplitsInv /\ SuitesInv)
<1>1. WorkInit => SplitsInv /\ SuitesInv
    BY PartsBegin, SplitsBegin, SuitesBegin
<1>2. (SplitsInv /\ SuitesInv) /\ [WorkNext]_workVars => (SplitsInv /\ SuitesInv)'
    BY PartsStep, SplitsStep, SuitesStep
<1> QED
    BY <1>1, <1>2, PTL DEF WorkSpec

(* For any number of records, relations and languages, whatever order the  *)
(* pairs are united and the groups placed in: no relation crosses a split, *)
(* and no set exceeds its share by more than one group (leakage_groups,    *)
(* split_id_groups); and whatever is edited in the store between the       *)
(* freeze and the suites, V0.2 and V0.1 are compared on exactly the        *)
(* records V0.1 never saw (build_manifests).                               *)
THEOREM JudgesAreFair == WorkSpec => []JudgedOnUnseen
<1>1. SplitsInv /\ SuitesInv => JudgedOnUnseen
    BY SplitsAreFair, SuitesAreFair DEF JudgedOnUnseen
<1> QED
    BY <1>1, JudgesCorrect, PTL

-----------------------------------------------------------------------------
(***************************************************************************)
(* The release. A build that is trained while a command runs is newer than *)
(* every checksum there is: so what an upload puts on the Hub is of the    *)
(* record it began with, or will not match.                                *)
(***************************************************************************)
TwoFiles == [weights : Nat, config : Nat]
ReleaseRecords == [weights : Nat, uploaded : BOOLEAN]
JobOf(kind, steps, read) == [kind : {kind}, release : Releases, steps : steps, read : read]
PrepareJobs == JobOf("prepare", 1 .. 3, Nat)
UploadsBegun == JobOf("upload", {4}, ReleaseRecords)
Staged == [manifest : ReleaseRecords, files : TwoFiles]
UploadsStaged == JobOf("upload", 1 .. 3, Staged)
Restores == [files : TwoFiles, to : Releases]
FetchJobs == JobOf("fetch", 1 .. 2, Restores)
Approvals == [weights : Nat, prompt : Prompts]
FinalizeJobs == JobOf("finalize", 1 .. 2, Approvals)
Dotenvs == [release : Releases \cup {Unset}, sha : Nat, prompt : Prompts]
ReleaseJobs == {AtRest} \cup PrepareJobs \cup UploadsBegun \cup UploadsStaged \cup FetchJobs \cup FinalizeJobs

ReleaseTypeOK ==
    /\ builds \in Nat
    /\ dir \in [Releases -> TwoFiles] /\ checksums \in [Releases -> TwoFiles]
    /\ releaseManifest \in [Releases -> ReleaseRecords]
    /\ hub \in [Releases -> [folder : TwoFiles, tag : TwoFiles]]
    /\ dotenv \in Dotenvs
    /\ job \in ReleaseJobs

NothingNewer == \A r \in Releases : dir[r].weights <= builds /\ checksums[r].weights <= builds

\* What an upload carries is of the record it began with, or newer than the checksums.
OfRecord(weights, record) == weights = record.weights \/ weights > checksums[job.release].weights
UploadInv ==
    /\ job \in UploadsBegun =>
        /\ OfRecord(dir[job.release].weights, job.read)
        /\ hub[job.release].folder = NoFiles /\ hub[job.release].tag = NoFiles
    /\ job \in UploadsStaged =>
        /\ job.steps = 3 => /\ OfRecord(job.read.files.weights, job.read.manifest)
                            /\ hub[job.release].folder = NoFiles /\ hub[job.release].tag = NoFiles
        /\ job.steps = 2 => OfRecord(hub[job.release].folder.weights, job.read.manifest) /\ hub[job.release].tag = NoFiles
        /\ job.steps = 1 => OfRecord(hub[job.release].tag.weights, job.read.manifest)
FetchInv == job \in FetchJobs => job.read.files = checksums[job.release]

\* A checksum that the owner approved, or that .env.example names.
Cleared(weights) == weights # 0 /\ (weights = PinnedBuild \/ \E a \in approved : a.weights = weights)
LaunchInv ==
    /\ job \in FinalizeJobs => Cleared(job.read.weights)
    /\ dotenv.release # Unset => Cleared(dotenv.sha)
    /\ LaunchedIsApproved

ReleaseInv == ReleaseTypeOK /\ NothingNewer /\ UploadInv /\ FetchInv /\ LaunchInv

\* A job is of one kind, and the step it is at tells the uploads apart.
LEMMA RestIsNoJob == \A kind, steps, read : AtRest \notin JobOf(kind, steps, read)
<1> TAKE kind, steps, read
<1>1. ASSUME NEW j \in JobOf(kind, steps, read) PROVE "kind" \in DOMAIN j
    BY <1>1 DEF JobOf
<1>2. "kind" \notin DOMAIN AtRest
    BY DEF AtRest
<1> QED
    BY <1>1, <1>2

LEMMA JobParts ==
    ASSUME NEW kind, NEW steps, NEW read, NEW j \in JobOf(kind, steps, read)
    PROVE  j.kind = kind /\ j.release \in Releases /\ j.steps \in steps /\ j.read \in read
    BY DEF JobOf

LEMMA JobMade ==
    ASSUME NEW kind, NEW r \in Releases, NEW steps, NEW n \in steps, NEW reads, NEW read \in reads
    PROVE  [kind |-> kind, release |-> r, steps |-> n, read |-> read] \in JobOf(kind, steps, reads)
    BY DEF JobOf

LEMMA KindsOfJobs ==
    ASSUME NEW j
    PROVE  /\ j \in PrepareJobs => j.kind = "prepare" /\ j.release \in Releases /\ j.steps \in 1 .. 3
           /\ j \in UploadsBegun => j.kind = "upload" /\ j.release \in Releases /\ j.steps = 4
           /\ j \in UploadsStaged => j.kind = "upload" /\ j.release \in Releases /\ j.steps \in 1 .. 3
           /\ j \in FetchJobs => j.kind = "fetch" /\ j.release \in Releases /\ j.steps \in 1 .. 2
           /\ j \in FinalizeJobs => j.kind = "finalize" /\ j.release \in Releases /\ j.steps \in 1 .. 2
<1>1. j \in PrepareJobs => j.kind = "prepare" /\ j.release \in Releases /\ j.steps \in 1 .. 3
    BY JobParts DEF PrepareJobs
<1>2. j \in UploadsBegun => j.kind = "upload" /\ j.release \in Releases /\ j.steps = 4
    BY JobParts DEF UploadsBegun
<1>3. j \in UploadsStaged => j.kind = "upload" /\ j.release \in Releases /\ j.steps \in 1 .. 3
    BY JobParts DEF UploadsStaged
<1>4. j \in FetchJobs => j.kind = "fetch" /\ j.release \in Releases /\ j.steps \in 1 .. 2
    BY JobParts DEF FetchJobs
<1>5. j \in FinalizeJobs => j.kind = "finalize" /\ j.release \in Releases /\ j.steps \in 1 .. 2
    BY JobParts DEF FinalizeJobs
<1> QED
    BY <1>1, <1>2, <1>3, <1>4, <1>5

LEMMA KindsApart ==
    ASSUME NEW j
    PROVE  /\ j \in {AtRest} \cup PrepareJobs \cup FetchJobs \cup FinalizeJobs => j \notin UploadsBegun /\ j \notin UploadsStaged
           /\ j \in {AtRest} \cup PrepareJobs \cup UploadsBegun \cup UploadsStaged \cup FinalizeJobs => j \notin FetchJobs
           /\ j \in {AtRest} \cup PrepareJobs \cup UploadsBegun \cup UploadsStaged \cup FetchJobs => j \notin FinalizeJobs
           /\ j \in UploadsBegun => j \notin UploadsStaged
<1>1. AtRest \notin UploadsBegun /\ AtRest \notin UploadsStaged /\ AtRest \notin FetchJobs /\ AtRest \notin FinalizeJobs
    BY RestIsNoJob DEF UploadsBegun, UploadsStaged, FetchJobs, FinalizeJobs
<1> QED
    BY <1>1, KindsOfJobs

\* What a job that is under way reads of itself.
LEMMA JobKinds ==
    ASSUME job \in ReleaseJobs, job # AtRest
    PROVE  /\ job.release \in Releases /\ job.steps \in 1 .. 4
           /\ job.kind = "prepare" => job \in PrepareJobs
           /\ job.kind = "upload" /\ job.steps = 4 => job \in UploadsBegun
           /\ job.kind = "upload" /\ job.steps # 4 => job \in UploadsStaged
           /\ job.kind = "fetch" => job \in FetchJobs
           /\ job.kind = "finalize" => job \in FinalizeJobs
<1>1. PICK j : j = job
    OBVIOUS
<1>2. j \in PrepareJobs \cup UploadsBegun \cup UploadsStaged \cup FetchJobs \cup FinalizeJobs
    BY <1>1 DEF ReleaseJobs
<1> QED
    BY <1>1, <1>2, KindsOfJobs

LEMMA ReleaseBegin == ReleaseInit => ReleaseInv
<1> SUFFICES ASSUME ReleaseInit PROVE ReleaseInv
    OBVIOUS
<1>1. AtRest \notin UploadsBegun /\ AtRest \notin UploadsStaged /\ AtRest \notin FetchJobs /\ AtRest \notin FinalizeJobs
    BY RestIsNoJob DEF UploadsBegun, UploadsStaged, FetchJobs, FinalizeJobs
<1>2. NoFiles \in TwoFiles /\ NoFiles.weights = 0
    BY DEF NoFiles, TwoFiles
<1>3. ReleaseTypeOK
    BY <1>2 DEF ReleaseInit, ReleaseTypeOK, ReleaseRecords, ReleaseJobs, Dotenvs, Prompts
<1>4. NothingNewer
    <2>1. \A r \in Releases : dir[r] = NoFiles /\ checksums[r] = NoFiles
        BY DEF ReleaseInit
    <2>2. builds = 0
        BY DEF ReleaseInit
    <2> QED
        BY <1>2, <2>1, <2>2 DEF NothingNewer
<1>5. UploadInv /\ FetchInv /\ LaunchInv
    BY <1>1 DEF ReleaseInit, UploadInv, FetchInv, LaunchInv, LaunchedIsApproved
<1> QED
    BY <1>3, <1>4, <1>5 DEF ReleaseInv

\* A command that goes on: its next step is of the same job.
LEMMA JobGoesOn ==
    ASSUME NEW kind, NEW n \in 1 .. 4, NEW read, NEW top \in 1 .. 4,
           job \in JobOf(kind, 1 .. top, read), job.steps = n, Done
    PROVE  /\ n = 1 => job' = AtRest
           /\ n # 1 => /\ job' \in JobOf(kind, 1 .. top, read) /\ job'.steps = n - 1
                       /\ job'.kind = job.kind /\ job'.release = job.release /\ job'.read = job.read
    BY DEF JobOf, Done

\* What the model of a step leaves alone, it leaves alone.
LEMMA QuietRelease ==
    ASSUME ReleaseInv, UNCHANGED <<dir, builds, releaseManifest, checksums, hub, dotenv, job, launched>>, approved \subseteq approved'
    PROVE  ReleaseInv'
<1>1. ReleaseTypeOK'
    BY DEF ReleaseInv, ReleaseTypeOK
<1>2. NothingNewer'
    BY DEF ReleaseInv, NothingNewer
<1>3. UploadInv' /\ FetchInv'
    BY DEF ReleaseInv, UploadInv, FetchInv, OfRecord
<1>4. LaunchInv'
    BY DEF ReleaseInv, LaunchInv, Cleared, LaunchedIsApproved
<1> QED
    BY <1>1, <1>2, <1>3, <1>4 DEF ReleaseInv

\* The parts that speak of the job alone: a job of another kind has nothing to say of an upload.
LEMMA NoUpload ==
    ASSUME job' \in {AtRest} \cup PrepareJobs \cup FetchJobs \cup FinalizeJobs
    PROVE  UploadInv'
    BY KindsApart DEF UploadInv

LEMMA NoFetch ==
    ASSUME job' \in {AtRest} \cup PrepareJobs \cup UploadsBegun \cup UploadsStaged \cup FinalizeJobs
    PROVE  FetchInv'
    BY KindsApart DEF FetchInv

LEMMA NoApproval ==
    ASSUME LaunchInv, UNCHANGED <<dotenv, approved, launched>>,
           job' \in {AtRest} \cup PrepareJobs \cup UploadsBegun \cup UploadsStaged \cup FetchJobs
    PROVE  LaunchInv'
<1>1. job' \notin FinalizeJobs
    BY KindsApart
<1> QED
    BY <1>1 DEF LaunchInv, Cleared, LaunchedIsApproved

-----------------------------------------------------------------------------
LEMMA TrainKeeps == ASSUME ReleaseInv, NEW r \in Releases, Train(r) PROVE ReleaseInv'
<1>1. /\ builds' = builds + 1 /\ builds \in Nat
      /\ dir' = [dir EXCEPT ![r] = [weights |-> builds', config |-> builds']]
      /\ UNCHANGED <<releaseManifest, checksums, hub, job, dotenv, approved, launched>>
    BY DEF Train, ReleaseInv, ReleaseTypeOK, RecordUnchanged, ServingUnchanged
<1>2. ReleaseTypeOK'
    <2>1. PICK newest \in Nat : newest = builds'
        BY <1>1
    <2>2. PICK trained \in TwoFiles : trained = [weights |-> newest, config |-> newest]
        BY DEF TwoFiles
    <2>3. dir' = [dir EXCEPT ![r] = trained]
        BY <1>1, <2>1, <2>2
    <2>4. dir' \in [Releases -> TwoFiles]
        BY <2>3 DEF ReleaseInv, ReleaseTypeOK
    <2> QED
        BY <1>1, <2>1, <2>4 DEF ReleaseInv, ReleaseTypeOK
<1>3. \A x \in Releases : /\ dir[x].weights \in Nat /\ checksums[x].weights \in Nat
                          /\ dir[x].weights <= builds /\ checksums[x].weights <= builds
                         /\ dir'[x].weights = IF x = r THEN builds + 1 ELSE dir[x].weights
    BY <1>1 DEF ReleaseInv, ReleaseTypeOK, TwoFiles, NothingNewer
<1>4. NothingNewer'
    BY <1>1, <1>3 DEF NothingNewer
<1>5. UploadInv'
    <2>1. ASSUME job \in UploadsBegun PROVE OfRecord(dir'[job.release].weights, job.read)
        <3>1. job.release \in Releases /\ OfRecord(dir[job.release].weights, job.read)
            BY <2>1, KindsOfJobs DEF ReleaseInv, UploadInv
        <3> QED
            BY <3>1, <1>1, <1>3 DEF OfRecord
    <2> QED
        BY <1>1, <2>1 DEF ReleaseInv, UploadInv, OfRecord
<1>6. FetchInv'
    BY <1>1 DEF ReleaseInv, FetchInv
<1>7. LaunchInv'
    BY <1>1 DEF ReleaseInv, LaunchInv, Cleared, LaunchedIsApproved
<1> QED
    BY <1>2, <1>4, <1>5, <1>6, <1>7 DEF ReleaseInv

LEMMA PrepareKeeps == ASSUME ReleaseInv, NEW r \in Releases, Prepare(r) PROVE ReleaseInv'
<1>1. /\ UNCHANGED <<dir, builds, hub, releaseManifest, checksums, dotenv, approved, launched>>
      /\ job' = [kind |-> "prepare", release |-> r, steps |-> 3, read |-> dir[r].weights]
    BY DEF Prepare, RecordUnchanged, ServingUnchanged, BeginScript, Steps
<1>2. job' \in PrepareJobs
    <2>1. dir[r].weights \in Nat
        BY DEF ReleaseInv, ReleaseTypeOK, TwoFiles
    <2> QED
        BY <1>1, <2>1 DEF PrepareJobs, JobOf
<1> QED
    BY <1>1, <1>2, NoUpload, NoFetch, NoApproval DEF ReleaseInv, ReleaseTypeOK, NothingNewer, ReleaseJobs

LEMMA UploadKeeps == ASSUME ReleaseInv, NEW r \in Releases, Upload(r) PROVE ReleaseInv'
<1>1. /\ UNCHANGED <<dir, builds, hub, releaseManifest, checksums, dotenv, approved, launched>>
      /\ job' = [kind |-> "upload", release |-> r, steps |-> 4, read |-> releaseManifest[r]]
      /\ dir[r].weights = releaseManifest[r].weights /\ hub[r].folder = NoFiles /\ hub[r].tag = NoFiles
    BY DEF Upload, MayUpload, MayUploadUntagged, RecordUnchanged, ServingUnchanged, BeginScript, Steps
<1>2. job' \in UploadsBegun /\ job'.release = r /\ job'.read = releaseManifest[r]
    BY <1>1 DEF UploadsBegun, JobOf, ReleaseInv, ReleaseTypeOK
<1>3. UploadInv'
    <2>1. job' \notin UploadsStaged
        BY <1>2, KindsApart
    <2> QED
        BY <1>1, <1>2, <2>1 DEF UploadInv, OfRecord
<1> QED
    BY <1>1, <1>2, <1>3, NoFetch, NoApproval DEF ReleaseInv, ReleaseTypeOK, NothingNewer, ReleaseJobs

LEMMA FetchKeeps == ASSUME ReleaseInv, NEW r \in Releases, NEW source \in TwoFiles, Fetch(r, source) PROVE ReleaseInv'
<1>1. UNCHANGED <<dir, builds, hub, releaseManifest, checksums, dotenv, approved, launched>>
    BY DEF Fetch, RecordUnchanged, ServingUnchanged
<1>2. CASE Matches(source, r)
    <2>1. PICK to \in Releases : to = Destination(r)
        BY DEF Destination, Dotenvs, ReleaseInv, ReleaseTypeOK
    <2>2. PICK read \in Restores : read = [files |-> source, to |-> to]
        BY DEF Restores
    <2>3. job' = [kind |-> "fetch", release |-> r, steps |-> 2, read |-> read]
        BY <1>2, <2>1, <2>2 DEF Fetch, BeginScript, Steps
    <2>4. job' \in FetchJobs /\ job'.release = r /\ job'.read.files = source
        BY <2>2, <2>3 DEF FetchJobs, JobOf
    <2>5. FetchInv'
        BY <1>1, <1>2, <2>4 DEF FetchInv, Matches
    <2> QED
        BY <1>1, <2>4, <2>5, NoUpload, NoApproval DEF ReleaseInv, ReleaseTypeOK, NothingNewer, ReleaseJobs
<1>3. CASE ~Matches(source, r)
    BY <1>1, <1>3, QuietRelease DEF Fetch
<1> QED
    BY <1>2, <1>3

LEMMA FinalizeKeeps ==
    ASSUME ReleaseInv, NEW r \in Releases, NEW weights \in Nat, NEW prompt \in Prompts, Finalize(r, weights, prompt)
    PROVE  ReleaseInv'
<1>1. /\ UNCHANGED <<dir, builds, hub, releaseManifest, checksums, dotenv, launched>>
      /\ approved' = approved \cup {[release |-> r, weights |-> weights, prompt |-> prompt]}
      /\ weights # 0
    BY DEF Finalize, RecordUnchanged, AdapterValid
<1>2. PICK read \in Approvals : read = [weights |-> weights, prompt |-> prompt]
    BY DEF Approvals
<1>3. job' = [kind |-> "finalize", release |-> r, steps |-> 2, read |-> read] /\ read.weights = weights
    BY <1>2 DEF Finalize, BeginScript, Steps
<1>4. job' \in FinalizeJobs /\ job'.read.weights = weights
    <2>1. job'.read = read
        BY <1>3
    <2>2. job' \in JobOf("finalize", 1 .. 2, Approvals)
        <3>1. 2 \in 1 .. 2
            OBVIOUS
        <3> QED
            BY <1>2, <1>3, <3>1, JobMade
    <2> QED
        BY <1>3, <2>1, <2>2 DEF FinalizeJobs
<1>5. Cleared(weights)' /\ \A w : Cleared(w) => Cleared(w)'
    <2>1. PICK a : a = [release |-> r, weights |-> weights, prompt |-> prompt]
        OBVIOUS
    <2>2. a \in approved' /\ a.weights = weights /\ approved \subseteq approved'
        BY <1>1, <2>1
    <2> QED
        BY <1>1, <2>1, <2>2 DEF Cleared
<1>6. LaunchInv'
    BY <1>1, <1>4, <1>5 DEF ReleaseInv, LaunchInv, LaunchedIsApproved
<1> QED
    BY <1>1, <1>4, <1>6, NoUpload, NoFetch DEF ReleaseInv, ReleaseTypeOK, NothingNewer, ReleaseJobs

LEMMA LaunchKeeps == ASSUME ReleaseInv, Launch PROVE ReleaseInv'
<1>1. /\ UNCHANGED <<dir, builds, hub, releaseManifest, checksums, dotenv, approved, job>>
      /\ dotenv.release # Unset /\ dir[dotenv.release].weights # 0 /\ dotenv.sha \in {0, dir[dotenv.release].weights}
    BY DEF Launch, Check, CheckUnpinned, AdapterValid, RecordUnchanged
<1>2. launched'.weights = dir[dotenv.release].weights
    BY DEF Launch
<1>3. Cleared(dotenv.sha)
    BY <1>1 DEF ReleaseInv, LaunchInv
<1>4. launched'.weights = dotenv.sha
    BY <1>1, <1>2, <1>3 DEF Cleared
<1>5. LaunchedIsApproved'
    BY <1>1, <1>3, <1>4 DEF Cleared, LaunchedIsApproved
<1>6. LaunchInv'
    BY <1>1, <1>5 DEF ReleaseInv, LaunchInv, Cleared
<1> QED
    BY <1>1, <1>6 DEF ReleaseInv, ReleaseTypeOK, NothingNewer, UploadInv, FetchInv, OfRecord

LEMMA DieKeeps == ASSUME ReleaseInv, Die PROVE ReleaseInv'
<1>1. job' = AtRest /\ UNCHANGED <<dir, builds, hub, releaseManifest, checksums, dotenv, approved, launched>>
    BY DEF Die, RecordUnchanged, ServingUnchanged
<1> QED
    BY <1>1, NoUpload, NoFetch, NoApproval DEF ReleaseInv, ReleaseTypeOK, NothingNewer, ReleaseJobs

-----------------------------------------------------------------------------
LEMMA PrepareGoesOn ==
    ASSUME ReleaseInv, NEW n \in 1 .. 3, At("prepare", n), Done
    PROVE  job \in PrepareJobs /\ job.release \in Releases /\ job.read \in Nat /\ job' \in {AtRest} \cup PrepareJobs
<1>1. job \in PrepareJobs /\ job.steps = n
    BY JobKinds DEF At, ReleaseInv, ReleaseTypeOK
<1>2. job.read \in Nat /\ job.release \in Releases
    BY <1>1, JobParts DEF PrepareJobs
<1>3. n = 1 => job' = AtRest
    BY <1>1, JobGoesOn DEF PrepareJobs
<1>4. n # 1 => job' \in PrepareJobs
    BY <1>1, JobGoesOn DEF PrepareJobs
<1> QED
    BY <1>1, <1>2, <1>3, <1>4

LEMMA WriteRecordKeeps == ASSUME ReleaseInv, WriteRecord PROVE ReleaseInv'
<1>1. /\ releaseManifest' = [releaseManifest EXCEPT ![job.release].weights = Manifest(job.release)]
      /\ UNCHANGED <<dir, builds, hub, checksums, dotenv, approved, launched>>
    BY DEF WriteRecord, ServingUnchanged
<1>2. job.release \in Releases /\ job.read \in Nat /\ job' \in {AtRest} \cup PrepareJobs
    BY PrepareGoesOn DEF WriteRecord
<1>3. Manifest(job.release) \in Nat
    BY <1>2 DEF Manifest, PinnedManifest, ReleaseInv, ReleaseTypeOK, TwoFiles
<1>4. releaseManifest' \in [Releases -> ReleaseRecords]
    BY <1>1, <1>3 DEF ReleaseInv, ReleaseTypeOK, ReleaseRecords
<1> QED
    BY <1>1, <1>2, <1>4, NoUpload, NoFetch, NoApproval DEF ReleaseInv, ReleaseTypeOK, NothingNewer, ReleaseJobs

LEMMA WriteChecksumsKeeps == ASSUME ReleaseInv, WriteChecksums PROVE ReleaseInv'
<1>1. /\ checksums' = [checksums EXCEPT ![job.release] = dir[job.release]]
      /\ UNCHANGED <<dir, builds, hub, releaseManifest, dotenv, approved, launched>>
    BY DEF WriteChecksums, ServingUnchanged
<1>2. job.release \in Releases /\ job' \in {AtRest} \cup PrepareJobs
    BY PrepareGoesOn DEF WriteChecksums
<1>3. checksums' \in [Releases -> TwoFiles] /\ NothingNewer'
    BY <1>1, <1>2 DEF ReleaseInv, ReleaseTypeOK, NothingNewer
<1> QED
    BY <1>1, <1>2, <1>3, NoUpload, NoFetch, NoApproval DEF ReleaseInv, ReleaseTypeOK, ReleaseJobs

LEMMA WriteCardKeeps == ASSUME ReleaseInv, WriteCard PROVE ReleaseInv'
<1>1. UNCHANGED <<dir, builds, hub, checksums, releaseManifest, dotenv, approved, launched>>
    BY DEF WriteCard, ServingUnchanged
<1>2. job' \in {AtRest} \cup PrepareJobs
    BY PrepareGoesOn DEF WriteCard
<1> QED
    BY <1>1, <1>2, NoUpload, NoFetch, NoApproval DEF ReleaseInv, ReleaseTypeOK, NothingNewer, ReleaseJobs

-----------------------------------------------------------------------------
LEMMA StageKeeps == ASSUME ReleaseInv, Stage PROVE ReleaseInv'
<1>1. UNCHANGED <<dir, builds, hub, checksums, releaseManifest, dotenv, approved, launched>>
    BY DEF Stage, RecordUnchanged, ServingUnchanged
<1>2. job \in UploadsBegun /\ job.release \in Releases
    BY JobKinds DEF Stage, At, ReleaseInv, ReleaseTypeOK
<1>3. job.read \in ReleaseRecords /\ dir[job.release] \in TwoFiles
    <2>1. job.read \in ReleaseRecords
        BY <1>2, JobParts DEF UploadsBegun
    <2> QED
        BY <1>2, <2>1 DEF ReleaseInv, ReleaseTypeOK
<1>4. CASE job.release \in card
    <2>1. PICK read \in Staged : read = [manifest |-> job.read, files |-> dir[job.release]]
        BY <1>3 DEF Staged
    <2>2. job' = [job EXCEPT !.steps = 3, !.read = read]
        BY <1>4, <2>1 DEF Stage
    <2>3. job' \in UploadsStaged /\ job'.steps = 3 /\ job'.release = job.release /\ job'.read = read
        <3>1. job \in JobOf("upload", {4}, ReleaseRecords)
            BY <1>2 DEF UploadsBegun
        <3>2. job' = [kind |-> "upload", release |-> job.release, steps |-> 3, read |-> read]
            BY <2>2, <3>1 DEF JobOf
        <3>3. job' \in JobOf("upload", 1 .. 3, Staged)
            BY <1>2, <2>1, <3>2 DEF JobOf
        <3> QED
            BY <3>2, <3>3 DEF UploadsStaged
    <2>4. read.manifest = job.read /\ read.files = dir[job.release]
        BY <2>1
    <2>5. /\ OfRecord(dir[job.release].weights, job.read)
          /\ hub[job.release].folder = NoFiles /\ hub[job.release].tag = NoFiles
        BY <1>2 DEF ReleaseInv, UploadInv
    <2>6. UploadInv'
        <3>1. job' \notin UploadsBegun
            BY <2>3, KindsApart
        <3> QED
            BY <1>1, <2>3, <2>4, <2>5, <3>1 DEF UploadInv, OfRecord
    <2> QED
        BY <1>1, <2>3, <2>6, NoFetch, NoApproval DEF ReleaseInv, ReleaseTypeOK, NothingNewer, ReleaseJobs
<1>5. CASE job.release \notin card
    <2>1. job' = AtRest
        BY <1>5 DEF Stage
    <2> QED
        BY <1>1, <2>1, NoUpload, NoFetch, NoApproval DEF ReleaseInv, ReleaseTypeOK, NothingNewer, ReleaseJobs
<1> QED
    BY <1>4, <1>5

LEMMA UploadGoesOn ==
    ASSUME ReleaseInv, NEW n \in 1 .. 3, At("upload", n), Done
    PROVE  /\ job \in UploadsStaged /\ job.release \in Releases /\ job.steps = n
           /\ job.read.manifest \in ReleaseRecords /\ job.read.files \in TwoFiles
           /\ n = 1 => job' = AtRest
           /\ n # 1 => job' \in UploadsStaged /\ job'.steps = n - 1 /\ job'.release = job.release /\ job'.read = job.read
<1>1. job \in UploadsStaged /\ job.steps = n
    <2>1. job \in ReleaseJobs /\ job # AtRest /\ job.kind = "upload" /\ job.steps = n
        BY DEF At, ReleaseInv, ReleaseTypeOK
    <2>2. n # 4
        OBVIOUS
    <2> QED
        BY <2>1, <2>2, JobKinds
<1>2. job.release \in Releases /\ job.read.manifest \in ReleaseRecords /\ job.read.files \in TwoFiles
    <2>1. job.release \in Releases /\ job.read \in Staged
        BY <1>1, JobParts DEF UploadsStaged
    <2> QED
        BY <2>1 DEF Staged
<1>3. n = 1 => job' = AtRest
    BY <1>1, JobGoesOn DEF UploadsStaged
<1>4. n # 1 => job' \in UploadsStaged /\ job'.steps = n - 1 /\ job'.release = job.release /\ job'.read = job.read
    BY <1>1, JobGoesOn DEF UploadsStaged
<1> QED
    BY <1>1, <1>2, <1>3, <1>4

LEMMA UploadFolderKeeps == ASSUME ReleaseInv, UploadFolder PROVE ReleaseInv'
<1>1. /\ hub' = [hub EXCEPT ![job.release].folder = job.read.files]
      /\ UNCHANGED <<dir, builds, checksums, releaseManifest, dotenv, approved, launched>>
    BY DEF UploadFolder, RecordUnchanged, ServingUnchanged
<1>2. /\ job \in UploadsStaged /\ job.release \in Releases /\ job.steps = 3 /\ job.read.files \in TwoFiles
      /\ job' \in UploadsStaged /\ job'.steps = 2 /\ job'.release = job.release /\ job'.read = job.read
    BY UploadGoesOn DEF UploadFolder
<1>3. OfRecord(job.read.files.weights, job.read.manifest) /\ hub[job.release].tag = NoFiles
    BY <1>2 DEF ReleaseInv, UploadInv
<1>4. hub' \in [Releases -> [folder : TwoFiles, tag : TwoFiles]] /\ hub'[job.release].folder = job.read.files /\ hub'[job.release].tag = NoFiles
    BY <1>1, <1>2, <1>3 DEF ReleaseInv, ReleaseTypeOK
<1>5. UploadInv'
    <2>1. job' \notin UploadsBegun
        BY <1>2, KindsApart
    <2> QED
        BY <1>1, <1>2, <1>3, <1>4, <2>1 DEF UploadInv, OfRecord
<1> QED
    BY <1>1, <1>2, <1>4, <1>5, NoFetch, NoApproval DEF ReleaseInv, ReleaseTypeOK, NothingNewer, ReleaseJobs

LEMMA CreateTagKeeps == ASSUME ReleaseInv, CreateTag PROVE ReleaseInv'
<1>1. /\ hub' = [hub EXCEPT ![job.release].tag = hub[job.release].folder]
      /\ UNCHANGED <<dir, builds, checksums, releaseManifest, dotenv, approved, launched>>
    BY DEF CreateTag, RecordUnchanged, ServingUnchanged
<1>2. /\ job \in UploadsStaged /\ job.release \in Releases /\ job.steps = 2
      /\ job' \in UploadsStaged /\ job'.steps = 1 /\ job'.release = job.release /\ job'.read = job.read
    BY UploadGoesOn DEF CreateTag
<1>3. OfRecord(hub[job.release].folder.weights, job.read.manifest)
    BY <1>2 DEF ReleaseInv, UploadInv
<1>4. hub' \in [Releases -> [folder : TwoFiles, tag : TwoFiles]] /\ hub'[job.release].tag = hub[job.release].folder
    BY <1>1, <1>2 DEF ReleaseInv, ReleaseTypeOK
<1>5. UploadInv'
    <2>1. job' \notin UploadsBegun
        BY <1>2, KindsApart
    <2> QED
        BY <1>1, <1>2, <1>3, <1>4, <2>1 DEF UploadInv, OfRecord
<1> QED
    BY <1>1, <1>2, <1>4, <1>5, NoFetch, NoApproval DEF ReleaseInv, ReleaseTypeOK, NothingNewer, ReleaseJobs

LEMMA MarkUploadedKeeps == ASSUME ReleaseInv, MarkUploaded PROVE ReleaseInv'
<1>1. UNCHANGED <<dir, builds, hub, checksums, dotenv, approved, launched>>
    BY DEF MarkUploaded, ServingUnchanged
<1>2. job.release \in Releases /\ job.read.manifest \in ReleaseRecords /\ job' = AtRest
    BY UploadGoesOn DEF MarkUploaded
<1>3. PICK marked \in ReleaseRecords : marked = [job.read.manifest EXCEPT !.uploaded = TRUE]
    BY <1>2 DEF ReleaseRecords
<1>4. releaseManifest' = releaseManifest \/ releaseManifest' = [releaseManifest EXCEPT ![job.release] = marked]
    BY <1>3 DEF MarkUploaded
<1>5. releaseManifest' \in [Releases -> ReleaseRecords]
    BY <1>4 DEF ReleaseInv, ReleaseTypeOK
<1> QED
    BY <1>1, <1>2, <1>5, NoUpload, NoFetch, NoApproval DEF ReleaseInv, ReleaseTypeOK, NothingNewer, ReleaseJobs

-----------------------------------------------------------------------------
LEMMA FetchGoesOn ==
    ASSUME ReleaseInv, NEW n \in 1 .. 2, At("fetch", n), Done
    PROVE  /\ job \in FetchJobs /\ job.release \in Releases /\ job.read.to \in Releases /\ job.read.files \in TwoFiles
           /\ job.read.files = checksums[job.release]
           /\ job' = AtRest \/ (job' \in FetchJobs /\ job'.release = job.release /\ job'.read = job.read)
<1>1. job \in FetchJobs /\ job.steps = n
    BY JobKinds DEF At, ReleaseInv, ReleaseTypeOK
<1>2. job.release \in Releases /\ job.read.to \in Releases /\ job.read.files \in TwoFiles
    <2>1. job.release \in Releases /\ job.read \in Restores
        BY <1>1, JobParts DEF FetchJobs
    <2> QED
        BY <2>1 DEF Restores
<1>3. n = 1 => job' = AtRest
    BY <1>1, JobGoesOn DEF FetchJobs
<1>4. n # 1 => job' \in FetchJobs /\ job'.release = job.release /\ job'.read = job.read
    BY <1>1, JobGoesOn DEF FetchJobs
<1> QED
    BY <1>1, <1>2, <1>3, <1>4 DEF ReleaseInv, FetchInv

LEMMA InstallKeeps == ASSUME ReleaseInv, InstallConfig \/ InstallWeights PROVE ReleaseInv'
<1>1. /\ \/ dir' = [dir EXCEPT ![job.read.to].config = job.read.files.config]
         \/ dir' = [dir EXCEPT ![job.read.to].weights = job.read.files.weights]
      /\ UNCHANGED <<builds, hub, releaseManifest, checksums, dotenv, approved, launched>>
    BY DEF InstallConfig, InstallWeights, RecordUnchanged, ServingUnchanged
<1>2. /\ job.release \in Releases /\ job.read.to \in Releases /\ job.read.files \in TwoFiles
      /\ job.read.files = checksums[job.release]
      /\ job' = AtRest \/ (job' \in FetchJobs /\ job'.release = job.release /\ job'.read = job.read)
    BY FetchGoesOn DEF InstallConfig, InstallWeights
<1>3. PICK w, c : w = job.read.files.weights /\ c = job.read.files.config
    OBVIOUS
<1>4. w \in Nat /\ c \in Nat /\ dir \in [Releases -> TwoFiles]
    BY <1>2, <1>3 DEF TwoFiles, ReleaseInv, ReleaseTypeOK
<1>5. dir' \in [Releases -> TwoFiles] /\ \A r \in Releases : dir'[r].weights = dir[r].weights \/ dir'[r].weights = w
    <2>1. CASE dir' = [dir EXCEPT ![job.read.to].config = c]
        BY <1>2, <1>4, <2>1 DEF TwoFiles
    <2>2. CASE dir' = [dir EXCEPT ![job.read.to].weights = w]
        BY <1>2, <1>4, <2>2 DEF TwoFiles
    <2> QED
        BY <1>1, <1>3, <2>1, <2>2
<1>6. NothingNewer'
    BY <1>1, <1>2, <1>3, <1>5 DEF ReleaseInv, NothingNewer
<1>7. FetchInv'
    BY <1>1, <1>2, NoFetch DEF FetchInv
<1> QED
    BY <1>1, <1>2, <1>5, <1>6, <1>7, NoUpload, NoApproval DEF ReleaseInv, ReleaseTypeOK, ReleaseJobs

LEMMA FinalizeGoesOn ==
    ASSUME ReleaseInv, NEW n \in 1 .. 2, At("finalize", n), Done
    PROVE  /\ job.release \in Releases /\ Cleared(job.read.weights) /\ job.read \in Approvals
           /\ job' = AtRest \/ (job' \in FinalizeJobs /\ job'.read = job.read)
<1>1. job \in FinalizeJobs /\ job.steps = n
    BY JobKinds DEF At, ReleaseInv, ReleaseTypeOK
<1>2. job.release \in Releases /\ job.read \in Approvals
    BY <1>1, JobParts DEF FinalizeJobs
<1>3. n = 1 => job' = AtRest
    BY <1>1, JobGoesOn DEF FinalizeJobs
<1>4. n # 1 => job' \in FinalizeJobs /\ job'.read = job.read
    BY <1>1, JobGoesOn DEF FinalizeJobs
<1> QED
    BY <1>1, <1>2, <1>3, <1>4 DEF ReleaseInv, LaunchInv

LEMMA SetAdapterPathKeeps == ASSUME ReleaseInv, SetAdapterPath PROVE ReleaseInv'
<1>1. /\ dotenv' = [(IF dotenv.release = Unset THEN Example ELSE dotenv) EXCEPT !.release = job.release]
      /\ UNCHANGED <<dir, builds, hub, releaseManifest, checksums, approved, launched>>
    BY DEF SetAdapterPath, RecordUnchanged
<1>2. /\ job.release \in Releases /\ Cleared(job.read.weights)
      /\ job' = AtRest \/ (job' \in FinalizeJobs /\ job'.read = job.read)
    <2>1. 2 \in 1 .. 2
        OBVIOUS
    <2>2. At("finalize", 2) /\ Done
        BY DEF SetAdapterPath
    <2> QED
        BY <2>1, <2>2, FinalizeGoesOn
<1>3. dotenv' \in Dotenvs /\ dotenv'.release = job.release /\ dotenv'.sha = IF dotenv.release = Unset THEN PinnedBuild ELSE dotenv.sha
    <2>1. PICK d : d = IF dotenv.release = Unset THEN Example ELSE dotenv
        OBVIOUS
    <2>2. d \in Dotenvs /\ d.sha = IF dotenv.release = Unset THEN PinnedBuild ELSE dotenv.sha
        BY <2>1 DEF Example, PinnedBuild, Prompts, Dotenvs, ReleaseInv, ReleaseTypeOK
    <2>3. dotenv' = [d EXCEPT !.release = job.release]
        BY <1>1, <2>1
    <2> QED
        BY <1>2, <2>2, <2>3 DEF Dotenvs
<1>4. Cleared(PinnedBuild)
    BY DEF Cleared, PinnedBuild
<1>5. LaunchInv'
    <2>1. job' \in FinalizeJobs => job'.read = job.read
        BY <1>2, KindsApart
    <2> QED
        BY <1>1, <1>2, <1>3, <1>4, <2>1 DEF ReleaseInv, LaunchInv, Cleared, LaunchedIsApproved
<1> QED
    BY <1>1, <1>2, <1>3, <1>5, NoUpload, NoFetch DEF ReleaseInv, ReleaseTypeOK, NothingNewer, ReleaseJobs

LEMMA SetChecksumKeeps == ASSUME ReleaseInv, SetChecksum PROVE ReleaseInv'
<1>1. /\ dotenv' = [dotenv EXCEPT !.sha = job.read.weights, !.prompt = IF job.read.prompt = Unset THEN @ ELSE job.read.prompt]
      /\ UNCHANGED <<dir, builds, hub, releaseManifest, checksums, approved, launched>>
    BY DEF SetChecksum, RecordUnchanged
<1>2. /\ job.release \in Releases /\ Cleared(job.read.weights) /\ job.read \in Approvals
      /\ job' = AtRest \/ (job' \in FinalizeJobs /\ job'.read = job.read)
    <2>1. 1 \in 1 .. 2
        OBVIOUS
    <2>2. At("finalize", 1) /\ Done
        BY DEF SetChecksum
    <2> QED
        BY <2>1, <2>2, FinalizeGoesOn
<1>3. dotenv' \in Dotenvs /\ dotenv'.release = dotenv.release /\ dotenv'.sha = job.read.weights
    <2>1. PICK w \in Nat, p \in Prompts : w = job.read.weights /\ p = job.read.prompt
        BY <1>2 DEF Approvals
    <2>2. dotenv' = [dotenv EXCEPT !.sha = w, !.prompt = IF p = Unset THEN dotenv.prompt ELSE p]
        BY <1>1, <2>1
    <2> QED
        BY <2>1, <2>2 DEF Dotenvs, ReleaseInv, ReleaseTypeOK
<1>4. LaunchInv'
    <2>1. job' \in FinalizeJobs => job'.read = job.read
        BY <1>2, KindsApart
    <2> QED
        BY <1>1, <1>2, <1>3, <2>1 DEF ReleaseInv, LaunchInv, Cleared, LaunchedIsApproved
<1> QED
    BY <1>1, <1>2, <1>3, <1>4, NoUpload, NoFetch DEF ReleaseInv, ReleaseTypeOK, NothingNewer, ReleaseJobs

LEMMA ReleaseStep == ReleaseInv /\ [ReleaseNext]_releaseVars => ReleaseInv'
<1> SUFFICES ASSUME ReleaseInv, [ReleaseNext]_releaseVars PROVE ReleaseInv'
    OBVIOUS
<1>1. CASE EditInputs
    BY <1>1, QuietRelease DEF EditInputs, RecordUnchanged, ServingUnchanged
<1>2. CASE WriteRecord \/ WriteChecksums \/ WriteCard
    BY <1>2, WriteRecordKeeps, WriteChecksumsKeeps, WriteCardKeeps
<1>3. CASE Stage \/ UploadFolder \/ CreateTag \/ MarkUploaded
    BY <1>3, StageKeeps, UploadFolderKeeps, CreateTagKeeps, MarkUploadedKeeps
<1>4. CASE InstallConfig \/ InstallWeights \/ SetAdapterPath \/ SetChecksum
    BY <1>4, InstallKeeps, SetAdapterPathKeeps, SetChecksumKeeps
<1>5. ASSUME NEW r \in Releases, Train(r) \/ Prepare(r) \/ Upload(r) PROVE ReleaseInv'
    BY <1>5, TrainKeeps, PrepareKeeps, UploadKeeps
<1>6. ASSUME NEW r \in Releases, NEW source \in [weights : 0 .. MaxBuilds, config : 0 .. MaxBuilds], Fetch(r, source) PROVE ReleaseInv'
    <2>1. source \in TwoFiles
        BY ReleaseAssumption DEF TwoFiles
    <2> QED
        BY <1>6, <2>1, FetchKeeps
<1>7. ASSUME NEW r \in Releases, NEW weights \in 1 .. MaxBuilds, NEW prompt \in Prompts, Finalize(r, weights, prompt)
      PROVE  ReleaseInv'
    <2>1. weights \in Nat
        BY ReleaseAssumption
    <2> QED
        BY <1>7, <2>1, FinalizeKeeps
<1>8. CASE Launch \/ Die
    BY <1>8, LaunchKeeps, DieKeeps
<1>9. CASE UNCHANGED releaseVars
    BY <1>9, QuietRelease DEF releaseVars
<1> QED
    BY <1>1, <1>2, <1>3, <1>4, <1>5, <1>6, <1>7, <1>8, <1>9 DEF ReleaseNext

\* A release is marked as uploaded in one step only, after a look at what landed.
LEMMA UploadedIsRecorded ==
    ASSUME ReleaseInv, [ReleaseNext]_releaseVars
    PROVE  \A r \in Releases : ~releaseManifest[r].uploaded /\ releaseManifest'[r].uploaded => hub[r].tag.weights = releaseManifest'[r].weights
<1> SUFFICES ASSUME NEW r \in Releases, ~releaseManifest[r].uploaded, releaseManifest'[r].uploaded
             PROVE  hub[r].tag.weights = releaseManifest'[r].weights
    OBVIOUS
<1>1. CASE WriteRecord
    <2>1. releaseManifest' = [releaseManifest EXCEPT ![job.release].weights = Manifest(job.release)]
        BY <1>1 DEF WriteRecord
    <2>2. releaseManifest'[r].uploaded = releaseManifest[r].uploaded
        BY <2>1 DEF ReleaseInv, ReleaseTypeOK, ReleaseRecords
    <2> QED
        BY <2>2
<1>2. CASE MarkUploaded
    <2>1. /\ job.release \in Releases /\ job \in UploadsStaged /\ job.steps = 1
          /\ job.read.manifest \in ReleaseRecords
        BY <1>2, UploadGoesOn DEF MarkUploaded
    <2>2. OfRecord(hub[job.release].tag.weights, job.read.manifest)
        BY <2>1 DEF ReleaseInv, UploadInv
    <2>3. PICK marked : marked = [job.read.manifest EXCEPT !.uploaded = TRUE]
        OBVIOUS
    <2>4. marked.weights = job.read.manifest.weights
        BY <2>1, <2>3 DEF ReleaseRecords
    <2>5. CASE Landed(job.release)
        <3>1. releaseManifest' = [releaseManifest EXCEPT ![job.release] = marked]
            BY <1>2, <2>3, <2>5 DEF MarkUploaded
        <3>2. r = job.release /\ releaseManifest'[r] = marked
            BY <2>1, <3>1 DEF ReleaseInv, ReleaseTypeOK
        <3>3. hub[r].tag.weights = job.read.manifest.weights \/ hub[r].tag.weights = checksums[r].weights
            BY <2>5, <3>2 DEF Landed, LandedPinned
        <3>4. hub[r].tag.weights = job.read.manifest.weights \/ hub[r].tag.weights > checksums[r].weights
            BY <2>2, <3>2 DEF OfRecord
        <3>5. hub[r].tag.weights \in Nat /\ checksums[r].weights \in Nat
            <4>1. hub[r].tag \in TwoFiles /\ checksums[r] \in TwoFiles
                BY DEF ReleaseInv, ReleaseTypeOK
            <4> QED
                BY <4>1 DEF TwoFiles
        <3> QED
            BY <2>4, <3>2, <3>3, <3>4, <3>5
    <2>6. CASE ~Landed(job.release)
        BY <1>2, <2>6 DEF MarkUploaded
    <2> QED
        BY <2>5, <2>6
<1>3. CASE UNCHANGED releaseManifest
    BY <1>3
<1> QED
    BY <1>1, <1>2, <1>3 DEF ReleaseNext, releaseVars, EditInputs, Launch, Die, WriteChecksums, WriteCard, Stage, UploadFolder, CreateTag,
       InstallConfig, InstallWeights, SetAdapterPath, SetChecksum, Train, Prepare, Upload, Fetch, Finalize, RecordUnchanged

LEMMA ReleasedIsInstalled ==
    ASSUME ReleaseInv, [ReleaseNext]_releaseVars, dir' # dir, builds' = builds
    PROVE  job.read.files = checksums[job.release]
<1>1. CASE InstallConfig
    BY <1>1, FetchGoesOn DEF InstallConfig
<1>2. CASE InstallWeights
    BY <1>2, FetchGoesOn DEF InstallWeights
<1>3. ASSUME NEW r \in Releases, Train(r) PROVE FALSE
    BY <1>3 DEF Train, ReleaseInv, ReleaseTypeOK
<1> QED
    BY <1>1, <1>2, <1>3 DEF ReleaseNext, releaseVars, EditInputs, Launch, Die, WriteRecord, WriteChecksums, WriteCard, Stage, UploadFolder,
       CreateTag, MarkUploaded, SetAdapterPath, SetChecksum, Prepare, Upload, Fetch, Finalize

LEMMA PublishedIsKept ==
    ASSUME ReleaseInv, [ReleaseNext]_releaseVars
    PROVE  \A r \in Releases : /\ hub[r].folder # NoFiles => hub'[r].folder = hub[r].folder
                               /\ hub[r].tag # NoFiles => hub'[r].tag = hub[r].tag
<1> SUFFICES ASSUME NEW r \in Releases
             PROVE  /\ hub[r].folder # NoFiles => hub'[r].folder = hub[r].folder
                    /\ hub[r].tag # NoFiles => hub'[r].tag = hub[r].tag
    OBVIOUS
<1>1. hub \in [Releases -> [folder : TwoFiles, tag : TwoFiles]]
    BY DEF ReleaseInv, ReleaseTypeOK
<1>2. CASE UploadFolder
    <2>1. job \in UploadsStaged /\ job.release \in Releases /\ job.steps = 3
        BY <1>2, UploadGoesOn DEF UploadFolder
    <2>2. hub[job.release].folder = NoFiles
        BY <2>1 DEF ReleaseInv, UploadInv
    <2>3. hub' = [hub EXCEPT ![job.release].folder = job.read.files]
        BY <1>2 DEF UploadFolder
    <2> QED
        BY <1>1, <2>1, <2>2, <2>3
<1>3. CASE CreateTag
    <2>1. job \in UploadsStaged /\ job.release \in Releases /\ job.steps = 2
        BY <1>3, UploadGoesOn DEF CreateTag
    <2>2. hub[job.release].tag = NoFiles
        BY <2>1 DEF ReleaseInv, UploadInv
    <2>3. hub' = [hub EXCEPT ![job.release].tag = hub[job.release].folder]
        BY <1>3 DEF CreateTag
    <2> QED
        BY <1>1, <2>1, <2>2, <2>3
<1>4. CASE UNCHANGED hub
    BY <1>4
<1> QED
    BY <1>2, <1>3, <1>4 DEF ReleaseNext, releaseVars, EditInputs, Launch, Die, WriteRecord, WriteChecksums, WriteCard, Stage,
       MarkUploaded, InstallConfig, InstallWeights, SetAdapterPath, SetChecksum, Train, Prepare, Upload, Fetch, Finalize

-----------------------------------------------------------------------------
(***************************************************************************)
(* The training. A run that is over is never written to again, so the best *)
(* checkpoint of its log stays the best; the directory holds the result of *)
(* no run while one is under way.                                          *)
(***************************************************************************)
BestOf(weights) ==
    /\ weights[1] \in DOMAIN lossLog /\ Len(lossLog[weights[1]]) = Checkpoints
    /\ weights[2] = BestStep(lossLog[weights[1]])
GoodEnough(o) == o.terms >= o.terms_v01 /\ o.loss < o.loss_v01 /\ ~o.honestly
Stages == {"none", "verify", "load", "write", "guide"}

DirInv ==
    /\ lossLog \in Seq(Seq(Losses))
    /\ DOMAIN adapterDir = {"saved", "root", "best"}
    /\ trainer # NoProcess => /\ trainer.run \in DOMAIN lossLog
                              /\ adapterDir.root = NoWeights /\ adapterDir.best = NoWeights
    /\ adapterDir.best # NoWeights => BestOf(adapterDir.best)
EvaluationInv ==
    /\ evaluation.at \in Stages
    /\ evaluation.at \in {"load", "write", "guide"} => BestOf(evaluation.verified)
    /\ evaluation.at \in {"write", "guide"} => DOMAIN evaluation = {"at", "verified", "outcome", "generated"}
    /\ evaluation.at = "guide" => GoodEnough(evaluation.outcome)
GuideInv == guide # NoProcess => BestOf(guide.weights) /\ GoodEnough(guide.outcome)
TrainingInv == DirInv /\ EvaluationInv /\ GuideInv

LEMMA TrainingBegins == TrainingInit => TrainingInv
<1> SUFFICES ASSUME TrainingInit PROVE TrainingInv
    OBVIOUS
<1>1. DirInv
    BY DEF TrainingInit, DirInv, EmptyDir
<1>2. EvaluationInv /\ GuideInv
    BY DEF TrainingInit, EvaluationInv, GuideInv, NoProcess, Stages
<1> QED
    BY <1>1, <1>2 DEF TrainingInv

\* A run that is over keeps its log, whatever other runs write.
LEMMA OverIsOver ==
    ASSUME TrainingInv, (\E loss \in Losses : SaveCheckpoint(loss)) \/ StartTraining, NEW weights, BestOf(weights)
    PROVE  BestOf(weights)'
<1>1. lossLog \in Seq(Seq(Losses))
    BY DEF TrainingInv, DirInv
<1>2. CASE StartTraining
    <2>1. lossLog' = Append(lossLog, <<>>) /\ <<>> \in Seq(Losses)
        BY <1>2 DEF StartTraining
    <2>2. weights[1] \in DOMAIN lossLog' /\ lossLog'[weights[1]] = lossLog[weights[1]]
        BY <1>1, <2>1 DEF BestOf
    <2> QED
        BY <2>2 DEF BestOf
<1>3. ASSUME NEW loss \in Losses, SaveCheckpoint(loss) PROVE BestOf(weights)'
    <2>1. trainer.run \in DOMAIN lossLog /\ Len(lossLog[trainer.run]) < Checkpoints
        BY <1>3 DEF SaveCheckpoint, TrainingInv, DirInv
    <2>2. lossLog' = [lossLog EXCEPT ![trainer.run] = Append(@, loss)]
        BY <1>3 DEF SaveCheckpoint
    <2>3. weights[1] # trainer.run
        <3>1. Len(lossLog[trainer.run]) \in Nat
            BY <1>1, <2>1
        <3> QED
            BY <2>1, <3>1 DEF BestOf
    <2>4. weights[1] \in DOMAIN lossLog' /\ lossLog'[weights[1]] = lossLog[weights[1]]
        BY <1>1, <2>2, <2>3 DEF BestOf
    <2> QED
        BY <2>4 DEF BestOf
<1> QED
    BY <1>2, <1>3

\* What a step that leaves the logs alone keeps.
LEMMA LogsStay == ASSUME lossLog' = lossLog, NEW weights PROVE BestOf(weights)' <=> BestOf(weights)
    BY DEF BestOf

LEMMA TrainingStep == TrainingInv /\ [TrainingNext]_trainingVars => TrainingInv'
<1> SUFFICES ASSUME TrainingInv, [TrainingNext]_trainingVars PROVE TrainingInv'
    OBVIOUS
<1>a. /\ lossLog \in Seq(Seq(Losses)) /\ DOMAIN adapterDir = {"saved", "root", "best"}
      /\ DirInv /\ EvaluationInv /\ GuideInv
    BY DEF TrainingInv, DirInv
<1>1. CASE Preflight
    BY <1>1, <1>a, LogsStay DEF Preflight, EmptyDir, TrainingInv, DirInv, EvaluationInv, GuideInv
<1>2. CASE StartTraining
    <2>1. /\ lossLog' = Append(lossLog, <<>>) /\ <<>> \in Seq(Losses)
          /\ trainer' = [at |-> "training", run |-> Len(lossLog) + 1]
          /\ adapterDir = EmptyDir /\ UNCHANGED <<adapterDir, evaluation, guide>>
        BY <1>2 DEF StartTraining
    <2>2. lossLog' \in Seq(Seq(Losses)) /\ trainer'.run \in DOMAIN lossLog'
        BY <1>a, <2>1
    <2>3. \A weights : BestOf(weights) => BestOf(weights)'
        BY <1>2, OverIsOver
    <2>4. DirInv'
        BY <1>a, <2>1, <2>2, <2>3 DEF DirInv, EmptyDir
    <2> QED
        BY <1>a, <2>1, <2>3, <2>4 DEF TrainingInv, EvaluationInv, GuideInv
<1>3. ASSUME NEW loss \in Losses, SaveCheckpoint(loss) PROVE TrainingInv'
    <2>1. /\ lossLog' = [lossLog EXCEPT ![trainer.run] = Append(@, loss)]
          /\ trainer.run \in DOMAIN lossLog /\ trainer # NoProcess
          /\ UNCHANGED <<trainer, evaluation, guide>>
        BY <1>3, <1>a DEF SaveCheckpoint, DirInv
    <2>2. PICK saved : adapterDir' = [adapterDir EXCEPT !.saved = saved]
        BY <1>3 DEF SaveCheckpoint
    <2>3. /\ DOMAIN adapterDir' = {"saved", "root", "best"}
          /\ adapterDir'.root = adapterDir.root /\ adapterDir'.best = adapterDir.best
        BY <1>a, <2>2
    <2>4. lossLog' \in Seq(Seq(Losses)) /\ DOMAIN lossLog' = DOMAIN lossLog
        BY <1>a, <2>1
    <2>5. \A weights : BestOf(weights) => BestOf(weights)'
        BY <1>3, OverIsOver
    <2>6. DirInv'
        BY <1>a, <2>1, <2>3, <2>4, <2>5 DEF DirInv
    <2> QED
        BY <1>a, <2>1, <2>5, <2>6 DEF TrainingInv, EvaluationInv, GuideInv
<1>4. CASE EndTraining
    <2>1. PICK best, root : /\ best = WeightsOf(trainer.run, BestStep(lossLog[trainer.run]))
                            /\ adapterDir' = [adapterDir EXCEPT !.root = root, !.best = best]
        BY <1>4 DEF EndTraining
    <2>2. /\ DOMAIN adapterDir' = {"saved", "root", "best"} /\ adapterDir'.best = best
          /\ trainer' = NoProcess /\ UNCHANGED <<lossLog, evaluation, guide>>
        BY <1>4, <1>a, <2>1 DEF EndTraining
    <2>3. BestOf(best)
        BY <1>4, <1>a, <2>1 DEF EndTraining, BestOf, WeightsOf, DirInv
    <2>4. DirInv'
        BY <1>a, <2>2, <2>3, LogsStay DEF DirInv
    <2> QED
        BY <1>a, <2>2, <2>4, LogsStay DEF TrainingInv, EvaluationInv, GuideInv
<1>5. CASE TrainingDies
    BY <1>5, <1>a, LogsStay DEF TrainingDies, TrainingInv, DirInv, EvaluationInv, GuideInv
<1>6. CASE StartEvaluation
    BY <1>6, <1>a, LogsStay DEF StartEvaluation, TrainingInv, DirInv, EvaluationInv, GuideInv, Stages
<1>7. ASSUME NEW dryRun \in BOOLEAN, Verify(dryRun) PROVE TrainingInv'
    <2>1. UNCHANGED <<adapterDir, trainer, lossLog, guide>>
        BY <1>7 DEF Verify
    <2>2. EvaluationInv'
        <3>1. CASE Located /\ Integrity /\ ~dryRun
            <4>1. evaluation' = [at |-> "load", verified |-> adapterDir.root]
                BY <1>7, <3>1 DEF Verify
            <4>2. BestOf(adapterDir.root)
                BY <1>a, <3>1 DEF DirInv, Located, Integrity
            <4> QED
                BY <2>1, <4>1, <4>2, LogsStay DEF EvaluationInv, Stages
        <3>2. CASE ~(Located /\ Integrity /\ ~dryRun)
            BY <1>7, <3>2 DEF Verify, EvaluationInv, NoProcess, Stages
        <3> QED
            BY <3>1, <3>2
    <2> QED
        BY <1>a, <2>1, <2>2, LogsStay DEF TrainingInv, DirInv, GuideInv
<1>8. ASSUME NEW o \in Outcomes, NEW generated \in BOOLEAN, Evaluate(o, generated) PROVE TrainingInv'
    <2>1. UNCHANGED <<adapterDir, trainer, lossLog, guide>> /\ evaluation.at = "load" /\ BestOf(evaluation.verified)
        BY <1>8, <1>a DEF Evaluate, EvaluationInv
    <2>2. EvaluationInv'
        <3>1. CASE FilesPresent
            <4>1. evaluation' = [at |-> "write", verified |-> evaluation.verified, outcome |-> o, generated |-> generated]
                BY <1>8, <3>1 DEF Evaluate
            <4> QED
                BY <2>1, <4>1, LogsStay DEF EvaluationInv, Stages
        <3>2. CASE ~FilesPresent
            BY <1>8, <3>2 DEF Evaluate, EvaluationInv, NoProcess, Stages
        <3> QED
            BY <3>1, <3>2
    <2> QED
        BY <1>a, <2>1, <2>2, LogsStay DEF TrainingInv, DirInv, GuideInv
<1>9. CASE WriteResults
    <2>1. /\ UNCHANGED <<adapterDir, trainer, lossLog, guide>> /\ evaluation.at = "write" /\ BestOf(evaluation.verified)
          /\ DOMAIN evaluation = {"at", "verified", "outcome", "generated"}
        BY <1>9, <1>a DEF WriteResults, EvaluationInv
    <2>2. EvaluationInv'
        <3>1. CASE Recommended(GatePassed(evaluation.outcome, evaluation.generated), evaluation.generated)
            <4>1. evaluation' = [evaluation EXCEPT !.at = "guide"]
                BY <1>9, <3>1 DEF WriteResults
            <4>2. /\ DOMAIN evaluation' = {"at", "verified", "outcome", "generated"} /\ evaluation'.at = "guide"
                  /\ evaluation'.verified = evaluation.verified /\ evaluation'.outcome = evaluation.outcome
                BY <2>1, <4>1
            <4>3. GoodEnough(evaluation.outcome)
                BY <3>1 DEF Recommended, GatePassed, GoodEnough
            <4> QED
                BY <2>1, <4>2, <4>3, LogsStay DEF EvaluationInv, Stages
        <3>2. CASE ~Recommended(GatePassed(evaluation.outcome, evaluation.generated), evaluation.generated)
            BY <1>9, <3>2 DEF WriteResults, EvaluationInv, NoProcess, Stages
        <3> QED
            BY <3>1, <3>2
    <2> QED
        BY <1>a, <2>1, <2>2, LogsStay DEF TrainingInv, DirInv, GuideInv
<1>10. CASE WriteGuide
    <2>1. /\ UNCHANGED <<adapterDir, trainer, lossLog>> /\ evaluation' = NoProcess
          /\ guide' = [at |-> "written", weights |-> evaluation.verified, outcome |-> evaluation.outcome]
          /\ BestOf(evaluation.verified) /\ GoodEnough(evaluation.outcome)
        BY <1>10, <1>a DEF WriteGuide, EvaluationInv
    <2>2. EvaluationInv' /\ GuideInv'
        BY <2>1, LogsStay DEF EvaluationInv, GuideInv, NoProcess, Stages
    <2> QED
        BY <1>a, <2>1, <2>2, LogsStay DEF TrainingInv, DirInv
<1>11. CASE EvaluationDies
    BY <1>11, <1>a, LogsStay DEF EvaluationDies, TrainingInv, DirInv, EvaluationInv, GuideInv, NoProcess, Stages
<1>12. CASE UNCHANGED trainingVars
    BY <1>12, <1>a, LogsStay DEF trainingVars, TrainingInv, DirInv, EvaluationInv, GuideInv
<1> QED
    BY <1>1, <1>2, <1>3, <1>4, <1>5, <1>6, <1>7, <1>8, <1>9, <1>10, <1>11, <1>12 DEF TrainingNext

LEMMA GuidesAreRight == TrainingInv => GuideNamesTheBest /\ GuideWasEarned
    BY DEF TrainingInv, GuideInv, BestOf, GoodEnough, GuideNamesTheBest, GuideWasEarned

LEMMA RunsAreKept ==
    ASSUME TrainingInv, [TrainingNext]_trainingVars
    PROVE  FinishedRuns \subseteq FinishedRuns'
<1>1. DOMAIN adapterDir = {"saved", "root", "best"}
    BY DEF TrainingInv, DirInv
<1>2. CASE Preflight
    <2>1. preserved' = IF adapterDir = EmptyDir THEN preserved ELSE preserved \cup {adapterDir}
        BY <1>2 DEF Preflight, MovedAside
    <2>2. EmptyDir.root = NoWeights
        BY DEF EmptyDir
    <2> QED
        BY <2>1, <2>2 DEF FinishedRuns
<1>3. CASE EndTraining
    <2>1. adapterDir.root = NoWeights /\ preserved' = preserved
        BY <1>3 DEF EndTraining, TrainingInv, DirInv
    <2> QED
        BY <2>1 DEF FinishedRuns
<1>4. ASSUME NEW loss \in Losses, SaveCheckpoint(loss) PROVE FinishedRuns \subseteq FinishedRuns'
    <2>1. PICK saved : adapterDir' = [adapterDir EXCEPT !.saved = saved]
        BY <1>4 DEF SaveCheckpoint
    <2>2. adapterDir'.root = adapterDir.root /\ preserved' = preserved
        BY <1>1, <1>4, <2>1 DEF SaveCheckpoint
    <2> QED
        BY <2>2 DEF FinishedRuns
<1>5. CASE UNCHANGED <<adapterDir, preserved>>
    BY <1>5 DEF FinishedRuns
<1> QED
    BY <1>2, <1>3, <1>4, <1>5 DEF TrainingNext, trainingVars, StartTraining, TrainingDies, StartEvaluation, Verify, Evaluate, WriteResults,
       WriteGuide, EvaluationDies

-----------------------------------------------------------------------------
(***************************************************************************)
(* The measurement. What a run has said so far is what is filed under its  *)
(* variant: it begins with nothing, and leaves nothing to the next.        *)
(***************************************************************************)
Adapters == {"none", "default", "rupsaa_v01"}
PromptVersions == {"v0.1", "v0.2"}
LossRows == [weights : Adapters, prompt : PromptVersions, given : Seq(ModelReplies)]
TurnRows == [weights : Adapters, prompt : PromptVersions, given : Seq(ModelReplies), reply : ModelReplies, pass : BOOLEAN]
MeasuredRows == LossRows \cup TurnRows
SaidSoFar(turns) == [k \in 1 .. Len(turns) |-> turns[k].reply]

\* MeasuredAlike for one variant.
ServedWith == [rupsaa_v02 |-> "default", rupsaa_v01 |-> "rupsaa_v01", base |-> "none"]
ServedAs == [rupsaa_v02 |-> "v0.2", rupsaa_v01 |-> "v0.1", base |-> "v0.2"]
Alike(v) ==
    \A i \in DOMAIN entry[v] :
        /\ entry[v][i].weights = ServedWith[v] /\ entry[v][i].prompt = ServedAs[v]
        /\ entry[v][i].given = [k \in 1..(i - 1) |-> entry[v][k].reply]
        /\ Jobs[measuring].kind = "term" /\ Jobs[measuring].expect[i].shorter /\ i > 1 /\ entry[v][i].pass
           => entry[v][i].reply.length < entry[v][i - 1].reply.length

PostInv ==
    /\ runs \in Seq(Variants) /\ \A i, j \in DOMAIN runs : i # j => runs[i] # runs[j]
    /\ entry \in [Variants -> Seq(MeasuredRows)] /\ history \in Seq(ModelReplies)
    /\ \A i \in DOMAIN runs : i > 1 \/ Jobs[measuring].kind = "loss" => entry[runs[i]] = <<>>
    /\ history = IF runs = <<>> THEN <<>> ELSE SaidSoFar(entry[runs[1]])
    /\ \A v \in Variants : Alike(v)

LEMMA FiledUnder ==
    ASSUME NEW v \in Variants
    PROVE  WeightsUsed(v) = ServedWith[v] /\ PromptVersion(v) = ServedAs[v]
    BY DEF Variants, WeightsUsed, Activated, PromptVersion, ServedWith, ServedAs

LEMMA AlikeIsMeasuredAlike == (\A v \in Variants : Alike(v)) => MeasuredAlike
    BY DEF Alike, MeasuredAlike, ServedWith, ServedAs

LEMMA OrderTypes ==
    ASSUME NEW kind
    PROVE  /\ Order(kind) \in Seq(Variants) /\ Order(kind) # <<>>
           /\ \A i, j \in DOMAIN Order(kind) : i # j => Order(kind)[i] # Order(kind)[j]
<1>1. "rupsaa_v02" \in Variants /\ "rupsaa_v01" \in Variants /\ "base" \in Variants
    BY DEF Variants
<1>2. <<"rupsaa_v02", "base", "rupsaa_v01">> \in Seq(Variants) /\ <<"rupsaa_v02", "rupsaa_v01", "base">> \in Seq(Variants)
    BY <1>1
<1> QED
    BY <1>2 DEF Order

LEMMA PostBegins == PostInit => PostInv
<1> SUFFICES ASSUME PostInit PROVE PostInv
    OBVIOUS
<1>1. /\ runs \in Seq(Variants) /\ runs # <<>> /\ \A i, j \in DOMAIN runs : i # j => runs[i] # runs[j]
      /\ entry = [v \in Variants |-> <<>>] /\ history = <<>>
    BY OrderTypes DEF PostInit, NoEntry
<1>2. runs[1] \in Variants /\ \A i \in DOMAIN runs : runs[i] \in Variants
    BY <1>1
<1>3. SaidSoFar(<<>>) = <<>>
    BY DEF SaidSoFar
<1>4. \A v \in Variants : Alike(v)
    BY <1>1 DEF Alike
<1>5. entry \in [Variants -> Seq(MeasuredRows)] /\ history \in Seq(ModelReplies)
    BY <1>1
<1> QED
    BY <1>1, <1>2, <1>3, <1>4, <1>5 DEF PostInv

\* The variant that is next when one is done.
LEMMA NextVariant ==
    ASSUME PostInv, runs # <<>>, runs' = Tail(runs)
    PROVE  /\ runs' \in Seq(Variants) /\ \A i, j \in DOMAIN runs' : i # j => runs'[i] # runs'[j]
           /\ \A i \in DOMAIN runs' : i + 1 \in DOMAIN runs /\ runs'[i] = runs[i + 1] /\ runs'[i] # runs[1] /\ entry[runs'[i]] = <<>>
<1>1. runs \in Seq(Variants) /\ \A i, j \in DOMAIN runs : i # j => runs[i] # runs[j]
    BY DEF PostInv
<1>2. /\ runs' \in Seq(Variants) /\ Len(runs') = Len(runs) - 1 /\ Len(runs) \in Nat
      /\ \A i \in 1 .. Len(runs') : runs'[i] = runs[i + 1]
    BY <1>1, HeadTailProperties
<1>3. \A i \in DOMAIN runs' : i \in 1 .. Len(runs') /\ i + 1 \in DOMAIN runs /\ runs'[i] = runs[i + 1]
    BY <1>1, <1>2
<1>4. 1 \in DOMAIN runs
    BY <1>1
<1>5. ASSUME NEW i \in DOMAIN runs' PROVE entry[runs'[i]] = <<>> /\ runs'[i] # runs[1]
    <2>1. i + 1 \in DOMAIN runs /\ runs'[i] = runs[i + 1] /\ i + 1 > 1 /\ i + 1 # 1
        BY <1>2, <1>3
    <2> QED
        BY <2>1, <1>1, <1>4 DEF PostInv
<1>6. ASSUME NEW i \in DOMAIN runs', NEW j \in DOMAIN runs', i # j PROVE runs'[i] # runs'[j]
    <2>1. i + 1 # j + 1
        BY <1>3, <1>6
    <2> QED
        BY <2>1, <1>1, <1>3
<1> QED
    BY <1>2, <1>3, <1>5, <1>6

LEMMA MeasureLossKeeps == ASSUME PostInv, MeasureLoss PROVE PostInv'
<1>1. PICK v, row : v = runs[1] /\ row = LossRow(v)
    OBVIOUS
<1>2. /\ runs # <<>> /\ runs \in Seq(Variants) /\ v \in Variants /\ Jobs[measuring].kind = "loss"
      /\ entry \in [Variants -> Seq(MeasuredRows)] /\ history \in Seq(ModelReplies)
      /\ entry' = [entry EXCEPT ![v] = <<row>>] /\ runs' = Tail(runs) /\ UNCHANGED <<measuring, history>>
    BY <1>1 DEF MeasureLoss, PostInv, Current
<1>3. entry[v] = <<>> /\ history = <<>>
    <2>1. 1 \in DOMAIN runs
        BY <1>2
    <2>2. entry[v] = <<>>
        BY <2>1, <1>1, <1>2 DEF PostInv
    <2> QED
        BY <1>1, <1>2, <2>2 DEF PostInv, SaidSoFar
<1>4. row \in MeasuredRows /\ row.given = <<>> /\ row.weights = ServedWith[v] /\ row.prompt = ServedAs[v]
    <2>1. WeightsUsed(v) \in Adapters /\ PromptVersion(v) \in PromptVersions
        BY <1>2 DEF WeightsUsed, Activated, PromptVersion, Adapters, PromptVersions
    <2> QED
        BY <1>1, <1>2, <1>3, <2>1, FiledUnder DEF LossRow, LossRows, MeasuredRows
<1>5. <<row>> \in Seq(MeasuredRows)
    BY <1>4
<1>6. entry' \in [Variants -> Seq(MeasuredRows)] /\ entry'[v] = <<row>> /\ \A u \in Variants \ {v} : entry'[u] = entry[u]
    BY <1>2, <1>5
<1>7. /\ runs' \in Seq(Variants) /\ \A i, j \in DOMAIN runs' : i # j => runs'[i] # runs'[j]
      /\ \A i \in DOMAIN runs' : runs'[i] \in Variants /\ runs'[i] # v /\ entry[runs'[i]] = <<>>
    <2>1. /\ runs' \in Seq(Variants) /\ \A i, j \in DOMAIN runs' : i # j => runs'[i] # runs'[j]
          /\ \A i \in DOMAIN runs' : runs'[i] # v /\ entry[runs'[i]] = <<>>
        BY <1>1, <1>2, NextVariant
    <2> QED
        BY <2>1
<1>8. \A i \in DOMAIN runs' : entry'[runs'[i]] = <<>>
    BY <1>6, <1>7
<1>9. history' = IF runs' = <<>> THEN <<>> ELSE SaidSoFar(entry'[runs'[1]])
    <2>1. runs' # <<>> => 1 \in DOMAIN runs'
        BY <1>7
    <2>2. SaidSoFar(<<>>) = <<>>
        BY DEF SaidSoFar
    <2>3. runs' # <<>> => entry'[runs'[1]] = <<>>
        BY <1>8, <2>1
    <2> QED
        BY <1>2, <1>3, <2>2, <2>3
<1>10. ASSUME NEW u \in Variants PROVE Alike(u)'
    <2>1. CASE u = v
        <3>1. DOMAIN entry'[u] = {1} /\ entry'[u][1] = row
            BY <1>6, <2>1
        <3>2. [k \in 1 .. (1 - 1) |-> entry'[u][k].reply] = <<>>
            OBVIOUS
        <3>3. Jobs[measuring'].kind = "loss"
            BY <1>2
        <3> QED
            BY <1>4, <2>1, <3>1, <3>2, <3>3 DEF Alike
    <2>2. CASE u # v
        <3>1. entry'[u] = entry[u] /\ measuring' = measuring
            BY <1>2, <1>6, <2>2
        <3>2. Alike(u)
            BY DEF PostInv
        <3> QED
            BY <3>1, <3>2 DEF Alike
    <2> QED
        BY <2>1, <2>2
<1> QED
    BY <1>2, <1>6, <1>7, <1>8, <1>9, <1>10 DEF PostInv

LEMMA IsASequence == ASSUME NEW S, NEW q \in Seq(S) PROVE q = [k \in DOMAIN q |-> q[k]]
    OBVIOUS

LEMMA SaidOneMore ==
    ASSUME NEW turns \in Seq(MeasuredRows), NEW row \in MeasuredRows, NEW reply \in ModelReplies, row.reply = reply,
           SaidSoFar(turns) \in Seq(ModelReplies)
    PROVE  SaidSoFar(Append(turns, row)) = Append(SaidSoFar(turns), reply)
<1>1. /\ Len(Append(turns, row)) = Len(turns) + 1 /\ Len(turns) \in Nat
      /\ \A k \in 1 .. Len(turns) : Append(turns, row)[k] = turns[k]
      /\ Append(turns, row)[Len(turns) + 1] = row
    OBVIOUS
<1>2. SaidSoFar(turns) = [k \in 1 .. Len(turns) |-> turns[k].reply]
    BY DEF SaidSoFar
<1>3. PICK said \in Seq(ModelReplies) : said = SaidSoFar(turns)
    OBVIOUS
<1>4. Len(said) = Len(turns) /\ \A k \in 1 .. Len(turns) : said[k] = turns[k].reply
    <2>1. DOMAIN said = 1 .. Len(turns)
        BY <1>2, <1>3
    <2>2. DOMAIN said = 1 .. Len(said) /\ Len(said) \in Nat
        OBVIOUS
    <2>3. Len(said) = Len(turns)
        BY <1>1, <2>1, <2>2
    <2> QED
        BY <1>2, <1>3, <2>3
<1>5. Append(said, reply) = [k \in 1 .. Len(turns) + 1 |-> IF k = Len(turns) + 1 THEN reply ELSE turns[k].reply]
    <2>1. /\ DOMAIN Append(said, reply) = 1 .. Len(turns) + 1
          /\ \A k \in 1 .. Len(turns) : Append(said, reply)[k] = turns[k].reply
          /\ Append(said, reply)[Len(turns) + 1] = reply
        BY <1>1, <1>4
    <2>2. PICK more \in Seq(ModelReplies) : more = Append(said, reply)
        <3>1. PICK r \in ModelReplies : r = reply
            OBVIOUS
        <3>2. Append(said, r) \in Seq(ModelReplies)
            BY <1>3
        <3> QED
            BY <3>1, <3>2
    <2>3. DOMAIN more = 1 .. Len(turns) + 1 /\ more = [k \in DOMAIN more |-> more[k]]
        <3>1. more = [k \in DOMAIN more |-> more[k]]
            BY <2>2, IsASequence
        <3>2. DOMAIN more = 1 .. Len(turns) + 1
            BY <2>1, <2>2
        <3> QED
            BY <3>1, <3>2
    <2>4. \A k \in 1 .. Len(turns) + 1 : more[k] = IF k = Len(turns) + 1 THEN reply ELSE turns[k].reply
        <3>1. ASSUME NEW k \in 1 .. Len(turns) + 1, k # Len(turns) + 1 PROVE k \in 1 .. Len(turns)
            BY <1>1, <3>1
        <3> QED
            BY <2>1, <2>2, <3>1
    <2> QED
        BY <2>2, <2>3, <2>4
<1>6. SaidSoFar(Append(turns, row)) = [k \in 1 .. Len(turns) + 1 |-> Append(turns, row)[k].reply]
    BY <1>1 DEF SaidSoFar
<1> QED
    BY <1>1, <1>3, <1>5, <1>6

LEMMA AnswerKeeps == ASSUME PostInv, NEW reply \in ModelReplies, Answer(reply) PROVE PostInv'
<1>1. PICK v, expect, turn : v = runs[1] /\ expect = Jobs[measuring].expect /\ turn = Len(entry[v]) + 1
    OBVIOUS
<1>2. PICK passes : passes = IF Jobs[measuring].kind = "term" THEN TurnPasses(reply, expect[turn], history)
                             ELSE turn = Len(expect) => LivePasses(reply, expect[turn])
    OBVIOUS
<1>3. passes \in BOOLEAN /\ (Jobs[measuring].kind = "term" => passes = TurnPasses(reply, expect[turn], history))
    BY <1>2 DEF TurnPasses, LivePasses
<1>4. PICK row : row = TurnRow(v, reply, passes)
    OBVIOUS
<1>5. /\ runs # <<>> /\ runs \in Seq(Variants) /\ v \in Variants /\ Jobs[measuring].kind # "loss"
      /\ entry \in [Variants -> Seq(MeasuredRows)] /\ history \in Seq(ModelReplies)
      /\ entry' = [entry EXCEPT ![v] = Append(@, row)]
      /\ history' = HistoryAfter(reply, turn = Len(expect))
      /\ runs' = IF turn = Len(expect) THEN Tail(runs) ELSE runs
      /\ UNCHANGED measuring
    BY <1>1, <1>2, <1>4 DEF Answer, PostInv, Current
<1>6. history = SaidSoFar(entry[v])
    BY <1>1, <1>5 DEF PostInv
<1>7. /\ row \in MeasuredRows /\ row.given = history /\ row.weights = ServedWith[v] /\ row.prompt = ServedAs[v]
      /\ row.reply = reply /\ row.pass = passes
    <2>1. WeightsUsed(v) \in Adapters /\ PromptVersion(v) \in PromptVersions
        BY <1>5 DEF WeightsUsed, Activated, PromptVersion, Adapters, PromptVersions
    <2> QED
        BY <1>3, <1>4, <1>5, <2>1, FiledUnder DEF TurnRow, TurnRows, MeasuredRows
<1>8. /\ entry' \in [Variants -> Seq(MeasuredRows)] /\ entry'[v] = Append(entry[v], row)
      /\ \A u \in Variants \ {v} : entry'[u] = entry[u]
    BY <1>5, <1>7
<1>9. SaidSoFar(entry'[v]) = Append(history, reply)
    BY <1>5, <1>6, <1>7, <1>8, SaidOneMore
<1>10. ASSUME NEW u \in Variants PROVE Alike(u)'
    <2>1. CASE u = v
        <3>1. /\ Len(entry[v]) \in Nat /\ Len(entry'[v]) = turn /\ turn \in Nat /\ DOMAIN entry'[v] = 1 .. turn
              /\ \A i \in 1 .. turn - 1 : i \in DOMAIN entry[v] /\ entry'[v][i] = entry[v][i]
              /\ entry'[v][turn] = row
            BY <1>1, <1>5, <1>7, <1>8
        <3>2. Alike(v)
            BY <1>5 DEF PostInv
        <3>3. ASSUME NEW i \in 1 .. turn - 1
              PROVE  /\ entry'[v][i].weights = ServedWith[v] /\ entry'[v][i].prompt = ServedAs[v]
                     /\ entry'[v][i].given = [k \in 1..(i - 1) |-> entry'[v][k].reply]
                     /\ Jobs[measuring].kind = "term" /\ Jobs[measuring].expect[i].shorter /\ i > 1 /\ entry'[v][i].pass
                        => entry'[v][i].reply.length < entry'[v][i - 1].reply.length
            <4>1. \A k \in 1 .. i - 1 : entry'[v][k] = entry[v][k]
                BY <3>1
            <4>2. i > 1 => i - 1 \in 1 .. i - 1
                OBVIOUS
            <4>3. /\ entry[v][i].weights = ServedWith[v] /\ entry[v][i].prompt = ServedAs[v]
                  /\ entry[v][i].given = [k \in 1..(i - 1) |-> entry[v][k].reply]
                  /\ Jobs[measuring].kind = "term" /\ Jobs[measuring].expect[i].shorter /\ i > 1 /\ entry[v][i].pass
                     => entry[v][i].reply.length < entry[v][i - 1].reply.length
                BY <3>1, <3>2 DEF Alike
            <4>4. entry'[v][i] = entry[v][i] /\ (i > 1 => entry'[v][i - 1] = entry[v][i - 1])
                BY <3>1, <4>1, <4>2
            <4>5. [k \in 1..(i - 1) |-> entry'[v][k].reply] = [k \in 1..(i - 1) |-> entry[v][k].reply]
                BY <4>1
            <4> QED
                BY <4>3, <4>4, <4>5
        <3>4. row.given = [k \in 1..(turn - 1) |-> entry'[v][k].reply]
            <4>1. history = [k \in 1 .. Len(entry[v]) |-> entry[v][k].reply]
                BY <1>6 DEF SaidSoFar
            <4> QED
                BY <1>1, <1>7, <3>1, <4>1
        <3>5. Jobs[measuring].kind = "term" /\ Jobs[measuring].expect[turn].shorter /\ turn > 1 /\ row.pass
              => row.reply.length < entry'[v][turn - 1].reply.length
            <4> SUFFICES ASSUME Jobs[measuring].kind = "term", expect[turn].shorter, turn > 1, passes
                         PROVE  reply.length < entry'[v][turn - 1].reply.length
                BY <1>1, <1>7
            <4>1. TurnPasses(reply, expect[turn], history)
                BY <1>3
            <4>2. PICK n \in 1 .. Len(entry[v]) : n = turn - 1 /\ n = Len(entry[v])
                BY <1>1, <3>1
            <4>3. DOMAIN history = 1 .. n /\ history[n] = entry[v][n].reply
                BY <1>6, <4>2 DEF SaidSoFar
            <4>4. history # <<>> /\ Last(history) = history[n]
                <5>1. Len(history) \in Nat /\ DOMAIN history = 1 .. Len(history)
                    BY <1>5
                <5>2. Len(history) = n
                    BY <4>3, <5>1, <3>1, <4>2
                <5> QED
                    BY <5>1, <5>2, <4>2 DEF Last
            <4>5. reply.length < Last(history).length
                BY <4>1, <4>4 DEF TurnPasses
            <4>6. entry'[v][n] = entry[v][n]
                BY <3>1, <4>2
            <4> QED
                BY <4>2, <4>3, <4>4, <4>5, <4>6
        <3>6. ASSUME NEW i \in 1 .. turn
              PROVE  /\ entry'[v][i].weights = ServedWith[v] /\ entry'[v][i].prompt = ServedAs[v]
                     /\ entry'[v][i].given = [k \in 1..(i - 1) |-> entry'[v][k].reply]
                     /\ Jobs[measuring].kind = "term" /\ Jobs[measuring].expect[i].shorter /\ i > 1 /\ entry'[v][i].pass
                        => entry'[v][i].reply.length < entry'[v][i - 1].reply.length
            <4>1. CASE i = turn
                BY <4>1, <1>7, <3>1, <3>4, <3>5
            <4>2. CASE i # turn
                <5>1. i \in 1 .. turn - 1
                    BY <3>1, <4>2
                <5> QED
                    BY <5>1, <3>3
            <4> QED
                BY <4>1, <4>2
        <3>7. Alike(v)'
            BY <1>5, <3>1, <3>6 DEF Alike
        <3> QED
            BY <2>1, <3>7
    <2>2. CASE u # v
        <3>1. entry'[u] = entry[u] /\ measuring' = measuring
            BY <1>5, <1>8, <2>2
        <3>2. Alike(u)
            BY DEF PostInv
        <3> QED
            BY <3>1, <3>2 DEF Alike
    <2> QED
        BY <2>1, <2>2
<1>11. CASE turn = Len(expect)
    <2>1. runs' = Tail(runs) /\ history' = <<>>
        BY <1>5, <1>11 DEF HistoryAfter
    <2>2. /\ runs' \in Seq(Variants) /\ \A i, j \in DOMAIN runs' : i # j => runs'[i] # runs'[j]
          /\ \A i \in DOMAIN runs' : runs'[i] # v /\ entry[runs'[i]] = <<>>
        BY <1>1, <1>5, <2>1, NextVariant
    <2>a. \A i \in DOMAIN runs' : runs'[i] \in Variants
        BY <2>2
    <2>3. \A i \in DOMAIN runs' : entry'[runs'[i]] = <<>>
        BY <1>8, <2>2, <2>a
    <2>4. SaidSoFar(<<>>) = <<>>
        BY DEF SaidSoFar
    <2>5. history' = IF runs' = <<>> THEN <<>> ELSE SaidSoFar(entry'[runs'[1]])
        <3>1. runs' # <<>> => 1 \in DOMAIN runs'
            BY <2>2
        <3> QED
            BY <2>1, <2>3, <2>4, <3>1
    <2>6. history' \in Seq(ModelReplies)
        BY <2>1
    <2> QED
        BY <1>8, <1>10, <2>2, <2>3, <2>5, <2>6 DEF PostInv
<1>12. CASE turn # Len(expect)
    <2>1. runs' = runs /\ history' = Append(history, reply)
        BY <1>5, <1>12 DEF HistoryAfter
    <2>2. 1 \in DOMAIN runs /\ \A i \in DOMAIN runs : i > 1 => runs[i] # v /\ entry[runs[i]] = <<>> /\ runs[i] \in Variants
        BY <1>1, <1>5 DEF PostInv
    <2>3. \A i \in DOMAIN runs' : i > 1 \/ Jobs[measuring'].kind = "loss" => entry'[runs'[i]] = <<>>
        BY <1>5, <1>8, <2>1, <2>2
    <2>4. history' \in Seq(ModelReplies)
        <3>1. history \in Seq(ModelReplies)
            BY <1>5
        <3> QED
            BY <2>1, <3>1
    <2>5. history' = SaidSoFar(entry'[runs'[1]])
        BY <1>1, <1>9, <2>1
    <2> QED
        BY <1>5, <1>8, <1>10, <2>1, <2>3, <2>4, <2>5 DEF PostInv
<1> QED
    BY <1>11, <1>12

LEMMA FinishJobKeeps == ASSUME PostInv, FinishJob PROVE PostInv'
<1>1. /\ runs = <<>> /\ entry' = [v \in Variants |-> <<>>] /\ history' = history
      /\ runs' = <<>> \/ \E kind : runs' = Order(kind)
    BY DEF FinishJob, NoEntry
<1>2. runs' \in Seq(Variants) /\ \A i, j \in DOMAIN runs' : i # j => runs'[i] # runs'[j]
    <2>1. <<>> \in Seq(Variants) /\ DOMAIN <<>> = {}
        OBVIOUS
    <2> QED
        BY <1>1, <2>1, OrderTypes
<1>3. \A i \in DOMAIN runs' : runs'[i] \in Variants /\ entry'[runs'[i]] = <<>>
    BY <1>1, <1>2
<1>4. history = <<>> /\ SaidSoFar(<<>>) = <<>>
    BY <1>1 DEF PostInv, SaidSoFar
<1>5. history' = IF runs' = <<>> THEN <<>> ELSE SaidSoFar(entry'[runs'[1]])
    <2>1. runs' # <<>> => 1 \in DOMAIN runs'
        BY <1>2
    <2> QED
        BY <1>1, <1>3, <1>4, <2>1
<1>6. \A v \in Variants : Alike(v)'
    BY <1>1 DEF Alike
<1>7. entry' \in [Variants -> Seq(MeasuredRows)] /\ history' \in Seq(ModelReplies)
    BY <1>1, <1>4
<1> QED
    BY <1>2, <1>3, <1>5, <1>6, <1>7 DEF PostInv

LEMMA PostStep == PostInv /\ [PostNext]_postVars => PostInv'
<1> SUFFICES ASSUME PostInv, [PostNext]_postVars PROVE PostInv'
    OBVIOUS
<1>1. CASE UNCHANGED postVars
    BY <1>1 DEF postVars, PostInv, Alike
<1> QED
    BY <1>1, MeasureLossKeeps, AnswerKeeps, FinishJobKeeps DEF PostNext

-----------------------------------------------------------------------------
(***************************************************************************)
(* The curation. The files of an id that was given to one record only all  *)
(* say the same (a torn file: was to say); a move under way has its new    *)
(* file, which is whole; what somebody decided is in no draft; and a       *)
(* snapshot that has a manifest is the manifest.                           *)
(***************************************************************************)
RecordFiles == [text : Texts, status : Statuses, repaired : BOOLEAN]
Decisions == {"none"} \cup Statuses
InPlace(p, r) == r \in RecordFiles /\ DirOf(r.status) = p[1]

FileInv == DOMAIN files = Paths /\ \A p \in Paths : files[p] # NoFile => InPlace(p, files[p])
LessonInv ==
    /\ DOMAIN lesson = Lessons
    /\ \A w \in Lessons : /\ DOMAIN lesson[w] = {"pc", "number", "text"}
                          /\ lesson[w].pc # "idle" => lesson[w].number \in Numbers /\ lesson[w].text \in Texts
SameText(n) ==
    \A d, e \in Dirs : files[<<d, n>>] # NoFile /\ files[<<e, n>>] # NoFile => files[<<d, n>>].text = files[<<e, n>>].text
TextInv == \A n \in Numbers \ collided : SameText(n)
NoDraftLeft(n) == files[<<"drafts", n>>] # NoFile => files[<<"drafts", n>>].status # "draft"
DecidedInv ==
    /\ DOMAIN decided = Numbers
    /\ \A n \in Numbers \ collided : decided[n] \notin {"none", "draft"} => Exists(n) /\ NoDraftLeft(n)
CommandInv ==
    /\ DOMAIN command = {"kind", "ids", "to", "old"}
    /\ command.to \in Statuses /\ command.old \in Paths \cup {NoFile}
    /\ command.old # NoFile => command.kind \in {"review", "bulk"}
Moved(n, to, old) ==
    /\ files[NewFile(n, to)] # NoFile /\ files[NewFile(n, to)].status = to /\ NewFile(n, to) \notin torn
    /\ n \in collided \/ old = <<"drafts", n>> \/ DirOf(to) = "drafts" \/ files[<<"drafts", n>>] = NoFile
MoveInv == command.old # NoFile => Moved(command.old[2], command.to, command.old)
SnapshotInv ==
    /\ DOMAIN snapshot = {"taken", "files", "manifest"}
    /\ \A f \in snapshot.files : \E p \in Paths : \E r \in RecordFiles : f = <<p, r>> /\ InPlace(p, r)
    /\ snapshot.manifest # NoFile => snapshot.taken /\ command.kind # "snapshot" /\ snapshot.manifest = snapshot.files
    /\ command.kind = "snapshot" => snapshot.taken \/ "drafts" \in command.ids
    /\ command.kind = "restore" => \A p \in command.ids : \E f \in snapshot.files : f[1] = p
CurationInv == FileInv /\ LessonInv /\ TextInv /\ DecidedInv /\ CommandInv /\ MoveInv /\ SnapshotInv

LEMMA PathParts ==
    /\ \A d \in Dirs, n \in Numbers : <<d, n>> \in Paths
    /\ \A p \in Paths : p[1] \in Dirs /\ p[2] \in Numbers /\ p = <<p[1], p[2]>>
    BY DEF Paths

LEMMA DirsOfStatuses == \A s \in Statuses : DirOf(s) \in Dirs
    BY DEF Statuses, DirOf, Dirs

LEMMA RecordParts ==
    ASSUME NEW r \in RecordFiles
    PROVE  /\ r # NoFile /\ r.text \in Texts /\ r.status \in Statuses
           /\ \A s \in Statuses : /\ [r EXCEPT !.status = s] \in RecordFiles /\ [r EXCEPT !.status = s].status = s
                                  /\ [r EXCEPT !.status = s].text = r.text
           /\ [r EXCEPT !.repaired = TRUE] \in RecordFiles /\ [r EXCEPT !.repaired = TRUE].status = r.status
           /\ [r EXCEPT !.repaired = TRUE].text = r.text
    BY NoFileAssumption DEF RecordFiles

LEMMA RecordMade == \A t \in Texts, s \in Statuses : [text |-> t, status |-> s, repaired |-> FALSE] \in RecordFiles
    BY DEF RecordFiles

LEMMA ExistsSomewhere ==
    ASSUME NEW n \in Numbers
    PROVE  /\ Exists(n) <=> \E d \in Dirs : files[<<d, n>>] # NoFile
           /\ Exists(n)' <=> \E d \in Dirs : files'[<<d, n>>] # NoFile
<1>1. \A p : p \in Dirs \X {n} <=> \E d \in Dirs : p = <<d, n>>
    OBVIOUS
<1>2. Exists(n) <=> \E p \in Dirs \X {n} : files[p] # NoFile
    BY DEF Exists, Present
<1>3. Exists(n)' <=> \E p \in Dirs \X {n} : files'[p] # NoFile
    BY DEF Exists, Present
<1> QED
    BY <1>1, <1>2, <1>3

\* The record's path is where it is, and where its draft is if it has one.
LEMMA FoundPath ==
    ASSUME FileInv, NEW n \in Numbers, Exists(n)
    PROVE  \E d \in Dirs : /\ FindPath(n) = <<d, n>> /\ files[<<d, n>>] # NoFile
                           /\ files[<<"drafts", n>>] # NoFile => d = "drafts"
<1> DEFINE There == Present(Dirs \X {n})
           First(p) == /\ <<"drafts", n>> \in Present(Paths) => p[1] = "drafts"
                       /\ p[1] = "rejected" => <<"approved", n>> \notin Present(Paths)
<1>1. \A p : p \in There <=> \E d \in Dirs : p = <<d, n>> /\ files[p] # NoFile
    BY DEF Present
<1>2. \A d \in Dirs : <<d, n>> \in Present(Paths) <=> files[<<d, n>>] # NoFile
    BY PathParts DEF Present
<1>3. \E p \in There : First(p)
    <2>1. CASE files[<<"drafts", n>>] # NoFile
        <3>1. <<"drafts", n>> \in There /\ First(<<"drafts", n>>)
            BY <1>1, <2>1 DEF Dirs
        <3> QED
            BY <3>1
    <2>2. CASE files[<<"drafts", n>>] = NoFile /\ files[<<"approved", n>>] # NoFile
        <3>1. <<"approved", n>> \in There
            BY <1>1, <2>2 DEF Dirs
        <3>2. <<"drafts", n>> \notin Present(Paths)
            BY <1>2, <2>2 DEF Dirs
        <3>3. First(<<"approved", n>>)
            BY <3>2
        <3> QED
            BY <3>1, <3>3
    <2>3. CASE files[<<"drafts", n>>] = NoFile /\ files[<<"approved", n>>] = NoFile
        <3>1. files[<<"rejected", n>>] # NoFile
            BY <2>3, ExistsSomewhere DEF Dirs
        <3>2. <<"rejected", n>> \in There
            BY <1>1, <3>1 DEF Dirs
        <3>3. <<"drafts", n>> \notin Present(Paths) /\ <<"approved", n>> \notin Present(Paths)
            BY <1>2, <2>3 DEF Dirs
        <3>4. First(<<"rejected", n>>)
            BY <3>3
        <3> QED
            BY <3>2, <3>4
    <2> QED
        BY <2>1, <2>2, <2>3
<1>4. FindPath(n) = CHOOSE p \in There : First(p)
    BY DEF FindPath
<1>5. FindPath(n) \in There /\ First(FindPath(n))
    <2> HIDE DEF There, First
    <2> QED
        BY <1>3, <1>4
<1>6. PICK d \in Dirs : FindPath(n) = <<d, n>> /\ files[<<d, n>>] # NoFile
    BY <1>1, <1>5
<1>7. ASSUME files[<<"drafts", n>>] # NoFile PROVE d = "drafts"
    <2>1. <<"drafts", n>> \in Present(Paths)
        BY <1>2, <1>7 DEF Dirs
    <2>2. FindPath(n)[1] = "drafts"
        BY <1>5, <2>1
    <2> QED
        BY <1>6, <2>2
<1> QED
    BY <1>6, <1>7

LEMMA CurationBegins == CurationInit => CurationInv
<1> SUFFICES ASSUME CurationInit PROVE CurationInv
    OBVIOUS
<1>1. PICK r \in {NoFile} \cup [text : Texts, status : {"draft"}, repaired : {FALSE}] :
        files = [p \in Paths |-> IF p = <<"drafts", 1>> THEN r ELSE NoFile]
    BY DEF CurationInit
<1>2. r # NoFile => r \in RecordFiles /\ r.status = "draft"
    BY <1>1 DEF RecordFiles, Statuses
<1>3. FileInv
    <2>1. DOMAIN files = Paths
        BY <1>1
    <2>2. ASSUME NEW p \in Paths, files[p] # NoFile PROVE InPlace(p, files[p])
        <3>1. p = <<"drafts", 1>> /\ files[p] = r
            BY <1>1, <2>2
        <3>2. r \in RecordFiles /\ r.status = "draft" /\ DirOf("draft") = "drafts"
            BY <1>2, <2>2, <3>1 DEF DirOf
        <3> QED
            BY <3>1, <3>2 DEF InPlace
    <2> QED
        BY <2>1, <2>2 DEF FileInv
<1>4. LessonInv
    BY DEF CurationInit, LessonInv, Listening
<1>5. TextInv
    <2> SUFFICES ASSUME NEW n \in Numbers, NEW d \in Dirs, NEW e \in Dirs, files[<<d, n>>] # NoFile, files[<<e, n>>] # NoFile
                 PROVE  files[<<d, n>>].text = files[<<e, n>>].text
        BY DEF TextInv, SameText
    <2>1. <<d, n>> = <<"drafts", 1>> /\ <<e, n>> = <<"drafts", 1>>
        BY <1>1, PathParts
    <2> QED
        BY <2>1
<1>6. DecidedInv
    BY DEF CurationInit, DecidedInv
<1>7. CommandInv /\ MoveInv
    BY DEF CurationInit, CommandInv, MoveInv, Idle, Statuses
<1>8. SnapshotInv
    BY DEF CurationInit, SnapshotInv, Idle
<1> QED
    BY <1>3, <1>4, <1>5, <1>6, <1>7, <1>8 DEF CurationInv

\* One file is written: the others are as they were.
LEMMA OneWritten ==
    ASSUME FileInv, NEW p \in Paths, NEW r, InPlace(p, r), files' = [files EXCEPT ![p] = r]
    PROVE  /\ FileInv' /\ files'[p] = r /\ r # NoFile /\ Exists(p[2])'
           /\ \A q \in Paths : q # p => files'[q] = files[q]
           /\ \A n \in Numbers : Exists(n) => Exists(n)'
<1>1. files'[p] = r /\ DOMAIN files' = Paths /\ \A q \in Paths : q # p => files'[q] = files[q]
    BY DEF FileInv
<1>2. r # NoFile
    BY RecordParts DEF InPlace
<1>3. FileInv'
    BY <1>1 DEF FileInv, InPlace
<1>4. p[1] \in Dirs /\ p[2] \in Numbers /\ p = <<p[1], p[2]>>
    BY PathParts
<1>5. Exists(p[2])'
    BY <1>1, <1>2, <1>4, ExistsSomewhere
<1>6. ASSUME NEW n \in Numbers, Exists(n) PROVE Exists(n)'
    <2>1. PICK d \in Dirs : files[<<d, n>>] # NoFile
        BY <1>6, ExistsSomewhere
    <2>2. files'[<<d, n>>] # NoFile
        BY <1>1, <1>2, <2>1, PathParts
    <2> QED
        BY <2>2, ExistsSomewhere
<1> QED
    BY <1>1, <1>2, <1>3, <1>5, <1>6

\* What a record says is still said, when its file is not touched or written with the same text.
LEMMA KeptIfThere ==
    ASSUME NEW n \in Numbers,
           \A d \in Dirs : files[<<d, n>>] # NoFile /\ <<d, n>> \notin torn =>
               \E e \in Dirs : /\ <<e, n>> \notin torn' /\ files'[<<e, n>>] # NoFile
                               /\ files'[<<e, n>>].text = files[<<d, n>>].text
    PROVE  Kept(n)
<1> SUFFICES ASSUME NEW p \in Present(Dirs \X {n}) \ torn
             PROVE  \E e \in Dirs : /\ <<e, n>> \notin torn' /\ files'[<<e, n>>] # NoFile
                                    /\ files'[<<e, n>>].text = files[p].text
    BY DEF Kept
<1>1. PICK d \in Dirs : p = <<d, n>> /\ files[p] # NoFile /\ p \notin torn
    BY DEF Present
<1> QED
    BY <1>1

LEMMA KeptIfUntouched ==
    ASSUME NEW n \in Numbers,
           \A d \in Dirs : files'[<<d, n>>] = files[<<d, n>>] /\ (<<d, n>> \in torn' => <<d, n>> \in torn)
    PROVE  Kept(n)
    BY KeptIfThere

\* A write, ended or not, concerns one file.
LEMMA OneTorn ==
    ASSUME NEW p, WriteEnds(p) \/ WriteDies(p)
    PROVE  \A q : q # p => (q \in torn' <=> q \in torn)
    BY DEF WriteEnds, WriteDies

\* A new record, of an import or of a lesson.
LEMMA SaveKeeps ==
    ASSUME CurationInv, NEW n \in Numbers, NEW text \in Texts, NEW status \in Statuses, SaveNew(n, text, status),
           UNCHANGED <<command, snapshot, decided>>
    PROVE  /\ FileInv' /\ TextInv' /\ DecidedInv' /\ CommandInv' /\ MoveInv' /\ SnapshotInv'
           /\ \A m \in Numbers : Kept(m)
<1>1. PICK p : p = <<DirOf(status), n>>
    OBVIOUS
<1>2. PICK r : r = [text |-> text, status |-> status, repaired |-> FALSE]
    OBVIOUS
<1>3. p \in Paths /\ p[1] = DirOf(status) /\ p[2] = n /\ files[p] = NoFile
    BY <1>1, PathParts, DirsOfStatuses DEF SaveNew
<1>4. r \in RecordFiles /\ r.status = status /\ InPlace(p, r)
    BY <1>2, <1>3, RecordMade DEF InPlace
<1>5. files' = [files EXCEPT ![p] = r]
    BY <1>1, <1>2 DEF SaveNew
<1>6. /\ FileInv' /\ files'[p] = r /\ r # NoFile /\ Exists(n)'
      /\ \A q \in Paths : q # p => files'[q] = files[q]
      /\ \A m \in Numbers : Exists(m) => Exists(m)'
    BY <1>3, <1>4, <1>5, OneWritten DEF CurationInv
<1>7. collided' = IF Exists(n) THEN collided \cup {n} ELSE collided
    BY DEF SaveNew
<1>8. \A m \in Numbers, d \in Dirs : files[<<d, m>>] # NoFile =>
         files'[<<d, m>>] = files[<<d, m>>] /\ (<<d, m>> \in torn' <=> <<d, m>> \in torn)
    <2>1. \A q : q # p => (q \in torn' <=> q \in torn)
        BY <1>1, OneTorn DEF SaveNew
    <2> QED
        BY <1>3, <1>6, <2>1, PathParts
<1>9. \A m \in Numbers \ {n}, d \in Dirs : files'[<<d, m>>] = files[<<d, m>>]
    <2> TAKE m \in Numbers \ {n}, d \in Dirs
    <2>1. <<d, m>> \in Paths /\ <<d, m>> # p
        BY <1>1, PathParts
    <2> QED
        BY <1>6, <2>1
<1>10. \A m \in Numbers \ collided' : m \notin collided /\ (m = n => \A d \in Dirs : files[<<d, m>>] = NoFile)
    BY <1>7, ExistsSomewhere DEF CurationInv
<1>11. TextInv'
    <2> SUFFICES ASSUME NEW m \in Numbers \ collided', NEW d \in Dirs, NEW e \in Dirs,
                        files'[<<d, m>>] # NoFile, files'[<<e, m>>] # NoFile
                 PROVE  files'[<<d, m>>].text = files'[<<e, m>>].text
        BY DEF TextInv, SameText
    <2>1. CASE m = n
        <3>1. \A c \in Dirs : files'[<<c, m>>] # NoFile => <<c, m>> = p
            BY <1>6, <1>10, <2>1, PathParts
        <3> QED
            BY <3>1
    <2>2. CASE m # n
        BY <1>9, <1>10, <2>2 DEF CurationInv, TextInv, SameText
    <2> QED
        BY <2>1, <2>2
<1>12. DecidedInv'
    <2> SUFFICES ASSUME NEW m \in Numbers \ collided', decided[m] \notin {"none", "draft"}
                 PROVE  Exists(m)' /\ NoDraftLeft(m)'
        BY DEF DecidedInv, CurationInv
    <2>1. Exists(m) /\ NoDraftLeft(m)
        BY <1>10 DEF DecidedInv, CurationInv
    <2>2. m # n
        BY <1>10, <2>1, ExistsSomewhere
    <2>3. files'[<<"drafts", m>>] = files[<<"drafts", m>>]
        BY <1>9, <2>2 DEF Dirs
    <2> QED
        BY <1>6, <2>1, <2>3 DEF NoDraftLeft
<1>13. CommandInv' /\ SnapshotInv'
    BY DEF CurationInv, CommandInv, SnapshotInv, InPlace, DirOf, RecordFiles
<1>14. MoveInv'
    <2> SUFFICES ASSUME command.old # NoFile PROVE Moved(command.old[2], command.to, command.old)'
        BY DEF MoveInv
    <2>1. PICK m \in Numbers : m = command.old[2]
        BY PathParts DEF CurationInv, CommandInv
    <2>2. PICK to \in Statuses : to = command.to
        BY DEF CurationInv, CommandInv
    <2>3. Moved(m, to, command.old)
        BY <2>1, <2>2 DEF CurationInv, MoveInv
    <2>4. NewFile(m, to) = <<DirOf(to), m>> /\ DirOf(to) \in Dirs
        BY <2>2, DirsOfStatuses DEF NewFile
    <2>5. files'[NewFile(m, to)] = files[NewFile(m, to)] /\ NewFile(m, to) \notin torn'
        BY <1>8, <2>3, <2>4 DEF Moved
    <2>6. m \in collided' \/ files'[<<"drafts", m>>] = files[<<"drafts", m>>]
        <3>1. CASE m = n
            BY <1>7, <2>3, <2>4, <3>1, ExistsSomewhere DEF Moved
        <3>2. CASE m # n
            BY <1>9, <3>2 DEF Dirs
        <3> QED
            BY <3>1, <3>2
    <2>7. m \in collided => m \in collided'
        BY <1>7
    <2> QED
        BY <2>1, <2>2, <2>3, <2>5, <2>6, <2>7 DEF Moved, NewFile, DirOf
<1>15. \A m \in Numbers : Kept(m)
    <2> TAKE m \in Numbers
    <2> QED
        BY <1>8, KeptIfThere
<1> QED
    BY <1>6, <1>11, <1>12, <1>13, <1>14, <1>15

LEMMA IdleIs == Idle.kind = "idle" /\ Idle.old = NoFile /\ Idle.to \in Statuses /\ DOMAIN Idle = {"kind", "ids", "to", "old"}
    BY DEF Idle, Statuses

\* A move writes the new file and remembers the old one; what was decided by a person is not moved by a bulk review.
LEMMA MoveKeeps ==
    ASSUME CurationInv, NEW n \in Numbers, NEW to \in Statuses, Loadable(n), Move(n, to),
           command.kind \in {"idle", "bulk"}, UNCHANGED <<lesson, snapshot, collided>>,
           \/ decided' = decided /\ HasStatus(n)
           \/ decided' = [decided EXCEPT ![n] = "none"]
    PROVE  /\ CurationInv' /\ \A m \in Numbers \ collided : Kept(m) \/ TornInPlace(m)
           /\ command'.old # NoFile => command'.old[2] = n
           /\ decided' = decided => n \in collided \/ decided[n] \in {"none", "draft"}
<1>0. Exists(n) /\ FindPath(n) \notin torn
    BY DEF Loadable
<1>1. PICK from \in Dirs : /\ FindPath(n) = <<from, n>> /\ files[<<from, n>>] # NoFile
                           /\ files[<<"drafts", n>>] # NoFile => from = "drafts"
    BY <1>0, FoundPath DEF CurationInv
<1>2. PICK old : old = files[<<from, n>>]
    OBVIOUS
<1>3. old \in RecordFiles /\ DirOf(old.status) = from
    BY <1>1, <1>2, PathParts DEF CurationInv, FileInv, InPlace
<1>4. PICK r : r = [old EXCEPT !.status = to]
    OBVIOUS
<1>5. r \in RecordFiles /\ r.status = to /\ r.text = old.text
    BY <1>3, <1>4, RecordParts
<1>6. PICK p : p = <<DirOf(to), n>>
    OBVIOUS
<1>7. p \in Paths /\ p[1] = DirOf(to) /\ p[2] = n /\ p = NewFile(n, to)
    BY <1>6, PathParts, DirsOfStatuses DEF NewFile
<1>8. files' = [files EXCEPT ![p] = r]
    BY <1>1, <1>2, <1>4, <1>7 DEF Move
<1>9. /\ FileInv' /\ files'[p] = r /\ r # NoFile /\ Exists(n)'
      /\ \A q \in Paths : q # p => files'[q] = files[q]
      /\ \A m \in Numbers : Exists(m) => Exists(m)'
    BY <1>5, <1>7, <1>8, OneWritten DEF CurationInv, InPlace
<1>10. \A m \in Numbers \ {n}, d \in Dirs : files'[<<d, m>>] = files[<<d, m>>]
    <2> TAKE m \in Numbers \ {n}, d \in Dirs
    <2>1. <<d, m>> \in Paths /\ <<d, m>> # p
        BY <1>6, PathParts
    <2> QED
        BY <1>9, <2>1
<1>11. \/ /\ DOMAIN command' = {"kind", "ids", "to", "old"} /\ command'.to = to /\ command'.old = <<from, n>>
          /\ command'.kind \in {"review", "bulk"} /\ p \notin torn'
       \/ command' = Idle
    <2>1. \/ /\ p \notin torn'
             /\ command' = [command EXCEPT !.kind = IF @ = "idle" THEN "review" ELSE @, !.to = to,
                                            !.old = <<from, n>>, !.ids = @ \ {n}]
          \/ command' = Idle
        BY <1>1, <1>7 DEF Move, WriteEnds
    <2>2. DOMAIN command = {"kind", "ids", "to", "old"}
        BY DEF CurationInv, CommandInv
    <2> QED
        BY <2>1, <2>2
<1>12. CommandInv'
    BY <1>11, PathParts, IdleIs DEF CommandInv
<1>13. MoveInv'
    <2>0. CASE command' = Idle
        BY <2>0, IdleIs DEF MoveInv
    <2> SUFFICES ASSUME command' # Idle PROVE MoveInv'
        BY <2>0
    <2>1. Moved(n, to, <<from, n>>)'
        <3>1. files'[NewFile(n, to)] # NoFile /\ files'[NewFile(n, to)].status = to /\ NewFile(n, to) \notin torn'
            BY <1>5, <1>7, <1>9, <1>11
        <3>2. from = "drafts" \/ DirOf(to) = "drafts" \/ files'[<<"drafts", n>>] = NoFile
            <4>1. <<"drafts", n>> \in Paths
                BY PathParts DEF Dirs
            <4> QED
                BY <1>1, <1>6, <1>9, <4>1
        <3> QED
            BY <3>1, <3>2 DEF Moved, NewFile, DirOf
    <2>2. command'.old[2] = n
        BY <1>11
    <2> QED
        BY <1>11, <2>1, <2>2 DEF MoveInv, Moved, NewFile, DirOf
<1>14. SnapshotInv'
    BY <1>11, IdleIs DEF CurationInv, SnapshotInv, InPlace, DirOf, RecordFiles
<1>15. LessonInv'
    BY DEF CurationInv, LessonInv
<1>16. n \notin collided => \A d \in Dirs : files[<<d, n>>] # NoFile => files[<<d, n>>].text = old.text
    BY <1>1, <1>2 DEF CurationInv, TextInv, SameText
<1>17. n \notin collided => \A d \in Dirs : files'[<<d, n>>] # NoFile => files'[<<d, n>>].text = old.text
    <2> SUFFICES ASSUME n \notin collided, NEW d \in Dirs, files'[<<d, n>>] # NoFile PROVE files'[<<d, n>>].text = old.text
        OBVIOUS
    <2>1. CASE <<d, n>> = p
        BY <1>5, <1>9, <2>1
    <2>2. CASE <<d, n>> # p
        BY <1>9, <1>16, <2>2, PathParts
    <2> QED
        BY <2>1, <2>2
<1>18. TextInv'
    <2> SUFFICES ASSUME NEW m \in Numbers \ collided, NEW d \in Dirs, NEW e \in Dirs,
                        files'[<<d, m>>] # NoFile, files'[<<e, m>>] # NoFile
                 PROVE  files'[<<d, m>>].text = files'[<<e, m>>].text
        BY DEF TextInv, SameText
    <2>1. CASE m = n
        BY <1>17, <2>1
    <2>2. CASE m # n
        BY <1>10, <2>2 DEF CurationInv, TextInv, SameText
    <2> QED
        BY <2>1, <2>2
<1>19. HasStatus(n) => n \in collided \/ decided[n] \in {"none", "draft"}
    <2> SUFFICES ASSUME HasStatus(n), n \notin collided, decided[n] \notin {"none", "draft"} PROVE FALSE
        OBVIOUS
    <2>1. old.status = "draft"
        BY <1>1, <1>2 DEF HasStatus
    <2>2. from = "drafts"
        BY <1>3, <2>1 DEF DirOf
    <2>3. NoDraftLeft(n)
        BY DEF CurationInv, DecidedInv
    <2> QED
        BY <1>1, <1>2, <2>1, <2>2, <2>3 DEF NoDraftLeft
<1>20. DecidedInv'
    <2>1. DOMAIN decided' = Numbers
        BY DEF CurationInv, DecidedInv
    <2>2. ASSUME NEW m \in Numbers \ collided, decided'[m] \notin {"none", "draft"} PROVE Exists(m)' /\ NoDraftLeft(m)'
        <3>1. m # n /\ decided'[m] = decided[m]
            BY <1>19, <2>2 DEF CurationInv, DecidedInv
        <3>2. Exists(m) /\ NoDraftLeft(m)
            BY <2>2, <3>1 DEF CurationInv, DecidedInv
        <3>3. files'[<<"drafts", m>>] = files[<<"drafts", m>>]
            BY <1>10, <3>1 DEF Dirs
        <3> QED
            BY <1>9, <3>2, <3>3 DEF NoDraftLeft
    <2> QED
        BY <2>1, <2>2 DEF DecidedInv
<1>21. \A m \in Numbers \ collided : Kept(m) \/ TornInPlace(m)
    <2> TAKE m \in Numbers \ collided
    <2>0. \A q : q # p => (q \in torn' <=> q \in torn)
        BY <1>7, OneTorn DEF Move
    <2>1. CASE m # n
        <3>1. \A d \in Dirs : <<d, m>> # p
            BY <1>6, <2>1
        <3> QED
            BY <1>10, <2>0, <2>1, <3>1, KeptIfUntouched
    <2>2. CASE m = n /\ p \notin torn'
        <3>1. /\ DirOf(to) \in Dirs /\ <<DirOf(to), n>> \notin torn'
              /\ files'[<<DirOf(to), n>>] # NoFile /\ files'[<<DirOf(to), n>>].text = old.text
            BY <1>5, <1>6, <1>9, <2>2, DirsOfStatuses
        <3> QED
            BY <1>16, <2>2, <3>1, KeptIfThere
    <2>3. CASE m = n /\ p \in torn' /\ p # <<from, n>>
        <3>1. <<from, n>> \notin torn' /\ files'[<<from, n>>] = files[<<from, n>>]
            BY <1>0, <1>1, <1>9, <2>0, <2>3, PathParts
        <3> QED
            BY <1>1, <1>2, <1>16, <2>3, <3>1, KeptIfThere
    <2>4. CASE m = n /\ p \in torn' /\ p = <<from, n>>
        BY <1>0, <1>1, <2>0, <2>4 DEF TornInPlace
    <2> QED
        BY <2>1, <2>2, <2>3, <2>4
<1>22. decided' = decided => n \in collided \/ decided[n] \in {"none", "draft"}
    BY <1>19 DEF CurationInv, DecidedInv
<1>23. command'.old # NoFile => command'.old[2] = n
    BY <1>11, IdleIs
<1> QED
    BY <1>23, <1>9, <1>11, <1>12, <1>13, <1>14, <1>15, <1>18, <1>20, <1>21, <1>22 DEF CurationInv

LEMMA FinishKeeps ==
    ASSUME CurationInv, FinishMove
    PROVE  CurationInv' /\ \A m \in Numbers \ collided : Kept(m)
<1>1. PICK old : old = command.old
    OBVIOUS
<1>2. PICK n : n = old[2]
    OBVIOUS
<1>3. PICK to : to = command.to
    OBVIOUS
<1>4. old \in Paths /\ old[1] \in Dirs /\ n \in Numbers /\ old = <<old[1], n>> /\ to \in Statuses /\ old # NoFile
    BY <1>1, <1>2, <1>3, PathParts DEF CurationInv, CommandInv, FinishMove
<1>5. PICK p : p = <<DirOf(to), n>>
    OBVIOUS
<1>6. p \in Paths /\ DirOf(to) \in Dirs /\ p = NewFile(n, to)
    BY <1>4, <1>5, PathParts, DirsOfStatuses DEF NewFile
<1>7. Moved(n, to, old)
    BY <1>1, <1>2, <1>3, <1>4 DEF CurationInv, MoveInv
<1>8. \A q \in Paths : RemoveOld(q, old) <=> q # old \/ q = p
    BY <1>2, <1>3, <1>5 DEF RemoveOld
<1>9. files' = [q \in Paths |-> IF RemoveOld(q, old) THEN files[q] ELSE NoFile]
    BY <1>1 DEF FinishMove
<1>10. DOMAIN files' = Paths /\ \A q \in Paths : files'[q] = IF q # old \/ q = p THEN files[q] ELSE NoFile
    BY <1>8, <1>9
<1>11. FileInv'
    BY <1>10 DEF CurationInv, FileInv, InPlace, DirOf, RecordFiles
<1>12. files'[p] = files[p] /\ files[p] # NoFile /\ files[p].status = to
    BY <1>6, <1>7, <1>10 DEF Moved
<1>13. \A m \in Numbers \ {n}, d \in Dirs : files'[<<d, m>>] = files[<<d, m>>]
    <2> TAKE m \in Numbers \ {n}, d \in Dirs
    <2>1. <<d, m>> \in Paths /\ <<d, m>> # old
        BY <1>4, PathParts
    <2> QED
        BY <1>10, <2>1
<1>14. Exists(n)'
    BY <1>4, <1>5, <1>6, <1>12, ExistsSomewhere
<1>15. \A m \in Numbers : Exists(m) => Exists(m)'
    <2> TAKE m \in Numbers
    <2> QED
        BY <1>4, <1>13, <1>14, ExistsSomewhere
<1>16. TextInv'
    <2> SUFFICES ASSUME NEW m \in Numbers \ collided, NEW d \in Dirs, NEW e \in Dirs,
                        files'[<<d, m>>] # NoFile, files'[<<e, m>>] # NoFile
                 PROVE  files'[<<d, m>>].text = files'[<<e, m>>].text
        BY DEF TextInv, SameText, FinishMove
    <2>1. files'[<<d, m>>] = files[<<d, m>>] /\ files'[<<e, m>>] = files[<<e, m>>]
        BY <1>10, PathParts
    <2> QED
        BY <2>1 DEF CurationInv, TextInv, SameText
<1>17. /\ DOMAIN decided' = Numbers
       /\ decided'[n] \in {to, decided[n]}
       /\ \A m \in Numbers \ {n} : decided'[m] = decided[m]
    <2>1. decided' = [decided EXCEPT ![n] = IF command.kind = "review" THEN to ELSE decided[n]]
        BY <1>1, <1>2, <1>3 DEF FinishMove
    <2> QED
        BY <1>4, <2>1 DEF CurationInv, DecidedInv
<1>18. DecidedInv'
    <2>1. DOMAIN decided' = Numbers
        BY <1>17
    <2>2. ASSUME NEW m \in Numbers \ collided', decided'[m] \notin {"none", "draft"} PROVE Exists(m)' /\ NoDraftLeft(m)'
        <3>1. m \notin collided /\ <<"drafts", m>> \in Paths
            BY PathParts DEF FinishMove, Dirs
        <3>2. CASE decided'[m] = decided[m]
            <4>1. Exists(m) /\ NoDraftLeft(m)
                BY <2>2, <3>1, <3>2 DEF CurationInv, DecidedInv
            <4>2. files'[<<"drafts", m>>] \in {files[<<"drafts", m>>], NoFile}
                BY <1>10, <3>1
            <4> QED
                BY <1>15, <4>1, <4>2 DEF NoDraftLeft
        <3>3. CASE decided'[m] # decided[m]
            <4>1. m = n /\ decided'[m] = to
                BY <1>17, <3>3
            <4>2. CASE DirOf(to) = "drafts"
                <5>1. files'[<<"drafts", n>>].status = to
                    BY <1>5, <1>12, <4>2
                <5> QED
                    BY <1>14, <2>2, <4>1, <5>1 DEF NoDraftLeft
            <4>3. CASE DirOf(to) # "drafts"
                <5>1. old = <<"drafts", n>> \/ files[<<"drafts", n>>] = NoFile
                    BY <1>7, <3>1, <4>1, <4>3 DEF Moved
                <5>2. <<"drafts", n>> # p
                    BY <1>5, <4>3
                <5>3. files'[<<"drafts", n>>] = NoFile
                    BY <1>10, <3>1, <4>1, <5>1, <5>2
                <5> QED
                    BY <1>14, <4>1, <5>3 DEF NoDraftLeft
            <4> QED
                BY <4>2, <4>3
        <3> QED
            BY <3>2, <3>3
    <2> QED
        BY <2>1, <2>2 DEF DecidedInv
<1>19. command' = Idle \/ command' = [command EXCEPT !.old = NoFile]
    BY DEF FinishMove
<1>20. CommandInv' /\ MoveInv'
    <2>1. DOMAIN command' = {"kind", "ids", "to", "old"} /\ command'.old = NoFile /\ command'.to \in Statuses
        BY <1>19 DEF Idle, CurationInv, CommandInv, Statuses
    <2> QED
        BY <2>1 DEF CommandInv, MoveInv
<1>21. SnapshotInv'
    <2>1. command'.kind = "idle" \/ command'.kind = command.kind
        BY <1>19 DEF Idle, CurationInv, CommandInv
    <2>2. command.kind \in {"review", "bulk"}
        BY <1>1, <1>4 DEF CurationInv, CommandInv
    <2> QED
        BY <2>1, <2>2 DEF CurationInv, SnapshotInv, FinishMove, InPlace, DirOf, RecordFiles
<1>22. LessonInv'
    BY DEF CurationInv, LessonInv, FinishMove
<1>23. \A m \in Numbers \ collided : Kept(m)
    <2> TAKE m \in Numbers \ collided
    <2>0. torn' \subseteq torn
        BY DEF FinishMove
    <2>1. CASE m # n
        BY <1>13, <2>0, <2>1, KeptIfUntouched
    <2>2. CASE m = n
        <3>1. /\ DirOf(to) \in Dirs /\ <<DirOf(to), m>> \notin torn'
              /\ files'[<<DirOf(to), m>>] # NoFile /\ files'[<<DirOf(to), m>>] = files[<<DirOf(to), m>>]
            BY <1>5, <1>6, <1>7, <1>12, <2>0, <2>2 DEF Moved
        <3>2. \A d \in Dirs : files[<<d, m>>] # NoFile => files'[<<DirOf(to), m>>].text = files[<<d, m>>].text
            BY <3>1 DEF CurationInv, TextInv, SameText
        <3> QED
            BY <3>1, <3>2, KeptIfThere
    <2> QED
        BY <2>1, <2>2
<1> QED
    BY <1>11, <1>16, <1>18, <1>20, <1>21, <1>22, <1>23 DEF CurationInv

\* Steps that leave the files alone keep what is said of them.
LEMMA QuietFiles ==
    ASSUME CurationInv, UNCHANGED <<files, torn, collided>>
    PROVE  /\ FileInv' /\ TextInv' /\ \A n \in Numbers : Kept(n)
           /\ UNCHANGED decided => DecidedInv'
           /\ decided' = [n \in Numbers |-> "none"] => DecidedInv'
           /\ command'.old = NoFile => MoveInv'
<1>1. FileInv' /\ TextInv'
    BY DEF CurationInv, FileInv, TextInv, SameText, InPlace, DirOf, RecordFiles
<1>2. \A n \in Numbers : Kept(n)
    BY KeptIfUntouched
<1>3. ASSUME UNCHANGED decided PROVE DecidedInv'
    BY <1>3 DEF CurationInv, DecidedInv, NoDraftLeft, Exists, Present
<1>4. ASSUME decided' = [n \in Numbers |-> "none"] PROVE DecidedInv'
    BY <1>4 DEF DecidedInv
<1>5. command'.old = NoFile => MoveInv'
    BY DEF MoveInv
<1> QED
    BY <1>1, <1>2, <1>3, <1>4, <1>5

LEMMA QuietSnapshot ==
    ASSUME CurationInv, UNCHANGED snapshot,
           \/ command'.kind \notin {"snapshot", "restore"}
           \/ command'.kind = command.kind /\ command'.ids = command.ids
    PROVE  SnapshotInv'
    BY DEF CurationInv, SnapshotInv, InPlace, DirOf, RecordFiles

LEMMA LessonKeeps ==
    ASSUME CurationInv, NEW w \in Lessons,
           (\E t \in Texts : TakeNumber(w, t)) \/ CompareLesson(w) \/ SaveLesson(w)
    PROVE  CurationInv' /\ \A n \in Numbers : Kept(n)
<1>1. ASSUME NEW t \in Texts, TakeNumber(w, t) PROVE LessonInv'
    BY <1>1 DEF TakeNumber, CurationInv, LessonInv
<1>2. ASSUME CompareLesson(w) PROVE LessonInv'
    <2>1. lesson' = [lesson EXCEPT ![w] = Listening] \/ lesson' = [lesson EXCEPT ![w] = [@ EXCEPT !.pc = "save"]]
        BY <1>2 DEF CompareLesson
    <2>2. lesson[w].number \in Numbers /\ lesson[w].text \in Texts /\ DOMAIN lesson[w] = {"pc", "number", "text"}
        BY <1>2 DEF CompareLesson, CurationInv, LessonInv
    <2>3. PICK next : next = [lesson[w] EXCEPT !.pc = "save"]
        OBVIOUS
    <2>4. next.number \in Numbers /\ next.text \in Texts /\ DOMAIN next = {"pc", "number", "text"}
        BY <2>2, <2>3
    <2>5. DOMAIN Listening = {"pc", "number", "text"} /\ Listening.pc = "idle"
        BY DEF Listening
    <2>6. lesson' = [lesson EXCEPT ![w] = Listening] \/ lesson' = [lesson EXCEPT ![w] = next]
        BY <2>1, <2>3
    <2> QED
        BY <2>4, <2>5, <2>6 DEF CurationInv, LessonInv
<1>3. ASSUME SaveLesson(w) PROVE LessonInv'
    <2>1. DOMAIN Listening = {"pc", "number", "text"} /\ Listening.pc = "idle" /\ lesson' = [lesson EXCEPT ![w] = Listening]
        BY <1>3 DEF Listening, SaveLesson
    <2> QED
        BY <2>1 DEF CurationInv, LessonInv
<1>4. CASE (\E t \in Texts : TakeNumber(w, t)) \/ CompareLesson(w)
    <2>1. UNCHANGED <<files, torn, collided, decided, command, snapshot>>
        BY <1>4 DEF TakeNumber, CompareLesson
    <2>2. CommandInv' /\ MoveInv'
        BY <2>1 DEF CurationInv, CommandInv, MoveInv, Moved, NewFile, DirOf
    <2> QED
        BY <1>1, <1>2, <1>4, <2>1, <2>2, QuietFiles, QuietSnapshot DEF CurationInv
<1>5. CASE SaveLesson(w)
    <2>1. lesson[w].number \in Numbers /\ lesson[w].text \in Texts /\ "draft" \in Statuses
        BY <1>5 DEF SaveLesson, CurationInv, LessonInv, Statuses
    <2>2. UNCHANGED <<command, snapshot, decided>>
        BY <1>5 DEF SaveLesson
    <2>3. CASE SaveNew(lesson[w].number, lesson[w].text, "draft")
        BY <1>3, <1>5, <2>1, <2>2, <2>3, SaveKeeps DEF CurationInv
    <2>4. CASE UNCHANGED <<files, torn, collided>>
        <3>1. CommandInv' /\ MoveInv'
            BY <2>2, <2>4 DEF CurationInv, CommandInv, MoveInv, Moved, NewFile, DirOf
        <3> QED
            BY <1>3, <1>5, <2>2, <2>4, <3>1, QuietFiles, QuietSnapshot DEF CurationInv
    <2> QED
        BY <1>5, <2>3, <2>4 DEF SaveLesson
<1> QED
    BY <1>4, <1>5

LEMMA ImportKeeps ==
    ASSUME CurationInv, NEW t \in Texts, NEW n \in Numbers, NEW s \in Statuses, ImportRecord(t, n, s)
    PROVE  CurationInv' /\ \A m \in Numbers : Kept(m)
<1>1. LessonInv'
    BY DEF ImportRecord, CurationInv, LessonInv
<1> QED
    BY <1>1, SaveKeeps DEF ImportRecord, CurationInv

LEMMA TransitionKeeps ==
    ASSUME CurationInv, NEW n \in Numbers, NEW s \in Statuses, Transition(n, s)
    PROVE  CurationInv' /\ \A m \in Numbers \ collided : Kept(m) \/ TornInPlace(m)
    BY MoveKeeps, IdleIs DEF Transition, Begin

LEMMA RepairKeeps ==
    ASSUME CurationInv, NEW n \in Numbers, ApplyRepair(n)
    PROVE  CurationInv' /\ \A m \in Numbers : Kept(m) \/ TornInPlace(m)
<1>1. Exists(n) /\ FindPath(n) \notin torn /\ UNCHANGED <<audit, candidates, command, lesson, snapshot, decided, collided>>
    BY DEF ApplyRepair, EditMessage, Loadable
<1>2. PICK d \in Dirs : FindPath(n) = <<d, n>> /\ files[<<d, n>>] # NoFile
    BY <1>1, FoundPath DEF CurationInv
<1>3. PICK p : p = <<d, n>>
    OBVIOUS
<1>4. PICK old : old = files[p]
    OBVIOUS
<1>5. PICK r : r = [old EXCEPT !.repaired = TRUE]
    OBVIOUS
<1>6. p \in Paths /\ InPlace(p, old)
    BY <1>2, <1>3, <1>4, PathParts DEF CurationInv, FileInv
<1>7. r \in RecordFiles /\ r.status = old.status /\ r.text = old.text
    BY <1>5, <1>6, RecordParts DEF InPlace
<1>8. files' = [files EXCEPT ![p] = r]
    BY <1>2, <1>3, <1>4, <1>5 DEF ApplyRepair, EditMessage
<1>9. /\ FileInv' /\ files'[p] = r /\ r # NoFile
      /\ \A q \in Paths : q # p => files'[q] = files[q]
      /\ \A m \in Numbers : Exists(m) => Exists(m)'
    BY <1>6, <1>7, <1>8, OneWritten DEF CurationInv, InPlace
<1>10. \A q \in Paths : /\ files'[q] # NoFile <=> files[q] # NoFile
                        /\ files'[q].text = files[q].text /\ files'[q].status = files[q].status
    BY <1>2, <1>3, <1>4, <1>7, <1>9
<1>11. TextInv'
    <2> SUFFICES ASSUME NEW m \in Numbers \ collided, NEW c \in Dirs, NEW e \in Dirs,
                        files'[<<c, m>>] # NoFile, files'[<<e, m>>] # NoFile
                 PROVE  files'[<<c, m>>].text = files'[<<e, m>>].text
        BY <1>1 DEF TextInv, SameText
    <2>1. <<c, m>> \in Paths /\ <<e, m>> \in Paths
        BY PathParts
    <2> QED
        BY <1>10, <2>1 DEF CurationInv, TextInv, SameText
<1>12. DecidedInv'
    <2> SUFFICES ASSUME NEW m \in Numbers \ collided, decided[m] \notin {"none", "draft"} PROVE Exists(m)' /\ NoDraftLeft(m)'
        BY <1>1 DEF DecidedInv, CurationInv
    <2>1. Exists(m) /\ NoDraftLeft(m) /\ <<"drafts", m>> \in Paths
        BY PathParts DEF CurationInv, DecidedInv, Dirs
    <2> QED
        BY <1>9, <1>10, <2>1 DEF NoDraftLeft
<1>13. command.old = NoFile
    BY IdleIs DEF ApplyRepair, Begin
<1>14. CommandInv' /\ MoveInv' /\ LessonInv' /\ SnapshotInv'
    BY <1>1, <1>13, QuietSnapshot DEF CurationInv, CommandInv, MoveInv, LessonInv
<1>15. \A m \in Numbers : Kept(m) \/ TornInPlace(m)
    <2> TAKE m \in Numbers
    <2>0. \A q : q # p => (q \in torn' <=> q \in torn)
        BY <1>2, <1>3, OneTorn DEF ApplyRepair, EditMessage
    <2>1. \A c \in Dirs : files[<<c, m>>] # NoFile => files'[<<c, m>>] # NoFile /\ files'[<<c, m>>].text = files[<<c, m>>].text
        <3> TAKE c \in Dirs
        <3>1. <<c, m>> \in Paths
            BY PathParts
        <3> QED
            BY <1>10, <3>1
    <2>2. CASE m # n \/ p \notin torn'
        <3>1. \A c \in Dirs : <<c, m>> \notin torn => <<c, m>> \notin torn'
            BY <1>3, <2>0, <2>2
        <3> QED
            BY <2>1, <3>1, KeptIfThere
    <2>3. CASE m = n /\ p \in torn'
        BY <1>1, <1>2, <1>3, <2>0, <2>3 DEF TornInPlace
    <2> QED
        BY <2>2, <2>3
<1> QED
    BY <1>9, <1>11, <1>12, <1>14, <1>15 DEF CurationInv

LEMMA BulkKeeps ==
    ASSUME CurationInv, NEW n \in Numbers, BulkOne(n)
    PROVE  /\ CurationInv' /\ \A m \in Numbers \ collided : Kept(m) \/ TornInPlace(m)
           /\ command'.old # NoFile => command'.old[2] \in collided \/ decided[command'.old[2]] \in {"none", "draft"}
<1>1. CASE Loadable(n) /\ HasStatus(n) /\ MatchesFilters(n)
    <2>1. Move(n, command.to) /\ command.kind = "bulk" /\ UNCHANGED <<lesson, snapshot, collided, decided>>
        BY <1>1 DEF BulkOne
    <2>2. command.to \in Statuses
        BY DEF CurationInv, CommandInv
    <2> QED
        BY <1>1, <2>1, <2>2, MoveKeeps
<1>2. CASE ~(Loadable(n) /\ HasStatus(n) /\ MatchesFilters(n))
    <2>1. /\ UNCHANGED <<files, torn, collided, lesson, snapshot, decided>> /\ command.kind = "bulk" /\ command.old = NoFile
          /\ command' = Idle \/ command' = [command EXCEPT !.ids = @ \ {n}]
        BY <1>2 DEF BulkOne
    <2>2. /\ DOMAIN command' = {"kind", "ids", "to", "old"} /\ command'.to \in Statuses
          /\ command'.old = NoFile /\ command'.kind \in {"idle", "bulk"}
        BY <2>1, IdleIs DEF CurationInv, CommandInv
    <2>3. CommandInv' /\ LessonInv'
        BY <2>1, <2>2 DEF CommandInv, CurationInv, LessonInv
    <2> QED
        BY <2>1, <2>2, <2>3, QuietFiles, QuietSnapshot DEF CurationInv
<1> QED
    BY <1>1, <1>2

LEMMA QuietCommandKeeps ==
    ASSUME CurationInv,
           \/ RunAudit \/ BeginSnapshot \/ CommandDies \/ WriteManifest
           \/ \E kept \in SUBSET Numbers : ListCandidates(kept)
           \/ \E s \in {"approved", "rejected", "needs_edit"} : ApplyBulk(s)
           \/ \E d \in Dirs : CopyDirectory(d)
    PROVE  CurationInv' /\ \A n \in Numbers : Kept(n)
<1> DEFINE Quiet == UNCHANGED <<files, torn, collided, lesson>> /\ (UNCHANGED decided \/ decided' = [n \in Numbers |-> "none"])
<1>1. ASSUME Quiet, SnapshotInv', DOMAIN command' = {"kind", "ids", "to", "old"}, command'.to \in Statuses, command'.old = NoFile
      PROVE  CurationInv' /\ \A n \in Numbers : Kept(n)
    <2>1. CommandInv' /\ LessonInv'
        BY <1>1 DEF CommandInv, CurationInv, LessonInv
    <2> QED
        BY <1>1, <2>1, QuietFiles DEF CurationInv
<1>2. ASSUME command = Idle, command' = command, UNCHANGED snapshot, Quiet
      PROVE  CurationInv' /\ \A n \in Numbers : Kept(n)
    BY <1>1, <1>2, IdleIs, QuietSnapshot
<1>3. CASE RunAudit \/ \E kept \in SUBSET Numbers : ListCandidates(kept)
    BY <1>2, <1>3 DEF RunAudit, ListCandidates, Begin
<1>4. CASE BeginSnapshot
    <2>1. command' = [Idle EXCEPT !.kind = "snapshot", !.ids = Dirs] /\ Quiet /\ UNCHANGED snapshot /\ ~snapshot.taken
        BY <1>4 DEF BeginSnapshot, MayCreate
    <2>2. DOMAIN command' = {"kind", "ids", "to", "old"} /\ command'.to \in Statuses /\ command'.old = NoFile /\ command'.kind = "snapshot"
          /\ command'.ids = Dirs
        BY <2>1, IdleIs
    <2>3. SnapshotInv'
        BY <2>1, <2>2 DEF CurationInv, SnapshotInv, InPlace, DirOf, RecordFiles, Dirs
    <2> QED
        BY <1>1, <2>1, <2>2, <2>3
<1>5. CASE CommandDies
    <2>1. command' = Idle /\ Quiet /\ UNCHANGED snapshot
        BY <1>5 DEF CommandDies
    <2> QED
        BY <1>1, <2>1, IdleIs, QuietSnapshot
<1>6. CASE WriteManifest
    <2>1. command' = Idle /\ Quiet /\ snapshot' = [snapshot EXCEPT !.manifest = snapshot.files]
        BY <1>6 DEF WriteManifest
    <2>2. snapshot.taken
        BY <1>6 DEF WriteManifest, CurationInv, SnapshotInv
    <2>3. SnapshotInv'
        BY <2>1, <2>2, IdleIs DEF CurationInv, SnapshotInv, InPlace, DirOf, RecordFiles
    <2> QED
        BY <1>1, <2>1, <2>3, IdleIs
<1>7. CASE \E s \in {"approved", "rejected", "needs_edit"} : ApplyBulk(s)
    <2>1. PICK s \in {"approved", "rejected", "needs_edit"} :
            command' = [kind |-> "bulk", ids |-> candidates, to |-> s, old |-> NoFile] /\ Quiet /\ UNCHANGED snapshot
        BY <1>7 DEF ApplyBulk
    <2>2. DOMAIN command' = {"kind", "ids", "to", "old"} /\ command'.to \in Statuses /\ command'.old = NoFile /\ command'.kind = "bulk"
        BY <2>1 DEF Statuses
    <2> QED
        BY <1>1, <2>1, <2>2, QuietSnapshot
<1>8. CASE \E d \in Dirs : CopyDirectory(d)
    <2> PICK d \in Dirs : CopyDirectory(d)
        BY <1>8
    <2>0. CASE torn \cap ({d} \X Numbers) # {}
        <3>1. command' = Idle /\ Quiet /\ snapshot' = [snapshot EXCEPT !.taken = TRUE] /\ command.kind = "snapshot"
            BY <2>0 DEF CopyDirectory
        <3>2. SnapshotInv'
            BY <3>1, IdleIs DEF CurationInv, SnapshotInv, InPlace, DirOf, RecordFiles
        <3> QED
            BY <1>1, <3>1, <3>2, IdleIs
    <2> SUFFICES ASSUME torn \cap ({d} \X Numbers) = {} PROVE CurationInv' /\ \A n \in Numbers : Kept(n)
        BY <2>0
    <2>1. PICK copied : copied = {<<p, files[p]>> : p \in Present({d} \X Numbers)}
        OBVIOUS
    <2>2. PICK left : left = {f \in snapshot.files : f[1][1] # d}
        OBVIOUS
    <2>3. /\ snapshot' = [snapshot EXCEPT !.taken = TRUE, !.files = left \cup copied] /\ Quiet
          /\ command' = [command EXCEPT !.ids = @ \ {d}] /\ command.kind = "snapshot"
        BY <2>1, <2>2 DEF CopyDirectory
    <2>4. \A f \in copied : \E p \in Paths : \E r \in RecordFiles : f = <<p, r>> /\ InPlace(p, r)
        <3> SUFFICES ASSUME NEW p \in Present({d} \X Numbers)
                     PROVE  \E q \in Paths : \E r \in RecordFiles : <<p, files[p]>> = <<q, r>> /\ InPlace(q, r)
            BY <2>1
        <3>1. p \in Paths /\ files[p] # NoFile
            BY DEF Present, Paths
        <3>2. InPlace(p, files[p]) /\ files[p] \in RecordFiles
            BY <3>1 DEF CurationInv, FileInv, InPlace
        <3> QED
            BY <3>1, <3>2
    <2>5. /\ DOMAIN command' = {"kind", "ids", "to", "old"} /\ command'.to \in Statuses /\ command'.old = NoFile
          /\ command'.kind = "snapshot"
        BY <2>3 DEF CurationInv, CommandInv
    <2>6. snapshot.manifest = NoFile
        BY <2>3 DEF CurationInv, SnapshotInv
    <2>7. DOMAIN snapshot' = {"taken", "files", "manifest"} /\ snapshot'.manifest = NoFile /\ snapshot'.files = left \cup copied
          /\ snapshot'.taken
        BY <2>3, <2>6 DEF CurationInv, SnapshotInv
    <2>8. \A f \in left \cup copied : \E p \in Paths : \E r \in RecordFiles : f = <<p, r>> /\ InPlace(p, r)
        BY <2>2, <2>4 DEF CurationInv, SnapshotInv
    <2>9. SnapshotInv'
        BY <2>5, <2>7, <2>8 DEF SnapshotInv, InPlace, DirOf, RecordFiles
    <2> QED
        BY <1>1, <2>3, <2>5, <2>9
<1> QED
    BY <1>3, <1>4, <1>5, <1>6, <1>7, <1>8

\* A restore begins with nothing; a file that is copied back to an id that has one gives the id to a second record.
LEMMA DeleteKeeps == ASSUME CurationInv, DeleteLive PROVE CurationInv'
<1>1. DOMAIN files' = Paths /\ \A p \in Paths : files'[p] = NoFile
    BY DEF DeleteLive
<1>2. FileInv' /\ TextInv'
    BY <1>1, PathParts DEF FileInv, TextInv, SameText
<1>3. DecidedInv'
    BY DEF DeleteLive, DecidedInv
<1>4. /\ DOMAIN command' = {"kind", "ids", "to", "old"} /\ command'.to \in Statuses /\ command'.old = NoFile
      /\ command'.kind = "restore" /\ command'.ids = {f[1] : f \in snapshot.manifest}
    BY IdleIs DEF DeleteLive
<1>5. CommandInv' /\ MoveInv'
    BY <1>4 DEF CommandInv, MoveInv
<1>6. LessonInv'
    BY DEF DeleteLive, CurationInv, LessonInv
<1>7. snapshot.manifest = snapshot.files /\ UNCHANGED snapshot
    BY DEF DeleteLive, CurationInv, SnapshotInv
<1>8. SnapshotInv'
    BY <1>4, <1>7 DEF CurationInv, SnapshotInv, InPlace, DirOf, RecordFiles
<1> QED
    BY <1>2, <1>3, <1>5, <1>6, <1>8 DEF CurationInv

LEMMA CopyBackKeeps == ASSUME CurationInv, NEW p \in Paths, CopyBack(p) PROVE CurationInv'
<1>0. PICK f : f = CHOOSE g \in snapshot.files : g[1] = p
    OBVIOUS
<1>1. PICK r : r = f[2]
    OBVIOUS
<1>2. PICK n : n = p[2]
    OBVIOUS
<1>3. n \in Numbers /\ p[1] \in Dirs /\ p = <<p[1], n>>
    BY <1>2, PathParts
<1>4. InPlace(p, r)
    <2>1. \E g \in snapshot.files : g[1] = p
        BY DEF CurationInv, SnapshotInv, CopyBack
    <2>3. f \in snapshot.files /\ f[1] = p
        BY <1>0, <2>1
    <2>4. PICK q \in Paths, s \in RecordFiles : f = <<q, s>> /\ InPlace(q, s)
        BY <2>3 DEF CurationInv, SnapshotInv
    <2>5. q = p /\ s = r
        BY <1>1, <2>3, <2>4
    <2> QED
        BY <2>4, <2>5
<1>5. files' = [files EXCEPT ![p] = r] /\ collided' = IF Exists(n) THEN collided \cup {n} ELSE collided
    BY <1>0, <1>1, <1>2 DEF CopyBack
<1>6. /\ FileInv' /\ files'[p] = r /\ r # NoFile
      /\ \A q \in Paths : q # p => files'[q] = files[q]
      /\ \A m \in Numbers : Exists(m) => Exists(m)'
    BY <1>4, <1>5, OneWritten DEF CurationInv
<1>7. \A m \in Numbers \ {n}, d \in Dirs : files'[<<d, m>>] = files[<<d, m>>]
    <2> TAKE m \in Numbers \ {n}, d \in Dirs
    <2>1. <<d, m>> \in Paths /\ <<d, m>> # p
        BY <1>3, PathParts
    <2> QED
        BY <1>6, <2>1
<1>8. \A m \in Numbers \ collided' : m \notin collided /\ (m = n => \A d \in Dirs : files[<<d, m>>] = NoFile)
    BY <1>5, ExistsSomewhere
<1>9. TextInv'
    <2> SUFFICES ASSUME NEW m \in Numbers \ collided', NEW d \in Dirs, NEW e \in Dirs,
                        files'[<<d, m>>] # NoFile, files'[<<e, m>>] # NoFile
                 PROVE  files'[<<d, m>>].text = files'[<<e, m>>].text
        BY DEF TextInv, SameText
    <2>1. CASE m = n
        <3>1. \A c \in Dirs : files'[<<c, m>>] # NoFile => <<c, m>> = p
            BY <1>6, <1>8, <2>1, PathParts
        <3> QED
            BY <3>1
    <2>2. CASE m # n
        BY <1>7, <1>8, <2>2 DEF CurationInv, TextInv, SameText
    <2> QED
        BY <2>1, <2>2
<1>10. UNCHANGED <<decided, snapshot, lesson>>
    BY DEF CopyBack
<1>11. DecidedInv'
    <2> SUFFICES ASSUME NEW m \in Numbers \ collided', decided[m] \notin {"none", "draft"}
                 PROVE  Exists(m)' /\ NoDraftLeft(m)'
        BY <1>10 DEF DecidedInv, CurationInv
    <2>1. Exists(m) /\ NoDraftLeft(m)
        BY <1>8 DEF DecidedInv, CurationInv
    <2>2. m # n
        BY <1>8, <2>1, ExistsSomewhere
    <2>3. files'[<<"drafts", m>>] = files[<<"drafts", m>>]
        BY <1>7, <2>2 DEF Dirs
    <2> QED
        BY <1>6, <2>1, <2>3 DEF NoDraftLeft
<1>12. command.kind = "restore" /\ (command' = Idle \/ command' = [command EXCEPT !.ids = @ \ {p}])
    BY DEF CopyBack
<1>13. command.old = NoFile
    BY <1>12 DEF CurationInv, CommandInv
<1>14. /\ DOMAIN command' = {"kind", "ids", "to", "old"} /\ command'.to \in Statuses /\ command'.old = NoFile
       /\ command'.kind = "idle" \/ (command'.kind = "restore" /\ command'.ids \subseteq command.ids)
    BY <1>12, <1>13, IdleIs DEF CurationInv, CommandInv
<1>15. CommandInv' /\ MoveInv'
    BY <1>14 DEF CommandInv, MoveInv
<1>16. SnapshotInv'
    BY <1>10, <1>12, <1>14 DEF CurationInv, SnapshotInv, InPlace, DirOf, RecordFiles
<1>17. LessonInv'
    BY <1>10 DEF CurationInv, LessonInv
<1> QED
    BY <1>6, <1>9, <1>11, <1>15, <1>16, <1>17 DEF CurationInv

\* One step of the curation, and what it leaves alone.
LEMMA CurationStep ==
    ASSUME CurationInv, [CurationNext]_curationVars
    PROVE  /\ CurationInv'
           /\ "restore" \in {command.kind, command'.kind} \/ \A n \in Numbers : n \notin collided => Kept(n) \/ TornInPlace(n)
<1>1. CASE UNCHANGED curationVars
    <2>1. UNCHANGED <<files, torn, collided, decided, lesson, command, snapshot>>
        BY <1>1 DEF curationVars
    <2>2. CommandInv' /\ MoveInv' /\ LessonInv'
        BY <2>1 DEF CurationInv, CommandInv, MoveInv, Moved, NewFile, DirOf, LessonInv
    <2> QED
        BY <2>1, <2>2, QuietFiles, QuietSnapshot DEF CurationInv
<1>2. CASE \E w \in Lessons : (\E t \in Texts : TakeNumber(w, t)) \/ CompareLesson(w) \/ SaveLesson(w)
    BY <1>2, LessonKeeps
<1>3. CASE \E t \in Texts, n \in Numbers, s \in Statuses : ImportRecord(t, n, s)
    BY <1>3, ImportKeeps
<1>4. CASE \E n \in Numbers : (\E s \in Statuses : Transition(n, s)) \/ ApplyRepair(n) \/ BulkOne(n)
    BY <1>4, TransitionKeeps, RepairKeeps, BulkKeeps
<1>5. CASE FinishMove
    BY <1>5, FinishKeeps
<1>6. CASE DeleteLive
    BY <1>6, DeleteKeeps DEF DeleteLive
<1>7. CASE \E p \in Paths : CopyBack(p)
    BY <1>7, CopyBackKeeps DEF CopyBack
<1>8. CASE \/ RunAudit \/ BeginSnapshot \/ CommandDies \/ WriteManifest
           \/ \E kept \in SUBSET Numbers : ListCandidates(kept)
           \/ \E s \in {"approved", "rejected", "needs_edit"} : ApplyBulk(s)
           \/ \E d \in Dirs : CopyDirectory(d)
    BY <1>8, QuietCommandKeeps
<1> QED
    BY <1>1, <1>2, <1>3, <1>4, <1>5, <1>6, <1>7, <1>8 DEF CurationNext

\* A bulk review moves a record only as the one it asked about.
LEMMA BulkAsks ==
    ASSUME CurationInv, [CurationNext]_curationVars, command.kind = "bulk", command.old = NoFile, command'.old # NoFile
    PROVE  command'.old[2] \in collided \/ decided[command'.old[2]] \in {"none", "draft"}
<1>1. command # Idle
    BY IdleIs
<1>2. \/ UNCHANGED command \/ CommandDies \/ FinishMove \/ WriteManifest
      \/ (\E d \in Dirs : CopyDirectory(d)) \/ (\E p \in Paths : CopyBack(p))
      \/ \E n \in Numbers : BulkOne(n)
    BY <1>1 DEF CurationNext, curationVars, TakeNumber, CompareLesson, SaveLesson, ImportRecord, Transition, ApplyRepair,
                RunAudit, ListCandidates, ApplyBulk, BeginSnapshot, DeleteLive, Begin
<1>3. PICK n \in Numbers : BulkOne(n)
    BY <1>2, IdleIs DEF CommandDies, FinishMove, WriteManifest, CopyDirectory, CopyBack
<1> QED
    BY <1>3, BulkKeeps

LEMMA SnapshotIsKept ==
    ASSUME CurationInv, [CurationNext]_curationVars, snapshot.manifest # NoFile
    PROVE  snapshot' = snapshot /\ (VerifySnapshot \/ \E f, g \in snapshot.files : f # g /\ f[1][2] = g[1][2])
<1>1. command.kind # "snapshot" /\ snapshot.manifest = snapshot.files
    BY DEF CurationInv, SnapshotInv
<1>2. snapshot' = snapshot
    BY <1>1 DEF CurationNext, curationVars, TakeNumber, CompareLesson, SaveLesson, ImportRecord, Transition, ApplyRepair,
                RunAudit, ListCandidates, ApplyBulk, BulkOne, FinishMove, BeginSnapshot, CopyDirectory, WriteManifest,
                DeleteLive, CopyBack, CommandDies
<1>3. ASSUME ~\E f, g \in snapshot.files : f # g /\ f[1][2] = g[1][2] PROVE VerifySnapshot
    BY <1>1, <1>3 DEF VerifySnapshot
<1> QED
    BY <1>2, <1>3

-----------------------------------------------------------------------------
(***************************************************************************)
(* The review for training. What nobody saw and nothing changed was kept   *)
(* or repaired because its class says that no severe code is left; a       *)
(* freeze under way has written what its step says, and a manifest ends it.*)
(***************************************************************************)
NoSevere(row) == row.fresh /\ ~row.seen => Codes(row.reply) \cap SEVERE = {}
Clean(row) == Codes(row.reply) \cap Corrupt = {} /\ NoSevere(row)
\* Whether a row is clean does not depend on the state.
LEMMA CleanStays == \A row : Clean(row)' <=> Clean(row)
    BY DEF Clean, NoSevere, Codes, Raised

DiagnosesOf(reply, status) ==
    {[class |-> Classified(reply, status), reply |-> reply, proposal |-> p] : p \in {NoReply, Proposal(reply)}}
Diagnoses == UNION {DiagnosesOf(reply, status) : reply \in Replies, status \in {"draft", "rejected"}}
TriageInv == \A r \in Records : triage[r] # NoReply => triage[r] \in Diagnoses
StoredInv == \A r \in Records : stored[r].reply \in Replies /\ stored[r].status \in {"draft", "rejected"}
CandidateInv == \A r \in Records : candidate[r] # NoReply => NoSevere(candidate[r])
RowsAreClean == freezing.step > 0 => \A r \in DOMAIN freezing.rows : Clean(freezing.rows[r])
FreezeInv ==
    /\ freezing.step \in 0 .. 5 /\ DOMAIN freezing = {"step", "rows"}
    /\ RowsAreClean
    /\ freezing.step \in 1 .. 4 => manifest = NoReply
    /\ freezing.step \in 3 .. 5 => export = freezing.rows
    /\ freezing.step \in 4 .. 5 => records = freezing.rows
    /\ freezing.step = 5 => manifest = freezing.rows
ReviewInv == StoredInv /\ TriageInv /\ CandidateInv /\ FreezeInv /\ FrozenIsClean /\ ManifestTellsTruth

\* A record that is kept as it is, or whose repair is taken unseen, has no severe code left.
LEMMA ClassIsRight ==
    ASSUME NEW reply, NEW status
    PROVE  /\ Classified(reply, status) = "KEEP" => Codes(reply) \cap SEVERE = {}
           /\ Classified(reply, status) = "REPAIR" => Codes(Proposal(reply)) \cap SEVERE = {}
<1>1. ASSUME Classified(reply, status) = "KEEP" PROVE Codes(reply) \cap SEVERE = {}
    <2>1. CASE reply.source = "human_authored"
        BY <1>1, <2>1 DEF Classified, SEVERE
    <2>2. CASE reply.source # "human_authored"
        BY <1>1, <2>2 DEF Classified, Residue
    <2> QED
        BY <2>1, <2>2
<1>2. ASSUME Classified(reply, status) = "REPAIR" PROVE Codes(Proposal(reply)) \cap SEVERE = {}
    BY <1>2 DEF Classified, Residue
<1> QED
    BY <1>1, <1>2

LEMMA DiagnosisParts ==
    ASSUME NEW t \in Diagnoses
    PROVE  \E status : /\ t.class = Classified(t.reply, status)
                       /\ t.proposal \in {NoReply, Proposal(t.reply)}
<1>1. PICK reply, status : t \in DiagnosesOf(reply, status)
    BY DEF Diagnoses
<1>2. PICK p \in {NoReply, Proposal(reply)} : t = [class |-> Classified(reply, status), reply |-> reply, proposal |-> p]
    BY <1>1 DEF DiagnosesOf
<1>3. t.class = Classified(reply, status) /\ t.reply = reply /\ t.proposal = p
    BY <1>2
<1> QED
    BY <1>3

LEMMA ReviewBegins == ReviewInit => ReviewInv
<1> SUFFICES ASSUME ReviewInit PROVE ReviewInv
    OBVIOUS
<1>1. StoredInv
    BY DEF ReviewInit, StoredInv
<1>2. TriageInv /\ CandidateInv
    BY DEF ReviewInit, TriageInv, CandidateInv
<1>3. FreezeInv
    BY DEF ReviewInit, FreezeInv, RowsAreClean
<1>4. FrozenIsClean /\ ManifestTellsTruth
    BY DEF ReviewInit, FrozenIsClean, ManifestTellsTruth
<1> QED
    BY <1>1, <1>2, <1>3, <1>4 DEF ReviewInv

\* What the build takes of a record that nobody saw and nothing changed.
LEMMA BuiltIsClean == ASSUME ReviewInv, Build PROVE CandidateInv'
<1> SUFFICES ASSUME NEW r \in Records, candidate'[r] # NoReply, candidate'[r].fresh, ~candidate'[r].seen
             PROVE  Codes(candidate'[r].reply) \cap SEVERE = {}
    BY DEF CandidateInv, NoSevere, Codes, Raised
<1>1. /\ Included(r) # NoReply /\ candidate'[r].reply = Included(r)
      /\ stored[r].reply = triage[r].reply /\ decisions[r] = NoReply /\ r \notin rewritten
    BY DEF Build
<1>2. triage[r] # NoReply
    BY DEF Build
<1>3. PICK status : /\ triage[r].class = Classified(triage[r].reply, status)
                    /\ triage[r].proposal \in {NoReply, Proposal(triage[r].reply)}
    BY <1>2, DiagnosisParts DEF ReviewInv, TriageInv
<1>4. CASE triage[r].class = "KEEP"
    <2>1. Included(r) = triage[r].reply
        BY <1>1, <1>4 DEF Included
    <2> QED
        BY <1>1, <1>3, <1>4, <2>1, ClassIsRight
<1>5. CASE triage[r].class = "REPAIR" /\ automation[r] = "AUTO_ACCEPT_REPAIR"
    <2>1. Included(r) = triage[r].proposal
        BY <1>5 DEF Included
    <2>2. triage[r].proposal = Proposal(triage[r].reply)
        BY <1>1, <1>3, <2>1
    <2> QED
        BY <1>1, <1>3, <1>5, <2>1, <2>2, ClassIsRight
<1>6. CASE triage[r].class # "KEEP" /\ ~(triage[r].class = "REPAIR" /\ automation[r] = "AUTO_ACCEPT_REPAIR")
    <2>1. Included(r) = NoReply
        BY <1>1, <1>6, ReviewAssumption DEF Included, Decided, Actions
    <2> QED
        BY <1>1, <2>1
<1> QED
    BY <1>4, <1>5, <1>6

LEMMA DiagnoseKeeps == ASSUME ReviewInv, Diagnose PROVE TriageInv'
<1> SUFFICES ASSUME NEW r \in Records PROVE triage'[r] \in Diagnoses
    BY DEF TriageInv
<1>1. PICK class : class = Classified(stored[r].reply, stored[r].status)
    OBVIOUS
<1>2. PICK proposal : proposal = IF class \in {"REPAIR", "HUMAN_REVIEW"} /\ Proposal(stored[r].reply) # stored[r].reply
                                 THEN Proposal(stored[r].reply) ELSE NoReply
    OBVIOUS
<1>3. triage'[r] = [class |-> class, reply |-> stored[r].reply, proposal |-> proposal]
    BY <1>1, <1>2 DEF Diagnose
<1>4. stored[r].reply \in Replies /\ stored[r].status \in {"draft", "rejected"}
    BY DEF ReviewInv, StoredInv
<1>5. proposal \in {NoReply, Proposal(stored[r].reply)}
    BY <1>2
<1>6. triage'[r] \in DiagnosesOf(stored[r].reply, stored[r].status)
    BY <1>1, <1>3, <1>5 DEF DiagnosesOf
<1> QED
    BY <1>4, <1>6 DEF Diagnoses

\* A freeze begins with rows that are clean, and where no manifest is.
LEMMA FreezeKeeps == ASSUME ReviewInv, Freeze PROVE FreezeInv'
<1>1. PICK rows : rows = [r \in Rows |-> candidate[r]]
    OBVIOUS
<1>2. freezing' = [step |-> 1, rows |-> rows]
    BY <1>1 DEF Freeze
<1>3. manifest' = NoReply
    BY DEF Freeze, MayFreeze, ReviewInv, ManifestTellsTruth
<1>4. ASSUME NEW r \in DOMAIN rows PROVE Clean(rows[r])
    <2>1. r \in Rows /\ r \in Records /\ candidate[r] # NoReply /\ rows[r] = candidate[r]
        BY <1>1, <1>4 DEF Rows
    <2>2. Codes(candidate[r].reply) \cap Corrupt = {}
        BY <2>1 DEF Freeze, Valid
    <2>3. NoSevere(candidate[r])
        BY <2>1 DEF ReviewInv, CandidateInv
    <2> QED
        BY <2>1, <2>2, <2>3 DEF Clean
<1>5. freezing'.rows = rows /\ freezing'.step = 1
    BY <1>2
<1>6. \A r \in DOMAIN freezing'.rows : Clean(freezing'.rows[r])
    BY <1>4, <1>5
<1>7. DOMAIN freezing' = {"step", "rows"}
    BY <1>2
<1>8. RowsAreClean'
    BY <1>6, CleanStays DEF RowsAreClean
<1> QED
    BY <1>3, <1>5, <1>7, <1>8 DEF FreezeInv

LEMMA FreezeGoesOn ==
    ASSUME ReviewInv, FreezeStep
    PROVE  /\ FreezeInv' /\ FrozenIsClean' /\ ManifestTellsTruth'
           /\ manifest # NoReply => UNCHANGED <<export, records, manifest>>
<1>1. PICK k \in 1 .. 5 : freezing.step = k
    BY DEF FreezeStep, ReviewInv, FreezeInv
<1>2. Len(FreezeSteps) = 5
    BY DEF FreezeSteps
<1>3. FilesWritten(FreezeSteps[k])
    BY <1>1 DEF FreezeStep
<1>4. DOMAIN freezing = {"step", "rows"} /\ \A r \in DOMAIN freezing.rows : Clean(freezing.rows[r])
    BY <1>1 DEF ReviewInv, FreezeInv, RowsAreClean
<1>5. /\ k < 5 => DOMAIN freezing' = {"step", "rows"} /\ freezing'.step = k + 1 /\ freezing'.rows = freezing.rows
      /\ k = 5 => DOMAIN freezing' = {"step", "rows"} /\ freezing'.step = 0
    BY <1>1, <1>2, <1>4 DEF FreezeStep
<1> DEFINE rows == freezing.rows
<1>11. RowsAreClean'
    <2>1. freezing'.step > 0 => \A r \in DOMAIN freezing'.rows : Clean(freezing'.rows[r])
        BY <1>4, <1>5
    <2> QED
        BY <2>1, CleanStays DEF RowsAreClean
<1>6. CASE k = 1
    <2>1. manifest' = manifest /\ manifest = NoReply
        BY <1>1, <1>3, <1>6 DEF FilesWritten, FreezeSteps, ReviewInv, FreezeInv
    <2> QED
        BY <1>4, <1>5, <1>6, <1>11, <2>1 DEF FreezeInv, FrozenIsClean, ManifestTellsTruth
<1>7. CASE k = 2
    <2>1. manifest' = manifest /\ manifest = NoReply /\ export' = rows
        BY <1>1, <1>3, <1>7 DEF FilesWritten, FreezeSteps, ReviewInv, FreezeInv
    <2> QED
        BY <1>4, <1>5, <1>7, <1>11, <2>1 DEF FreezeInv, FrozenIsClean, ManifestTellsTruth
<1>8. CASE k = 3
    <2>1. manifest' = manifest /\ manifest = NoReply /\ export' = rows /\ records' = rows
        BY <1>1, <1>3, <1>8 DEF FilesWritten, FreezeSteps, ReviewInv, FreezeInv
    <2> QED
        BY <1>4, <1>5, <1>8, <1>11, <2>1 DEF FreezeInv, FrozenIsClean, ManifestTellsTruth
<1>9. CASE k = 4
    <2>1. manifest' = rows /\ manifest = NoReply /\ export' = rows /\ records' = rows
        BY <1>1, <1>3, <1>9 DEF FilesWritten, FreezeSteps, ReviewInv, FreezeInv
    <2>2. FrozenIsClean'
        <3>1. \A r \in DOMAIN manifest' : Clean(manifest'[r])
            BY <1>4, <2>1
        <3> QED
            BY <3>1 DEF FrozenIsClean, Clean, NoSevere, Codes, Raised
    <2> QED
        BY <1>4, <1>5, <1>9, <1>11, <2>1, <2>2 DEF FreezeInv, ManifestTellsTruth
<1>10. CASE k = 5
    <2>1. manifest' = manifest /\ export' = export /\ records' = records
        BY <1>1, <1>3, <1>10 DEF FilesWritten, FreezeSteps, ReviewInv, FreezeInv
    <2>2. FrozenIsClean' /\ ManifestTellsTruth'
        BY <2>1 DEF ReviewInv, FrozenIsClean, ManifestTellsTruth, Codes, Raised
    <2> QED
        BY <1>5, <1>10, <1>11, <2>1, <2>2 DEF FreezeInv
<1> QED
    BY <1>1, <1>6, <1>7, <1>8, <1>9, <1>10

LEMMA ReviewStep ==
    ASSUME ReviewInv, [ReviewNext]_reviewVars
    PROVE  ReviewInv' /\ (manifest # NoReply => UNCHANGED <<export, records, manifest>>)
<1> USE DEF ReviewInv
<1> DEFINE Same == UNCHANGED <<export, records, manifest>>
<1>1. ASSUME UNCHANGED stored PROVE StoredInv'
    BY <1>1 DEF StoredInv
<1>2. ASSUME UNCHANGED triage PROVE TriageInv'
    BY <1>2 DEF TriageInv
<1>3. ASSUME UNCHANGED candidate PROVE CandidateInv'
    BY <1>3 DEF CandidateInv, NoSevere, Codes, Raised
<1>4. ASSUME UNCHANGED <<freezing, export, records, manifest>> PROVE FreezeInv'
    BY <1>4, CleanStays DEF ReviewInv, FreezeInv, RowsAreClean
<1>5. ASSUME Same PROVE FrozenIsClean' /\ ManifestTellsTruth'
    BY <1>5 DEF FrozenIsClean, ManifestTellsTruth, Codes, Raised
<1>6. CASE UNCHANGED reviewVars
    BY <1>6, <1>1, <1>2, <1>3, <1>4, <1>5 DEF reviewVars
<1>7. CASE \E r \in Records : Curate(r)
    <2> PICK r \in Records : Curate(r)
        BY <1>7
    <2>1. PICK reply \in Replies, status \in {"draft", "rejected"} : stored' = [stored EXCEPT ![r] = [reply |-> reply, status |-> status]]
        BY DEF Curate
    <2>2. StoredInv'
        BY <2>1 DEF StoredInv
    <2> QED
        BY <2>2, <1>2, <1>3, <1>4, <1>5 DEF Curate
<1>8. CASE Diagnose
    BY <1>8, DiagnoseKeeps, <1>1, <1>3, <1>4, <1>5 DEF Diagnose
<1>9. CASE Automate
    BY <1>9, <1>1, <1>2, <1>3, <1>4, <1>5 DEF Automate
<1>10. CASE Build
    BY <1>10, BuiltIsClean, <1>1, <1>2, <1>4, <1>5 DEF Build
<1>11. CASE Freeze
    BY <1>11, FreezeKeeps, <1>1, <1>2, <1>3, <1>5 DEF Freeze
<1>12. CASE FreezeStep
    BY <1>12, FreezeGoesOn, <1>1, <1>2, <1>3 DEF FreezeStep
<1>13. CASE FreezeDies
    <2>1. FreezeInv'
        BY <1>13 DEF FreezeDies, FreezeInv, RowsAreClean
    <2> QED
        BY <1>13, <2>1, <1>1, <1>2, <1>3, <1>5 DEF FreezeDies
<1>14. CASE \E r \in Records : Decide(r) \/ RewriteKept(r)
    BY <1>14, <1>1, <1>2, <1>3, <1>4, <1>5 DEF Decide, RewriteKept
<1> QED
    BY <1>6, <1>7, <1>8, <1>9, <1>10, <1>11, <1>12, <1>13, <1>14 DEF ReviewNext

-----------------------------------------------------------------------------
(***************************************************************************)
(* The rows of a training set. A rank among the places of the slice, or    *)
(* among the others, is taken once and none is left out; so each base row  *)
(* is at one place, each new conversation at Copies of them, and none is   *)
(* on both sides.                                                          *)
(***************************************************************************)
\* What is put over one to one and onto is as many.
LEMMA AsManyAgain ==
    ASSUME NEW S, IsFiniteSet(S), NEW T, NEW f \in [S -> T], \A x, y \in S : f[x] = f[y] => x = y, \A y \in T : \E x \in S : f[x] = y
    PROVE  IsFiniteSet(T) /\ Cardinality(T) = Cardinality(S)
<1>1. f \in Injection(S, T) /\ f \in Surjection(S, T)
    BY Fun_IsInj, Fun_IsSurj
<1> QED
    BY <1>1, FS_Bijection DEF ExistsBijection, Bijection

LEMMA IdsAreFinite ==
    ASSUME NEW recs, IsFiniteSet(recs)
    PROVE  IsFiniteSet(Ids(recs)) /\ Cardinality(Ids(recs)) <= Cardinality(recs)
<1>1. PICK f : f = [r \in recs |-> r.id]
    OBVIOUS
<1>2. f \in [recs -> Ids(recs)] /\ \A i \in Ids(recs) : \E r \in recs : f[r] = i
    BY <1>1 DEF Ids
<1>3. f \in Surjection(recs, Ids(recs))
    BY <1>2, Fun_IsSurj
<1> QED
    BY <1>3, FS_Surjection

LEMMA BaseIsCounted == BaseIds \subseteq Nat /\ IsFiniteSet(BaseIds) /\ Cardinality(BaseIds) \in Nat
<1>1. OfKinds(Conversations, {"base"}) \in SUBSET Conversations
    BY DEF OfKinds
<1>2. IsFiniteSet(OfKinds(Conversations, {"base"}))
    BY <1>1, SliceAssumption, FS_Subset
<1>3. BaseIds \subseteq Nat
    BY <1>1, SliceAssumption DEF BaseIds, Ids
<1> QED
    BY <1>2, <1>3, IdsAreFinite, FS_CardinalityType DEF BaseIds

LEMMA RowsAreCounted ==
    ASSUME NEW ids, ids \subseteq Ids(Conversations)
    PROVE  /\ ids \subseteq Nat /\ IsFiniteSet(ids) /\ Cardinality(ids) \in Nat
           /\ Copies * Cardinality(ids) \in Nat
           /\ RowCount(ids) \in Nat /\ RowCount(ids) = Cardinality(BaseIds) + Copies * Cardinality(ids)
           /\ Slice[RowCount(ids)] \subseteq 1..RowCount(ids)
<1>1. Ids(Conversations) \subseteq Nat /\ IsFiniteSet(Ids(Conversations))
    BY SliceAssumption, IdsAreFinite DEF Ids
<1>2. IsFiniteSet(ids) /\ Cardinality(ids) \in Nat
    BY <1>1, FS_Subset, FS_CardinalityType
<1>3. PICK c \in Nat, k \in Nat : c = Copies /\ k = Cardinality(ids)
    BY <1>2, SliceAssumption
<1>4. c * k \in Nat
    OBVIOUS
<1>5. RowCount(ids) \in Nat /\ RowCount(ids) = Cardinality(BaseIds) + Copies * Cardinality(ids)
    BY <1>3, <1>4, BaseIsCounted DEF RowCount
<1> QED
    BY <1>1, <1>2, <1>3, <1>4, <1>5, SliceAssumption

\* The rows of the slice, and the others, each have a place among themselves.
LEMMA RanksAreRight ==
    ASSUME NEW places, places \subseteq Nat, IsFiniteSet(places)
    PROVE  /\ Cardinality(places) \in Nat
           /\ \A p \in places : RankOf(p, places) \in 1..Cardinality(places)
           /\ \A p, q \in places : RankOf(p, places) = RankOf(q, places) => p = q
           /\ \A k \in 1..Cardinality(places) : \E p \in places : RankOf(p, places) = k
<1>1. \A p \in places : RankOf(p, places) = Cardinality({q \in places : q <= p})
    BY DEF RankOf
<1>2. /\ Cardinality(places) \in Nat
      /\ \A p \in places : Cardinality({q \in places : q <= p}) \in 1..Cardinality(places)
      /\ \A p, r \in places : Cardinality({q \in places : q <= p}) = Cardinality({q \in places : q <= r}) => p = r
      /\ \A k \in 1..Cardinality(places) : \E p \in places : Cardinality({q \in places : q <= p}) = k
    BY PlacesOfNumbers
<1> QED
    BY <1>1, <1>2

\* The rows of the slice hold base rows, each another one.
LEMMA EvalSourcesApart ==
    ASSUME NEW n, Cardinality(Slice[n]) \in Nat, Cardinality(Slice[n]) <= Cardinality(BaseIds)
    PROVE  /\ EvalSources(n) \in [1..Cardinality(Slice[n]) -> BaseIds]
           /\ \A k, l \in 1..Cardinality(Slice[n]) : EvalSources(n)[k] = EvalSources(n)[l] => k = l
<1>1. PICK key : key = [i \in BaseIds |-> <<IF i \in OwnSlice THEN 0 ELSE 1, i>>]
    OBVIOUS
<1>2. PICK P : P = {<<IF i \in OwnSlice THEN 0 ELSE 1, i>> : i \in BaseIds}
    OBVIOUS
<1>3. /\ key \in [BaseIds -> P] /\ \A i \in BaseIds : key[i][2] = i /\ key[i] \in Nat \X Nat
      /\ \A x \in P : \E i \in BaseIds : x = key[i]
    BY <1>1, <1>2, BaseIsCounted
<1>4. P \subseteq Nat \X Nat /\ \A x, y \in P : x[2] = y[2] => x = y
    BY <1>3
<1>5. IsFiniteSet(P) /\ Cardinality(P) = Cardinality(BaseIds)
    <2>1. \A i, j \in BaseIds : key[i] = key[j] => i = j
        BY <1>3
    <2>2. \A x \in P : \E i \in BaseIds : key[i] = x
        BY <1>3
    <2> QED
        BY <1>3, <2>1, <2>2, BaseIsCounted, AsManyAgain
<1>6. PICK q : q = Sorted(P)
    OBVIOUS
<1>7. /\ q \in [1..Cardinality(BaseIds) -> P]
      /\ \A k, l \in 1..Cardinality(BaseIds) : k < l => q[k] # q[l]
    BY <1>4, <1>5, <1>6, SortedInOrder
<1>8. PICK m \in Nat, b \in Nat : m = Cardinality(Slice[n]) /\ b = Cardinality(BaseIds) /\ m <= b
    BY BaseIsCounted
<1>9. EvalSources(n) = [k \in 1..m |-> q[k][2]]
    BY <1>2, <1>6, <1>8 DEF EvalSources
<1>10. \A k \in 1..m : q[k] \in P /\ q[k][2] \in BaseIds
    BY <1>3, <1>7, <1>8
<1>11. \A k, l \in 1..m : q[k][2] = q[l][2] => k = l
    <2> SUFFICES ASSUME NEW k \in 1..m, NEW l \in 1..m, k < l PROVE q[k][2] # q[l][2]
        OBVIOUS
    <2>1. q[k] # q[l]
        BY <1>7, <1>8
    <2> QED
        BY <2>1, <1>4, <1>10
<1> QED
    BY <1>8, <1>9, <1>10, <1>11

\* The other rows hold the other base rows and the copies, each once.
Others(n, ids) == ({0} \X (BaseIds \ {EvalSources(n)[k] : k \in 1..Cardinality(Slice[n])})) \cup Copied(ids)
OtherRows(n) == (1..n) \ Slice[n]
LEMMA RestIsOrdered ==
    ASSUME NEW ids, ids \subseteq Ids(Conversations), RowsFit(ids), NEW n, n = RowCount(ids)
    PROVE  /\ n \in Nat /\ IsFiniteSet(Slice[n]) /\ Cardinality(Slice[n]) \in Nat /\ Cardinality(Slice[n]) <= Cardinality(BaseIds)
           /\ IsFiniteSet(OtherRows(n)) /\ Cardinality(Others(n, ids)) = Cardinality(OtherRows(n))
           /\ Rest(n, ids) \in [1..Cardinality(OtherRows(n)) -> Others(n, ids)]
           /\ \A x \in Others(n, ids) : \E k \in 1..Cardinality(OtherRows(n)) : Rest(n, ids)[k] = x
           /\ \A k, l \in 1..Cardinality(OtherRows(n)) : Rest(n, ids)[k] = Rest(n, ids)[l] => k = l
<1>1. n \in Nat /\ Slice[n] \in SUBSET (1..n) /\ ids \subseteq Nat /\ IsFiniteSet(ids) /\ Cardinality(ids) \in Nat
    BY RowsAreCounted
<1>2. IsFiniteSet(1..n) /\ Cardinality(1..n) = n
    BY <1>1, FS_Interval
<1>3. IsFiniteSet(Slice[n]) /\ Cardinality(Slice[n]) \in Nat
    BY <1>1, <1>2, FS_Subset, FS_CardinalityType
<1>4. PICK m \in Nat : m = Cardinality(Slice[n])
    BY <1>3
<1>5. PICK b \in Nat : b = Cardinality(BaseIds)
    BY BaseIsCounted
<1>6. m <= b
    BY <1>4, <1>5 DEF RowsFit
<1>7. (1..n) \cap Slice[n] = Slice[n]
    BY <1>1
<1>8. IsFiniteSet((1..n) \ Slice[n]) /\ Cardinality((1..n) \ Slice[n]) = n - m
    <2>1. /\ IsFiniteSet((1..n) \ Slice[n])
          /\ Cardinality((1..n) \ Slice[n]) = Cardinality(1..n) - Cardinality((1..n) \cap Slice[n])
        BY <1>2, FS_Difference
    <2> QED
        BY <1>2, <1>4, <1>7, <2>1
<1>9. PICK taken : taken = {EvalSources(n)[k] : k \in 1..m}
    OBVIOUS
<1>10. EvalSources(n) \in [1..m -> BaseIds] /\ \A k, l \in 1..m : EvalSources(n)[k] = EvalSources(n)[l] => k = l
    BY <1>3, <1>4, <1>5, <1>6, EvalSourcesApart
<1>11. IsFiniteSet(taken) /\ Cardinality(taken) = m
    <2>1. IsFiniteSet(1..m) /\ Cardinality(1..m) = m
        BY FS_Interval
    <2>2. PICK f : f = EvalSources(n)
        OBVIOUS
    <2>3. f \in [1..m -> taken] /\ (\A k, l \in 1..m : f[k] = f[l] => k = l) /\ \A y \in taken : \E k \in 1..m : f[k] = y
        BY <1>9, <1>10, <2>2
    <2> QED
        BY <2>1, <2>3, AsManyAgain
<1>12. taken \subseteq BaseIds /\ BaseIds \cap taken = taken
    BY <1>9, <1>10
<1>13. IsFiniteSet(BaseIds \ taken) /\ Cardinality(BaseIds \ taken) = b - m
    <2>1. IsFiniteSet(BaseIds \ taken) /\ Cardinality(BaseIds \ taken) = Cardinality(BaseIds) - Cardinality(BaseIds \cap taken)
        BY BaseIsCounted, FS_Difference
    <2> QED
        BY <1>5, <1>11, <1>12, <2>1
<1>14. IsFiniteSet({0} \X (BaseIds \ taken)) /\ Cardinality({0} \X (BaseIds \ taken)) = b - m
    <2>1. IsFiniteSet({0}) /\ Cardinality({0}) = 1
        BY FS_Singleton
    <2>2. PICK d \in Nat : d = Cardinality(BaseIds \ taken) /\ d = b - m
        BY <1>6, <1>13
    <2>3. IsFiniteSet({0} \X (BaseIds \ taken)) /\ Cardinality({0} \X (BaseIds \ taken)) = 1 * d
        BY <1>13, <2>1, <2>2, FS_Product
    <2> QED
        BY <2>2, <2>3
<1>15. PICK c \in Nat, k \in Nat, ck \in Nat : c = Copies /\ k = Cardinality(ids) /\ ck = Copies * Cardinality(ids) /\ n = b + ck
    BY <1>1, <1>5, RowsAreCounted, SliceAssumption
<1>16. IsFiniteSet(Copied(ids)) /\ Cardinality(Copied(ids)) = ck
    <2>1. IsFiniteSet(1..c) /\ Cardinality(1..c) = c
        BY FS_Interval
    <2>2. IsFiniteSet((1..c) \X ids) /\ Cardinality((1..c) \X ids) = c * k
        BY <1>1, <1>15, <2>1, FS_Product
    <2> QED
        BY <1>15, <2>2 DEF Copied
<1>17. PICK S : S = Others(n, ids)
    OBVIOUS
<1>18. S = ({0} \X (BaseIds \ taken)) \cup Copied(ids)
    BY <1>4, <1>9, <1>17 DEF Others
<1>19. ({0} \X (BaseIds \ taken)) \cap Copied(ids) = {}
    <2>1. \A x \in {0} \X (BaseIds \ taken) : x[1] = 0
        OBVIOUS
    <2>2. \A x \in Copied(ids) : x[1] # 0
        BY <1>15 DEF Copied
    <2> QED
        BY <2>1, <2>2
<1>20. IsFiniteSet(S) /\ Cardinality(S) = n - m
    <2>1. Cardinality({}) = 0
        BY FS_EmptySet
    <2>2. PICK A, B : A = {0} \X (BaseIds \ taken) /\ B = Copied(ids)
        OBVIOUS
    <2>3. IsFiniteSet(A \cup B) /\ Cardinality(A \cup B) = Cardinality(A) + Cardinality(B) - Cardinality(A \cap B)
        BY <1>14, <1>16, <2>2, FS_Union
    <2>4. S = A \cup B /\ A \cap B = {}
        BY <1>18, <1>19, <2>2
    <2>5. Cardinality(A) = b - m /\ Cardinality(B) = ck /\ Cardinality(A \cap B) = 0
        BY <1>14, <1>16, <2>1, <2>2, <2>4
    <2> QED
        BY <1>6, <1>15, <2>3, <2>4, <2>5
<1>21. S \subseteq Nat \X Nat
    <2>1. {0} \X (BaseIds \ taken) \subseteq Nat \X Nat
        <3>0. BaseIds \subseteq Nat
            BY BaseIsCounted
        <3>1. \A x \in {0} \X (BaseIds \ taken) : x[1] = 0 /\ x[2] \in BaseIds /\ x = <<x[1], x[2]>>
            OBVIOUS
        <3>2. ASSUME NEW x \in {0} \X (BaseIds \ taken) PROVE x \in Nat \X Nat
            <4>1. PICK i \in BaseIds : x = <<0, i>>
                BY <3>1
            <4> QED
                BY <3>0, <4>1
        <3> QED
            BY <3>2
    <2>2. Copied(ids) \subseteq Nat \X Nat
        <3>1. ids \subseteq Nat /\ 1..Copies \subseteq Nat
            BY <1>1, <1>15
        <3> QED
            BY <3>1 DEF Copied
    <2> QED
        BY <1>18, <2>1, <2>2
<1>22. PICK q : q = Sorted(S)
    OBVIOUS
<1>23. q = Rest(n, ids)
    BY <1>4, <1>9, <1>18, <1>22 DEF Rest
<1>24. n - m \in Nat
    BY <1>20, FS_CardinalityType
<1>25. /\ q \in [1..n - m -> S] /\ \A x \in S : \E j \in 1..n - m : q[j] = x
       /\ \A i, j \in 1..n - m : i < j => q[i] # q[j]
    BY <1>20, <1>21, <1>22, SortedInOrder
<1>26. \A i, j \in 1..n - m : q[i] = q[j] => i = j
    BY <1>24, <1>25
<1> QED
    <2>1. PICK o : o = Cardinality(OtherRows(n))
        OBVIOUS
    <2>2. o = n - m /\ IsFiniteSet(OtherRows(n))
        BY <1>8, <2>1 DEF OtherRows
    <2>3. /\ Cardinality(S) = o /\ q \in [1..o -> S] /\ \A x \in S : \E j \in 1..o : q[j] = x
          /\ \A i, j \in 1..o : q[i] = q[j] => i = j
        BY <1>20, <1>25, <1>26, <2>2
    <2>4. Cardinality(Slice[n]) <= Cardinality(BaseIds)
        BY <1>4, <1>5, <1>6
    <2> QED
        BY <1>1, <1>3, <1>17, <1>23, <2>1, <2>2, <2>3, <2>4

\* No conversation stands in the slice and among the other rows; a base row is there once, a new conversation as often as it is copied.
RowsRight(rows, ids) ==
    /\ {rows[p] : p \in Slice[Len(rows)]} \cap {rows[p] : p \in DOMAIN rows \ Slice[Len(rows)]} = {}
    /\ \A i \in BaseIds : Cardinality({p \in DOMAIN rows : rows[p] = i}) = 1
    /\ \A i \in ids : Cardinality({p \in DOMAIN rows : rows[p] = i}) = Copies
LEMMA PlacedRight ==
    ASSUME NEW ids, ids \subseteq Ids(Conversations), ids \cap BaseIds = {}, RowsFit(ids)
    PROVE  RowsRight(PlacedRows(ids), ids)
<1>1. PICK n : n = RowCount(ids)
    OBVIOUS
<1>2. PICK slice : slice = Slice[n]
    OBVIOUS
<1>3. PICK outside : outside = (1..n) \ slice
    OBVIOUS
<1>4. PICK S : S = Others(n, ids)
    OBVIOUS
<1>5. PICK m, o : m = Cardinality(slice) /\ o = Cardinality(outside)
    OBVIOUS
<1>6. PICK eval : eval = EvalSources(n)
    OBVIOUS
<1>7. PICK rest : rest = Rest(n, ids)
    OBVIOUS
<1>8. /\ n \in Nat /\ slice \subseteq 1..n /\ outside \subseteq 1..n /\ IsFiniteSet(slice) /\ IsFiniteSet(outside) /\ m \in Nat
      /\ m <= Cardinality(BaseIds)
    <2>1. outside = OtherRows(n) /\ outside \subseteq 1..n
        BY <1>2, <1>3 DEF OtherRows
    <2> QED
        BY <1>1, <1>2, <1>5, <2>1, RowsAreCounted, RestIsOrdered
<1>9. /\ rest \in [1..o -> S] /\ \A x \in S : \E k \in 1..o : rest[k] = x
      /\ \A k, l \in 1..o : rest[k] = rest[l] => k = l
    <2>1. o = Cardinality(OtherRows(n))
        BY <1>2, <1>3, <1>5 DEF OtherRows
    <2> QED
        BY <1>1, <1>4, <1>7, <2>1, RestIsOrdered
<1>10. eval \in [1..m -> BaseIds] /\ \A k, l \in 1..m : eval[k] = eval[l] => k = l
    BY <1>2, <1>5, <1>6, <1>8, EvalSourcesApart
<1>11. PICK taken : taken = {eval[k] : k \in 1..m}
    OBVIOUS
<1>12. S = ({0} \X (BaseIds \ taken)) \cup Copied(ids)
    BY <1>2, <1>4, <1>5, <1>6, <1>11 DEF Others
<1>13. PICK inSlice : inSlice = [p \in slice |-> RankOf(p, slice)]
    OBVIOUS
<1>14. PICK inRest : inRest = [p \in outside |-> RankOf(p, outside)]
    OBVIOUS
<1>15. slice \subseteq Nat /\ outside \subseteq Nat
    BY <1>8
<1>16. /\ \A p \in slice : inSlice[p] \in 1..m
       /\ \A p, q \in slice : inSlice[p] = inSlice[q] => p = q
       /\ \A k \in 1..m : \E p \in slice : inSlice[p] = k
    BY <1>5, <1>8, <1>13, <1>15, RanksAreRight
<1>17. /\ \A p \in outside : inRest[p] \in 1..o
       /\ \A p, q \in outside : inRest[p] = inRest[q] => p = q
       /\ \A k \in 1..o : \E p \in outside : inRest[p] = k
    BY <1>5, <1>8, <1>14, <1>15, RanksAreRight
<1>18. PICK rows : rows = PlacedRows(ids)
    OBVIOUS
<1>19. rows = [p \in 1..n |-> IF p \in slice THEN eval[RankOf(p, slice)] ELSE rest[RankOf(p, outside)][2]]
    BY <1>1, <1>2, <1>3, <1>6, <1>7, <1>18 DEF PlacedRows
<1>20. /\ DOMAIN rows = 1..n /\ DOMAIN rows \ slice = outside
       /\ \A p \in slice : rows[p] = eval[inSlice[p]] /\ rows[p] \in taken /\ rows[p] \in BaseIds
       /\ \A p \in outside : rows[p] = rest[inRest[p]][2] /\ rest[inRest[p]] \in S
    <2>1. DOMAIN rows = 1..n /\ DOMAIN rows \ slice = outside
        BY <1>3, <1>19
    <2>2. ASSUME NEW p \in slice PROVE rows[p] = eval[inSlice[p]] /\ rows[p] \in taken /\ rows[p] \in BaseIds
        <3>1. rows[p] = eval[inSlice[p]] /\ inSlice[p] \in 1..m
            BY <1>8, <1>13, <1>16, <1>19
        <3> QED
            BY <3>1, <1>10, <1>11
    <2>3. ASSUME NEW p \in outside PROVE rows[p] = rest[inRest[p]][2] /\ rest[inRest[p]] \in S
        <3>1. rows[p] = rest[inRest[p]][2] /\ inRest[p] \in 1..o
            BY <1>3, <1>8, <1>14, <1>17, <1>19
        <3> QED
            BY <3>1, <1>9
    <2> QED
        BY <2>1, <2>2, <2>3
<1>21. /\ \A x \in S : (x[2] \in BaseIds \ taken /\ x = <<0, x[2]>>) \/ (x[2] \in ids /\ x[1] \in 1..Copies /\ x = <<x[1], x[2]>>)
       /\ \A i \in BaseIds \ taken : <<0, i>> \in S
       /\ \A i \in ids, c \in 1..Copies : <<c, i>> \in S
    <2>1. ASSUME NEW x \in S
          PROVE  (x[2] \in BaseIds \ taken /\ x = <<0, x[2]>>) \/ (x[2] \in ids /\ x[1] \in 1..Copies /\ x = <<x[1], x[2]>>)
        <3>1. CASE x \in {0} \X (BaseIds \ taken)
            <4>1. PICK i \in BaseIds \ taken : x = <<0, i>>
                BY <3>1
            <4>2. x[2] = i
                BY <4>1
            <4>3. x[2] \in BaseIds \ taken /\ x = <<0, x[2]>>
                BY <4>1, <4>2
            <4> QED
                BY <4>3
        <3>2. CASE x \in (1..Copies) \X ids
            BY <3>2
        <3> QED
            BY <1>12, <3>1, <3>2 DEF Copied
    <2>2. \A i \in BaseIds \ taken : <<0, i>> \in {0} \X (BaseIds \ taken)
        OBVIOUS
    <2>3. \A i \in ids, c \in 1..Copies : <<c, i>> \in (1..Copies) \X ids
        OBVIOUS
    <2> QED
        BY <1>12, <2>1, <2>2, <2>3 DEF Copied
<1>22. Len(rows) = n
    BY <1>8, <1>20
<1>23. {rows[p] : p \in slice} \cap {rows[p] : p \in outside} = {}
    <2> SUFFICES ASSUME NEW p \in slice, NEW q \in outside PROVE rows[p] # rows[q]
        OBVIOUS
    <2>1. rows[p] \in taken /\ rows[p] \in BaseIds /\ rest[inRest[q]] \in S /\ rows[q] = rest[inRest[q]][2]
        BY <1>20
    <2>2. rows[q] \in BaseIds \ taken \/ rows[q] \in ids
        BY <2>1, <1>21
    <2> QED
        BY <2>1, <2>2
<1>24. ASSUME NEW i \in BaseIds PROVE \E p \in 1..n : \A q \in 1..n : rows[q] = i <=> q = p
    <2>1. CASE i \in taken
        <3>1. PICK k \in 1..m : eval[k] = i
            BY <1>11, <2>1
        <3>2. PICK p \in slice : inSlice[p] = k
            BY <1>16
        <3>3. ASSUME NEW q \in slice, rows[q] = i PROVE q = p
            BY <3>1, <3>2, <3>3, <1>10, <1>16, <1>20
        <3>4. ASSUME NEW q \in outside PROVE rows[q] # i
            <4>1. rest[inRest[q]] \in S /\ rows[q] = rest[inRest[q]][2]
                BY <1>20
            <4> QED
                BY <2>1, <4>1, <1>21
        <3>5. rows[p] = i
            BY <3>1, <3>2, <1>20
        <3> QED
            BY <3>2, <3>3, <3>4, <3>5, <1>3, <1>8
    <2>2. CASE i \notin taken
        <3>1. PICK k \in 1..o : rest[k] = <<0, i>>
            BY <1>9, <1>21, <2>2
        <3>2. PICK p \in outside : inRest[p] = k
            BY <1>17
        <3>3. ASSUME NEW q \in outside, rows[q] = i PROVE q = p
            <4>1. rest[inRest[q]] \in S /\ rest[inRest[q]][2] = i
                BY <3>3, <1>20
            <4>2. rest[inRest[q]] = <<0, i>>
                BY <4>1, <1>21
            <4> QED
                BY <3>1, <3>2, <4>2, <1>9, <1>17
        <3>4. ASSUME NEW q \in slice PROVE rows[q] # i
            BY <2>2, <1>20
        <3>5. rows[p] = i
            BY <3>1, <3>2, <1>20
        <3> QED
            BY <3>2, <3>3, <3>4, <3>5, <1>3, <1>8
    <2> QED
        BY <2>1, <2>2
<1>25. ASSUME NEW i \in BaseIds PROVE Cardinality({p \in DOMAIN rows : rows[p] = i}) = 1
    <2>1. PICK p \in 1..n : \A q \in 1..n : rows[q] = i <=> q = p
        BY <1>24
    <2>2. {q \in DOMAIN rows : rows[q] = i} = {p}
        BY <2>1, <1>20
    <2> QED
        BY <2>2, FS_Singleton
<1>26. ASSUME NEW i \in ids PROVE Cardinality({p \in DOMAIN rows : rows[p] = i}) = Copies
    <2>1. PICK T : T = {p \in DOMAIN rows : rows[p] = i}
        OBVIOUS
    <2>2. PICK index : index = [c \in 1..Copies |-> CHOOSE k \in 1..o : rest[k] = <<c, i>>]
        OBVIOUS
    <2>3. \A c \in 1..Copies : index[c] \in 1..o /\ rest[index[c]] = <<c, i>>
        <3> SUFFICES ASSUME NEW c \in 1..Copies PROVE index[c] \in 1..o /\ rest[index[c]] = <<c, i>>
            OBVIOUS
        <3>1. \E k \in 1..o : rest[k] = <<c, i>>
            BY <1>9, <1>21
        <3> QED
            BY <2>2, <3>1
    <2>4. PICK at : at = [c \in 1..Copies |-> CHOOSE p \in outside : inRest[p] = index[c]]
        OBVIOUS
    <2>5. \A c \in 1..Copies : at[c] \in outside /\ inRest[at[c]] = index[c]
        <3> SUFFICES ASSUME NEW c \in 1..Copies PROVE at[c] \in outside /\ inRest[at[c]] = index[c]
            OBVIOUS
        <3>1. \E p \in outside : inRest[p] = index[c]
            BY <1>17, <2>3
        <3> QED
            BY <2>4, <3>1
    <2>6. \A c \in 1..Copies : at[c] \in T
        <3> SUFFICES ASSUME NEW c \in 1..Copies PROVE at[c] \in T
            OBVIOUS
        <3>1. at[c] \in outside /\ rest[inRest[at[c]]] = <<c, i>>
            BY <2>3, <2>5
        <3>2. rows[at[c]] = rest[inRest[at[c]]][2] /\ at[c] \in DOMAIN rows
            BY <1>20, <3>1
        <3>3. rows[at[c]] = i
            BY <3>1, <3>2
        <3> QED
            BY <2>1, <3>2, <3>3
    <2>7. ASSUME NEW c \in 1..Copies, NEW d \in 1..Copies, at[c] = at[d] PROVE c = d
        <3>1. <<c, i>> = <<d, i>>
            BY <2>3, <2>5, <2>7
        <3> QED
            BY <3>1
    <2>8. ASSUME NEW p \in T PROVE \E c \in 1..Copies : at[c] = p
        <3>1. p \in 1..n /\ rows[p] = i
            BY <1>20, <2>1
        <3>2. p \in outside
            BY <1>3, <1>20, <3>1
        <3>3. rest[inRest[p]] \in S /\ rest[inRest[p]][2] = i
            BY <1>20, <3>1, <3>2
        <3>4. PICK c \in 1..Copies : rest[inRest[p]] = <<c, i>>
            BY <1>21, <3>3
        <3>5. inRest[p] = index[c]
            BY <1>9, <1>17, <2>3, <3>2, <3>4
        <3>6. at[c] = p
            BY <1>17, <2>5, <3>2, <3>5
        <3> QED
            BY <3>6
    <2>9. at \in [1..Copies -> T]
        BY <2>4, <2>6
    <2>10. IsFiniteSet(1..Copies) /\ Cardinality(1..Copies) = Copies
        BY SliceAssumption, FS_Interval
    <2>11. Cardinality(T) = Copies
        BY <2>7, <2>8, <2>9, <2>10, AsManyAgain
    <2> QED
        BY <2>1, <2>11
<1>27. Slice[Len(rows)] = slice /\ DOMAIN rows \ Slice[Len(rows)] = outside
    BY <1>2, <1>20, <1>22
<1>28. {rows[p] : p \in Slice[Len(rows)]} \cap {rows[p] : p \in DOMAIN rows \ Slice[Len(rows)]} = {}
    BY <1>23, <1>27
<1>29. RowsRight(rows, ids)
    BY <1>25, <1>26, <1>28 DEF RowsRight
<1> QED
    BY <1>18, <1>29

-----------------------------------------------------------------------------
(***************************************************************************)
(* The training sets. Nobody else writes while a set is built, so that     *)
(* what stands on the disk is what the build is at; what nothing disturbed *)
(* is what was authorized, and its gates were passed by the very records   *)
(* that are written; and what is written fits its slice.                   *)
(***************************************************************************)
SetNames == {"first", "second", "third", "fourth"}
Frozen2 == {"first", "second"}
Written2 == {"export", "frozen"}
\* KeptApart, whatever the knowledge served.
BaseSources == OfKinds(Conversations, {"base", "base_eval"})
Apart(held, train) ==
    /\ \A h \in held, r \in train : ~Near(h, r) /\ h.about # r.about
    /\ \A h \in held, b \in BaseSources : ~NearLong(h, b)
    /\ \A r \in held \cup train, b \in BaseSources : b.kind = "base_eval" => ~Near(r, b)
    /\ \A r \in held \cup train : r.asks \notin Benchmarks
SplitApart(recs) == Apart(HeldOut(recs), recs \ HeldOut(recs))
NoIdIn(held, train) == Ids(held) \cap Ids(train) = {}
Known(recs, kinds) == \A r \in recs : \E c \in Conversations : c.id = r.id /\ c.kind = r.kind /\ c.kind \in kinds
HaveIds(recs) == \A r \in recs : "id" \in DOMAIN r
NamedBy(s, approval) == IF s = "first" THEN approval ELSE UNION {a[1] : a \in approval}
Authored(s) == IF s = "first" THEN OfKinds(built.corpus, Corrective) ELSE built.corpus
ToTrain(recs) == Ids(recs \ HeldOut(recs))

SetsShape ==
    /\ DOMAIN sets = SetNames /\ DOMAIN built = {"corpus", "drafts"}
    /\ sources \subseteq Conversations /\ Known(built.corpus, CorpusKinds) /\ HaveIds(built.drafts)
    /\ \/ freeze = NoFreeze
       \/ /\ DOMAIN freeze = {"at", "set", "recs", "undisturbed"}
          /\ freeze.at \in {"read", "gated", "snapshot", "export"} /\ freeze.set \in SetNames
BuildInv ==
    /\ freeze.at \in {"gated", "snapshot"} => freeze.set \in Frozen2
    /\ freeze.at \in {"snapshot", "export"} => sets[freeze.set].at = freeze.at
    /\ freeze.at = "read" /\ freeze.set = "third" =>
         sets["second"].at \in Written2 /\ NoIdIn(sets["second"].held, freeze.recs) /\ HaveIds(freeze.recs)
    /\ freeze.at = "read" /\ freeze.set = "fourth" =>
         sets["fourth"].at = "absent" /\ sets["third"].at \in Written2 /\ NoIdIn(sets["third"].held, freeze.recs)
FirstTwoInv ==
    freeze # NoFreeze /\ freeze.set \in Frozen2 =>
        /\ Known(freeze.recs, CorpusKinds)
        /\ freeze.at = "snapshot" => RowsFit(ToTrain(freeze.recs))
        /\ freeze.undisturbed => /\ freeze.recs = Authored(freeze.set)
                                 /\ freeze.at # "read" => SplitApart(freeze.recs)
                                 /\ freeze.at \in {"snapshot", "export"} => NamedBy(freeze.set, sets[freeze.set].approval) = freeze.recs
        /\ freeze.at = "export" => sets[freeze.set].held = HeldOut(freeze.recs)
                                   /\ sets[freeze.set].train = freeze.recs \ HeldOut(freeze.recs)
WrittenInv ==
    /\ \A s \in Frozen2 : sets[s].at \in Written2 => RowsRight(sets[s].rows, Ids(sets[s].train))
    /\ sets["third"].at \in {"absent"} \cup Written2
    /\ sets["third"].at \in Written2 => HaveIds(sets["third"].train)
    /\ \A s \in {"first", "second", "third"} : sets[s].at \in Written2 => Known(sets[s].held, CorpusKinds)
    /\ \A s \in {"third", "fourth"} : sets[s].at \in Written2 => NoIdIn(sets[s].held, sets[s].train)
    /\ \A s \in Frozen2 : sets[s].at = "frozen" /\ sets[s].undisturbed =>
         /\ Apart(sets[s].held, sets[s].train)
         /\ sets[s].train \cup sets[s].held = NamedBy(s, sets[s].approval)
SetsInv == SetsShape /\ BuildInv /\ FirstTwoInv /\ WrittenInv

LEMMA BaseAsWritten ==
    ASSUME NEW r
    PROVE  /\ (\A b \in Base : ~NearLong(r, b)) <=> \A c \in BaseSources : ~NearLong(r, c)
           /\ (\A b \in OfKinds(Base, {"base_eval"}) : ~Near(r, b))
                <=> \A c \in BaseSources : c.kind = "base_eval" => ~Near(r, c)
<1>1. Base = {Replay(c) : c \in BaseSources}
    BY DEF Base, BaseSources
<1>2. \A c : (Near(r, Replay(c)) <=> Near(r, c)) /\ (NearLong(r, Replay(c)) <=> NearLong(r, c))
    BY DEF Near, NearLong, Replay
<1>3. \A c : Replay(c).kind = c.kind
    BY DEF Replay
<1>4. (\A b \in Base : ~NearLong(r, b)) <=> \A c \in BaseSources : ~NearLong(r, c)
    BY <1>1, <1>2
<1>5. \A b : b \in OfKinds(Base, {"base_eval"}) <=> b \in Base /\ b.kind = "base_eval"
    BY DEF OfKinds
<1>6. (\A b \in OfKinds(Base, {"base_eval"}) : ~Near(r, b)) <=> \A b \in Base : b.kind = "base_eval" => ~Near(r, b)
    BY <1>5
<1>7. (\A b \in Base : b.kind = "base_eval" => ~Near(r, b)) <=> \A c \in BaseSources : c.kind = "base_eval" => ~Near(r, c)
    BY <1>1, <1>2, <1>3
<1> QED
    BY <1>4, <1>6, <1>7

LEMMA ApartIsKeptApart == ASSUME NEW held, NEW train PROVE Apart(held, train) <=> KeptApart(held, train)
<1>1. \A h \in held : (\A b \in Base : ~NearLong(h, b)) <=> \A c \in BaseSources : ~NearLong(h, c)
    BY BaseAsWritten
<1>2. \A r \in held \cup train : (\A b \in OfKinds(Base, {"base_eval"}) : ~Near(r, b))
                                     <=> \A c \in BaseSources : c.kind = "base_eval" => ~Near(r, c)
    BY BaseAsWritten
<1>3. Apart(held, train) => KeptApart(held, train)
    <2> SUFFICES ASSUME Apart(held, train) PROVE KeptApart(held, train)
        OBVIOUS
    <2>1. \A h \in held : \A b \in Base : ~NearLong(h, b)
        BY <1>1 DEF Apart
    <2>2. \A r \in held \cup train : \A b \in OfKinds(Base, {"base_eval"}) : ~Near(r, b)
        BY <1>2 DEF Apart
    <2>3. \A r \in held \cup train : r.asks \notin Benchmarks
        BY DEF Apart
    <2>4. \A h \in held, r \in train : ~Near(h, r) /\ h.about # r.about
        BY DEF Apart
    <2> QED
        BY <2>1, <2>2, <2>3, <2>4 DEF KeptApart
<1>4. KeptApart(held, train) => Apart(held, train)
    <2> SUFFICES ASSUME KeptApart(held, train) PROVE Apart(held, train)
        OBVIOUS
    <2>1. \A h \in held, b \in BaseSources : ~NearLong(h, b)
        BY <1>1 DEF KeptApart
    <2>2. \A r \in held \cup train, b \in BaseSources : b.kind = "base_eval" => ~Near(r, b)
        BY <1>2 DEF KeptApart
    <2> QED
        BY <2>1, <2>2 DEF Apart, KeptApart
<1> QED
    BY <1>3, <1>4

LEMMA NotLeaking == ASSUME NEW held, NEW train PROVE Apart(held, train) <=> ~Leaks(held, train)
<1>1. \A r : (\A b \in OfKinds(Base, {"base_eval"}) : ~Near(r, b)) <=> \A b \in Base : b.kind = "base_eval" => ~Near(r, b)
    BY DEF OfKinds
<1> QED
    BY <1>1, ApartIsKeptApart DEF KeptApart, Leaks

LEMMA NotLeakingIds == ASSUME NEW held, NEW train PROVE NoIdIn(held, train) <=> ~LeaksByIdOnly(held, train)
    BY DEF NoIdIn, LeaksByIdOnly

LEMMA SetsAreRight == SetsInv => SetsAreSound
<1> SUFFICES ASSUME SetsInv PROVE SetsAreSound
    OBVIOUS
<1>1. \A s \in Frozen2 : Trained(s) => Apart(sets[s].held, sets[s].train)
    BY DEF SetsInv, WrittenInv, Trained
<1>2. \A s \in {"third", "fourth"} : Trained(s) => NoIdIn(sets[s].held, sets[s].train)
    BY DEF SetsInv, WrittenInv, Trained, Written2
<1>3. HoldoutNeverTrained
    BY <1>1, <1>2, ApartIsKeptApart, NotLeakingIds DEF HoldoutNeverTrained, Frozen2
<1>4. FrozenAsAuthorized
    BY DEF SetsInv, WrittenInv, Trained, FrozenAsAuthorized, NamedBy, Frozen2
<1>5. SliceIsUnseen
    <2>1. \A s \in {"first", "second"} : sets[s].at = "frozen" => RowsRight(sets[s].rows, Ids(sets[s].train))
        BY DEF SetsInv, WrittenInv, Frozen2, Written2
    <2>2. \A recs : \A r \in recs : r.id \in Ids(recs)
        BY DEF Ids
    <2> QED
        BY <2>1, <2>2 DEF SliceIsUnseen, RowsRight
<1> QED
    BY <1>3, <1>4, <1>5 DEF SetsAreSound

\* Of the conversations of some kinds, what is held out is what is held out of them all.
LEMMA HeldOutOfCorrective ==
    ASSUME NEW recs, SplitApart(recs) PROVE SplitApart(OfKinds(recs, Corrective))
<1> DEFINE own == OfKinds(recs, Corrective)
<1>1. OfKinds(own, Corrective) = own
    BY DEF OfKinds
<1>2. HeldOut(own) \subseteq HeldOut(recs)
    BY <1>1 DEF HeldOut, OfKinds
<1>3. own \ HeldOut(own) \subseteq recs \ HeldOut(recs)
    BY <1>1 DEF HeldOut, OfKinds
<1> HIDE DEF own
<1> QED
    BY <1>2, <1>3 DEF SplitApart, Apart, own

LEMMA KnownParts ==
    /\ \A recs, kinds : \A piece \in SUBSET recs : Known(recs, kinds) => Known(piece, kinds)
    /\ \A recs : Known(recs, CorpusKinds) => Known(OfKinds(recs, Corrective), CorpusKinds)
    /\ \A recs : Known(recs, CorpusKinds) => Known(HeldOut(recs), CorpusKinds)
    BY DEF Known, OfKinds, HeldOut

\* No conversation of a corpus is one of the base's.
LEMMA CorpusApartFromBase ==
    ASSUME NEW recs, Known(recs, CorpusKinds)
    PROVE  Ids(recs) \subseteq Ids(Conversations) /\ Ids(recs) \cap BaseIds = {}
<1>1. ASSUME NEW r \in recs, NEW b \in Conversations, b.kind = "base" PROVE r.id # b.id
    <2>1. PICK c \in Conversations : c.id = r.id /\ c.kind \in CorpusKinds
        BY DEF Known
    <2>2. c.kind # b.kind
        BY <1>1, <2>1 DEF CorpusKinds, Corrective, DanceKinds
    <2> QED
        BY <2>1, <2>2, SourcesAssumption
<1>2. \A r \in recs : r.id \in Ids(Conversations)
    BY DEF Known, Ids
<1> QED
    BY <1>1, <1>2 DEF BaseIds, Ids, OfKinds

LEMMA RebuiltIsKnown ==
    ASSUME sources \subseteq Conversations, NEW kinds PROVE Known(Rebuilt(kinds), kinds)
    BY DEF Known, Rebuilt, OfKinds, Replay

LEMMA DifferentKindsApart ==
    ASSUME NEW held, NEW train, Known(held, CorpusKinds), Known(train, {"final"}) PROVE NoIdIn(held, train)
    BY SourcesAssumption DEF Known, NoIdIn, Ids, CorpusKinds, Corrective, DanceKinds

LEMMA SetsBegin == TrainingSetsInit => SetsInv
<1> SUFFICES ASSUME TrainingSetsInit PROVE SetsInv
    OBVIOUS
<1>1. SetsShape
    BY SourcesAssumption DEF TrainingSetsInit, SetsShape, SetNames, Known, HaveIds
<1>2. BuildInv /\ FirstTwoInv
    BY DEF TrainingSetsInit, BuildInv, FirstTwoInv, NoFreeze
<1>3. WrittenInv
    BY DEF TrainingSetsInit, WrittenInv, Written2, Frozen2
<1> QED
    BY <1>1, <1>2, <1>3 DEF SetsInv

LEMMA NotFreezing == NoFreeze.at = "none" /\ DOMAIN NoFreeze = {"at"}
    BY DEF NoFreeze

\* What somebody edits disturbs the build; the sets are what they were.
LEMMA DisturbKeeps ==
    ASSUME SetsInv, freeze' = Disturbed, UNCHANGED sets, DOMAIN built' = {"corpus", "drafts"},
           sources' \subseteq Conversations, Known(built'.corpus, CorpusKinds), HaveIds(built'.drafts)
    PROVE  SetsInv'
<1>1. WrittenInv'
    BY DEF SetsInv, WrittenInv
<1>2. CASE freeze = NoFreeze
    <2>1. freeze' = NoFreeze
        BY <1>2 DEF Disturbed
    <2> QED
        BY <1>1, <2>1, NotFreezing DEF SetsInv, SetsShape, BuildInv, FirstTwoInv
<1>3. CASE freeze # NoFreeze
    <2>1. freeze' = [freeze EXCEPT !.undisturbed = FALSE]
        BY <1>3 DEF Disturbed
    <2>2. DOMAIN freeze = {"at", "set", "recs", "undisturbed"}
        BY <1>3 DEF SetsInv, SetsShape
    <2>3. /\ DOMAIN freeze' = {"at", "set", "recs", "undisturbed"} /\ freeze'.undisturbed = FALSE
          /\ freeze'.at = freeze.at /\ freeze'.set = freeze.set /\ freeze'.recs = freeze.recs
        BY <2>1, <2>2
    <2>4. SetsShape'
        BY <1>3, <2>3 DEF SetsInv, SetsShape
    <2>5. BuildInv'
        BY <2>3 DEF SetsInv, BuildInv
    <2>6. FirstTwoInv'
        BY <1>3, <2>3 DEF SetsInv, FirstTwoInv
    <2> QED
        BY <1>1, <2>4, <2>5, <2>6 DEF SetsInv
<1> QED
    BY <1>2, <1>3

LEMMA EditingKeeps ==
    ASSUME SetsInv,
           \/ \E c \in Conversations : EditSources(c)
           \/ \E v \in Servings : EditServing(v)
           \/ BuildCorpus \/ BuildDrafts
           \/ \E s \in {"first", "second", "third"} : Authorize(s)
    PROVE  SetsInv' /\ UNCHANGED sets
<1>1. freeze' = Disturbed /\ UNCHANGED sets
    BY DEF EditSources, EditServing, BuildCorpus, BuildDrafts, Authorize
<1>2. sources' \subseteq Conversations
    BY DEF EditSources, EditServing, BuildCorpus, BuildDrafts, Authorize, SetsInv, SetsShape
<1>3. \/ UNCHANGED built
      \/ built' = [built EXCEPT !.corpus = Rebuilt(CorpusKinds)]
      \/ built' = [built EXCEPT !.drafts = Rebuilt({"draft"})]
    BY DEF EditSources, EditServing, BuildCorpus, BuildDrafts, Authorize
<1>4. Known(Rebuilt(CorpusKinds), CorpusKinds)
    BY RebuiltIsKnown DEF SetsInv, SetsShape
<1>5. HaveIds(Rebuilt({"draft"}))
    BY DEF HaveIds, Rebuilt, Replay
<1>6. DOMAIN built' = {"corpus", "drafts"} /\ Known(built'.corpus, CorpusKinds) /\ HaveIds(built'.drafts)
    BY <1>3, <1>4, <1>5 DEF SetsInv, SetsShape
<1> QED
    BY <1>1, <1>2, <1>6, DisturbKeeps

\* A build that ends in nothing: the sets, and what they are built from, stay.
LEMMA NothingBuilt ==
    ASSUME SetsInv, freeze' = NoFreeze, UNCHANGED <<sets, built, sources>> PROVE SetsInv'
    BY NotFreezing DEF SetsInv, SetsShape, BuildInv, FirstTwoInv, WrittenInv

\* A build that goes on without writing.
LEMMA ReadingIs ==
    ASSUME NEW s, NEW recs
    PROVE  /\ DOMAIN Reading(s, recs) = {"at", "set", "recs", "undisturbed"} /\ Reading(s, recs).at = "read"
           /\ Reading(s, recs).set = s /\ Reading(s, recs).recs = recs /\ Reading(s, recs) # NoFreeze
    BY NotFreezing DEF Reading

LEMMA BeginKeeps == ASSUME SetsInv, BeginBuild PROVE SetsInv' /\ UNCHANGED sets
<1>1. UNCHANGED <<sources, built, sets>>
    BY DEF BeginBuild
<1>2. PICK s \in Frozen2 : freeze' = Reading(s, Authored(s))
    BY DEF BeginBuild, BeginFirst, BeginSecond, Authored, Frozen2
<1>3. PICK recs : recs = Authored(s)
    OBVIOUS
<1>4. Known(recs, CorpusKinds)
    BY <1>3, KnownParts DEF Authored, SetsInv, SetsShape
<1>5. /\ DOMAIN freeze' = {"at", "set", "recs", "undisturbed"} /\ freeze'.at = "read"
      /\ freeze'.set = s /\ freeze'.recs = recs /\ freeze' # NoFreeze
    BY <1>2, <1>3, ReadingIs
<1>6. SetsShape'
    BY <1>1, <1>5 DEF SetsInv, SetsShape, SetNames, Frozen2
<1>7. BuildInv'
    BY <1>5 DEF BuildInv, Frozen2
<1>8. FirstTwoInv'
    BY <1>1, <1>3, <1>4, <1>5 DEF FirstTwoInv, Authored
<1>9. WrittenInv'
    BY <1>1 DEF SetsInv, WrittenInv
<1> QED
    BY <1>1, <1>6, <1>7, <1>8, <1>9 DEF SetsInv

LEMMA GatesKeep == ASSUME SetsInv, RunGates PROVE SetsInv' /\ UNCHANGED sets
<1>1. UNCHANGED <<sources, built, sets>> /\ freeze.at = "read" /\ freeze.set \in Frozen2
    BY DEF RunGates, Frozen2
<1>2. CASE ~GatesPass
    BY <1>1, <1>2, NothingBuilt DEF RunGates
<1>3. CASE GatesPass
    <2>1. freeze' = [freeze EXCEPT !.at = "gated"]
        BY <1>3 DEF RunGates
    <2>2. DOMAIN freeze = {"at", "set", "recs", "undisturbed"} /\ freeze # NoFreeze
        BY <1>1, NotFreezing DEF SetsInv, SetsShape
    <2>3. /\ DOMAIN freeze' = {"at", "set", "recs", "undisturbed"} /\ freeze'.undisturbed = freeze.undisturbed
          /\ freeze'.at = "gated" /\ freeze'.set = freeze.set /\ freeze'.recs = freeze.recs /\ freeze' # NoFreeze
        BY <2>1, <2>2, NotFreezing
    <2>4. SplitApart(built.corpus)
        BY <1>3, NotLeaking DEF GatesPass, LeakCheckPasses, SplitApart
    <2>5. freeze.undisturbed => SplitApart(freeze.recs)
        BY <1>1, <2>2, <2>4, HeldOutOfCorrective DEF SetsInv, FirstTwoInv, Authored
    <2>6. SetsShape'
        BY <1>1, <2>2, <2>3 DEF SetsInv, SetsShape
    <2>7. BuildInv'
        BY <1>1, <2>3 DEF BuildInv
    <2>8. FirstTwoInv'
        BY <1>1, <2>2, <2>3, <2>5 DEF SetsInv, FirstTwoInv, Authored
    <2>9. WrittenInv'
        BY <1>1 DEF SetsInv, WrittenInv
    <2> QED
        BY <1>1, <2>6, <2>7, <2>8, <2>9 DEF SetsInv
<1> QED
    BY <1>2, <1>3

\* One set is written, by the build that is on it.
LEMMA OneSetWritten ==
    ASSUME SetsInv, NEW s \in SetNames, NEW set, sets' = [sets EXCEPT ![s] = set]
    PROVE  sets'[s] = set /\ DOMAIN sets' = SetNames /\ \A t \in SetNames \ {s} : sets'[t] = sets[t]
    BY DEF SetsInv, SetsShape

LEMMA SnapshotKeeps ==
    ASSUME SetsInv, WriteSnapshot
    PROVE  SetsInv' /\ \A s \in SetNames : sets[s].at = "frozen" => sets'[s] = sets[s]
<1>1. UNCHANGED <<sources, built, approvals, serving>> /\ freeze.at = "gated" /\ freeze # NoFreeze
    BY NotFreezing DEF WriteSnapshot
<1>2. PICK s : s = freeze.set
    OBVIOUS
<1>3. s \in Frozen2 /\ s \in SetNames
    BY <1>1, <1>2 DEF SetsInv, BuildInv, SetNames, Frozen2
<1> DEFINE fits == RowsFit(ToTrain(freeze.recs))
<1>4. CASE ~(fits /\ Authorized(s) /\ Free(s))
    BY <1>1, <1>2, <1>4, NothingBuilt DEF WriteSnapshot, ToTrain
<1>5. CASE fits /\ Authorized(s) /\ Free(s)
    <2>1. freeze' = [freeze EXCEPT !.at = "snapshot"] /\ sets' = [sets EXCEPT ![s] = Snapshot(s)]
        BY <1>2, <1>5 DEF WriteSnapshot, ToTrain
    <2>2. sets'[s] = Snapshot(s) /\ DOMAIN sets' = SetNames /\ \A t \in SetNames \ {s} : sets'[t] = sets[t]
        BY <1>3, <2>1, OneSetWritten
    <2>3. Snapshot(s).at = "snapshot" /\ Snapshot(s).approval = approvals[s]
        BY DEF Snapshot
    <2>4. DOMAIN freeze = {"at", "set", "recs", "undisturbed"}
        BY <1>1 DEF SetsInv, SetsShape
    <2>5. /\ DOMAIN freeze' = {"at", "set", "recs", "undisturbed"} /\ freeze'.undisturbed = freeze.undisturbed
          /\ freeze'.at = "snapshot" /\ freeze'.set = s /\ freeze'.recs = freeze.recs /\ freeze' # NoFreeze
        BY <1>2, <2>1, <2>4, NotFreezing
    <2>6. sets[s].at = "absent"
        BY <1>5 DEF Free
    <2>7. NamedBy(s, approvals[s]) = Authored(s)
        BY <1>3, <1>5 DEF Authorized, Inputs, NamedBy, Authored, Frozen2
    <2>8. SetsShape'
        BY <1>1, <1>3, <2>2, <2>5 DEF SetsInv, SetsShape
    <2>9. BuildInv'
        BY <1>3, <2>2, <2>3, <2>5 DEF BuildInv
    <2>10. FirstTwoInv'
        BY <1>1, <1>2, <1>3, <1>5, <2>2, <2>3, <2>5, <2>7 DEF SetsInv, FirstTwoInv, Authored
    <2>11. WrittenInv'
        BY <1>3, <2>2, <2>3 DEF SetsInv, WrittenInv, SetNames, Frozen2, Written2
    <2>12. \A t \in SetNames : sets[t].at = "frozen" => sets'[t] = sets[t]
        BY <2>2, <2>6
    <2> QED
        BY <2>8, <2>9, <2>10, <2>11, <2>12 DEF SetsInv
<1> QED
    BY <1>4, <1>5

LEMMA ExportKeeps ==
    ASSUME SetsInv, WriteExport
    PROVE  SetsInv' /\ \A s \in SetNames : sets[s].at = "frozen" => sets'[s] = sets[s]
<1>1. UNCHANGED <<sources, built, approvals, serving>> /\ freeze.at = "snapshot" /\ freeze # NoFreeze
    BY NotFreezing DEF WriteExport
<1>2. PICK s : s = freeze.set
    OBVIOUS
<1>3. s \in Frozen2 /\ s \in SetNames /\ sets[s].at = "snapshot"
    BY <1>1, <1>2 DEF SetsInv, BuildInv, SetNames, Frozen2
<1>4. PICK held : held = HeldOut(freeze.recs)
    OBVIOUS
<1>5. PICK train : train = freeze.recs \ held
    OBVIOUS
<1>6. PICK rows : rows = PlacedRows(Ids(train)) /\ sets' = [sets EXCEPT ![s] = Export(sets[s], held, train, rows)]
    BY <1>2, <1>4, <1>5 DEF WriteExport
<1>7. PICK set : set = Export(sets[s], held, train, rows)
    OBVIOUS
<1>8. set.at = "export" /\ set.held = held /\ set.train = train /\ set.approval = sets[s].approval /\ set.rows = rows
    BY <1>7 DEF Export
<1>9. sets'[s] = set /\ DOMAIN sets' = SetNames /\ \A t \in SetNames \ {s} : sets'[t] = sets[t]
    BY <1>3, <1>6, <1>7, OneSetWritten
<1>10. DOMAIN freeze = {"at", "set", "recs", "undisturbed"} /\ freeze' = [freeze EXCEPT !.at = "export"]
    BY <1>1 DEF SetsInv, SetsShape, WriteExport
<1>11. /\ DOMAIN freeze' = {"at", "set", "recs", "undisturbed"} /\ freeze'.undisturbed = freeze.undisturbed
       /\ freeze'.at = "export" /\ freeze'.set = s /\ freeze'.recs = freeze.recs /\ freeze' # NoFreeze
    BY <1>2, <1>10, NotFreezing
<1>12. Known(freeze.recs, CorpusKinds) /\ Known(held, CorpusKinds)
    BY <1>1, <1>2, <1>3, <1>4, KnownParts DEF SetsInv, FirstTwoInv
<1>13. SetsShape'
    BY <1>1, <1>3, <1>9, <1>11 DEF SetsInv, SetsShape
<1>14. BuildInv'
    BY <1>8, <1>9, <1>11 DEF BuildInv
<1>15. FirstTwoInv'
    BY <1>1, <1>2, <1>3, <1>4, <1>5, <1>8, <1>9, <1>11 DEF SetsInv, FirstTwoInv, Authored
<1>18. RowsRight(rows, Ids(train))
    <2>1. RowsFit(Ids(train))
        BY <1>1, <1>2, <1>3, <1>4, <1>5 DEF SetsInv, FirstTwoInv, ToTrain
    <2>2. Known(train, CorpusKinds)
        BY <1>5, <1>12, KnownParts
    <2> QED
        BY <1>6, <2>1, <2>2, CorpusApartFromBase, PlacedRight
<1>16. WrittenInv'
    BY <1>3, <1>8, <1>9, <1>12, <1>18 DEF SetsInv, WrittenInv, SetNames, Frozen2, Written2
<1>17. \A t \in SetNames : sets[t].at = "frozen" => sets'[t] = sets[t]
    BY <1>3, <1>9
<1> QED
    BY <1>13, <1>14, <1>15, <1>16, <1>17 DEF SetsInv

\* The manifest ends a build: of the first two sets, or of the last two.
LEMMA ManifestKeeps ==
    ASSUME SetsInv, WriteFreezeManifest \/ WriteFinalManifest
    PROVE  SetsInv' /\ \A s \in SetNames : sets[s].at = "frozen" => sets'[s] = sets[s]
<1>1. UNCHANGED <<sources, built, approvals, serving>> /\ freeze.at = "export" /\ freeze # NoFreeze /\ freeze' = NoFreeze
    BY NotFreezing DEF WriteFreezeManifest, WriteFinalManifest
<1>2. PICK s : s = freeze.set
    OBVIOUS
<1>3. s \in SetNames /\ sets[s].at = "export"
    BY <1>1, <1>2 DEF SetsInv, SetsShape, BuildInv
<1>4. PICK set : set = Manifested(sets[s])
    OBVIOUS
<1>5. sets' = [sets EXCEPT ![s] = set]
    BY <1>2, <1>4 DEF WriteFreezeManifest, WriteFinalManifest
<1>6. /\ set.at = "frozen" /\ set.held = sets[s].held /\ set.train = sets[s].train /\ set.approval = sets[s].approval
      /\ set.undisturbed = freeze.undisturbed /\ set.rows = sets[s].rows
    BY <1>4 DEF Manifested
<1>7. sets'[s] = set /\ DOMAIN sets' = SetNames /\ \A t \in SetNames \ {s} : sets'[t] = sets[t]
    BY <1>3, <1>5, OneSetWritten
<1>8. ASSUME s \in Frozen2
      PROVE  /\ Known(set.held, CorpusKinds)
             /\ set.undisturbed => Apart(set.held, set.train) /\ set.train \cup set.held = NamedBy(s, set.approval)
    <2>1. /\ Known(freeze.recs, CorpusKinds) /\ set.held = HeldOut(freeze.recs) /\ set.train = freeze.recs \ HeldOut(freeze.recs)
          /\ freeze.undisturbed => SplitApart(freeze.recs) /\ NamedBy(s, set.approval) = freeze.recs
        BY <1>1, <1>2, <1>6, <1>8 DEF SetsInv, FirstTwoInv
    <2>2. HeldOut(freeze.recs) \subseteq freeze.recs
        BY DEF HeldOut
    <2> QED
        BY <1>6, <2>1, <2>2, KnownParts DEF SplitApart
<1>9. SetsShape'
    BY <1>1, <1>7 DEF SetsInv, SetsShape
<1>10. BuildInv' /\ FirstTwoInv'
    BY <1>1, NotFreezing DEF BuildInv, FirstTwoInv
<1>11. WrittenInv'
    <2> USE <1>3, <1>6, <1>7 DEF SetsInv, WrittenInv, SetNames, Frozen2, Written2
    <2>0. \A t \in Frozen2 : sets'[t].at \in Written2 => RowsRight(sets'[t].rows, Ids(sets'[t].train))
        OBVIOUS
    <2>1. /\ sets'["third"].at \in {"absent"} \cup Written2
          /\ sets'["third"].at \in Written2 => HaveIds(sets'["third"].train)
        OBVIOUS
    <2>2. \A t \in {"first", "second", "third"} : sets'[t].at \in Written2 => Known(sets'[t].held, CorpusKinds)
        OBVIOUS
    <2>3. \A t \in {"third", "fourth"} : sets'[t].at \in Written2 => NoIdIn(sets'[t].held, sets'[t].train)
        OBVIOUS
    <2>4. \A t \in Frozen2 : sets'[t].at = "frozen" /\ sets'[t].undisturbed =>
            /\ Apart(sets'[t].held, sets'[t].train)
            /\ sets'[t].train \cup sets'[t].held = NamedBy(t, sets'[t].approval)
        <3> TAKE t \in Frozen2
        <3>1. CASE t = s
            BY <1>8, <3>1
        <3>2. CASE t # s
            BY <3>2
        <3> QED
            BY <3>1, <3>2
    <2> QED
        BY <2>0, <2>1, <2>2, <2>3, <2>4
<1>12. \A t \in SetNames : sets[t].at = "frozen" => sets'[t] = sets[t]
    BY <1>3, <1>7
<1> QED
    BY <1>9, <1>10, <1>11, <1>12 DEF SetsInv

LEMMA BeginThirdKeeps == ASSUME SetsInv, BeginThird PROVE SetsInv' /\ UNCHANGED sets
<1>1. UNCHANGED <<sources, built, sets>> /\ sets["second"].at \in Written2
    BY DEF BeginThird, Written2
<1>2. PICK recs : recs = KeptRecords(Gathered)
    OBVIOUS
<1>3. freeze' = Reading("third", recs) /\ ThirdGate(recs)
    BY <1>2 DEF BeginThird
<1>4. /\ DOMAIN freeze' = {"at", "set", "recs", "undisturbed"} /\ freeze'.at = "read"
      /\ freeze'.set = "third" /\ freeze'.recs = recs /\ freeze' # NoFreeze
    BY <1>3, ReadingIs
<1>5. NoIdIn(sets["second"].held, recs)
    BY <1>3, NotLeakingIds DEF ThirdGate
<1>6. HaveIds(recs)
    <2>1. HaveIds(Base) /\ HaveIds(Rebuilt({"corrective", "dance"})) /\ HaveIds(built.drafts)
        BY DEF HaveIds, Base, Rebuilt, Replay, SetsInv, SetsShape
    <2>2. HaveIds(Gathered)
        BY <2>1 DEF HaveIds, Gathered, OfKinds
    <2> QED
        BY <1>2, <2>2 DEF HaveIds, KeptRecords
<1>7. SetsShape'
    BY <1>1, <1>4 DEF SetsInv, SetsShape, SetNames
<1>8. BuildInv'
    BY <1>1, <1>4, <1>5, <1>6 DEF BuildInv
<1>9. FirstTwoInv'
    BY <1>4 DEF FirstTwoInv, Frozen2
<1>10. WrittenInv'
    BY <1>1 DEF SetsInv, WrittenInv
<1> QED
    BY <1>1, <1>7, <1>8, <1>9, <1>10 DEF SetsInv

LEMMA RewrittenKeepsIds == ASSUME NEW recs, HaveIds(recs) PROVE Ids({Rewritten(r) : r \in recs}) = Ids(recs)
<1>1. \A r \in recs : Rewritten(r).id = r.id
    BY DEF HaveIds, Rewritten
<1> QED
    BY <1>1 DEF Ids

LEMMA BeginFourthKeeps == ASSUME SetsInv, BeginFourth PROVE SetsInv' /\ UNCHANGED sets
<1>1. UNCHANGED <<sources, built, sets>> /\ sets["third"].at \in Written2 /\ sets["fourth"].at = "absent"
    BY DEF BeginFourth, Written2, Free, SetsInv, WrittenInv
<1>2. PICK recs : recs = FourthTrain
    OBVIOUS
<1>3. freeze' = Reading("fourth", recs)
    BY <1>2 DEF BeginFourth
<1>4. /\ DOMAIN freeze' = {"at", "set", "recs", "undisturbed"} /\ freeze'.at = "read"
      /\ freeze'.set = "fourth" /\ freeze'.recs = recs /\ freeze' # NoFreeze
    BY <1>3, ReadingIs
<1>5. NoIdIn(sets["third"].held, recs)
    <2>1. PICK old : old = {Rewritten(r) : r \in sets["third"].train}
        OBVIOUS
    <2>2. Ids(old) = Ids(sets["third"].train)
        BY <1>1, <2>1, RewrittenKeepsIds DEF SetsInv, WrittenInv
    <2>3. NoIdIn(sets["third"].held, old)
        BY <1>1, <2>2 DEF SetsInv, WrittenInv, NoIdIn
    <2>4. Known(NewRecords, {"final"}) /\ Known(sets["third"].held, CorpusKinds)
        BY <1>1, RebuiltIsKnown DEF NewRecords, SetsInv, SetsShape, WrittenInv
    <2>5. NoIdIn(sets["third"].held, NewRecords)
        BY <2>4, DifferentKindsApart
    <2>6. recs = old \cup NewRecords
        BY <1>2, <2>1 DEF FourthTrain
    <2> QED
        BY <2>3, <2>5, <2>6 DEF NoIdIn, Ids
<1>6. SetsShape'
    BY <1>1, <1>4 DEF SetsInv, SetsShape, SetNames
<1>7. BuildInv'
    BY <1>1, <1>4, <1>5 DEF BuildInv
<1>8. FirstTwoInv'
    BY <1>4 DEF FirstTwoInv, Frozen2
<1>9. WrittenInv'
    BY <1>1 DEF SetsInv, WrittenInv
<1> QED
    BY <1>1, <1>6, <1>7, <1>8, <1>9 DEF SetsInv

LEMMA TrainKeepsHeld ==
    ASSUME SetsInv, WriteTrain
    PROVE  SetsInv' /\ \A s \in SetNames \ {"third"} : sets[s].at = "frozen" => sets'[s] = sets[s]
<1>1. /\ UNCHANGED <<sources, built, approvals, serving>> /\ freeze.at = "read" /\ freeze # NoFreeze
      /\ freeze.set \in {"third", "fourth"}
    BY NotFreezing DEF WriteTrain
<1>2. PICK s \in {"third", "fourth"} : s = freeze.set
    BY <1>1
<1>3. PICK set : set = TrainFiles(s)
    OBVIOUS
<1>4. set.at = "export" /\ set.train = freeze.recs /\ set.held = HeldBefore(s)
    BY <1>3 DEF TrainFiles
<1>5. s \in SetNames /\ sets' = [sets EXCEPT ![s] = set]
    BY <1>2, <1>3 DEF WriteTrain, SetNames
<1>6. sets'[s] = set /\ DOMAIN sets' = SetNames /\ \A t \in SetNames \ {s} : sets'[t] = sets[t]
    BY <1>5, OneSetWritten
<1>7. NoIdIn(set.held, set.train) /\ (s = "third" => HaveIds(set.train) /\ Known(set.held, CorpusKinds))
    <2>1. CASE s = "third"
        BY <1>1, <1>2, <1>4, <2>1 DEF HeldBefore, SetsInv, BuildInv, WrittenInv
    <2>2. CASE s = "fourth"
        BY <1>1, <1>2, <1>4, <2>2 DEF HeldBefore, SetsInv, BuildInv, WrittenInv
    <2> QED
        BY <2>1, <2>2
<1>8. DOMAIN freeze = {"at", "set", "recs", "undisturbed"} /\ freeze' = [freeze EXCEPT !.at = "export"]
    BY <1>1 DEF SetsInv, SetsShape, WriteTrain
<1>9. /\ DOMAIN freeze' = {"at", "set", "recs", "undisturbed"}
      /\ freeze'.at = "export" /\ freeze'.set = s /\ freeze' # NoFreeze
    BY <1>2, <1>8, NotFreezing
<1>10. SetsShape'
    BY <1>1, <1>5, <1>6, <1>9 DEF SetsInv, SetsShape
<1>11. BuildInv'
    BY <1>4, <1>6, <1>9 DEF BuildInv
<1>12. FirstTwoInv'
    BY <1>9 DEF FirstTwoInv, Frozen2
<1>13. WrittenInv'
    BY <1>2, <1>4, <1>6, <1>7 DEF SetsInv, WrittenInv, SetNames, Frozen2, Written2
<1>14. \A t \in SetNames \ {"third"} : sets[t].at = "frozen" => sets'[t] = sets[t]
    <2>1. s = "fourth" => sets["fourth"].at = "absent"
        BY <1>1, <1>2 DEF SetsInv, BuildInv
    <2> QED
        BY <1>2, <1>6, <2>1
<1> QED
    BY <1>10, <1>11, <1>12, <1>13, <1>14 DEF SetsInv

LEMMA SetsStep ==
    ASSUME SetsInv, [TrainingSetsNext]_trainingSetVars
    PROVE  SetsInv' /\ \A s \in {"first", "second", "fourth"} : sets[s].at = "frozen" => sets'[s] = sets[s]
<1> USE DEF SetNames
<1>1. CASE UNCHANGED trainingSetVars
    BY <1>1 DEF trainingSetVars, SetsInv, SetsShape, BuildInv, FirstTwoInv, WrittenInv, Authored
<1>2. CASE \/ \E c \in Conversations : c.kind \notin {"base", "base_eval"} /\ EditSources(c)
           \/ \E v \in Servings : EditServing(v)
           \/ BuildCorpus \/ BuildDrafts
           \/ \E s \in {"first", "second", "third"} : Authorize(s)
    BY <1>2, EditingKeeps
<1>3. CASE BeginBuild \/ BeginThird \/ BeginFourth \/ RunGates
    BY <1>3, BeginKeeps, BeginThirdKeeps, BeginFourthKeeps, GatesKeep
<1>4. CASE WriteSnapshot \/ WriteExport \/ WriteFreezeManifest \/ WriteFinalManifest
    BY <1>4, SnapshotKeeps, ExportKeeps, ManifestKeeps
<1>5. CASE WriteTrain
    BY <1>5, TrainKeepsHeld
<1>6. CASE BuildDies
    BY <1>6, NothingBuilt DEF BuildDies
<1> QED
    BY <1>1, <1>2, <1>3, <1>4, <1>5, <1>6 DEF TrainingSetsNext

-----------------------------------------------------------------------------
(***************************************************************************)
(* The preflight. Unless somebody edited meanwhile, what the steps so far  *)
(* have not counted as failed is as it should be.                          *)
(***************************************************************************)
StepFinds(step) ==
    CASE step = "frozen"  -> {"frozen", "exports"} \subseteq sound
      [] step = "smoke"   -> {"exports", "tokens", "prompts"} \subseteq sound /\ config["cli"] = "right" /\ summary = TRUE
      [] step = "serve"   -> {"frozen", "prompts"} \subseteq sound
      [] step = "cli"     -> config["cli"] = "right"
      [] step = "gui"     -> rendered = "right" /\ config["template"] = "right"
      [] step = "pointer" -> TRUE
      [] step = "audit"   -> "repository" \in sound
      [] step = "output"  -> "v01" \in sound /\ ~filled
      [] step = "tests"   -> runner.withTests => "tests" \in sound
      [] OTHER            -> TRUE
RunnerInv ==
    \/ runner = NoRunner
    \/ /\ DOMAIN runner = {"at", "withTests", "failed", "edited"} /\ runner.at \in 1 .. 10
       /\ runner.edited \in BOOLEAN
       /\ ~runner.edited => \A k \in 1 .. runner.at - 1 : PreflightSteps[k] \in runner.failed \/ StepFinds(PreflightSteps[k])
PreflightInv == RunnerInv /\ PreflightIsHonest

Recorded == {"frozen", "smoke", "serve", "cli", "gui", "pointer", "audit", "output", "tests"}

LEMMA StepsInOrder ==
    /\ \A k \in 1 .. 9 : PreflightSteps[k] \in Recorded
    /\ PreflightSteps[10] = "report" /\ "report" \notin Recorded
    /\ \A step \in Recorded : \E k \in 1 .. 9 : PreflightSteps[k] = step
    /\ \A j, k \in 1 .. 9 : PreflightSteps[j] = PreflightSteps[k] => j = k
    BY DEF PreflightSteps, Recorded

\* What a step adds, when it leaves what the earlier ones found.
LEMMA RecordKeeps ==
    ASSUME RunnerInv, NEW step \in Recorded, NEW ok, Record(step, ok),
           ok => StepFinds(step)',
           \A earlier \in Recorded \ {step} : StepFinds(earlier) => StepFinds(earlier)'
    PROVE  RunnerInv'
<1>1. runner # NoRunner
    BY DEF Record, AtStep, NoRunner
<1>2. PICK at \in 1 .. 10 : at = runner.at
    BY <1>1 DEF RunnerInv
<1>3. PreflightSteps[at] = step
    BY <1>2 DEF Record, AtStep
<1>4. at \in 1 .. 9 /\ at + 1 \in 1 .. 10
    BY <1>2, <1>3, StepsInOrder
<1>5. PICK failed : failed = IF ok THEN runner.failed ELSE runner.failed \cup {step}
    OBVIOUS
<1>6. runner' = [runner EXCEPT !.failed = failed, !.at = at + 1]
    BY <1>2, <1>5 DEF Record
<1>7. DOMAIN runner = {"at", "withTests", "failed", "edited"} /\ runner.edited \in BOOLEAN
    BY <1>1 DEF RunnerInv
<1>8. /\ DOMAIN runner' = {"at", "withTests", "failed", "edited"} /\ runner'.at = at + 1
      /\ runner'.failed = failed /\ runner'.edited = runner.edited
    BY <1>6, <1>7
<1>9. ASSUME ~runner.edited, NEW k \in 1 .. at PROVE PreflightSteps[k] \in failed \/ StepFinds(PreflightSteps[k])'
    <2>1. CASE k = at
        BY <1>3, <1>5, <2>1
    <2>2. CASE k # at
        <3>1. k \in 1 .. at - 1 /\ k \in 1 .. 9
            BY <1>4, <2>2
        <3>2. PreflightSteps[k] \in runner.failed \/ StepFinds(PreflightSteps[k])
            BY <1>1, <1>2, <1>9, <3>1 DEF RunnerInv
        <3>3. PreflightSteps[k] \in Recorded \ {step}
            BY <1>3, <1>4, <2>2, <3>1, StepsInOrder
        <3>4. StepFinds(PreflightSteps[k]) => StepFinds(PreflightSteps[k])'
            BY <3>3
        <3> QED
            BY <1>5, <3>2, <3>4
    <2> QED
        BY <2>1, <2>2
<1>10. (at + 1) - 1 = at
    BY <1>4
<1> QED
    BY <1>4, <1>7, <1>8, <1>9, <1>10 DEF RunnerInv

LEMMA PreflightBegins == PreflightInit => PreflightInv
    BY DEF PreflightInit, PreflightInv, RunnerInv, PreflightIsHonest

\* The owner edits: neither the running preflight nor the last report vouches for anything any more.
LEMMA EditKeeps == ASSUME PreflightInv, Edited PROVE PreflightInv'
<1>1. PreflightIsHonest'
    BY DEF Edited, PreflightIsHonest
<1>2. CASE runner = NoRunner
    <2>1. runner' = NoRunner
        BY <1>2, Zenon DEF Edited
    <2> QED
        BY <1>1, <2>1 DEF PreflightInv, RunnerInv
<1>3. CASE runner # NoRunner
    <2>1. runner' = [runner EXCEPT !.edited = TRUE]
        BY <1>3 DEF Edited
    <2>2. DOMAIN runner = {"at", "withTests", "failed", "edited"} /\ runner.at \in 1 .. 10
        BY <1>3 DEF PreflightInv, RunnerInv
    <2>3. DOMAIN runner' = {"at", "withTests", "failed", "edited"} /\ runner'.at \in 1 .. 10 /\ runner'.edited = TRUE
        BY <2>1, <2>2
    <2> QED
        BY <1>1, <2>3 DEF PreflightInv, RunnerInv
<1> QED
    BY <1>1, <1>2, <1>3 DEF PreflightInv

LEMMA StartKeeps == ASSUME PreflightInv, NEW withTests \in BOOLEAN, StartPreflight(withTests) PROVE PreflightInv'
<1>1. runner' = [at |-> 1, withTests |-> withTests, failed |-> {}, edited |-> FALSE]
    BY DEF StartPreflight
<1>2. /\ DOMAIN runner' = {"at", "withTests", "failed", "edited"} /\ runner'.at = 1 /\ runner'.edited = FALSE
    BY <1>1
<1>3. RunnerInv'
    <2>1. runner'.edited \in BOOLEAN
        BY <1>2
    <2>2. runner'.at \in 1 .. 10 /\ \A k \in 1 .. runner'.at - 1 : FALSE
        BY <1>2
    <2> QED
        BY <1>2, <2>1, <2>2, Zenon DEF RunnerInv
<1>4. PreflightIsHonest'
    BY DEF StartPreflight, PreflightInv, PreflightIsHonest
<1> QED
    BY <1>3, <1>4 DEF PreflightInv

LEMMA TestsAsBefore ==
    ASSUME RunnerInv, NEW step, NEW ok, Record(step, ok) PROVE runner'.withTests = runner.withTests
<1>1. DOMAIN runner = {"at", "withTests", "failed", "edited"}
    BY DEF RunnerInv, Record, AtStep, NoRunner
<1>2. PICK failed : failed = IF ok THEN runner.failed ELSE runner.failed \cup {step}
    OBVIOUS
<1>3. runner' = [runner EXCEPT !.failed = failed, !.at = runner.at + 1]
    BY <1>2 DEF Record
<1> QED
    BY <1>1, <1>3

\* Steps that only look.
LEMMA LookKeeps ==
    ASSUME PreflightInv, NEW step \in Recorded, NEW ok, Record(step, ok), UNCHANGED <<rendered, filled, summary>>,
           ok => StepFinds(step)'
    PROVE  PreflightInv'
<1>1. UNCHANGED <<sound, config, reported, editedSince>> /\ runner'.withTests = runner.withTests
    BY TestsAsBefore DEF Record, PreflightInv
<1>2. \A earlier \in Recorded \ {step} : StepFinds(earlier) => StepFinds(earlier)'
    BY <1>1 DEF StepFinds, Recorded
<1>3. RunnerInv'
    BY <1>2, RecordKeeps DEF PreflightInv
<1>4. PreflightIsHonest'
    BY <1>1 DEF PreflightInv, PreflightIsHonest
<1> QED
    BY <1>3, <1>4 DEF PreflightInv

LEMMA LookingKeeps ==
    ASSUME PreflightInv, NEW dies \in BOOLEAN,
           \/ StepFrozen(dies) \/ StepTrainAsServe(dies) \/ StepRepoAudit(dies)
           \/ StepCliConfig \/ StepNoV01Pointer \/ StepTests
    PROVE  PreflightInv'
<1>1. CASE StepFrozen(dies)
    <2>1. ~dies /\ FrozenVerified => StepFinds("frozen")'
        BY <1>1 DEF StepFrozen, Record, StepFinds, FrozenVerified
    <2>2. "frozen" \in Recorded
        BY DEF Recorded
    <2> QED
        BY <1>1, <2>1, <2>2, LookKeeps DEF StepFrozen
<1>2. CASE StepTrainAsServe(dies)
    <2>1. ~dies /\ {"frozen", "prompts"} \subseteq sound => StepFinds("serve")'
        BY <1>2 DEF StepTrainAsServe, Record, StepFinds
    <2>2. "serve" \in Recorded
        BY DEF Recorded
    <2> QED
        BY <1>2, <2>1, <2>2, LookKeeps DEF StepTrainAsServe
<1>3. CASE StepRepoAudit(dies)
    <2>1. ~dies /\ "repository" \in sound => StepFinds("audit")'
        BY <1>3 DEF StepRepoAudit, Record, StepFinds
    <2>2. "audit" \in Recorded
        BY DEF Recorded
    <2> QED
        BY <1>3, <2>1, <2>2, LookKeeps DEF StepRepoAudit
<1>4. CASE StepCliConfig
    <2>1. config["cli"] = "right" => StepFinds("cli")'
        BY <1>4 DEF StepCliConfig, Record, StepFinds
    <2>2. "cli" \in Recorded
        BY DEF Recorded
    <2> QED
        BY <1>4, <2>1, <2>2, LookKeeps DEF StepCliConfig
<1>5. CASE StepNoV01Pointer
    <2>1. StepFinds("pointer")'
        BY DEF StepFinds
    <2>2. "pointer" \in Recorded
        BY DEF Recorded
    <2> QED
        BY <1>5, <2>1, <2>2, LookKeeps DEF StepNoV01Pointer
<1>6. CASE StepTests
    <2>1. UNCHANGED sound /\ runner'.withTests = runner.withTests
        BY <1>6, TestsAsBefore DEF StepTests, Record, PreflightInv
    <2>2. (runner.withTests => "tests" \in sound) => StepFinds("tests")'
        BY <2>1 DEF StepFinds
    <2>3. "tests" \in Recorded
        BY DEF Recorded
    <2> QED
        BY <1>6, <2>2, <2>3, LookKeeps DEF StepTests
<1> QED
    BY <1>1, <1>2, <1>3, <1>4, <1>5, <1>6

LEMMA SmokeKeeps == ASSUME PreflightInv, NEW dies \in BOOLEAN, StepSmoke(dies) PROVE PreflightInv'
<1>1. PICK ok \in BOOLEAN : ok <=> SmokeAccepted(dies, summary')
    OBVIOUS
<1>2. Record("smoke", SmokeAccepted(dies, summary')) /\ UNCHANGED <<rendered, filled>>
    BY DEF StepSmoke
<1>3. UNCHANGED <<sound, config, reported, editedSince>> /\ runner'.withTests = runner.withTests
    BY <1>2, TestsAsBefore DEF Record, PreflightInv
<1>4. ~dies => summary' = SmokePasses
    BY DEF StepSmoke
<1>5. dies => summary' = summary
    BY DEF StepSmoke
<1>6. ~dies /\ summary' = TRUE => SmokePasses
    BY <1>4, Zenon
<1>7. ~dies /\ SmokePasses => summary' = TRUE
    BY <1>4, Zenon
<1>8. SmokeAccepted(dies, summary') => StepFinds("smoke")'
    BY <1>3, <1>6 DEF SmokeAccepted, SmokePasses, StepFinds
<1>9. \A earlier \in Recorded \ {"smoke"} : StepFinds(earlier) => StepFinds(earlier)'
    BY <1>2, <1>3 DEF StepFinds, Recorded
<1>10. "smoke" \in Recorded
    BY DEF Recorded
<1>11. RunnerInv'
    BY <1>2, <1>8, <1>9, <1>10, RecordKeeps DEF PreflightInv
<1>12. PreflightIsHonest'
    <2> SUFFICES ASSUME reported # NoReport, reported.passed, ~editedSince
                 PROVE  /\ Aspects \ {"tests"} \subseteq sound
                        /\ reported.tests => "tests" \in sound
                        /\ {config["cli"], config["template"], rendered} = {"right"}
                        /\ summary' = TRUE
                        /\ ~filled
        BY <1>2, <1>3 DEF PreflightIsHonest
    <2>1. /\ Aspects \ {"tests"} \subseteq sound
          /\ reported.tests => "tests" \in sound
          /\ {config["cli"], config["template"], rendered} = {"right"}
          /\ summary = TRUE
          /\ ~filled
        BY DEF PreflightInv, PreflightIsHonest
    <2>2. SmokePasses
        BY <2>1 DEF SmokePasses, Aspects
    <2>3. summary' = TRUE
        BY <1>5, <1>7, <2>1, <2>2
    <2> QED
        BY <2>1, <2>3
<1> QED
    BY <1>11, <1>12 DEF PreflightInv

LEMMA GuiKeeps == ASSUME PreflightInv, NEW dies \in BOOLEAN, StepGuiConfig(dies) PROVE PreflightInv'
<1>1. Record("gui", ~dies /\ "exports" \in sound /\ rendered' = "right") /\ UNCHANGED <<filled, summary>>
    BY DEF StepGuiConfig
<1>2. UNCHANGED <<sound, config, reported, editedSince>> /\ runner'.withTests = runner.withTests
    BY <1>1, TestsAsBefore DEF Record, PreflightInv
<1>3. rendered' = IF dies THEN rendered ELSE config["template"]
    BY DEF StepGuiConfig
<1>4. ~dies /\ "exports" \in sound /\ rendered' = "right" => StepFinds("gui")'
    BY <1>2, <1>3 DEF StepFinds
<1>5. \A earlier \in Recorded \ {"gui"} : StepFinds(earlier) => StepFinds(earlier)'
    BY <1>1, <1>2 DEF StepFinds, Recorded
<1>6. "gui" \in Recorded
    BY DEF Recorded
<1>7. RunnerInv'
    BY <1>1, <1>4, <1>5, <1>6, RecordKeeps DEF PreflightInv
<1>8. PreflightIsHonest'
    BY <1>1, <1>2, <1>3 DEF PreflightInv, PreflightIsHonest
<1> QED
    BY <1>7, <1>8 DEF PreflightInv

LEMMA OutputKeeps == ASSUME PreflightInv, StepOutputDir PROVE PreflightInv'
<1>1. Record("output", "v01" \in sound) /\ UNCHANGED <<rendered, summary>> /\ filled' = FALSE
    BY DEF StepOutputDir
<1>2. UNCHANGED <<sound, config, reported, editedSince>> /\ runner'.withTests = runner.withTests
    BY <1>1, TestsAsBefore DEF Record, PreflightInv
<1>3. "v01" \in sound => StepFinds("output")'
    BY <1>1, <1>2 DEF StepFinds
<1>4. \A earlier \in Recorded \ {"output"} : StepFinds(earlier) => StepFinds(earlier)'
    BY <1>1, <1>2 DEF StepFinds, Recorded
<1>5. "output" \in Recorded
    BY DEF Recorded
<1>6. RunnerInv'
    BY <1>1, <1>3, <1>4, <1>5, RecordKeeps DEF PreflightInv
<1>7. PreflightIsHonest'
    BY <1>1, <1>2 DEF PreflightInv, PreflightIsHonest
<1> QED
    BY <1>6, <1>7 DEF PreflightInv

\* The report: every step was recorded, and none as failed.
LEMMA ReportKeeps == ASSUME PreflightInv, WriteReport PROVE PreflightInv'
<1>1. RunnerInv'
    BY DEF WriteReport, Ends, RunnerInv
<1>2. reported' = [passed |-> runner.failed = {}, tests |-> runner.withTests] /\ editedSince' = runner.edited
    BY DEF WriteReport
<1>3. UNCHANGED <<sound, config, rendered, filled, summary>>
    BY DEF WriteReport, Ends
<1>4. runner # NoRunner /\ runner.at \in 1 .. 10
    BY DEF WriteReport, AtStep, NoRunner, PreflightInv, RunnerInv
<1>5. runner.at = 10
    BY <1>4, StepsInOrder DEF WriteReport, AtStep
<1>6. ASSUME reported'.passed, ~editedSince'
      PROVE  /\ Aspects \ {"tests"} \subseteq sound
             /\ reported'.tests => "tests" \in sound
             /\ {config["cli"], config["template"], rendered} = {"right"}
             /\ summary = TRUE
             /\ ~filled
    <2>1. runner.failed = {} /\ ~runner.edited /\ reported'.tests = runner.withTests
        BY <1>2, <1>6
    <2>2. \A k \in 1 .. 9 : StepFinds(PreflightSteps[k])
        BY <1>4, <1>5, <2>1 DEF PreflightInv, RunnerInv
    <2>3. \A step \in Recorded : StepFinds(step)
        BY <2>2, StepsInOrder
    <2>4. /\ StepFinds("frozen") /\ StepFinds("smoke") /\ StepFinds("cli") /\ StepFinds("gui")
          /\ StepFinds("audit") /\ StepFinds("output") /\ StepFinds("tests")
        BY <2>3 DEF Recorded
    <2> QED
        BY <2>1, <2>4 DEF StepFinds, Aspects
<1>7. PreflightIsHonest'
    BY <1>3, <1>6 DEF PreflightIsHonest
<1> QED
    BY <1>1, <1>7 DEF PreflightInv

LEMMA PreflightStep == PreflightInv /\ [PreflightNext]_preflightVars => PreflightInv'
<1> SUFFICES ASSUME PreflightInv, [PreflightNext]_preflightVars PROVE PreflightInv'
    OBVIOUS
<1>1. CASE UNCHANGED preflightVars
    BY <1>1 DEF preflightVars, PreflightInv, RunnerInv, PreflightIsHonest, StepFinds
<1>2. CASE \/ \E a \in Aspects : Spoil(a) \/ Repair(a)
           \/ \E f \in {"cli", "template"}, c \in Contents : EditConfig(f, c)
           \/ TrainInto
    BY <1>2, EditKeeps DEF Spoil, Repair, EditConfig, TrainInto
<1>3. CASE \E withTests \in BOOLEAN : StartPreflight(withTests)
    BY <1>3, StartKeeps
<1>4. CASE \E dies \in BOOLEAN : StepFrozen(dies) \/ StepSmoke(dies) \/ StepTrainAsServe(dies) \/ StepGuiConfig(dies)
                                 \/ StepRepoAudit(dies)
    BY <1>4, LookingKeeps, SmokeKeeps, GuiKeeps
<1>5. CASE StepCliConfig \/ StepNoV01Pointer \/ StepTests
    BY <1>5, LookingKeeps
<1>6. CASE StepOutputDir
    BY <1>6, OutputKeeps
<1>7. CASE WriteReport
    BY <1>7, ReportKeeps
<1>8. CASE TestsTimeOut \/ PreflightDies
    BY <1>8 DEF TestsTimeOut, PreflightDies, Ends, PreflightInv, RunnerInv, PreflightIsHonest
<1> QED
    BY <1>1, <1>2, <1>3, <1>4, <1>5, <1>6, <1>7, <1>8 DEF PreflightNext

-----------------------------------------------------------------------------
(***************************************************************************)
(* The voice audit. Whatever is added to the text, or to the corpus of     *)
(* what has the same phrase and the same opening, raises no score and      *)
(* clears no signal; so a report is at least as good as what the audit     *)
(* would say after changes for the worse.                                  *)
(***************************************************************************)
ScoreNames == {"naturalness", "language", "identity", "context", "variety", "factual"}
Verdict(s, c) == IF RejectSignal(s, c) THEN "WEAK" ELSE IF Strong(c) THEN "STRONG" ELSE IF Weak(c) THEN "WEAK" ELSE "NEEDS_EDIT"
AuditTypes ==
    /\ conversation \in [category : Categories, text : SUBSET AllFaults, markers : 0..3, long : BOOLEAN, grounded : BOOLEAN,
                         user : {"neutral", "casual", "flirty"}, phrase : BOOLEAN]
    /\ others \in Seq(AuditedReplies)
    /\ report \in {"none", "WEAK", "NEEDS_EDIT", "STRONG"}
    /\ since \in {"nothing", "worse", "anything"}
AuditInv ==
    /\ AuditTypes
    /\ since # "anything" => report # "none" /\ Rank(Recommendation) <= Rank(report)
    /\ since = "nothing" => report = Recommendation

\* Of a few faults, more are counted when more are there.
LEMMA FaultsCounted ==
    ASSUME NEW T, IsFiniteSet(T), NEW s, NEW t, s \cap T \subseteq t \cap T
    PROVE  /\ Cardinality(s \cap T) \in Nat /\ Cardinality(s \cap T) <= Cardinality(t \cap T)
           /\ Cardinality(s \cap T) = 0 <=> s \cap T = {}
<1>1. IsFiniteSet(t \cap T) /\ IsFiniteSet(s \cap T)
    BY FS_Subset
<1> QED
    BY <1>1, FS_Subset, FS_CardinalityType, FS_EmptySet

LEMMA FaultSetsAreFinite ==
    /\ IsFiniteSet({"therapy", "validation", "restates", "disclaimer", "formal"}) /\ IsFiniteSet({"formal"})
    /\ IsFiniteSet({"generic", "textbook"}) /\ IsFiniteSet({"too long", "too short", "pet names", "emojis"})
    /\ IsFiniteSet({"catchphrase", "opening", "opener"})
<1>1. \A S, x : IsFiniteSet(S) => IsFiniteSet(S \cup {x})
    BY FS_AddElement
<1>2. IsFiniteSet({"formal"}) /\ IsFiniteSet({"generic"}) /\ IsFiniteSet({"too long"}) /\ IsFiniteSet({"opener"}) /\ IsFiniteSet({"therapy"})
    BY FS_Singleton
<1>3. IsFiniteSet({"generic"} \cup {"textbook"})
    BY <1>1, <1>2
<1>4. IsFiniteSet(({"opener"} \cup {"opening"}) \cup {"catchphrase"})
    BY <1>1, <1>2
<1>5. IsFiniteSet((({"too long"} \cup {"too short"}) \cup {"pet names"}) \cup {"emojis"})
    BY <1>1, <1>2
<1>6. IsFiniteSet(((({"therapy"} \cup {"validation"}) \cup {"restates"}) \cup {"disclaimer"}) \cup {"formal"})
    BY <1>1, <1>2
<1>7. /\ {"generic", "textbook"} = {"generic"} \cup {"textbook"}
      /\ {"catchphrase", "opening", "opener"} = ({"opener"} \cup {"opening"}) \cup {"catchphrase"}
    OBVIOUS
<1>8. {"too long", "too short", "pet names", "emojis"} = (({"too long"} \cup {"too short"}) \cup {"pet names"}) \cup {"emojis"}
    OBVIOUS
<1>9. {"therapy", "validation", "restates", "disclaimer", "formal"}
        = ((({"therapy"} \cup {"validation"}) \cup {"restates"}) \cup {"disclaimer"}) \cup {"formal"}
    OBVIOUS
<1> QED
    BY <1>2, <1>3, <1>4, <1>5, <1>6, <1>7, <1>8, <1>9

LEMMA ClampFalls == \A m, n \in Int : Clamp(n) \in 1..5 /\ (m <= n => Clamp(m) <= Clamp(n))
    BY DEF Clamp

\* Signals that are there too, and markers that are gone, lower every score.
LEMMA ScoresFall ==
    ASSUME NEW s, NEW t, s \subseteq t, NEW m \in 0..3, NEW n \in 0..3, n <= m
    PROVE  /\ \A d \in ScoreNames : Scores(s, m)[d] \in 1..5 /\ Scores(t, n)[d] <= Scores(s, m)[d]
           /\ DOMAIN Scores(s, m) = ScoreNames
<1>1. DOMAIN Scores(s, m) = ScoreNames
    BY DEF Scores, ScoreNames
<1>2. Scores(s, m).naturalness \in 1..5 /\ Scores(t, n).naturalness <= Scores(s, m).naturalness
    <2>1. PICK T : T = {"therapy", "validation", "restates", "disclaimer", "formal"}
        OBVIOUS
    <2>2. IsFiniteSet(T)
        BY <2>1, FaultSetsAreFinite
    <2>3. PICK a, b : a = Cardinality(s \cap T) /\ b = Cardinality(t \cap T)
        OBVIOUS
    <2>4. a \in Nat /\ b \in Nat /\ a <= b
        BY <2>2, <2>3, FaultsCounted
    <2>5. PICK g, h \in {0, 2} : g = (IF "generic" \in s THEN 2 ELSE 0) /\ h = (IF "generic" \in t THEN 2 ELSE 0) /\ g <= h
        OBVIOUS
    <2>6. Scores(s, m).naturalness = Clamp(4 - g - a) /\ Scores(t, n).naturalness = Clamp(4 - h - b)
        BY <2>1, <2>3, <2>5 DEF Scores
    <2>7. 4 - g - a \in Int /\ 4 - h - b \in Int /\ 4 - h - b <= 4 - g - a
        BY <2>4, <2>5
    <2> QED
        BY <2>6, <2>7, ClampFalls
<1>3. Scores(s, m).language \in 1..5 /\ Scores(t, n).language <= Scores(s, m).language
    <2>3. PICK a, b : a = Cardinality(s \cap {"formal"}) /\ b = Cardinality(t \cap {"formal"})
        OBVIOUS
    <2>4. a \in Nat /\ b \in Nat /\ a <= b
        BY <2>3, FaultsCounted, FaultSetsAreFinite
    <2>6. Scores(s, m).language = Clamp(4 - a) /\ Scores(t, n).language = Clamp(4 - b)
        BY <2>3 DEF Scores
    <2>7. 4 - a \in Int /\ 4 - b \in Int /\ 4 - b <= 4 - a
        BY <2>4
    <2> QED
        BY <2>6, <2>7, ClampFalls
<1>4. Scores(s, m).identity \in 1..5 /\ Scores(t, n).identity <= Scores(s, m).identity
    <2>3. PICK a, b : a = Cardinality(s \cap {"generic", "textbook"}) /\ b = Cardinality(t \cap {"generic", "textbook"})
        OBVIOUS
    <2>4. a \in Nat /\ b \in Nat /\ a <= b
        BY <2>3, FaultsCounted, FaultSetsAreFinite
    <2>5. PICK g, h \in 0..3 : g = (IF m > 2 THEN 2 ELSE m) /\ h = (IF n > 2 THEN 2 ELSE n) /\ h <= g
        OBVIOUS
    <2>6. Scores(s, m).identity = Clamp(3 + g - a) /\ Scores(t, n).identity = Clamp(3 + h - b)
        BY <2>3, <2>5 DEF Scores
    <2>7. 3 + g - a \in Int /\ 3 + h - b \in Int /\ 3 + h - b <= 3 + g - a
        BY <2>4, <2>5
    <2> QED
        BY <2>6, <2>7, ClampFalls
<1>5. Scores(s, m).context \in 1..5 /\ Scores(t, n).context <= Scores(s, m).context
    <2>1. PICK T : T = {"too long", "too short", "pet names", "emojis"}
        OBVIOUS
    <2>2. IsFiniteSet(T)
        BY <2>1, FaultSetsAreFinite
    <2>3. PICK a, b : a = Cardinality(s \cap T) /\ b = Cardinality(t \cap T)
        OBVIOUS
    <2>4. a \in Nat /\ b \in Nat /\ a <= b
        BY <2>2, <2>3, FaultsCounted
    <2>5. PICK g, h \in {0, 2} : g = (IF "flirty" \in s THEN 2 ELSE 0) /\ h = (IF "flirty" \in t THEN 2 ELSE 0) /\ g <= h
        OBVIOUS
    <2>6. Scores(s, m).context = Clamp(4 - g - a) /\ Scores(t, n).context = Clamp(4 - h - b)
        BY <2>1, <2>3, <2>5 DEF Scores
    <2>7. 4 - g - a \in Int /\ 4 - h - b \in Int /\ 4 - h - b <= 4 - g - a
        BY <2>4, <2>5
    <2> QED
        BY <2>6, <2>7, ClampFalls
<1>6. Scores(s, m).variety \in 1..5 /\ Scores(t, n).variety <= Scores(s, m).variety
    <2>3. PICK a, b : a = Cardinality(s \cap {"catchphrase", "opening", "opener"}) /\ b = Cardinality(t \cap {"catchphrase", "opening", "opener"})
        OBVIOUS
    <2>4. a \in Nat /\ b \in Nat /\ a <= b
        BY <2>3, FaultsCounted, FaultSetsAreFinite
    <2>6. Scores(s, m).variety = Clamp(4 - a) /\ Scores(t, n).variety = Clamp(4 - b)
        BY <2>3 DEF Scores
    <2>7. 4 - a \in Int /\ 4 - b \in Int /\ 4 - b <= 4 - a
        BY <2>4
    <2> QED
        BY <2>6, <2>7, ClampFalls
<1>7. Scores(s, m).factual \in 1..5 /\ Scores(t, n).factual <= Scores(s, m).factual
    <2>5. PICK g, h \in {0, 4} : g = (IF "attribution" \in s THEN 4 ELSE 0) /\ h = (IF "attribution" \in t THEN 4 ELSE 0) /\ g <= h
        OBVIOUS
    <2>6. PICK j, k \in {0, 1, 3} : /\ j = (IF "fact" \in s THEN 3 ELSE IF "statistic" \in s THEN 1 ELSE 0)
                                   /\ k = (IF "fact" \in t THEN 3 ELSE IF "statistic" \in t THEN 1 ELSE 0) /\ j <= k
        OBVIOUS
    <2>7. Scores(s, m).factual = Clamp(5 - g - j) /\ Scores(t, n).factual = Clamp(5 - h - k)
        BY <2>5, <2>6 DEF Scores, Factual
    <2>8. 5 - g - j \in Int /\ 5 - h - k \in Int /\ 5 - h - k <= 5 - g - j
        BY <2>5, <2>6
    <2> QED
        BY <2>7, <2>8, ClampFalls
<1> QED
    BY <1>1, <1>2, <1>3, <1>4, <1>5, <1>6, <1>7 DEF ScoreNames

\* No verdict is better for lower scores and more signals.
LEMMA VerdictFalls ==
    ASSUME NEW s, NEW t, s \subseteq t, NEW c, NEW e, DOMAIN c = ScoreNames, DOMAIN e = ScoreNames,
           \A d \in ScoreNames : c[d] \in 1..5 /\ e[d] \in 1..5 /\ e[d] <= c[d]
    PROVE  Rank(Verdict(t, e)) <= Rank(Verdict(s, c)) /\ Verdict(s, c) \in {"WEAK", "NEEDS_EDIT", "STRONG"}
<1>1. /\ c.naturalness \in 1..5 /\ c.language \in 1..5 /\ c.identity \in 1..5 /\ c.context \in 1..5 /\ c.variety \in 1..5 /\ c.factual \in 1..5
      /\ e.naturalness \in 1..5 /\ e.language \in 1..5 /\ e.identity \in 1..5 /\ e.context \in 1..5 /\ e.variety \in 1..5 /\ e.factual \in 1..5
      /\ e.naturalness <= c.naturalness /\ e.language <= c.language /\ e.identity <= c.identity
      /\ e.context <= c.context /\ e.variety <= c.variety /\ e.factual <= c.factual
    BY DEF ScoreNames
<1>2. PICK x, y \in 6..30 : x = Total(c) /\ y = Total(e) /\ y <= x
    BY <1>1, SMTT(30) DEF Total
<1>3. RejectSignal(s, c) => RejectSignal(t, e)
    BY <1>1 DEF RejectSignal
<1>4. Strong(e) => Strong(c)
    BY <1>2 DEF Strong
<1>5. Weak(c) => Weak(e)
    BY <1>1, <1>2 DEF Weak
<1>6. Strong(e) => ~Weak(e)
    BY <1>1, <1>2 DEF Strong, Weak, ScoreNames
<1> QED
    BY <1>3, <1>4, <1>5, <1>6 DEF Verdict, Rank

\* The corpus, counted: the replies of some sort, and what is too many of them.
Whose(q, T) == {i \in DOMAIN q : q[i] \in T}
HowMany(q, T) == Cardinality(Whose(q, T))
Phrased == {r \in AuditedReplies : r.phrase}
Opened == {r \in AuditedReplies : r.opening}
Spoken == {r \in AuditedReplies : r.language}
IsHabit(q) ==
    /\ Len(q) >= GateReplies
    /\ \/ 100 * HowMany(q, Phrased) > PhraseBlock * Len(q)
       \/ HowMany(q, Spoken) >= GateGroup /\ 100 * HowMany(q, Phrased \cap Spoken) > PhraseBlock * HowMany(q, Spoken)
IsFormula(q) ==
    100 * HowMany(q, Opened) > OpeningBlock * Len(q) \/ 100 * HowMany(q, Opened) > OpeningWarn * Len(q)

LEMMA CountsOf ==
    ASSUME NEW q \in Seq(AuditedReplies), NEW T, NEW U
    PROVE  /\ HowMany(q, T) \in Nat /\ HowMany(q, T) <= Len(q) /\ Len(q) \in Nat
           /\ T \subseteq U => HowMany(q, T) <= HowMany(q, U)
<1>1. Whose(q, T) \subseteq 1..Len(q) /\ Whose(q, U) \subseteq 1..Len(q) /\ Len(q) \in Nat
    BY LenProperties DEF Whose
<1>2. IsFiniteSet(1..Len(q)) /\ Cardinality(1..Len(q)) = Len(q)
    BY <1>1, FS_Interval
<1>3. /\ IsFiniteSet(Whose(q, T)) /\ Cardinality(Whose(q, T)) <= Len(q) /\ Cardinality(Whose(q, T)) \in Nat
      /\ IsFiniteSet(Whose(q, U))
    BY <1>1, <1>2, FS_Subset, FS_CardinalityType
<1>4. T \subseteq U => Whose(q, T) \subseteq Whose(q, U)
    BY DEF Whose
<1>5. T \subseteq U => Cardinality(Whose(q, T)) <= Cardinality(Whose(q, U))
    BY <1>3, <1>4, FS_Subset
<1> QED
    BY <1>1, <1>3, <1>5 DEF HowMany

LEMMA CountsAppended ==
    ASSUME NEW q \in Seq(AuditedReplies), NEW r \in AuditedReplies, NEW T
    PROVE  /\ Append(q, r) \in Seq(AuditedReplies) /\ Len(Append(q, r)) = Len(q) + 1
           /\ HowMany(Append(q, r), T) = HowMany(q, T) + IF r \in T THEN 1 ELSE 0
<1>1. PICK n \in Nat : n = Len(q)
    BY LenProperties
<1>2. PICK l : l = Append(q, r)
    OBVIOUS
<1>3. l \in Seq(AuditedReplies) /\ Len(l) = n + 1 /\ (\A i \in 1..n : l[i] = q[i]) /\ l[n + 1] = r
    BY <1>1, <1>2, AppendProperties
<1>4. DOMAIN q = 1..n /\ DOMAIN l = 1..n + 1
    BY <1>1, <1>3, LenProperties
<1>5. Whose(l, T) = Whose(q, T) \cup (IF r \in T THEN {n + 1} ELSE {})
    BY <1>3, <1>4 DEF Whose
<1>6. n + 1 \notin Whose(q, T)
    BY <1>4 DEF Whose
<1>7. IsFiniteSet(Whose(q, T))
    <2>1. Whose(q, T) \subseteq 1..n /\ IsFiniteSet(1..n)
        BY <1>4, FS_Interval DEF Whose
    <2> QED
        BY <2>1, FS_Subset
<1>8. Cardinality(Whose(q, T) \cup {n + 1}) = Cardinality(Whose(q, T)) + 1
    BY <1>6, <1>7, FS_AddElement
<1>9. Cardinality(Whose(q, T)) \in Nat
    BY <1>7, FS_CardinalityType
<1>10. Cardinality(Whose(l, T)) = Cardinality(Whose(q, T)) + IF r \in T THEN 1 ELSE 0
    <2>1. CASE r \in T
        BY <2>1, <1>5, <1>8
    <2>2. CASE r \notin T
        BY <2>2, <1>5, <1>9
    <2> QED
        BY <2>1, <2>2
<1> QED
    BY <1>1, <1>2, <1>3, <1>10 DEF HowMany

\* One more of the kind, and one more: a share that was too large stays too large.
LEMMA SharesRise ==
    ASSUME NEW share \in Nat, NEW count \in Nat, NEW total \in Nat, count <= total, 100 * count > share * total
    PROVE  100 * (count + 1) > share * (total + 1)
<1>1. share < 100
    <2> SUFFICES ASSUME share >= 100 PROVE FALSE
        OBVIOUS
    <2>1. share * total >= 100 * total
        OBVIOUS
    <2> QED
        BY <2>1
<1>2. share * (total + 1) = share * total + share
    OBVIOUS
<1> QED
    BY <1>1, <1>2

AuditCounted ==
    /\ Itself \in AuditedReplies /\ Corpus \in Seq(AuditedReplies)
    /\ OverusedPhrase <=> IsHabit(Corpus)
    /\ OverusedOpening <=> IsFormula(Corpus)
    /\ SharedOpenings = HowMany(Corpus, Opened)
LEMMA AuditCounts == AuditTypes => AuditCounted
<1> SUFFICES ASSUME AuditTypes PROVE AuditCounted
    OBVIOUS
<1>1. Itself \in AuditedReplies
    BY DEF AuditTypes, Itself, AuditedReplies
<1>2. PICK q : q = Corpus
    OBVIOUS
<1>3. q \in Seq(AuditedReplies)
    BY <1>1, <1>2, CountsAppended DEF Corpus, AuditTypes
<1>4. PICK n \in Nat : n = Len(q) /\ DOMAIN q = 1..n /\ \A i \in 1..n : q[i] \in AuditedReplies
    BY <1>3, LenProperties
<1>5. Cardinality(1..n) = n
    <2>1. Cardinality(1..n) = IF 1 > n THEN 0 ELSE n - 1 + 1
        BY FS_Interval
    <2> QED
        BY <2>1
<1>6. {i \in DOMAIN q : q[i].phrase} = Whose(q, Phrased) /\ {i \in DOMAIN q : q[i].opening} = Whose(q, Opened)
    BY <1>4 DEF Whose, Phrased, Opened
<1>7. InLanguage = Whose(q, Spoken) /\ {i \in InLanguage : q[i].phrase} = Whose(q, Phrased \cap Spoken)
    BY <1>2, <1>4 DEF Whose, Phrased, Spoken, InLanguage
<1>8. SharedOpenings = HowMany(q, Opened)
    BY <1>2, <1>6 DEF SharedOpenings, HowMany
<1>9. /\ PhraseSeverity(DOMAIN q, Gated) = Severity(HowMany(q, Phrased), n, PhraseWarn, PhraseBlock, Gated)
      /\ \A g : PhraseSeverity(InLanguage, g) = Severity(HowMany(q, Phrased \cap Spoken), HowMany(q, Spoken), PhraseWarn, PhraseBlock, g)
    BY <1>2, <1>4, <1>5, <1>6, <1>7 DEF PhraseSeverity, HowMany
<1>10. \A count, total, warn, block : \A gated \in BOOLEAN :
         Severity(count, total, warn, block, gated) = "block" <=> (100 * count > block * total /\ gated)
    BY DEF Severity
<1>14. \A count, total, warn, block : \A gated \in BOOLEAN :
         Severity(count, total, warn, block, gated) # "none" <=> (100 * count > block * total \/ 100 * count > warn * total)
    BY DEF Severity
<1>11. Gated \in BOOLEAN /\ (Gated <=> n >= GateReplies)
    BY <1>2, <1>4 DEF Gated
<1>15. PhraseSeverity(DOMAIN q, Gated) = "block" <=> (100 * HowMany(q, Phrased) > PhraseBlock * n /\ Gated)
    BY <1>9, <1>10, <1>11
<1>16. \A g \in BOOLEAN : PhraseSeverity(InLanguage, g) = "block"
                           <=> (100 * HowMany(q, Phrased \cap Spoken) > PhraseBlock * HowMany(q, Spoken) /\ g)
    BY <1>9, <1>10
<1>17. Cardinality(InLanguage) = HowMany(q, Spoken)
    BY <1>7 DEF HowMany
<1>18. (Gated /\ Cardinality(InLanguage) >= GateGroup) \in BOOLEAN
    OBVIOUS
<1>12. OverusedPhrase <=> IsHabit(q)
    BY <1>2, <1>4, <1>11, <1>15, <1>16, <1>17, <1>18 DEF OverusedPhrase, IsHabit
<1>13. OverusedOpening <=> IsFormula(q)
    BY <1>2, <1>4, <1>8, <1>11, <1>14 DEF OverusedOpening, IsFormula
<1> QED
    BY <1>1, <1>2, <1>3, <1>8, <1>12, <1>13 DEF AuditCounted

LEMMA AuditCountsNext == AuditTypes' => AuditCounted'
    BY AuditCounts, PTL

\* The text has what it had, or more.
Swollen == conversation' = [conversation EXCEPT !.text = conversation'.text] /\ conversation.text \subseteq conversation'.text

\* One more reply with the phrase and the opening: what was said too often still is.
LEMMA HabitsStay ==
    ASSUME NEW q \in Seq(AuditedReplies), NEW last \in AuditedReplies, NEW r \in AuditedReplies, r.phrase, r.opening
    PROVE  /\ IsHabit(Append(q, last)) => IsHabit(Append(Append(q, r), last))
           /\ IsFormula(Append(q, last)) => IsFormula(Append(Append(q, r), last))
           /\ HowMany(Append(q, last), Opened) <= HowMany(Append(Append(q, r), last), Opened)
           /\ HowMany(Append(q, last), Opened) \in Nat /\ HowMany(Append(Append(q, r), last), Opened) \in Nat
<1>1. PICK a : a = Append(q, last)
    OBVIOUS
<1>2. PICK b : b = Append(Append(q, r), last)
    OBVIOUS
<1>3. PICK n \in Nat : n = Len(a)
    BY <1>1, CountsAppended, CountsOf
<1>4. a \in Seq(AuditedReplies) /\ b \in Seq(AuditedReplies) /\ Len(b) = n + 1
    <2>1. a \in Seq(AuditedReplies) /\ Len(a) = Len(q) + 1 /\ Append(q, r) \in Seq(AuditedReplies) /\ Len(Append(q, r)) = Len(q) + 1
        BY <1>1, CountsAppended
    <2>2. b \in Seq(AuditedReplies) /\ Len(b) = Len(Append(q, r)) + 1
        BY <1>2, <2>1, CountsAppended
    <2> QED
        BY <1>3, <2>1, <2>2
<1>5. ASSUME NEW T PROVE HowMany(b, T) = HowMany(a, T) + IF r \in T THEN 1 ELSE 0
    <2>1. PICK m \in Nat : m = HowMany(q, T)
        BY CountsOf
    <2>2. PICK i \in {0, 1} : i = IF last \in T THEN 1 ELSE 0
        OBVIOUS
    <2>3. PICK j \in {0, 1} : j = IF r \in T THEN 1 ELSE 0
        OBVIOUS
    <2>4. HowMany(a, T) = m + i
        BY <1>1, <2>1, <2>2, CountsAppended
    <2>5. Append(q, r) \in Seq(AuditedReplies) /\ HowMany(Append(q, r), T) = m + j
        BY <2>1, <2>3, CountsAppended
    <2>6. HowMany(b, T) = (m + j) + i
        <3>1. PICK l : l = Append(q, r)
            OBVIOUS
        <3>2. l \in Seq(AuditedReplies) /\ HowMany(l, T) = m + j
            BY <2>5, <3>1
        <3>3. HowMany(Append(l, last), T) = HowMany(l, T) + IF last \in T THEN 1 ELSE 0
            BY <3>2, CountsAppended
        <3> QED
            BY <1>2, <2>2, <3>1, <3>2, <3>3
    <2> QED
        BY <2>3, <2>4, <2>6
<1>6. PICK p, o, s, t \in Nat : /\ p = HowMany(a, Phrased) /\ o = HowMany(a, Opened) /\ s = HowMany(a, Spoken) /\ t = HowMany(a, Phrased \cap Spoken)
                               /\ p <= n /\ o <= n /\ t <= s
    BY <1>3, <1>4, CountsOf
<1>7. r \in Phrased /\ r \in Opened
    BY DEF Phrased, Opened
<1>8. HowMany(b, Phrased) = p + 1 /\ HowMany(b, Opened) = o + 1
    BY <1>5, <1>6, <1>7
<1>9. \/ HowMany(b, Spoken) = s + 1 /\ HowMany(b, Phrased \cap Spoken) = t + 1
      \/ HowMany(b, Spoken) = s /\ HowMany(b, Phrased \cap Spoken) = t
    <2>1. CASE r \in Spoken
        BY <2>1, <1>5, <1>6, <1>7
    <2>2. CASE r \notin Spoken
        BY <2>2, <1>5, <1>6, <1>7
    <2> QED
        BY <2>1, <2>2
<1>10. GateReplies \in Nat /\ GateGroup \in Nat /\ PhraseBlock \in Nat /\ OpeningWarn \in Nat /\ OpeningBlock \in Nat
    BY AuditAssumption
<1>11. 100 * p > PhraseBlock * n => 100 * (p + 1) > PhraseBlock * (n + 1)
    BY <1>6, <1>10, SharesRise
<1>12. 100 * t > PhraseBlock * s => 100 * (t + 1) > PhraseBlock * (s + 1)
    BY <1>6, <1>10, SharesRise
<1>13. 100 * o > OpeningBlock * n => 100 * (o + 1) > OpeningBlock * (n + 1)
    BY <1>6, <1>10, SharesRise
<1>14. 100 * o > OpeningWarn * n => 100 * (o + 1) > OpeningWarn * (n + 1)
    BY <1>6, <1>10, SharesRise
<1>15. ASSUME IsHabit(a) PROVE IsHabit(b)
    <2>1. n + 1 >= GateReplies
        BY <1>3, <1>10, <1>15 DEF IsHabit
    <2>2. CASE 100 * p > PhraseBlock * n
        BY <2>1, <2>2, <1>4, <1>8, <1>11 DEF IsHabit
    <2>3. CASE s >= GateGroup /\ 100 * t > PhraseBlock * s
        <3>1. s + 1 >= GateGroup
            BY <2>3, <1>10
        <3> QED
            BY <2>1, <2>3, <3>1, <1>4, <1>9, <1>12 DEF IsHabit
    <2> QED
        BY <2>2, <2>3, <1>3, <1>6, <1>15 DEF IsHabit
<1>16. IsFormula(a) => IsFormula(b)
    BY <1>3, <1>4, <1>6, <1>8, <1>13, <1>14 DEF IsFormula
<1> QED
    BY <1>1, <1>2, <1>6, <1>8, <1>15, <1>16

\* A change for the worse clears no signal and adds no marker.
Worse ==
    /\ Markers \in 0..3 /\ Markers' \in 0..3 /\ Markers' <= Markers
    /\ Signals \subseteq Signals'
LEMMA SignalsRise ==
    ASSUME AuditTypes, Swollen, OverusedPhrase => OverusedPhrase', OverusedOpening => OverusedOpening',
           SharedOpenings \in Nat, SharedOpenings' \in Nat, SharedOpenings <= SharedOpenings'
    PROVE  Worse
<1>1. /\ conversation'.category = conversation.category /\ conversation'.markers = conversation.markers
      /\ conversation'.long = conversation.long /\ conversation'.grounded = conversation.grounded
      /\ conversation'.user = conversation.user /\ conversation'.phrase = conversation.phrase
      /\ conversation.text \subseteq conversation'.text /\ conversation.markers \in 0..3
    BY DEF Swollen, AuditTypes
<1>2. CatchphraseHit => CatchphraseHit'
    BY <1>1 DEF CatchphraseHit
<1>3. Markers \in 0..3 /\ Markers' \in 0..3 /\ Markers' <= Markers
    BY <1>1, <1>2 DEF Markers
<1>4. Markers = 0 => Markers' = 0
    BY <1>3
<1>5. SharedOpenings >= OpenerLimit => SharedOpenings' >= OpenerLimit
    BY AuditAssumption
<1>6. Signals \subseteq Signals'
    <2> SUFFICES ASSUME NEW f \in Signals PROVE f \in Signals'
        OBVIOUS
    <2>1. CASE /\ f \in conversation.text
               /\ f = "formal" => conversation.user = "casual"
               /\ f \in {"attribution", "fact", "statistic"} => ~conversation.grounded
               /\ f = "flirty" => conversation.category # "flirty_contextual_adult" /\ conversation.user # "flirty"
        BY <1>1, <2>1 DEF Signals
    <2>2. CASE f = "textbook" /\ conversation.category = "adult_terminology_education" /\ Markers = 0
        BY <1>1, <1>4, <2>2 DEF Signals
    <2>3. CASE f = "too long" /\ conversation.category = "short_answers" /\ conversation.long
        BY <1>1, <2>3 DEF Signals
    <2>4. CASE f = "too short" /\ conversation.category = "detailed_explanations" /\ ~conversation.long
        BY <1>1, <2>4 DEF Signals
    <2>5. CASE f = "catchphrase" /\ CatchphraseHit
        BY <1>2, <2>5 DEF Signals
    <2>6. CASE f = "opening" /\ OverusedOpening
        BY <2>6 DEF Signals
    <2>7. CASE f = "opener" /\ SharedOpenings >= OpenerLimit
        BY <1>5, <2>7 DEF Signals
    <2> QED
        BY <2>1, <2>2, <2>3, <2>4, <2>5, <2>6, <2>7 DEF Signals
<1> QED
    BY <1>3, <1>6 DEF Worse

LEMMA VerdictsFall ==
    ASSUME Worse
    PROVE  Rank(Recommendation') <= Rank(Recommendation) /\ Recommendation \in {"WEAK", "NEEDS_EDIT", "STRONG"}
<1>1. PICK s, t, m, n : s = Signals /\ t = Signals' /\ m = Markers /\ n = Markers'
    OBVIOUS
<1>2. PICK c, e : c = Scores(s, m) /\ e = Scores(t, n)
    OBVIOUS
<1>3. Recommendation = Verdict(s, c) /\ Recommendation' = Verdict(t, e)
    BY <1>1, <1>2 DEF Recommendation, Verdict
<1>4. s \subseteq t /\ m \in 0..3 /\ n \in 0..3 /\ n <= m
    BY <1>1 DEF Worse
<1>5. /\ DOMAIN c = ScoreNames
      /\ \A d \in ScoreNames : c[d] \in 1..5 /\ e[d] <= c[d]
    BY <1>2, <1>4, ScoresFall
<1>6. DOMAIN e = ScoreNames /\ \A d \in ScoreNames : e[d] \in 1..5
    <2>1. t \subseteq t /\ n <= n
        BY <1>4
    <2>2. DOMAIN Scores(t, n) = ScoreNames /\ \A d \in ScoreNames : Scores(t, n)[d] \in 1..5
        BY <1>4, <2>1, ScoresFall
    <2> QED
        BY <1>2, <2>2
<1> QED
    BY <1>3, <1>4, <1>5, <1>6, VerdictFalls

\* The maximum is 26 points: who has them has no signal, and two markers at least.
LEMMA StrongScores ==
    ASSUME NEW s, NEW m \in 0..3, Strong(Scores(s, m))
    PROVE  m >= 2 /\ s \cap (AllFaults \cup {"textbook", "too long", "too short", "catchphrase", "opening", "opener"}) = {}
<1>1. PICK T : T = {"therapy", "validation", "restates", "disclaimer", "formal"}
    OBVIOUS
<1>2. PICK U : U = {"too long", "too short", "pet names", "emojis"}
    OBVIOUS
<1>3. PICK a, b, c, d, f : /\ a = Cardinality(s \cap T) /\ b = Cardinality(s \cap {"formal"})
                           /\ c = Cardinality(s \cap {"generic", "textbook"}) /\ d = Cardinality(s \cap U)
                           /\ f = Cardinality(s \cap {"catchphrase", "opening", "opener"})
    OBVIOUS
<1>4. /\ a \in Nat /\ b \in Nat /\ c \in Nat /\ d \in Nat /\ f \in Nat
      /\ a = 0 => s \cap T = {}
      /\ c = 0 => s \cap {"generic", "textbook"} = {}
      /\ d = 0 => s \cap U = {}
      /\ f = 0 => s \cap {"catchphrase", "opening", "opener"} = {}
    <2>1. /\ IsFiniteSet(T) /\ IsFiniteSet(U) /\ IsFiniteSet({"formal"}) /\ IsFiniteSet({"generic", "textbook"})
          /\ IsFiniteSet({"catchphrase", "opening", "opener"})
        BY <1>1, <1>2, FaultSetsAreFinite
    <2>2. \A F : IsFiniteSet(F) => Cardinality(s \cap F) \in Nat /\ (Cardinality(s \cap F) = 0 => s \cap F = {})
        BY FaultsCounted
    <2> QED
        BY <1>3, <2>1, <2>2
<1>5. PICK g \in {0, 2} : g = (IF "generic" \in s THEN 2 ELSE 0)
    OBVIOUS
<1>6. PICK h \in {0, 2} : h = (IF "flirty" \in s THEN 2 ELSE 0)
    OBVIOUS
<1>7. PICK k \in 0..2 : k = (IF m > 2 THEN 2 ELSE m)
    OBVIOUS
<1>8. PICK x \in {0, 4} : x = (IF "attribution" \in s THEN 4 ELSE 0)
    OBVIOUS
<1>9. PICK y \in {0, 1, 3} : y = (IF "fact" \in s THEN 3 ELSE IF "statistic" \in s THEN 1 ELSE 0)
    OBVIOUS
<1>10. PICK r : r = Scores(s, m)
    OBVIOUS
<1>11. /\ r.naturalness = Clamp(4 - g - a) /\ r.language = Clamp(4 - b) /\ r.identity = Clamp(3 + k - c)
       /\ r.context = Clamp(4 - h - d) /\ r.variety = Clamp(4 - f) /\ r.factual = Clamp(5 - x - y)
    BY <1>1, <1>2, <1>3, <1>5, <1>6, <1>7, <1>8, <1>9, <1>10 DEF Scores, Factual
<1>12. r.naturalness + r.language + r.identity + r.context + r.variety + r.factual >= 26
    BY <1>10 DEF Strong, Total
<1>13. \A n \in Int : \A l \in 1..5 : n <= l => Clamp(n) \in 1..l
    BY DEF Clamp
<1>14. /\ r.naturalness \in 1..4 /\ r.language \in 1..4 /\ r.identity \in 1..5
       /\ r.context \in 1..4 /\ r.variety \in 1..4 /\ r.factual \in 1..5
    <2>1. 4 - g - a \in Int /\ 4 - g - a <= 4 /\ 4 - b \in Int /\ 4 - b <= 4 /\ 4 - h - d \in Int /\ 4 - h - d <= 4
        BY <1>4, <1>5, <1>6
    <2>2. 3 + k - c \in Int /\ 3 + k - c <= 5 /\ 4 - f \in Int /\ 4 - f <= 4 /\ 5 - x - y \in Int /\ 5 - x - y <= 5
        BY <1>4, <1>7, <1>8, <1>9
    <2> QED
        BY <1>11, <1>13, <2>1, <2>2
<1>15. r.naturalness = 4 /\ r.identity = 5 /\ r.context = 4 /\ r.variety = 4 /\ r.factual = 5
    BY <1>12, <1>14
<1>16. \A n \in Int : \A l \in 2..5 : Clamp(n) = l => n >= l
    BY DEF Clamp
<1>17. /\ 4 - g - a >= 4 /\ 3 + k - c >= 5 /\ 4 - h - d >= 4 /\ 4 - f >= 4 /\ 5 - x - y >= 5
    <2>1. 4 - g - a \in Int /\ 3 + k - c \in Int /\ 4 - h - d \in Int /\ 4 - f \in Int /\ 5 - x - y \in Int
        BY <1>4, <1>5, <1>6, <1>7, <1>8, <1>9
    <2> QED
        BY <1>11, <1>15, <1>16, <2>1
<1>18. g = 0 /\ a = 0 /\ k = 2 /\ c = 0 /\ h = 0 /\ d = 0 /\ f = 0 /\ x = 0 /\ y = 0
    BY <1>4, <1>5, <1>6, <1>7, <1>8, <1>9, <1>17
<1>19. m >= 2
    BY <1>7, <1>18
<1>20. "flirty" \notin s /\ "attribution" \notin s /\ "fact" \notin s /\ "statistic" \notin s
    BY <1>6, <1>8, <1>9, <1>18
<1>21. s \cap T = {} /\ s \cap {"generic", "textbook"} = {} /\ s \cap U = {} /\ s \cap {"catchphrase", "opening", "opener"} = {}
    BY <1>4, <1>18
<1> QED
    BY <1>1, <1>2, <1>19, <1>20, <1>21 DEF AllFaults

\* What the audit says is what its signals deserve.
LEMMA ReportsAreJust == AuditInv => StrongIsClean /\ UngroundedIsWeak
<1> SUFFICES ASSUME AuditInv PROVE StrongIsClean /\ UngroundedIsWeak
    OBVIOUS
<1>1. PICK s, m, c : s = Signals /\ m = Markers /\ c = Scores(s, m)
    OBVIOUS
<1>2. Recommendation = Verdict(s, c)
    BY <1>1 DEF Recommendation, Verdict
<1>3. m \in 0..3
    BY <1>1 DEF AuditInv, AuditTypes, Markers
<1>4. s \subseteq AllFaults \cup {"textbook", "too long", "too short", "catchphrase", "opening", "opener"}
    <2>1. conversation.text \subseteq AllFaults
        BY DEF AuditInv, AuditTypes
    <2> QED
        BY <1>1, <2>1 DEF Signals
<1>5. ASSUME Verdict(s, c) = "STRONG" PROVE s = {} /\ m >= 2
    <2>1. Strong(c)
        BY <1>5 DEF Verdict
    <2> QED
        BY <1>1, <1>3, <1>4, <2>1, StrongScores
<1>6. StrongIsClean
    BY <1>1, <1>2, <1>5 DEF StrongIsClean, AuditInv
<1>7. ASSUME "attribution" \in s \/ "fact" \in s PROVE Verdict(s, c) = "WEAK"
    <2>1. c.factual = Clamp(5 - (IF "attribution" \in s THEN 4 ELSE 0) - (IF "fact" \in s THEN 3 ELSE IF "statistic" \in s THEN 1 ELSE 0))
        BY <1>1 DEF Scores, Factual
    <2>2. c.factual \in 1..2
        BY <1>7, <2>1 DEF Clamp
    <2>3. ~Strong(c)
        <3>1. "factual" \in DOMAIN c
            BY <1>1 DEF Scores
        <3> QED
            BY <2>2, <3>1 DEF Strong
    <2>4. Weak(c)
        BY <2>2 DEF Weak
    <2> QED
        BY <2>3, <2>4 DEF Verdict
<1>8. ~conversation.grounded /\ {"attribution", "fact"} \cap conversation.text # {} => "attribution" \in s \/ "fact" \in s
    BY <1>1 DEF Signals
<1>9. UngroundedIsWeak
    BY <1>2, <1>7, <1>8 DEF UngroundedIsWeak, AuditInv
<1> QED
    BY <1>6, <1>9

LEMMA AuditBegins == AuditInit => AuditInv
<1> SUFFICES ASSUME AuditInit PROVE AuditInv
    OBVIOUS
<1>1. conversation \in AuditedConversations /\ others = <<>> /\ report = "none" /\ since = "anything"
    BY DEF AuditInit
<1>2. conversation \in [category : Categories, text : SUBSET AllFaults, markers : 0..3, long : BOOLEAN, grounded : BOOLEAN,
                        user : {"neutral", "casual", "flirty"}, phrase : BOOLEAN]
    BY <1>1, AuditAssumption DEF AuditedConversations
<1>3. others \in Seq(AuditedReplies)
    BY <1>1
<1> QED
    BY <1>1, <1>2, <1>3 DEF AuditInv, AuditTypes

\* Changes for the worse keep a report at least as good as what the audit would say.
LEMMA ReportsKeep ==
    ASSUME AuditInv, Worse, report' = report, since' \in {since, "worse"}, since' # "nothing",
           since' = "worse" => since # "anything", AuditTypes'
    PROVE  AuditInv'
<1>1. PICK x, y, z : x = Recommendation /\ y = Recommendation' /\ z = report
    OBVIOUS
<1>2. Rank(y) <= Rank(x) /\ x \in {"WEAK", "NEEDS_EDIT", "STRONG"}
    BY <1>1, VerdictsFall
<1> QED
    <2>1. \A v \in {"WEAK", "NEEDS_EDIT", "STRONG"} : Rank(v) \in Nat
        BY DEF Rank
    <2>2. y \in {"WEAK", "NEEDS_EDIT", "STRONG"}
        BY <1>1 DEF Recommendation
    <2>3. ASSUME since # "anything" PROVE z # "none" /\ Rank(x) <= Rank(z) /\ z \in {"WEAK", "NEEDS_EDIT", "STRONG"}
        BY <1>1, <2>3 DEF AuditInv, AuditTypes
    <2>4. since # "anything" => z # "none" /\ Rank(y) <= Rank(z)
        BY <1>2, <2>1, <2>2, <2>3
    <2> QED
        BY <1>1, <2>4 DEF AuditInv

\* Nothing but the text and the corpus counts.
LEMMA SameVerdict ==
    ASSUME conversation' = conversation, others' = others
    PROVE  Recommendation' = Recommendation
<1>2. Corpus' = Corpus
    BY DEF Corpus, Itself
<1>3. OverusedPhrase' = OverusedPhrase /\ OverusedOpening' = OverusedOpening /\ SharedOpenings' = SharedOpenings
    BY <1>2 DEF OverusedPhrase, OverusedOpening, SharedOpenings, PhraseSeverity, InLanguage, Gated
<1>4. Markers' = Markers /\ CatchphraseHit' = CatchphraseHit
    BY <1>3 DEF CatchphraseHit, Markers
<1>5. Signals' = Signals
    BY <1>3, <1>4 DEF Signals
<1> QED
    BY <1>4, <1>5 DEF Recommendation

LEMMA AuditStep ==
    ASSUME AuditInv, [AuditNext]_auditVars
    PROVE  /\ AuditInv'
           /\ since = "worse" /\ since' = "nothing" => Rank(report') <= Rank(report)
<1> USE DEF auditVars
<1>1. AuditTypes'
    <2>1. ASSUME NEW f \in Faults, AddFault(f) PROVE AuditTypes'
        BY <2>1, AuditAssumption DEF AddFault, AuditInv, AuditTypes
    <2>2. ASSUME NEW r \in AuditedReplies, AddReply(r) PROVE AuditTypes'
        <3>1. others' \in Seq(AuditedReplies)
            BY <2>2, AppendProperties DEF AddReply, AuditInv, AuditTypes
        <3> QED
            BY <2>2, <3>1 DEF AddReply, AuditInv, AuditTypes
    <2>3. CASE RunVoiceAudit
        BY <2>3 DEF RunVoiceAudit, Recommendation, AuditInv, AuditTypes
    <2>4. CASE UNCHANGED auditVars
        BY <2>4 DEF AuditInv, AuditTypes
    <2> QED
        BY <2>1, <2>2, <2>3, <2>4 DEF AuditNext
<1>2. AuditCounted /\ AuditCounted'
    BY <1>1, AuditCounts, AuditCountsNext DEF AuditInv
<1>3. SharedOpenings \in Nat
    BY <1>2, CountsOf DEF AuditCounted
<1>4. ASSUME NEW f \in Faults, AddFault(f) PROVE AuditInv' /\ since' # "nothing"
    <2>1. Corpus' = Corpus
        BY <1>4 DEF AddFault, Corpus, Itself, AuditInv, AuditTypes
    <2>2. /\ OverusedPhrase => OverusedPhrase'
          /\ OverusedOpening => OverusedOpening'
          /\ SharedOpenings' = SharedOpenings
        BY <1>2, <2>1 DEF AuditCounted
    <2>3. Swollen
        BY <1>4 DEF AddFault, Swollen, AuditInv, AuditTypes
    <2>4. Worse
        BY <1>3, <2>2, <2>3, SignalsRise DEF AuditInv
    <2>5. report' = report /\ since' \in {since, "worse"} /\ since' # "nothing" /\ (since' = "worse" => since # "anything")
        BY <1>4 DEF AddFault
    <2> QED
        BY <1>1, <2>4, <2>5, ReportsKeep
<1>5. ASSUME NEW r \in AuditedReplies, AddReply(r), r.phrase, r.opening PROVE AuditInv' /\ since' # "nothing"
    <2>1. Corpus' = Append(Append(others, r), Itself) /\ Itself' = Itself
        BY <1>5 DEF AddReply, Corpus, Itself
    <2>2. PICK q \in Seq(AuditedReplies) : q = others
        BY DEF AuditInv, AuditTypes
    <2>3. PICK last \in AuditedReplies : last = Itself
        BY <1>2 DEF AuditCounted
    <2>4. Corpus = Append(q, last) /\ Corpus' = Append(Append(q, r), last)
        BY <2>1, <2>2, <2>3 DEF Corpus
    <2>5. /\ IsHabit(Append(q, last)) => IsHabit(Append(Append(q, r), last))
          /\ IsFormula(Append(q, last)) => IsFormula(Append(Append(q, r), last))
          /\ HowMany(Append(q, last), Opened) <= HowMany(Append(Append(q, r), last), Opened)
          /\ HowMany(Append(q, last), Opened) \in Nat /\ HowMany(Append(Append(q, r), last), Opened) \in Nat
        BY <1>5, HabitsStay
    <2>6. /\ OverusedPhrase => OverusedPhrase'
          /\ OverusedOpening => OverusedOpening'
          /\ SharedOpenings \in Nat /\ SharedOpenings' \in Nat /\ SharedOpenings <= SharedOpenings'
        BY <1>2, <2>4, <2>5 DEF AuditCounted
    <2>7. Swollen
        BY <1>5 DEF AddReply, Swollen, AuditInv, AuditTypes
    <2>8. Worse
        BY <2>6, <2>7, SignalsRise DEF AuditInv
    <2>9. report' = report /\ since' \in {since, "worse"} /\ since' # "nothing" /\ (since' = "worse" => since # "anything")
        BY <1>5 DEF AddReply
    <2> QED
        BY <1>1, <2>8, <2>9, ReportsKeep
<1>6. ASSUME NEW r \in AuditedReplies, AddReply(r), ~(r.phrase /\ r.opening) PROVE AuditInv' /\ since' # "nothing"
    BY <1>1, <1>6 DEF AddReply, AuditInv
<1>7. ASSUME RunVoiceAudit PROVE AuditInv' /\ (since = "worse" => Rank(report') <= Rank(report))
    <2>1. PICK x : x = Recommendation
        OBVIOUS
    <2>2. Recommendation' = x /\ x \in {"WEAK", "NEEDS_EDIT", "STRONG"} /\ report' = x /\ since' = "nothing"
        <3>1. conversation' = conversation /\ others' = others
            BY <1>7 DEF RunVoiceAudit
        <3>4. Recommendation' = Recommendation
            BY <3>1, SameVerdict
        <3>5. Recommendation \in {"WEAK", "NEEDS_EDIT", "STRONG"}
            BY DEF Recommendation
        <3> QED
            BY <1>7, <2>1, <3>4, <3>5 DEF RunVoiceAudit
    <2>3. Rank(x) <= Rank(x) /\ x # "none"
        BY <2>2 DEF Rank
    <2>4. since = "worse" => Rank(x) <= Rank(report)
        BY <2>1 DEF AuditInv
    <2> QED
        BY <1>1, <2>2, <2>3, <2>4 DEF AuditInv
<1>8. CASE UNCHANGED auditVars
    <2>1. AuditInv'
        <3>1. Recommendation' = Recommendation
            BY <1>8, SameVerdict
        <3> QED
            BY <1>1, <1>8, <3>1 DEF AuditInv
    <2> QED
        BY <1>8, <2>1
<1> QED
    BY <1>4, <1>5, <1>6, <1>7, <1>8 DEF AuditNext

-----------------------------------------------------------------------------
(***************************************************************************)
(* What serves.                                                            *)
(***************************************************************************)
ServingWorkInv == ReleaseInv /\ TrainingInv /\ PostInv

THEOREM ApprovalsCorrect == WorkSpec => []ServingWorkInv
<1>1. WorkInit => ServingWorkInv
    BY PartsBegin, ReleaseBegin, TrainingBegins, PostBegins DEF ServingWorkInv
<1>2. ServingWorkInv /\ [WorkNext]_workVars => ServingWorkInv'
    BY PartsStep, ReleaseStep, TrainingStep, PostStep DEF ServingWorkInv
<1> QED
    BY <1>1, <1>2, PTL DEF WorkSpec

(* For every set of releases, every number of runs, checkpoints and        *)
(* measured jobs, and wherever a command dies or a training saves anew:    *)
(* the guide names the best checkpoint of a run that was measured to be    *)
(* good enough, every variant is measured with its own weights, prompt and *)
(* history, a release recorded as uploaded is the one on the Hub, only     *)
(* released files are installed, and only weights that the owner approved  *)
(* or .env.example pins are launched (posttrain_v02, cmd_upload,           *)
(* fetch_adapter, check).                                                  *)
THEOREM ApprovedServes == WorkSpec => OnlyApprovedServes
<1>1. ServingWorkInv => GuideNamesTheBest /\ GuideWasEarned /\ MeasuredAlike /\ LaunchedIsApproved
    BY GuidesAreRight, AlikeIsMeasuredAlike DEF ServingWorkInv, PostInv, ReleaseInv, LaunchInv
<1>2. ServingWorkInv' => GuideNamesTheBest' /\ GuideWasEarned' /\ MeasuredAlike' /\ LaunchedIsApproved'
    BY <1>1, PTL
<1>3. ServingWorkInv /\ [WorkNext]_workVars
      => [\A r \in Releases : ~releaseManifest[r].uploaded /\ releaseManifest'[r].uploaded => hub[r].tag.weights = releaseManifest'[r].weights]_releaseVars
    BY PartsStep, UploadedIsRecorded DEF ServingWorkInv
<1>4. ServingWorkInv /\ [WorkNext]_workVars
      => [dir' # dir /\ builds' = builds => job.read.files = checksums[job.release]]_releaseVars
    BY PartsStep, ReleasedIsInstalled DEF ServingWorkInv
<1> QED
    BY ApprovalsCorrect, <1>2, <1>3, <1>4, PTL DEF WorkSpec, OnlyApprovedServes, UploadedIsWhatWasRecorded, OnlyReleasedFilesInstalled
-----------------------------------------------------------------------------
(***************************************************************************)
(* What is trained on.                                                     *)
(***************************************************************************)
DataWorkInv == CurationInv /\ AuditInv /\ ReviewInv /\ SetsInv /\ PreflightInv

THEOREM DataCorrect == WorkSpec => []DataWorkInv
<1>1. WorkInit => DataWorkInv
    BY PartsBegin, CurationBegins, AuditBegins, ReviewBegins, SetsBegin, PreflightBegins DEF DataWorkInv
<1>2. DataWorkInv /\ [WorkNext]_workVars => DataWorkInv'
    BY PartsStep, CurationStep, AuditStep, ReviewStep, SetsStep, PreflightStep DEF DataWorkInv
<1> QED
    BY <1>1, <1>2, PTL DEF WorkSpec

(* For every number of records and reviews: no frozen reply mixes scripts  *)
(* in a word, and one that nobody decided on raises no severe code unless  *)
(* the record was changed after its diagnosis; a manifest names the rows   *)
(* that were frozen; and no bulk review changes what somebody has decided, *)
(* since the candidates were listed, about a record whose number it alone  *)
(* has. It is not said that every decision is heeded: the run              *)
(* freeze_rejected shows one that is not (freeze, v02_build_candidate,     *)
(* cmd_apply).                                                             *)
THEOREM DecisionsCount == WorkSpec => ReviewsCount
<1>1. DataWorkInv' => FrozenIsClean' /\ ManifestTellsTruth'
    BY PTL DEF DataWorkInv, ReviewInv
<1>2. DataWorkInv /\ [WorkNext]_workVars
      => [command.kind = "bulk" /\ command.old = NoFile /\ command'.old # NoFile =>
            command'.old[2] \in collided \/ decided[command'.old[2]] \in {"none", "draft"}]_curationVars
    BY PartsStep, BulkAsks DEF DataWorkInv
<1> QED
    BY DataCorrect, <1>1, <1>2, PTL DEF WorkSpec, ReviewsCount, BulkRespectsReviews

(* For every number of records, lessons, sets, runs and releases, and      *)
(* wherever a command dies: no record is lost but by a restore, because    *)
(* two were given one number, or because a process dies while it writes    *)
(* over the record's only file; a snapshot with a manifest and the frozen  *)
(* sets stay what they are, the third training set excepted, which may be  *)
(* frozen anew; the weights of a finished run are kept, and a release on   *)
(* the Hub is not replaced (save, move, create_snapshot, freeze,           *)
(* step_output_dir, cmd_upload).                                           *)
THEOREM WhatIsDoneStays == WorkSpec => FinishedStays
<1>1. DataWorkInv /\ [WorkNext]_workVars
      => [\/ "restore" \in {command.kind, command'.kind}
          \/ \A n \in Numbers : n \notin collided => Kept(n) \/ TornInPlace(n)]_curationVars
    BY PartsStep, CurationStep DEF DataWorkInv
<1>2. DataWorkInv /\ [WorkNext]_workVars
      => [snapshot.manifest # NoFile =>
            /\ snapshot' = snapshot
            /\ VerifySnapshot \/ \E f, g \in snapshot.files : f # g /\ f[1][2] = g[1][2]]_curationVars
    BY PartsStep, SnapshotIsKept DEF DataWorkInv
<1>3. DataWorkInv /\ [WorkNext]_workVars => [manifest # NoReply => UNCHANGED <<export, records, manifest>>]_reviewVars
    BY PartsStep, ReviewStep DEF DataWorkInv
<1>4. DataWorkInv /\ [WorkNext]_workVars
      => [\A s \in {"first", "second", "fourth"} : sets[s].at = "frozen" => sets'[s] = sets[s]]_trainingSetVars
    BY PartsStep, SetsStep DEF DataWorkInv
<1>5. ServingWorkInv /\ [WorkNext]_workVars => [FinishedRuns \subseteq FinishedRuns']_trainingVars
    BY PartsStep, RunsAreKept DEF ServingWorkInv
<1>6. ServingWorkInv /\ [WorkNext]_workVars
      => [\A r \in Releases : /\ hub[r].folder # NoFiles => hub'[r].folder = hub[r].folder
                              /\ hub[r].tag # NoFiles => hub'[r].tag = hub[r].tag]_releaseVars
    BY PartsStep, PublishedIsKept DEF ServingWorkInv
<1> QED
    BY DataCorrect, ApprovalsCorrect, <1>1, <1>2, <1>3, <1>4, <1>5, <1>6, PTL
       DEF WorkSpec, FinishedStays, KeptUntilRestored, SnapshotIntact, FrozenNeverChanges, FreezesStay, FinishedRunsStay, PublishedStays

(* For every corpus and holdout share, of a freeze that nothing was        *)
(* changed under: the first and the second set hold out no turn and no     *)
(* subject that a new record trains on, and share only turns below MIN_LEN *)
(* characters with the V0.2 records trained on again; the third and the    *)
(* fourth train on no record, by its id, that is held out; the first two   *)
(* are what the owner authorized. The rows of the evaluation slice are on  *)
(* no other row and none is lost, and a preflight that passed undisturbed  *)
(* found the training as it should be (v021_leakage_check,                 *)
(* v021_prepare_training_set, v02_preflight).                              *)
THEOREM SetsAreAsSaid == WorkSpec => []TrainedOnSound
<1>1. DataWorkInv => TrainedOnSound
    BY SetsAreRight DEF DataWorkInv, PreflightInv, TrainedOnSound
<1> QED
    BY DataCorrect, <1>1, PTL

(* For every limit of the shares, every set of faults and however many     *)
(* replies there are: STRONG means that nothing at all is flagged, a claim *)
(* without a source is WEAK, and no report is better than one before the   *)
(* text, or the habits of the corpus, got worse (extract_signals,          *)
(* score_conversation, analyze_corpus).                                    *)
THEOREM AuditsAreJust == WorkSpec => VerdictIsJust
<1>1. DataWorkInv' => StrongIsClean' /\ UngroundedIsWeak'
    BY ReportsAreJust, PTL DEF DataWorkInv
<1>2. DataWorkInv /\ [WorkNext]_workVars => [since = "worse" /\ since' = "nothing" => Rank(report') <= Rank(report)]_auditVars
    BY PartsStep, AuditStep DEF DataWorkInv
<1> QED
    BY DataCorrect, <1>1, <1>2, PTL DEF WorkSpec, VerdictIsJust, MoreFaultsNeverHelp
=============================================================================
