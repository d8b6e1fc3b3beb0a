---------------------------- MODULE DatasetSplits ----------------------------
(***************************************************************************)
(* How approved conversations are divided into training, validation and    *)
(* test data: a union-find over every relation that must not cross the     *)
(* division, then, for each language, whole groups into the set that is    *)
(* furthest below its share. The export of the approved records does the   *)
(* same as the freeze, with near-duplicates as the only relation and all   *)
(* records as one language.                                                *)
(***************************************************************************)
EXTENDS Integers, FiniteSets

CONSTANTS
    SplitRecords,    \* the records, numbered in the order of their ids
    Languages,
    TrainPercent, ValidationPercent

ASSUME SplitsAssumption ==
    /\ SplitRecords \subseteq Nat /\ IsFiniteSet(SplitRecords)
    /\ TrainPercent \in Nat /\ ValidationPercent \in Nat /\ TrainPercent + ValidationPercent <= 100

VARIABLES
    links,      \* pairs of records that are near-duplicates, or share a term, a passage or an opening
    recordLanguage,   \* the language of each record
    parent,     \* the union-find forest
    unread,     \* links not united yet
    placed      \* the set each record was given, or "none"

splitsVars == <<links, recordLanguage, parent, unread, placed>>

Splits == {"train", "validation", "test"}
Pairs == {p \in SplitRecords \X SplitRecords : p[1] < p[2]}

SplitsInit ==
    /\ links \in SUBSET Pairs /\ unread = links
    /\ recordLanguage \in [SplitRecords -> Languages]
    /\ parent = [r \in SplitRecords |-> r]
    /\ placed = [r \in SplitRecords |-> "none"]

-----------------------------------------------------------------------------
(* The groups.                                                             *)
Find(r) == LET up[x \in SplitRecords] == IF parent[x] = x THEN x ELSE up[parent[x]] IN up[r]

\* Mutant of UniteRoots: a leaf is hung up, not its root.
UniteLeaves(a, b) == parent' = [parent EXCEPT ![a] = Find(b)]

UniteRoots(a, b) == parent' = [parent EXCEPT ![Find(a)] = Find(b)]
\* The pairs are compared in the order of the records.
Unite(a, b) ==
    /\ <<a, b>> \in unread
    /\ \A p \in unread : a < p[1] \/ (a = p[1] /\ b <= p[2])
    /\ UniteRoots(a, b)
    /\ unread' = unread \ {<<a, b>>}
    /\ UNCHANGED <<links, recordLanguage, placed>>
Groups == {{r \in SplitRecords : Find(r) = root} : root \in {Find(r) : r \in SplitRecords}}
\* The language of most of its records; of several, the one that comes first.
LanguageOf(group) ==
    LET count(l) == Cardinality({r \in group : recordLanguage[r] = l})
        most == {r \in group : \A l \in Languages : count(l) <= count(recordLanguage[r])}
    IN  recordLanguage[CHOOSE r \in most : \A x \in most : r <= x]

-----------------------------------------------------------------------------
(* The division of the groups of one language, in hundredths of a record.  *)
Percent(s) ==
    CASE s = "train" -> TrainPercent
      [] s = "validation" -> ValidationPercent
      [] s = "test" -> 100 - TrainPercent - ValidationPercent
GroupsOf(l) == {g \in Groups : LanguageOf(g) = l}
SplitTotal(l) == Cardinality(UNION GroupsOf(l))
Count(l, s) == Cardinality({r \in UNION GroupsOf(l) : placed[r] = s})
Deficit(l, s) == SplitTotal(l) * Percent(s) - 100 * Count(l, s)
Candidates == IF \E s \in Splits : Percent(s) > 0 THEN {s \in Splits : Percent(s) > 0} ELSE {"train"}
Position(s) == CASE s = "train" -> 1 [] s = "validation" -> 2 [] s = "test" -> 3

\* Mutant of Chosen: the set with the largest share, however full.
ChosenUncounted(l) == CHOOSE s \in Candidates : \A x \in Candidates : Percent(s) >= Percent(x)

Chosen(l) ==
    CHOOSE s \in Candidates :
        \A x \in Candidates \ {s} : Deficit(l, s) > Deficit(l, x) \/ (Deficit(l, s) = Deficit(l, x) /\ Position(s) < Position(x))
\* The languages one after the other, in each the largest groups first, in a shuffled order.
Waiting(l) == {g \in GroupsOf(l) : \A r \in g : placed[r] = "none"}
Place(group) ==
    LET l == LanguageOf(group) IN
    /\ group \in Waiting(l)
    /\ \A other \in Waiting(l) : Cardinality(other) <= Cardinality(group)
    /\ placed' = [r \in SplitRecords |-> IF r \in group THEN Chosen(l) ELSE placed[r]]
    /\ UNCHANGED <<links, recordLanguage, parent, unread>>

SplitsNext ==
    \/ \E a, b \in SplitRecords : Unite(a, b)
    \/ unread = {} /\ \E g \in Groups : Place(g)

SplitsSpec == SplitsInit /\ [][SplitsNext]_splitsVars
-----------------------------------------------------------------------------
(* When every record has its place, no relation crosses the division: the  *)
(* check for leakage that the freeze makes afterwards never fires, however *)
(* the relations chain (leakage_groups, split_id_groups).                  *)
NoLeak == (\A r \in SplitRecords : placed[r] # "none") => \A p \in links : placed[p[1]] = placed[p[2]]

(* No set gets more than its share and one group: whole groups cost no     *)
(* more precision than the largest of them, in every language.             *)
NearTheTarget ==
    \A l \in Languages, s \in Splits :
        (\E r \in SplitRecords : placed[r] = s) /\ Count(l, s) > 0 => \E g \in GroupsOf(l) : -Deficit(l, s) < 100 * Cardinality(g)

(* The division is fair: separate, and of the sizes asked for.             *)
SplitIsFair == NoLeak /\ NearTheTarget
=============================================================================
