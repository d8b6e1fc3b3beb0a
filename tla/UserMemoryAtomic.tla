-------------------------- MODULE UserMemoryAtomic --------------------------
(***************************************************************************)
(* What the user memory of one browser id promises (the docstrings of      *)
(* rupsaa/conversation/user_memory.py): opt-in facts, one value per slot,  *)
(* at most MaxFacts of them, each request applied at once or not at all.   *)
(***************************************************************************)
EXTENDS Integers, Sequences, SequencesExt

CONSTANTS
    Keys,     \* slots: name, location, favourite_color, note:...
    Values,   \* what a slot may hold
    MaxFacts  \* max_facts

VARIABLES consent, facts

Fact == [key : Keys, value : Values]

Stored(fs, k) == \E i \in 1..Len(fs) : fs[i].key = k

Holds(fs, k, v) == \E i \in 1..Len(fs) : fs[i] = [key |-> k, value |-> v]

\* Mutant of Put: a correction is added next to the old value.
PutTwice(fs, k, v) == Append(fs, [key |-> k, value |-> v])

\* A correction replaces the old value in place, a new slot goes to the end.
Put(fs, k, v) ==
    IF Stored(fs, k)
      THEN [i \in 1..Len(fs) |-> IF fs[i].key = k THEN [fs[i] EXCEPT !.value = v] ELSE fs[i]]
      ELSE Append(fs, [key |-> k, value |-> v])

\* facts[-max_facts:]
Capped(fs) == IF Len(fs) <= MaxFacts THEN fs ELSE SubSeq(fs, Len(fs) - MaxFacts + 1, Len(fs))

\* [f for f in mem.facts if f["id"] != fact_id]: an id is one fact's.
Without(fs, k) ==
    IF Stored(fs, k) THEN RemoveAt(fs, CHOOSE i \in 1..Len(fs) : fs[i].key = k) ELSE fs

Init == consent = FALSE /\ facts = <<>>

OptIn == consent' = TRUE /\ UNCHANGED facts

\* Off, or "forget": everything goes, the consent too.
OptOut == consent' = FALSE /\ facts' = <<>>

Remember(k, v) ==
    /\ consent
    /\ facts' = Capped(Put(facts, k, v))
    /\ UNCHANGED consent

Delete(k) ==
    /\ facts' = Without(facts, k)
    /\ UNCHANGED consent

Next ==
    \/ OptIn \/ OptOut
    \/ \E k \in Keys : Delete(k) \/ \E v \in Values : Remember(k, v)

Spec == Init /\ [][Next]_<<consent, facts>>
=============================================================================
