-------------------------- MODULE ConversationStore --------------------------
(***************************************************************************)
(* InMemoryConversationStore of rupsaa/conversation/manager.py: the        *)
(* in-process table of live conversations, bounded by MaxConversations     *)
(* (least recently used dropped first) and by an idle time.                *)
(*                                                                         *)
(* The OrderedDict is the sequence `table`, oldest entry first; an entry   *)
(* keeps the conversation's id and the time it was last seen.  get, save   *)
(* and delete each run under one lock, so each is one action.  The clock   *)
(* is time.monotonic(): Tick moves it forward at any moment.               *)
(***************************************************************************)
EXTENDS Integers, Sequences, FiniteSets, SequencesExt

CONSTANTS
    Ids,               \* conversation ids
    MaxConversations,  \* max_conversations
    IdleSeconds,       \* idle_seconds
    Times              \* the clock readings that may occur

ASSUME StoreAssumption ==
    /\ MaxConversations \in Nat \ {0}    \* max(1, max_conversations)
    /\ IdleSeconds \in Nat
    /\ Times \subseteq Nat
    /\ 0 \in Times

VARIABLES
    table,   \* self._conversations, as a sequence, least recently used first
    now      \* self._clock()

storeVars == <<table, now>>

Entry == [cid : Ids, seen : Times]

Has(q, cid) == \E i \in 1..Len(q) : q[i].cid = cid

IdleFor(e, t) == t - e.seen > IdleSeconds

(***************************************************************************)
(* _expire(now): drop entries from the front until the front one is fresh  *)
(* and the table is within its bound.                                      *)
(***************************************************************************)
\* Mutant of MayStop: room for one entry too many.
MayStopOffByOne(q, t, i) ==
    \/ i = Len(q) + 1
    \/ ~IdleFor(q[i], t) /\ Len(q) - i <= MaxConversations

MayStop(q, t, i) ==
    \/ i = Len(q) + 1
    \/ ~IdleFor(q[i], t) /\ Len(q) - i + 1 <= MaxConversations

FirstKept(q, t) ==
    CHOOSE i \in 1..Len(q) + 1 :
        /\ MayStop(q, t, i)
        /\ \A j \in 1..Len(q) + 1 : MayStop(q, t, j) => i <= j

Expire(q, t) == SubSeq(q, FirstKept(q, t), Len(q))

(***************************************************************************)
(* q without the entry of cid (a dict has at most one), and q with that    *)
(* entry rewritten at the recent end: assignment, then move_to_end.        *)
(***************************************************************************)
Position(q, cid) == CHOOSE i \in 1..Len(q) : q[i].cid = cid

Without(q, cid) == IF Has(q, cid) THEN RemoveAt(q, Position(q, cid)) ELSE q

\* Mutant of MoveToEnd: the entry is rewritten where it is, as a dict does.
RewriteInPlace(q, cid, t) ==
    IF Has(q, cid)
      THEN [q EXCEPT ![Position(q, cid)].seen = t]
      ELSE Append(q, [cid |-> cid, seen |-> t])

MoveToEnd(q, cid, t) == Append(Without(q, cid), [cid |-> cid, seen |-> t])

-----------------------------------------------------------------------------

Init ==
    /\ table = <<>>
    /\ now = 0

\* Mutant of GetHit: get does not sweep.
GetHitUnswept(cid) ==
    /\ Has(table, cid)
    /\ table' = MoveToEnd(table, cid, now)
    /\ UNCHANGED now

\* get(cid) of a conversation that survives the sweep: it becomes the newest.
GetHit(cid) ==
    LET swept == Expire(table, now) IN
    /\ Has(swept, cid)
    /\ table' = MoveToEnd(swept, cid, now)
    /\ UNCHANGED now

\* get(cid) of an unknown or expired conversation: only the sweep happens.
GetMiss(cid) ==
    LET swept == Expire(table, now) IN
    /\ ~Has(swept, cid)
    /\ table' = swept
    /\ UNCHANGED now

\* save(conversation): insert or refresh at the recent end, then sweep.
Save(cid) ==
    /\ table' = Expire(MoveToEnd(table, cid, now), now)
    /\ UNCHANGED now

\* delete(cid): no sweep.
Delete(cid) ==
    /\ table' = Without(table, cid)
    /\ UNCHANGED now

Tick(t) ==
    /\ t > now
    /\ now' = t
    /\ UNCHANGED table

Next ==
    \/ \E cid \in Ids : GetHit(cid) \/ GetMiss(cid) \/ Save(cid) \/ Delete(cid)
    \/ \E t \in Times : Tick(t)

Spec == Init /\ [][Next]_storeVars

-----------------------------------------------------------------------------
(***************************************************************************)
(* Properties.                                                             *)
(***************************************************************************)

\* The table is a sequence of entries and the clock a reading.
TypeOK ==
    /\ table \in Seq(Entry)
    /\ now \in Times

\* A conversation has at most one entry, whatever get, save and delete did.
UniqueIds ==
    \A i, j \in 1..Len(table) : table[i].cid = table[j].cid => i = j

\* The table is ordered by last use and no entry was seen in the future.  This
\* is what lets _expire look at the front entry only.
OrderedBySeen ==
    /\ \A i, j \in 1..Len(table) : i <= j => table[i].seen <= table[j].seen
    /\ \A i \in 1..Len(table) : table[i].seen <= now

\* The class docstring: at most max_conversations conversations are kept.
Bounded == Len(table) <= MaxConversations

StoreInv == TypeOK /\ UniqueIds /\ OrderedBySeen /\ Bounded

\* The class docstring: conversations idle for idle_seconds expire.  A step
\* that uses a conversation leaves none in the table that has been idle for
\* too long, although _expire stops at the first fresh entry it meets.
NothingIdleAfterUse ==
    [][ (\E i \in 1..Len(table') : table'[i] \notin Range(table))
          => \A i \in 1..Len(table') : ~IdleFor(table'[i], now) ]_storeVars
=============================================================================
