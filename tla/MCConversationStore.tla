------------------------- MODULE MCConversationStore -------------------------
(***************************************************************************)
(* ConversationStore with a history of uses, which the program does not    *)
(* keep: lastUse is when a conversation was last used (Never before its    *)
(* first use and after a delete), usedSince the others used since then.    *)
(***************************************************************************)
EXTENDS ConversationStore, TLC

CONSTANT Never

VARIABLES lastUse, usedSince

mcVars == <<table, now, lastUse, usedSince>>

MCInit ==
    /\ Init
    /\ lastUse = [c \in Ids |-> Never]
    /\ usedSince = [c \in Ids |-> {}]

Use(cid) ==
    /\ lastUse' = [lastUse EXCEPT ![cid] = now]
    /\ usedSince' = [c \in Ids |-> IF c = cid THEN {} ELSE usedSince[c] \cup {cid}]

Unused(cid) ==
    /\ lastUse' = [lastUse EXCEPT ![cid] = Never]
    /\ UNCHANGED usedSince

MCNext ==
    \/ \E cid \in Ids : GetHit(cid) /\ Use(cid)
    \/ \E cid \in Ids : Save(cid) /\ Use(cid)
    \/ \E cid \in Ids : GetMiss(cid) /\ UNCHANGED <<lastUse, usedSince>>
    \/ \E cid \in Ids : Delete(cid) /\ Unused(cid)
    \/ \E t \in Times : Tick(t) /\ UNCHANGED <<lastUse, usedSince>>

MCSpec == MCInit /\ [][MCNext]_mcVars

\* A conversation is never lost early: one that was used within idle_seconds,
\* with fewer than max_conversations others used since, is still in the table
\* (least recently used dropped first, the class docstring).
NoEarlyLoss ==
    \A c \in Ids :
        /\ lastUse[c] # Never
        /\ now - lastUse[c] <= IdleSeconds
        /\ Cardinality(usedSince[c]) < MaxConversations
        => Has(table, c)

Symmetry == Permutations(Ids)
=============================================================================
