-------------------------- MODULE ChatTurns_proofs --------------------------
(***************************************************************************)
(* Proofs about ChatTurns, for every set of browsers, worker threads, ids  *)
(* and times, every history cap and every limit of the store.  TurnsInv is *)
(* the inductive invariant.  Beyond types it says who may hold a           *)
(* conversation's id (Issued), that a list is replaced only by a trim that *)
(* drops something and a message misses its list only after one            *)
(* (Truncated), and that a conversation deleted while nobody worked on it  *)
(* is out of every later turn's reach (ResetKept).  SideInv, relative to   *)
(* it, counts the keys of the side state.                                  *)
(***************************************************************************)
EXTENDS ChatTurns, DataLemmas, FiniteSetTheorems

\* What is proved of the store holds for the store the turns share.  The
\* history of uses that NoEarlyLoss speaks of is not needed here: any value does.
Proved == INSTANCE ConversationStore_proofs WITH Never <- 0, lastUse <- [c \in Ids |-> 0], usedSince <- [c \in Ids |-> {}]

Turn ==
    [pc : Labels \ {"none"}, by : Clients, cid : Ids \cup {NoId}, kind : {"reply", "fixed"}, list : Nat,
     excess : Int, visit : SUBSET Ids, gone : SUBSET Ids, size : Nat]

TurnTypes ==
    /\ Proved!StoreInv
    /\ issued \subseteq Ids
    /\ messages \in [Ids -> Seq(Message)]
    /\ listNo \in [Ids -> Nat] /\ dropped \in [Ids -> Nat] /\ said \in [Ids -> Nat]
    /\ terms \subseteq Ids /\ IsFiniteSet(terms) /\ lang \subseteq Ids /\ IsFiniteSet(lang)
    /\ turn \in [Threads -> Turn \cup {NoTurn}]
    /\ reset \in [pc : {"terms", "lang"}, cid : Ids, how : {"racing", "alone"}] \cup {NoReset}
    /\ known \in [Clients -> SUBSET Ids]
    /\ creator \in [Ids -> Clients \cup {NoId}]
    /\ wasReset \in [Ids -> {"no", "racing", "alone"}]

\* The conversations are those that were issued here; a turn past get_or_create
\* works on one that was created for its browser, and only such a browser
\* knows its id.
Issued ==
    /\ issued \cap Foreign = {}
    /\ \A c \in Ids : Store!Has(table, c) => c \in issued
    /\ \A c \in Ids \ issued : messages[c] = <<>> /\ said[c] = 0 /\ wasReset[c] = "no"
    /\ \A b \in Clients : \A c \in known[b] : c \in issued /\ creator[c] = b
    /\ \A t \in Threads : Active(t) =>
          \/ turn[t].cid \in issued /\ creator[turn[t].cid] = turn[t].by
          \/ turn[t].pc \in {"lookup", "create"} /\ turn[t].cid \in Foreign \cup {NoId}
    /\ reset.pc # "none" => reset.cid \in issued

Histories == HistoryBounded /\ OwnHistoryOnly

\* A list is replaced only by a trim that drops something, and a message may
\* miss the list only after that.
Truncated ==
    /\ \A c \in Ids :
          /\ Len(messages[c]) <= said[c]
          /\ dropped[c] > 0 <=> Len(messages[c]) < said[c]
          /\ listNo[c] > 0 => dropped[c] > 0
    /\ \A t \in Threads : Active(t) /\ turn[t].cid \in Ids =>
          /\ turn[t].pc \in {"user_append", "assistant_append"} => turn[t].list <= listNo[turn[t].cid]
          /\ turn[t].pc \in {"overflow", "trim"} =>
                /\ Len(messages[turn[t].cid]) >= MaxHistory
                /\ Len(messages[turn[t].cid]) > MaxHistory \/ dropped[turn[t].cid] > 0
          /\ turn[t].pc = "trim" => turn[t].excess >= 0 /\ (turn[t].excess > 0 \/ dropped[turn[t].cid] > 0)

AloneReset(c) == reset.pc # "none" /\ reset.cid = c /\ reset.how = "alone"

\* A conversation that was reset while nobody worked on it is out of the store,
\* so no turn gets past get_or_create with it.
ResetKept ==
    /\ \A c \in Ids : AloneReset(c) \/ wasReset[c] = "alone" =>
          /\ ~Store!Has(table, c)
          /\ \A t \in Threads : WorksOn(t, c) => turn[t].pc \in {"lookup", "create"}
    /\ \A c \in Ids : AloneReset(c) /\ reset.pc = "lang" => c \notin terms
    /\ \A c \in Ids : wasReset[c] = "alone" => c \notin terms \cup lang

TurnsInv == TurnTypes /\ Issued /\ Histories /\ Truncated /\ ResetKept

-----------------------------------------------------------------------------
(***************************************************************************)
(* The store's operations, as the turns use them.                          *)
(***************************************************************************)
LEMMA SameStore ==
    ASSUME NEW q, NEW c, NEW k
    PROVE  /\ Store!Has(q, c) <=> Proved!Has(q, c)
           /\ Store!Expire(q, k) = Proved!Expire(q, k)
           /\ Store!Without(q, c) = Proved!Without(q, c)
           /\ Store!MoveToEnd(q, c, k) = Proved!MoveToEnd(q, c, k)
<1>1. \A d : Store!Has(q, d) <=> Proved!Has(q, d)
    BY DEF Store!Has, Proved!Has
<1>2. Store!Expire(q, k) = Proved!Expire(q, k)
    BY DEF Store!Expire, Proved!Expire, Store!FirstKept, Proved!FirstKept, Store!MayStop, Proved!MayStop,
           Store!IdleFor, Proved!IdleFor
<1>3. Store!Without(q, c) = Proved!Without(q, c)
    BY <1>1 DEF Store!Without, Proved!Without, Store!Position, Proved!Position, Store!RemoveAt, Proved!RemoveAt
<1>4. Store!MoveToEnd(q, c, k) = Proved!MoveToEnd(q, c, k)
    BY <1>3 DEF Store!MoveToEnd, Proved!MoveToEnd
<1>5. QED
    BY <1>1, <1>2, <1>3, <1>4

LEMMA SameSteps ==
    ASSUME NEW c
    PROVE  /\ Store!Save(c) <=> Proved!Save(c)
           /\ Store!GetHit(c) <=> Proved!GetHit(c)
           /\ Store!GetMiss(c) <=> Proved!GetMiss(c)
           /\ Store!Delete(c) <=> Proved!Delete(c)
           /\ Store!Tick(c) <=> Proved!Tick(c)
BY SameStore DEF Store!Save, Proved!Save, Store!GetHit, Proved!GetHit, Store!GetMiss, Proved!GetMiss,
                 Store!Delete, Proved!Delete, Store!Tick, Proved!Tick

\* The assumption about the store's constants.
LEMMA StoreConstants == Proved!StoreAssumption
BY TurnsAssumption DEF Proved!StoreAssumption

LEMMA StoreStutters == ASSUME Proved!StoreInv, UNCHANGED store PROVE Proved!StoreInv'
BY Proved!StoreNext, StoreConstants DEF store, Proved!storeVars

LEMMA StoreTicks == ASSUME Proved!StoreInv, NEW k \in Times, Store!Tick(k) PROVE Proved!StoreInv' /\ table' = table
<1>1. Proved!Next
    BY SameSteps DEF Proved!Next
<1>2. QED
    BY <1>1, Proved!StoreNext, StoreConstants DEF Store!Tick

\* An operation on c adds no other conversation; a get adds none, and deletes
\* leave c out.
LEMMA StoreEffects ==
    ASSUME Proved!StoreInv, NEW c \in Ids,
           Store!Save(c) \/ Store!GetHit(c) \/ Store!GetMiss(c) \/ Store!Delete(c)
    PROVE  /\ Proved!StoreInv'
           /\ \A d \in Ids : Store!Has(table', d) => Store!Has(table, d) \/ d = c
           /\ Store!GetHit(c) => Store!Has(table, c)
           /\ Store!GetHit(c) \/ Store!GetMiss(c) \/ Store!Delete(c) =>
                 \A d \in Ids : Store!Has(table', d) => Store!Has(table, d)
           /\ Store!Delete(c) => ~Store!Has(table', c)
<1> USE StoreConstants
<1>1. Proved!Next
    BY SameSteps DEF Proved!Next
<1>2. Proved!StoreInv'
    BY <1>1, Proved!StoreNext
<1>3. /\ table \in Seq(Proved!Entry) /\ now \in Times
      /\ Proved!SortedBy(table, now) /\ Proved!Distinct(table)
    BY Proved!StoreInvParts DEF Proved!TypeOK
<1>4. ASSUME NEW q \in Seq(Proved!Entry), NEW d, Proved!Has(Proved!Expire(q, now), d) PROVE Proved!Has(q, d)
    <2>1. PICK k \in 1..Len(q) + 1 :
              /\ Len(Proved!Expire(q, now)) = Len(q) - k + 1
              /\ \A i \in 1..Len(Proved!Expire(q, now)) : Proved!Expire(q, now)[i] = q[k + i - 1]
        BY <1>3, Proved!ExpireProperties
    <2>2. PICK i \in 1..Len(Proved!Expire(q, now)) : Proved!Expire(q, now)[i].cid = d
        BY <1>4 DEF Proved!Has
    <2>3. Len(q) \in Nat
        BY LenProperties
    <2>4. k + i - 1 \in 1..Len(q)
        BY <2>1, <2>2, <2>3
    <2>5. QED
        BY <2>1, <2>2, <2>4 DEF Proved!Has
<1>5. ASSUME NEW q \in Seq(Proved!Entry), Proved!SortedBy(q, now), Proved!Distinct(q),
             NEW d, Proved!Has(Proved!MoveToEnd(q, c, now), d)
      PROVE  Proved!Has(q, d) \/ d = c
    <2> DEFINE m == Proved!MoveToEnd(q, c, now)
    <2>1. \A i \in 1..Len(m) : (\E j \in 1..Len(q) : m[i] = q[j]) \/ m[i] = [cid |-> c, seen |-> now]
        BY <1>3, <1>5, Proved!MoveToEndProperties
    <2> HIDE DEF m
    <2>2. QED
        BY <1>5, <2>1 DEF Proved!Has, m
<1>6. /\ Proved!Expire(table, now) \in Seq(Proved!Entry)
      /\ Proved!SortedBy(Proved!Expire(table, now), now) /\ Proved!Distinct(Proved!Expire(table, now))
    BY Proved!SweepKeepsInv
<1>7. ASSUME Store!Save(c) PROVE \A d \in Ids : Proved!Has(table', d) => Proved!Has(table, d) \/ d = c
    <2>1. table' = Proved!Expire(Proved!MoveToEnd(table, c, now), now)
        BY <1>7, SameSteps DEF Proved!Save
    <2>2. Proved!MoveToEnd(table, c, now) \in Seq(Proved!Entry)
        BY <1>3, Proved!MoveToEndProperties
    <2>3. QED
        BY <1>3, <1>4, <1>5, <2>1, <2>2
<1>8. ASSUME Store!GetHit(c)
      PROVE  Proved!Has(table, c) /\ \A d \in Ids : Proved!Has(table', d) => Proved!Has(table, d)
    <2>1. Proved!Has(Proved!Expire(table, now), c) /\ table' = Proved!MoveToEnd(Proved!Expire(table, now), c, now)
        BY <1>8, SameSteps DEF Proved!GetHit
    <2>2. QED
        BY <1>3, <1>4, <1>5, <1>6, <2>1
<1>9. ASSUME Store!GetMiss(c) PROVE \A d \in Ids : Proved!Has(table', d) => Proved!Has(table, d)
    <2>1. table' = Proved!Expire(table, now)
        BY <1>9, SameSteps DEF Proved!GetMiss
    <2>2. QED
        BY <1>3, <1>4, <2>1
<1>10. ASSUME Store!Delete(c)
       PROVE  ~Proved!Has(table', c) /\ \A d \in Ids : Proved!Has(table', d) => Proved!Has(table, d)
    <2>1. table' = Proved!Without(table, c)
        BY <1>10, SameSteps DEF Proved!Delete
    <2>2. \A i \in 1..Len(table') : table'[i].cid # c /\ \E j \in 1..Len(table) : table'[i] = table[j]
        BY <1>3, <2>1, Proved!WithoutProperties
    <2>3. QED
        BY <2>2 DEF Proved!Has
<1>11. QED
    BY <1>2, <1>7, <1>8, <1>9, <1>10, SameStore

LEMMA GetsAdd ==
    ASSUME Proved!StoreInv, NEW c \in Ids, Store!GetHit(c) \/ Store!GetMiss(c)
    PROVE  \A d \in Ids : Store!Has(table', d) => Store!Has(table, d)
BY StoreEffects

-----------------------------------------------------------------------------
(***************************************************************************)
(* Every step keeps the invariant.                                         *)
(***************************************************************************)
LEMMA ActiveTurn ==
    ASSUME TurnTypes, NEW t \in Threads, Active(t)
    PROVE  turn[t] \in Turn
BY DEF TurnTypes, Active, NoTurn

\* The last messages are some of the messages, at most n of them.
LEMMA LastProperties ==
    ASSUME NEW s \in Seq(Message), NEW n \in Nat
    PROVE  /\ LastMessages(s, n) \in Seq(Message)
           /\ Len(LastMessages(s, n)) = IF Len(s) <= n THEN Len(s) ELSE n
           /\ \A i \in 1..Len(LastMessages(s, n)) : \E j \in 1..Len(s) : LastMessages(s, n)[i] = s[j]
<1>1. Len(s) \in Nat
    BY LenProperties
<1>2. CASE Len(s) <= n
    <2> DEFINE m == Len(s)
    <2>1. LastMessages(s, n) = SubSeq(s, Len(s) - m + 1, Len(s))
        BY <1>1, <1>2 DEF LastMessages
    <2>2. /\ SubSeq(s, Len(s) - m + 1, Len(s)) \in Seq(Message)
          /\ Len(SubSeq(s, Len(s) - m + 1, Len(s))) = m
          /\ \A i \in 1..m : SubSeq(s, Len(s) - m + 1, Len(s))[i] = s[Len(s) - m + i]
        <3> HIDE DEF m
        <3>1. m \in Nat /\ m <= Len(s)
            BY <1>1 DEF m
        <3>2. QED
            BY <3>1, SuffixProperties
    <2>3. \A i \in 1..m : Len(s) - m + i \in 1..Len(s)
        BY <1>1
    <2>4. QED
        BY <1>2, <2>1, <2>2, <2>3
<1>3. CASE Len(s) > n
    <2>1. LastMessages(s, n) = SubSeq(s, Len(s) - n + 1, Len(s))
        <3>1. ~(Len(s) <= n)
            BY <1>1, <1>3
        <3>2. QED
            BY <3>1 DEF LastMessages
    <2>2. n <= Len(s)
        BY <1>1, <1>3
    <2>3. /\ SubSeq(s, Len(s) - n + 1, Len(s)) \in Seq(Message)
          /\ Len(SubSeq(s, Len(s) - n + 1, Len(s))) = n
          /\ \A i \in 1..n : SubSeq(s, Len(s) - n + 1, Len(s))[i] = s[Len(s) - n + i]
        BY <2>2, SuffixProperties
    <2>4. \A i \in 1..n : Len(s) - n + i \in 1..Len(s)
        BY <1>1, <1>3
    <2>5. ~(Len(s) <= n)
        BY <1>1, <1>3
    <2>6. QED
        BY <2>1, <2>3, <2>4, <2>5
<1>4. QED
    BY <1>1, <1>2, <1>3

LEMMA TurnSteps ==
    ASSUME TurnsInv, NEW t \in Threads, TurnStep(t)
    PROVE  TurnsInv'
<1> USE TurnsAssumption DEF TurnsInv
<1>1. /\ \A u \in Threads : Active(u) => turn[u] \in Turn
      /\ NoId \notin issued /\ issued \subseteq Ids /\ MaxHistory \in Nat
      /\ \A c \in Ids : listNo[c] \in Nat /\ dropped[c] \in Nat /\ said[c] \in Nat
                        /\ messages[c] \in Seq(Message) /\ Len(messages[c]) \in Nat
    BY ActiveTurn, LenProperties DEF TurnTypes
<1>2. CASE Continue(t)
    <2>1. Active(t) /\ turn[t].pc = "lookup" /\ turn[t] \in Turn
        BY <1>1, <1>2 DEF Continue, Goto, Active
    <2>2. turn[t].cid \in Ids \cup {NoId}
        BY <2>1 DEF Turn
    <2>3. /\ \A u \in Threads \ {t} : turn'[u] = turn[u]
          /\ UNCHANGED <<messages, listNo, dropped, said, terms, lang, creator, wasReset, issued, reset, known>>
          /\ Store!Has(table, turn[t].cid) /\ turn[t].cid \in Ids
          /\ \A c \in Ids : Store!Has(table', c) => Store!Has(table, c)
          /\ turn'[t].pc = "answer"
          /\ turn'[t].by = turn[t].by /\ turn'[t].cid = turn[t].cid
          /\ Active(t)'
        BY StoreEffects, <1>2, <2>1, <2>2
           DEF Continue, Goto, store, objects, side, history, arrivals, TurnTypes, Turn, Active, NoTurn
    <2> USE <1>1, <2>1, <2>2, <2>3 DEF Active
    <2>4. TurnTypes'
        <3>1. turn'[t] \in Turn \cup {NoTurn}
            BY <1>2 DEF Continue, Goto, TurnTypes, Turn, Labels
        <3>2. turn' \in [Threads -> Turn \cup {NoTurn}]
            BY <1>2, <3>1 DEF Continue, Goto, TurnTypes
        <3>3. Proved!StoreInv'
            BY <1>2, StoreEffects DEF Continue, Goto, store, objects, side, history, arrivals, TurnTypes
        <3>4. QED
            BY <3>2, <3>3 DEF TurnTypes
    <2>5. Issued'
        BY DEF Issued
    <2>6. Histories'
        BY DEF Histories, HistoryBounded, OwnHistoryOnly, Appending, WorksOn
    <2>7. Truncated'
        BY DEF Truncated
    <2>8. ResetKept'
        BY DEF ResetKept, AloneReset, WorksOn
    <2>9. QED
        BY <2>4, <2>5, <2>6, <2>7, <2>8
<1>3. CASE LookupFails(t)
    <2>1. Active(t) /\ turn[t].pc = "lookup" /\ turn[t] \in Turn
        BY <1>1, <1>3 DEF LookupFails, Goto, Active
    <2>2. turn[t].cid \in Ids \cup {NoId}
        BY <2>1 DEF Turn
    <2>3. /\ \A u \in Threads \ {t} : turn'[u] = turn[u]
          /\ UNCHANGED <<messages, listNo, dropped, said, terms, lang, creator, wasReset, issued, reset, known>>
          /\ \A c \in Ids : Store!Has(table', c) => Store!Has(table, c)
          /\ turn'[t].pc = "create" /\ turn'[t].by = turn[t].by /\ turn'[t].cid = turn[t].cid
          /\ Active(t)'
        <3>1. \A c \in Ids : Store!Has(table', c) => Store!Has(table, c)
            <4>1. CASE turn[t].cid \in Ids
                <5>1. Store!GetMiss(turn[t].cid)
                    BY <1>3, <4>1 DEF LookupFails
                <5>2. QED
                    BY <4>1, <5>1, GetsAdd DEF TurnTypes
            <4>2. CASE turn[t].cid \notin Ids
                <5>1. table' = table
                    BY <1>3, <4>2 DEF LookupFails, store
                <5>2. QED
                    BY <5>1
            <4>3. QED
                BY <4>1, <4>2
        <3>2. QED
            BY <1>3, <2>1, <3>1 DEF LookupFails, Goto, objects, side, history, TurnTypes, Turn, Active
    <2> USE <1>1, <2>1, <2>2, <2>3 DEF Active
    <2>4. TurnTypes'
        <3>1. turn'[t] \in Turn \cup {NoTurn}
            BY <1>3, ZenonT(40) DEF LookupFails, Goto, TurnTypes, Turn, Labels
        <3>2. turn' \in [Threads -> Turn \cup {NoTurn}]
            BY <1>3, <3>1 DEF LookupFails, Goto, TurnTypes
        <3>3. Proved!StoreInv'
            BY <1>3, StoreEffects, StoreStutters
               DEF LookupFails, Goto, store, objects, side, history, arrivals, TurnTypes
        <3>4. QED
            BY <3>2, <3>3 DEF TurnTypes
    <2>5. Issued'
        BY DEF Issued
    <2>6. Histories'
        BY DEF Histories, HistoryBounded, OwnHistoryOnly, Appending, WorksOn
    <2>7. Truncated'
        BY DEF Truncated
    <2>8. ResetKept'
        BY DEF ResetKept, AloneReset, WorksOn
    <2>9. QED
        BY <2>4, <2>5, <2>6, <2>7, <2>8
<1>4. CASE Create(t)
    <2>1. Active(t) /\ turn[t].pc = "create" /\ turn[t] \in Turn
        BY <1>1, <1>4 DEF Create, Active
    <2>2. turn[t].cid \in Ids \cup {NoId}
        BY <2>1 DEF Turn
    <2> PICK new \in Ids \ (issued \cup Foreign) :
            /\ issued' = issued \cup {new}
            /\ creator' = [creator EXCEPT ![new] = IF new \in issued THEN @ ELSE turn[t].by]
            /\ turn' = [turn EXCEPT ![t].cid = new, ![t].pc = "answer"]
            /\ Store!Save(new)
        BY <1>4 DEF Create, NewId
    <2>3. /\ \A u \in Threads \ {t} : turn'[u] = turn[u]
          /\ UNCHANGED <<messages, listNo, dropped, said, terms, lang, wasReset, reset, known>>
          /\ issued' = issued \cup {new} /\ new \in Ids \ (issued \cup Foreign)
          /\ \A c \in Ids : creator'[c] = IF c = new THEN turn[t].by ELSE creator[c]
          /\ \A c \in Ids : Store!Has(table', c) => Store!Has(table, c) \/ c = new
          /\ turn'[t].pc = "answer" /\ turn'[t].by = turn[t].by /\ turn'[t].cid = new
          /\ Active(t)'
        BY StoreEffects, <1>4, <2>1, <2>2
           DEF Create, store, objects, side, history, arrivals, TurnTypes, Turn, Active
    <2> USE <1>1, <2>1, <2>2, <2>3 DEF Active
    <2>4. TurnTypes'
        <3>1. turn'[t] \in Turn
            BY ZenonT(40) DEF TurnTypes, Turn, Labels
        <3>2. turn' \in [Threads -> Turn \cup {NoTurn}]
            BY <3>1 DEF TurnTypes
        <3>3. Proved!StoreInv'
            BY StoreEffects DEF TurnTypes
        <3>4. creator' \in [Ids -> Clients \cup {NoId}]
            BY DEF TurnTypes, Turn
        <3>5. QED
            BY <3>2, <3>3, <3>4 DEF TurnTypes
    <2>5. Issued'
        <3>1. Foreign \cap issued' = {} /\ \A c \in Ids : Store!Has(table', c) => c \in issued'
            BY DEF Issued
        <3>2. \A c \in Ids \ issued' : messages'[c] = <<>> /\ said'[c] = 0 /\ wasReset'[c] = "no"
            BY DEF Issued
        <3>3. \A b \in Clients : \A c \in known'[b] : c \in issued' /\ creator'[c] = b
            BY DEF Issued, TurnTypes
        <3>4. ASSUME NEW u \in Threads, Active(u)'
              PROVE  \/ turn'[u].cid \in issued' /\ creator'[turn'[u].cid] = turn'[u].by
                     \/ turn'[u].pc \in {"lookup", "create"} /\ turn'[u].cid \in Foreign \cup {NoId}
            <4>1. CASE u = t
                BY <4>1
            <4>2. CASE u # t
                <5>1. Active(u) /\ turn'[u] = turn[u]
                    BY <3>4, <4>2
                <5>2. CASE turn[u].cid \in issued /\ creator[turn[u].cid] = turn[u].by
                    <6>1. turn[u].cid # new /\ turn[u].cid \in Ids
                        BY <5>2
                    <6>2. creator'[turn[u].cid] = creator[turn[u].cid]
                        BY <6>1
                    <6>3. QED
                        BY <5>1, <5>2, <6>2
                <5>3. CASE turn[u].pc \in {"lookup", "create"} /\ turn[u].cid \in Foreign \cup {NoId}
                    BY <5>1, <5>3
                <5>4. QED
                    BY <5>1, <5>2, <5>3 DEF Issued
            <4>3. QED
                BY <4>1, <4>2
        <3>5. reset'.pc # "none" => reset'.cid \in issued'
            BY DEF Issued
        <3>6. QED
            BY <3>1, <3>2, <3>3, <3>4, <3>5, ZenonT(40) DEF Issued
    <2>6. Histories'
        <3>a. Len(messages[new]) = 0
            BY EmptySeq DEF Issued
        <3>1. HistoryBounded'
            <4> SUFFICES ASSUME NEW c \in Ids, c # new, ~Appending(c)' PROVE Len(messages[c]) <= MaxHistory
                BY <3>a DEF HistoryBounded
            <4>1. ~Appending(c)
                <5> SUFFICES ASSUME NEW u \in Threads, WorksOn(u, c),
                                    turn[u].pc \in {"assistant", "assistant_append", "measure", "overflow", "trim"}
                             PROVE  FALSE
                    BY DEF Appending
                <5>1. u # t
                    OBVIOUS
                <5>2. QED
                    BY <5>1 DEF Appending, WorksOn
            <4>2. QED
                BY <4>1 DEF Histories, HistoryBounded
        <3>2. OwnHistoryOnly'
            <4>1. 1..Len(messages[new]) = {}
                BY <3>a
            <4>2. QED
                BY <4>1 DEF Histories, OwnHistoryOnly
        <3>3. QED
            BY <3>1, <3>2 DEF Histories
    <2>7. Truncated'
        BY DEF Truncated
    <2>8. ResetKept'
        <3>1. wasReset[new] = "no" /\ ~AloneReset(new)
            BY DEF Issued, AloneReset
        <3>2. ASSUME NEW c \in Ids, AloneReset(c)' \/ wasReset'[c] = "alone"
              PROVE  /\ ~Store!Has(table', c)
                     /\ \A u \in Threads : WorksOn(u, c)' => turn'[u].pc \in {"lookup", "create"}
            <4>1. c # new /\ (AloneReset(c) \/ wasReset[c] = "alone")
                BY <3>1, <3>2 DEF AloneReset
            <4>2. ASSUME NEW u \in Threads, WorksOn(u, c)' PROVE turn'[u].pc \in {"lookup", "create"}
                <5>1. u # t
                    BY <4>1, <4>2 DEF WorksOn
                <5>2. QED
                    BY <4>1, <4>2, <5>1 DEF ResetKept, WorksOn
            <4>3. QED
                BY <4>1, <4>2 DEF ResetKept
        <3>3. QED
            BY <3>2 DEF ResetKept, AloneReset
    <2>9. QED
        BY <2>4, <2>5, <2>6, <2>7, <2>8
<1>5. CASE Answer(t)
    <2>1. Active(t) /\ turn[t].pc = "answer" /\ turn[t] \in Turn
        BY <1>1, <1>5 DEF Answer, Goto, Active
    <2>2. turn[t].cid \in issued /\ turn[t].cid \in Ids /\ creator[turn[t].cid] = turn[t].by
        BY <1>1, <2>1 DEF Issued
    <2>3. /\ \A u \in Threads \ {t} : turn'[u] = turn[u]
          /\ UNCHANGED <<table, messages, listNo, dropped, said, terms, lang, creator, wasReset, issued, reset, known>>
          /\ turn'[t].pc \in {"user", "respond"}
          /\ turn'[t].by = turn[t].by /\ turn'[t].cid = turn[t].cid
          /\ Active(t)'
        BY <1>5, <2>1, <2>2
           DEF Answer, Goto, store, objects, side, history, arrivals, TurnTypes, Turn, Active, NoTurn
    <2> USE <1>1, <2>1, <2>2, <2>3 DEF Active
    <2>4. TurnTypes'
        <3>1. turn'[t] \in Turn
            <4>1. CASE \E k \in {"reply", "fixed"} : turn' = [turn EXCEPT ![t].kind = k, ![t].pc = "user"]
                <5>1. PICK k \in {"reply", "fixed"} : turn' = [turn EXCEPT ![t].kind = k, ![t].pc = "user"]
                    BY <4>1
                <5>2. turn'[t] = [turn[t] EXCEPT !.kind = k, !.pc = "user"]
                    BY <5>1 DEF TurnTypes
                <5>3. QED
                    BY <5>2 DEF Turn, Labels
            <4>2. CASE Goto(t, "respond")
                BY <4>2 DEF Goto, TurnTypes, Turn, Labels
            <4>3. QED
                BY <1>5, <4>1, <4>2 DEF Answer
        <3>2. turn' \in [Threads -> Turn \cup {NoTurn}]
            BY <1>5, <3>1 DEF Answer, Goto, TurnTypes
        <3>3. Proved!StoreInv'
            BY <1>5, StoreStutters DEF Answer, TurnTypes
        <3>4. QED
            BY <1>5, <3>2, <3>3 DEF TurnTypes
    <2>5. Issued'
        BY DEF Issued
    <2>6. Histories'
        BY DEF Histories, HistoryBounded, OwnHistoryOnly, Appending, WorksOn
    <2>7. Truncated'
        BY DEF Truncated
    <2>8. ResetKept'
        BY DEF ResetKept, AloneReset, WorksOn
    <2>9. QED
        BY <2>4, <2>5, <2>6, <2>7, <2>8
<1>6. CASE FetchForUser(t)
    <2>1. Active(t) /\ turn[t].pc = "user" /\ turn[t] \in Turn
        BY <1>1, <1>6 DEF FetchForUser, FetchList, Active
    <2>2. turn[t].cid \in issued /\ turn[t].cid \in Ids /\ creator[turn[t].cid] = turn[t].by
        BY <1>1, <2>1 DEF Issued
    <2>3. /\ \A u \in Threads \ {t} : turn'[u] = turn[u]
          /\ UNCHANGED <<table, messages, listNo, dropped, said, terms, lang, creator, wasReset, issued, reset, known>>
          /\ turn'[t].list = listNo[turn[t].cid]
          /\ turn'[t].pc = "user_append"
          /\ turn'[t].by = turn[t].by /\ turn'[t].cid = turn[t].cid
          /\ Active(t)'
        BY <1>6, <2>1, <2>2
           DEF FetchForUser, FetchList, store, objects, side, history, arrivals, TurnTypes, Turn, Active,
               NoTurn
    <2> USE <1>1, <2>1, <2>2, <2>3 DEF Active
    <2>4. TurnTypes'
        <3>1. turn'[t] \in Turn \cup {NoTurn}
            BY <1>6 DEF FetchForUser, FetchList, TurnTypes, Turn, Labels
        <3>2. turn' \in [Threads -> Turn \cup {NoTurn}]
            BY <1>6, <3>1 DEF FetchForUser, FetchList, TurnTypes
        <3>3. Proved!StoreInv'
            BY <1>6, StoreStutters
               DEF FetchForUser, FetchList, store, objects, side, history, arrivals, TurnTypes
        <3>4. QED
            BY <3>2, <3>3 DEF TurnTypes
    <2>5. Issued'
        BY DEF Issued
    <2>6. Histories'
        BY DEF Histories, HistoryBounded, OwnHistoryOnly, Appending, WorksOn
    <2>7. Truncated'
        BY DEF Truncated
    <2>8. ResetKept'
        BY DEF ResetKept, AloneReset, WorksOn
    <2>9. QED
        BY <2>4, <2>5, <2>6, <2>7, <2>8
<1>7. CASE FetchForAssistant(t)
    <2>1. Active(t) /\ turn[t].pc = "assistant" /\ turn[t] \in Turn
        BY <1>1, <1>7 DEF FetchForAssistant, FetchList, Active
    <2>2. turn[t].cid \in issued /\ turn[t].cid \in Ids /\ creator[turn[t].cid] = turn[t].by
        BY <1>1, <2>1 DEF Issued
    <2>3. /\ \A u \in Threads \ {t} : turn'[u] = turn[u]
          /\ UNCHANGED <<table, messages, listNo, dropped, said, terms, lang, creator, wasReset, issued, reset, known>>
          /\ turn'[t].list = listNo[turn[t].cid]
          /\ turn'[t].pc = "assistant_append"
          /\ turn'[t].by = turn[t].by /\ turn'[t].cid = turn[t].cid
          /\ Active(t)'
        BY <1>7, <2>1, <2>2
           DEF FetchForAssistant, FetchList, store, objects, side, history, arrivals, TurnTypes, Turn,
               Active, NoTurn
    <2> USE <1>1, <2>1, <2>2, <2>3 DEF Active
    <2>4. TurnTypes'
        <3>1. turn'[t] \in Turn \cup {NoTurn}
            BY <1>7 DEF FetchForAssistant, FetchList, TurnTypes, Turn, Labels
        <3>2. turn' \in [Threads -> Turn \cup {NoTurn}]
            BY <1>7, <3>1 DEF FetchForAssistant, FetchList, TurnTypes
        <3>3. Proved!StoreInv'
            BY <1>7, StoreStutters
               DEF FetchForAssistant, FetchList, store, objects, side, history, arrivals, TurnTypes
        <3>4. QED
            BY <3>2, <3>3 DEF TurnTypes
    <2>5. Issued'
        BY DEF Issued
    <2>6. Histories'
        BY DEF Histories, HistoryBounded, OwnHistoryOnly, Appending, WorksOn
    <2>7. Truncated'
        BY DEF Truncated
    <2>8. ResetKept'
        BY DEF ResetKept, AloneReset, WorksOn
    <2>9. QED
        BY <2>4, <2>5, <2>6, <2>7, <2>8
<1>8. CASE AppendUser(t)
    <2>1. Active(t) /\ turn[t].pc = "user_append" /\ turn[t] \in Turn
        BY <1>1, <1>8 DEF AppendUser, AppendTo, Goto, Active
    <2>2. turn[t].cid \in issued /\ turn[t].cid \in Ids /\ creator[turn[t].cid] = turn[t].by
        BY <1>1, <2>1 DEF Issued
    <2> DEFINE c == turn[t].cid
               new == [role |-> IF turn[t].pc = "user_append" THEN "user" ELSE "assistant", by |-> turn[t].by]
    <2>a. /\ messages' = IF turn[t].list = listNo[c] THEN [messages EXCEPT ![c] = Append(@, new)] ELSE messages
          /\ said' = [said EXCEPT ![c] = @ + 1]
          /\ new \in Message
          /\ turn[t].list \in Nat
        BY <1>8, <2>1 DEF AppendUser, AppendTo, Goto, store, objects, side, history, arrivals, Turn, Message
    <2>b. /\ Append(messages[c], new) \in Seq(Message)
          /\ Len(Append(messages[c], new)) = Len(messages[c]) + 1
          /\ \A i \in 1..Len(messages[c]) : Append(messages[c], new)[i] = messages[c][i]
          /\ Append(messages[c], new)[Len(messages[c]) + 1] = new
        <3> HIDE DEF new, c
        <3>1. messages[c] \in Seq(Message)
            BY <1>1, <2>2 DEF c
        <3>2. QED
            BY <2>a, <3>1, AppendProperties
    <2>3. /\ \A u \in Threads \ {t} : turn'[u] = turn[u]
          /\ UNCHANGED <<table, listNo, dropped, terms, lang, creator, wasReset, issued, reset, known>>
          /\ \A d \in Ids \ {turn[t].cid} : messages'[d] = messages[d] /\ said'[d] = said[d]
          /\ said'[turn[t].cid] = said[turn[t].cid] + 1
          /\ \/ /\ turn[t].list # listNo[turn[t].cid] /\ messages'[turn[t].cid] = messages[turn[t].cid]
             \/ /\ Len(messages'[turn[t].cid]) = Len(messages[turn[t].cid]) + 1
                /\ \A i \in 1..Len(messages'[turn[t].cid]) :
                      \/ i \in 1..Len(messages[turn[t].cid]) /\ messages'[turn[t].cid][i] = messages[turn[t].cid][i]
                      \/ messages'[turn[t].cid][i].by = turn[t].by
          /\ turn'[t].pc = (IF turn[t].pc = "user_append" THEN "assistant" ELSE "measure")
          /\ turn'[t].by = turn[t].by /\ turn'[t].cid = turn[t].cid
          /\ Active(t)' /\ turn[t].list \in Nat
        <3>1. /\ \A u \in Threads \ {t} : turn'[u] = turn[u]
              /\ UNCHANGED <<table, listNo, dropped, terms, lang, creator, wasReset, issued, reset, known>>
              /\ turn'[t].pc = (IF turn[t].pc = "user_append" THEN "assistant" ELSE "measure")
              /\ turn'[t].by = turn[t].by /\ turn'[t].cid = turn[t].cid
              /\ Active(t)'
            BY <1>8, <2>1, <2>2
               DEF AppendUser, AppendTo, Goto, store, objects, side, history, arrivals, TurnTypes, Turn,
                   Active
        <3>2. \A d \in Ids \ {c} : messages'[d] = messages[d] /\ said'[d] = said[d]
            BY <2>2, <2>a DEF TurnTypes
        <3>3. said'[c] = said[c] + 1
            BY <2>2, <2>a DEF TurnTypes
        <3>4. CASE turn[t].list # listNo[c]
            BY <2>a, <3>1, <3>2, <3>3, <3>4
        <3>5. CASE turn[t].list = listNo[c]
            <4>1. messages'[c] = Append(messages[c], new)
                BY <2>2, <2>a, <3>5 DEF TurnTypes
            <4>2. new.by = turn[t].by
                OBVIOUS
            <4> HIDE DEF new, c
            <4>3. \A i \in 1..Len(messages'[c]) : i \in 1..Len(messages[c]) \/ i = Len(messages[c]) + 1
                BY <1>1, <2>2, <2>b, <4>1 DEF c
            <4>4. /\ Len(messages'[c]) = Len(messages[c]) + 1
                  /\ \A i \in 1..Len(messages'[c]) :
                        \/ i \in 1..Len(messages[c]) /\ messages'[c][i] = messages[c][i]
                        \/ messages'[c][i].by = turn[t].by
                BY <2>b, <4>1, <4>2, <4>3
            <4>5. QED
                BY <2>a, <3>1, <3>2, <3>3, <4>4 DEF c
        <3>6. QED
            BY <3>4, <3>5
    <2> HIDE DEF c, new
    <2> USE <1>1, <2>1, <2>2, <2>3 DEF Active
    <2>4. TurnTypes'
        <3>1. turn'[t] \in Turn
            BY <1>8
               DEF AppendUser, AppendTo, Goto, store, objects, side, history, arrivals, TurnTypes, Turn,
                   Labels
        <3>2. turn' \in [Threads -> Turn \cup {NoTurn}]
            BY <1>8, <3>1 DEF AppendUser, AppendTo, Goto, store, objects, side, history, arrivals, TurnTypes
        <3>3. Proved!StoreInv'
            BY <1>8, StoreStutters
               DEF AppendUser, AppendTo, Goto, store, objects, side, history, arrivals, TurnTypes
        <3>4. messages' \in [Ids -> Seq(Message)] /\ said' \in [Ids -> Nat]
            BY <2>a, <2>b DEF TurnTypes, c
        <3>5. QED
            BY <3>2, <3>3, <3>4 DEF TurnTypes
    <2>5. Issued'
        BY DEF Issued
    <2>6. Histories'
        <3>1. OwnHistoryOnly'
            <4> SUFFICES ASSUME NEW d \in Ids, NEW i \in 1..Len(messages'[d]) PROVE messages'[d][i].by = creator[d]
                BY DEF OwnHistoryOnly
            <4>1. CASE d = turn[t].cid
                BY <4>1, SMTT(30) DEF Histories, OwnHistoryOnly
            <4>2. CASE d # turn[t].cid
                BY <4>2 DEF Histories, OwnHistoryOnly
            <4>3. QED
                BY <4>1, <4>2
        <3>2. HistoryBounded'
            <4> SUFFICES ASSUME NEW d \in Ids, ~Appending(d)' PROVE Len(messages'[d]) <= MaxHistory
                BY DEF HistoryBounded
            <4>1. CASE d = turn[t].cid
                BY <4>1 DEF Appending, WorksOn
            <4>2. CASE d # turn[t].cid
                <5>1. ~Appending(d)
                    BY <4>2 DEF Appending, WorksOn
                <5>2. QED
                    BY <4>2, <5>1 DEF Histories, HistoryBounded
            <4>3. QED
                BY <4>1, <4>2
        <3>3. QED
            BY <3>1, <3>2 DEF Histories
    <2>7. Truncated'
        <3>1. turn[t].list # listNo[turn[t].cid] => dropped[turn[t].cid] > 0
            BY DEF Truncated
        <3>2. ASSUME NEW d \in Ids
              PROVE  /\ Len(messages'[d]) <= said'[d] /\ Len(messages'[d]) >= Len(messages[d])
                     /\ dropped'[d] > 0 <=> Len(messages'[d]) < said'[d]
                     /\ listNo'[d] > 0 => dropped'[d] > 0
            <4>1. CASE d = turn[t].cid
                BY <3>1, <4>1 DEF Truncated
            <4>2. CASE d # turn[t].cid
                BY <4>2 DEF Truncated
            <4>3. QED
                BY <4>1, <4>2
        <3>3. ASSUME NEW u \in Threads, Active(u)', turn'[u].cid \in Ids
              PROVE  /\ turn'[u].pc \in {"user_append", "assistant_append"} => turn'[u].list <= listNo'[turn'[u].cid]
                     /\ turn'[u].pc \in {"overflow", "trim"} =>
                           /\ Len(messages'[turn'[u].cid]) >= MaxHistory
                           /\ Len(messages'[turn'[u].cid]) > MaxHistory \/ dropped'[turn'[u].cid] > 0
                     /\ turn'[u].pc = "trim" =>
                           turn'[u].excess >= 0 /\ (turn'[u].excess > 0 \/ dropped'[turn'[u].cid] > 0)
            <4>1. CASE u = t
                BY <4>1
            <4>2. CASE u # t
                <5>1. Len(messages'[turn[u].cid]) >= Len(messages[turn[u].cid]) /\ Len(messages'[turn[u].cid]) \in Nat
                    BY <3>2, <3>3, <4>2
                <5>2. QED
                    BY <3>3, <4>2, <5>1 DEF Truncated
            <4>3. QED
                BY <4>1, <4>2
        <3>4. QED
            BY <3>2, <3>3 DEF Truncated
    <2>8. ResetKept'
        BY DEF ResetKept, AloneReset, WorksOn
    <2>9. QED
        BY <2>4, <2>5, <2>6, <2>7, <2>8
<1>9. CASE AppendAssistant(t)
    <2>1. Active(t) /\ turn[t].pc = "assistant_append" /\ turn[t] \in Turn
        BY <1>1, <1>9 DEF AppendAssistant, AppendTo, Goto, Active
    <2>2. turn[t].cid \in issued /\ turn[t].cid \in Ids /\ creator[turn[t].cid] = turn[t].by
        BY <1>1, <2>1 DEF Issued
    <2> DEFINE c == turn[t].cid
               new == [role |-> IF turn[t].pc = "user_append" THEN "user" ELSE "assistant", by |-> turn[t].by]
    <2>a. /\ messages' = IF turn[t].list = listNo[c] THEN [messages EXCEPT ![c] = Append(@, new)] ELSE messages
          /\ said' = [said EXCEPT ![c] = @ + 1]
          /\ new \in Message
          /\ turn[t].list \in Nat
        BY <1>9, <2>1
           DEF AppendAssistant, AppendTo, Goto, store, objects, side, history, arrivals, Turn, Message
    <2>b. /\ Append(messages[c], new) \in Seq(Message)
          /\ Len(Append(messages[c], new)) = Len(messages[c]) + 1
          /\ \A i \in 1..Len(messages[c]) : Append(messages[c], new)[i] = messages[c][i]
          /\ Append(messages[c], new)[Len(messages[c]) + 1] = new
        <3> HIDE DEF new, c
        <3>1. messages[c] \in Seq(Message)
            BY <1>1, <2>2 DEF c
        <3>2. QED
            BY <2>a, <3>1, AppendProperties
    <2>3. /\ \A u \in Threads \ {t} : turn'[u] = turn[u]
          /\ UNCHANGED <<table, listNo, dropped, terms, lang, creator, wasReset, issued, reset, known>>
          /\ \A d \in Ids \ {turn[t].cid} : messages'[d] = messages[d] /\ said'[d] = said[d]
          /\ said'[turn[t].cid] = said[turn[t].cid] + 1
          /\ \/ /\ turn[t].list # listNo[turn[t].cid] /\ messages'[turn[t].cid] = messages[turn[t].cid]
             \/ /\ Len(messages'[turn[t].cid]) = Len(messages[turn[t].cid]) + 1
                /\ \A i \in 1..Len(messages'[turn[t].cid]) :
                      \/ i \in 1..Len(messages[turn[t].cid]) /\ messages'[turn[t].cid][i] = messages[turn[t].cid][i]
                      \/ messages'[turn[t].cid][i].by = turn[t].by
          /\ turn'[t].pc = (IF turn[t].pc = "user_append" THEN "assistant" ELSE "measure")
          /\ turn'[t].by = turn[t].by /\ turn'[t].cid = turn[t].cid
          /\ Active(t)' /\ turn[t].list \in Nat
        <3>1. /\ \A u \in Threads \ {t} : turn'[u] = turn[u]
              /\ UNCHANGED <<table, listNo, dropped, terms, lang, creator, wasReset, issued, reset, known>>
              /\ turn'[t].pc = (IF turn[t].pc = "user_append" THEN "assistant" ELSE "measure")
              /\ turn'[t].by = turn[t].by /\ turn'[t].cid = turn[t].cid
              /\ Active(t)'
            BY <1>9, <2>1, <2>2
               DEF AppendAssistant, AppendTo, Goto, store, objects, side, history, arrivals, TurnTypes,
                   Turn, Active
        <3>2. \A d \in Ids \ {c} : messages'[d] = messages[d] /\ said'[d] = said[d]
            BY <2>2, <2>a DEF TurnTypes
        <3>3. said'[c] = said[c] + 1
            BY <2>2, <2>a DEF TurnTypes
        <3>4. CASE turn[t].list # listNo[c]
            BY <2>a, <3>1, <3>2, <3>3, <3>4
        <3>5. CASE turn[t].list = listNo[c]
            <4>1. messages'[c] = Append(messages[c], new)
                BY <2>2, <2>a, <3>5 DEF TurnTypes
            <4>2. new.by = turn[t].by
                OBVIOUS
            <4> HIDE DEF new, c
            <4>3. \A i \in 1..Len(messages'[c]) : i \in 1..Len(messages[c]) \/ i = Len(messages[c]) + 1
                BY <1>1, <2>2, <2>b, <4>1 DEF c
            <4>4. /\ Len(messages'[c]) = Len(messages[c]) + 1
                  /\ \A i \in 1..Len(messages'[c]) :
                        \/ i \in 1..Len(messages[c]) /\ messages'[c][i] = messages[c][i]
                        \/ messages'[c][i].by = turn[t].by
                BY <2>b, <4>1, <4>2, <4>3
            <4>5. QED
                BY <2>a, <3>1, <3>2, <3>3, <4>4 DEF c
        <3>6. QED
            BY <3>4, <3>5
    <2> HIDE DEF c, new
    <2> USE <1>1, <2>1, <2>2, <2>3 DEF Active
    <2>4. TurnTypes'
        <3>1. turn'[t] \in Turn
            BY <1>9
               DEF AppendAssistant, AppendTo, Goto, store, objects, side, history, arrivals, TurnTypes,
                   Turn, Labels
        <3>2. turn' \in [Threads -> Turn \cup {NoTurn}]
            BY <1>9, <3>1
               DEF AppendAssistant, AppendTo, Goto, store, objects, side, history, arrivals, TurnTypes
        <3>3. Proved!StoreInv'
            BY <1>9, StoreStutters
               DEF AppendAssistant, AppendTo, Goto, store, objects, side, history, arrivals, TurnTypes
        <3>4. messages' \in [Ids -> Seq(Message)] /\ said' \in [Ids -> Nat]
            BY <2>a, <2>b DEF TurnTypes, c
        <3>5. QED
            BY <3>2, <3>3, <3>4 DEF TurnTypes
    <2>5. Issued'
        BY DEF Issued
    <2>6. Histories'
        <3>1. OwnHistoryOnly'
            <4> SUFFICES ASSUME NEW d \in Ids, NEW i \in 1..Len(messages'[d]) PROVE messages'[d][i].by = creator[d]
                BY DEF OwnHistoryOnly
            <4>1. CASE d = turn[t].cid
                BY <4>1 DEF Histories, OwnHistoryOnly
            <4>2. CASE d # turn[t].cid
                BY <4>2 DEF Histories, OwnHistoryOnly
            <4>3. QED
                BY <4>1, <4>2
        <3>2. HistoryBounded'
            <4> SUFFICES ASSUME NEW d \in Ids, ~Appending(d)' PROVE Len(messages'[d]) <= MaxHistory
                BY DEF HistoryBounded
            <4>1. CASE d = turn[t].cid
                BY <4>1 DEF Appending, WorksOn
            <4>2. CASE d # turn[t].cid
                <5>1. ~Appending(d)
                    BY <4>2 DEF Appending, WorksOn
                <5>2. QED
                    BY <4>2, <5>1 DEF Histories, HistoryBounded
            <4>3. QED
                BY <4>1, <4>2
        <3>3. QED
            BY <3>1, <3>2 DEF Histories
    <2>7. Truncated'
        <3>1. turn[t].list # listNo[turn[t].cid] => dropped[turn[t].cid] > 0
            BY DEF Truncated
        <3>2. ASSUME NEW d \in Ids
              PROVE  /\ Len(messages'[d]) <= said'[d] /\ Len(messages'[d]) >= Len(messages[d])
                     /\ dropped'[d] > 0 <=> Len(messages'[d]) < said'[d]
                     /\ listNo'[d] > 0 => dropped'[d] > 0
            <4>1. CASE d = turn[t].cid
                BY <3>1, <4>1 DEF Truncated
            <4>2. CASE d # turn[t].cid
                BY <4>2 DEF Truncated
            <4>3. QED
                BY <4>1, <4>2
        <3>3. ASSUME NEW u \in Threads, Active(u)', turn'[u].cid \in Ids
              PROVE  /\ turn'[u].pc \in {"user_append", "assistant_append"} => turn'[u].list <= listNo'[turn'[u].cid]
                     /\ turn'[u].pc \in {"overflow", "trim"} =>
                           /\ Len(messages'[turn'[u].cid]) >= MaxHistory
                           /\ Len(messages'[turn'[u].cid]) > MaxHistory \/ dropped'[turn'[u].cid] > 0
                     /\ turn'[u].pc = "trim" =>
                           turn'[u].excess >= 0 /\ (turn'[u].excess > 0 \/ dropped'[turn'[u].cid] > 0)
            <4>1. CASE u = t
                BY <4>1
            <4>2. CASE u # t
                <5>1. Len(messages'[turn[u].cid]) >= Len(messages[turn[u].cid]) /\ Len(messages'[turn[u].cid]) \in Nat
                    BY <3>2, <3>3, <4>2
                <5>2. QED
                    BY <3>3, <4>2, <5>1 DEF Truncated
            <4>3. QED
                BY <4>1, <4>2
        <3>4. QED
            BY <3>2, <3>3 DEF Truncated
    <2>8. ResetKept'
        BY DEF ResetKept, AloneReset, WorksOn
    <2>9. QED
        BY <2>4, <2>5, <2>6, <2>7, <2>8
<1>10. CASE Measure(t)
    <2>1. Active(t) /\ turn[t].pc = "measure" /\ turn[t] \in Turn
        BY <1>1, <1>10 DEF Measure, Goto, Active
    <2>2. turn[t].cid \in issued /\ turn[t].cid \in Ids /\ creator[turn[t].cid] = turn[t].by
        BY <1>1, <2>1 DEF Issued
    <2>3. /\ \A u \in Threads \ {t} : turn'[u] = turn[u]
          /\ UNCHANGED <<table, messages, listNo, dropped, said, terms, lang, creator, wasReset, issued, reset, known>>
          /\ turn'[t].pc = (IF Len(messages[turn[t].cid]) > MaxHistory THEN "overflow" ELSE "save")
          /\ turn'[t].by = turn[t].by /\ turn'[t].cid = turn[t].cid
          /\ Active(t)'
        BY <1>10, <2>1, <2>2
           DEF Measure, Goto, store, objects, side, history, arrivals, TurnTypes, Turn, Active, NoTurn
    <2> USE <1>1, <2>1, <2>2, <2>3 DEF Active
    <2>4. TurnTypes'
        <3>1. turn'[t] \in Turn \cup {NoTurn}
            BY <1>10, ZenonT(40) DEF Measure, Goto, TurnTypes, Turn, Labels
        <3>2. turn' \in [Threads -> Turn \cup {NoTurn}]
            BY <1>10, <3>1 DEF Measure, Goto, TurnTypes
        <3>3. Proved!StoreInv'
            BY <1>10, StoreStutters DEF Measure, Goto, store, objects, side, history, arrivals, TurnTypes
        <3>4. QED
            BY <3>2, <3>3 DEF TurnTypes
    <2>5. Issued'
        BY DEF Issued
    <2>6. Histories'
        BY DEF Histories, HistoryBounded, OwnHistoryOnly, Appending, WorksOn
    <2>7. Truncated'
        BY DEF Truncated
    <2>8. ResetKept'
        BY DEF ResetKept, AloneReset, WorksOn
    <2>9. QED
        BY <2>4, <2>5, <2>6, <2>7, <2>8
<1>11. CASE Overflow(t)
    <2>1. Active(t) /\ turn[t].pc = "overflow" /\ turn[t] \in Turn
        BY <1>1, <1>11 DEF Overflow, Active
    <2>2. turn[t].cid \in issued /\ turn[t].cid \in Ids /\ creator[turn[t].cid] = turn[t].by
        BY <1>1, <2>1 DEF Issued
    <2>3. /\ \A u \in Threads \ {t} : turn'[u] = turn[u]
          /\ UNCHANGED <<table, messages, listNo, dropped, said, terms, lang, creator, wasReset, issued, reset, known>>
          /\ turn'[t].excess = Len(messages[turn[t].cid]) - MaxHistory
          /\ turn'[t].pc = "trim"
          /\ turn'[t].by = turn[t].by /\ turn'[t].cid = turn[t].cid
          /\ Active(t)'
        BY <1>11, <2>1, <2>2
           DEF Overflow, store, objects, side, history, arrivals, TurnTypes, Turn, Active, NoTurn
    <2> USE <1>1, <2>1, <2>2, <2>3 DEF Active
    <2>4. TurnTypes'
        <3>1. turn'[t] \in Turn \cup {NoTurn}
            BY <1>11 DEF Overflow, TurnTypes, Turn, Labels
        <3>2. turn' \in [Threads -> Turn \cup {NoTurn}]
            BY <1>11, <3>1 DEF Overflow, TurnTypes
        <3>3. Proved!StoreInv'
            BY <1>11, StoreStutters DEF Overflow, store, objects, side, history, arrivals, TurnTypes
        <3>4. QED
            BY <3>2, <3>3 DEF TurnTypes
    <2>5. Issued'
        BY DEF Issued
    <2>6. Histories'
        BY DEF Histories, HistoryBounded, OwnHistoryOnly, Appending, WorksOn
    <2>7. Truncated'
        BY DEF Truncated
    <2>8. ResetKept'
        BY DEF ResetKept, AloneReset, WorksOn
    <2>9. QED
        BY <2>4, <2>5, <2>6, <2>7, <2>8
<1>12. CASE Trim(t)
    <2>1. Active(t) /\ turn[t].pc = "trim" /\ turn[t] \in Turn
        BY <1>1, <1>12 DEF Trim, Goto, Active
    <2>2. turn[t].cid \in issued /\ turn[t].cid \in Ids /\ creator[turn[t].cid] = turn[t].by
        BY <1>1, <2>1 DEF Issued
    <2> DEFINE c == turn[t].cid
    <2>a. /\ LastMessages(messages[c], MaxHistory) \in Seq(Message)
          /\ Len(LastMessages(messages[c], MaxHistory)) = IF Len(messages[c]) <= MaxHistory THEN Len(messages[c]) ELSE MaxHistory
          /\ \A i \in 1..Len(LastMessages(messages[c], MaxHistory)) :
                \E j \in 1..Len(messages[c]) : LastMessages(messages[c], MaxHistory)[i] = messages[c][j]
        <3> HIDE DEF c
        <3>1. messages[c] \in Seq(Message) /\ MaxHistory \in Nat
            BY <1>1, <2>2 DEF c
        <3>2. QED
            BY <3>1, LastProperties
    <2>c. /\ \A u \in Threads \ {t} : turn'[u] = turn[u]
          /\ UNCHANGED <<table, said, terms, lang, creator, wasReset, issued, reset, known>>
          /\ \A d \in Ids \ {turn[t].cid} : messages'[d] = messages[d] /\ dropped'[d] = dropped[d] /\ listNo'[d] = listNo[d]
          /\ messages'[turn[t].cid] = LastMessages(messages[turn[t].cid], MaxHistory)
          /\ dropped'[turn[t].cid] = dropped[turn[t].cid] + turn[t].excess
          /\ listNo'[turn[t].cid] = listNo[turn[t].cid] + 1
          /\ turn'[t].pc = "save" /\ turn'[t].by = turn[t].by /\ turn'[t].cid = turn[t].cid
          /\ Active(t)' /\ turn[t].excess \in Int
        BY <1>12, <2>1, <2>2 DEF Trim, Goto, store, objects, side, history, arrivals, TurnTypes, Turn, Active
    <2>b. /\ Len(messages'[turn[t].cid]) = IF Len(messages[turn[t].cid]) <= MaxHistory THEN Len(messages[turn[t].cid])
                                            ELSE MaxHistory
          /\ \A i \in 1..Len(messages'[turn[t].cid]) :
                \E j \in 1..Len(messages[turn[t].cid]) : messages'[turn[t].cid][i] = messages[turn[t].cid][j]
        <3>1. messages'[c] = LastMessages(messages[c], MaxHistory)
            BY <2>c
        <3> HIDE DEF c
        <3>2. /\ Len(messages'[c]) = IF Len(messages[c]) <= MaxHistory THEN Len(messages[c]) ELSE MaxHistory
              /\ \A i \in 1..Len(messages'[c]) : \E j \in 1..Len(messages[c]) : messages'[c][i] = messages[c][j]
            BY <2>a, <3>1
        <3>3. QED
            BY <3>2 DEF c
    <2> HIDE DEF c
    <2>3. /\ \A u \in Threads \ {t} : turn'[u] = turn[u]
          /\ UNCHANGED <<table, said, terms, lang, creator, wasReset, issued, reset, known>>
          /\ \A d \in Ids \ {turn[t].cid} : messages'[d] = messages[d] /\ dropped'[d] = dropped[d] /\ listNo'[d] = listNo[d]
          /\ dropped'[turn[t].cid] = dropped[turn[t].cid] + turn[t].excess
          /\ listNo'[turn[t].cid] = listNo[turn[t].cid] + 1
          /\ turn'[t].pc = "save" /\ turn'[t].by = turn[t].by /\ turn'[t].cid = turn[t].cid
          /\ Active(t)' /\ turn[t].excess \in Int
        BY <2>c
    <2> USE <1>1, <2>1, <2>2, <2>3 DEF Active
    <2>4. TurnTypes'
        <3>1. turn'[t] \in Turn
            BY <1>12 DEF Trim, Goto, store, objects, side, history, arrivals, TurnTypes, Turn, Labels
        <3>2. turn' \in [Threads -> Turn \cup {NoTurn}]
            BY <1>12, <3>1 DEF Trim, Goto, store, objects, side, history, arrivals, TurnTypes
        <3>3. Proved!StoreInv'
            BY <1>12, StoreStutters DEF Trim, Goto, store, objects, side, history, arrivals, TurnTypes
        <3>4. messages' \in [Ids -> Seq(Message)] /\ listNo' \in [Ids -> Nat]
            BY <1>12, <2>a DEF Trim, Goto, store, objects, side, history, arrivals, TurnTypes, c
        <3>5. turn[t].excess >= 0
            BY DEF Truncated
        <3>6. dropped' \in [Ids -> Nat]
            BY <1>12, <3>5 DEF Trim, Goto, store, objects, side, history, arrivals, TurnTypes
        <3>7. QED
            BY <3>2, <3>3, <3>4, <3>6 DEF TurnTypes
    <2>5. Issued'
        <3>1. \A i \in Ids \ issued' : messages'[i] = <<>> /\ said'[i] = 0 /\ wasReset'[i] = "no"
            BY DEF Issued
        <3>2. QED
            BY <3>1 DEF Issued
    <2>6. Histories'
        <3>1. OwnHistoryOnly'
            <4> SUFFICES ASSUME NEW d \in Ids, NEW i \in 1..Len(messages'[d]) PROVE messages'[d][i].by = creator[d]
                BY DEF OwnHistoryOnly
            <4>1. CASE d = turn[t].cid
                <5>1. PICK j \in 1..Len(messages[d]) : messages'[d][i] = messages[d][j]
                    BY <2>b, <4>1
                <5>2. messages[d][j].by = creator[d]
                    BY DEF Histories, OwnHistoryOnly
                <5>3. QED
                    BY <5>1, <5>2
            <4>2. CASE d # turn[t].cid
                BY <4>2 DEF Histories, OwnHistoryOnly
            <4>3. QED
                BY <4>1, <4>2
        <3>2. HistoryBounded'
            <4> SUFFICES ASSUME NEW d \in Ids, ~Appending(d)' PROVE Len(messages'[d]) <= MaxHistory
                BY DEF HistoryBounded
            <4>1. CASE d = turn[t].cid
                BY <2>b, <4>1
            <4>2. CASE d # turn[t].cid
                <5>1. ~Appending(d)
                    BY <4>2 DEF Appending, WorksOn
                <5>2. QED
                    BY <4>2, <5>1 DEF Histories, HistoryBounded
            <4>3. QED
                BY <4>1, <4>2
        <3>3. QED
            BY <3>1, <3>2 DEF Histories
    <2>7. Truncated'
        <3>1. /\ turn[t].excess >= 0 /\ (turn[t].excess > 0 \/ dropped[turn[t].cid] > 0)
              /\ Len(messages[turn[t].cid]) >= MaxHistory
              /\ Len(messages[turn[t].cid]) > MaxHistory \/ dropped[turn[t].cid] > 0
            BY DEF Truncated
        <3>a. Len(messages'[turn[t].cid]) = MaxHistory /\ dropped'[turn[t].cid] > 0
            BY <2>b, <3>1
        <3>2. ASSUME NEW d \in Ids
              PROVE  /\ Len(messages'[d]) <= said'[d] /\ Len(messages'[d]) \in Nat
                     /\ dropped'[d] > 0 <=> Len(messages'[d]) < said'[d]
                     /\ listNo'[d] > 0 => dropped'[d] > 0
            <4>1. CASE d = turn[t].cid
                <5>1. Len(messages[d]) <= said[d] /\ said[d] \in Nat /\ said'[d] = said[d]
                    <6>1. Truncated /\ said' = said
                        BY <2>3
                    <6>2. Len(messages[d]) <= said[d]
                        BY <6>1 DEF Truncated
                    <6>3. QED
                        BY <1>1, <6>1, <6>2
                <5>2. Len(messages[d]) > MaxHistory \/ dropped[d] > 0 => MaxHistory < said[d]
                    BY <3>1, <4>1, <5>1 DEF Truncated
                <5>3. MaxHistory < said[d] /\ Len(messages'[d]) = MaxHistory /\ dropped'[d] > 0
                    BY <3>1, <3>a, <4>1, <5>2
                <5>4. QED
                    BY <5>1, <5>3
            <4>2. CASE d # turn[t].cid
                BY <4>2 DEF Truncated
            <4>3. QED
                BY <4>1, <4>2
        <3>3. ASSUME NEW u \in Threads, Active(u)', turn'[u].cid \in Ids
              PROVE  /\ turn'[u].pc \in {"user_append", "assistant_append"} => turn'[u].list <= listNo'[turn'[u].cid]
                     /\ turn'[u].pc \in {"overflow", "trim"} =>
                           /\ Len(messages'[turn'[u].cid]) >= MaxHistory
                           /\ Len(messages'[turn'[u].cid]) > MaxHistory \/ dropped'[turn'[u].cid] > 0
                     /\ turn'[u].pc = "trim" =>
                           turn'[u].excess >= 0 /\ (turn'[u].excess > 0 \/ dropped'[turn'[u].cid] > 0)
            <4>1. CASE u = t
                BY <4>1
            <4>2. CASE u # t
                <5>1. CASE turn[u].cid = turn[t].cid
                    <6>1. turn[u].pc = "trim" => turn[u].excess >= 0
                        BY <3>3, <4>2, <5>1 DEF Truncated
                    <6>2. turn[u].pc \in {"user_append", "assistant_append"} =>
                              turn[u].list <= listNo[turn[u].cid] /\ turn[u].list \in Nat
                        BY <3>3, <4>2, <5>1 DEF Truncated, Turn
                    <6>3. Len(messages'[turn[u].cid]) = MaxHistory /\ dropped'[turn[u].cid] > 0
                        BY <3>a, <5>1
                    <6>4. turn[u].list <= listNo[turn[u].cid] /\ turn[u].list \in Nat => turn[u].list <= listNo'[turn[u].cid]
                        BY <5>1
                    <6>5. QED
                        BY <4>2, <6>1, <6>2, <6>3, <6>4
                <5>2. CASE turn[u].cid # turn[t].cid
                    BY <3>3, <4>2, <5>2 DEF Truncated
                <5>3. QED
                    BY <5>1, <5>2
            <4>3. QED
                BY <4>1, <4>2
        <3>4. QED
            BY <3>2, <3>3 DEF Truncated
    <2>8. ResetKept'
        BY DEF ResetKept, AloneReset, WorksOn
    <2>9. QED
        BY <2>4, <2>5, <2>6, <2>7, <2>8
<1>13. CASE SaveTurn(t)
    <2>1. Active(t) /\ turn[t].pc = "save" /\ turn[t] \in Turn
        BY <1>1, <1>13 DEF SaveTurn, Goto, Active
    <2>2. turn[t].cid \in issued /\ turn[t].cid \in Ids /\ creator[turn[t].cid] = turn[t].by
        BY <1>1, <2>1 DEF Issued
    <2>3. /\ \A u \in Threads \ {t} : turn'[u] = turn[u]
          /\ UNCHANGED <<messages, listNo, dropped, said, terms, lang, creator, wasReset, issued, reset, known>>
          /\ \A c \in Ids : Store!Has(table', c) => Store!Has(table, c) \/ c = turn[t].cid
          /\ turn'[t].pc \in {"terms", "respond"}
          /\ turn'[t].by = turn[t].by /\ turn'[t].cid = turn[t].cid
          /\ Active(t)'
        BY StoreEffects, <1>13, <2>1, <2>2
           DEF SaveTurn, Goto, store, objects, side, history, arrivals, TurnTypes, Turn, Active, NoTurn
    <2> USE <1>1, <2>1, <2>2, <2>3 DEF Active
    <2>4. TurnTypes'
        <3>1. turn'[t] \in Turn \cup {NoTurn}
            BY <1>13, ZenonT(40) DEF SaveTurn, Goto, TurnTypes, Turn, Labels
        <3>2. turn' \in [Threads -> Turn \cup {NoTurn}]
            BY <1>13, <3>1 DEF SaveTurn, Goto, TurnTypes
        <3>3. Proved!StoreInv'
            BY <1>13, StoreEffects DEF SaveTurn, Goto, store, objects, side, history, arrivals, TurnTypes
        <3>4. QED
            BY <3>2, <3>3 DEF TurnTypes
    <2>5. Issued'
        BY DEF Issued
    <2>6. Histories'
        BY DEF Histories, HistoryBounded, OwnHistoryOnly, Appending, WorksOn
    <2>7. Truncated'
        BY DEF Truncated
    <2>8. ResetKept'
        BY DEF ResetKept, AloneReset, WorksOn
    <2>9. QED
        BY <2>4, <2>5, <2>6, <2>7, <2>8
<1>14. CASE NoteTerms(t)
    <2>1. Active(t) /\ turn[t].pc = "terms" /\ turn[t] \in Turn
        BY <1>1, <1>14 DEF NoteTerms, Goto, Active
    <2>2. turn[t].cid \in issued /\ turn[t].cid \in Ids /\ creator[turn[t].cid] = turn[t].by
        BY <1>1, <2>1 DEF Issued
    <2>3. /\ \A u \in Threads \ {t} : turn'[u] = turn[u]
          /\ UNCHANGED <<table, messages, listNo, dropped, said, lang, creator, wasReset, issued, reset, known>>
          /\ terms' \subseteq terms \cup {turn[t].cid}
          /\ turn'[t].pc = "lang"
          /\ turn'[t].by = turn[t].by /\ turn'[t].cid = turn[t].cid
          /\ Active(t)'
        BY <1>14, <2>1, <2>2
           DEF NoteTerms, Goto, store, objects, side, history, arrivals, TurnTypes, Turn, Active, NoTurn
    <2> USE <1>1, <2>1, <2>2, <2>3 DEF Active
    <2>4. TurnTypes'
        <3>1. Cardinality(lang) \in Nat
            BY FS_CardinalityType DEF TurnTypes
        <3>2. turn'[t] \in Turn
            BY <1>14, <3>1 DEF NoteTerms, Goto, store, objects, side, history, arrivals, TurnTypes, Turn, Labels
        <3>3. turn' \in [Threads -> Turn \cup {NoTurn}]
            BY <1>14, <3>2 DEF NoteTerms, Goto, store, objects, side, history, arrivals, TurnTypes
        <3>4. Proved!StoreInv'
            BY <1>14, StoreStutters DEF NoteTerms, Goto, store, objects, side, history, arrivals, TurnTypes
        <3>5. terms' \subseteq Ids /\ IsFiniteSet(terms')
            <4>1. IsFiniteSet(terms \cup {turn[t].cid})
                BY FS_AddElement DEF TurnTypes
            <4>2. QED
                BY <4>1, FS_Subset DEF TurnTypes
        <3>6. lang' \subseteq Ids /\ IsFiniteSet(lang')
            BY DEF TurnTypes
        <3>7. QED
            BY <3>3, <3>4, <3>5, <3>6 DEF TurnTypes
    <2>5. Issued'
        BY DEF Issued
    <2>6. Histories'
        BY DEF Histories, HistoryBounded, OwnHistoryOnly, Appending, WorksOn
    <2>7. Truncated'
        BY DEF Truncated
    <2>8. ResetKept'
        BY DEF ResetKept, AloneReset, WorksOn
    <2>9. QED
        BY <2>4, <2>5, <2>6, <2>7, <2>8
<1>15. CASE NoteLanguage(t)
    <2>1. Active(t) /\ turn[t].pc = "lang" /\ turn[t] \in Turn
        BY <1>1, <1>15 DEF NoteLanguage, Goto, Active
    <2>2. turn[t].cid \in issued /\ turn[t].cid \in Ids /\ creator[turn[t].cid] = turn[t].by
        BY <1>1, <2>1 DEF Issued
    <2>3. /\ \A u \in Threads \ {t} : turn'[u] = turn[u]
          /\ UNCHANGED <<table, messages, listNo, dropped, said, terms, creator, wasReset, issued, reset, known>>
          /\ lang' \subseteq lang \cup {turn[t].cid}
          /\ turn'[t].pc = "prune"
          /\ turn'[t].by = turn[t].by /\ turn'[t].cid = turn[t].cid
          /\ Active(t)'
        BY <1>15, <2>1, <2>2
           DEF NoteLanguage, Goto, store, objects, side, history, arrivals, TurnTypes, Turn, Active,
               NoTurn
    <2> USE <1>1, <2>1, <2>2, <2>3 DEF Active
    <2>4. TurnTypes'
        <3>1. Cardinality(lang) \in Nat
            BY FS_CardinalityType DEF TurnTypes
        <3>2. turn'[t] \in Turn
            BY <1>15, <3>1
               DEF NoteLanguage, Goto, store, objects, side, history, arrivals, TurnTypes, Turn, Labels
        <3>3. turn' \in [Threads -> Turn \cup {NoTurn}]
            BY <1>15, <3>2 DEF NoteLanguage, Goto, store, objects, side, history, arrivals, TurnTypes
        <3>4. Proved!StoreInv'
            BY <1>15, StoreStutters DEF NoteLanguage, Goto, store, objects, side, history, arrivals, TurnTypes
        <3>5. terms' \subseteq Ids /\ IsFiniteSet(terms')
            BY DEF TurnTypes
        <3>6. lang' \subseteq Ids /\ IsFiniteSet(lang')
            <4>1. IsFiniteSet(lang \cup {turn[t].cid})
                BY FS_AddElement DEF TurnTypes
            <4>2. QED
                BY <4>1, FS_Subset DEF TurnTypes
        <3>7. QED
            BY <3>3, <3>4, <3>5, <3>6 DEF TurnTypes
    <2>5. Issued'
        BY DEF Issued
    <2>6. Histories'
        BY DEF Histories, HistoryBounded, OwnHistoryOnly, Appending, WorksOn
    <2>7. Truncated'
        BY DEF Truncated
    <2>8. ResetKept'
        BY DEF ResetKept, AloneReset, WorksOn
    <2>9. QED
        BY <2>4, <2>5, <2>6, <2>7, <2>8
<1>16. CASE StartPrune(t)
    <2>1. Active(t) /\ turn[t].pc = "prune" /\ turn[t] \in Turn
        BY <1>1, <1>16 DEF StartPrune, Goto, Active
    <2>2. turn[t].cid \in issued /\ turn[t].cid \in Ids /\ creator[turn[t].cid] = turn[t].by
        BY <1>1, <2>1 DEF Issued
    <2>3. /\ \A u \in Threads \ {t} : turn'[u] = turn[u]
          /\ UNCHANGED <<table, messages, listNo, dropped, said, terms, lang, creator, wasReset, issued, reset, known>>
          /\ turn'[t].pc \in {"visit_terms", "respond"}
          /\ turn'[t].by = turn[t].by /\ turn'[t].cid = turn[t].cid
          /\ Active(t)'
        BY <1>16, <2>1, <2>2
           DEF StartPrune, Goto, store, objects, side, history, arrivals, TurnTypes, Turn, Active, NoTurn
    <2> USE <1>1, <2>1, <2>2, <2>3 DEF Active
    <2>4. TurnTypes'
        <3>1. Cardinality(terms) \in Nat
            BY FS_CardinalityType DEF TurnTypes
        <3>2. turn'[t] \in Turn
            <4>1. CASE OverSideLimit
                BY <1>16, <3>1, <4>1 DEF StartPrune, TurnTypes, Turn, Labels
            <4>2. CASE ~OverSideLimit
                <5>1. turn'[t] = [turn[t] EXCEPT !.pc = "respond"]
                    BY <1>16, <4>2 DEF StartPrune, Goto, TurnTypes
                <5>2. QED
                    BY <5>1 DEF Turn, Labels
            <4>3. QED
                BY <4>1, <4>2
        <3>3. turn' \in [Threads -> Turn \cup {NoTurn}]
            BY <1>16, <3>2 DEF StartPrune, Goto, store, objects, side, history, arrivals, TurnTypes
        <3>4. Proved!StoreInv'
            BY <1>16, StoreStutters DEF StartPrune, Goto, store, objects, side, history, arrivals, TurnTypes
        <3>5. QED
            BY <3>3, <3>4 DEF TurnTypes
    <2>5. Issued'
        BY DEF Issued
    <2>6. Histories'
        BY DEF Histories, HistoryBounded, OwnHistoryOnly, Appending, WorksOn
    <2>7. Truncated'
        BY DEF Truncated
    <2>8. ResetKept'
        BY DEF ResetKept, AloneReset, WorksOn
    <2>9. QED
        BY <2>4, <2>5, <2>6, <2>7, <2>8
<1>17. CASE Visit(t, "visit_terms", terms)
    <2>1. Active(t) /\ turn[t].pc = "visit_terms" /\ turn[t] \in Turn
        BY <1>1, <1>17 DEF Visit, Active
    <2>2. turn[t].cid \in issued /\ turn[t].cid \in Ids /\ creator[turn[t].cid] = turn[t].by
        BY <1>1, <2>1 DEF Issued
    <2>3. /\ \A u \in Threads \ {t} : turn'[u] = turn[u]
          /\ UNCHANGED <<messages, listNo, dropped, said, terms, lang, creator, wasReset, issued, reset, known>>
          /\ \A c \in Ids : Store!Has(table', c) => Store!Has(table, c)
          /\ turn'[t].pc = "visit_terms"
          /\ turn'[t].by = turn[t].by /\ turn'[t].cid = turn[t].cid
          /\ Active(t)'
        <3>1. PICK c \in turn[t].visit :
                  \/ Store!GetHit(c) /\ turn' = [turn EXCEPT ![t].visit = @ \ {c}]
                  \/ Store!GetMiss(c) /\ turn' = [turn EXCEPT ![t].visit = @ \ {c}, ![t].gone = @ \cup {c}]
            BY <1>17 DEF Visit
        <3>2. c \in Ids
            BY <2>1, <3>1 DEF Turn
        <3>3. \A d \in Ids : Store!Has(table', d) => Store!Has(table, d)
            BY <3>1, <3>2, GetsAdd DEF TurnTypes
        <3>4. /\ \A u \in Threads \ {t} : turn'[u] = turn[u]
              /\ turn'[t].pc = turn[t].pc /\ turn'[t].by = turn[t].by /\ turn'[t].cid = turn[t].cid
            BY <3>1, <2>1, SMTT(30) DEF TurnTypes, Turn
        <3>5. UNCHANGED <<messages, listNo, dropped, said, terms, lang, creator, wasReset, issued, reset, known>>
            BY <1>17 DEF Visit, objects, side, history
        <3>6. QED
            BY <2>1, <3>3, <3>4, <3>5 DEF Active
    <2> USE <1>1, <2>1, <2>2, <2>3 DEF Active
    <2>4. TurnTypes'
        <3>1. PICK c \in turn[t].visit :
                  \/ Store!GetHit(c) /\ turn' = [turn EXCEPT ![t].visit = @ \ {c}]
                  \/ Store!GetMiss(c) /\ turn' = [turn EXCEPT ![t].visit = @ \ {c}, ![t].gone = @ \cup {c}]
            BY <1>17 DEF Visit
        <3>2. c \in Ids
            BY <3>1 DEF Turn
        <3>3. Proved!StoreInv'
            BY <3>1, <3>2, StoreEffects DEF TurnTypes
        <3>4. turn'[t] \in Turn
            <4>1. turn'[t] = [turn[t] EXCEPT !.visit = @ \ {c}]
                  \/ turn'[t] = [turn[t] EXCEPT !.visit = @ \ {c}, !.gone = @ \cup {c}]
                BY <3>1 DEF TurnTypes
            <4>2. turn[t].visit \ {c} \in SUBSET Ids /\ turn[t].gone \cup {c} \in SUBSET Ids
                BY <3>2 DEF Turn
            <4>3. QED
                BY <4>1, <4>2 DEF Turn
        <3>5. turn' \in [Threads -> Turn \cup {NoTurn}]
            BY <3>1, <3>4 DEF TurnTypes
        <3>6. QED
            BY <3>3, <3>5 DEF TurnTypes
    <2>5. Issued'
        BY DEF Issued
    <2>6. Histories'
        BY DEF Histories, HistoryBounded, OwnHistoryOnly, Appending, WorksOn
    <2>7. Truncated'
        BY DEF Truncated
    <2>8. ResetKept'
        BY DEF ResetKept, AloneReset, WorksOn
    <2>9. QED
        BY <2>4, <2>5, <2>6, <2>7, <2>8
<1>18. CASE PruneRaises(t, "visit_terms", terms)
    <2>1. Active(t) /\ turn[t].pc = "visit_terms" /\ turn[t] \in Turn
        BY <1>1, <1>18 DEF PruneRaises, Active
    <2>2. turn[t].cid \in issued /\ turn[t].cid \in Ids /\ creator[turn[t].cid] = turn[t].by
        BY <1>1, <2>1 DEF Issued
    <2>3. /\ \A u \in Threads \ {t} : turn'[u] = turn[u]
          /\ UNCHANGED <<table, messages, listNo, dropped, said, terms, lang, creator, wasReset, issued, reset, known>>
          /\ turn'[t] = NoTurn
          /\ ~Active(t)'
        BY <1>18, <2>1, <2>2
           DEF PruneRaises, store, objects, side, history, arrivals, TurnTypes, Turn, Active, NoTurn
    <2> USE <1>1, <2>1, <2>2, <2>3 DEF Active
    <2>4. TurnTypes'
        <3>1. turn'[t] \in Turn \cup {NoTurn}
            BY <1>18 DEF PruneRaises, TurnTypes, Turn, Labels
        <3>2. turn' \in [Threads -> Turn \cup {NoTurn}]
            BY <1>18, <3>1 DEF PruneRaises, TurnTypes
        <3>3. Proved!StoreInv'
            BY <1>18, StoreStutters DEF PruneRaises, store, objects, side, history, arrivals, TurnTypes
        <3>4. QED
            BY <3>2, <3>3 DEF TurnTypes
    <2>5. Issued'
        BY DEF Issued
    <2>6. Histories'
        BY DEF Histories, HistoryBounded, OwnHistoryOnly, Appending, WorksOn
    <2>7. Truncated'
        BY DEF Truncated
    <2>8. ResetKept'
        BY DEF ResetKept, AloneReset, WorksOn
    <2>9. QED
        BY <2>4, <2>5, <2>6, <2>7, <2>8
<1>19. CASE Visit(t, "visit_lang", lang)
    <2>1. Active(t) /\ turn[t].pc = "visit_lang" /\ turn[t] \in Turn
        BY <1>1, <1>19 DEF Visit, Active
    <2>2. turn[t].cid \in issued /\ turn[t].cid \in Ids /\ creator[turn[t].cid] = turn[t].by
        BY <1>1, <2>1 DEF Issued
    <2>3. /\ \A u \in Threads \ {t} : turn'[u] = turn[u]
          /\ UNCHANGED <<messages, listNo, dropped, said, terms, lang, creator, wasReset, issued, reset, known>>
          /\ \A c \in Ids : Store!Has(table', c) => Store!Has(table, c)
          /\ turn'[t].pc = "visit_lang"
          /\ turn'[t].by = turn[t].by /\ turn'[t].cid = turn[t].cid
          /\ Active(t)'
        <3>1. PICK c \in turn[t].visit :
                  \/ Store!GetHit(c) /\ turn' = [turn EXCEPT ![t].visit = @ \ {c}]
                  \/ Store!GetMiss(c) /\ turn' = [turn EXCEPT ![t].visit = @ \ {c}, ![t].gone = @ \cup {c}]
            BY <1>19 DEF Visit
        <3>2. c \in Ids
            BY <2>1, <3>1 DEF Turn
        <3>3. \A d \in Ids : Store!Has(table', d) => Store!Has(table, d)
            BY <3>1, <3>2, GetsAdd DEF TurnTypes
        <3>4. /\ \A u \in Threads \ {t} : turn'[u] = turn[u]
              /\ turn'[t].pc = turn[t].pc /\ turn'[t].by = turn[t].by /\ turn'[t].cid = turn[t].cid
            BY <3>1, <2>1, SMTT(30) DEF TurnTypes, Turn
        <3>5. UNCHANGED <<messages, listNo, dropped, said, terms, lang, creator, wasReset, issued, reset, known>>
            BY <1>19 DEF Visit, objects, side, history
        <3>6. QED
            BY <2>1, <3>3, <3>4, <3>5 DEF Active
    <2> USE <1>1, <2>1, <2>2, <2>3 DEF Active
    <2>4. TurnTypes'
        <3>1. PICK c \in turn[t].visit :
                  \/ Store!GetHit(c) /\ turn' = [turn EXCEPT ![t].visit = @ \ {c}]
                  \/ Store!GetMiss(c) /\ turn' = [turn EXCEPT ![t].visit = @ \ {c}, ![t].gone = @ \cup {c}]
            BY <1>19 DEF Visit
        <3>2. c \in Ids
            BY <3>1 DEF Turn
        <3>3. Proved!StoreInv'
            BY <3>1, <3>2, StoreEffects DEF TurnTypes
        <3>4. turn'[t] \in Turn
            <4>1. turn'[t] = [turn[t] EXCEPT !.visit = @ \ {c}]
                  \/ turn'[t] = [turn[t] EXCEPT !.visit = @ \ {c}, !.gone = @ \cup {c}]
                BY <3>1 DEF TurnTypes
            <4>2. turn[t].visit \ {c} \in SUBSET Ids /\ turn[t].gone \cup {c} \in SUBSET Ids
                BY <3>2 DEF Turn
            <4>3. QED
                BY <4>1, <4>2 DEF Turn
        <3>5. turn' \in [Threads -> Turn \cup {NoTurn}]
            BY <3>1, <3>4 DEF TurnTypes
        <3>6. QED
            BY <3>3, <3>5 DEF TurnTypes
    <2>5. Issued'
        BY DEF Issued
    <2>6. Histories'
        BY DEF Histories, HistoryBounded, OwnHistoryOnly, Appending, WorksOn
    <2>7. Truncated'
        BY DEF Truncated
    <2>8. ResetKept'
        BY DEF ResetKept, AloneReset, WorksOn
    <2>9. QED
        BY <2>4, <2>5, <2>6, <2>7, <2>8
<1>20. CASE PruneRaises(t, "visit_lang", lang)
    <2>1. Active(t) /\ turn[t].pc = "visit_lang" /\ turn[t] \in Turn
        BY <1>1, <1>20 DEF PruneRaises, Active
    <2>2. turn[t].cid \in issued /\ turn[t].cid \in Ids /\ creator[turn[t].cid] = turn[t].by
        BY <1>1, <2>1 DEF Issued
    <2>3. /\ \A u \in Threads \ {t} : turn'[u] = turn[u]
          /\ UNCHANGED <<table, messages, listNo, dropped, said, terms, lang, creator, wasReset, issued, reset, known>>
          /\ turn'[t] = NoTurn
          /\ ~Active(t)'
        BY <1>20, <2>1, <2>2
           DEF PruneRaises, store, objects, side, history, arrivals, TurnTypes, Turn, Active, NoTurn
    <2> USE <1>1, <2>1, <2>2, <2>3 DEF Active
    <2>4. TurnTypes'
        <3>1. turn'[t] \in Turn \cup {NoTurn}
            BY <1>20 DEF PruneRaises, TurnTypes, Turn, Labels
        <3>2. turn' \in [Threads -> Turn \cup {NoTurn}]
            BY <1>20, <3>1 DEF PruneRaises, TurnTypes
        <3>3. Proved!StoreInv'
            BY <1>20, StoreStutters DEF PruneRaises, store, objects, side, history, arrivals, TurnTypes
        <3>4. QED
            BY <3>2, <3>3 DEF TurnTypes
    <2>5. Issued'
        BY DEF Issued
    <2>6. Histories'
        BY DEF Histories, HistoryBounded, OwnHistoryOnly, Appending, WorksOn
    <2>7. Truncated'
        BY DEF Truncated
    <2>8. ResetKept'
        BY DEF ResetKept, AloneReset, WorksOn
    <2>9. QED
        BY <2>4, <2>5, <2>6, <2>7, <2>8
<1>21. CASE PopTerms(t)
    <2>1. Active(t) /\ turn[t].pc = "visit_terms" /\ turn[t] \in Turn
        BY <1>1, <1>21 DEF PopTerms, Kept, Active
    <2>2. turn[t].cid \in issued /\ turn[t].cid \in Ids /\ creator[turn[t].cid] = turn[t].by
        BY <1>1, <2>1 DEF Issued
    <2>3. /\ \A u \in Threads \ {t} : turn'[u] = turn[u]
          /\ UNCHANGED <<table, messages, listNo, dropped, said, lang, creator, wasReset, issued, reset, known>>
          /\ terms' \subseteq terms
          /\ turn'[t].pc = "visit_lang"
          /\ turn'[t].by = turn[t].by /\ turn'[t].cid = turn[t].cid
          /\ Active(t)'
        BY <1>21, <2>1, <2>2
           DEF PopTerms, Kept, store, objects, side, history, arrivals, TurnTypes, Turn, Active, NoTurn
    <2> USE <1>1, <2>1, <2>2, <2>3 DEF Active
    <2>4. TurnTypes'
        <3>1. Cardinality(lang) \in Nat
            BY FS_CardinalityType DEF TurnTypes
        <3>2. turn'[t] \in Turn
            BY <1>21, <3>1 DEF PopTerms, Kept, store, objects, side, history, arrivals, TurnTypes, Turn, Labels
        <3>3. turn' \in [Threads -> Turn \cup {NoTurn}]
            BY <1>21, <3>2 DEF PopTerms, Kept, store, objects, side, history, arrivals, TurnTypes
        <3>4. Proved!StoreInv'
            BY <1>21, StoreStutters DEF PopTerms, Kept, store, objects, side, history, arrivals, TurnTypes
        <3>5. terms' \subseteq Ids /\ IsFiniteSet(terms')
            <4>1. IsFiniteSet(terms \cup {turn[t].cid})
                BY FS_AddElement DEF TurnTypes
            <4>2. QED
                BY <4>1, FS_Subset DEF TurnTypes
        <3>6. lang' \subseteq Ids /\ IsFiniteSet(lang')
            BY DEF TurnTypes
        <3>7. QED
            BY <3>3, <3>4, <3>5, <3>6 DEF TurnTypes
    <2>5. Issued'
        BY DEF Issued
    <2>6. Histories'
        BY DEF Histories, HistoryBounded, OwnHistoryOnly, Appending, WorksOn
    <2>7. Truncated'
        BY DEF Truncated
    <2>8. ResetKept'
        BY DEF ResetKept, AloneReset, WorksOn
    <2>9. QED
        BY <2>4, <2>5, <2>6, <2>7, <2>8
<1>22. CASE PopLang(t)
    <2>1. Active(t) /\ turn[t].pc = "visit_lang" /\ turn[t] \in Turn
        BY <1>1, <1>22 DEF PopLang, Kept, Goto, Active
    <2>2. turn[t].cid \in issued /\ turn[t].cid \in Ids /\ creator[turn[t].cid] = turn[t].by
        BY <1>1, <2>1 DEF Issued
    <2>3. /\ \A u \in Threads \ {t} : turn'[u] = turn[u]
          /\ UNCHANGED <<table, messages, listNo, dropped, said, terms, creator, wasReset, issued, reset, known>>
          /\ lang' \subseteq lang
          /\ turn'[t].pc = "respond"
          /\ turn'[t].by = turn[t].by /\ turn'[t].cid = turn[t].cid
          /\ Active(t)'
        BY <1>22, <2>1, <2>2
           DEF PopLang, Kept, Goto, store, objects, side, history, arrivals, TurnTypes, Turn, Active,
               NoTurn
    <2> USE <1>1, <2>1, <2>2, <2>3 DEF Active
    <2>4. TurnTypes'
        <3>1. Cardinality(lang) \in Nat
            BY FS_CardinalityType DEF TurnTypes
        <3>2. turn'[t] \in Turn
            BY <1>22, <3>1
               DEF PopLang, Kept, Goto, store, objects, side, history, arrivals, TurnTypes, Turn, Labels
        <3>3. turn' \in [Threads -> Turn \cup {NoTurn}]
            BY <1>22, <3>2 DEF PopLang, Kept, Goto, store, objects, side, history, arrivals, TurnTypes
        <3>4. Proved!StoreInv'
            BY <1>22, StoreStutters DEF PopLang, Kept, Goto, store, objects, side, history, arrivals, TurnTypes
        <3>5. terms' \subseteq Ids /\ IsFiniteSet(terms')
            BY DEF TurnTypes
        <3>6. lang' \subseteq Ids /\ IsFiniteSet(lang')
            <4>1. IsFiniteSet(lang \cup {turn[t].cid})
                BY FS_AddElement DEF TurnTypes
            <4>2. QED
                BY <4>1, FS_Subset DEF TurnTypes
        <3>7. QED
            BY <3>3, <3>4, <3>5, <3>6 DEF TurnTypes
    <2>5. Issued'
        BY DEF Issued
    <2>6. Histories'
        BY DEF Histories, HistoryBounded, OwnHistoryOnly, Appending, WorksOn
    <2>7. Truncated'
        BY DEF Truncated
    <2>8. ResetKept'
        BY DEF ResetKept, AloneReset, WorksOn
    <2>9. QED
        BY <2>4, <2>5, <2>6, <2>7, <2>8
<1>23. CASE Respond(t)
    <2>1. Active(t) /\ turn[t].pc = "respond" /\ turn[t] \in Turn
        BY <1>1, <1>23 DEF Respond, Active
    <2>2. turn[t].cid \in issued /\ turn[t].cid \in Ids /\ creator[turn[t].cid] = turn[t].by
        BY <1>1, <2>1 DEF Issued
    <2>3. /\ \A u \in Threads \ {t} : turn'[u] = turn[u]
          /\ UNCHANGED <<table, messages, listNo, dropped, said, terms, lang, creator, wasReset, issued, reset>>
          /\ \A b \in Clients : known'[b] = IF b = turn[t].by THEN known[b] \cup {turn[t].cid} ELSE known[b]
          /\ turn'[t] = NoTurn
          /\ ~Active(t)'
        BY <1>23, <2>1, <2>2
           DEF Respond, store, objects, side, history, arrivals, TurnTypes, Turn, Active, NoTurn
    <2> USE <1>1, <2>1, <2>2, <2>3 DEF Active
    <2>4. TurnTypes'
        <3>1. turn' \in [Threads -> Turn \cup {NoTurn}]
            BY <1>23 DEF Respond, store, objects, side, history, arrivals, TurnTypes
        <3>2. Proved!StoreInv'
            BY <1>23, StoreStutters DEF Respond, store, objects, side, history, arrivals, TurnTypes
        <3>3. known' \in [Clients -> SUBSET Ids]
            BY <1>23 DEF Respond, store, objects, side, history, arrivals, TurnTypes
        <3>4. QED
            BY <3>1, <3>2, <3>3 DEF TurnTypes
    <2>5. Issued'
        <3>1. turn[t].cid \in issued /\ creator[turn[t].cid] = turn[t].by
            OBVIOUS
        <3>2. \A b \in Clients : \A c \in known'[b] : c \in issued /\ creator[c] = b
            <4> SUFFICES ASSUME NEW b \in Clients, NEW c \in known'[b] PROVE c \in issued /\ creator[c] = b
                OBVIOUS
            <4>1. CASE b = turn[t].by
                <5>1. c \in known[b] \/ c = turn[t].cid
                    BY <4>1
                <5>2. QED
                    BY <3>1, <4>1, <5>1 DEF Issued
            <4>2. CASE b # turn[t].by
                BY <4>2 DEF Issued
            <4>3. QED
                BY <4>1, <4>2
        <3>3. QED
            BY <3>2 DEF Issued
    <2>6. Histories'
        BY DEF Histories, HistoryBounded, OwnHistoryOnly, Appending, WorksOn
    <2>7. Truncated'
        BY DEF Truncated
    <2>8. ResetKept'
        BY DEF ResetKept, AloneReset, WorksOn
    <2>9. QED
        BY <2>4, <2>5, <2>6, <2>7, <2>8
<1>24. QED
    BY <1>2, <1>3, <1>4, <1>5, <1>6, <1>7, <1>8, <1>9, <1>10, <1>11, <1>12, <1>13, <1>14, <1>15, <1>16,
       <1>17, <1>18, <1>19, <1>20, <1>21, <1>22, <1>23 DEF TurnStep, Prune

\* Arrive: a turn starts with an id the browser may have.
LEMMA ArriveKeeps == ASSUME TurnsInv, NEW t \in Threads, Arrive(t) PROVE TurnsInv'
<1> USE TurnsAssumption DEF TurnsInv
<1>a. PICK b \in Clients : \E sent \in {NoId} \cup known[b] \cup Foreign :
          turn' = [turn EXCEPT ![t] =
              [pc |-> "lookup", by |-> b, cid |-> sent, kind |-> "reply",
               list |-> 0, excess |-> 0, visit |-> {}, gone |-> {}, size |-> 0]]
    BY DEF Arrive
<1>1. PICK sent \in {NoId} \cup known[b] \cup Foreign :
          turn' = [turn EXCEPT ![t] =
              [pc |-> "lookup", by |-> b, cid |-> sent, kind |-> "reply",
               list |-> 0, excess |-> 0, visit |-> {}, gone |-> {}, size |-> 0]]
    BY <1>a
<1>2. sent \in Ids \cup {NoId}
    BY DEF TurnTypes
<1>3. /\ \A u \in Threads \ {t} : turn'[u] = turn[u]
      /\ UNCHANGED <<table, messages, listNo, dropped, said, terms, lang, creator, wasReset, issued, reset, known>>
      /\ turn'[t].pc = "lookup" /\ turn'[t].by = b /\ turn'[t].cid = sent
    BY <1>1 DEF Arrive, store, objects, side, history, TurnTypes
<1>4. TurnTypes'
    <2>1. turn'[t] \in Turn
        <3>1. turn'[t] = [pc |-> "lookup", by |-> b, cid |-> sent, kind |-> "reply",
                          list |-> 0, excess |-> 0, visit |-> {}, gone |-> {}, size |-> 0]
            BY <1>1 DEF TurnTypes
        <3>2. QED
            BY <1>2, <3>1 DEF Turn, Labels
    <2>2. turn' \in [Threads -> Turn \cup {NoTurn}]
        BY <1>1, <2>1 DEF TurnTypes
    <2>3. Proved!StoreInv'
        BY StoreStutters DEF Arrive, TurnTypes
    <2>4. QED
        BY <1>3, <2>2, <2>3 DEF TurnTypes
<1>5. Issued'
    <2>1. (sent \in issued /\ creator[sent] = b) \/ sent \in Foreign \cup {NoId}
        BY DEF Issued
    <2>2. ASSUME NEW u \in Threads, Active(u)'
          PROVE  \/ turn'[u].cid \in issued /\ creator[turn'[u].cid] = turn'[u].by
                 \/ turn'[u].pc \in {"lookup", "create"} /\ turn'[u].cid \in Foreign \cup {NoId}
        <3>1. CASE u = t
            BY <1>3, <2>1, <3>1
        <3>2. CASE u # t
            BY <1>3, <2>2, <3>2 DEF Issued, Active
        <3>3. QED
            BY <3>1, <3>2
    <2>3. QED
        BY <1>3, <2>2 DEF Issued
<1>6. Histories'
    <2>1. ASSUME NEW c \in Ids, ~Appending(c)' PROVE ~Appending(c)
        <3> SUFFICES ASSUME NEW u \in Threads, WorksOn(u, c),
                            turn[u].pc \in {"assistant", "assistant_append", "measure", "overflow", "trim"}
                     PROVE  FALSE
            BY DEF Appending
        <3>1. u # t
            BY DEF Arrive, WorksOn
        <3>2. QED
            BY <1>3, <2>1, <3>1 DEF Appending, WorksOn, Active
    <2>2. QED
        BY <1>3, <2>1 DEF Histories, HistoryBounded, OwnHistoryOnly
<1>7. Truncated'
    BY <1>3 DEF Truncated, Active
<1>8. ResetKept'
    BY <1>3 DEF ResetKept, AloneReset, WorksOn, Active
<1>9. QED
    BY <1>4, <1>5, <1>6, <1>7, <1>8

\* The steps of a reset: between them, no turn gets hold of a conversation that
\* nobody worked on when it was deleted.
LEMMA DeleteKeeps == ASSUME TurnsInv, ResetDelete PROVE TurnsInv'
<1> USE TurnsAssumption DEF TurnsInv
<1>a. PICK b \in Clients : \E c \in known[b] :
          /\ Store!Delete(c)
          /\ reset' = [pc |-> "terms", cid |-> c,
                       how |-> IF \E t \in Threads : WorksOn(t, c) THEN "racing" ELSE "alone"]
    BY DEF ResetDelete
<1>1. PICK c \in known[b] :
          /\ Store!Delete(c)
          /\ reset' = [pc |-> "terms", cid |-> c,
                       how |-> IF \E t \in Threads : WorksOn(t, c) THEN "racing" ELSE "alone"]
    BY <1>a
<1>2. /\ reset.pc = "none" /\ c \in Ids /\ c \in issued
      /\ UNCHANGED <<messages, listNo, dropped, said, terms, lang, creator, wasReset, issued, turn, known>>
    BY <1>1 DEF ResetDelete, TurnTypes, objects, side, history, Issued
<1>3. /\ Proved!StoreInv' /\ ~Store!Has(table', c)
      /\ \A d \in Ids : Store!Has(table', d) => Store!Has(table, d)
    BY <1>1, <1>2, StoreEffects DEF TurnTypes
<1>4. /\ reset'.pc = "terms" /\ reset'.cid = c /\ reset'.how \in {"racing", "alone"}
      /\ reset'.how = "alone" => \A t \in Threads : ~WorksOn(t, c)
    BY <1>1
<1>5. TurnTypes'
    <2>1. reset' \in [pc : {"terms", "lang"}, cid : Ids, how : {"racing", "alone"}]
        BY <1>1, <1>2
    <2>2. QED
        BY <1>2, <1>3, <2>1 DEF TurnTypes
<1>6. Issued'
    BY <1>2, <1>3, <1>4 DEF Issued, Active
<1>7. Histories' /\ Truncated'
    BY <1>2 DEF Histories, HistoryBounded, OwnHistoryOnly, Appending, WorksOn, Active, Truncated
<1>8. ResetKept'
    <2>1. ASSUME NEW d \in Ids, AloneReset(d)' \/ wasReset'[d] = "alone"
          PROVE  /\ ~Store!Has(table', d)
                 /\ \A t \in Threads : WorksOn(t, d)' => turn'[t].pc \in {"lookup", "create"}
        <3>1. CASE AloneReset(d)'
            BY <1>2, <1>3, <1>4, <3>1 DEF AloneReset, WorksOn, Active
        <3>2. CASE wasReset'[d] = "alone"
            BY <1>2, <1>3, <3>2 DEF ResetKept, WorksOn, Active
        <3>3. QED
            BY <2>1, <3>1, <3>2
    <2>2. \A d \in Ids : AloneReset(d)' /\ reset'.pc = "lang" => d \notin terms'
        BY <1>4
    <2>3. \A d \in Ids : wasReset'[d] = "alone" => d \notin terms' \cup lang'
        BY <1>2 DEF ResetKept
    <2>4. QED
        BY <2>1, <2>2, <2>3 DEF ResetKept
<1>9. QED
    BY <1>5, <1>6, <1>7, <1>8

LEMMA ResetTermsKeeps == ASSUME TurnsInv, ResetTerms PROVE TurnsInv'
<1> USE TurnsAssumption DEF TurnsInv
<1>1. /\ reset.pc = "terms"
      /\ UNCHANGED <<table, messages, listNo, dropped, said, lang, creator, wasReset, issued, turn, known>>
      /\ terms' = terms \ {reset.cid}
    BY DEF ResetTerms, store, objects, history
<1>2. /\ reset \in [pc : {"terms", "lang"}, cid : Ids, how : {"racing", "alone"}]
      /\ reset' = [reset EXCEPT !.pc = "lang"]
    BY <1>1 DEF ResetTerms, TurnTypes, NoReset
<1>3. /\ reset'.pc = "lang" /\ reset'.cid = reset.cid /\ reset'.how = reset.how
      /\ reset' \in [pc : {"terms", "lang"}, cid : Ids, how : {"racing", "alone"}]
    BY <1>2
<1>4. TurnTypes'
    <2>1. Proved!StoreInv'
        BY StoreStutters DEF ResetTerms, TurnTypes
    <2>2. terms' \subseteq Ids /\ IsFiniteSet(terms')
        BY <1>1, FS_Subset DEF TurnTypes
    <2>3. QED
        BY <1>1, <1>3, <2>1, <2>2 DEF TurnTypes
<1>5. Issued' /\ Histories' /\ Truncated'
    BY <1>1, <1>3 DEF Issued, Histories, HistoryBounded, OwnHistoryOnly, Appending, WorksOn, Active, Truncated
<1>6. ResetKept'
    <2>1. \A d \in Ids : AloneReset(d)' <=> AloneReset(d)
        BY <1>1, <1>3 DEF AloneReset
    <2>2. \A d \in Ids : AloneReset(d)' => d \notin terms'
        BY <1>1, <1>3 DEF AloneReset
    <2>3. QED
        BY <1>1, <2>1, <2>2 DEF ResetKept, WorksOn, Active
<1>7. QED
    BY <1>4, <1>5, <1>6

LEMMA ResetLangKeeps == ASSUME TurnsInv, ResetLang PROVE TurnsInv'
<1> USE TurnsAssumption DEF TurnsInv
<1>1. /\ reset.pc = "lang" /\ reset' = NoReset
      /\ UNCHANGED <<table, messages, listNo, dropped, said, terms, creator, issued, turn, known>>
      /\ lang' = lang \ {reset.cid}
      /\ wasReset' = [wasReset EXCEPT ![reset.cid] = reset.how]
    BY DEF ResetLang, store, objects
<1>2. reset \in [pc : {"terms", "lang"}, cid : Ids, how : {"racing", "alone"}] /\ reset.cid \in issued
    BY <1>1 DEF TurnTypes, NoReset, Issued
<1>3. \A d \in Ids : wasReset'[d] = "alone" =>
          \/ d # reset.cid /\ wasReset[d] = "alone"
          \/ d = reset.cid /\ AloneReset(d) /\ reset.pc = "lang"
    BY <1>1, <1>2 DEF TurnTypes, AloneReset
<1>4. TurnTypes'
    <2>1. Proved!StoreInv'
        BY StoreStutters DEF ResetLang, TurnTypes
    <2>2. lang' \subseteq Ids /\ IsFiniteSet(lang')
        BY <1>1, FS_Subset DEF TurnTypes
    <2>3. wasReset' \in [Ids -> {"no", "racing", "alone"}]
        BY <1>1, <1>2 DEF TurnTypes
    <2>4. QED
        BY <1>1, <2>1, <2>2, <2>3 DEF TurnTypes
<1>5. Issued'
    <2>1. \A c \in Ids \ issued : messages[c] = <<>> /\ said[c] = 0 /\ wasReset'[c] = "no"
        BY <1>1, <1>2 DEF Issued, TurnTypes
    <2>2. reset'.pc = "none"
        BY <1>1 DEF NoReset
    <2>3. QED
        BY <1>1, <2>1, <2>2 DEF Issued, Active
<1>6. Histories' /\ Truncated'
    BY <1>1 DEF Histories, HistoryBounded, OwnHistoryOnly, Appending, WorksOn, Active, Truncated
<1>7. ResetKept'
    <2>1. \A d \in Ids : ~AloneReset(d)'
        BY <1>1 DEF AloneReset, NoReset
    <2>2. \A d \in Ids : wasReset'[d] = "alone" => AloneReset(d) \/ wasReset[d] = "alone"
        BY <1>3
    <2>3. \A d \in Ids : wasReset'[d] = "alone" => d \notin terms' \cup lang'
        BY <1>1, <1>3 DEF ResetKept
    <2>4. QED
        BY <1>1, <2>1, <2>2, <2>3 DEF ResetKept, WorksOn, Active
<1>8. QED
    BY <1>4, <1>5, <1>6, <1>7

LEMMA SameTurns ==
    ASSUME TurnsInv, Proved!StoreInv', table' = table,
           UNCHANGED <<objects, side, history, issued, turn, reset, known>>
    PROVE  TurnsInv'
<1>1. TurnTypes' /\ Issued'
    BY DEF TurnsInv, objects, side, history, TurnTypes, Issued, Active
<1>2. Histories' /\ Truncated'
    BY
       DEF TurnsInv, objects, side, history, Histories, HistoryBounded, OwnHistoryOnly, Appending,
           WorksOn, Active,
           Truncated
<1>3. ResetKept'
    BY DEF TurnsInv, objects, side, history, ResetKept, AloneReset, WorksOn, Active
<1>4. QED
    BY <1>1, <1>2, <1>3 DEF TurnsInv

LEMMA TurnsInit == Init => TurnsInv
<1> SUFFICES ASSUME Init PROVE TurnsInv
    OBVIOUS
<1> USE TurnsAssumption
<1>1. Proved!StoreInv
    BY Proved!StoreInit, StoreConstants DEF Init, Store!Init, Proved!Init
<1>2. TurnTypes
    BY <1>1, FS_EmptySet DEF Init, TurnTypes
<1>3. Issued
    BY DEF Init, Issued, Store!Init, Store!Has, Active, NoTurn, NoReset
<1>4. \A c \in Ids : Len(messages[c]) = 0
    BY EmptySeq DEF Init
<1>5. Histories
    <2>1. \A c \in Ids : 1..Len(messages[c]) = {}
        BY <1>4
    <2>2. QED
        BY <1>4, <2>1 DEF Histories, HistoryBounded, OwnHistoryOnly
<1>6. Truncated
    BY <1>4 DEF Init, Truncated, Active, NoTurn
<1>7. ResetKept
    BY DEF Init, ResetKept, AloneReset, NoReset
<1>8. QED
    BY <1>2, <1>3, <1>5, <1>6, <1>7 DEF TurnsInv

LEMMA TurnsNext == TurnsInv /\ [Next]_vars => TurnsInv'
<1> SUFFICES ASSUME TurnsInv, [Next]_vars PROVE TurnsInv'
    OBVIOUS
<1>1. ASSUME NEW t \in Threads, Arrive(t) \/ TurnStep(t) PROVE TurnsInv'
    BY <1>1, ArriveKeeps, TurnSteps
<1>2. CASE ResetDelete \/ ResetTerms \/ ResetLang
    BY <1>2, DeleteKeeps, ResetTermsKeeps, ResetLangKeeps
<1>3. CASE ClockTicks
    <2>1. PICK k \in Times : Store!Tick(k)
        BY <1>3 DEF ClockTicks
    <2>2. Proved!StoreInv' /\ table' = table
        BY <2>1, StoreTicks DEF TurnsInv, TurnTypes
    <2>3. QED
        BY <1>3, <2>2, SameTurns DEF ClockTicks
<1>4. CASE UNCHANGED vars
    <2>1. UNCHANGED store /\ UNCHANGED <<objects, side, history, issued, turn, reset, known>>
        BY <1>4 DEF vars
    <2>2. Proved!StoreInv' /\ table' = table
        BY <2>1, StoreStutters DEF TurnsInv, TurnTypes, store
    <2>3. QED
        BY <2>1, <2>2, SameTurns
<1>5. QED
    BY <1>1, <1>2, <1>3, <1>4 DEF Next

-----------------------------------------------------------------------------
(***************************************************************************)
(* The theorems.                                                           *)
(***************************************************************************)

\* The inductive invariant holds in every state of every instance: any number
\* of browsers, threads and ids, any history cap and store limits.
THEOREM TurnsCorrect == Spec => []TurnsInv
<1>1. Init => TurnsInv
    BY TurnsInit
<1>2. TurnsInv /\ [Next]_vars => TurnsInv'
    BY TurnsNext
<1>3. QED
    BY <1>1, <1>2, PTL DEF Spec

\* "so a conversation cannot grow the prompt unbounded" (the module docstring
\* of manager.py): once no turn is appending to it, a history is within
\* max_history_messages, however many turns race on it.
THEOREM HistoryStaysBounded == Spec => []HistoryBounded
<1>1. TurnsInv => HistoryBounded
    BY DEF TurnsInv, Histories
<1>2. QED
    BY <1>1, TurnsCorrect, PTL

\* get_or_create's promise: whatever ids the browsers send, a history holds
\* only words of turns of the browser its conversation was created for.
THEOREM NoForeignWords == Spec => []OwnHistoryOnly
<1>1. TurnsInv => OwnHistoryOnly
    BY DEF TurnsInv, Histories
<1>2. QED
    BY <1>1, TurnsCorrect, PTL

\* dropped_messages is zero exactly while append_turn has dropped nothing, also
\* when turns lose messages to each other: a recall question is answered as
\* complete only when the history is.
THEOREM TruncationIsHonest == Spec => []HonestTruncation
<1>1. TurnsInv => HonestTruncation
    <2> SUFFICES ASSUME TurnsInv, NEW c \in Ids PROVE dropped[c] = 0 <=> Len(messages[c]) = said[c]
        BY DEF HonestTruncation
    <2>1. dropped[c] \in Nat /\ said[c] \in Nat /\ Len(messages[c]) \in Nat
        BY LenProperties DEF TurnsInv, TurnTypes
    <2>2. Len(messages[c]) <= said[c] /\ (dropped[c] > 0 <=> Len(messages[c]) < said[c])
        BY DEF TurnsInv, Truncated
    <2>3. QED
        BY <2>1, <2>2
<1>2. QED
    BY <1>1, TurnsCorrect, PTL

\* reset_conversation: a conversation that was reset while no turn worked on it
\* stays out of the store and of both side dicts for good.
THEOREM ResetStaysFinal == Spec => []ResetIsFinal
<1>1. TurnsInv => ResetIsFinal
    BY DEF TurnsInv, ResetKept, ResetIsFinal, Cleared
<1>2. QED
    BY <1>1, TurnsCorrect, PTL

-----------------------------------------------------------------------------
(***************************************************************************)
(* How much the side state can hold.  A prune that reads a dict keeps, of  *)
(* what nobody added since, at most the keys it saw alive and those it may *)
(* still find alive: conversations in the table, or held by a turn that    *)
(* may save them again.  Who adds a key checks the limit afterwards.       *)
(***************************************************************************)
Alive == {c \in Ids : Store!Has(table, c)}
Holds(u) == turn[u].pc \notin {"none", "lookup", "create"}
HeldByOthers(t) == {turn[u].cid : u \in {v \in Threads \ {t} : Holds(v)}}
Reach(t) == Alive \cup HeldByOthers(t)
Remaining(t, keys) == (keys \ (turn[t].visit \cup turn[t].gone)) \cup (turn[t].visit \cap Reach(t))
Pruning(t) == turn[t].pc \in {"visit_terms", "visit_lang"}

Allowed == MaxConversations + IF overlapped THEN Cardinality(Threads) - 1 ELSE 0
Few(keys) == Cardinality(keys) <= Allowed

OnlyIssued == terms \cup lang \subseteq issued /\ \A t \in Threads : Pruning(t) => turn[t].visit \subseteq issued
OneAtATime == IF overlapped THEN Threads # {} ELSE \A t, u \in Threads : Active(t) /\ Active(u) => t = u

WillCheck(t) == turn[t].pc \in {"lang", "prune"}
Checked == \/ ~OverSideLimit
           \/ \E t \in Threads : turn[t].pc = "visit_terms" /\ Few(Remaining(t, terms))
           \/ Few(terms) /\ \E t \in Threads : turn[t].pc = "visit_lang" /\ Few(Remaining(t, lang))
           \/ Few(terms) /\ Few(lang)
SideInv == OnlyIssued /\ OneAtATime /\ (raised \/ (\E t \in Threads : WillCheck(t)) \/ Checked)

-----------------------------------------------------------------------------
(***************************************************************************)
(* The counting.                                                           *)
(***************************************************************************)
LEMMA AllowedIsNat == IsFiniteSet(Threads) /\ Cardinality(Threads) \in Nat /\ Allowed \in Int
    BY TurnsAssumption, FS_CardinalityType DEF Allowed

\* The table has at most its limit of conversations.
LEMMA AliveAreFew == ASSUME TurnsInv PROVE IsFiniteSet(Alive) /\ Cardinality(Alive) <= MaxConversations
<1>1. table \in Seq(Proved!Entry) /\ Len(table) <= MaxConversations
    BY Proved!StoreInvParts, StoreConstants DEF TurnsInv, TurnTypes, Proved!TypeOK, Proved!Bounded
<1>2. PICK n \in Nat : n = Len(table)
    BY <1>1, LenProperties
<1>3. \A i \in 1..n : table[i].cid \in Ids
    <2>1. \A e \in Proved!Entry : e.cid \in Ids
        BY DEF Proved!Entry
    <2> QED
        BY <1>1, <1>2, <2>1, ElementOfSeq
<1>4. PICK f : f = [i \in 1..n |-> table[i].cid]
    OBVIOUS
<1>5. \A c \in Alive : \E i \in 1..n : table[i].cid = c
    BY <1>2 DEF Alive, Store!Has
<1>6. Alive = {c \in Ids : \E i \in 1..n : table[i].cid = c}
    BY <1>2 DEF Alive, Store!Has
<1>7. f \in Surjection(1..n, Alive)
    BY <1>3, <1>4, <1>5, <1>6 DEF Surjection
<1>8. IsFiniteSet(1..n) /\ Cardinality(1..n) = n
    BY FS_Interval
<1>9. IsFiniteSet(Alive) /\ Cardinality(Alive) <= n
    BY <1>7, <1>8, FS_Surjection
<1>10. Cardinality(Alive) \in Nat
    BY <1>9, FS_CardinalityType
<1> QED
    BY <1>1, <1>2, <1>9, <1>10, TurnsAssumption

\* The other threads hold at most one each.
LEMMA HeldAreFew ==
    ASSUME TurnsInv, NEW t \in Threads
    PROVE  IsFiniteSet(HeldByOthers(t)) /\ Cardinality(HeldByOthers(t)) <= Cardinality(Threads) - 1
<1>1. PICK H : H = {v \in Threads \ {t} : Holds(v)}
    OBVIOUS
<1>2. IsFiniteSet(Threads \ {t}) /\ Cardinality(Threads \ {t}) = Cardinality(Threads) - 1
    BY AllowedIsNat, FS_RemoveElement
<1>3. IsFiniteSet(H) /\ Cardinality(H) <= Cardinality(Threads \ {t})
    BY <1>1, <1>2, FS_Subset
<1>4. PICK f : f = [u \in H |-> turn[u].cid]
    OBVIOUS
<1>5. HeldByOthers(t) = {turn[u].cid : u \in H}
    BY <1>1 DEF HeldByOthers
<1>6. f \in Surjection(H, HeldByOthers(t))
    BY <1>4, <1>5 DEF Surjection
<1>7. IsFiniteSet(HeldByOthers(t)) /\ Cardinality(HeldByOthers(t)) <= Cardinality(H)
    BY <1>3, <1>6, FS_Surjection
<1>8. Cardinality(HeldByOthers(t)) \in Nat /\ Cardinality(H) \in Nat /\ Cardinality(Threads) \in Nat
    BY <1>3, <1>7, AllowedIsNat, FS_CardinalityType
<1> QED
    BY <1>2, <1>3, <1>7, <1>8

\* What a turn may find alive is few.
LEMMA ReachIsFew ==
    ASSUME TurnsInv, OneAtATime, NEW t \in Threads, Active(t)
    PROVE  IsFiniteSet(Reach(t)) /\ Few(Reach(t))
<1>1. IsFiniteSet(Alive) /\ Cardinality(Alive) <= MaxConversations /\ Cardinality(Alive) \in Nat
    BY AliveAreFew, FS_CardinalityType
<1>2. /\ IsFiniteSet(HeldByOthers(t)) /\ Cardinality(HeldByOthers(t)) <= Cardinality(Threads) - 1
      /\ Cardinality(HeldByOthers(t)) \in Nat
    BY HeldAreFew, FS_CardinalityType
<1>3. IsFiniteSet(Reach(t)) /\ Cardinality(Reach(t)) <= Cardinality(Alive) + Cardinality(HeldByOthers(t))
    <2>1. IsFiniteSet(Alive \cap HeldByOthers(t))
        BY <1>1, FS_Intersection
    <2>2. Cardinality(Alive \cap HeldByOthers(t)) \in Nat
        BY <2>1, FS_CardinalityType
    <2>3. PICK A, H : A = Alive /\ H = HeldByOthers(t)
        OBVIOUS
    <2>4. IsFiniteSet(A \cup H) /\ Cardinality(A \cup H) = Cardinality(A) + Cardinality(H) - Cardinality(A \cap H)
        BY <1>1, <1>2, <2>3, FS_Union
    <2> QED
        BY <1>1, <1>2, <2>2, <2>3, <2>4 DEF Reach
<1>4. Cardinality(Reach(t)) \in Nat
    BY <1>3, FS_CardinalityType
<1>5. CASE overlapped
    BY <1>1, <1>2, <1>3, <1>4, <1>5, AllowedIsNat, TurnsAssumption DEF Few, Allowed
<1>6. CASE ~overlapped
    <2>1. HeldByOthers(t) = {}
        BY <1>6 DEF OneAtATime, HeldByOthers, Holds, Active
    <2>2. Cardinality(HeldByOthers(t)) = 0
        BY <2>1, FS_EmptySet
    <2> QED
        BY <1>1, <1>3, <1>4, <1>6, <2>2, TurnsAssumption DEF Few, Allowed
<1> QED
    BY <1>3, <1>5, <1>6

LEMMA FewerAreFew ==
    ASSUME NEW S, IsFiniteSet(S), NEW T \in SUBSET S, Cardinality(S) <= Allowed, Allowed <= Allowed'
    PROVE  IsFiniteSet(T) /\ Cardinality(T) <= Allowed' /\ Cardinality(T) <= Allowed
<1>1. IsFiniteSet(T) /\ Cardinality(T) <= Cardinality(S) /\ Cardinality(S) \in Nat
    BY FS_Subset, FS_CardinalityType
<1>2. Cardinality(T) \in Nat
    BY <1>1, FS_CardinalityType
<1>3. Allowed \in Int
    BY AllowedIsNat
<1>4. Allowed' \in Int
    BY AllowedIsNat, TurnsAssumption DEF Allowed
<1> QED
    BY <1>1, <1>2, <1>3, <1>4

LEMMA SideIsFinite ==
    ASSUME TurnsInv
    PROVE  /\ terms \in SUBSET Ids /\ IsFiniteSet(terms) /\ Cardinality(terms) \in Nat
           /\ lang \in SUBSET Ids /\ IsFiniteSet(lang) /\ Cardinality(lang) \in Nat
    BY FS_CardinalityType DEF TurnsInv, TurnTypes

LEMMA RemainingIsFinite ==
    ASSUME TurnsInv, NEW t \in Threads, NEW keys, IsFiniteSet(keys)
    PROVE  IsFiniteSet(Remaining(t, keys))
<1>1. IsFiniteSet(Reach(t))
    BY AliveAreFew, HeldAreFew, FS_Union DEF Reach
<1>2. IsFiniteSet(keys \cup Reach(t))
    BY <1>1, FS_Union
<1>3. Remaining(t, keys) \in SUBSET (keys \cup Reach(t))
    BY DEF Remaining
<1> QED
    BY <1>2, <1>3, FS_Subset

\* A prune goes on: what it has yet to see becomes less, what it knows to be gone more, and a key it saw was within its reach.
Narrows(t) ==
    /\ turn'[t].visit \subseteq turn[t].visit /\ turn[t].gone \subseteq turn'[t].gone
    /\ turn[t].visit \ turn'[t].visit \subseteq turn'[t].gone \cup Reach(t)
    /\ turn'[t].visit \cap Reach(t)' \subseteq Reach(t)

LEMMA RemainingNarrows ==
    ASSUME TurnsInv, NEW t \in Threads, NEW keys, IsFiniteSet(keys), NEW left \in SUBSET keys,
           Narrows(t), Few(Remaining(t, keys)), Allowed <= Allowed'
    PROVE  Cardinality((left \ (turn'[t].visit \cup turn'[t].gone)) \cup (turn'[t].visit \cap Reach(t)')) <= Allowed'
<1>1. PICK R : R = (left \ (turn'[t].visit \cup turn'[t].gone)) \cup (turn'[t].visit \cap Reach(t)')
    OBVIOUS
<1>2. R \in SUBSET Remaining(t, keys)
    BY <1>1 DEF Narrows, Remaining
<1>3. IsFiniteSet(Remaining(t, keys)) /\ Cardinality(Remaining(t, keys)) <= Allowed
    BY RemainingIsFinite DEF Few
<1> QED
    BY <1>1, <1>2, <1>3, FewerAreFew

\* Nobody adds a key, and the prunes go on, but for those of E.
LEMMA SideNarrowsBut ==
    ASSUME NEW E \in SUBSET Threads, TurnsInv, TurnsInv', SideInv, raised => raised', terms' \subseteq terms, lang' \subseteq lang,
           OnlyIssued', OneAtATime', Allowed <= Allowed',
           \A t \in Threads : WillCheck(t) => WillCheck(t)',
           \A t \in Threads \ E : Pruning(t) => turn'[t].pc = turn[t].pc /\ Narrows(t)
    PROVE  \/ SideInv'
           \/ \E t \in E : turn[t].pc = "visit_terms" /\ Few(Remaining(t, terms))
           \/ Few(terms)' /\ \E t \in E : turn[t].pc = "visit_lang" /\ Few(Remaining(t, lang))
<1>1. /\ IsFiniteSet(terms) /\ Cardinality(terms) \in Nat /\ IsFiniteSet(lang) /\ Cardinality(lang) \in Nat
      /\ Cardinality(terms') \in Nat /\ Cardinality(lang') \in Nat
      /\ Cardinality(terms') <= Cardinality(terms) /\ Cardinality(lang') <= Cardinality(lang)
    <2>1. IsFiniteSet(terms) /\ Cardinality(terms) \in Nat /\ IsFiniteSet(lang) /\ Cardinality(lang) \in Nat
        BY SideIsFinite
    <2>2. terms' \in SUBSET terms /\ lang' \in SUBSET lang
        OBVIOUS
    <2>3. /\ IsFiniteSet(terms') /\ Cardinality(terms') <= Cardinality(terms)
          /\ IsFiniteSet(lang') /\ Cardinality(lang') <= Cardinality(lang)
        BY <2>1, <2>2, FS_Subset
    <2> QED
        BY <2>1, <2>3, FS_CardinalityType
<1>2. CASE raised \/ \E t \in Threads : WillCheck(t)
    BY <1>2 DEF SideInv
<1>3. CASE ~OverSideLimit
    <2>1. ~OverSideLimit'
        BY <1>1, <1>3, TurnsAssumption DEF OverSideLimit
    <2> QED
        BY <2>1 DEF SideInv, Checked
<1>4. CASE \E t \in Threads : turn[t].pc = "visit_terms" /\ Few(Remaining(t, terms))
    <2>1. PICK t \in Threads : turn[t].pc = "visit_terms" /\ Few(Remaining(t, terms))
        BY <1>4
    <2>2. CASE t \in E
        BY <2>1, <2>2
    <2>3. CASE t \notin E
        <3>1. turn'[t].pc = "visit_terms" /\ Narrows(t)
            BY <2>1, <2>3 DEF Pruning
        <3>2. Few(Remaining(t, terms))'
            BY <1>1, <2>1, <3>1, RemainingNarrows DEF Few, Remaining
        <3> QED
            BY <3>1, <3>2 DEF SideInv, Checked
    <2> QED
        BY <2>2, <2>3
<1>5. ASSUME Few(terms) PROVE Few(terms)'
    BY <1>1, <1>5, FewerAreFew DEF Few
<1>6. ASSUME Few(lang) PROVE Few(lang)'
    BY <1>1, <1>6, FewerAreFew DEF Few
<1>7. CASE Few(terms) /\ \E t \in Threads : turn[t].pc = "visit_lang" /\ Few(Remaining(t, lang))
    <2>1. PICK t \in Threads : turn[t].pc = "visit_lang" /\ Few(Remaining(t, lang))
        BY <1>7
    <2>2. CASE t \in E
        BY <1>5, <1>7, <2>1, <2>2
    <2>3. CASE t \notin E
        <3>1. turn'[t].pc = "visit_lang" /\ Narrows(t)
            BY <2>1, <2>3 DEF Pruning
        <3>2. Few(Remaining(t, lang))'
            BY <1>1, <2>1, <3>1, RemainingNarrows DEF Few, Remaining
        <3> QED
            BY <1>5, <1>7, <3>1, <3>2 DEF SideInv, Checked
    <2> QED
        BY <2>2, <2>3
<1>8. CASE Few(terms) /\ Few(lang)
    BY <1>5, <1>6, <1>8 DEF SideInv, Checked
<1> QED
    BY <1>2, <1>3, <1>4, <1>7, <1>8 DEF SideInv, Checked

LEMMA SideNarrows ==
    ASSUME TurnsInv, TurnsInv', SideInv, raised => raised', terms' \subseteq terms, lang' \subseteq lang,
           OnlyIssued', OneAtATime', Allowed <= Allowed',
           \A t \in Threads : WillCheck(t) => WillCheck(t)',
           \A t \in Threads : Pruning(t) => turn'[t].pc = turn[t].pc /\ Narrows(t)
    PROVE  SideInv'
<1>1. PICK E : E = {}
    OBVIOUS
<1>2. E \in SUBSET Threads
    BY <1>1
<1> QED
    BY <1>1, <1>2, SideNarrowsBut

-----------------------------------------------------------------------------
(***************************************************************************)
(* The steps.                                                              *)
(***************************************************************************)
LEMMA AllowedStays == ASSUME UNCHANGED overlapped PROVE Allowed <= Allowed'
    BY AllowedIsNat DEF Allowed

LEMMA HoldersAreIssued ==
    ASSUME TurnsInv, NEW t \in Threads, Holds(t)
    PROVE  Active(t) /\ turn[t].cid \in issued
    BY DEF TurnsInv, Issued, Holds, Active

\* A turn goes to its next step.
LEMMA Moves ==
    ASSUME TurnsInv, NEW t \in Threads, Active(t), NEW label, Goto(t, label)
    PROVE  /\ turn'[t].pc = label /\ turn'[t].cid = turn[t].cid
           /\ \A u \in Threads \ {t} : turn'[u] = turn[u]
<1>1. turn[t] \in Turn /\ DOMAIN turn = Threads
    BY ActiveTurn DEF TurnsInv, TurnTypes
<1>2. PICK r : r = turn[t]
    OBVIOUS
<1>3. turn' = [turn EXCEPT ![t] = [r EXCEPT !.pc = label]]
    BY <1>2 DEF Goto
<1>4. [r EXCEPT !.pc = label].pc = label /\ [r EXCEPT !.pc = label].cid = r.cid
    BY <1>1, <1>2 DEF Turn
<1> QED
    BY <1>1, <1>2, <1>3, <1>4

\* A step of one turn that neither adds a key nor prunes.
LEMMA TurnElsewhere ==
    ASSUME TurnsInv, TurnsInv', SideInv, NEW t \in Threads, Active(t), ~WillCheck(t), ~Pruning(t), ~Pruning(t)',
           UNCHANGED <<terms, lang, raised, overlapped>>, issued \subseteq issued',
           \A u \in Threads \ {t} : turn'[u] = turn[u],
           \A c \in issued : Store!Has(table', c) => Store!Has(table, c) \/ (Holds(t) /\ c = turn[t].cid),
           Holds(t)' => \/ turn'[t].cid \notin issued \/ Store!Has(table, turn'[t].cid)
                        \/ Holds(t) /\ turn'[t].cid = turn[t].cid
    PROVE  SideInv'
<1>1. OnlyIssued'
    BY DEF SideInv, OnlyIssued, Pruning
<1>2. OneAtATime'
    BY DEF SideInv, OneAtATime, Active
<1>3. ASSUME NEW u \in Threads, Pruning(u) PROVE turn'[u].pc = turn[u].pc /\ Narrows(u)
    <2>1. u # t /\ turn'[u] = turn[u] /\ turn[u].visit \subseteq issued
        BY <1>3 DEF SideInv, OnlyIssued
    <2>2. ASSUME NEW c \in turn[u].visit, c \in Reach(u)' PROVE c \in Reach(u)
        <3>1. c \in issued /\ issued \subseteq Ids /\ c \in Ids
            BY <2>1, <2>2 DEF TurnsInv, TurnTypes
        <3>2. CASE Store!Has(table', c)
            BY <2>1, <3>1, <3>2 DEF Reach, Alive, HeldByOthers
        <3>3. CASE c \in HeldByOthers(u)'
            <4>1. PICK v \in Threads \ {u} : Holds(v)' /\ c = turn'[v].cid
                BY <3>3 DEF HeldByOthers
            <4>2. CASE v = t
                <5>1. Store!Has(table, c) \/ (Holds(t) /\ c = turn[t].cid)
                    BY <3>1, <4>1, <4>2
                <5> QED
                    BY <2>1, <3>1, <5>1 DEF Reach, Alive, HeldByOthers
            <4>3. CASE v # t
                <5>1. Holds(v) /\ c = turn[v].cid
                    BY <4>1, <4>3 DEF Holds
                <5> QED
                    BY <4>1, <5>1 DEF Reach, HeldByOthers
            <4> QED
                BY <4>2, <4>3
        <3> QED
            BY <2>2, <3>2, <3>3 DEF Reach, Alive
    <2> QED
        BY <2>1, <2>2 DEF Narrows
<1>4. \A u \in Threads : WillCheck(u) => WillCheck(u)'
    BY DEF WillCheck
<1> QED
    BY <1>1, <1>2, <1>3, <1>4, AllowedStays, SideNarrows

\* The turns do not move, and nothing becomes alive.
LEMMA NoTurnMoves ==
    ASSUME TurnsInv, TurnsInv', SideInv, UNCHANGED <<turn, raised, overlapped, issued>>, terms' \subseteq terms, lang' \subseteq lang,
           \A c \in Ids : Store!Has(table', c) => Store!Has(table, c)
    PROVE  SideInv'
<1>1. OnlyIssued' /\ OneAtATime'
    BY DEF SideInv, OnlyIssued, Pruning, OneAtATime, Active
<1>2. \A t \in Threads : Pruning(t) => turn'[t].pc = turn[t].pc /\ Narrows(t)
    BY DEF Narrows, Reach, Alive, HeldByOthers, Holds
<1>3. \A t \in Threads : WillCheck(t) => WillCheck(t)'
    BY DEF WillCheck
<1> QED
    BY <1>1, <1>2, <1>3, AllowedStays, SideNarrows

\* A key is added by a turn that checks the limit afterwards.
LEMMA NotesKeepSide ==
    ASSUME TurnsInv, TurnsInv', SideInv, NEW t \in Threads, NoteTerms(t) \/ NoteLanguage(t)
    PROVE  SideInv'
<1>1. /\ turn[t].pc \in {"terms", "lang"} /\ \A u \in Threads \ {t} : turn'[u] = turn[u]
      /\ turn'[t].pc \in {"lang", "prune"} /\ UNCHANGED <<issued, raised, overlapped>>
      /\ terms' \subseteq terms \cup {turn[t].cid} /\ lang' \subseteq lang \cup {turn[t].cid}
    <2>1. CASE NoteTerms(t)
        <3>1. turn[t].pc = "terms" /\ Goto(t, "lang") /\ UNCHANGED <<lang, issued, raised, overlapped>>
              /\ terms' \in {terms \cup {turn[t].cid}, terms \ {turn[t].cid}, terms}
            BY <2>1 DEF NoteTerms, history, arrivals
        <3> QED
            BY <3>1, Moves DEF Active
    <2>2. CASE NoteLanguage(t)
        <3>1. turn[t].pc = "lang" /\ Goto(t, "prune") /\ UNCHANGED <<terms, issued, raised, overlapped>>
              /\ lang' \in {lang \cup {turn[t].cid}, lang \ {turn[t].cid}}
            BY <2>2 DEF NoteLanguage, history, arrivals
        <3> QED
            BY <3>1, Moves DEF Active
    <2> QED
        BY <2>1, <2>2
<1>2. turn[t].cid \in issued /\ Active(t)
    BY <1>1, HoldersAreIssued DEF Holds
<1>3. OnlyIssued'
    <2>1. \A u \in Threads : Pruning(u)' => u # t
        BY <1>1 DEF Pruning
    <2> QED
        BY <1>1, <1>2, <2>1 DEF SideInv, OnlyIssued, Pruning
<1>4. OneAtATime'
    BY <1>1, <1>2 DEF SideInv, OneAtATime, Active
<1>5. WillCheck(t)'
    BY <1>1 DEF WillCheck
<1> QED
    BY <1>3, <1>4, <1>5 DEF SideInv

LEMMA QuietMove ==
    ASSUME TurnsInv, TurnsInv', SideInv, NEW t \in Threads, Holds(t), ~WillCheck(t), ~Pruning(t),
           NEW r, turn' = [turn EXCEPT ![t] = r], r.pc \notin {"visit_terms", "visit_lang"}, r = NoTurn \/ r.cid = turn[t].cid,
           UNCHANGED <<table, terms, lang, raised, overlapped, issued>>
    PROVE  SideInv'
<1>1. DOMAIN turn = Threads /\ Active(t)
    BY HoldersAreIssued DEF TurnsInv, TurnTypes
<1>2. turn'[t] = r /\ \A u \in Threads \ {t} : turn'[u] = turn[u]
    BY <1>1
<1>3. ~Pruning(t)'
    BY <1>2 DEF Pruning
<1>4. Holds(t)' => turn'[t].cid = turn[t].cid
    BY <1>2 DEF Holds, NoTurn
<1> QED
    BY <1>1, <1>2, <1>3, <1>4, TurnElsewhere

\* The steps between the answer and the trim, and the response, leave the store alone.
LEMMA QuietStepsKeepSide ==
    ASSUME TurnsInv, TurnsInv', SideInv, NEW t \in Threads,
           \/ Answer(t) \/ FetchForUser(t) \/ AppendUser(t) \/ FetchForAssistant(t) \/ AppendAssistant(t)
           \/ Measure(t) \/ Overflow(t) \/ Trim(t) \/ Respond(t)
    PROVE  SideInv'
<1>1. UNCHANGED <<table, terms, lang, raised, overlapped, issued>>
    BY DEF Answer, FetchForUser, AppendUser, FetchForAssistant, AppendAssistant, FetchList, AppendTo, Measure, Overflow, Trim,
           Respond, store, side, history, arrivals
<1>2. turn[t].pc \in {"answer", "user", "user_append", "assistant", "assistant_append", "measure", "overflow", "trim", "respond"}
    BY DEF Answer, FetchForUser, AppendUser, FetchForAssistant, AppendAssistant, FetchList, AppendTo, Measure, Overflow, Trim, Respond
<1>3. Holds(t) /\ ~WillCheck(t) /\ ~Pruning(t) /\ Active(t)
    BY <1>2 DEF Holds, WillCheck, Pruning, Active
<1>4. PICK j : j = turn[t]
    OBVIOUS
<1>5. j \in Turn
    BY <1>3, <1>4, ActiveTurn DEF TurnsInv
<1>6. \E r : turn' = [turn EXCEPT ![t] = r] /\ r.pc \notin {"visit_terms", "visit_lang"} /\ (r = NoTurn \/ r.cid = j.cid)
    <2>1. ASSUME NEW label, label \notin {"visit_terms", "visit_lang"}, Goto(t, label)
          PROVE  \E r : /\ turn' = [turn EXCEPT ![t] = r] /\ r.pc \notin {"visit_terms", "visit_lang"}
                        /\ r = NoTurn \/ r.cid = j.cid
        <3>1. PICK r : r = [j EXCEPT !.pc = label]
            OBVIOUS
        <3>2. turn' = [turn EXCEPT ![t] = r] /\ r.pc = label /\ r.cid = j.cid
            BY <1>4, <1>5, <2>1, <3>1 DEF Goto, Turn
        <3> QED
            BY <2>1, <3>2
    <2>2. CASE AppendUser(t) \/ AppendAssistant(t) \/ Measure(t) \/ Trim(t)
        BY <2>1, <2>2 DEF AppendUser, AppendAssistant, AppendTo, Measure, Trim
    <2>3. CASE Answer(t)
        <3>1. CASE Goto(t, "respond")
            BY <2>1, <3>1
        <3>2. CASE \E k \in {"reply", "fixed"} : turn' = [turn EXCEPT ![t].kind = k, ![t].pc = "user"]
            <4>1. PICK k \in {"reply", "fixed"} : turn' = [turn EXCEPT ![t].kind = k, ![t].pc = "user"]
                BY <3>2
            <4>2. PICK r : r = [j EXCEPT !.kind = k, !.pc = "user"]
                OBVIOUS
            <4>3. turn' = [turn EXCEPT ![t] = r] /\ r.pc = "user" /\ r.cid = j.cid
                BY <1>4, <1>5, <4>1, <4>2 DEF Turn
            <4> QED
                BY <4>3
        <3> QED
            BY <2>3, <3>1, <3>2 DEF Answer
    <2>4. CASE FetchForUser(t) \/ FetchForAssistant(t)
        <3>1. PICK to \in {"user_append", "assistant_append"} : turn' = [turn EXCEPT ![t].list = listNo[turn[t].cid], ![t].pc = to]
            BY <2>4 DEF FetchForUser, FetchForAssistant, FetchList
        <3>2. PICK r : r = [j EXCEPT !.list = listNo[turn[t].cid], !.pc = to]
            OBVIOUS
        <3>3. turn' = [turn EXCEPT ![t] = r] /\ r.pc = to /\ r.cid = j.cid
            BY <1>4, <1>5, <3>1, <3>2 DEF Turn
        <3> QED
            BY <3>3
    <2>5. CASE Overflow(t)
        <3>1. PICK r : r = [j EXCEPT !.excess = Len(messages[turn[t].cid]) - MaxHistory, !.pc = "trim"]
            OBVIOUS
        <3>2. turn' = [turn EXCEPT ![t] = r] /\ r.pc = "trim" /\ r.cid = j.cid
            BY <1>4, <1>5, <2>5, <3>1 DEF Overflow, Turn
        <3> QED
            BY <3>2
    <2>6. CASE Respond(t)
        BY <2>6 DEF Respond, NoTurn
    <2> QED
        BY <2>2, <2>3, <2>4, <2>5, <2>6
<1> QED
    BY <1>1, <1>3, <1>4, <1>6, QuietMove

\* The steps of a turn that use the store.
LEMMA StoreStepsKeepSide ==
    ASSUME TurnsInv, TurnsInv', SideInv, NEW t \in Threads, Continue(t) \/ LookupFails(t) \/ Create(t) \/ SaveTurn(t)
    PROVE  SideInv'
<1>1. Proved!StoreInv /\ DOMAIN turn = Threads /\ issued \subseteq Ids
    BY DEF TurnsInv, TurnTypes
<1>2. CASE Continue(t)
    <2>1. /\ turn[t].pc = "lookup" /\ turn[t].cid \in Ids /\ Store!GetHit(turn[t].cid) /\ Goto(t, "answer")
          /\ UNCHANGED <<terms, lang, raised, overlapped, issued>>
        BY <1>2 DEF Continue, side, history, arrivals
    <2>2. Active(t) /\ ~WillCheck(t) /\ ~Pruning(t)
        BY <2>1 DEF Active, WillCheck, Pruning
    <2>3. turn'[t].pc = "answer" /\ turn'[t].cid = turn[t].cid /\ \A u \in Threads \ {t} : turn'[u] = turn[u]
        BY <2>1, <2>2, Moves
    <2>4. Store!Has(table, turn[t].cid) /\ \A c \in Ids : Store!Has(table', c) => Store!Has(table, c)
        BY <1>1, <2>1, StoreEffects
    <2>5. ~Pruning(t)'
        BY <2>3 DEF Pruning
    <2> QED
        BY <1>1, <2>1, <2>2, <2>3, <2>4, <2>5, TurnElsewhere
<1>3. CASE LookupFails(t)
    <2>1. /\ turn[t].pc = "lookup" /\ Goto(t, "create")
          /\ IF turn[t].cid \in Ids THEN Store!GetMiss(turn[t].cid) ELSE UNCHANGED store
          /\ UNCHANGED <<terms, lang, raised, overlapped, issued>>
        BY <1>3 DEF LookupFails, side, history, arrivals
    <2>2. Active(t) /\ ~WillCheck(t) /\ ~Pruning(t)
        BY <2>1 DEF Active, WillCheck, Pruning
    <2>3. turn'[t].pc = "create" /\ \A u \in Threads \ {t} : turn'[u] = turn[u]
        BY <2>1, <2>2, Moves
    <2>4. \A c \in Ids : Store!Has(table', c) => Store!Has(table, c)
        <3>1. CASE turn[t].cid \in Ids
            BY <1>1, <2>1, <3>1, StoreEffects
        <3>2. CASE turn[t].cid \notin Ids
            BY <2>1, <3>2 DEF store
        <3> QED
            BY <3>1, <3>2
    <2>5. ~Pruning(t)' /\ ~Holds(t)'
        BY <2>3 DEF Pruning, Holds
    <2> QED
        BY <1>1, <2>1, <2>2, <2>3, <2>4, <2>5, TurnElsewhere
<1>4. CASE Create(t)
    <2>1. PICK c \in Ids \ (issued \cup Foreign) :
            /\ turn[t].pc = "create" /\ issued' = issued \cup {c}
            /\ turn' = [turn EXCEPT ![t].cid = c, ![t].pc = "answer"] /\ Store!Save(c)
            /\ UNCHANGED <<terms, lang, raised, overlapped>>
        BY <1>4 DEF Create, NewId, side, arrivals
    <2>2. Active(t) /\ ~WillCheck(t) /\ ~Pruning(t)
        BY <2>1 DEF Active, WillCheck, Pruning
    <2>3. PICK j : j = turn[t]
        OBVIOUS
    <2>4. j \in Turn
        BY <2>2, <2>3, ActiveTurn DEF TurnsInv
    <2>5. PICK r : r = [j EXCEPT !.cid = c, !.pc = "answer"]
        OBVIOUS
    <2>6. turn' = [turn EXCEPT ![t] = r] /\ r.pc = "answer" /\ r.cid = c
        BY <2>1, <2>3, <2>4, <2>5 DEF Turn
    <2>7. turn'[t] = r /\ \A u \in Threads \ {t} : turn'[u] = turn[u]
        BY <1>1, <2>6
    <2>8. \A d \in Ids : Store!Has(table', d) => Store!Has(table, d) \/ d = c
        BY <1>1, <2>1, StoreEffects
    <2>9. ~Pruning(t)' /\ turn'[t].cid \notin issued
        BY <2>1, <2>6, <2>7 DEF Pruning
    <2> QED
        BY <1>1, <2>1, <2>2, <2>7, <2>8, <2>9, TurnElsewhere
<1>5. CASE SaveTurn(t)
    <2>1. PICK label \in {"terms", "respond"} :
            /\ turn[t].pc = "save" /\ Store!Save(turn[t].cid) /\ Goto(t, label)
            /\ UNCHANGED <<terms, lang, raised, overlapped, issued>>
        BY <1>5 DEF SaveTurn, side, history, arrivals
    <2>2. Holds(t) /\ ~WillCheck(t) /\ ~Pruning(t)
        BY <2>1 DEF Holds, WillCheck, Pruning
    <2>3. Active(t) /\ turn[t].cid \in issued
        BY <2>2, HoldersAreIssued
    <2>4. turn'[t].pc = label /\ turn'[t].cid = turn[t].cid /\ \A u \in Threads \ {t} : turn'[u] = turn[u]
        BY <2>1, <2>3, Moves
    <2>5. \A d \in Ids : Store!Has(table', d) => Store!Has(table, d) \/ d = turn[t].cid
        BY <1>1, <2>1, <2>3, StoreEffects
    <2>6. ~Pruning(t)'
        BY <2>4 DEF Pruning
    <2> QED
        BY <1>1, <2>1, <2>2, <2>3, <2>4, <2>5, <2>6, TurnElsewhere
<1> QED
    BY <1>2, <1>3, <1>4, <1>5

LEMMA ArriveKeepsSide == ASSUME TurnsInv, TurnsInv', SideInv, NEW t \in Threads, Arrive(t) PROVE SideInv'
<1>1. PICK r : r.pc = "lookup" /\ turn' = [turn EXCEPT ![t] = r]
    BY DEF Arrive
<1>2. /\ ~Active(t) /\ overlapped' = (overlapped \/ \E u \in Threads : Active(u))
      /\ UNCHANGED <<table, terms, lang, raised, issued>>
    BY DEF Arrive, store, side, history
<1>3. turn'[t] = r /\ \A u \in Threads \ {t} : turn'[u] = turn[u]
    BY <1>1 DEF TurnsInv, TurnTypes
<1>4. ~Holds(t)' /\ ~Pruning(t)' /\ ~Pruning(t) /\ ~WillCheck(t)
    BY <1>1, <1>2, <1>3 DEF Holds, Pruning, WillCheck, Active
<1>5. OnlyIssued'
    BY <1>2, <1>3, <1>4 DEF SideInv, OnlyIssued, Pruning
<1>6. OneAtATime'
    BY <1>2, <1>3 DEF SideInv, OneAtATime, Active
<1>7. Allowed <= Allowed'
    <2>1. Cardinality(Threads) \in Nat /\ Cardinality(Threads) # 0
        BY AllowedIsNat, FS_EmptySet
    <2>2. overlapped => overlapped'
        BY <1>2
    <2> QED
        BY <2>1, <2>2, TurnsAssumption DEF Allowed
<1>8. \A u \in Threads : Pruning(u) => turn'[u].pc = turn[u].pc /\ Narrows(u)
    <2> SUFFICES ASSUME NEW u \in Threads, Pruning(u) PROVE turn'[u].pc = turn[u].pc /\ Narrows(u)
        OBVIOUS
    <2>1. u # t /\ turn'[u] = turn[u]
        BY <1>3, <1>4
    <2>2. Reach(u)' \subseteq Reach(u)
        BY <1>2, <1>3, <1>4 DEF Reach, Alive, HeldByOthers, Holds
    <2> QED
        BY <2>1, <2>2 DEF Narrows
<1>9. \A u \in Threads : WillCheck(u) => WillCheck(u)'
    BY <1>3, <1>4 DEF WillCheck
<1> QED
    BY <1>2, <1>5, <1>6, <1>7, <1>8, <1>9, SideNarrows

\* What a turn in a prune changes of itself and of the store, the others' reach does not grow.
LEMMA PrunesMoveAlone ==
    ASSUME TurnsInv, SideInv, NEW t \in Threads, turn[t].pc \in {"prune", "visit_terms", "visit_lang"},
           NEW r, turn' = [turn EXCEPT ![t] = r], r = NoTurn \/ r.cid = turn[t].cid, UNCHANGED <<overlapped, issued>>,
           \A c \in Ids : Store!Has(table', c) => Store!Has(table, c)
    PROVE  /\ OneAtATime' /\ Allowed <= Allowed' /\ turn'[t] = r
           /\ \A u \in Threads : Reach(u)' \subseteq Reach(u)
           /\ \A u \in Threads \ {t} : turn'[u] = turn[u] /\ (Pruning(u) => turn'[u].pc = turn[u].pc /\ Narrows(u))
<1>1. turn'[t] = r /\ \A u \in Threads \ {t} : turn'[u] = turn[u]
    BY DEF TurnsInv, TurnTypes
<1>2. Holds(t) /\ Active(t) /\ (Holds(t)' => turn'[t].cid = turn[t].cid)
    BY <1>1 DEF Holds, Active, NoTurn
<1>3. OneAtATime'
    BY <1>1, <1>2 DEF SideInv, OneAtATime, Active
<1>4. ASSUME NEW u \in Threads PROVE Reach(u)' \subseteq Reach(u)
    <2>1. Alive' \subseteq Alive
        BY DEF Alive
    <2>2. ASSUME NEW v \in Threads \ {u}, Holds(v)' PROVE Holds(v) /\ turn'[v].cid = turn[v].cid
        BY <1>1, <1>2, <2>2 DEF Holds
    <2>3. HeldByOthers(u)' \subseteq HeldByOthers(u)
        BY <2>2 DEF HeldByOthers
    <2> QED
        BY <2>1, <2>3 DEF Reach
<1>5. \A u \in Threads \ {t} : Pruning(u) => turn'[u].pc = turn[u].pc /\ Narrows(u)
    BY <1>1, <1>4 DEF Narrows
<1> QED
    BY <1>1, <1>3, <1>4, <1>5, AllowedStays

\* A dict is read again: of its keys, few can be found alive.
LEMMA ReadingStartsFew ==
    ASSUME TurnsInv, TurnsInv', OneAtATime, NEW t \in Threads, Active(t), NEW keys, Allowed <= Allowed',
           turn'[t].visit = keys, Reach(t)' \subseteq Reach(t)
    PROVE  Cardinality((keys \ (turn'[t].visit \cup turn'[t].gone)) \cup (turn'[t].visit \cap Reach(t)')) <= Allowed'
<1>1. PICK R : R = (keys \ (turn'[t].visit \cup turn'[t].gone)) \cup (turn'[t].visit \cap Reach(t)')
    OBVIOUS
<1>2. R \in SUBSET Reach(t)
    BY <1>1
<1>3. IsFiniteSet(Reach(t)) /\ Cardinality(Reach(t)) <= Allowed
    BY ReachIsFew DEF Few
<1> QED
    BY <1>1, <1>2, <1>3, FewerAreFew

LEMMA StartPruneKeepsSide == ASSUME TurnsInv, TurnsInv', SideInv, NEW t \in Threads, StartPrune(t) PROVE SideInv'
<1>1. turn[t].pc = "prune" /\ UNCHANGED <<table, terms, lang, raised, overlapped, issued>>
    BY DEF StartPrune, store, side, history, arrivals
<1>2. Active(t) /\ OneAtATime
    BY <1>1 DEF Active, SideInv
<1>3. PICK j : j = turn[t]
    OBVIOUS
<1>4. j \in Turn
    BY <1>2, <1>3, ActiveTurn DEF TurnsInv
<1>5. CASE OverSideLimit
    <2>1. PICK r : r = [j EXCEPT !.visit = terms, !.size = Cardinality(terms), !.gone = {}, !.pc = "visit_terms"]
        OBVIOUS
    <2>2. turn' = [turn EXCEPT ![t] = r]
        BY <1>3, <1>5, <2>1 DEF StartPrune
    <2>3. r.pc = "visit_terms" /\ r.visit = terms /\ r.gone = {} /\ r.cid = j.cid
        BY <1>4, <2>1 DEF Turn
    <2>4. /\ OneAtATime' /\ Allowed <= Allowed' /\ turn'[t] = r /\ Reach(t)' \subseteq Reach(t)
          /\ \A u \in Threads \ {t} : turn'[u] = turn[u]
        BY <1>1, <1>3, <2>2, <2>3, PrunesMoveAlone
    <2>5. Few(Remaining(t, terms))'
        BY <1>1, <1>2, <2>3, <2>4, ReadingStartsFew DEF Few, Remaining
    <2>6. OnlyIssued'
        BY <1>1, <2>3, <2>4 DEF SideInv, OnlyIssued, Pruning
    <2> QED
        BY <2>3, <2>4, <2>5, <2>6 DEF SideInv, Checked
<1>6. CASE ~OverSideLimit
    <2>1. Goto(t, "respond")
        BY <1>6 DEF StartPrune
    <2>2. turn'[t].pc = "respond" /\ \A u \in Threads \ {t} : turn'[u] = turn[u]
        BY <1>2, <2>1, Moves
    <2>3. OnlyIssued' /\ OneAtATime'
        BY <1>1, <1>2, <2>2 DEF SideInv, OnlyIssued, Pruning, OneAtATime, Active
    <2>4. ~OverSideLimit'
        BY <1>1, <1>6 DEF OverSideLimit
    <2> QED
        BY <2>3, <2>4 DEF SideInv, Checked
<1> QED
    BY <1>5, <1>6

LEMMA VisitKeepsSide ==
    ASSUME TurnsInv, TurnsInv', SideInv, NEW t \in Threads, Visit(t, "visit_terms", terms) \/ Visit(t, "visit_lang", lang)
    PROVE  SideInv'
<1>1. PICK c \in turn[t].visit :
        \/ /\ Store!GetHit(c)
           /\ turn' = [turn EXCEPT ![t].visit = @ \ {c}]
        \/ /\ Store!GetMiss(c)
           /\ turn' = [turn EXCEPT ![t].visit = @ \ {c}, ![t].gone = @ \cup {c}]
    BY DEF Visit
<1>2. turn[t].pc \in {"visit_terms", "visit_lang"} /\ UNCHANGED <<terms, lang, raised, overlapped, issued>>
    BY DEF Visit, side, history, arrivals
<1>3. Pruning(t) /\ Active(t) /\ ~WillCheck(t)
    BY <1>2 DEF Pruning, Active, WillCheck
<1>4. c \in issued /\ c \in Ids /\ Proved!StoreInv
    BY <1>1, <1>3 DEF SideInv, OnlyIssued, TurnsInv, TurnTypes
<1>5. PICK j : j = turn[t]
    OBVIOUS
<1>6. j \in Turn
    BY <1>3, <1>5, ActiveTurn DEF TurnsInv
<1>7. \E r : /\ turn' = [turn EXCEPT ![t] = r] /\ r.pc = j.pc /\ r.cid = j.cid /\ r.visit = j.visit \ {c}
             /\ j.gone \subseteq r.gone /\ (c \in r.gone \/ Store!Has(table, c))
    <2>1. CASE Store!GetHit(c) /\ turn' = [turn EXCEPT ![t].visit = @ \ {c}]
        <3>1. PICK r : r = [j EXCEPT !.visit = @ \ {c}]
            OBVIOUS
        <3>2. turn' = [turn EXCEPT ![t] = r]
            BY <1>5, <2>1, <3>1
        <3>3. r.pc = j.pc /\ r.cid = j.cid /\ r.visit = j.visit \ {c} /\ r.gone = j.gone
            BY <1>6, <3>1 DEF Turn
        <3>4. Store!Has(table, c)
            BY <1>4, <2>1, StoreEffects
        <3> QED
            BY <3>2, <3>3, <3>4
    <2>2. CASE turn' = [turn EXCEPT ![t].visit = @ \ {c}, ![t].gone = @ \cup {c}]
        <3>1. PICK r : r = [j EXCEPT !.visit = @ \ {c}, !.gone = @ \cup {c}]
            OBVIOUS
        <3>2. turn' = [turn EXCEPT ![t] = r]
            BY <1>5, <2>2, <3>1
        <3>3. r.pc = j.pc /\ r.cid = j.cid /\ r.visit = j.visit \ {c} /\ r.gone = j.gone \cup {c}
            BY <1>6, <3>1 DEF Turn
        <3> QED
            BY <3>2, <3>3
    <2> QED
        BY <1>1, <2>1, <2>2
<1>8. PICK r : /\ turn' = [turn EXCEPT ![t] = r] /\ r.pc = j.pc /\ r.cid = j.cid /\ r.visit = j.visit \ {c}
               /\ j.gone \subseteq r.gone /\ (c \in r.gone \/ Store!Has(table, c))
    BY <1>7
<1>9. \A d \in Ids : Store!Has(table', d) => Store!Has(table, d)
    BY <1>1, <1>4, StoreEffects
<1>10. /\ OneAtATime' /\ Allowed <= Allowed' /\ turn'[t] = r /\ Reach(t)' \subseteq Reach(t)
       /\ \A u \in Threads \ {t} : turn'[u] = turn[u] /\ (Pruning(u) => turn'[u].pc = turn[u].pc /\ Narrows(u))
    BY <1>2, <1>5, <1>8, <1>9, PrunesMoveAlone
<1>11. Narrows(t) /\ turn'[t].pc = turn[t].pc
    BY <1>4, <1>5, <1>8, <1>10 DEF Narrows, Reach, Alive
<1>12. OnlyIssued'
    BY <1>2, <1>5, <1>8, <1>10 DEF SideInv, OnlyIssued, Pruning
<1>13. \A u \in Threads : WillCheck(u) => WillCheck(u)'
    BY <1>3, <1>10 DEF WillCheck
<1> QED
    BY <1>2, <1>10, <1>11, <1>12, <1>13, SideNarrows

\* A prune that fails is remembered.
LEMMA PruneRaisesKeepsSide ==
    ASSUME TurnsInv, TurnsInv', SideInv, NEW t \in Threads,
           PruneRaises(t, "visit_terms", terms) \/ PruneRaises(t, "visit_lang", lang)
    PROVE  SideInv'
<1>1. /\ turn[t].pc \in {"visit_terms", "visit_lang"} /\ turn' = [turn EXCEPT ![t] = NoTurn] /\ raised'
      /\ UNCHANGED <<table, terms, lang, overlapped, issued>>
    BY DEF PruneRaises, store, side, arrivals
<1>2. OneAtATime' /\ turn'[t] = NoTurn /\ \A u \in Threads \ {t} : turn'[u] = turn[u]
    BY <1>1, PrunesMoveAlone
<1>3. OnlyIssued'
    BY <1>1, <1>2 DEF SideInv, OnlyIssued, Pruning, NoTurn
<1> QED
    BY <1>1, <1>2, <1>3 DEF SideInv

\* _last_terms keeps what the prune saw alive, and _language is read.
LEMMA PopTermsKeepsSide == ASSUME TurnsInv, TurnsInv', SideInv, NEW t \in Threads, PopTerms(t) PROVE SideInv'
<1>1. /\ turn[t].pc = "visit_terms" /\ turn[t].visit = {} /\ terms' = terms \ turn[t].gone
      /\ UNCHANGED <<table, lang, raised, overlapped, issued>>
    BY DEF PopTerms, Kept, store, history, arrivals
<1>2. PICK j : j = turn[t]
    OBVIOUS
<1>3. Active(t) /\ OneAtATime /\ ~WillCheck(t)
    BY <1>1 DEF Active, SideInv, WillCheck
<1>4. j \in Turn
    BY <1>2, <1>3, ActiveTurn DEF TurnsInv
<1>5. PICK r : r = [j EXCEPT !.visit = lang, !.size = Cardinality(lang), !.gone = {}, !.pc = "visit_lang"]
    OBVIOUS
<1>6. turn' = [turn EXCEPT ![t] = r]
    BY <1>2, <1>5 DEF PopTerms
<1>7. r.pc = "visit_lang" /\ r.visit = lang /\ r.cid = j.cid
    BY <1>4, <1>5 DEF Turn
<1>8. /\ OneAtATime' /\ Allowed <= Allowed' /\ turn'[t] = r /\ Reach(t)' \subseteq Reach(t)
      /\ \A u \in Threads \ {t} : turn'[u] = turn[u] /\ (Pruning(u) => turn'[u].pc = turn[u].pc /\ Narrows(u))
    BY <1>1, <1>2, <1>6, <1>7, PrunesMoveAlone
<1>9. OnlyIssued'
    BY <1>1, <1>7, <1>8 DEF SideInv, OnlyIssued, Pruning
<1>10. \A u \in Threads : WillCheck(u) => WillCheck(u)'
    BY <1>3, <1>8 DEF WillCheck
<1>11. PICK E : E = {t}
    OBVIOUS
<1>12. \/ SideInv'
       \/ \E u \in E : turn[u].pc = "visit_terms" /\ Few(Remaining(u, terms))
       \/ Few(terms)' /\ \E u \in E : turn[u].pc = "visit_lang" /\ Few(Remaining(u, lang))
    BY <1>1, <1>8, <1>9, <1>10, <1>11, SideNarrowsBut
<1>13. CASE Few(Remaining(t, terms))
    <2>1. Remaining(t, terms) = terms'
        BY <1>1 DEF Remaining
    <2>2. Few(terms)'
        BY <1>1, <1>13, <2>1 DEF Few, Allowed
    <2>3. Few(Remaining(t, lang))'
        BY <1>1, <1>3, <1>7, <1>8, ReadingStartsFew DEF Few, Remaining
    <2> QED
        BY <1>7, <1>8, <1>9, <2>2, <2>3 DEF SideInv, Checked
<1> QED
    BY <1>1, <1>11, <1>12, <1>13

LEMMA PopLangKeepsSide == ASSUME TurnsInv, TurnsInv', SideInv, NEW t \in Threads, PopLang(t) PROVE SideInv'
<1>1. /\ turn[t].pc = "visit_lang" /\ turn[t].visit = {} /\ lang' = lang \ turn[t].gone /\ Goto(t, "respond")
      /\ UNCHANGED <<table, terms, raised, overlapped, issued>>
    BY DEF PopLang, Kept, store, history, arrivals
<1>2. Active(t) /\ OneAtATime /\ ~WillCheck(t)
    BY <1>1 DEF Active, SideInv, WillCheck
<1>3. PICK j : j = turn[t]
    OBVIOUS
<1>4. PICK r : r = [j EXCEPT !.pc = "respond"]
    OBVIOUS
<1>5. turn' = [turn EXCEPT ![t] = r]
    BY <1>1, <1>3, <1>4 DEF Goto
<1>6. r.pc = "respond" /\ r.cid = j.cid
    BY <1>2, <1>3, <1>4, ActiveTurn DEF TurnsInv, Turn
<1>7. /\ OneAtATime' /\ Allowed <= Allowed' /\ turn'[t] = r
      /\ \A u \in Threads \ {t} : turn'[u] = turn[u] /\ (Pruning(u) => turn'[u].pc = turn[u].pc /\ Narrows(u))
    BY <1>1, <1>3, <1>5, <1>6, PrunesMoveAlone
<1>8. OnlyIssued'
    BY <1>1, <1>6, <1>7 DEF SideInv, OnlyIssued, Pruning
<1>9. \A u \in Threads : WillCheck(u) => WillCheck(u)'
    BY <1>2, <1>7 DEF WillCheck
<1>10. PICK E : E = {t}
    OBVIOUS
<1>11. \/ SideInv'
       \/ \E u \in E : turn[u].pc = "visit_terms" /\ Few(Remaining(u, terms))
       \/ Few(terms)' /\ \E u \in E : turn[u].pc = "visit_lang" /\ Few(Remaining(u, lang))
    BY <1>1, <1>7, <1>8, <1>9, <1>10, SideNarrowsBut
<1>12. CASE Few(terms)' /\ Few(Remaining(t, lang))
    <2>1. Remaining(t, lang) = lang'
        BY <1>1 DEF Remaining
    <2>2. Few(lang)'
        BY <1>1, <1>12, <2>1 DEF Few, Allowed
    <2> QED
        BY <1>8, <1>7, <1>12, <2>2 DEF SideInv, Checked
<1> QED
    BY <1>1, <1>10, <1>11, <1>12

LEMMA SideInit == Init => SideInv
<1> SUFFICES ASSUME Init PROVE SideInv
    OBVIOUS
<1>1. terms = {} /\ lang = {} /\ ~overlapped /\ \A t \in Threads : turn[t] = NoTurn
    BY DEF Init
<1>2. ~OverSideLimit
    BY <1>1, FS_EmptySet, TurnsAssumption DEF OverSideLimit
<1> QED
    BY <1>1, <1>2 DEF SideInv, OnlyIssued, OneAtATime, Checked, Pruning, Active, NoTurn

LEMMA SideNext == ASSUME TurnsInv, TurnsInv', SideInv, [Next]_vars PROVE SideInv'
<1>1. ASSUME NEW t \in Threads, Arrive(t) \/ TurnStep(t) PROVE SideInv'
    BY <1>1, ArriveKeepsSide, StoreStepsKeepSide, QuietStepsKeepSide, NotesKeepSide, StartPruneKeepsSide, VisitKeepsSide,
       PruneRaisesKeepsSide, PopTermsKeepsSide, PopLangKeepsSide DEF TurnStep, Prune
<1>2. CASE ResetDelete
    <2>1. PICK c \in Ids : Store!Delete(c)
        BY <1>2 DEF ResetDelete, TurnsInv, TurnTypes
    <2>2. \A d \in Ids : Store!Has(table', d) => Store!Has(table, d)
        BY <2>1, StoreEffects DEF TurnsInv, TurnTypes
    <2> QED
        BY <1>2, <2>2, NoTurnMoves DEF ResetDelete, side, history, arrivals
<1>3. CASE ResetTerms \/ ResetLang
    BY <1>3, NoTurnMoves DEF ResetTerms, ResetLang, store, history, arrivals
<1>4. CASE ClockTicks
    <2>1. table' = table
        BY <1>4 DEF ClockTicks, Store!Tick
    <2> QED
        BY <1>4, <2>1, NoTurnMoves DEF ClockTicks, side, history, arrivals
<1>5. CASE UNCHANGED vars
    BY <1>5, NoTurnMoves DEF vars, store, side, history, arrivals
<1> QED
    BY <1>1, <1>2, <1>3, <1>4, <1>5 DEF Next

-----------------------------------------------------------------------------
\* How much the side state holds while turns run is bounded in every behaviour.
THEOREM SideStateCounted == Spec => []SideInv
<1>1. TurnsInv /\ TurnsInv' /\ SideInv /\ [Next]_vars => SideInv'
    BY SideNext
<1> QED
    BY <1>1, SideInit, TurnsCorrect, PTL DEF Spec

\* _prune_side_state keeps the follow-up state within twice the number of
\* conversations when turns run one at a time, and within one key of each dict
\* more per other thread when they overlap: for any number of threads, however
\* prunes, resets and drops of conversations interleave, unless a prune failed.
THEOREM SideStateStaysBounded == Spec => []SideStateBounded
<1>1. ASSUME TurnsInv, SideInv PROVE SideStateBounded
    <2> SUFFICES ASSUME Quiet, ~raised
                 PROVE  Cardinality(terms) + Cardinality(lang)
                            <= 2 * (MaxConversations + IF overlapped THEN Cardinality(Threads) - 1 ELSE 0)
        BY DEF SideStateBounded
    <2>1. Cardinality(terms) \in Nat /\ Cardinality(lang) \in Nat /\ Cardinality(Threads) \in Nat
        BY <1>1, SideIsFinite, AllowedIsNat
    <2>2. \A t \in Threads : turn[t].pc = "none"
        BY DEF Quiet, Active
    <2>3. ~OverSideLimit \/ (Few(terms) /\ Few(lang))
        BY <1>1, <2>2 DEF SideInv, Checked, WillCheck
    <2>4. overlapped => Cardinality(Threads) # 0
        BY <1>1, AllowedIsNat, FS_EmptySet DEF SideInv, OneAtATime
    <2> QED
        BY <2>1, <2>3, <2>4, TurnsAssumption DEF OverSideLimit, Few, Allowed
<1> QED
    BY <1>1, SideStateCounted, TurnsCorrect, PTL
=============================================================================
