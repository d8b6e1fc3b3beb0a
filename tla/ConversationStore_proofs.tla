---------------------- MODULE ConversationStore_proofs ----------------------
(***************************************************************************)
(* Proofs about ConversationStore, for every set of ids, every bound and   *)
(* every clock.  StoreInv is inductive: the order by last use is what      *)
(* makes a sweep from the front complete, and the sweep is what keeps the  *)
(* table within its bound.                                                 *)
(***************************************************************************)
EXTENDS MCConversationStore, DataLemmas, FiniteSetTheorems, FunctionTheorems, TLAPS

\* The order of a table by last use, and the uniqueness of its ids, for any
\* table and not only for the current one.
SortedBy(q, t) ==
    /\ \A i, j \in 1..Len(q) : i <= j => q[i].seen <= q[j].seen
    /\ \A i \in 1..Len(q) : q[i].seen <= t

Distinct(q) == \A i, j \in 1..Len(q) : q[i].cid = q[j].cid => i = j

\* Where _expire stops: at the first entry it may stop at.
LEMMA FirstKeptIsFirst ==
    ASSUME NEW q \in Seq(Entry), NEW t \in Times
    PROVE  /\ FirstKept(q, t) \in 1..Len(q) + 1
           /\ MayStop(q, t, FirstKept(q, t))
           /\ \A i \in 1..FirstKept(q, t) - 1 : ~MayStop(q, t, i)
<1> DEFINE T == {i \in 1..Len(q) + 1 : MayStop(q, t, i)}
<1>1. Len(q) \in Nat
    BY LenProperties
<1>2. Len(q) + 1 \in T
    BY <1>1 DEF MayStop
<1>3. T \subseteq Nat
    BY <1>1
<1>4. \E x \in T : \A y \in T : x <= y
    <2> HIDE DEF T
    <2> QED BY <1>2, <1>3, LeastElement
<1>5. \E i \in 1..Len(q) + 1 :
          /\ MayStop(q, t, i)
          /\ \A j \in 1..Len(q) + 1 : MayStop(q, t, j) => i <= j
    BY <1>4
<1>6. /\ FirstKept(q, t) \in 1..Len(q) + 1
      /\ MayStop(q, t, FirstKept(q, t))
      /\ \A j \in 1..Len(q) + 1 : MayStop(q, t, j) => FirstKept(q, t) <= j
    BY <1>5 DEF FirstKept
<1>7. \A i \in 1..FirstKept(q, t) - 1 : ~MayStop(q, t, i)
    BY <1>1, <1>6
<1>8. QED
    BY <1>6, <1>7

\* What a sweep returns: a suffix of the table that fits the bound and whose
\* oldest entry is not idle.
LEMMA ExpireProperties ==
    ASSUME NEW q \in Seq(Entry), NEW t \in Times
    PROVE  \E k \in 1..Len(q) + 1 :
              /\ Expire(q, t) \in Seq(Entry)
              /\ Len(Expire(q, t)) = Len(q) - k + 1
              /\ \A i \in 1..Len(Expire(q, t)) : Expire(q, t)[i] = q[k + i - 1]
              /\ Len(Expire(q, t)) <= MaxConversations
              /\ Len(Expire(q, t)) > 0 => ~IdleFor(Expire(q, t)[1], t)
              /\ \A i \in 1..k - 1 : ~MayStop(q, t, i)
<1> DEFINE k == FirstKept(q, t)
<1>1. /\ k \in 1..Len(q) + 1
      /\ MayStop(q, t, k)
      /\ \A i \in 1..k - 1 : ~MayStop(q, t, i)
    BY FirstKeptIsFirst
<1>2. Len(q) \in Nat /\ \A i \in 1..Len(q) : q[i] \in Entry
    BY LenProperties, ElementOfSeq
<1> HIDE DEF k
<1>3. \A i \in k..Len(q) : q[i] \in Entry
    BY <1>1, <1>2
<1>4. k \in Int /\ Len(q) \in Int
    BY <1>1, <1>2
<1>5. /\ SubSeq(q, k, Len(q)) \in Seq(Entry)
      /\ Len(SubSeq(q, k, Len(q))) = IF k <= Len(q) THEN Len(q) - k + 1 ELSE 0
      /\ \A i \in 1..Len(q) - k + 1 : SubSeq(q, k, Len(q))[i] = q[k + i - 1]
    BY <1>3, <1>4, SubSeqProperties
<1>6. Expire(q, t) = SubSeq(q, k, Len(q))
    BY DEF Expire, k
<1>7. Len(Expire(q, t)) = Len(q) - k + 1
    BY <1>1, <1>2, <1>5, <1>6
<1>8. Len(Expire(q, t)) <= MaxConversations
    BY <1>1, <1>2, <1>7, StoreAssumption DEF MayStop
<1>9. Len(Expire(q, t)) > 0 => ~IdleFor(Expire(q, t)[1], t)
    <2> SUFFICES ASSUME Len(q) - k + 1 > 0
                 PROVE  ~IdleFor(Expire(q, t)[1], t)
        BY <1>7
    <2>1. ~IdleFor(q[k], t)
        BY <1>1, <1>2 DEF MayStop
    <2>2. Expire(q, t)[1] = q[k]
        BY <1>1, <1>2, <1>5, <1>6
    <2>3. QED
        BY <2>1, <2>2
<1>10. QED
    BY <1>1, <1>5, <1>6, <1>7, <1>8, <1>9

\* Sweeping keeps the order and the uniqueness of ids.
LEMMA ExpireKeepsOrder ==
    ASSUME NEW q \in Seq(Entry), NEW t \in Times, SortedBy(q, t), Distinct(q)
    PROVE  SortedBy(Expire(q, t), t) /\ Distinct(Expire(q, t))
<1> DEFINE r == Expire(q, t)
<1>1. PICK k \in 1..Len(q) + 1 :
          /\ Len(r) = Len(q) - k + 1
          /\ \A i \in 1..Len(r) : r[i] = q[k + i - 1]
    BY ExpireProperties
<1>2. Len(q) \in Nat
    BY LenProperties
<1> HIDE DEF r
<1>3. \A i \in 1..Len(r) : k + i - 1 \in 1..Len(q) /\ r[i] = q[k + i - 1]
    BY <1>1, <1>2
<1>4. SortedBy(r, t)
    <2>1. ASSUME NEW i \in 1..Len(r), NEW j \in 1..Len(r), i <= j
          PROVE  r[i].seen <= r[j].seen
        BY <1>1, <1>2, <1>3, <2>1 DEF SortedBy
    <2>2. ASSUME NEW i \in 1..Len(r)
          PROVE  r[i].seen <= t
        BY <1>3 DEF SortedBy
    <2>3. QED
        BY <2>1, <2>2 DEF SortedBy
<1>5. Distinct(r)
    <2>1. ASSUME NEW i \in 1..Len(r), NEW j \in 1..Len(r), r[i].cid = r[j].cid
          PROVE  i = j
        <3>1. k + i - 1 = k + j - 1
            BY <1>3, <2>1 DEF Distinct
        <3>2. QED
            BY <1>1, <1>2, <3>1
    <2>2. QED
        BY <2>1 DEF Distinct
<1>6. QED
    BY <1>4, <1>5 DEF r

\* In a sorted table whose oldest entry is not idle, no entry is.
LEMMA FreshHeadFreshTable ==
    ASSUME NEW q \in Seq(Entry), NEW t \in Times, SortedBy(q, t),
           Len(q) > 0 => ~IdleFor(q[1], t)
    PROVE  \A i \in 1..Len(q) : ~IdleFor(q[i], t)
<1>1. SUFFICES ASSUME NEW i \in 1..Len(q)
               PROVE  ~IdleFor(q[i], t)
    OBVIOUS
<1>2. Len(q) \in Nat
    BY LenProperties
<1>3. 1 \in 1..Len(q)
    BY <1>1, <1>2
<1>4. q[1] \in Entry /\ q[i] \in Entry
    BY <1>1, <1>3, ElementOfSeq
<1>5. q[1].seen \in Nat /\ q[i].seen \in Nat /\ t \in Nat /\ IdleSeconds \in Nat
    BY <1>4, StoreAssumption DEF Entry
<1>6. q[1].seen <= q[i].seen
    BY <1>1, <1>2, <1>3 DEF SortedBy
<1>7. ~(t - q[1].seen > IdleSeconds)
    BY <1>1, <1>2 DEF IdleFor
<1>8. QED
    BY <1>5, <1>6, <1>7 DEF IdleFor

\* Removing a conversation leaves an ordered table without it.
LEMMA WithoutProperties ==
    ASSUME NEW q \in Seq(Entry), NEW t \in Times, NEW cid \in Ids,
           SortedBy(q, t), Distinct(q)
    PROVE  /\ Without(q, cid) \in Seq(Entry)
           /\ Len(Without(q, cid)) <= Len(q)
           /\ \A i \in 1..Len(Without(q, cid)) :
                  /\ Without(q, cid)[i].cid # cid
                  /\ \E j \in 1..Len(q) : Without(q, cid)[i] = q[j]
           /\ SortedBy(Without(q, cid), t)
           /\ Distinct(Without(q, cid))
           /\ Has(q, cid) => Len(Without(q, cid)) = Len(q) - 1
<1>1. CASE ~Has(q, cid)
    BY <1>1, LenProperties DEF Without, Has
<1>2. CASE Has(q, cid)
    <2> DEFINE p == Position(q, cid)
               r == Without(q, cid)
    <2>1. p \in 1..Len(q) /\ q[p].cid = cid
        BY <1>2 DEF Has, Position
    <2>2. Len(q) \in Nat
        BY LenProperties
    <2>3. r = RemoveAt(q, p)
        BY <1>2 DEF Without
    <2> HIDE DEF p, r
    <2>4. /\ r \in Seq(Entry)
          /\ Len(r) = Len(q) - 1
          /\ \A i \in 1..Len(r) : r[i] = IF i < p THEN q[i] ELSE q[i + 1]
        BY <2>1, <2>2, <2>3, RemoveAtProperties
    <2> DEFINE from(i) == IF i < p THEN i ELSE i + 1
    <2>5. \A i \in 1..Len(r) : from(i) \in 1..Len(q) /\ from(i) # p /\ r[i] = q[from(i)]
        BY <2>1, <2>2, <2>4
    <2>6. \A i, j \in 1..Len(r) : i <= j => from(i) <= from(j)
        BY <2>1, <2>2, <2>4
    <2>7. \A i, j \in 1..Len(r) : from(i) = from(j) => i = j
        BY <2>1, <2>2, <2>4
    <2> HIDE DEF from
    <2>8. \A i \in 1..Len(r) : r[i].cid # cid /\ \E j \in 1..Len(q) : r[i] = q[j]
        BY <2>1, <2>5 DEF Distinct
    <2>9. SortedBy(r, t)
        BY <2>5, <2>6 DEF SortedBy
    <2>10. Distinct(r)
        BY <2>5, <2>7 DEF Distinct
    <2>11. QED
        BY <2>2, <2>4, <2>8, <2>9, <2>10 DEF r
<1>3. QED
    BY <1>1, <1>2

\* Putting a conversation at the recent end keeps the table ordered and its
\* ids distinct: the clock never runs backwards.
LEMMA MoveToEndProperties ==
    ASSUME NEW q \in Seq(Entry), NEW t \in Times, NEW cid \in Ids,
           SortedBy(q, t), Distinct(q)
    PROVE  /\ MoveToEnd(q, cid, t) \in Seq(Entry)
           /\ SortedBy(MoveToEnd(q, cid, t), t)
           /\ Distinct(MoveToEnd(q, cid, t))
           /\ Has(q, cid) => Len(MoveToEnd(q, cid, t)) = Len(q)
           /\ \A i \in 1..Len(MoveToEnd(q, cid, t)) :
                  \/ \E j \in 1..Len(q) : MoveToEnd(q, cid, t)[i] = q[j]
                  \/ MoveToEnd(q, cid, t)[i] = [cid |-> cid, seen |-> t]
<1> DEFINE w == Without(q, cid)
           e == [cid |-> cid, seen |-> t]
           r == MoveToEnd(q, cid, t)
<1>1. /\ w \in Seq(Entry)
      /\ \A i \in 1..Len(w) : w[i].cid # cid /\ \E j \in 1..Len(q) : w[i] = q[j]
      /\ SortedBy(w, t)
      /\ Distinct(w)
      /\ Has(q, cid) => Len(w) = Len(q) - 1
    BY WithoutProperties
<1>2. e \in Entry /\ e.cid = cid /\ e.seen = t
    BY DEF Entry
<1>3. Len(w) \in Nat /\ Len(q) \in Nat
    BY <1>1, LenProperties
<1>4. r = Append(w, e)
    BY DEF MoveToEnd
<1> HIDE DEF w, e, r
<1>5. /\ r \in Seq(Entry)
      /\ Len(r) = Len(w) + 1
      /\ \A i \in 1..Len(w) : r[i] = w[i]
      /\ r[Len(w) + 1] = e
    BY <1>1, <1>2, <1>4, AppendProperties
<1>6. \A i \in 1..Len(r) : (i \in 1..Len(w) /\ r[i] = w[i]) \/ (i = Len(r) /\ r[i] = e)
    BY <1>3, <1>5
<1>7. SortedBy(r, t)
    <2>1. t \in Nat
        BY StoreAssumption
    <2>2. \A i \in 1..Len(r) : r[i].seen <= t
        BY <1>1, <1>2, <1>6, <2>1 DEF SortedBy
    <2>3. ASSUME NEW i \in 1..Len(r), NEW j \in 1..Len(r), i <= j
          PROVE  r[i].seen <= r[j].seen
        <3>1. CASE j = Len(r)
            BY <1>2, <1>3, <1>5, <2>2, <3>1
        <3>2. CASE j # Len(r)
            BY <1>1, <1>3, <1>5, <2>3, <3>2 DEF SortedBy
        <3>3. QED
            BY <3>1, <3>2
    <2>4. QED
        BY <2>2, <2>3 DEF SortedBy
<1>8. Distinct(r)
    BY <1>1, <1>2, <1>6 DEF Distinct
<1>9. \A i \in 1..Len(r) : (\E j \in 1..Len(q) : r[i] = q[j]) \/ r[i] = e
    BY <1>1, <1>6
<1>10. QED
    BY <1>1, <1>3, <1>5, <1>7, <1>8, <1>9 DEF r, e

-----------------------------------------------------------------------------

\* StoreInv in terms of the two facts about arbitrary tables.
LEMMA StoreInvParts ==
    StoreInv <=> TypeOK /\ SortedBy(table, now) /\ Distinct(table) /\ Bounded
BY DEF StoreInv, OrderedBySeen, UniqueIds, SortedBy, Distinct

LEMMA StoreInvPartsNext ==
    StoreInv' <=> /\ table' \in Seq(Entry)
                  /\ now' \in Times
                  /\ SortedBy(table', now')
                  /\ Distinct(table')
                  /\ Len(table') <= MaxConversations
BY DEF StoreInv, TypeOK, OrderedBySeen, UniqueIds, Bounded, SortedBy, Distinct

LEMMA StoreInit == Init => StoreInv
<1> SUFFICES ASSUME Init PROVE StoreInv
    OBVIOUS
<1>1. table = <<>> /\ now = 0
    BY DEF Init
<1>2. table \in Seq(Entry) /\ Len(table) = 0
    BY <1>1, EmptySeq
<1>3. 1..Len(table) = {}
    BY <1>2
<1>4. QED
    BY <1>1, <1>2, <1>3, StoreAssumption
       DEF StoreInv, TypeOK, UniqueIds, OrderedBySeen, Bounded

\* A sweep of the current table keeps everything StoreInv says.
LEMMA SweepKeepsInv ==
    ASSUME StoreInv
    PROVE  /\ Expire(table, now) \in Seq(Entry)
           /\ SortedBy(Expire(table, now), now)
           /\ Distinct(Expire(table, now))
           /\ Len(Expire(table, now)) <= MaxConversations
           /\ \A i \in 1..Len(Expire(table, now)) : ~IdleFor(Expire(table, now)[i], now)
<1>1. table \in Seq(Entry) /\ now \in Times /\ SortedBy(table, now) /\ Distinct(table)
    BY StoreInvParts DEF TypeOK
<1>2. /\ Expire(table, now) \in Seq(Entry)
      /\ Len(Expire(table, now)) <= MaxConversations
      /\ Len(Expire(table, now)) > 0 => ~IdleFor(Expire(table, now)[1], now)
    BY <1>1, ExpireProperties
<1>3. SortedBy(Expire(table, now), now) /\ Distinct(Expire(table, now))
    BY <1>1, ExpireKeepsOrder
<1>4. QED
    BY <1>1, <1>2, <1>3, FreshHeadFreshTable

LEMMA StoreNext == StoreInv /\ [Next]_storeVars => StoreInv'
<1> SUFFICES ASSUME StoreInv, [Next]_storeVars PROVE StoreInv'
    OBVIOUS
<1>1. /\ table \in Seq(Entry) /\ now \in Times
      /\ SortedBy(table, now) /\ Distinct(table)
      /\ Len(table) <= MaxConversations
    BY StoreInvParts DEF TypeOK, Bounded
<1>2. Len(table) \in Nat /\ MaxConversations \in Nat
    BY <1>1, LenProperties, StoreAssumption
<1>3. ASSUME NEW cid \in Ids, GetHit(cid) PROVE StoreInv'
    <2> DEFINE swept == Expire(table, now)
    <2>1. /\ Has(swept, cid)
          /\ table' = MoveToEnd(swept, cid, now)
          /\ now' = now
        BY <1>3 DEF GetHit
    <2>2. /\ swept \in Seq(Entry) /\ SortedBy(swept, now) /\ Distinct(swept)
          /\ Len(swept) <= MaxConversations
        BY SweepKeepsInv
    <2> HIDE DEF swept
    <2>3. /\ table' \in Seq(Entry) /\ SortedBy(table', now) /\ Distinct(table')
          /\ Len(table') = Len(swept)
        BY <1>1, <2>1, <2>2, MoveToEndProperties
    <2>4. QED
        BY <1>1, <2>1, <2>2, <2>3, StoreInvPartsNext
<1>4. ASSUME NEW cid \in Ids, GetMiss(cid) PROVE StoreInv'
    <2>1. table' = Expire(table, now) /\ now' = now
        BY <1>4 DEF GetMiss
    <2>2. QED
        BY <1>1, <2>1, SweepKeepsInv, StoreInvPartsNext
<1>5. ASSUME NEW cid \in Ids, Save(cid) PROVE StoreInv'
    <2> DEFINE q == MoveToEnd(table, cid, now)
    <2>1. table' = Expire(q, now) /\ now' = now
        BY <1>5 DEF Save
    <2>2. q \in Seq(Entry) /\ SortedBy(q, now) /\ Distinct(q)
        BY <1>1, MoveToEndProperties
    <2> HIDE DEF q
    <2>3. table' \in Seq(Entry) /\ Len(table') <= MaxConversations
        BY <1>1, <2>1, <2>2, ExpireProperties
    <2>4. SortedBy(table', now) /\ Distinct(table')
        BY <1>1, <2>1, <2>2, ExpireKeepsOrder
    <2>5. QED
        BY <1>1, <2>1, <2>3, <2>4, StoreInvPartsNext
<1>6. ASSUME NEW cid \in Ids, Delete(cid) PROVE StoreInv'
    <2>1. table' = Without(table, cid) /\ now' = now
        BY <1>6 DEF Delete
    <2>2. /\ table' \in Seq(Entry) /\ Len(table') <= Len(table)
          /\ SortedBy(table', now) /\ Distinct(table')
        BY <1>1, <2>1, WithoutProperties
    <2>3. Len(table') \in Nat
        BY <2>2, LenProperties
    <2>4. QED
        BY <1>1, <1>2, <2>1, <2>2, <2>3, StoreInvPartsNext
<1>7. ASSUME NEW t \in Times, Tick(t) PROVE StoreInv'
    <2>1. t > now /\ now' = t /\ table' = table
        BY <1>7 DEF Tick
    <2>2. ASSUME NEW i \in 1..Len(table) PROVE table[i].seen \in Nat
        <3>1. table[i] \in Entry
            BY <1>1, ElementOfSeq
        <3>2. QED
            BY <3>1, StoreAssumption DEF Entry
    <2>3. now \in Nat /\ t \in Nat
        BY <1>1, StoreAssumption
    <2>4. SortedBy(table, t)
        BY <1>1, <2>1, <2>2, <2>3 DEF SortedBy
    <2>5. QED
        BY <1>1, <2>1, <2>4, StoreInvPartsNext
<1>8. CASE UNCHANGED storeVars
    BY <1>1, <1>8, StoreInvPartsNext DEF storeVars
<1>9. QED
    BY <1>3, <1>4, <1>5, <1>6, <1>7, <1>8 DEF Next

\* The table of conversations never exceeds max_conversations, holds at most
\* one entry per conversation and is ordered by last use, under any sequence
\* of get, save, delete and passing time.
THEOREM StoreCorrect == Spec => []StoreInv
<1>1. Init => StoreInv
    BY StoreInit
<1>2. StoreInv /\ [Next]_storeVars => StoreInv'
    BY StoreNext
<1>3. QED
    BY <1>1, <1>2, PTL DEF Spec

\* A step that uses a conversation leaves no idle one behind, although the
\* sweep of _expire stops at the first fresh entry it meets.
THEOREM IdleConversationsExpire == Spec => NothingIdleAfterUse
<1> DEFINE Used == \E i \in 1..Len(table') : table'[i] \notin Range(table)
           AllFresh == \A i \in 1..Len(table') : ~IdleFor(table'[i], now)
<1>1. StoreInv /\ [Next]_storeVars => [Used => AllFresh]_storeVars
    <2> SUFFICES ASSUME StoreInv, Next, Used PROVE AllFresh
        OBVIOUS
    <2>1. /\ table \in Seq(Entry) /\ now \in Times
          /\ SortedBy(table, now) /\ Distinct(table)
        BY StoreInvParts DEF TypeOK
    <2>2. Len(table) \in Nat /\ DOMAIN table = 1..Len(table)
        BY <2>1, LenProperties
    <2>3. ASSUME NEW cid \in Ids, GetHit(cid) PROVE AllFresh
        <3> DEFINE swept == Expire(table, now)
        <3>1. table' = MoveToEnd(swept, cid, now)
            BY <2>3 DEF GetHit
        <3>2. /\ swept \in Seq(Entry) /\ SortedBy(swept, now) /\ Distinct(swept)
              /\ \A i \in 1..Len(swept) : ~IdleFor(swept[i], now)
            BY SweepKeepsInv
        <3> HIDE DEF swept
        <3>3. \A i \in 1..Len(table') :
                 \/ \E j \in 1..Len(swept) : table'[i] = swept[j]
                 \/ table'[i] = [cid |-> cid, seen |-> now]
            BY <2>1, <3>1, <3>2, MoveToEndProperties
        <3>4. ~IdleFor([cid |-> cid, seen |-> now], now)
            BY <2>1, StoreAssumption DEF IdleFor
        <3>5. QED
            BY <3>2, <3>3, <3>4
    <2>4. ASSUME NEW cid \in Ids, GetMiss(cid) PROVE AllFresh
        BY <2>4, SweepKeepsInv DEF GetMiss
    <2>5. ASSUME NEW cid \in Ids, Save(cid) PROVE AllFresh
        <3> DEFINE q == MoveToEnd(table, cid, now)
        <3>1. table' = Expire(q, now)
            BY <2>5 DEF Save
        <3>2. q \in Seq(Entry) /\ SortedBy(q, now) /\ Distinct(q)
            BY <2>1, MoveToEndProperties
        <3> HIDE DEF q
        <3>3. /\ table' \in Seq(Entry)
              /\ Len(table') > 0 => ~IdleFor(table'[1], now)
            BY <2>1, <3>1, <3>2, ExpireProperties
        <3>4. SortedBy(table', now)
            BY <2>1, <3>1, <3>2, ExpireKeepsOrder
        <3>5. QED
            BY <2>1, <3>3, <3>4, FreshHeadFreshTable
    <2>6. ASSUME NEW cid \in Ids, Delete(cid) PROVE FALSE
        <3>1. \A i \in 1..Len(table') : \E j \in 1..Len(table) : table'[i] = table[j]
            BY <2>1, <2>6, WithoutProperties DEF Delete
        <3>2. QED
            BY <2>2, <3>1 DEF Range
    <2>7. ASSUME NEW t \in Times, Tick(t) PROVE FALSE
        BY <2>2, <2>7 DEF Tick, Range
    <2>8. QED
        BY <2>3, <2>4, <2>5, <2>6, <2>7 DEF Next
<1>2. QED
    BY <1>1, StoreCorrect, PTL DEF Spec, NothingIdleAfterUse

-----------------------------------------------------------------------------
(***************************************************************************)
(* Nothing is lost early.  last and since are what the history says of     *)
(* conversation c: when it was used, and which others were since.  As long *)
(* as c is in the table its entry is of that use and only entries of those *)
(* others come after it, so c can only be dropped when it has been idle    *)
(* too long or when the others fill the table.                             *)
(***************************************************************************)
InPlace(q, c, last, since) ==
    \A p \in 1..Len(q) :
        q[p].cid = c => /\ q[p].seen = last
                        /\ \A r \in p + 1..Len(q) : q[r].cid \in since

Due(t, last, since) == t - last > IdleSeconds \/ Cardinality(since) >= MaxConversations

Accounted(q, c, t, last, since) ==
    /\ InPlace(q, c, last, since)
    /\ Has(q, c) \/ Due(t, last, since)

HistoryTypes ==
    /\ lastUse \in [Ids -> Times \cup {Never}]
    /\ usedSince \in [Ids -> SUBSET Ids]
    /\ \A c \in Ids : IsFiniteSet(usedSince[c])

UsesInv ==
    /\ StoreInv
    /\ HistoryTypes
    /\ \A c \in Ids : lastUse[c] # Never => Accounted(table, c, now, lastUse[c], usedSince[c])

\* The entries behind one are of as many different conversations.
LEMMA BehindCounts ==
    ASSUME NEW q \in Seq(Entry), Distinct(q), NEW p \in 1..Len(q), NEW since, IsFiniteSet(since),
           \A r \in p + 1..Len(q) : q[r].cid \in since
    PROVE  Cardinality(since) >= Len(q) - p
<1> DEFINE f == [r \in p + 1..Len(q) |-> q[r].cid]
<1>1. Len(q) \in Nat
    BY LenProperties
<1>2. f \in Injection(p + 1..Len(q), since)
    BY <1>1, Fun_IsInj DEF Distinct
<1>3. Cardinality(p + 1..Len(q)) <= Cardinality(since)
    BY <1>2, FS_Injection
<1>4. Cardinality(p + 1..Len(q)) = Len(q) - p
    <2>1. p + 1 \in Int /\ Len(q) \in Int
        BY <1>1
    <2>2. Cardinality(p + 1..Len(q)) = IF p + 1 > Len(q) THEN 0 ELSE Len(q) - (p + 1) + 1
        BY <2>1, FS_Interval
    <2> QED
        BY <1>1, <2>2
<1>5. Cardinality(since) \in Nat
    BY FS_CardinalityType
<1>6. QED
    BY <1>1, <1>3, <1>4, <1>5

\* The sweep drops nothing early.
LEMMA ExpireAccounts ==
    ASSUME NEW q \in Seq(Entry), NEW t \in Times, NEW c \in Ids, NEW last \in Times, NEW since,
           IsFiniteSet(since), Distinct(q), Accounted(q, c, t, last, since)
    PROVE  Accounted(Expire(q, t), c, t, last, since)
<1> DEFINE s == Expire(q, t)
<1>1. PICK k \in 1..Len(q) + 1 :
          /\ Len(s) = Len(q) - k + 1
          /\ \A i \in 1..Len(s) : s[i] = q[k + i - 1]
          /\ \A i \in 1..k - 1 : ~MayStop(q, t, i)
    BY ExpireProperties
<1>2. Len(q) \in Nat
    BY LenProperties
<1> HIDE DEF s
<1>3. InPlace(s, c, last, since)
    <2> SUFFICES ASSUME NEW p \in 1..Len(s), s[p].cid = c
                 PROVE  s[p].seen = last /\ \A r \in p + 1..Len(s) : s[r].cid \in since
        BY DEF InPlace
    <2>1. k + p - 1 \in 1..Len(q) /\ q[k + p - 1] = s[p]
        BY <1>1, <1>2
    <2>2. q[k + p - 1].seen = last /\ \A r \in (k + p - 1) + 1..Len(q) : q[r].cid \in since
        BY <2>1 DEF Accounted, InPlace
    <2>3. ASSUME NEW r \in p + 1..Len(s) PROVE s[r].cid \in since
        <3>1. r \in 1..Len(s) /\ k + r - 1 \in (k + p - 1) + 1..Len(q)
            BY <1>1, <1>2
        <3> QED
            BY <1>1, <2>2, <3>1
    <2> QED
        BY <2>1, <2>2, <2>3
<1>4. ASSUME ~Has(s, c), Has(q, c) PROVE Due(t, last, since)
    <2>1. PICK p \in 1..Len(q) : q[p].cid = c
        BY <1>4 DEF Has
    <2>2. p \in 1..k - 1
        <3> SUFFICES ASSUME p >= k PROVE FALSE
            BY <1>2, <2>1
        <3>1. p - k + 1 \in 1..Len(s) /\ k + (p - k + 1) - 1 = p
            BY <1>1, <1>2
        <3> QED
            BY <1>1, <1>4, <2>1, <3>1 DEF Has
    <2>3. q[p].seen = last /\ \A r \in p + 1..Len(q) : q[r].cid \in since
        BY <2>1 DEF Accounted, InPlace
    <2>4. Cardinality(since) >= Len(q) - p
        BY <2>3, BehindCounts
    <2>5. IdleFor(q[p], t) \/ ~(Len(q) - p + 1 <= MaxConversations)
        BY <1>1, <2>2 DEF MayStop
    <2>6. CASE IdleFor(q[p], t)
        BY <2>3, <2>6 DEF IdleFor, Due
    <2>7. CASE ~(Len(q) - p + 1 <= MaxConversations)
        <3>1. Cardinality(since) \in Nat
            BY FS_CardinalityType
        <3> QED
            BY <1>2, <2>4, <2>7, <3>1, StoreAssumption DEF Due
    <2> QED
        BY <2>5, <2>6, <2>7
<1>5. QED
    BY <1>3, <1>4 DEF Accounted, s

\* Removing another conversation's entry leaves c accounted for.
LEMMA WithoutAccounts ==
    ASSUME NEW q \in Seq(Entry), NEW t \in Times, NEW c \in Ids, NEW d \in Ids, c # d,
           NEW last \in Times, NEW since, Accounted(q, c, t, last, since)
    PROVE  Accounted(Without(q, d), c, t, last, since)
<1>1. CASE ~Has(q, d)
    BY <1>1 DEF Without
<1>2. CASE Has(q, d)
    <2> DEFINE x == Position(q, d)
               w == Without(q, d)
    <2>1. x \in 1..Len(q) /\ q[x].cid = d
        BY <1>2 DEF Has, Position
    <2>2. Len(q) \in Nat
        BY LenProperties
    <2>3. w = RemoveAt(q, x)
        BY <1>2 DEF Without
    <2> HIDE DEF x, w
    <2>4. /\ Len(w) = Len(q) - 1
          /\ \A i \in 1..Len(w) : w[i] = IF i < x THEN q[i] ELSE q[i + 1]
        BY <2>1, <2>2, <2>3, RemoveAtProperties
    <2>5. ASSUME NEW p \in 1..Len(w), w[p].cid = c
          PROVE  w[p].seen = last /\ \A r \in p + 1..Len(w) : w[r].cid \in since
        <3> DEFINE y == IF p < x THEN p ELSE p + 1
        <3>1. y \in 1..Len(q) /\ w[p] = q[y]
            BY <2>1, <2>2, <2>4
        <3>2. q[y].seen = last /\ \A r \in y + 1..Len(q) : q[r].cid \in since
            BY <2>5, <3>1 DEF Accounted, InPlace
        <3>3. ASSUME NEW r \in p + 1..Len(w) PROVE w[r].cid \in since
            <4> DEFINE z == IF r < x THEN r ELSE r + 1
            <4>1. z \in y + 1..Len(q) /\ w[r] = q[z]
                BY <2>1, <2>2, <2>4
            <4> HIDE DEF z, y
            <4> QED
                BY <3>2, <4>1
        <3> QED
            BY <3>1, <3>2, <3>3
    <2>6. ASSUME Has(q, c) PROVE Has(w, c)
        <3>1. PICK p \in 1..Len(q) : q[p].cid = c
            BY <2>6 DEF Has
        <3>2. p # x
            BY <2>1, <3>1
        <3> DEFINE y == IF p < x THEN p ELSE p - 1
        <3>3. y \in 1..Len(w) /\ w[y] = q[p]
            BY <2>1, <2>2, <2>4, <3>2
        <3> QED
            BY <3>1, <3>3 DEF Has
    <2> QED
        BY <2>5, <2>6 DEF Accounted, InPlace, w
<1>3. QED
    BY <1>1, <1>2

\* A use of another conversation d leaves c accounted for, if d is counted.
LEMMA OtherUseAccounts ==
    ASSUME NEW q \in Seq(Entry), NEW t \in Times, NEW c \in Ids, NEW d \in Ids, c # d,
           SortedBy(q, t), Distinct(q),
           NEW last \in Times, NEW since, IsFiniteSet(since), Accounted(q, c, t, last, since)
    PROVE  Accounted(MoveToEnd(q, d, t), c, t, last, since \cup {d})
<1> DEFINE w == Without(q, d)
           e == [cid |-> d, seen |-> t]
           m == MoveToEnd(q, d, t)
<1>1. w \in Seq(Entry) /\ Accounted(w, c, t, last, since)
    BY WithoutAccounts, WithoutProperties
<1>2. e \in Entry /\ e.cid = d
    BY DEF Entry
<1>3. m = Append(w, e)
    BY DEF MoveToEnd
<1> HIDE DEF w, e, m
<1>4. /\ Len(w) \in Nat
      /\ Len(m) = Len(w) + 1
      /\ \A i \in 1..Len(w) : m[i] = w[i]
      /\ m[Len(w) + 1] = e
    BY <1>1, <1>2, <1>3, AppendProperties, LenProperties
<1>5. InPlace(m, c, last, since \cup {d})
    <2> SUFFICES ASSUME NEW p \in 1..Len(m), m[p].cid = c
                 PROVE  m[p].seen = last /\ \A r \in p + 1..Len(m) : m[r].cid \in since \cup {d}
        BY DEF InPlace
    <2>1. p \in 1..Len(w)
        BY <1>2, <1>4
    <2>2. w[p].seen = last /\ \A r \in p + 1..Len(w) : w[r].cid \in since
        BY <1>1, <1>4, <2>1 DEF Accounted, InPlace
    <2>3. ASSUME NEW r \in p + 1..Len(m) PROVE m[r].cid \in since \cup {d}
        <3>1. CASE r = Len(w) + 1
            BY <1>2, <1>4, <3>1
        <3>2. CASE r \in p + 1..Len(w)
            BY <1>4, <2>1, <2>2, <3>2
        <3> QED
            BY <1>4, <2>1, <3>1, <3>2
    <2> QED
        BY <1>4, <2>1, <2>2, <2>3
<1>6. Has(w, c) => Has(m, c)
    BY <1>4 DEF Has
<1>7. Due(t, last, since) => Due(t, last, since \cup {d})
    <2>1. /\ IsFiniteSet(since \cup {d})
          /\ Cardinality(since \cup {d}) =
                IF d \in since THEN Cardinality(since) ELSE Cardinality(since) + 1
        BY FS_AddElement
    <2>2. Cardinality(since) \in Nat /\ Cardinality(since \cup {d}) \in Nat
        BY <2>1, FS_CardinalityType
    <2> QED
        BY <2>1, <2>2, StoreAssumption DEF Due
<1>8. QED
    BY <1>1, <1>5, <1>6, <1>7 DEF Accounted, m

\* A use puts the conversation itself at the recent end, behind nobody.
LEMMA OwnUseAccounts ==
    ASSUME NEW q \in Seq(Entry), NEW t \in Times, NEW c \in Ids, SortedBy(q, t), Distinct(q)
    PROVE  Accounted(MoveToEnd(q, c, t), c, t, t, {})
<1> DEFINE w == Without(q, c)
           e == [cid |-> c, seen |-> t]
           m == MoveToEnd(q, c, t)
<1>1. w \in Seq(Entry) /\ \A i \in 1..Len(w) : w[i].cid # c
    BY WithoutProperties
<1>2. e \in Entry /\ e.cid = c /\ e.seen = t
    BY DEF Entry
<1>3. m = Append(w, e)
    BY DEF MoveToEnd
<1> HIDE DEF w, e, m
<1>4. /\ Len(w) \in Nat
      /\ Len(m) = Len(w) + 1
      /\ \A i \in 1..Len(w) : m[i] = w[i]
      /\ m[Len(w) + 1] = e
    BY <1>1, <1>2, <1>3, AppendProperties, LenProperties
<1>5. \A p \in 1..Len(m) : m[p].cid = c => p = Len(m)
    BY <1>1, <1>4
<1>6. InPlace(m, c, t, {})
    BY <1>2, <1>4, <1>5 DEF InPlace
<1>7. Has(m, c)
    BY <1>2, <1>4 DEF Has
<1>8. QED
    BY <1>6, <1>7 DEF Accounted, m

LEMMA UsesInit == MCInit => UsesInv
<1> SUFFICES ASSUME MCInit PROVE UsesInv
    OBVIOUS
<1>1. StoreInv
    BY StoreInit DEF MCInit
<1>2. HistoryTypes
    BY FS_EmptySet DEF MCInit, HistoryTypes
<1>3. \A c \in Ids : lastUse[c] = Never
    BY DEF MCInit
<1>4. QED
    BY <1>1, <1>2, <1>3 DEF UsesInv

\* What a use of d, which makes table' out of q, does to the history.
LEMMA UseKeeps ==
    ASSUME UsesInv, NEW d \in Ids, Use(d), now' = now, StoreInv',
           \A c \in Ids \ {d} : lastUse[c] # Never =>
               Accounted(table', c, now, lastUse[c], usedSince[c] \cup {d}),
           Accounted(table', d, now, now, {})
    PROVE  UsesInv'
<1>1. /\ lastUse' = [lastUse EXCEPT ![d] = now]
      /\ usedSince' = [c \in Ids |-> IF c = d THEN {} ELSE usedSince[c] \cup {d}]
    BY DEF Use
<1>2. HistoryTypes /\ now \in Times
    BY DEF UsesInv, StoreInv, TypeOK
<1>3. HistoryTypes'
    <2>1. \A c \in Ids : IsFiniteSet(usedSince'[c])
        BY <1>1, <1>2, FS_EmptySet, FS_AddElement DEF HistoryTypes
    <2> QED
        BY <1>1, <1>2, <2>1 DEF HistoryTypes
<1>4. ASSUME NEW c \in Ids, lastUse'[c] # Never
      PROVE  Accounted(table', c, now', lastUse'[c], usedSince'[c])
    <2>1. CASE c = d
        BY <1>1, <1>2, <2>1 DEF HistoryTypes
    <2>2. CASE c # d
        <3>1. lastUse'[c] = lastUse[c] /\ usedSince'[c] = usedSince[c] \cup {d}
            BY <1>1, <1>2, <2>2 DEF HistoryTypes
        <3> QED
            BY <1>4, <2>2, <3>1
    <2> QED
        BY <2>1, <2>2
<1>5. QED
    BY <1>3, <1>4 DEF UsesInv

LEMMA UsesNext == UsesInv /\ [MCNext]_mcVars => UsesInv'
<1> SUFFICES ASSUME UsesInv, [MCNext]_mcVars PROVE UsesInv'
    OBVIOUS
<1>1. /\ table \in Seq(Entry) /\ now \in Times
      /\ SortedBy(table, now) /\ Distinct(table)
    BY StoreInvParts DEF TypeOK, UsesInv
<1>2. StoreInv /\ HistoryTypes
    BY DEF UsesInv
<1>3. /\ Expire(table, now) \in Seq(Entry)
      /\ SortedBy(Expire(table, now), now)
      /\ Distinct(Expire(table, now))
    BY <1>2, SweepKeepsInv
<1>4. [Next]_storeVars
    BY DEF MCNext, Next, mcVars, storeVars
<1>5. StoreInv'
    BY <1>2, <1>4, StoreNext
<1>6. \A c \in Ids : lastUse[c] # Never => lastUse[c] \in Times /\ IsFiniteSet(usedSince[c])
    BY <1>2 DEF HistoryTypes
<1>7. \A c \in Ids : lastUse[c] # Never =>
          /\ Accounted(table, c, now, lastUse[c], usedSince[c])
          /\ Accounted(Expire(table, now), c, now, lastUse[c], usedSince[c])
    BY <1>1, <1>6, ExpireAccounts DEF UsesInv
<1>8. ASSUME NEW d \in Ids, GetHit(d), Use(d) PROVE UsesInv'
    <2> DEFINE swept == Expire(table, now)
    <2>1. table' = MoveToEnd(swept, d, now) /\ now' = now
        BY <1>8 DEF GetHit
    <2> HIDE DEF swept
    <2>2. swept \in Seq(Entry) /\ SortedBy(swept, now) /\ Distinct(swept)
        BY <1>3 DEF swept
    <2>3. ASSUME NEW c \in Ids \ {d}, lastUse[c] # Never
          PROVE  Accounted(table', c, now, lastUse[c], usedSince[c] \cup {d})
        <3>1. Accounted(swept, c, now, lastUse[c], usedSince[c])
            BY <1>7, <2>3 DEF swept
        <3> QED
            BY <1>1, <1>6, <2>1, <2>2, <2>3, <3>1, OtherUseAccounts
    <2>4. Accounted(table', d, now, now, {})
        BY <1>1, <2>1, <2>2, OwnUseAccounts
    <2> QED
        BY <1>5, <1>8, <2>1, <2>3, <2>4, UseKeeps
<1>9. ASSUME NEW d \in Ids, Save(d), Use(d) PROVE UsesInv'
    <2> DEFINE q == MoveToEnd(table, d, now)
    <2>1. table' = Expire(q, now) /\ now' = now
        BY <1>9 DEF Save
    <2>2. q \in Seq(Entry) /\ Distinct(q)
        BY <1>1, MoveToEndProperties
    <2>3. Accounted(q, d, now, now, {})
        BY <1>1, OwnUseAccounts
    <2>4. ASSUME NEW c \in Ids \ {d}, lastUse[c] # Never
          PROVE  Accounted(q, c, now, lastUse[c], usedSince[c] \cup {d})
        BY <1>1, <1>6, <1>7, <2>4, OtherUseAccounts
    <2> HIDE DEF q
    <2>5. ASSUME NEW c \in Ids \ {d}, lastUse[c] # Never
          PROVE  Accounted(table', c, now, lastUse[c], usedSince[c] \cup {d})
        <3>1. IsFiniteSet(usedSince[c] \cup {d})
            BY <1>6, <2>5, FS_AddElement
        <3> QED
            BY <1>1, <1>6, <2>1, <2>2, <2>4, <2>5, <3>1, ExpireAccounts
    <2>6. Accounted(table', d, now, now, {})
        BY <1>1, <2>1, <2>2, <2>3, FS_EmptySet, ExpireAccounts
    <2> QED
        BY <1>5, <1>9, <2>1, <2>5, <2>6, UseKeeps
<1>10. ASSUME NEW d \in Ids, GetMiss(d), UNCHANGED <<lastUse, usedSince>> PROVE UsesInv'
    <2>1. table' = Expire(table, now) /\ now' = now
        BY <1>10 DEF GetMiss
    <2> QED
        BY <1>2, <1>5, <1>7, <1>10, <2>1 DEF UsesInv, HistoryTypes
<1>11. ASSUME NEW d \in Ids, Delete(d), Unused(d) PROVE UsesInv'
    <2>1. /\ table' = Without(table, d) /\ now' = now
          /\ lastUse' = [lastUse EXCEPT ![d] = Never] /\ usedSince' = usedSince
        BY <1>11 DEF Delete, Unused
    <2>2. HistoryTypes'
        BY <1>2, <2>1 DEF HistoryTypes
    <2>3. ASSUME NEW c \in Ids, lastUse'[c] # Never
          PROVE  Accounted(table', c, now', lastUse'[c], usedSince'[c])
        <3>1. c # d /\ lastUse'[c] = lastUse[c]
            BY <1>2, <2>1, <2>3 DEF HistoryTypes
        <3> QED
            BY <1>1, <1>6, <1>7, <2>1, <2>3, <3>1, WithoutAccounts
    <2> QED
        BY <1>5, <2>2, <2>3 DEF UsesInv
<1>12. ASSUME NEW t \in Times, Tick(t), UNCHANGED <<lastUse, usedSince>> PROVE UsesInv'
    <2>1. t > now /\ now' = t /\ table' = table
        BY <1>12 DEF Tick
    <2>2. ASSUME NEW c \in Ids, lastUse[c] # Never
          PROVE  Accounted(table, c, t, lastUse[c], usedSince[c])
        <3>1. lastUse[c] \in Nat /\ t \in Nat /\ now \in Nat /\ IdleSeconds \in Nat
            BY <1>1, <1>6, <2>2, StoreAssumption
        <3>2. Due(now, lastUse[c], usedSince[c]) => Due(t, lastUse[c], usedSince[c])
            BY <2>1, <3>1 DEF Due
        <3> QED
            BY <1>7, <2>2, <3>2 DEF Accounted
    <2> QED
        BY <1>2, <1>5, <1>12, <2>1, <2>2 DEF UsesInv, HistoryTypes
<1>13. CASE UNCHANGED mcVars
    BY <1>2, <1>5, <1>13 DEF UsesInv, HistoryTypes, mcVars
<1>14. QED
    BY <1>8, <1>9, <1>10, <1>11, <1>12, <1>13 DEF MCNext

\* A conversation leaves the table only when it was deleted, had been idle for
\* longer than idle_seconds, or max_conversations others were used since
\* (InMemoryConversationStore.get and save).
THEOREM NothingIsLostEarly == MCSpec => []NoEarlyLoss
<1>1. MCInit => UsesInv
    BY UsesInit
<1>2. UsesInv /\ [MCNext]_mcVars => UsesInv'
    BY UsesNext
<1>3. UsesInv => NoEarlyLoss
    <2> SUFFICES ASSUME UsesInv, NEW c \in Ids, lastUse[c] # Never,
                        now - lastUse[c] <= IdleSeconds,
                        Cardinality(usedSince[c]) < MaxConversations
                 PROVE  Has(table, c)
        BY DEF NoEarlyLoss
    <2>1. now \in Nat /\ lastUse[c] \in Nat /\ IdleSeconds \in Nat /\ MaxConversations \in Nat
        BY StoreAssumption DEF UsesInv, HistoryTypes, StoreInv, TypeOK
    <2>2. Cardinality(usedSince[c]) \in Nat
        BY FS_CardinalityType DEF UsesInv, HistoryTypes
    <2>3. ~Due(now, lastUse[c], usedSince[c])
        BY <2>1, <2>2 DEF Due
    <2> QED
        BY <2>3 DEF UsesInv, Accounted
<1>4. QED
    BY <1>1, <1>2, <1>3, PTL DEF MCSpec
=============================================================================
