----------------------------- MODULE DataLemmas -----------------------------
(***************************************************************************)
(* Facts about natural numbers, sequences and what is sorted, that several *)
(* proofs rest on.                                                         *)
(***************************************************************************)
EXTENDS Integers, SequencesExt, Ordering, SequenceTheorems, FiniteSetTheorems, WellFoundedInduction, TLAPS

\* A non-empty set of naturals has a least element.
LEMMA LeastElement ==
    ASSUME NEW T, T \subseteq Nat, T # {}
    PROVE  \E x \in T : \A y \in T : x <= y
<1>1. \E x \in T : \A y \in T : <<y, x>> \notin OpToRel(<, Nat)
    BY NatLessThanWellFounded, WFMin
<1>2. PICK x \in T : \A y \in T : <<y, x>> \notin OpToRel(<, Nat)
    BY <1>1
<1>3. ASSUME NEW y \in T PROVE x <= y
    <2>1. <<y, x>> \in Nat \X Nat
        OBVIOUS
    <2>2. ~(y < x)
        BY <1>2, <2>1 DEF OpToRel
    <2>3. QED
        BY <2>2
<1>4. QED
    BY <1>3

\* Removing the entry at one position shifts the later ones down by one.
LEMMA RemoveAtProperties ==
    ASSUME NEW S, NEW q \in Seq(S), NEW p \in 1..Len(q)
    PROVE  /\ RemoveAt(q, p) \in Seq(S)
           /\ Len(RemoveAt(q, p)) = Len(q) - 1
           /\ \A i \in 1..Len(q) - 1 :
                  RemoveAt(q, p)[i] = IF i < p THEN q[i] ELSE q[i + 1]
<1> DEFINE a == SubSeq(q, 1, p - 1)
           b == SubSeq(q, p + 1, Len(q))
<1>1. Len(q) \in Nat /\ \A i \in 1..Len(q) : q[i] \in S
    BY LenProperties, ElementOfSeq
<1>2. /\ a \in Seq(S)
      /\ Len(a) = p - 1
      /\ \A i \in 1..p - 1 : a[i] = q[i]
    <2>1. \A i \in 1..p - 1 : q[i] \in S
        BY <1>1
    <2>2. 1 \in Int /\ p - 1 \in Int
        BY <1>1
    <2>3. /\ SubSeq(q, 1, p - 1) \in Seq(S)
          /\ Len(SubSeq(q, 1, p - 1)) = IF 1 <= p - 1 THEN p - 1 - 1 + 1 ELSE 0
          /\ \A i \in 1..p - 1 - 1 + 1 : SubSeq(q, 1, p - 1)[i] = q[1 + i - 1]
        BY <2>1, <2>2, SubSeqProperties
    <2> HIDE DEF b
    <2>4. QED
        BY <1>1, <2>3
<1>3. /\ b \in Seq(S)
      /\ Len(b) = Len(q) - p
      /\ \A i \in 1..Len(q) - p : b[i] = q[p + i]
    <2>1. \A i \in p + 1..Len(q) : q[i] \in S
        BY <1>1
    <2>2. p + 1 \in Int /\ Len(q) \in Int
        BY <1>1
    <2>3. /\ SubSeq(q, p + 1, Len(q)) \in Seq(S)
          /\ Len(SubSeq(q, p + 1, Len(q))) =
                IF p + 1 <= Len(q) THEN Len(q) - (p + 1) + 1 ELSE 0
          /\ \A i \in 1..Len(q) - (p + 1) + 1 :
                SubSeq(q, p + 1, Len(q))[i] = q[p + 1 + i - 1]
        BY <2>1, <2>2, SubSeqProperties
    <2> HIDE DEF a
    <2>4. QED
        BY <1>1, <2>3
<1> HIDE DEF a, b
<1> DEFINE c == a \o b
<1>4. /\ c \in Seq(S)
      /\ Len(c) = Len(a) + Len(b)
      /\ \A i \in 1..Len(a) + Len(b) :
             c[i] = IF i <= Len(a) THEN a[i] ELSE b[i - Len(a)]
    BY <1>2, <1>3, ConcatProperties
<1>5. RemoveAt(q, p) = c
    BY DEF RemoveAt, a, b, c
<1> HIDE DEF c
<1>6. ASSUME NEW i \in 1..Len(q) - 1
      PROVE  c[i] = IF i < p THEN q[i] ELSE q[i + 1]
    <2>1. CASE i < p
        <3>1. i \in 1..p - 1 /\ i <= Len(a) /\ i \in 1..Len(a) + Len(b)
            BY <1>1, <1>2, <1>3, <2>1
        <3>2. c[i] = a[i] /\ a[i] = q[i]
            BY <1>2, <1>4, <3>1
        <3>3. QED
            BY <2>1, <3>2
    <2>2. CASE i >= p
        <3>1. c[i] = b[i - (p - 1)]
            BY <1>1, <1>2, <1>3, <1>4, <2>2, SMTT(30)
        <3>2. i - (p - 1) \in 1..Len(q) - p
            BY <1>1, <2>2
        <3>3. b[i - (p - 1)] = q[p + (i - (p - 1))]
            BY <1>3, <3>2
        <3>4. p + (i - (p - 1)) = i + 1
            BY <1>1
        <3>5. QED
            BY <3>1, <3>3, <3>4, <2>2
    <2>3. i < p \/ i >= p
        BY <1>1
    <2>4. QED
        BY <2>1, <2>2, <2>3
<1>7. c \in Seq(S) /\ Len(c) = Len(q) - 1
    BY <1>1, <1>2, <1>3, <1>4
<1>8. QED
    BY <1>5, <1>6, <1>7

\* The last n elements of a sequence.
LEMMA SuffixProperties ==
    ASSUME NEW S, NEW q \in Seq(S), NEW n \in Nat, n <= Len(q)
    PROVE  /\ SubSeq(q, Len(q) - n + 1, Len(q)) \in Seq(S)
           /\ Len(SubSeq(q, Len(q) - n + 1, Len(q))) = n
           /\ \A i \in 1..n : SubSeq(q, Len(q) - n + 1, Len(q))[i] = q[Len(q) - n + i]
<1>1. Len(q) \in Nat /\ \A i \in 1..Len(q) : q[i] \in S
    BY LenProperties, ElementOfSeq
<1> DEFINE m == Len(q) - n + 1
<1>2. m \in Int /\ Len(q) \in Int /\ \A i \in m..Len(q) : q[i] \in S
    BY <1>1
<1>3. /\ SubSeq(q, m, Len(q)) \in Seq(S)
      /\ Len(SubSeq(q, m, Len(q))) = IF m <= Len(q) THEN Len(q) - m + 1 ELSE 0
      /\ \A i \in 1..Len(q) - m + 1 : SubSeq(q, m, Len(q))[i] = q[m + i - 1]
    <2> HIDE DEF m
    <2>1. QED
        BY <1>2, SubSeqProperties
<1>4. QED
    BY <1>1, <1>3

-----------------------------------------------------------------------------
\* An order has all of a set in a line; the place of an element is how many are not after it.
InLine(S, R) ==
    /\ \A x \in S : <<x, x>> \in R
    /\ \A x, y \in S : <<x, y>> \in R \/ <<y, x>> \in R
    /\ \A x, y \in S : <<x, y>> \in R /\ <<y, x>> \in R => x = y
    /\ \A x, y, z \in S : <<x, y>> \in R /\ <<y, z>> \in R => <<x, z>> \in R
UpTo(x, S, R) == {y \in S : <<y, x>> \in R}
Standing(x, S, R) == Cardinality(UpTo(x, S, R))

\* In a finite set that an order has all in a line, every element has a place of its own: how many are not after it.
LEMMA PlacesInLine ==
    ASSUME NEW S, IsFiniteSet(S), NEW R, InLine(S, R)
    PROVE  /\ Cardinality(S) \in Nat
           /\ \A x \in S : Standing(x, S, R) \in 1..Cardinality(S)
           /\ \A x, y \in S : <<x, y>> \in R /\ x # y => Standing(x, S, R) < Standing(y, S, R)
           /\ \A x, y \in S : Standing(x, S, R) = Standing(y, S, R) => x = y
           /\ \A k \in 1..Cardinality(S) : \E x \in S : Standing(x, S, R) = k
<1>1. Cardinality(S) \in Nat
    BY FS_CardinalityType
<1>2. PICK place : place = [x \in S |-> Standing(x, S, R)]
    OBVIOUS
<1>3. \A x \in S : UpTo(x, S, R) \in SUBSET S /\ x \in UpTo(x, S, R) /\ place[x] = Cardinality(UpTo(x, S, R))
    BY <1>2 DEF UpTo, Standing, InLine
<1>4. \A x \in S : IsFiniteSet(UpTo(x, S, R)) /\ place[x] \in Nat /\ place[x] <= Cardinality(S)
    <2> SUFFICES ASSUME NEW x \in S PROVE IsFiniteSet(UpTo(x, S, R)) /\ place[x] \in Nat /\ place[x] <= Cardinality(S)
        OBVIOUS
    <2>1. IsFiniteSet(UpTo(x, S, R)) /\ Cardinality(UpTo(x, S, R)) <= Cardinality(S)
        BY <1>3, FS_Subset
    <2> QED
        BY <1>3, <2>1, FS_CardinalityType
<1>5. ASSUME NEW x \in S PROVE place[x] \in 1..Cardinality(S)
    <2>1. UpTo(x, S, R) # {}
        BY <1>3
    <2>2. Cardinality(UpTo(x, S, R)) # 0
        BY <2>1, <1>4, FS_EmptySet
    <2> QED
        BY <2>2, <1>1, <1>3, <1>4
<1>6. ASSUME NEW x \in S, NEW y \in S, <<x, y>> \in R, x # y PROVE place[x] < place[y]
    <2>1. UpTo(x, S, R) \in SUBSET UpTo(y, S, R) /\ y \notin UpTo(x, S, R)
        BY <1>6 DEF UpTo, InLine
    <2>2. UpTo(x, S, R) # UpTo(y, S, R)
        BY <2>1, <1>3
    <2>3. Cardinality(UpTo(x, S, R)) <= Cardinality(UpTo(y, S, R)) /\ Cardinality(UpTo(x, S, R)) # Cardinality(UpTo(y, S, R))
        BY <2>1, <2>2, <1>4, FS_Subset
    <2>4. place[x] \in Nat /\ place[y] \in Nat /\ place[x] <= place[y] /\ place[x] # place[y]
        BY <2>3, <1>3, <1>4
    <2> QED
        BY <2>4
<1>7. \A x, y \in S : place[x] = place[y] => x = y
    <2> SUFFICES ASSUME NEW x \in S, NEW y \in S, x # y PROVE place[x] # place[y]
        OBVIOUS
    <2>1. place[x] < place[y] \/ place[y] < place[x]
        BY <1>6 DEF InLine
    <2> QED
        BY <2>1, <1>4
<1>8. IsFiniteSet(1..Cardinality(S)) /\ Cardinality(1..Cardinality(S)) = Cardinality(S)
    BY <1>1, FS_Interval
<1>9. place \in Surjection(S, 1..Cardinality(S))
    <2>1. place \in [S -> 1..Cardinality(S)]
        BY <1>2, <1>5
    <2>2. place \in Injection(S, 1..Cardinality(S))
        BY <2>1, <1>7 DEF Injection, IsInjective
    <2> QED
        BY <2>2, <1>8, FS_Injection
<1>10. \A k \in 1..Cardinality(S) : \E x \in S : place[x] = k
    BY <1>9 DEF Surjection
<1> QED
    BY <1>1, <1>2, <1>5, <1>6, <1>7, <1>10

\* Every number has a place of its own in a finite set of them.
LEMMA PlacesOfNumbers ==
    ASSUME NEW S, S \subseteq Nat, IsFiniteSet(S)
    PROVE  /\ Cardinality(S) \in Nat
           /\ \A x \in S : Cardinality({y \in S : y <= x}) \in 1..Cardinality(S)
           /\ \A x, z \in S : Cardinality({y \in S : y <= x}) = Cardinality({y \in S : y <= z}) => x = z
           /\ \A k \in 1..Cardinality(S) : \E x \in S : Cardinality({y \in S : y <= x}) = k
<1>1. PICK R : R = {p \in S \X S : p[1] <= p[2]}
    OBVIOUS
<1>2. \A x, y \in S : <<x, y>> \in R <=> x <= y
    BY <1>1
<1>3. InLine(S, R)
    BY <1>2 DEF InLine
<1>4. \A x \in S : Standing(x, S, R) = Cardinality({y \in S : y <= x})
    <2>1. \A x \in S : UpTo(x, S, R) = {y \in S : y <= x}
        BY <1>2 DEF UpTo
    <2> QED
        BY <2>1 DEF Standing
<1> QED
    <2>1. /\ Cardinality(S) \in Nat
          /\ \A x \in S : Standing(x, S, R) \in 1..Cardinality(S)
          /\ \A x, y \in S : Standing(x, S, R) = Standing(y, S, R) => x = y
          /\ \A k \in 1..Cardinality(S) : \E x \in S : Standing(x, S, R) = k
        BY <1>3, PlacesInLine
    <2> QED
        BY <2>1, <1>4

\* What is sorted is there once each, and in order.
LEMMA SortedInOrder ==
    ASSUME NEW S, S \subseteq Nat \X Nat, IsFiniteSet(S)
    PROVE  /\ Cardinality(S) \in Nat
           /\ Sorted(S) \in [1..Cardinality(S) -> S]
           /\ \A x \in S : \E k \in 1..Cardinality(S) : Sorted(S)[k] = x
           /\ \A k, l \in 1..Cardinality(S) : k < l => Sorted(S)[k] # Sorted(S)[l] /\ NotAfter(Sorted(S)[k], Sorted(S)[l])
<1>1. PICK R : R = {p \in S \X S : NotAfter(p[1], p[2])}
    OBVIOUS
<1>2. \A x, y \in S : <<x, y>> \in R <=> NotAfter(x, y)
    BY <1>1
<1>3. \A x \in S : x[1] \in Nat /\ x[2] \in Nat /\ x = <<x[1], x[2]>>
    OBVIOUS
<1>4. /\ \A x \in S : NotAfter(x, x)
      /\ \A x, y \in S : NotAfter(x, y) \/ NotAfter(y, x)
      /\ \A x, y, z \in S : NotAfter(x, y) /\ NotAfter(y, z) => NotAfter(x, z)
    BY <1>3 DEF NotAfter
<1>5. ASSUME NEW x \in S, NEW y \in S, NotAfter(x, y), NotAfter(y, x) PROVE x = y
    <2>1. x[1] = y[1] /\ x[2] = y[2]
        BY <1>3, <1>5 DEF NotAfter
    <2> QED
        BY <2>1, <1>3
<1>6. InLine(S, R)
    BY <1>2, <1>4, <1>5 DEF InLine
<1>7. PICK place : place = [x \in S |-> Standing(x, S, R)]
    OBVIOUS
<1>9. \A x \in S : place[x] = Cardinality({y \in S : NotAfter(y, x)})
    <2>1. \A x \in S : UpTo(x, S, R) = {y \in S : NotAfter(y, x)}
        BY <1>2 DEF UpTo
    <2> QED
        BY <2>1, <1>7 DEF Standing
<1>10. /\ Cardinality(S) \in Nat
       /\ \A x \in S : place[x] \in 1..Cardinality(S)
       /\ \A x, y \in S : <<x, y>> \in R /\ x # y => place[x] < place[y]
       /\ \A x, y \in S : place[x] = place[y] => x = y
       /\ \A k \in 1..Cardinality(S) : \E x \in S : place[x] = k
    BY <1>6, <1>7, PlacesInLine
<1>11. \A k \in 1..Cardinality(S) : Sorted(S)[k] = CHOOSE x \in S : Cardinality({y \in S : NotAfter(y, x)}) = k
    BY DEF Sorted
<1>12. ASSUME NEW k \in 1..Cardinality(S) PROVE Sorted(S)[k] \in S /\ place[Sorted(S)[k]] = k
    <2>1. PICK x \in S : place[x] = k
        BY <1>10
    <2>2. \E z \in S : Cardinality({y \in S : NotAfter(y, z)}) = k
        BY <2>1, <1>9
    <2>3. Sorted(S)[k] \in S /\ Cardinality({y \in S : NotAfter(y, Sorted(S)[k])}) = k
        BY <2>2, <1>11
    <2> QED
        BY <2>3, <1>9
<1>13. DOMAIN Sorted(S) = 1..Cardinality(S) /\ Sorted(S) = [k \in 1..Cardinality(S) |-> Sorted(S)[k]]
    BY DEF Sorted
<1>14. Sorted(S) \in [1..Cardinality(S) -> S]
    BY <1>12, <1>13
<1>15. ASSUME NEW x \in S PROVE \E k \in 1..Cardinality(S) : Sorted(S)[k] = x
    <2>1. place[x] \in 1..Cardinality(S) /\ place[Sorted(S)[place[x]]] = place[x] /\ Sorted(S)[place[x]] \in S
        BY <1>10, <1>12
    <2>2. Sorted(S)[place[x]] = x
        BY <2>1, <1>10
    <2> QED
        BY <2>1, <2>2
<1>16. ASSUME NEW k \in 1..Cardinality(S), NEW l \in 1..Cardinality(S), k < l
       PROVE  Sorted(S)[k] # Sorted(S)[l] /\ NotAfter(Sorted(S)[k], Sorted(S)[l])
    <2>1. /\ Sorted(S)[k] \in S /\ place[Sorted(S)[k]] = k
          /\ Sorted(S)[l] \in S /\ place[Sorted(S)[l]] = l
        BY <1>12
    <2>2. Sorted(S)[k] # Sorted(S)[l]
        BY <2>1, <1>16
    <2>3. ASSUME NotAfter(Sorted(S)[l], Sorted(S)[k]) PROVE FALSE
        <3>1. <<Sorted(S)[l], Sorted(S)[k]>> \in R
            BY <2>1, <2>3, <1>2
        <3>2. place[Sorted(S)[l]] < place[Sorted(S)[k]]
            BY <2>1, <2>2, <3>1, <1>10
        <3>3. l < k
            BY <2>1, <3>2
        <3> QED
            BY <3>3, <1>16, <1>10
    <2>4. ~NotAfter(Sorted(S)[l], Sorted(S)[k])
        BY <2>3
    <2> QED
        BY <2>1, <2>2, <2>4, <1>4
<1> QED
    BY <1>10, <1>14, <1>15, <1>16
=============================================================================
