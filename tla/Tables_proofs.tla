---------------------------- MODULE Tables_proofs ----------------------------
(***************************************************************************)
(* Proofs about the tables a server keeps beside the conversations, for    *)
(* every value of their constants: RateLimiter, UserMemory and OwnerAuth.  *)
(* LimiterInv: a deque is the end of the log of requests let through, and  *)
(* what was popped from it has aged, so counting the deque counts the last *)
(* window. MemoryInv follows a fact from the acknowledgement on: while it  *)
(* is expected nothing that touches its slot runs, so what the holder of   *)
(* the lock has read or is to write has it too; without the unlocked       *)
(* forget the holder's copy is the file (Fresh), and the store implements  *)
(* UserMemoryAtomic. AuthInv has for each key of the owner's secret which  *)
(* failures locked it, and for each of his sessions until when it may be   *)
(* used.                                                                   *)
(***************************************************************************)
EXTENDS RateLimiter, OwnerAuth, UserMemory, DataLemmas, FiniteSetTheorems, TLAPS

-----------------------------------------------------------------------------
(***************************************************************************)
(* The rate limiter.                                                       *)
(***************************************************************************)
\* Where the sweep stops: everything before has aged, nothing at it has.
LEMMA FirstLiveIsFirst ==
    ASSUME NEW q \in Seq(Readings), NEW t \in Readings
    PROVE  /\ FirstLive(q, t) \in 1..Len(q) + 1
           /\ LimiterMayStop(q, t, FirstLive(q, t))
           /\ \A i \in 1..FirstLive(q, t) - 1 : Aged(q[i], t)
<1> DEFINE T == {i \in 1..Len(q) + 1 : LimiterMayStop(q, t, i)}
<1>1. Len(q) \in Nat
    BY LenProperties
<1>2. Len(q) + 1 \in T
    BY <1>1 DEF LimiterMayStop
<1>3. T \subseteq Nat
    BY <1>1
<1>4. \E x \in T : \A y \in T : x <= y
    <2> HIDE DEF T
    <2> QED BY <1>2, <1>3, LeastElement
<1>5. \E i \in 1..Len(q) + 1 :
          /\ LimiterMayStop(q, t, i)
          /\ \A j \in 1..Len(q) + 1 : LimiterMayStop(q, t, j) => i <= j
    BY <1>4
<1>6. /\ FirstLive(q, t) \in 1..Len(q) + 1
      /\ LimiterMayStop(q, t, FirstLive(q, t))
      /\ \A j \in 1..Len(q) + 1 : LimiterMayStop(q, t, j) => FirstLive(q, t) <= j
    BY <1>5 DEF FirstLive
<1>7. ASSUME NEW i \in 1..FirstLive(q, t) - 1 PROVE Aged(q[i], t)
    <2>1. i \in 1..Len(q) + 1 /\ ~(FirstLive(q, t) <= i)
        BY <1>1, <1>6
    <2>2. ~LimiterMayStop(q, t, i)
        BY <1>6, <2>1
    <2>3. QED
        BY <2>2 DEF LimiterMayStop
<1>8. QED
    BY <1>6, <1>7

\* A sweep keeps the deque at the end of its log, and what it keeps has not
\* aged.
LEMMA SweepTracks ==
    ASSUME NEW q \in Seq(Readings), NEW l \in Seq(Readings), NEW t \in Readings, Tracks(q, l, t)
    PROVE  /\ Sweep(q, t) \in Seq(Readings)
           /\ Tracks(Sweep(q, t), l, t)
           /\ \A i \in 1..Len(Sweep(q, t)) : ~Aged(Sweep(q, t)[i], t)
<1> DEFINE k == FirstLive(q, t)
           s == Sweep(q, t)
<1>1. /\ k \in 1..Len(q) + 1
      /\ LimiterMayStop(q, t, k)
      /\ \A i \in 1..k - 1 : Aged(q[i], t)
    BY FirstLiveIsFirst
<1>2. Len(q) \in Nat /\ Len(l) \in Nat
    BY LenProperties
<1>3. \A i \in k..Len(q) : q[i] \in Readings
    BY <1>1, <1>2, ElementOfSeq
<1>4. \A i \in 1..Len(l) : l[i] \in Nat
    BY ElementOfSeq, LimiterAssumption
<1>5. /\ s \in Seq(Readings)
      /\ Len(s) = Len(q) - k + 1
      /\ \A i \in 1..Len(s) : s[i] = q[k + i - 1]
    <2> HIDE DEF k
    <2>1. k \in Int /\ Len(q) \in Int
        BY <1>1, <1>2
    <2>2. /\ SubSeq(q, k, Len(q)) \in Seq(Readings)
          /\ Len(SubSeq(q, k, Len(q))) = IF k <= Len(q) THEN Len(q) - k + 1 ELSE 0
          /\ \A i \in 1..Len(q) - k + 1 : SubSeq(q, k, Len(q))[i] = q[k + i - 1]
        BY <1>3, <2>1, SubSeqProperties
    <2>3. s = SubSeq(q, k, Len(q))
        BY DEF Sweep, k
    <2>4. QED
        BY <1>1, <1>2, <2>2, <2>3
<1> HIDE DEF k, s
<1>6. \A i \in 1..Len(s) : s[i] = l[Len(l) - Len(s) + i]
    <2> TAKE i \in 1..Len(s)
    <2>1. k + i - 1 \in 1..Len(q)
        BY <1>1, <1>2, <1>5
    <2>2. q[k + i - 1] = l[Len(l) - Len(q) + (k + i - 1)]
        BY <2>1 DEF Tracks
    <2>3. Len(l) - Len(q) + (k + i - 1) = Len(l) - Len(s) + i
        BY <1>1, <1>2, <1>5
    <2>4. QED
        BY <1>5, <2>2, <2>3
<1>7. \A i \in 1..Len(l) - Len(s) : Aged(l[i], t)
    <2> TAKE i \in 1..Len(l) - Len(s)
    <2>1. CASE i <= Len(l) - Len(q)
        BY <1>2, <2>1 DEF Tracks
    <2>2. CASE i > Len(l) - Len(q)
        <3> DEFINE j == i - (Len(l) - Len(q))
        <3>1. j \in 1..k - 1 /\ j \in 1..Len(q) /\ i = Len(l) - Len(q) + j
            BY <1>1, <1>2, <1>5, <2>2
        <3>2. q[j] = l[i]
            BY <3>1 DEF Tracks
        <3>3. Aged(q[j], t)
            BY <1>1, <3>1
        <3>4. QED
            BY <3>2, <3>3
    <2>3. QED
        BY <1>1, <1>2, <1>5, <2>1, <2>2
<1>8. Tracks(s, l, t)
    BY <1>1, <1>2, <1>5, <1>6, <1>7 DEF Tracks
<1>9. \A i \in 1..Len(s) : ~Aged(s[i], t)
    <2> TAKE i \in 1..Len(s)
    <2>1. k # Len(q) + 1
        BY <1>1, <1>2, <1>5
    <2>2. ~Aged(q[k], t)
        BY <1>1, <2>1 DEF LimiterMayStop
    <2>3. 1 \in 1..Len(s) /\ s[1] = q[k]
        BY <1>1, <1>2, <1>5
    <2>4. Len(l) - Len(s) + 1 \in 1..Len(l) /\ Len(l) - Len(s) + i \in 1..Len(l)
        BY <1>2, <1>5, <1>8, <1>1 DEF Tracks
    <2>5. l[Len(l) - Len(s) + 1] <= l[Len(l) - Len(s) + i]
        <3>1. \A a, b \in 1..Len(l) : a <= b => l[a] <= l[b]
            BY DEF Tracks
        <3>2. Len(l) - Len(s) + 1 <= Len(l) - Len(s) + i
            BY <1>1, <1>2, <1>5
        <3>3. QED
            BY <2>4, <3>1, <3>2
    <2>6. s[1] <= s[i]
        BY <1>6, <2>3, <2>5
    <2>7. s[1] \in Nat /\ s[i] \in Nat /\ t \in Nat /\ Window \in Nat
        BY <1>4, <1>6, <2>3, <2>4, LimiterAssumption
    <2>8. QED
        BY <2>2, <2>3, <2>6, <2>7 DEF Aged
<1>10. QED
    BY <1>5, <1>8, <1>9 DEF s

\* Counting a request keeps the deque at the end of the log.
LEMMA AppendTracks ==
    ASSUME NEW q \in Seq(Readings), NEW l \in Seq(Readings), NEW t \in Readings, Tracks(q, l, t)
    PROVE  Tracks(Append(q, t), Append(l, t), t)
<1> DEFINE aq == Append(q, t)
           al == Append(l, t)
<1>1. Len(q) \in Nat /\ Len(l) \in Nat /\ Len(q) <= Len(l)
    BY LenProperties DEF Tracks
<1>2. Len(aq) = Len(q) + 1 /\ Len(al) = Len(l) + 1
    BY AppendProperties
<1>3. /\ \A i \in 1..Len(q) : aq[i] = q[i]
      /\ \A i \in 1..Len(l) : al[i] = l[i]
      /\ aq[Len(q) + 1] = t
      /\ al[Len(l) + 1] = t
    BY AppendProperties
<1>4. t \in Nat /\ \A i \in 1..Len(l) : l[i] \in Nat
    BY ElementOfSeq, LimiterAssumption
<1> HIDE DEF aq, al
<1>5. \A i \in 1..Len(aq) : aq[i] = al[Len(al) - Len(aq) + i]
    <2> TAKE i \in 1..Len(aq)
    <2>1. CASE i = Len(q) + 1
        BY <1>1, <1>2, <1>3, <2>1
    <2>2. CASE i \in 1..Len(q)
        <3>1. Len(l) - Len(q) + i \in 1..Len(l)
            BY <1>1, <2>2
        <3>2. q[i] = l[Len(l) - Len(q) + i]
            BY <2>2 DEF Tracks
        <3>3. Len(al) - Len(aq) + i = Len(l) - Len(q) + i
            BY <1>1, <1>2
        <3>4. QED
            BY <1>3, <2>2, <3>1, <3>2, <3>3
    <2>3. QED
        BY <1>1, <1>2, <2>1, <2>2
<1>6. \A i \in 1..Len(al) - Len(aq) : Aged(al[i], t)
    <2> TAKE i \in 1..Len(al) - Len(aq)
    <2>1. i \in 1..Len(l) - Len(q) /\ i \in 1..Len(l)
        BY <1>1, <1>2
    <2>2. Aged(l[i], t)
        BY <2>1 DEF Tracks
    <2>3. QED
        BY <1>3, <2>1, <2>2
<1>7. \A i \in 1..Len(al) : al[i] <= t /\ al[i] \in Nat
    BY <1>1, <1>2, <1>3, <1>4 DEF Tracks
<1>8. \A i, j \in 1..Len(al) : i <= j => al[i] <= al[j]
    <2> SUFFICES ASSUME NEW i \in 1..Len(al), NEW j \in 1..Len(al), i <= j
                 PROVE  al[i] <= al[j]
        OBVIOUS
    <2>1. CASE j = Len(l) + 1
        BY <1>3, <1>7, <2>1
    <2>2. CASE i \in 1..Len(l) /\ j \in 1..Len(l)
        BY <1>3, <2>2 DEF Tracks
    <2>3. QED
        BY <1>1, <1>2, <2>1, <2>2
<1>9. Len(aq) <= Len(al)
    BY <1>1, <1>2
<1>10. QED
    BY <1>5, <1>6, <1>7, <1>8, <1>9 DEF Tracks, aq, al

\* A request that the deque leaves room for keeps the log spaced.
LEMMA AppendSpaced ==
    ASSUME NEW q \in Seq(Readings), NEW l \in Seq(Readings), NEW t \in Readings, Tracks(q, l, t),
           NEW limit \in Nat, Spaced(l, limit), ~Full(q, limit)
    PROVE  Spaced(Append(l, t), limit)
<1> DEFINE al == Append(l, t)
<1>1. Len(q) \in Nat /\ Len(l) \in Nat /\ Len(q) <= Len(l)
    BY LenProperties DEF Tracks
<1>2. /\ Len(al) = Len(l) + 1
      /\ \A i \in 1..Len(l) : al[i] = l[i]
      /\ al[Len(l) + 1] = t
    BY AppendProperties
<1> HIDE DEF al
<1> SUFFICES ASSUME limit > 0, NEW i \in 1..Len(al) - limit
             PROVE  al[i + limit] - al[i] >= Window
    BY DEF Spaced, al
<1>3. Len(q) < limit
    BY <1>1 DEF Full
<1>4. CASE i + limit = Len(l) + 1
    <2>1. i \in 1..Len(l) - Len(q) /\ i \in 1..Len(l)
        BY <1>1, <1>2, <1>3, <1>4
    <2>2. Aged(l[i], t)
        BY <2>1 DEF Tracks
    <2>3. QED
        BY <1>2, <1>4, <2>1, <2>2 DEF Aged
<1>5. CASE i + limit <= Len(l)
    <2>1. i \in 1..Len(l) - limit /\ i \in 1..Len(l) /\ i + limit \in 1..Len(l)
        BY <1>1, <1>2, <1>5
    <2>2. l[i + limit] - l[i] >= Window
        BY <2>1 DEF Spaced
    <2>3. QED
        BY <1>2, <2>1, <2>2
<1>6. QED
    BY <1>1, <1>2, <1>4, <1>5

\* Time may pass: what had aged stays aged.
LEMMA TickTracks ==
    ASSUME NEW q \in Seq(Readings), NEW l \in Seq(Readings), NEW t \in Readings, NEW u \in Readings,
           Tracks(q, l, t), t < u
    PROVE  Tracks(q, l, u)
<1>1. t \in Nat /\ u \in Nat /\ Window \in Nat /\ \A i \in 1..Len(l) : l[i] \in Nat
    BY ElementOfSeq, LimiterAssumption
<1>2. Len(q) \in Nat /\ Len(l) \in Nat
    BY LenProperties
<1>3. \A i \in 1..Len(l) : l[i] <= u
    BY <1>1 DEF Tracks
<1>4. \A i \in 1..Len(l) - Len(q) : Aged(l[i], u)
    BY <1>1, <1>2 DEF Tracks, Aged
<1>5. QED
    BY <1>3, <1>4 DEF Tracks

-----------------------------------------------------------------------------
(***************************************************************************)
(* LimiterInv is inductive.                                                *)
(***************************************************************************)

LEMMA InvInit == LimiterInit => LimiterInv
<1> SUFFICES ASSUME LimiterInit PROVE LimiterInv
    OBVIOUS
<1>1. LimiterTypeOK
    BY LimiterAssumption DEF LimiterInit, LimiterTypeOK
<1>2. Len(<<>>) = 0
    OBVIOUS
<1>3. WindowLimits
    BY <1>2, LimiterAssumption DEF LimiterInit, WindowLimits, Spaced
<1>4. Tracks(<<>>, <<>>, clock)
    BY <1>2 DEF Tracks
<1>5. QED
    BY <1>1, <1>3, <1>4 DEF LimiterInit, LimiterInv

\* What a check finds after its sweeps, before it decides.
LEMMA SweptTracks ==
    ASSUME LimiterInv, NEW c \in Clients
    PROVE  /\ Sweep(hits[c], clock) \in Seq(Readings)
           /\ Sweep(global, clock) \in Seq(Readings)
           /\ Tracks(Sweep(hits[c], clock), log[c], clock)
           /\ Tracks(Sweep(global, clock), glog, clock)
           /\ \A i \in 1..Len(Sweep(hits[c], clock)) : ~Aged(Sweep(hits[c], clock)[i], clock)
           /\ \A i \in 1..Len(Sweep(global, clock)) : ~Aged(Sweep(global, clock)[i], clock)
<1>1. /\ hits[c] \in Seq(Readings) /\ log[c] \in Seq(Readings)
      /\ global \in Seq(Readings) /\ glog \in Seq(Readings)
      /\ clock \in Readings
    BY DEF LimiterInv, LimiterTypeOK
<1>2. Tracks(hits[c], log[c], clock) /\ Tracks(global, glog, clock)
    BY DEF LimiterInv
<1>3. QED
    BY <1>1, <1>2, SweepTracks

\* Both refusals change the deques in the same way and count nothing.
LEMMA RefusalKeepsInv ==
    ASSUME LimiterInv, NEW c \in Clients, SweepBoth(c), UNCHANGED <<clock, log, glog>>
    PROVE  LimiterInv'
<1> USE DEF SweepBoth
<1>1. /\ hits' = [hits EXCEPT ![c] = Sweep(hits[c], clock)]
      /\ global' = Sweep(global, clock)
      /\ keys' = keys \cup {c}
    OBVIOUS
<1>2. LimiterTypeOK'
    BY <1>1, SweptTracks DEF LimiterInv, LimiterTypeOK
<1>3. WindowLimits'
    BY DEF LimiterInv, WindowLimits
<1>4. \A d \in Clients : Tracks(hits'[d], log[d], clock)
    <2> TAKE d \in Clients
    <2>1. CASE d = c
        BY <1>1, <2>1, SweptTracks DEF LimiterInv, LimiterTypeOK
    <2>2. CASE d # c
        BY <1>1, <2>2 DEF LimiterInv, LimiterTypeOK
    <2>3. QED
        BY <2>1, <2>2
<1>5. \A d \in Clients \ keys' : hits'[d] = <<>>
    BY <1>1 DEF LimiterInv, LimiterTypeOK
<1>6. Tracks(global', glog, clock)
    BY <1>1, SweptTracks
<1>7. QED
    BY <1>2, <1>3, <1>4, <1>5, <1>6 DEF LimiterInv

LEMMA AcceptKeepsInv ==
    ASSUME LimiterInv, NEW c \in Clients, Accept(c)
    PROVE  LimiterInv'
<1> DEFINE h == Sweep(hits[c], clock)
           g == Sweep(global, clock)
           counted == [hits EXCEPT ![c] = Append(h, clock)]
<1>0. /\ ~Full(g, GlobalLimit)
      /\ ~Full(h, PerClient)
      /\ hits' = [k \in Clients |-> IF k \in keys' THEN counted[k] ELSE <<>>]
      /\ global' = Append(g, clock)
      /\ keys' = Remembered(keys \cup {c}, counted, c)
      /\ log' = [log EXCEPT ![c] = Append(log[c], clock)]
      /\ glog' = Append(glog, clock)
      /\ clock' = clock
    BY DEF Accept
<1>2. /\ h \in Seq(Readings) /\ g \in Seq(Readings)
      /\ Tracks(h, log[c], clock) /\ Tracks(g, glog, clock)
    BY SweptTracks
<1>3. /\ hits \in [Clients -> Seq(Readings)] /\ log \in [Clients -> Seq(Readings)]
      /\ glog \in Seq(Readings) /\ keys \subseteq Clients /\ clock \in Readings
    BY DEF LimiterInv, LimiterTypeOK
<1> HIDE DEF h, g
<1>1. hits' = counted
    <2>1. ASSUME NEW k \in Clients, k \notin keys' PROVE counted[k] = <<>>
        <3>1. CASE k \in keys \cup {c}
            BY <1>0, <2>1, <3>1 DEF Remembered
        <3>2. CASE k \notin keys \cup {c}
            BY <1>3, <3>2 DEF LimiterInv
        <3>3. QED
            BY <3>1, <3>2
    <2>2. \A k \in Clients : hits'[k] = counted[k]
        BY <1>0, <2>1
    <2>3. hits' = [k \in Clients |-> hits'[k]] /\ counted = [k \in Clients |-> counted[k]]
        BY <1>0, <1>3
    <2>4. QED
        BY <2>2, <2>3
<1>4. /\ Append(h, clock) \in Seq(Readings) /\ Append(g, clock) \in Seq(Readings)
      /\ Append(log[c], clock) \in Seq(Readings) /\ Append(glog, clock) \in Seq(Readings)
    BY <1>2, <1>3, AppendProperties
<1>5. keys' \subseteq Clients
    BY <1>0, <1>3 DEF Remembered
<1>6. LimiterTypeOK'
    BY <1>0, <1>1, <1>3, <1>4, <1>5 DEF LimiterTypeOK
<1>7. \A d \in Clients : Tracks(hits'[d], log'[d], clock)
    <2> TAKE d \in Clients
    <2>1. CASE d = c
        <3>1. hits'[c] = Append(h, clock) /\ log'[c] = Append(log[c], clock)
            BY <1>0, <1>1, <1>3
        <3>2. QED
            BY <1>2, <1>3, <2>1, <3>1, AppendTracks
    <2>2. CASE d # c
        <3>1. hits'[d] = hits[d] /\ log'[d] = log[d]
            BY <1>0, <1>1, <1>3, <2>2
        <3>2. QED
            BY <3>1 DEF LimiterInv
    <2>3. QED
        BY <2>1, <2>2
<1>8. Tracks(global', glog', clock)
    BY <1>0, <1>1, <1>2, <1>3, AppendTracks
<1>9. \A d \in Clients \ keys' : hits'[d] = <<>>
    BY <1>0
<1>10. \A d \in Clients : Spaced(log'[d], PerClient)
    <2> TAKE d \in Clients
    <2>1. Spaced(log[d], PerClient)
        BY DEF LimiterInv, WindowLimits
    <2>2. CASE d = c
        BY <1>0, <1>1, <1>2, <1>3, <2>1, <2>2, AppendSpaced, LimiterAssumption
    <2>3. CASE d # c
        BY <1>0, <1>1, <1>3, <2>1, <2>3
    <2>4. QED
        BY <2>2, <2>3
<1>11. Spaced(glog', GlobalLimit)
    <2>1. Spaced(glog, GlobalLimit)
        BY DEF LimiterInv, WindowLimits
    <2>2. QED
        BY <1>0, <1>1, <1>2, <1>3, <2>1, AppendSpaced, LimiterAssumption
<1>12. WindowLimits'
    BY <1>10, <1>11 DEF WindowLimits
<1>13. QED
    BY <1>0, <1>1, <1>6, <1>7, <1>8, <1>9, <1>12 DEF LimiterInv

LEMMA TickKeepsInv ==
    ASSUME LimiterInv, NEW t \in Readings, LimiterTick(t)
    PROVE  LimiterInv'
<1>1. clock < t /\ clock' = t /\ UNCHANGED <<hits, keys, global, log, glog>>
    <2>1. clock \in Nat /\ t \in Nat /\ t > clock
        BY LimiterAssumption DEF LimiterInv, LimiterTypeOK, LimiterTick
    <2>2. QED
        BY <2>1 DEF LimiterTick
<1>2. LimiterTypeOK'
    BY <1>1 DEF LimiterInv, LimiterTypeOK
<1>3. WindowLimits'
    BY <1>1 DEF LimiterInv, WindowLimits
<1>4. \A c \in Clients : Tracks(hits[c], log[c], t)
    BY <1>1, TickTracks DEF LimiterInv, LimiterTypeOK
<1>5. Tracks(global, glog, t)
    BY <1>1, TickTracks DEF LimiterInv, LimiterTypeOK
<1>6. QED
    BY <1>1, <1>2, <1>3, <1>4, <1>5 DEF LimiterInv

LEMMA InvNext == LimiterInv /\ [LimiterNext]_limiterVars => LimiterInv'
<1> SUFFICES ASSUME LimiterInv, [LimiterNext]_limiterVars PROVE LimiterInv'
    OBVIOUS
<1>1. ASSUME NEW c \in Clients, RefuseGlobal(c) PROVE LimiterInv'
    BY <1>1, RefusalKeepsInv DEF RefuseGlobal
<1>2. ASSUME NEW c \in Clients, RefuseClient(c) PROVE LimiterInv'
    BY <1>2, RefusalKeepsInv DEF RefuseClient
<1>3. ASSUME NEW c \in Clients, Accept(c) PROVE LimiterInv'
    BY <1>3, AcceptKeepsInv
<1>4. ASSUME NEW t \in Readings, LimiterTick(t) PROVE LimiterInv'
    BY <1>4, TickKeepsInv
<1>5. CASE UNCHANGED limiterVars
    BY <1>5 DEF limiterVars, LimiterInv, LimiterTypeOK, WindowLimits
<1>6. QED
    BY <1>1, <1>2, <1>3, <1>4, <1>5 DEF LimiterNext, Check

\* The deques always count the last window: the invariant the limits rest on
\* (RateLimiter.check).
THEOREM LimiterCorrect == LimiterSpec => []LimiterInv
BY InvInit, InvNext, PTL DEF LimiterSpec

\* The promise of the class docstring: no more than per_client requests of a
\* client, and no more than global_limit of all, in any window whatever.
THEOREM LimitsHold == LimiterSpec => []WindowLimits
<1>1. LimiterInv => WindowLimits
    BY DEF LimiterInv
<1>2. QED
    BY <1>1, LimiterCorrect, PTL

-----------------------------------------------------------------------------
(***************************************************************************)
(* Refusals are justified.                                                 *)
(***************************************************************************)

LEMMA WindowIsFinite ==
    ASSUME NEW l \in Seq(Readings), NEW t \in Readings
    PROVE  IsFiniteSet({i \in 1..Len(l) : t - l[i] < Window})
<1>1. Len(l) \in Int /\ 1 \in Int
    BY LenProperties
<1>2. IsFiniteSet(1..Len(l))
    BY <1>1, FS_Interval
<1>3. {i \in 1..Len(l) : t - l[i] < Window} \in SUBSET (1..Len(l))
    OBVIOUS
<1>4. QED
    BY <1>2, <1>3, FS_Subset

\* A swept deque has no more entries than its log has in the window.
LEMMA QueueCountsWindow ==
    ASSUME NEW q \in Seq(Readings), NEW l \in Seq(Readings), NEW t \in Readings, Tracks(q, l, t),
           \A i \in 1..Len(q) : ~Aged(q[i], t)
    PROVE  InWindow(l, t) >= Len(q)
<1> DEFINE W == {i \in 1..Len(l) : t - l[i] < Window}
           first == Len(l) - Len(q) + 1
<1>1. Len(q) \in Nat /\ Len(l) \in Nat /\ Len(q) <= Len(l)
    BY LenProperties DEF Tracks
<1>2. t \in Nat /\ Window \in Nat /\ \A i \in 1..Len(l) : l[i] \in Nat
    BY ElementOfSeq, LimiterAssumption
<1>3. first..Len(l) \subseteq W
    <2> SUFFICES ASSUME NEW i \in first..Len(l) PROVE i \in W
        OBVIOUS
    <2>1. i \in 1..Len(l) /\ i - (first - 1) \in 1..Len(q)
        BY <1>1
    <2>2. q[i - (first - 1)] = l[Len(l) - Len(q) + (i - (first - 1))]
        BY <2>1 DEF Tracks
    <2>3. Len(l) - Len(q) + (i - (first - 1)) = i
        BY <1>1, <2>1
    <2>4. ~Aged(l[i], t)
        BY <2>1, <2>2, <2>3
    <2>5. QED
        BY <1>2, <2>1, <2>4 DEF Aged
<1>4. IsFiniteSet(W)
    BY WindowIsFinite
<1>5. Cardinality(first..Len(l)) = Len(q)
    <2>1. first \in Int /\ Len(l) \in Int
        BY <1>1
    <2>2. Cardinality(first..Len(l)) = IF first > Len(l) THEN 0 ELSE Len(l) - first + 1
        BY <2>1, FS_Interval
    <2>3. QED
        BY <1>1, <2>2
<1>6. Cardinality(first..Len(l)) <= Cardinality(W)
    BY <1>3, <1>4, FS_Subset
<1>7. Cardinality(W) \in Nat
    BY <1>4, FS_CardinalityType
<1>8. QED
    BY <1>1, <1>5, <1>6, <1>7 DEF InWindow

LEMMA RefusalJustified ==
    ASSUME LimiterInv, NEW c \in Clients, RefuseGlobal(c) \/ RefuseClient(c)
    PROVE  \/ GlobalLimit > 0 /\ InWindow(glog, clock) >= GlobalLimit
           \/ PerClient > 0 /\ InWindow(log[c], clock) >= PerClient
<1> DEFINE h == Sweep(hits[c], clock)
           g == Sweep(global, clock)
<1>1. /\ log[c] \in Seq(Readings) /\ glog \in Seq(Readings) /\ clock \in Readings
      /\ hits \in [Clients -> Seq(Readings)]
    BY DEF LimiterInv, LimiterTypeOK
<1>2. InWindow(log[c], clock) >= Len(h) /\ InWindow(glog, clock) >= Len(g)
    BY <1>1, SweptTracks, QueueCountsWindow
<1>3. Full(g, GlobalLimit) \/ Full(h, PerClient)
    BY <1>1 DEF RefuseGlobal, RefuseClient, SweepBoth
<1>4. Len(h) \in Nat /\ Len(g) \in Nat
    BY SweptTracks, LenProperties
<1>5. /\ InWindow(log[c], clock) \in Nat
      /\ InWindow(glog, clock) \in Nat
    <2>1. /\ IsFiniteSet({i \in 1..Len(log[c]) : clock - log[c][i] < Window})
          /\ IsFiniteSet({i \in 1..Len(glog) : clock - glog[i] < Window})
        BY <1>1, WindowIsFinite
    <2>2. QED
        BY <2>1, FS_CardinalityType DEF InWindow
<1> HIDE DEF h, g
<1>6. QED
    BY <1>2, <1>3, <1>4, <1>5, LimiterAssumption DEF Full

\* Nobody is turned away early: a request is refused only when the last window
\* really holds a limit's worth of requests (RateLimiter.check).
THEOREM RefusalsAreJustified == LimiterSpec => RefusedOnlyWhenFull
<1>1. LimiterInv =>
        [ \A c \in Clients :
            RefuseGlobal(c) \/ RefuseClient(c) =>
              \/ GlobalLimit > 0 /\ InWindow(glog, clock) >= GlobalLimit
              \/ PerClient > 0 /\ InWindow(log[c], clock) >= PerClient ]_limiterVars
    BY RefusalJustified
<1>2. QED
    BY <1>1, LimiterCorrect, PTL DEF RefusedOnlyWhenFull

-----------------------------------------------------------------------------
(***************************************************************************)
(* The wait that a refusal names is long enough.                           *)
(***************************************************************************)

\* A deque that has not aged holds at most the limit, so all but fewer than
\* limit requests of the log have left the window once its first has.
LEMMA RoomAfterFirst ==
    ASSUME NEW q \in Seq(Readings), NEW l \in Seq(Readings), NEW t \in Readings, Tracks(q, l, t),
           \A i \in 1..Len(q) : ~Aged(q[i], t),
           NEW limit \in Nat, Spaced(l, limit), Full(q, limit)
    PROVE  InWindow(l, t + (Window - (t - q[1]))) < limit
<1> DEFINE u == t + (Window - (t - q[1]))
           W == {i \in 1..Len(l) : u - l[i] < Window}
           first == Len(l) - Len(q) + 1
<1>1. /\ Len(q) \in Nat /\ Len(l) \in Nat /\ Len(q) <= Len(l)
      /\ limit > 0 /\ Len(q) >= limit
    BY LenProperties DEF Tracks, Full
<1>2. /\ t \in Nat /\ Window \in Nat
      /\ \A i \in 1..Len(l) : l[i] \in Nat
    BY ElementOfSeq, LimiterAssumption
<1>3. first \in 1..Len(l) /\ q[1] = l[first]
    BY <1>1 DEF Tracks
<1>4. Len(q) = limit
    <2> SUFFICES ASSUME Len(q) > limit PROVE FALSE
        BY <1>1
    <2>1. first \in 1..Len(l) - limit /\ first + limit \in 1..Len(l)
        BY <1>1
    <2>2. l[first + limit] - l[first] >= Window
        BY <1>1, <2>1 DEF Spaced
    <2>3. l[first + limit] <= t
        BY <2>1 DEF Tracks
    <2>4. ~(t - l[first] >= Window)
        BY <1>1, <1>3 DEF Aged
    <2>5. l[first] \in Nat /\ l[first + limit] \in Nat
        BY <1>2, <1>3, <2>1
    <2> QED
        BY <1>2, <2>2, <2>3, <2>4, <2>5
<1>5. u = l[first] + Window
    BY <1>2, <1>3
<1>6. W \subseteq first + 1..Len(l)
    <2> SUFFICES ASSUME NEW i \in 1..Len(l), u - l[i] < Window PROVE i >= first + 1
        BY <1>1
    <2> SUFFICES ASSUME i <= first PROVE FALSE
        BY <1>1
    <2>1. l[i] <= l[first]
        BY <1>3 DEF Tracks
    <2>2. l[i] \in Nat /\ l[first] \in Nat
        BY <1>2, <1>3
    <2> QED
        BY <1>2, <1>5, <2>1, <2>2
<1>7. IsFiniteSet(first + 1..Len(l)) /\ Cardinality(first + 1..Len(l)) = limit - 1
    <2>1. first + 1 \in Int /\ Len(l) \in Int
        BY <1>1
    <2>2. /\ IsFiniteSet(first + 1..Len(l))
          /\ Cardinality(first + 1..Len(l)) = IF first + 1 > Len(l) THEN 0 ELSE Len(l) - (first + 1) + 1
        BY <2>1, FS_Interval
    <2> QED
        BY <1>1, <1>4, <2>2
<1>8. IsFiniteSet(W) /\ Cardinality(W) <= limit - 1
    BY <1>6, <1>7, FS_Subset
<1>9. Cardinality(W) \in Nat
    BY <1>8, FS_CardinalityType
<1>10. QED
    BY <1>8, <1>9 DEF InWindow

LEMMA WaitSuffices ==
    ASSUME LimiterInv, NEW c \in Clients
    PROVE  /\ RefuseGlobal(c) => InWindow(glog, clock + answer'.wait) < GlobalLimit
           /\ RefuseClient(c) => InWindow(log[c], clock + answer'.wait) < PerClient
<1> DEFINE h == Sweep(hits[c], clock)
           g == Sweep(global, clock)
<1>1. /\ log[c] \in Seq(Readings) /\ glog \in Seq(Readings) /\ clock \in Readings
      /\ hits \in [Clients -> Seq(Readings)]
      /\ Spaced(log[c], PerClient) /\ Spaced(glog, GlobalLimit)
    BY DEF LimiterInv, LimiterTypeOK, WindowLimits
<1>2. /\ h \in Seq(Readings) /\ g \in Seq(Readings)
      /\ Tracks(h, log[c], clock) /\ Tracks(g, glog, clock)
      /\ \A i \in 1..Len(h) : ~Aged(h[i], clock)
      /\ \A i \in 1..Len(g) : ~Aged(g[i], clock)
    BY SweptTracks
<1>3. PerClient \in Nat /\ GlobalLimit \in Nat
    BY LimiterAssumption
<1>4. ASSUME RefuseGlobal(c) PROVE InWindow(glog, clock + answer'.wait) < GlobalLimit
    <2>1. Full(g, GlobalLimit) /\ answer'.wait = Window - (clock - g[1])
        BY <1>4 DEF RefuseGlobal, SweepBoth, Refuse
    <2> HIDE DEF g
    <2> QED
        BY <1>1, <1>2, <1>3, <2>1, RoomAfterFirst
<1>5. ASSUME RefuseClient(c) PROVE InWindow(log[c], clock + answer'.wait) < PerClient
    <2>1. Full(h, PerClient) /\ answer'.wait = Window - (clock - h[1])
        BY <1>1, <1>5 DEF RefuseClient, SweepBoth, Refuse
    <2> HIDE DEF h
    <2> QED
        BY <1>1, <1>2, <1>3, <2>1, RoomAfterFirst
<1>6. QED
    BY <1>4, <1>5

\* Who waits as long as the response says finds room again, unless others came
\* meanwhile: "seconds until a slot frees up" (the docstring of RateLimiter.check).
THEOREM WaitingHelps == LimiterSpec => WaitIsEnough
<1>1. LimiterInv =>
        [ \A c \in Clients :
            /\ RefuseGlobal(c) => InWindow(glog, clock + answer'.wait) < GlobalLimit
            /\ RefuseClient(c) => InWindow(log[c], clock + answer'.wait) < PerClient ]_limiterVars
    BY WaitSuffices
<1>2. QED
    BY <1>1, LimiterCorrect, PTL DEF WaitIsEnough

-----------------------------------------------------------------------------
(***************************************************************************)
(* The user's memory.                                                      *)
(***************************************************************************)
Fact == [key : Keys, value : Values]

\* A list of facts with one value per slot, within the cap.
OneValue(fs) ==
    /\ fs \in Seq(Fact)
    /\ \A i, j \in 1..Len(fs) : fs[i].key = fs[j].key => i = j
    /\ Len(fs) <= MaxFacts

-----------------------------------------------------------------------------
(***************************************************************************)
(* What the changes do to a list of facts.                                 *)
(***************************************************************************)
\* A correction keeps the list's slots and order, a new slot goes to the end.
LEMMA PutProperties ==
    ASSUME NEW fs, OneValue(fs), NEW k \in Keys, NEW v \in Values
    PROVE  LET r == Atomic!Put(fs, k, v) IN
           /\ r \in Seq(Fact)
           /\ Len(r) = IF Atomic!Stored(fs, k) THEN Len(fs) ELSE Len(fs) + 1
           /\ \A i \in 1..Len(fs) : r[i] = IF fs[i].key = k THEN [key |-> k, value |-> v] ELSE fs[i]
           /\ ~Atomic!Stored(fs, k) => r[Len(fs) + 1] = [key |-> k, value |-> v]
<1>1. fs \in Seq(Fact) /\ Len(fs) \in Nat /\ \A i \in 1..Len(fs) : fs[i] \in Fact
    BY LenProperties, ElementOfSeq DEF OneValue
<1>2. CASE Atomic!Stored(fs, k)
    <2> DEFINE r == [i \in 1..Len(fs) |-> IF fs[i].key = k THEN [fs[i] EXCEPT !.value = v] ELSE fs[i]]
    <2>1. \A i \in 1..Len(fs) : r[i] \in Fact /\ r[i] = IF fs[i].key = k THEN [key |-> k, value |-> v] ELSE fs[i]
        BY <1>1 DEF Fact
    <2>2. r \in Seq(Fact) /\ Len(r) = Len(fs)
        BY <1>1, <2>1, IsASeq
    <2>3. QED
        BY <1>2, <2>1, <2>2 DEF Atomic!Put
<1>3. CASE ~Atomic!Stored(fs, k)
    <2>1. [key |-> k, value |-> v] \in Fact
        BY DEF Fact
    <2>2. /\ Append(fs, [key |-> k, value |-> v]) \in Seq(Fact)
          /\ Len(Append(fs, [key |-> k, value |-> v])) = Len(fs) + 1
          /\ \A i \in 1..Len(fs) : Append(fs, [key |-> k, value |-> v])[i] = fs[i]
          /\ Append(fs, [key |-> k, value |-> v])[Len(fs) + 1] = [key |-> k, value |-> v]
        BY <1>1, <2>1, AppendProperties
    <2>3. QED
        BY <1>3, <2>2 DEF Atomic!Put, Atomic!Stored
<1>4. QED
    BY <1>2, <1>3

\* Storing a fact keeps one value per slot within the cap, stores the fact, and
\* loses another only to the cap.
LEMMA RememberProperties ==
    ASSUME NEW fs, OneValue(fs), NEW k \in Keys, NEW v \in Values
    PROVE  LET r == Atomic!Capped(Atomic!Put(fs, k, v)) IN
           /\ OneValue(r)
           /\ Atomic!Holds(r, k, v)
           /\ \A c \in Keys : \A w : c # k /\ Atomic!Holds(fs, c, w) =>
                  Atomic!Holds(r, c, w) \/ (Len(r) = MaxFacts /\ ~Atomic!Stored(r, c))
<1> DEFINE g == Atomic!Put(fs, k, v)
           r == Atomic!Capped(g)
<1>1. fs \in Seq(Fact) /\ Len(fs) \in Nat /\ Len(fs) <= MaxFacts /\ MaxFacts \in Nat \ {0}
    BY LenProperties, RequestsAssumption DEF OneValue
<1>2. /\ g \in Seq(Fact)
      /\ Len(g) = IF Atomic!Stored(fs, k) THEN Len(fs) ELSE Len(fs) + 1
      /\ \A i \in 1..Len(fs) : g[i] = IF fs[i].key = k THEN [key |-> k, value |-> v] ELSE fs[i]
      /\ ~Atomic!Stored(fs, k) => g[Len(fs) + 1] = [key |-> k, value |-> v]
    BY PutProperties
<1> HIDE DEF g
<1>3. \A i, j \in 1..Len(g) : g[i].key = g[j].key => i = j
    <2>1. \A i \in 1..Len(fs) : g[i].key = fs[i].key
        BY <1>2
    <2>2. CASE Atomic!Stored(fs, k)
        BY <1>2, <2>1, <2>2 DEF OneValue
    <2>3. CASE ~Atomic!Stored(fs, k)
        <3>1. \A i \in 1..Len(fs) : g[i].key # g[Len(fs) + 1].key
            BY <1>2, <2>1, <2>3 DEF Atomic!Stored
        <3>2. \A i \in 1..Len(g) : i \in 1..Len(fs) \/ i = Len(fs) + 1
            BY <1>1, <1>2
        <3>3. \A i, j \in 1..Len(fs) : g[i].key = g[j].key => i = j
            BY <2>1 DEF OneValue
        <3>4. QED
            BY <3>1, <3>2, <3>3
    <2>4. QED
        BY <2>2, <2>3
<1>4. \E i \in 1..Len(g) : g[i] = [key |-> k, value |-> v] /\ (Len(g) > MaxFacts => i = Len(g))
    <2>1. CASE Atomic!Stored(fs, k)
        BY <1>1, <1>2, <2>1 DEF Atomic!Stored
    <2>2. CASE ~Atomic!Stored(fs, k)
        BY <1>1, <1>2, <2>2
    <2>3. QED
        BY <2>1, <2>2
<1>5. \A c \in Keys : \A w : c # k /\ Atomic!Holds(fs, c, w) => \E i \in 1..Len(g) : g[i] = [key |-> c, value |-> w]
    <2> SUFFICES ASSUME NEW c \in Keys, NEW w, c # k, NEW i \in 1..Len(fs), fs[i] = [key |-> c, value |-> w]
                 PROVE  \E j \in 1..Len(g) : g[j] = [key |-> c, value |-> w]
        BY DEF Atomic!Holds
    <2>1. g[i] = fs[i]
        BY <1>2
    <2>2. i \in 1..Len(g)
        BY <1>1, <1>2
    <2>3. QED
        BY <2>1, <2>2
<1>6. CASE Len(g) <= MaxFacts
    <2>1. r = g
        BY <1>6 DEF Atomic!Capped
    <2>2. OneValue(g)
        BY <1>2, <1>3, <1>6 DEF OneValue
    <2>3. QED
        BY <1>4, <1>5, <2>1, <2>2 DEF Atomic!Holds, g
<1>7. CASE Len(g) > MaxFacts
    <2>1. Len(g) = MaxFacts + 1
        BY <1>1, <1>2, <1>7
    <2>2. r = SubSeq(g, Len(g) - MaxFacts + 1, Len(g))
        BY <1>1, <1>7, <2>1 DEF Atomic!Capped
    <2>3. r \in Seq(Fact) /\ Len(r) = MaxFacts /\ \A i \in 1..MaxFacts : r[i] = g[i + 1]
        <3>1. MaxFacts \in Nat /\ MaxFacts <= Len(g)
            BY <1>1, <2>1
        <3>2. /\ SubSeq(g, Len(g) - MaxFacts + 1, Len(g)) \in Seq(Fact)
              /\ Len(SubSeq(g, Len(g) - MaxFacts + 1, Len(g))) = MaxFacts
              /\ \A i \in 1..MaxFacts : SubSeq(g, Len(g) - MaxFacts + 1, Len(g))[i] = g[Len(g) - MaxFacts + i]
            BY <1>2, <3>1, SuffixProperties
        <3>3. \A i \in 1..MaxFacts : Len(g) - MaxFacts + i = i + 1
            BY <1>1, <2>1
        <3>4. QED
            BY <2>2, <3>2, <3>3
    <2> HIDE DEF r
    <2>4. OneValue(r)
        BY <1>1, <1>3, <2>1, <2>3 DEF OneValue
    <2>5. Atomic!Holds(r, k, v)
        <3>1. g[Len(g)] = [key |-> k, value |-> v]
            BY <1>4, <1>7
        <3>2. MaxFacts \in 1..MaxFacts /\ r[MaxFacts] = g[Len(g)]
            BY <1>1, <2>1, <2>3
        <3>3. QED
            BY <2>3, <3>1, <3>2 DEF Atomic!Holds
    <2>6. ASSUME NEW c \in Keys, NEW w, c # k, Atomic!Holds(fs, c, w)
          PROVE  Atomic!Holds(r, c, w) \/ (Len(r) = MaxFacts /\ ~Atomic!Stored(r, c))
        <3>1. PICK i \in 1..Len(g) : g[i] = [key |-> c, value |-> w]
            BY <1>5, <2>6
        <3>2. CASE i = 1
            <4>1. \A j \in 1..MaxFacts : r[j].key # c
                BY <1>1, <1>3, <2>1, <2>3, <3>1, <3>2
            <4>2. QED
                BY <2>3, <4>1 DEF Atomic!Stored
        <3>3. CASE i # 1
            <4>1. i - 1 \in 1..MaxFacts /\ r[i - 1] = g[i]
                BY <1>1, <2>1, <2>3, <3>3
            <4>2. QED
                BY <2>3, <3>1, <4>1 DEF Atomic!Holds
        <3>4. QED
            BY <3>2, <3>3
    <2>7. QED
        BY <2>4, <2>5, <2>6 DEF r, g
<1>8. QED
    BY <1>1, <1>2, <1>6, <1>7

\* Deleting a slot keeps the others.
LEMMA DeleteProperties ==
    ASSUME NEW fs, OneValue(fs), NEW k \in Keys
    PROVE  LET r == Atomic!Without(fs, k) IN
           /\ OneValue(r)
           /\ \A c \in Keys : \A w : c # k /\ Atomic!Holds(fs, c, w) => Atomic!Holds(r, c, w)
<1>1. fs \in Seq(Fact) /\ Len(fs) \in Nat /\ Len(fs) <= MaxFacts /\ MaxFacts \in Nat
    BY LenProperties, RequestsAssumption DEF OneValue
<1>2. CASE ~Atomic!Stored(fs, k)
    BY <1>2 DEF Atomic!Without
<1>3. CASE Atomic!Stored(fs, k)
    <2> DEFINE n == CHOOSE i \in 1..Len(fs) : fs[i].key = k
               r == Atomic!Without(fs, k)
    <2>1. n \in 1..Len(fs) /\ fs[n].key = k
        BY <1>3 DEF Atomic!Stored
    <2>2. r = RemoveAt(fs, n)
        BY <1>3 DEF Atomic!Without, Atomic!RemoveAt, RemoveAt
    <2> HIDE DEF n, r
    <2>3. /\ r \in Seq(Fact) /\ Len(r) = Len(fs) - 1
          /\ \A i \in 1..Len(fs) - 1 : r[i] = IF i < n THEN fs[i] ELSE fs[i + 1]
        BY <1>1, <2>1, <2>2, RemoveAtProperties
    <2>4. OneValue(r)
        <3>1. ASSUME NEW i \in 1..Len(r), NEW j \in 1..Len(r), r[i].key = r[j].key PROVE i = j
            <4> DEFINE at(x) == IF x < n THEN x ELSE x + 1
            <4>1. at(i) \in 1..Len(fs) /\ at(j) \in 1..Len(fs) /\ r[i] = fs[at(i)] /\ r[j] = fs[at(j)]
                BY <1>1, <2>1, <2>3
            <4>2. at(i) = at(j)
                BY <3>1, <4>1 DEF OneValue
            <4>3. QED
                BY <1>1, <2>1, <2>3, <4>2
        <3>2. QED
            BY <1>1, <2>3, <3>1 DEF OneValue
    <2>5. ASSUME NEW c \in Keys, NEW w, c # k, Atomic!Holds(fs, c, w) PROVE Atomic!Holds(r, c, w)
        <3>1. PICK i \in 1..Len(fs) : fs[i] = [key |-> c, value |-> w]
            BY <2>5 DEF Atomic!Holds
        <3>2. i # n
            BY <2>1, <2>5, <3>1
        <3>3. CASE i < n
            <4>1. i \in 1..Len(r) /\ r[i] = fs[i]
                BY <1>1, <2>1, <2>3, <3>3
            <4>2. QED
                BY <3>1, <4>1 DEF Atomic!Holds
        <3>4. CASE i > n
            <4>1. i - 1 \in 1..Len(r) /\ r[i - 1] = fs[i]
                BY <1>1, <2>1, <2>3, <3>4
            <4>2. QED
                BY <3>1, <4>1 DEF Atomic!Holds
        <3>5. QED
            BY <1>1, <2>1, <3>2, <3>3, <3>4
    <2>6. QED
        BY <2>4, <2>5 DEF r
<1>4. QED
    BY <1>2, <1>3

-----------------------------------------------------------------------------
(***************************************************************************)
(* The inductive invariant.                                                *)
(***************************************************************************)
Memory == [consent : BOOLEAN, facts : Seq(Fact), exists : BOOLEAN]

Request ==
    [pc : {"lock", "get", "read", "change", "write", "unlock", "exists", "unlink"},
     kind : {"remember", "forget", "on", "off", "delete"}, key : Keys \cup {Unknown},
     value : Values \cup {Unknown}, mem : Memory, alone : BOOLEAN]

Running(p) == op[p].pc # "idle"

Remembers(p) == Running(p) /\ op[p].kind = "remember" /\ op[p].alone

MemoryTypes ==
    /\ file \in Memory
    /\ lock \in Procs \cup {Unlocked}
    /\ op \in [Procs -> Request \cup {AtRest}]
    /\ expect \in [Keys -> Values \cup {Unknown}]

\* Which steps belong to which request.
RequestSteps ==
    \A p \in Procs : Running(p) =>
        /\ op[p].kind = "remember" => op[p].key \in Keys /\ op[p].value \in Values
        /\ op[p].kind = "delete" => op[p].key \in Keys
        /\ op[p].kind \in {"forget", "off"} => op[p].key = Unknown
        /\ op[p].pc = "lock" => op[p].kind # "forget"
        /\ op[p].pc \in {"get", "read", "change", "write"} => op[p].kind \in {"remember", "on", "delete"}
        /\ op[p].pc \in {"exists", "unlink"} => op[p].kind \in {"forget", "off"}

\* Everything but a forget happens under the lock.
LockHeld ==
    \A p \in Procs :
        /\ op[p].pc \in {"get", "read", "change", "write", "unlock"} => lock = p
        /\ op[p].pc \in {"exists", "unlink"} /\ op[p].kind = "off" => lock = p

\* The file and what a request has read or is to write are sound.
FilesSound ==
    /\ OneValue(file.facts)
    /\ ~file.exists => file = NoMemory
    /\ \A p \in Procs :
          /\ Running(p) => OneValue(op[p].mem.facts)
          /\ op[p].pc = "write" => op[p].mem.exists

\* A slot is expected to keep its value only while no request touches it, and a
\* request is alone only while no other touches its slot.
Undisturbed ==
    /\ \A k \in Keys : expect[k] # Unknown => \A p \in Procs : ~Touches(op[p], k)
    /\ \A p \in Procs : Remembers(p) => \A r \in Procs \ {p} : ~Touches(op[r], op[p].key)

\* An expected value is in the file and in what is to replace it, or the cap
\* pushes it out.
Kept ==
    \A k \in Keys : expect[k] # Unknown =>
        /\ Atomic!Holds(file.facts, k, expect[k])
        /\ \A p \in Procs :
              /\ op[p].pc = "change" => Atomic!Holds(op[p].mem.facts, k, expect[k])
              /\ op[p].pc = "write" =>
                    \/ Atomic!Holds(op[p].mem.facts, k, expect[k])
                    \/ Len(op[p].mem.facts) = MaxFacts /\ ~Atomic!Stored(op[p].mem.facts, k)

\* A request that is alone and allowed to store its fact has stored it when it
\* is answered.
Told ==
    \A p \in Procs : Remembers(p) =>
        /\ op[p].pc = "change" /\ op[p].mem.consent => op[p].mem = file
        /\ op[p].pc = "write" => Atomic!Holds(op[p].mem.facts, op[p].key, op[p].value)
        /\ op[p].pc = "unlock" /\ op[p].mem.consent => Atomic!Holds(file.facts, op[p].key, op[p].value)

\* Without the unlocked forget nothing happens to the file while a request
\* works on what it has read, and what it writes is its change to the file.
Fresh ==
    /\ \A p \in Procs : Running(p) => op[p].kind # "forget"
    /\ \A p \in Procs :
          /\ op[p].pc = "change" => op[p].mem = file
          /\ op[p].pc = "write" =>
                \/ /\ op[p].kind = "remember" /\ file.consent
                   /\ op[p].mem = File(TRUE, Atomic!Capped(Atomic!Put(file.facts, op[p].key, op[p].value)))
                \/ /\ op[p].kind = "on"
                   /\ op[p].mem = File(TRUE, file.facts)
                \/ /\ op[p].kind = "delete"
                   /\ op[p].mem = File(file.consent, Atomic!Without(file.facts, op[p].key))

MemoryInv == MemoryTypes /\ RequestSteps /\ LockHeld /\ FilesSound /\ Undisturbed /\ Kept /\ Told

LEMMA RunningRequest ==
    ASSUME MemoryTypes, NEW p \in Procs, Running(p)
    PROVE  op[p] \in Request
BY DEF MemoryTypes, Running, AtRest

LEMMA NothingStored == OneValue(NoMemory.facts) /\ NoMemory \in Memory /\ ~NoMemory.consent /\ ~NoMemory.exists
BY RequestsAssumption, EmptySeq DEF NoMemory, OneValue, Memory

\* What a request writes is sound, holds what it remembers, and keeps the slots
\* it does not touch, unless the cap pushes them out.
LEMMA ChangedProperties ==
    ASSUME MemoryTypes, RequestSteps, FilesSound, NEW p \in Procs, op[p].pc = "change", Writes(p)
    PROVE  /\ Changed(p) \in Memory /\ Changed(p).exists /\ OneValue(Changed(p).facts)
           /\ op[p].kind = "remember" => Atomic!Holds(Changed(p).facts, op[p].key, op[p].value)
           /\ \A k \in Keys : \A v : ~Touches(op[p], k) /\ Atomic!Holds(op[p].mem.facts, k, v) =>
                  \/ Atomic!Holds(Changed(p).facts, k, v)
                  \/ Len(Changed(p).facts) = MaxFacts /\ ~Atomic!Stored(Changed(p).facts, k)
<1> DEFINE o == op[p]
<1>1. /\ o \in Request /\ o.kind \in {"remember", "on", "delete"}
      /\ o.pc # "idle" /\ o.mem \in Memory /\ OneValue(o.mem.facts)
    BY RunningRequest DEF Running, RequestSteps, FilesSound, Request
<1>2. CASE o.kind = "remember"
    <2>1. o.key \in Keys /\ o.value \in Values
        BY <1>1, <1>2 DEF RequestSteps, Running
    <2> DEFINE r == Atomic!Capped(Atomic!Put(o.mem.facts, o.key, o.value))
    <2>2. /\ OneValue(r)
          /\ Atomic!Holds(r, o.key, o.value)
          /\ \A c \in Keys : \A w : c # o.key /\ Atomic!Holds(o.mem.facts, c, w) =>
                 Atomic!Holds(r, c, w) \/ (Len(r) = MaxFacts /\ ~Atomic!Stored(r, c))
        BY <1>1, <2>1, RememberProperties
    <2>3. Changed(p) = File(o.mem.consent, r)
        BY <1>2 DEF Changed
    <2> HIDE DEF r
    <2>4. Changed(p) \in Memory /\ Changed(p).exists /\ Changed(p).facts = r
        BY <1>1, <2>2, <2>3 DEF File, Memory, OneValue
    <2>5. \A k \in Keys : ~Touches(o, k) => k # o.key
        BY <1>1, <1>2 DEF Touches
    <2>6. QED
        BY <1>2, <2>2, <2>4, <2>5
<1>3. CASE o.kind = "on"
    <2>1. Changed(p) = File(TRUE, o.mem.facts)
        BY <1>3 DEF Changed
    <2>2. Changed(p) \in Memory /\ Changed(p).exists /\ Changed(p).facts = o.mem.facts
        BY <1>1, <2>1 DEF File, Memory
    <2>3. QED
        BY <1>1, <1>3, <2>2
<1>4. CASE o.kind = "delete"
    <2>1. o.key \in Keys
        BY <1>1, <1>4 DEF RequestSteps, Running
    <2> DEFINE r == Atomic!Without(o.mem.facts, o.key)
    <2>2. /\ OneValue(r)
          /\ \A c \in Keys : \A w : c # o.key /\ Atomic!Holds(o.mem.facts, c, w) => Atomic!Holds(r, c, w)
        BY <1>1, <2>1, DeleteProperties
    <2>3. Changed(p) = File(o.mem.consent, r)
        BY <1>4 DEF Changed
    <2> HIDE DEF r
    <2>4. Changed(p) \in Memory /\ Changed(p).exists /\ Changed(p).facts = r
        BY <1>1, <2>2, <2>3 DEF File, Memory, OneValue
    <2>5. \A k \in Keys : ~Touches(o, k) => k # o.key
        BY <1>1, <1>4 DEF Touches
    <2>6. QED
        BY <1>4, <2>2, <2>4, <2>5
<1>5. QED
    BY <1>1, <1>2, <1>3, <1>4

-----------------------------------------------------------------------------
(***************************************************************************)
(* Every step keeps the invariant.                                         *)
(***************************************************************************)
LEMMA RequestStepsKeepInv ==
    ASSUME MemoryInv, NEW p \in Procs,
           \/ TakeLock(p) \/ GetMemory(p) \/ Read(p) \/ ReadRaises(p) \/ Change(p) \/ WriteFile(p) \/ Unlock(p)
           \/ FileExists(p) \/ UnlinkFile(p) \/ UnlinkRaises(p)
    PROVE  MemoryInv' /\ (Fresh => Fresh')
<1> USE DEF MemoryInv
<1>1. /\ Unlocked \notin Procs
      /\ \A q \in Procs : Running(q) => op[q] \in Request
    BY RequestsAssumption, RunningRequest DEF Procs, Unlocked
<1>2. CASE TakeLock(p)
    <2>1. Running(p) /\ op[p].pc = "lock" /\ op[p] \in Request /\ file \in Memory
        BY <1>1, <1>2 DEF TakeLock, Running, MemoryTypes
    <2>2. \A q \in Procs \ {p} : op'[q] = op[q]
        BY <1>2 DEF TakeLock, MayEnter, Goto, MemoryTypes
    <2>3. /\ UNCHANGED <<file, expect>>
          /\ lock = Unlocked /\ lock' = p
          /\ op'[p].pc \in {"exists", "get"} /\ (op'[p].pc = "exists" => op[p].kind = "off")
          /\ (op'[p].pc = "get" => op[p].kind # "off")
          /\ op'[p].mem = op[p].mem
          /\ op'[p].kind = op[p].kind /\ op'[p].key = op[p].key /\ op'[p].value = op[p].value /\ op'[p].alone = op[p].alone
          /\ Running(p)'
        BY <1>2, <2>1 DEF TakeLock, MayEnter, Goto, MemoryTypes, Request, Running, AtRest
    <2> USE <1>1, <2>1, <2>2, <2>3 DEF Running
    <2>4. MemoryTypes'
        <3>1. op'[p] \in Request \cup {AtRest} /\ op' \in [Procs -> Request \cup {AtRest}]
            BY <1>2 DEF MemoryTypes, Request, TakeLock, MayEnter, Goto, AtRest
        <3>2. QED
            BY <3>1 DEF MemoryTypes
    <2>5. RequestSteps'
        BY DEF RequestSteps, Request
    <2>6. LockHeld'
        BY DEF LockHeld, RequestSteps
    <2>7. FilesSound'
        BY DEF FilesSound
    <2>8. Undisturbed'
        BY DEF Undisturbed, Remembers, Touches
    <2>9. Kept'
        BY DEF Kept
    <2>10. Told'
        BY DEF Told, Remembers
    <2>11. Fresh => Fresh'
        BY ZenonT(40) DEF Fresh
    <2>12. QED
        BY <2>4, <2>5, <2>6, <2>7, <2>8, <2>9, <2>10, <2>11
<1>3. CASE GetMemory(p)
    <2>1. Running(p) /\ op[p].pc = "get" /\ op[p] \in Request /\ file \in Memory
        BY <1>1, <1>3 DEF GetMemory, Running, MemoryTypes
    <2>2. \A q \in Procs \ {p} : op'[q] = op[q]
        BY <1>3 DEF GetMemory, Goto, MemoryTypes
    <2>3. /\ UNCHANGED <<file, lock, expect>>
          /\ op'[p].pc \in {"read", "change"}
          /\ op'[p].kind = op[p].kind /\ op'[p].key = op[p].key /\ op'[p].value = op[p].value /\ op'[p].alone = op[p].alone
          /\ Running(p)'
          /\ op'[p].pc = "read" => op'[p].mem = op[p].mem
          /\ op'[p].pc = "change" => op'[p].mem = NoMemory /\ ~file.exists
        BY <1>3, <2>1 DEF GetMemory, Goto, MemoryTypes, Request, Running, AtRest
    <2> USE <1>1, <2>1, <2>2, <2>3 DEF Running
    <2>4. MemoryTypes'
        <3>1. op'[p] \in Request \cup {AtRest} /\ op' \in [Procs -> Request \cup {AtRest}]
            BY <1>3 DEF MemoryTypes, Request, GetMemory, Goto, AtRest
        <3>2. QED
            BY <3>1 DEF MemoryTypes
    <2>5. RequestSteps'
        BY DEF RequestSteps
    <2>6. LockHeld'
        BY DEF LockHeld, RequestSteps
    <2>7. FilesSound'
        <3>1. OneValue(NoMemory.facts)
            BY NothingStored
        <3>2. QED
            BY <3>1 DEF FilesSound
    <2>8. Undisturbed'
        BY DEF Undisturbed, Remembers, Touches
    <2>9. Kept'
        BY DEF Kept, FilesSound
    <2>10. Told'
        BY DEF Told, Remembers, NoMemory
    <2>11. Fresh => Fresh'
        <3>1. op'[p].pc = "change" => op'[p].mem = file
            BY DEF FilesSound
        <3>2. op'[p].pc # "write"
            OBVIOUS
        <3>3. QED
            BY <3>1, <3>2, ZenonT(40) DEF Fresh
    <2>12. QED
        BY <2>4, <2>5, <2>6, <2>7, <2>8, <2>9, <2>10, <2>11
<1>4. CASE Read(p)
    <2>1. Running(p) /\ op[p].pc = "read" /\ op[p] \in Request /\ file \in Memory
        BY <1>1, <1>4 DEF Read, Running, MemoryTypes
    <2>2. \A q \in Procs \ {p} : op'[q] = op[q]
        BY <1>4 DEF Read, MemoryTypes
    <2>3. /\ UNCHANGED <<file, lock, expect>>
          /\ op'[p].pc = "change"
          /\ op'[p].kind = op[p].kind /\ op'[p].key = op[p].key /\ op'[p].value = op[p].value /\ op'[p].alone = op[p].alone
          /\ Running(p)'
          /\ op'[p].mem = file
        BY <1>4, <2>1 DEF Read, MemoryTypes, Request, Running, AtRest
    <2> USE <1>1, <2>1, <2>2, <2>3 DEF Running
    <2>4. MemoryTypes'
        <3>1. op'[p] = [op[p] EXCEPT !.pc = "change", !.mem = file]
            BY <1>4 DEF Read, MemoryTypes
        <3>2. op'[p] \in Request
            BY <3>1 DEF Request
        <3>3. op' \in [Procs -> Request \cup {AtRest}]
            BY <1>4, <3>2 DEF Read, MemoryTypes
        <3>4. QED
            BY <3>3 DEF MemoryTypes
    <2>5. RequestSteps'
        BY DEF RequestSteps
    <2>6. LockHeld'
        BY DEF LockHeld, RequestSteps
    <2>7. FilesSound'
        BY DEF FilesSound
    <2>8. Undisturbed'
        BY DEF Undisturbed, Remembers, Touches
    <2>9. Kept'
        BY DEF Kept
    <2>10. Told'
        BY DEF Told, Remembers
    <2>11. Fresh => Fresh'
        BY ZenonT(40) DEF Fresh
    <2>12. QED
        BY <2>4, <2>5, <2>6, <2>7, <2>8, <2>9, <2>10, <2>11
<1>5. CASE ReadRaises(p)
    <2>1. Running(p) /\ op[p].pc = "read" /\ op[p] \in Request /\ file \in Memory
        BY <1>1, <1>5 DEF ReadRaises, Running, MemoryTypes
    <2>2. \A q \in Procs \ {p} : op'[q] = op[q]
        BY <1>5 DEF ReadRaises, MemoryTypes
    <2>3. /\ UNCHANGED <<file, expect>>
          /\ lock' = Unlocked
          /\ op'[p] = AtRest
          /\ op'[p].pc = "idle"
          /\ ~Running(p)'
        BY <1>5, <2>1 DEF ReadRaises, MemoryTypes, Request, Running, AtRest
    <2> USE <1>1, <2>1, <2>2, <2>3 DEF Running
    <2>4. MemoryTypes'
        <3>1. op'[p] \in Request \cup {AtRest} /\ op' \in [Procs -> Request \cup {AtRest}]
            BY <1>5 DEF MemoryTypes, Request, ReadRaises, AtRest
        <3>2. QED
            BY <3>1 DEF MemoryTypes
    <2>5. RequestSteps'
        BY DEF RequestSteps
    <2>6. LockHeld'
        BY DEF LockHeld, RequestSteps
    <2>7. FilesSound'
        BY DEF FilesSound
    <2>8. Undisturbed'
        BY DEF Undisturbed, Remembers, Touches
    <2>9. Kept'
        BY DEF Kept
    <2>10. Told'
        BY DEF Told, Remembers
    <2>11. Fresh => Fresh'
        BY DEF Fresh
    <2>12. QED
        BY <2>4, <2>5, <2>6, <2>7, <2>8, <2>9, <2>10, <2>11
<1>6. CASE Change(p)
    <2>1. Running(p) /\ op[p].pc = "change" /\ op[p] \in Request /\ file \in Memory
        BY <1>1, <1>6 DEF Change, Running, MemoryTypes
    <2>2. \A q \in Procs \ {p} : op'[q] = op[q]
        BY <1>6 DEF Change, Goto, MemoryTypes
    <2>3. /\ UNCHANGED <<file, lock, expect>>
          /\ op'[p].pc \in {"write", "unlock"}
          /\ op'[p].kind = op[p].kind /\ op'[p].key = op[p].key /\ op'[p].value = op[p].value /\ op'[p].alone = op[p].alone
          /\ Running(p)'
          /\ op'[p].pc = "write" => Writes(p) /\ op'[p].mem = Changed(p)
          /\ op'[p].pc = "unlock" => ~Writes(p) /\ op'[p].mem = op[p].mem
        BY <1>6, <2>1 DEF Change, Goto, MemoryTypes, Request, Running, AtRest
    <2> USE <1>1, <2>1, <2>2, <2>3 DEF Running
    <2>4. MemoryTypes'
        <3>1. op'[p] \in Request
            <4>1. CASE Writes(p)
                <5>1. op'[p] = [op[p] EXCEPT !.pc = "write", !.mem = Changed(p)]
                    BY <1>6, <4>1 DEF Change, MemoryTypes
                <5>2. Changed(p) \in Memory
                    BY <4>1, ChangedProperties, <1>6 DEF Change
                <5>3. QED
                    BY <5>1, <5>2 DEF Request
            <4>2. CASE ~Writes(p)
                BY <1>6, <4>2 DEF Change, Goto, Request, MemoryTypes
            <4>3. QED
                BY <4>1, <4>2
        <3>2. op' \in [Procs -> Request \cup {AtRest}]
            BY <1>6, <3>1 DEF Change, Goto, MemoryTypes
        <3>3. QED
            BY <3>2 DEF MemoryTypes
    <2>5. RequestSteps'
        BY DEF RequestSteps
    <2>6. LockHeld'
        BY DEF LockHeld, RequestSteps
    <2>7. FilesSound'
        BY ChangedProperties DEF FilesSound
    <2>8. Undisturbed'
        BY DEF Undisturbed, Remembers, Touches
    <2>9. Kept'
        <3> SUFFICES ASSUME NEW k \in Keys, expect[k] # Unknown
                     PROVE  /\ Atomic!Holds(file.facts, k, expect[k])
                            /\ \A q \in Procs :
                                  /\ op'[q].pc = "change" => Atomic!Holds(op'[q].mem.facts, k, expect[k])
                                  /\ op'[q].pc = "write" =>
                                        \/ Atomic!Holds(op'[q].mem.facts, k, expect[k])
                                        \/ Len(op'[q].mem.facts) = MaxFacts /\ ~Atomic!Stored(op'[q].mem.facts, k)
            BY DEF Kept
        <3>1. Atomic!Holds(op[p].mem.facts, k, expect[k]) /\ ~Touches(op[p], k)
            BY DEF Kept, Undisturbed
        <3>2. Writes(p) => \/ Atomic!Holds(Changed(p).facts, k, expect[k])
                           \/ Len(Changed(p).facts) = MaxFacts /\ ~Atomic!Stored(Changed(p).facts, k)
            BY <3>1, ChangedProperties
        <3>3. QED
            BY <3>1, <3>2 DEF Kept
    <2>10. Told'
        <3>1. Remembers(p) /\ Writes(p) => Atomic!Holds(Changed(p).facts, op[p].key, op[p].value)
            BY ChangedProperties DEF Remembers
        <3>2. Remembers(p) /\ ~Writes(p) /\ op[p].mem.consent => Atomic!Holds(file.facts, op[p].key, op[p].value)
            BY DEF Told, Remembers, Writes, MayStore
        <3>3. QED
            BY <3>1, <3>2 DEF Told, Remembers
    <2>11. Fresh => Fresh'
        <3> SUFFICES ASSUME Fresh PROVE Fresh'
            OBVIOUS
        <3>1. CASE Writes(p)
            <4>1. op[p].mem = file /\ op'[p].pc = "write" /\ op'[p].mem = Changed(p)
                BY <1>6, <3>1 DEF Fresh, Change, MemoryTypes
            <4>2. op[p].kind \in {"remember", "on", "delete"}
                BY DEF RequestSteps
            <4>3. op[p].kind = "remember" => file.consent /\ Changed(p) = File(TRUE, Atomic!Capped(Atomic!Put(file.facts, op[p].key, op[p].value)))
                <5>1. op[p].kind = "remember" => op[p].mem.consent = TRUE
                    BY <3>1 DEF Writes, MayStore, Request, Memory
                <5>2. QED
                    BY <4>1, <5>1 DEF Changed
            <4>4. op[p].kind = "on" => Changed(p) = File(TRUE, file.facts)
                BY <4>1 DEF Changed
            <4>5. op[p].kind = "delete" => Changed(p) = File(file.consent, Atomic!Without(file.facts, op[p].key))
                BY <4>1 DEF Changed
            <4>6. ASSUME NEW q \in Procs
                  PROVE  /\ Running(q)' => op'[q].kind # "forget"
                         /\ op'[q].pc = "change" => op'[q].mem = file
                         /\ op'[q].pc = "write" =>
                               \/ /\ op'[q].kind = "remember" /\ file.consent
                                  /\ op'[q].mem = File(TRUE, Atomic!Capped(Atomic!Put(file.facts, op'[q].key, op'[q].value)))
                               \/ op'[q].kind = "on" /\ op'[q].mem = File(TRUE, file.facts)
                               \/ op'[q].kind = "delete" /\ op'[q].mem = File(file.consent, Atomic!Without(file.facts, op'[q].key))
                <5>1. CASE q = p
                    BY <4>1, <4>2, <4>3, <4>4, <4>5, <5>1 DEF Fresh
                <5>2. CASE q # p
                    BY <5>2 DEF Fresh
                <5>3. QED
                    BY <5>1, <5>2
            <4>7. QED
                BY <4>6 DEF Fresh
        <3>2. CASE ~Writes(p)
            BY <3>2, ZenonT(40) DEF Fresh
        <3>3. QED
            BY <3>1, <3>2
    <2>12. QED
        BY <2>4, <2>5, <2>6, <2>7, <2>8, <2>9, <2>10, <2>11
<1>7. CASE WriteFile(p)
    <2>1. Running(p) /\ op[p].pc = "write" /\ op[p] \in Request /\ file \in Memory
        BY <1>1, <1>7 DEF WriteFile, Running, MemoryTypes
    <2>2. \A q \in Procs \ {p} : op'[q] = op[q]
        BY <1>7 DEF WriteFile, Goto, MemoryTypes
    <2>3. /\ UNCHANGED <<lock>>
          /\ file' = op[p].mem
          /\ \A k \in Keys : expect'[k] = IF Len(op[p].mem.facts) = MaxFacts /\ ~Atomic!Stored(op[p].mem.facts, k) THEN Unknown
                                          ELSE expect[k]
          /\ op'[p].pc = "unlock"
          /\ op'[p].kind = op[p].kind /\ op'[p].key = op[p].key /\ op'[p].value = op[p].value /\ op'[p].alone = op[p].alone
          /\ Running(p)'
          /\ op'[p].mem = op[p].mem
        BY <1>7, <2>1 DEF WriteFile, Goto, MemoryTypes, Request, Running, AtRest
    <2> USE <1>1, <2>1, <2>2, <2>3 DEF Running
    <2>4. MemoryTypes'
        <3>1. op'[p] \in Request /\ op' \in [Procs -> Request \cup {AtRest}]
            BY <1>7 DEF WriteFile, Goto, MemoryTypes, Request
        <3>2. file' \in Memory
            BY DEF Request
        <3>3. expect' \in [Keys -> Values \cup {Unknown}]
            BY <1>7 DEF WriteFile, MemoryTypes
        <3>4. QED
            BY <3>1, <3>2, <3>3 DEF MemoryTypes
    <2>5. RequestSteps'
        BY DEF RequestSteps
    <2>6. LockHeld'
        BY DEF LockHeld, RequestSteps
    <2>7. FilesSound'
        BY DEF FilesSound
    <2>8. Undisturbed'
        BY DEF Undisturbed, Remembers, Touches
    <2>9. Kept'
        BY DEF Kept
    <2>10. Told'
        BY DEF Told, Remembers, LockHeld
    <2>11. Fresh => Fresh'
        BY ZenonT(40) DEF Fresh, LockHeld
    <2>12. QED
        BY <2>4, <2>5, <2>6, <2>7, <2>8, <2>9, <2>10, <2>11
<1>8. CASE Unlock(p)
    <2>1. Running(p) /\ op[p].pc = "unlock" /\ op[p] \in Request /\ file \in Memory
        BY <1>1, <1>8 DEF Unlock, Running, MemoryTypes
    <2>2. \A q \in Procs \ {p} : op'[q] = op[q]
        BY <1>8 DEF Unlock, RequestSteps, MemoryTypes
    <2>3. /\ UNCHANGED <<file>>
          /\ lock' = Unlocked
          /\ \A k \in Keys : expect'[k] = IF op[p].kind = "remember" /\ op[p].mem.consent /\ op[p].alone /\ k = op[p].key THEN op[p].value
                                          ELSE expect[k]
          /\ op'[p] = AtRest
          /\ op'[p].pc = "idle"
          /\ ~Running(p)'
        BY <1>8, <2>1 DEF Unlock, RequestSteps, MemoryTypes, Request, Running, AtRest
    <2> USE <1>1, <2>1, <2>2, <2>3 DEF Running
    <2>4. MemoryTypes'
        <3>1. op' \in [Procs -> Request \cup {AtRest}]
            BY <1>8 DEF Unlock, MemoryTypes
        <3>2. expect' \in [Keys -> Values \cup {Unknown}]
            BY <1>8 DEF Unlock, MemoryTypes, RequestSteps
        <3>3. QED
            BY <3>1, <3>2 DEF MemoryTypes
    <2>5. RequestSteps'
        BY DEF RequestSteps
    <2>6. LockHeld'
        BY DEF LockHeld, RequestSteps
    <2>7. FilesSound'
        BY DEF FilesSound
    <2>8. Undisturbed'
        BY DEF Undisturbed, Remembers, Touches
    <2>9. Kept'
        <3> SUFFICES ASSUME NEW k \in Keys, expect'[k] # Unknown
                     PROVE  /\ Atomic!Holds(file.facts, k, expect'[k])
                            /\ \A q \in Procs : op'[q].pc \notin {"change", "write"} \/ (op'[q] = op[q] /\ expect'[k] = expect[k])
            BY DEF Kept
        <3>1. \A q \in Procs : op'[q].pc \notin {"change", "write"}
            BY DEF LockHeld
        <3>2. CASE op[p].kind = "remember" /\ op[p].mem.consent /\ op[p].alone /\ k = op[p].key
            BY <3>1, <3>2 DEF Told, Remembers
        <3>3. CASE ~(op[p].kind = "remember" /\ op[p].mem.consent /\ op[p].alone /\ k = op[p].key)
            BY <3>1, <3>3 DEF Kept
        <3>4. QED
            BY <3>2, <3>3
    <2>10. Told'
        BY DEF Told, Remembers
    <2>11. Fresh => Fresh'
        BY ZenonT(40) DEF Fresh
    <2>12. QED
        BY <2>4, <2>5, <2>6, <2>7, <2>8, <2>9, <2>10, <2>11
<1>9. CASE FileExists(p)
    <2>1. Running(p) /\ op[p].pc = "exists" /\ op[p] \in Request /\ file \in Memory
        BY <1>1, <1>9 DEF FileExists, Running, MemoryTypes
    <2>2. \A q \in Procs \ {p} : op'[q] = op[q]
        BY <1>9 DEF FileExists, Forgotten, Goto, AtRest, MemoryTypes
    <2>3. /\ UNCHANGED <<file, lock, expect>>
          /\ \/ /\ op'[p].pc \in {"unlink", "unlock"} /\ (op'[p].pc = "unlock" => op[p].kind = "off")
                /\ op'[p].kind = op[p].kind /\ op'[p].key = op[p].key
                /\ op'[p].value = op[p].value /\ op'[p].alone = op[p].alone
                /\ op'[p].mem = op[p].mem /\ Running(p)'
             \/ op'[p] = AtRest /\ op'[p].pc = "idle" /\ ~Running(p)'
        BY <1>9, <2>1 DEF FileExists, Forgotten, Goto, AtRest, MemoryTypes, Request, Running
    <2> USE <1>1, <2>1, <2>2, <2>3 DEF Running
    <2>4. MemoryTypes'
        <3>1. op'[p] \in Request \cup {AtRest}
            BY <1>9 DEF FileExists, Forgotten, Goto, Request, MemoryTypes
        <3>2. op' \in [Procs -> Request \cup {AtRest}]
            BY <1>9, <3>1 DEF FileExists, Forgotten, Goto, MemoryTypes
        <3>3. QED
            BY <3>2 DEF MemoryTypes
    <2>5. RequestSteps'
        BY DEF RequestSteps
    <2>6. LockHeld'
        BY DEF LockHeld, RequestSteps
    <2>7. FilesSound'
        BY DEF FilesSound
    <2>8. Undisturbed'
        BY DEF Undisturbed, Remembers, Touches
    <2>9. Kept'
        BY DEF Kept
    <2>10. Told'
        BY DEF Told, Remembers
    <2>11. Fresh => Fresh'
        BY DEF Fresh
    <2>12. QED
        BY <2>4, <2>5, <2>6, <2>7, <2>8, <2>9, <2>10, <2>11
<1>10. CASE UnlinkFile(p)
    <2>1. Running(p) /\ op[p].pc = "unlink" /\ op[p] \in Request /\ file \in Memory
        BY <1>1, <1>10 DEF UnlinkFile, Running, MemoryTypes
    <2>2. \A q \in Procs \ {p} : op'[q] = op[q]
        BY <1>10 DEF UnlinkFile, AfterUnlink, Forgotten, Goto, AtRest, MemoryTypes
    <2>3. /\ UNCHANGED <<lock, expect>>
          /\ file' = NoMemory
          /\ \/ /\ op'[p].pc = "unlock" /\ op[p].kind = "off"
                /\ op'[p].kind = op[p].kind /\ op'[p].key = op[p].key
                /\ op'[p].value = op[p].value /\ op'[p].alone = op[p].alone
                /\ op'[p].mem = op[p].mem /\ Running(p)'
             \/ op'[p] = AtRest /\ op'[p].pc = "idle" /\ ~Running(p)'
        BY <1>10, <2>1 DEF UnlinkFile, AfterUnlink, Forgotten, Goto, AtRest, MemoryTypes, Request, Running
    <2> USE <1>1, <2>1, <2>2, <2>3 DEF Running
    <2>4. MemoryTypes'
        <3>1. op'[p] \in Request \cup {AtRest}
            BY <1>10 DEF UnlinkFile, Forgotten, Goto, Request, MemoryTypes
        <3>2. op' \in [Procs -> Request \cup {AtRest}]
            BY <1>10, <3>1 DEF UnlinkFile, Forgotten, Goto, MemoryTypes
        <3>3. NoMemory \in Memory
            BY NothingStored
        <3>4. QED
            BY <3>2, <3>3 DEF MemoryTypes
    <2>5. RequestSteps'
        BY DEF RequestSteps
    <2>6. LockHeld'
        BY DEF LockHeld, RequestSteps
    <2>7. FilesSound'
        <3>1. OneValue(NoMemory.facts)
            BY NothingStored
        <3>2. QED
            BY <3>1 DEF FilesSound
    <2>8. Undisturbed'
        BY DEF Undisturbed, Remembers, Touches
    <2>9. Kept'
        <3>1. \A k \in Keys : expect[k] = Unknown
            BY DEF Undisturbed, Touches, RequestSteps
        <3>2. QED
            BY <3>1 DEF Kept
    <2>10. Told'
        <3>1. \A q \in Procs \ {p} : ~Remembers(q)
            BY DEF Undisturbed, Touches, RequestSteps
        <3>2. ~Remembers(p)'
            BY DEF Remembers, RequestSteps
        <3>3. \A q \in Procs \ {p} : ~Remembers(q)'
            BY <3>1 DEF Remembers
        <3>4. QED
            BY <3>2, <3>3 DEF Told
    <2>11. Fresh => Fresh'
        BY DEF Fresh, LockHeld, RequestSteps
    <2>12. QED
        BY <2>4, <2>5, <2>6, <2>7, <2>8, <2>9, <2>10, <2>11
<1>11. CASE UnlinkRaises(p)
    <2>1. Running(p) /\ op[p].pc = "unlink" /\ op[p] \in Request /\ file \in Memory
        BY <1>1, <1>11 DEF UnlinkRaises, Running, MemoryTypes
    <2>2. \A q \in Procs \ {p} : op'[q] = op[q]
        BY <1>11 DEF UnlinkRaises, MemoryTypes
    <2>3. /\ UNCHANGED <<file, expect>>
          /\ lock' = (IF lock = p THEN Unlocked ELSE lock)
          /\ op'[p] = AtRest
          /\ op'[p].pc = "idle"
          /\ ~Running(p)'
        BY <1>11, <2>1 DEF UnlinkRaises, MemoryTypes, Request, Running, AtRest
    <2> USE <1>1, <2>1, <2>2, <2>3 DEF Running
    <2>4. MemoryTypes'
        <3>1. op'[p] \in Request \cup {AtRest} /\ op' \in [Procs -> Request \cup {AtRest}]
            BY <1>11 DEF MemoryTypes, Request, UnlinkRaises, AtRest
        <3>2. QED
            BY <3>1 DEF MemoryTypes
    <2>5. RequestSteps'
        BY DEF RequestSteps
    <2>6. LockHeld'
        BY DEF LockHeld, RequestSteps
    <2>7. FilesSound'
        BY DEF FilesSound
    <2>8. Undisturbed'
        BY DEF Undisturbed, Remembers, Touches
    <2>9. Kept'
        BY DEF Kept
    <2>10. Told'
        BY DEF Told, Remembers
    <2>11. Fresh => Fresh'
        BY DEF Fresh
    <2>12. QED
        BY <2>4, <2>5, <2>6, <2>7, <2>8, <2>9, <2>10, <2>11
<1>12. QED
    BY <1>2, <1>3, <1>4, <1>5, <1>6, <1>7, <1>8, <1>9, <1>10, <1>11

\* A request that begins is alone when nobody else touches its slot, and makes
\* the slot nobody's to expect.
LEMMA BeginKeepsInv ==
    ASSUME MemoryInv, NEW p \in Procs, NEW kind, NEW k, NEW v, NEW label,
           Begin(p, kind, k, v, label),
           \/ kind = "remember" /\ k \in Keys /\ v \in Values /\ label = "lock"
           \/ kind = "delete" /\ k \in Keys /\ v = Unknown /\ label = "lock"
           \/ kind \in {"on", "off"} /\ k = Unknown /\ v = Unknown /\ label = "lock"
           \/ kind = "forget" /\ k = Unknown /\ v = Unknown /\ label = "exists",
           expect' \in [Keys -> Values \cup {Unknown}],
           \A c \in Keys : expect'[c] # Unknown =>
               expect'[c] = expect[c] /\ (kind # "on" => k # Unknown /\ k # c)
    PROVE  MemoryInv' /\ (Fresh /\ "forget" \notin Requests => Fresh')
<1> USE DEF MemoryInv
<1> DEFINE new == [pc |-> label, kind |-> kind, key |-> k, value |-> v, mem |-> NoMemory,
                   alone |-> \A r \in Procs : ~Touches(op[r], k)]
<1>1. ~Running(p) /\ file' = file /\ lock' = lock
    BY DEF Begin, Running
<1>2. new \in Request
    BY NothingStored DEF Request
<1>3. op'[p] = new
    BY DEF Begin
<1> HIDE DEF new
<1>4. /\ op'[p].pc = label /\ op'[p].kind = kind /\ op'[p].key = k /\ op'[p].value = v /\ op'[p].mem = NoMemory
      /\ op'[p].alone => \A r \in Procs : ~Touches(op[r], k)
      /\ label \in {"lock", "exists"} /\ Running(p)'
    BY <1>3 DEF new, Running
<1>5. ASSUME NEW q \in Procs \ {p}
      PROVE  /\ Running(q)' <=> Running(q)
             /\ Running(q) => /\ op'[q] \in Request
                              /\ op'[q].pc = op[q].pc /\ op'[q].kind = op[q].kind /\ op'[q].key = op[q].key
                              /\ op'[q].value = op[q].value /\ op'[q].mem = op[q].mem
                              /\ op'[q].alone => op[q].alone /\ (kind # "on" => ~Touches(op[q], k))
             /\ ~Running(q) => op'[q] = op[q] /\ op[q] = AtRest
    <2>1. op'[q] = IF kind # "on" /\ Touches(op[q], k) THEN [op[q] EXCEPT !.alone = FALSE] ELSE op[q]
        BY DEF Begin
    <2>2. CASE Running(q)
        <3>1. op[q] \in Request
            BY <2>2, RunningRequest
        <3>2. CASE kind # "on" /\ Touches(op[q], k)
            <4>1. op'[q] = [op[q] EXCEPT !.alone = FALSE]
                BY <2>1, <3>2
            <4>2. QED
                BY <2>2, <3>1, <4>1 DEF Running, Request
        <3>3. CASE ~(kind # "on" /\ Touches(op[q], k))
            BY <2>1, <2>2, <3>1, <3>3 DEF Running
        <3>4. QED
            BY <3>2, <3>3
    <2>3. CASE ~Running(q)
        BY <2>1, <2>3 DEF Running, Touches, MemoryTypes, Request
    <2>4. QED
        BY <2>2, <2>3
<1>6. op' \in [Procs -> Request \cup {AtRest}]
    <2>1. \A q \in Procs : op'[q] \in Request \cup {AtRest}
        BY <1>2, <1>3, <1>5
    <2>2. op' = [q \in Procs |-> op'[q]]
        BY DEF Begin
    <2>3. QED
        BY <2>1, <2>2
<1>7. \A q \in Procs, c \in Keys : q # p /\ ~Touches(op[q], c) => ~Touches(op'[q], c)
    BY <1>5 DEF Touches, Running
<1>8. \A q \in Procs \ {p} : Touches(op'[q], Unknown) => Touches(op[q], Unknown)
    BY <1>5 DEF Touches, Running
<1>9. OneValue(NoMemory.facts)
    BY NothingStored
<1> USE <1>1, <1>4, <1>5
<1>10. MemoryTypes'
    BY <1>6 DEF MemoryTypes
<1>11. RequestSteps'
    BY DEF RequestSteps, Running
<1>12. LockHeld'
    BY DEF LockHeld, Running
<1>13. FilesSound'
    BY <1>9 DEF FilesSound, Running
<1>14. \A c \in Keys : expect'[c] # Unknown => \A q \in Procs : ~Touches(op[q], c)
    BY DEF Undisturbed
<1>15. \A c \in Keys : expect'[c] # Unknown => ~Touches(op'[p], c)
    BY RequestsAssumption DEF Touches, Unknown
<1>16. \A c \in Keys : expect'[c] # Unknown => \A q \in Procs : ~Touches(op'[q], c)
    BY <1>7, <1>14, <1>15
<1>17. Remembers(p)' => \A r \in Procs \ {p} : ~Touches(op'[r], k)
    BY <1>7 DEF Remembers
<1>18. ASSUME NEW q \in Procs \ {p}, Remembers(q)' PROVE \A r \in Procs \ {q} : ~Touches(op'[r], op[q].key)
    <2>1. Remembers(q) /\ op[q].key \in Keys
        BY <1>18 DEF Remembers, RequestSteps
    <2>2. \A r \in Procs \ {q} : ~Touches(op[r], op[q].key)
        BY <2>1 DEF Undisturbed
    <2>3. ~Touches(op'[p], op[q].key)
        <3>1. CASE kind = "on"
            BY <3>1 DEF Touches
        <3>2. CASE kind # "on"
            <4>1. ~Touches(op[q], k) /\ Running(q) /\ op[q].kind = "remember"
                BY <1>18, <2>1, <3>2 DEF Remembers
            <4>2. k # Unknown /\ k # op[q].key /\ op[q].key # Unknown
                BY <4>1, <2>1, RequestsAssumption DEF Touches, Running, Unknown
            <4>3. QED
                BY <4>2, <2>1, RequestsAssumption DEF Touches, Unknown
        <3>3. QED
            BY <3>1, <3>2
    <2>4. QED
        BY <1>7, <2>1, <2>2, <2>3
<1>19. Undisturbed'
    BY <1>16, <1>17, <1>18 DEF Undisturbed, Remembers
<1>20. Kept'
    BY DEF Kept, Running
<1>21. Told'
    BY DEF Told, Remembers, Running
<1>22. Fresh /\ "forget" \notin Requests => Fresh'
    <2>1. "forget" \notin Requests => kind # "forget"
        BY DEF Begin
    <2>2. op'[p].pc \notin {"change", "write"}
        OBVIOUS
    <2>3. ASSUME Fresh, "forget" \notin Requests, NEW q \in Procs
          PROVE  /\ Running(q)' => op'[q].kind # "forget"
                 /\ op'[q].pc = "change" => op'[q].mem = file
                 /\ op'[q].pc = "write" =>
                       \/ /\ op'[q].kind = "remember" /\ file.consent
                          /\ op'[q].mem = File(TRUE, Atomic!Capped(Atomic!Put(file.facts, op'[q].key, op'[q].value)))
                       \/ op'[q].kind = "on" /\ op'[q].mem = File(TRUE, file.facts)
                       \/ op'[q].kind = "delete" /\ op'[q].mem = File(file.consent, Atomic!Without(file.facts, op'[q].key))
        <3>1. CASE q = p
            BY <2>1, <2>2, <2>3, <3>1
        <3>2. CASE q # p /\ Running(q)
            BY <2>3, <3>2, ZenonT(40) DEF Fresh, Running
        <3>3. CASE q # p /\ ~Running(q)
            BY <3>3 DEF Running
        <3>4. QED
            BY <3>1, <3>2, <3>3
    <2>4. QED
        BY <2>3 DEF Fresh
<1>23. QED
    BY <1>10, <1>11, <1>12, <1>13, <1>19, <1>20, <1>21, <1>22

LEMMA ArrivalsKeepInv ==
    ASSUME MemoryInv, NEW p \in Procs,
           ChatRemembers(p) \/ AsksToForget(p) \/ SetsConsent(p) \/ DeletesFact(p)
    PROVE  MemoryInv' /\ (Fresh /\ "forget" \notin Requests => Fresh')
<1> USE DEF MemoryInv
<1>1. expect \in [Keys -> Values \cup {Unknown}]
    BY DEF MemoryTypes
<1>2. CASE ChatRemembers(p)
    <2>1. PICK k \in Keys, v \in Values :
              Begin(p, "remember", k, v, "lock") /\ expect' = [expect EXCEPT ![k] = Unknown]
        BY <1>2 DEF ChatRemembers
    <2>2. /\ expect' \in [Keys -> Values \cup {Unknown}]
          /\ \A c \in Keys : expect'[c] # Unknown => expect'[c] = expect[c] /\ k # Unknown /\ k # c
        BY <1>1, <2>1, RequestsAssumption DEF Unknown
    <2>3. QED
        BY <2>1, <2>2, BeginKeepsInv
<1>3. CASE AsksToForget(p)
    <2>1. /\ expect' \in [Keys -> Values \cup {Unknown}]
          /\ \A c \in Keys : expect'[c] = Unknown
        BY <1>3 DEF AsksToForget
    <2>2. Begin(p, "forget", Unknown, Unknown, "exists")
        BY <1>3 DEF AsksToForget
    <2>3. QED
        BY <2>1, <2>2, BeginKeepsInv
<1>4. CASE SetsConsent(p)
    <2>1. CASE Begin(p, "on", Unknown, Unknown, "lock") /\ UNCHANGED expect
        BY <1>1, <2>1, BeginKeepsInv
    <2>2. CASE Begin(p, "off", Unknown, Unknown, "lock") /\ expect' = [k \in Keys |-> Unknown]
        <3>1. expect' \in [Keys -> Values \cup {Unknown}] /\ \A c \in Keys : expect'[c] = Unknown
            BY <2>2
        <3>2. QED
            BY <2>2, <3>1, BeginKeepsInv
    <2>3. QED
        BY <1>4, <2>1, <2>2 DEF SetsConsent
<1>5. CASE DeletesFact(p)
    <2>1. PICK k \in Keys : Begin(p, "delete", k, Unknown, "lock") /\ expect' = [expect EXCEPT ![k] = Unknown]
        BY <1>5 DEF DeletesFact
    <2>2. /\ expect' \in [Keys -> Values \cup {Unknown}]
          /\ \A c \in Keys : expect'[c] # Unknown => expect'[c] = expect[c] /\ k # Unknown /\ k # c
        BY <1>1, <2>1, RequestsAssumption DEF Unknown
    <2>3. QED
        BY <2>1, <2>2, BeginKeepsInv
<1>6. QED
    BY <1>2, <1>3, <1>4, <1>5

\* The process dies: no request is left.
LEMMA CrashKeepsInv == MemoryInv /\ Crash => MemoryInv'
<1> SUFFICES ASSUME MemoryInv, Crash PROVE MemoryInv'
    OBVIOUS
<1>1. /\ \A p \in Procs : op'[p] = AtRest /\ op'[p].pc = "idle" /\ ~Running(p)'
      /\ op' \in [Procs -> Request \cup {AtRest}]
      /\ file' = file /\ expect' = expect /\ lock' \in Procs \cup {Unlocked}
    BY DEF Crash, AtRest, Running
<1>2. MemoryTypes' /\ RequestSteps' /\ LockHeld'
    BY <1>1 DEF MemoryInv, MemoryTypes, RequestSteps, LockHeld
<1>3. FilesSound' /\ Undisturbed' /\ Kept' /\ Told'
    BY <1>1 DEF MemoryInv, FilesSound, Undisturbed, Touches, Remembers, Kept, Told
<1>4. QED
    BY <1>2, <1>3 DEF MemoryInv

LEMMA MemoryInvInit == MemoryInit => MemoryInv
<1> SUFFICES ASSUME MemoryInit PROVE MemoryInv
    OBVIOUS
<1>1. /\ \A p \in Procs : op[p].pc = "idle" /\ ~Running(p)
      /\ op \in [Procs -> Request \cup {AtRest}]
      /\ file = NoMemory /\ lock = Unlocked
      /\ expect \in [Keys -> Values \cup {Unknown}] /\ \A k \in Keys : expect[k] = Unknown
    BY DEF MemoryInit, AtRest, Running
<1>2. MemoryTypes /\ RequestSteps /\ LockHeld
    BY <1>1, NothingStored DEF MemoryTypes, RequestSteps, LockHeld
<1>3. FilesSound /\ Undisturbed /\ Kept /\ Told
    BY <1>1, NothingStored DEF FilesSound, Undisturbed, Remembers, Kept, Told
<1>4. QED
    BY <1>2, <1>3 DEF MemoryInv

-----------------------------------------------------------------------------
(***************************************************************************)
(* Theorems.                                                               *)
(***************************************************************************)
\* The invariant holds in every behaviour of the memory store.
THEOREM MemoryCorrect == MemorySpec => []MemoryInv
<1>1. MemoryInv /\ [MemoryNext]_memoryVars => MemoryInv'
    <2> SUFFICES ASSUME MemoryInv, [MemoryNext]_memoryVars PROVE MemoryInv'
        OBVIOUS
    <2>1. CASE Crash
        BY <2>1, CrashKeepsInv
    <2>2. CASE \E p \in Procs : MemoryStep(p)
        BY <2>2, ArrivalsKeepInv, RequestStepsKeepInv DEF MemoryStep
    <2>3. CASE UNCHANGED memoryVars
        <3>1. file' = file /\ lock' = lock /\ op' = op /\ expect' = expect
            BY <2>3 DEF memoryVars
        <3>2. MemoryTypes' /\ RequestSteps' /\ LockHeld'
            BY <3>1 DEF MemoryInv, MemoryTypes, RequestSteps, LockHeld, Running
        <3>3. FilesSound' /\ Undisturbed' /\ Kept' /\ Told'
            BY <3>1 DEF MemoryInv, FilesSound, Undisturbed, Remembers, Running, Kept, Told
        <3>4. QED
            BY <3>2, <3>3 DEF MemoryInv
    <2>4. QED
        BY <2>1, <2>2, <2>3 DEF MemoryNext
<1>2. QED
    BY MemoryInvInit, <1>1, PTL DEF MemorySpec

\* However requests of any number of threads interleave with forgetting and
\* with crashes, a slot has one value, the cap holds, and a fact the user was
\* told is remembered stays until the user touches it or the cap drops it.
THEOREM FactsStayRemembered == MemorySpec => []FactsStay
<1>1. MemoryInv => FactsStay
    BY DEF MemoryInv, FilesSound, OneValue, Kept, FactsStay, OneValuePerSlot, RememberedFactsStay
<1>2. QED
    BY MemoryCorrect, <1>1, PTL

-----------------------------------------------------------------------------
(***************************************************************************)
(* Refinement.                                                             *)
(***************************************************************************)
\* A step changes the memory as one request applied at once does, or not at all.
LEMMA StepIsAtomic ==
    ASSUME MemoryInv, Fresh, [MemoryNext]_memoryVars
    PROVE  [Atomic!Next]_<<file.consent, file.facts>>
<1> USE DEF MemoryInv
<1>1. CASE \E p \in Procs : WriteFile(p)
    <2>1. PICK p \in Procs : WriteFile(p)
        BY <1>1
    <2>2. file' = op[p].mem /\ op[p].pc = "write" /\ Running(p)
        BY <2>1 DEF WriteFile, Running
    <2>3. CASE /\ op[p].kind = "remember" /\ file.consent
               /\ op[p].mem = File(TRUE, Atomic!Capped(Atomic!Put(file.facts, op[p].key, op[p].value)))
        <3>1. op[p].key \in Keys /\ op[p].value \in Values
            BY <2>2, <2>3 DEF RequestSteps
        <3>2. file.consent = TRUE
            BY <2>3 DEF MemoryTypes, Memory
        <3>3. Atomic!Remember(op[p].key, op[p].value)
            BY <2>2, <2>3, <3>2 DEF Atomic!Remember, File
        <3>4. QED
            BY <3>1, <3>3 DEF Atomic!Next
    <2>4. CASE op[p].kind = "on" /\ op[p].mem = File(TRUE, file.facts)
        BY <2>2, <2>4 DEF Atomic!Next, Atomic!OptIn, File
    <2>5. CASE op[p].kind = "delete" /\ op[p].mem = File(file.consent, Atomic!Without(file.facts, op[p].key))
        <3>1. op[p].key \in Keys
            BY <2>2, <2>5 DEF RequestSteps
        <3>2. Atomic!Delete(op[p].key)
            BY <2>2, <2>5 DEF Atomic!Delete, File
        <3>3. QED
            BY <3>1, <3>2 DEF Atomic!Next
    <2>6. QED
        BY <2>2, <2>3, <2>4, <2>5 DEF Fresh
<1>2. CASE \E p \in Procs : UnlinkFile(p)
    BY <1>2 DEF UnlinkFile, AfterUnlink, NoMemory, Atomic!Next, Atomic!OptOut
<1>3. CASE ~(\E p \in Procs : WriteFile(p) \/ UnlinkFile(p))
    <2>1. file' = file
        BY <1>3 DEF MemoryNext, MemoryStep, Crash, ChatRemembers, AsksToForget, SetsConsent, DeletesFact, Begin,
                    TakeLock, GetMemory, Read, ReadRaises, Change, Unlock, FileExists, UnlinkRaises, memoryVars
    <2>2. QED
        BY <2>1
<1>4. QED
    BY <1>1, <1>2, <1>3

\* Without the unlocked forget, every interleaving of requests and crashes is
\* one in which each request is applied at once, or not at all.
THEOREM MemoryIsAtomic == ASSUME "forget" \notin Requests PROVE MemorySpec => AtomicSpec
<1>1. MemoryInit => Atomic!Init /\ Fresh
    <2> SUFFICES ASSUME MemoryInit PROVE Atomic!Init /\ Fresh
        OBVIOUS
    <2>1. \A p \in Procs : op[p].pc = "idle"
        BY DEF MemoryInit, AtRest
    <2>2. Atomic!Init
        BY DEF MemoryInit, NoMemory, Atomic!Init
    <2>3. QED
        BY <2>1, <2>2 DEF Fresh, Running
<1>2. MemoryInv /\ Fresh /\ [MemoryNext]_memoryVars => Fresh'
    <2> SUFFICES ASSUME MemoryInv, Fresh, [MemoryNext]_memoryVars PROVE Fresh'
        OBVIOUS
    <2>1. CASE Crash
        BY <2>1 DEF Crash, AtRest, Fresh, Running
    <2>2. CASE \E p \in Procs : MemoryStep(p)
        BY <2>2, ArrivalsKeepInv, RequestStepsKeepInv DEF MemoryStep
    <2>3. CASE UNCHANGED memoryVars
        BY <2>3 DEF memoryVars, Fresh, Running
    <2>4. QED
        BY <2>1, <2>2, <2>3 DEF MemoryNext
<1>3. MemoryInv /\ Fresh /\ [MemoryNext]_memoryVars => [Atomic!Next]_<<file.consent, file.facts>>
    BY StepIsAtomic
<1>4. QED
    BY MemoryCorrect, <1>1, <1>2, <1>3, PTL DEF MemorySpec, AtomicSpec, Atomic!Spec

-----------------------------------------------------------------------------
(***************************************************************************)
(* The owner's sessions and the guesses at his secret. SessionInv is about *)
(* the sessions: while somebody is logged in, the history of his           *)
(* OwnerState is at least as late as what its expiry is computed from, and *)
(* a turn that is about to be dispatched in it came before that expiry.    *)
(* GuessInv is about one key: its queue is the end of its failures, and    *)
(* what was dropped from it has aged or was followed by a lock; after a    *)
(* lock only the turns already past the question can still fail.           *)
(***************************************************************************)
AuthVisits ==
    [pc : {"arrived", "dispatch", "locked?", "verify"}, talk : Talks, address : Addresses, o : Nat, now : Nat]

OwnerStates == [awaiting : BOOLEAN, auth : BOOLEAN, at : Nat, last : Nat]

AuthTypeOK ==
    /\ ownerOf \in [Talks -> Nat]
    /\ states \in Seq(OwnerStates)
    /\ heard \in Seq(Nat \X Nat)
    /\ Len(heard) = Len(states)
    /\ \A c \in Talks : ownerOf[c] <= Len(states)
    /\ fails \in [GuessKeys -> Seq(Nat)] /\ locked \in [GuessKeys -> Nat]
    /\ visit \in [Workers -> AuthVisits \cup {NoVisit}]
    /\ \A w \in Workers : visit[w] # NoVisit => visit[w].o \in 1 .. Len(states) /\ visit[w].now <= wall
    /\ wall \in Nat
    /\ failures \in [GuessKeys -> Seq(Nat)]

\* The history of an OwnerState is no earlier than what its expiry is computed from.
SessionTold ==
    \A o \in 1 .. Len(states) :
        states[o].auth => heard[o][1] = states[o].at /\ states[o].last <= heard[o][2]

\* A turn about to be dispatched to a session that is logged in came before its end.
InTime(w) ==
    visit[w].pc = "dispatch" /\ My(w).auth =>
        LET told == heard[visit[w].o] IN visit[w].now <= told[1] + MaxSession /\ visit[w].now <= told[2] + IdleLimit

SessionInv == SessionTold /\ \A w \in Workers : InTime(w)

\* The turns that will compare a candidate for this key without asking again whether it is locked.
Comparing(k) == {w \in Workers : visit[w].pc = "verify" /\ k \in KeysOf(w)}

\* The j-th failure of the key locked it: only turns under way then can have failed before the lock was over.
LockedAt(k, j) ==
    LET f == failures[k]
        after == Cardinality(Workers) - 1
    IN /\ after >= 0
       /\ \A m \in j + 1 .. Len(f) : f[m] < f[j] + Lockout => m - j <= after
       /\ wall < f[j] + Lockout =>
            f[j] + Lockout <= locked[k] /\ Len(f) - j + Cardinality(Comparing(k)) <= after

GuessInv(k) ==
    LET f == failures[k]
        q == fails[k]
        gone == Len(f) - Len(q)
    IN /\ \A i \in 1 .. Len(f) : f[i] <= wall /\ (\A j \in i .. Len(f) : f[i] <= f[j])
       /\ gone >= 0 /\ Len(q) < MaxFailures
       /\ \A x \in 1 .. Len(q) : q[x] = f[gone + x]
       /\ \A i \in 1 .. gone :
            f[Len(f)] - f[i] > FailureWindow \/ \E j \in i .. gone : LockedAt(k, j)
       /\ \A i \in 1 .. Len(f) - MaxFailures + 1 :
            f[i + MaxFailures - 1] - f[i] > FailureWindow \/ \E j \in i .. i + MaxFailures - 1 : LockedAt(k, j)

AuthInv == AuthTypeOK /\ SessionInv /\ \A k \in GuessKeys : GuessInv(k)
-----------------------------------------------------------------------------
\* What _fails keeps of a key when an attempt fails: everything but aged entries at the front.
LEMMA RecentFailsAreTheEnd ==
    ASSUME NEW k \in GuessKeys, fails[k] \in Seq(Nat), wall \in Nat
    PROVE  LET q == Append(fails[k], wall)
               r == RecentFails(k)
           IN /\ r \in Seq(Nat)
              /\ Len(r) \in 1 .. Len(fails[k]) + 1
              /\ \A x \in 1 .. Len(r) : r[x] = q[Len(q) - Len(r) + x]
              /\ \A x \in 1 .. Len(fails[k]) + 1 - Len(r) : wall - fails[k][x] > FailureWindow
<1> DEFINE q == Append(fails[k], wall)
           recent == {i \in 1 .. Len(q) : wall - q[i] <= FailureWindow}
<1>1. Len(fails[k]) \in Nat /\ FailureWindow \in Nat
    BY LenProperties, OwnerAuthAssumption
<1>2. q \in Seq(Nat) /\ Len(q) = Len(fails[k]) + 1 /\ q[Len(q)] = wall
      /\ \A i \in 1 .. Len(fails[k]) : q[i] = fails[k][i]
    BY <1>1
<1> HIDE DEF q
<1>3. recent \subseteq Nat /\ Len(q) \in recent
    BY <1>1, <1>2
<1>4. \E i \in recent : \A j \in recent : i <= j
    <2> HIDE DEF recent
    <2> QED BY <1>3, LeastElement
<1>5. PICK first : first = (CHOOSE i \in recent : \A j \in recent : i <= j)
    OBVIOUS
<1>6. first \in recent /\ \A j \in recent : first <= j
    BY <1>4, <1>5
<1>7. first \in 1 .. Len(q)
    BY <1>6
<1>8. \A x \in 1 .. first - 1 : ~(wall - q[x] <= FailureWindow)
    <2> SUFFICES ASSUME NEW x \in 1 .. first - 1, wall - q[x] <= FailureWindow PROVE FALSE
        OBVIOUS
    <2>1. x \in recent
        BY <1>1, <1>2, <1>7
    <2> QED
        BY <2>1, <1>6, <1>1, <1>2, <1>7
<1>9. RecentFails(k) = SubSeq(q, first, Len(q))
    BY <1>5 DEF RecentFails, q
<1>10. PICK n \in Nat : n = Len(q) - first + 1 /\ n <= Len(q) /\ n >= 1
    <2>1. PICK len \in Nat : len = Len(q)
        BY <1>1, <1>2
    <2>2. len - first + 1 \in Nat /\ len - first + 1 <= len /\ len - first + 1 >= 1
        BY <2>1, <1>7
    <2> QED
        BY <2>1, <2>2
<1>11. Len(q) - n + 1 = first
    BY <1>1, <1>2, <1>7, <1>10
<1>12. /\ RecentFails(k) \in Seq(Nat)
       /\ Len(RecentFails(k)) = n
       /\ \A x \in 1 .. n : RecentFails(k)[x] = q[Len(q) - n + x]
    <2>1. PICK r \in Seq(Nat) : r = q
        BY <1>2
    <2>2. /\ SubSeq(r, Len(r) - n + 1, Len(r)) \in Seq(Nat)
          /\ Len(SubSeq(r, Len(r) - n + 1, Len(r))) = n
          /\ \A i \in 1..n : SubSeq(r, Len(r) - n + 1, Len(r))[i] = r[Len(r) - n + i]
        BY <2>1, <1>10, SuffixProperties
    <2> QED
        BY <2>1, <2>2, <1>9, <1>11
<1>13. \A x \in 1 .. Len(fails[k]) + 1 - n : wall - fails[k][x] > FailureWindow
    <2> SUFFICES ASSUME NEW x \in 1 .. Len(fails[k]) + 1 - n PROVE wall - fails[k][x] > FailureWindow
        OBVIOUS
    <2>1. x \in 1 .. first - 1 /\ x \in 1 .. Len(fails[k])
        BY <1>1, <1>2, <1>7, <1>10
    <2>2. q[x] = fails[k][x] /\ ~(wall - q[x] <= FailureWindow)
        BY <2>1, <1>2, <1>8
    <2>3. fails[k][x] \in Nat
        BY <2>1, ElementOfSeq
    <2> QED
        BY <2>2, <2>3, <1>1
<1>14. Len(RecentFails(k)) \in 1 .. Len(fails[k]) + 1
    BY <1>1, <1>2, <1>10, <1>12
<1> QED
    BY <1>12, <1>13, <1>14 DEF q

\* As many turns are past the question as there are workers, or fewer.
LEMMA ComparingIsFinite ==
    ASSUME NEW k \in GuessKeys
    PROVE  /\ IsFiniteSet(Comparing(k)) /\ Cardinality(Comparing(k)) \in Nat
           /\ Cardinality(Workers) \in Nat /\ Cardinality(Comparing(k)) <= Cardinality(Workers)
<1>1. IsFiniteSet(Workers) /\ Comparing(k) \in SUBSET Workers
    BY OwnerAuthAssumption DEF Comparing
<1> QED
    BY <1>1, FS_Subset, FS_CardinalityType

\* GuessInv of a key is only about its failures, its queue, its lock, the time and who is comparing.
LEMMA QuietKeepsGuesses ==
    ASSUME AuthTypeOK, AuthTypeOK', NEW k \in GuessKeys, GuessInv(k), wall <= wall',
           failures'[k] = failures[k], fails'[k] = fails[k], locked'[k] = locked[k],
           Comparing(k)' \subseteq Comparing(k) \/ locked[k] <= wall
    PROVE  GuessInv(k)'
<1> DEFINE f == failures[k]
           q == fails[k]
<1>1. /\ f \in Seq(Nat) /\ q \in Seq(Nat) /\ locked[k] \in Nat /\ wall \in Nat /\ wall' \in Nat
      /\ Len(f) \in Nat /\ Len(q) \in Nat /\ \A i \in 1 .. Len(f) : f[i] \in Nat
    BY LenProperties, ElementOfSeq DEF AuthTypeOK
<1>2. MaxFailures \in Nat /\ MaxFailures > 0 /\ Lockout \in Nat /\ FailureWindow \in Nat
    BY OwnerAuthAssumption
<1>3. ASSUME NEW j \in 1 .. Len(f), LockedAt(k, j) PROVE LockedAt(k, j)'
    <2>1. Cardinality(Workers) \in Nat /\ Cardinality(Comparing(k)) \in Nat /\ IsFiniteSet(Comparing(k))
        BY ComparingIsFinite
    <2>2. ASSUME wall' < f[j] + Lockout
          PROVE  f[j] + Lockout <= locked'[k] /\ Len(f) - j + Cardinality(Comparing(k)') <= Cardinality(Workers) - 1
        <3>1. f[j] \in Nat /\ wall < f[j] + Lockout
            BY <2>2, <1>1, <1>2
        <3>2. f[j] + Lockout <= locked[k] /\ Len(f) - j + Cardinality(Comparing(k)) <= Cardinality(Workers) - 1
            BY <3>1, <1>3 DEF LockedAt
        <3>3. Comparing(k)' \subseteq Comparing(k)
            BY <3>1, <3>2, <1>1, <1>2
        <3>4. Cardinality(Comparing(k)') <= Cardinality(Comparing(k)) /\ Cardinality(Comparing(k)') \in Nat
            BY <3>3, <2>1, FS_Subset, FS_CardinalityType
        <3>5. PICK a, b, c \in Nat : a = Cardinality(Comparing(k)') /\ b = Cardinality(Comparing(k)) /\ c = Cardinality(Workers)
            BY <3>4, <2>1
        <3> QED
            BY <3>2, <3>4, <3>5, <1>1
    <2> QED
        BY <1>3, <2>2 DEF LockedAt
<1>4. \A i \in 1 .. Len(f) : f[i] <= wall' /\ (\A j \in i .. Len(f) : f[i] <= f[j])
    BY <1>1 DEF GuessInv
<1>5. \A i \in 1 .. Len(f) - Len(q) :
        f[Len(f)] - f[i] > FailureWindow \/ \E j \in i .. Len(f) - Len(q) : LockedAt(k, j)'
    BY <1>1, <1>3 DEF GuessInv
<1>6. \A i \in 1 .. Len(f) - MaxFailures + 1 :
        f[i + MaxFailures - 1] - f[i] > FailureWindow \/ \E j \in i .. i + MaxFailures - 1 : LockedAt(k, j)'
    <2> SUFFICES ASSUME NEW i \in 1 .. Len(f) - MaxFailures + 1,
                        ~(f[i + MaxFailures - 1] - f[i] > FailureWindow)
                 PROVE  \E j \in i .. i + MaxFailures - 1 : LockedAt(k, j)'
        OBVIOUS
    <2>1. PICK j \in i .. i + MaxFailures - 1 : LockedAt(k, j)
        BY DEF GuessInv
    <2>2. j \in 1 .. Len(f)
        <3>1. PICK n \in Nat, M \in Nat : n = Len(f) /\ M = MaxFailures /\ M > 0
            BY <1>1, <1>2
        <3>2. i \in 1 .. n - M + 1 /\ j \in i .. i + M - 1
            BY <3>1
        <3>3. j \in 1 .. n
            BY <3>1, <3>2
        <3> QED
            BY <3>1, <3>3
    <2> QED
        BY <2>1, <2>2, <1>3
<1> QED
    BY <1>4, <1>5, <1>6 DEF GuessInv

\* A right candidate, and a new key: nothing has failed.
LEMMA NothingFailed ==
    ASSUME NEW k \in GuessKeys, failures'[k] = <<>>, fails'[k] = <<>>
    PROVE  GuessInv(k)'
<1>1. MaxFailures \in Nat /\ MaxFailures > 0
    BY OwnerAuthAssumption
<1>2. Len(<<>>) = 0
    BY EmptySeq
<1> QED
    BY <1>1, <1>2 DEF GuessInv

\* A wrong candidate: its keys have one more failure, and are locked when there are too many recent ones.
LEMMA FailKeepsGuesses ==
    ASSUME AuthTypeOK, AuthTypeOK', NEW k \in GuessKeys, GuessInv(k),
           NEW w \in Workers, Fail(w), k \in KeysOf(w)
    PROVE  GuessInv(k)'
<1>1. /\ failures[k] \in Seq(Nat) /\ fails[k] \in Seq(Nat) /\ locked[k] \in Nat /\ wall \in Nat
      /\ Len(failures[k]) \in Nat /\ Len(fails[k]) \in Nat
      /\ failures'[k] \in Seq(Nat) /\ fails'[k] \in Seq(Nat) /\ locked'[k] \in Nat
      /\ RecentFails(k) \in Seq(Nat) /\ Len(RecentFails(k)) \in Nat
    BY LenProperties, RecentFailsAreTheEnd DEF AuthTypeOK
<1>2. MaxFailures \in Nat /\ MaxFailures > 0 /\ Lockout \in Nat /\ FailureWindow \in Nat
    BY OwnerAuthAssumption
<1>3. PICK n \in Nat, lq \in Nat, lr \in Nat, t \in Nat, l \in Nat, l2 \in Nat :
         /\ n = Len(failures[k]) /\ lq = Len(fails[k]) /\ lr = Len(RecentFails(k))
         /\ t = wall /\ l = locked[k] /\ l2 = locked'[k]
    BY <1>1
<1>4. PICK f \in [1 .. n -> Nat], q \in [1 .. lq -> Nat], r \in [1 .. lr -> Nat] :
         f = failures[k] /\ q = fails[k] /\ r = RecentFails(k)
    BY <1>1, <1>3, LenProperties
<1>5. /\ failures'[k] = Append(failures[k], wall) /\ wall' = t
      /\ l2 = IF TooMany(k) THEN t + Lockout ELSE l
      /\ fails'[k] = IF TooMany(k) THEN <<>> ELSE RecentFails(k)
    BY <1>3 DEF Fail
<1>6. PICK g \in [1 .. n + 1 -> Nat] :
         /\ g = failures'[k] /\ Len(failures'[k]) = n + 1
         /\ (\A i \in 1 .. n : g[i] = f[i]) /\ g[n + 1] = t
    <2>1. /\ Len(failures'[k]) = n + 1 /\ failures'[k][n + 1] = t
          /\ \A i \in 1 .. n : failures'[k][i] = f[i]
        BY <1>1, <1>3, <1>4, <1>5
    <2>2. failures'[k] \in [1 .. n + 1 -> Nat]
        BY <1>1, <2>1, LenProperties
    <2> QED
        BY <2>1, <2>2
<1>20. (\A i \in 1 .. n : g[i] = f[i]) /\ g[n + 1] = t
    BY <1>6
<1>21. l2 = t + Lockout \/ l2 = l
    BY <1>5
<1>7. /\ lr \in 1 .. lq + 1 /\ r[lr] = t
      /\ \A x \in 1 .. lr : lq + 1 - lr + x \in 1 .. lq => r[x] = q[lq + 1 - lr + x]
      /\ \A x \in 1 .. lq + 1 - lr : t - q[x] > FailureWindow
    <2>1. PICK a : a = Append(fails[k], wall)
        OBVIOUS
    <2>2. Len(a) = lq + 1 /\ a[lq + 1] = t /\ \A x \in 1 .. lq : a[x] = q[x]
        BY <2>1, <1>1, <1>3, <1>4
    <2>3. /\ lr \in 1 .. lq + 1 /\ \A x \in 1 .. lr : r[x] = a[lq + 1 - lr + x]
          /\ \A x \in 1 .. lq + 1 - lr : t - q[x] > FailureWindow
        <3>1. /\ \A x \in 1 .. Len(RecentFails(k)) : RecentFails(k)[x] = a[Len(a) - Len(RecentFails(k)) + x]
              /\ \A x \in 1 .. Len(fails[k]) + 1 - Len(RecentFails(k)) : wall - fails[k][x] > FailureWindow
              /\ Len(RecentFails(k)) \in 1 .. Len(fails[k]) + 1
            BY <2>1, <1>1, RecentFailsAreTheEnd
        <3>2. lr \in 1 .. lq + 1
            BY <3>1, <1>3
        <3>3. \A x \in 1 .. lr : r[x] = a[lq + 1 - lr + x]
            BY <3>1, <2>2, <1>3, <1>4
        <3>4. \A x \in 1 .. lq + 1 - lr : t - q[x] > FailureWindow
            BY <3>1, <1>3, <1>4
        <3> QED
            BY <3>2, <3>3, <3>4
    <2>4. lr \in 1 .. lr /\ lq + 1 - lr + lr = lq + 1
        BY <2>3
    <2> QED
        BY <2>2, <2>3, <2>4
<1>8. PICK c \in Nat, after \in Nat :
         /\ c = Cardinality(Comparing(k)') /\ Cardinality(Comparing(k)) = c + 1
         /\ after = Cardinality(Workers) - 1 /\ c <= after
    <2>1. w \in Comparing(k)
        BY DEF Fail, Comparing
    <2>2. Comparing(k)' = Comparing(k) \ {w}
        <3>1. visit' = [visit EXCEPT ![w] = NoVisit] /\ visit \in [Workers -> AuthVisits \cup {NoVisit}]
            BY DEF Fail, Done, AuthTypeOK
        <3>2. NoVisit.pc # "verify"
            BY DEF NoVisit
        <3>3. ASSUME NEW v \in Workers PROVE v \in Comparing(k)' <=> v \in Comparing(k) \ {w}
            <4>1. CASE v = w
                BY <3>1, <3>2, <4>1 DEF Comparing
            <4>2. CASE v # w
                BY <3>1, <4>2 DEF Comparing, KeysOf
            <4> QED
                BY <4>1, <4>2
        <3> QED
            BY <3>3 DEF Comparing
    <2>3. PICK x, b, d \in Nat :
            /\ x = Cardinality(Comparing(k)) /\ b = Cardinality(Comparing(k)') /\ d = Cardinality(Workers)
            /\ b = x - 1 /\ x <= d
        <3>1. /\ IsFiniteSet(Comparing(k)) /\ Cardinality(Comparing(k)) \in Nat
              /\ Cardinality(Workers) \in Nat /\ Cardinality(Comparing(k)) <= Cardinality(Workers)
            BY ComparingIsFinite
        <3>2. IsFiniteSet(Comparing(k)') /\ Cardinality(Comparing(k)') = Cardinality(Comparing(k)) - 1
            BY <2>1, <2>2, <3>1, FS_RemoveElement
        <3>3. Cardinality(Comparing(k)') \in Nat
            BY <3>2, FS_CardinalityType
        <3> QED
            BY <3>1, <3>2, <3>3
    <2> QED
        BY <2>3
<1>9. n - lq >= 0 /\ lq < MaxFailures
    BY <1>3 DEF GuessInv
<1>10. PICK gone \in Nat : gone = n - lq
    BY <1>9
<1>12. \A i \in 1 .. n : f[i] <= t /\ (\A j \in i .. n : f[i] <= f[j])
    BY <1>3, <1>4, <1>10 DEF GuessInv
<1>11. ASSUME NEW j \in 1 .. n, LockedAt(k, j) PROVE LockedAt(k, j)'
    <2>1. /\ \A m \in j + 1 .. n : f[m] < f[j] + Lockout => m - j <= after
          /\ t < f[j] + Lockout => f[j] + Lockout <= l /\ n - j + (c + 1) <= after
        BY <1>11, <1>3, <1>4, <1>8 DEF LockedAt
    <2>2. \A m \in j + 1 .. n + 1 : g[m] < g[j] + Lockout => m - j <= after
        <3> SUFFICES ASSUME NEW m \in j + 1 .. n + 1, g[m] < g[j] + Lockout PROVE m - j <= after
            OBVIOUS
        <3>1. CASE m = n + 1
            BY <3>1, <2>1, <1>2, <1>20, <1>8, SMTT(30)
        <3>2. CASE m # n + 1
            <4>1. m \in j + 1 .. n /\ m \in 1 .. n
                BY <3>2
            <4> QED
                BY <4>1, <2>1, <1>20
        <3> QED
            BY <3>1, <3>2
    <2>3. t < g[j] + Lockout => g[j] + Lockout <= l2 /\ n + 1 - j + c <= after
        BY <2>1, <1>2, <1>20, <1>21, <1>8, <1>12, SMTT(30)
    <2> QED
        BY <2>2, <2>3, <1>3, <1>5, <1>6, <1>8 DEF LockedAt
<1>13. \A i \in 1 .. n + 1 : g[i] <= t /\ (\A j \in i .. n + 1 : g[i] <= g[j])
    <2>1. ASSUME NEW i \in 1 .. n + 1 PROVE g[i] <= t
        <3>1. CASE i = n + 1
            BY <3>1, <1>20
        <3>2. CASE i # n + 1
            <4>1. i \in 1 .. n
                BY <3>2
            <4> QED
                BY <4>1, <1>20, <1>12
        <3> QED
            BY <3>1, <3>2
    <2>2. ASSUME NEW i \in 1 .. n + 1, NEW j \in i .. n + 1 PROVE g[i] <= g[j]
        <3>1. CASE j = n + 1
            BY <3>1, <2>1, <1>20
        <3>2. CASE j # n + 1
            <4>1. i \in 1 .. n /\ j \in i .. n /\ j \in 1 .. n
                BY <3>2
            <4> QED
                BY <4>1, <1>20, <1>12
        <3> QED
            BY <3>1, <3>2
    <2> QED
        BY <2>1, <2>2
<1>22. \A i \in 1 .. Len(failures'[k]) :
          failures'[k][i] <= wall' /\ (\A j \in i .. Len(failures'[k]) : failures'[k][i] <= failures'[k][j])
    BY <1>5, <1>6, <1>13
<1>14. \A x \in 1 .. lq : q[x] = f[gone + x]
    BY <1>3, <1>4, <1>10 DEF GuessInv
<1>15. \A i \in 1 .. gone : f[n] - f[i] > FailureWindow \/ \E j \in i .. gone : LockedAt(k, j)
    BY <1>3, <1>4, <1>10 DEF GuessInv
<1>16. \A i \in 1 .. n - MaxFailures + 1 :
          f[i + MaxFailures - 1] - f[i] > FailureWindow \/ \E j \in i .. i + MaxFailures - 1 : LockedAt(k, j)
    BY <1>3, <1>4, <1>10 DEF GuessInv
<1>17. ASSUME NEW i \in 1 .. n - MaxFailures + 1
       PROVE  g[i + MaxFailures - 1] - g[i] > FailureWindow \/ \E j \in i .. i + MaxFailures - 1 : LockedAt(k, j)'
    <2>1. i \in 1 .. n /\ i + MaxFailures - 1 \in 1 .. n
        BY <1>1, <1>2, SMTT(30)
    <2>2. CASE f[i + MaxFailures - 1] - f[i] > FailureWindow
        BY <2>1, <2>2, <1>6
    <2>3. CASE \E j \in i .. i + MaxFailures - 1 : LockedAt(k, j)
        <3>1. PICK j \in i .. i + MaxFailures - 1 : LockedAt(k, j)
            BY <2>3
        <3>2. j \in 1 .. n
            BY <2>1, <3>1, <1>2
        <3> QED
            BY <3>1, <3>2, <1>11
    <2> QED
        BY <2>2, <2>3, <1>16
<1>18. CASE TooMany(k)
    <2>1. LockedAt(k, n + 1)'
        <3>1. \A m \in n + 1 + 1 .. n + 1 : g[m] < g[n + 1] + Lockout => m - (n + 1) <= after
            OBVIOUS
        <3>2. g[n + 1] + Lockout <= l2 /\ n + 1 - (n + 1) + c <= after
            BY <1>18, <1>2, <1>5, <1>6, <1>8
        <3> QED
            BY <3>1, <3>2, <1>3, <1>5, <1>6, <1>8 DEF LockedAt
    <2>2. fails'[k] = <<>> /\ Len(fails'[k]) = 0
        BY <1>18, <1>5, EmptySeq
    <2>3. \A i \in 1 .. n + 1 : \E j \in i .. n + 1 : LockedAt(k, j)'
        BY <2>1
    <2>4. ASSUME NEW i \in 1 .. n + 1 - MaxFailures + 1
          PROVE  g[i + MaxFailures - 1] - g[i] > FailureWindow \/ \E j \in i .. i + MaxFailures - 1 : LockedAt(k, j)'
        <3>1. CASE i \in 1 .. n - MaxFailures + 1
            BY <3>1, <1>17
        <3>2. CASE i + MaxFailures - 1 = n + 1
            BY <3>2, <2>1, <1>2
        <3> QED
            BY <3>1, <3>2, <1>2
    <2>5. Len(failures'[k]) - Len(fails'[k]) = n + 1 /\ 0 < MaxFailures
        BY <2>2, <1>2, <1>6
    <2>6. \A x \in 1 .. Len(fails'[k]) : fails'[k][x] = g[n + 1 + x]
        BY <2>2
    <2>7. \A i \in 1 .. Len(failures'[k]) - Len(fails'[k]) :
              \/ failures'[k][Len(failures'[k])] - failures'[k][i] > FailureWindow
              \/ \E j \in i .. Len(failures'[k]) - Len(fails'[k]) : LockedAt(k, j)'
        BY <2>3, <2>5
    <2>8. \A i \in 1 .. Len(failures'[k]) - MaxFailures + 1 :
              \/ failures'[k][i + MaxFailures - 1] - failures'[k][i] > FailureWindow
              \/ \E j \in i .. i + MaxFailures - 1 : LockedAt(k, j)'
        <3>1. Len(failures'[k]) = n + 1
            BY <1>6
        <3>5. g = failures'[k]
            BY <1>6
        <3>2. \A i \in 1 .. n + 1 - MaxFailures + 1 :
                  \/ g[i + MaxFailures - 1] - g[i] > FailureWindow
                  \/ \E j \in i .. i + MaxFailures - 1 : LockedAt(k, j)'
            BY <2>4
        <3> SUFFICES ASSUME NEW i \in 1 .. Len(failures'[k]) - MaxFailures + 1
                     PROVE  \/ failures'[k][i + MaxFailures - 1] - failures'[k][i] > FailureWindow
                            \/ \E j \in i .. i + MaxFailures - 1 : LockedAt(k, j)'
            OBVIOUS
        <3>3. i \in 1 .. n + 1 - MaxFailures + 1
            BY <3>1, <1>2
        <3>4. \/ g[i + MaxFailures - 1] - g[i] > FailureWindow
              \/ \E j \in i .. i + MaxFailures - 1 : LockedAt(k, j)'
            BY <3>2, <3>3
        <3> QED
            BY <3>4, <3>5
    <2>9. \A x \in 1 .. Len(fails'[k]) :
              fails'[k][x] = failures'[k][Len(failures'[k]) - Len(fails'[k]) + x]
        BY <2>5, <2>6, <1>6
    <2>10. Len(failures'[k]) - Len(fails'[k]) >= 0 /\ Len(fails'[k]) < MaxFailures
        BY <2>2, <2>5
    <2> QED
        BY <2>7, <2>8, <2>9, <2>10, <1>22 DEF GuessInv
<1>19. CASE ~TooMany(k)
    <2>1. fails'[k] = RecentFails(k) /\ lr < MaxFailures
        BY <1>19, <1>2, <1>3, <1>5 DEF TooMany
    <2>2. n + 1 - lr \in Nat /\ n + 1 - lr >= gone /\ n + 1 - lr + 1 <= n + 1
        BY <1>7, <1>10
    <2>3. PICK gap \in Nat : gap = n + 1 - lr
        BY <2>2
    <2>4. ASSUME NEW x \in 1 .. lr PROVE r[x] = g[gap + x]
        <3>1. CASE x = lr
            <4>1. gap + x = n + 1
                BY <3>1, <2>3
            <4> QED
                BY <3>1, <4>1, <1>6, <1>7
        <3>2. CASE x # lr
            <4>1. lq + 1 - lr + x \in 1 .. lq
                BY <3>2, <1>7
            <4>2. r[x] = f[gone + (lq + 1 - lr + x)]
                BY <4>1, <1>7, <1>14
            <4>3. gone + (lq + 1 - lr + x) = gap + x /\ gap + x \in 1 .. n
                BY <3>2, <2>3, <1>7, <1>10
            <4> QED
                BY <4>2, <4>3, <1>6
        <3> QED
            BY <3>1, <3>2
    <2>5. ASSUME NEW i \in 1 .. gap
          PROVE  g[n + 1] - g[i] > FailureWindow \/ \E j \in i .. gap : LockedAt(k, j)'
        <3>1. i \in 1 .. n /\ g[i] = f[i] /\ g[n + 1] = t /\ f[i] \in Nat
            BY <2>2, <2>3, <1>6, SMTT(30)
        <3>2. CASE i <= gone
            <4>1. CASE f[n] - f[i] > FailureWindow
                <5>1. n \in 1 .. n /\ f[n] <= t /\ f[n] \in Nat
                    BY <3>1, <1>12
                <5> QED
                    BY <4>1, <5>1, <3>1, <1>2
            <4>2. CASE \E j \in i .. gone : LockedAt(k, j)
                <5>1. PICK j \in i .. gone : LockedAt(k, j)
                    BY <4>2
                <5>2. j \in 1 .. n /\ j \in i .. gap
                    BY <5>1, <2>2, <2>3, <1>10
                <5> QED
                    BY <5>1, <5>2, <1>11
            <4> QED
                BY <4>1, <4>2, <3>2, <1>15
        <3>3. CASE i > gone
            <4>1. i - gone \in 1 .. lq /\ i - gone \in 1 .. lq + 1 - lr /\ gone + (i - gone) = i
                BY <3>1, <3>3, <2>3, <1>7, <1>10
            <4>2. q[i - gone] = f[i] /\ t - q[i - gone] > FailureWindow
                BY <4>1, <1>7, <1>14
            <4> QED
                BY <3>1, <4>2
        <3> QED
            BY <3>2, <3>3
    <2>6. ASSUME NEW i \in 1 .. n + 1 - MaxFailures + 1
          PROVE  g[i + MaxFailures - 1] - g[i] > FailureWindow \/ \E j \in i .. i + MaxFailures - 1 : LockedAt(k, j)'
        <3>1. CASE i \in 1 .. n - MaxFailures + 1
            BY <3>1, <1>17
        <3>2. CASE i + MaxFailures - 1 = n + 1
            <4>1. i \in 1 .. gap /\ gap <= n + 1
                BY <3>2, <2>1, <2>2, <2>3, <1>2
            <4>2. CASE g[n + 1] - g[i] > FailureWindow
                BY <3>2, <4>2
            <4>3. CASE \E j \in i .. gap : LockedAt(k, j)'
                <5>1. PICK j \in i .. gap : LockedAt(k, j)'
                    BY <4>3
                <5>2. j \in i .. i + MaxFailures - 1
                    BY <3>2, <4>1, <5>1, <1>2
                <5> QED
                    BY <5>1, <5>2
            <4> QED
                BY <4>1, <4>2, <4>3, <2>5
        <3> QED
            BY <3>1, <3>2, <1>2
    <2>7. Len(failures'[k]) - Len(fails'[k]) = gap /\ gap >= 0 /\ Len(fails'[k]) = lr /\ fails'[k] = r
        BY <2>1, <2>3, <1>3, <1>4, <1>6
    <2>8. \A i \in 1 .. Len(failures'[k]) - Len(fails'[k]) :
              \/ failures'[k][Len(failures'[k])] - failures'[k][i] > FailureWindow
              \/ \E j \in i .. Len(failures'[k]) - Len(fails'[k]) : LockedAt(k, j)'
        BY <2>5, <2>7, <1>6
    <2>9. \A i \in 1 .. Len(failures'[k]) - MaxFailures + 1 :
              \/ failures'[k][i + MaxFailures - 1] - failures'[k][i] > FailureWindow
              \/ \E j \in i .. i + MaxFailures - 1 : LockedAt(k, j)'
        <3>1. Len(failures'[k]) = n + 1
            BY <1>6
        <3>5. g = failures'[k]
            BY <1>6
        <3>2. \A i \in 1 .. n + 1 - MaxFailures + 1 :
                  \/ g[i + MaxFailures - 1] - g[i] > FailureWindow
                  \/ \E j \in i .. i + MaxFailures - 1 : LockedAt(k, j)'
            BY <2>6
        <3> SUFFICES ASSUME NEW i \in 1 .. Len(failures'[k]) - MaxFailures + 1
                     PROVE  \/ failures'[k][i + MaxFailures - 1] - failures'[k][i] > FailureWindow
                            \/ \E j \in i .. i + MaxFailures - 1 : LockedAt(k, j)'
            OBVIOUS
        <3>3. i \in 1 .. n + 1 - MaxFailures + 1
            BY <3>1, <1>2
        <3>4. \/ g[i + MaxFailures - 1] - g[i] > FailureWindow
              \/ \E j \in i .. i + MaxFailures - 1 : LockedAt(k, j)'
            BY <3>2, <3>3
        <3> QED
            BY <3>4, <3>5
    <2>10. \A x \in 1 .. Len(fails'[k]) :
              fails'[k][x] = failures'[k][Len(failures'[k]) - Len(fails'[k]) + x]
        BY <2>4, <2>7, <1>6
    <2>11. Len(failures'[k]) - Len(fails'[k]) >= 0 /\ Len(fails'[k]) < MaxFailures
        BY <2>1, <2>7
    <2> QED
        BY <2>8, <2>9, <2>10, <2>11, <1>22 DEF GuessInv
<1> QED
    BY <1>18, <1>19

-----------------------------------------------------------------------------
\* A turn that is under way, what it carries, and the OwnerState it found.
LEMMA VisitUnderWay ==
    ASSUME AuthTypeOK, NEW w \in Workers, visit[w].pc # "idle"
    PROVE  /\ visit[w] \in AuthVisits /\ visit[w].o \in 1 .. Len(states) /\ visit[w].now <= wall
           /\ My(w) \in OwnerStates /\ heard[visit[w].o] \in Nat \X Nat
           /\ Len(states) \in Nat /\ DOMAIN visit = Workers
<1>1. visit[w] # NoVisit /\ visit[w] \in AuthVisits \cup {NoVisit}
    BY DEF AuthTypeOK, NoVisit
<1>2. visit[w] \in AuthVisits /\ visit[w].o \in 1 .. Len(states) /\ visit[w].now <= wall /\ DOMAIN visit = Workers
    BY <1>1 DEF AuthTypeOK
<1>3. states \in Seq(OwnerStates) /\ heard \in Seq(Nat \X Nat) /\ Len(heard) = Len(states)
    BY DEF AuthTypeOK
<1>4. My(w) \in OwnerStates
    BY <1>2, <1>3, ElementOfSeq DEF My
<1>5. heard[visit[w].o] \in Nat \X Nat
    BY <1>2, <1>3, ElementOfSeq
<1> QED
    BY <1>2, <1>3, <1>4, <1>5, LenProperties

\* A turn goes on, with a new stage and maybe another OwnerState or reading of the clock.
LEMMA VisitGoesOn ==
    ASSUME AuthTypeOK, NEW w \in Workers, NEW v \in AuthVisits \cup {NoVisit}, visit' = [visit EXCEPT ![w] = v],
           wall <= wall', wall' \in Nat, Len(states) <= Len(states)', Len(states)' \in Nat,
           v # NoVisit => v.o \in 1 .. Len(states)' /\ v.now <= wall'
    PROVE  /\ visit' \in [Workers -> AuthVisits \cup {NoVisit}] /\ visit'[w] = v
           /\ \A x \in Workers : visit'[x] # NoVisit => visit'[x].o \in 1 .. Len(states)' /\ visit'[x].now <= wall'
           /\ \A x \in Workers : x # w => visit'[x] = visit[x]
<1>1. visit \in [Workers -> AuthVisits \cup {NoVisit}] /\ Len(states) \in Nat /\ wall \in Nat
    BY LenProperties DEF AuthTypeOK
<1>2. /\ visit' \in [Workers -> AuthVisits \cup {NoVisit}] /\ visit'[w] = v
      /\ \A x \in Workers : x # w => visit'[x] = visit[x]
    BY <1>1
<1>3. ASSUME NEW x \in Workers, visit'[x] # NoVisit PROVE visit'[x].o \in 1 .. Len(states)' /\ visit'[x].now <= wall'
    <2>1. CASE x = w
        BY <2>1, <1>2, <1>3
    <2>2. CASE x # w
        <3>1. visit[x] # NoVisit /\ visit'[x] = visit[x]
            BY <2>2, <1>2, <1>3
        <3>2. visit[x].o \in 1 .. Len(states) /\ visit[x].now <= wall /\ visit[x] \in AuthVisits
            BY <3>1, <1>1 DEF AuthTypeOK
        <3>3. visit[x].o \in Nat /\ visit[x].now \in Nat
            BY <3>2 DEF AuthVisits
        <3> QED
            BY <3>1, <3>2, <3>3, <1>1
    <2> QED
        BY <2>1, <2>2
<1> QED
    BY <1>2, <1>3

\* An OwnerState changes, or a new one is made with its history.
LEMMA StateChanges ==
    ASSUME AuthTypeOK, NEW o \in 1 .. Len(states), NEW s \in OwnerStates, states' = [states EXCEPT ![o] = s]
    PROVE  /\ states' \in Seq(OwnerStates) /\ Len(states)' = Len(states)
           /\ \A i \in 1 .. Len(states) : states'[i] = IF i = o THEN s ELSE states[i]
<1>1. states \in Seq(OwnerStates)
    BY DEF AuthTypeOK
<1> QED
    BY <1>1, ExceptSeq
LEMMA HistoryChanges ==
    ASSUME AuthTypeOK, NEW o \in 1 .. Len(states), NEW h \in Nat \X Nat, heard' = [heard EXCEPT ![o] = h]
    PROVE  /\ heard' \in Seq(Nat \X Nat) /\ Len(heard') = Len(states)
           /\ \A i \in 1 .. Len(states) : heard'[i] = IF i = o THEN h ELSE heard[i]
<1>1. heard \in Seq(Nat \X Nat) /\ Len(heard) = Len(states)
    BY DEF AuthTypeOK
<1> QED
    BY <1>1, ExceptSeq
LEMMA StateAdded ==
    ASSUME AuthTypeOK, NewState
    PROVE  /\ states' \in Seq(OwnerStates) /\ heard' \in Seq(Nat \X Nat)
           /\ Len(states) \in Nat /\ Len(states)' = Len(states) + 1 /\ Len(heard') = Len(states) + 1
           /\ \A i \in 1 .. Len(states) : states'[i] = states[i] /\ heard'[i] = heard[i]
           /\ states'[Len(states) + 1] = LoggedOut
<1>1. /\ states \in Seq(OwnerStates) /\ heard \in Seq(Nat \X Nat) /\ Len(heard) = Len(states)
      /\ Len(states) \in Nat
    BY LenProperties DEF AuthTypeOK
<1>2. LoggedOut \in OwnerStates /\ <<0, 0>> \in Nat \X Nat
    BY DEF LoggedOut, OwnerStates
<1>3. states' = Append(states, LoggedOut) /\ heard' = Append(heard, <<0, 0>>)
    BY DEF NewState
<1>4. /\ states' \in Seq(OwnerStates) /\ Len(states') = Len(states) + 1 /\ states'[Len(states) + 1] = LoggedOut
      /\ \A i \in 1 .. Len(states) : states'[i] = states[i]
    BY <1>1, <1>2, <1>3
<1>5. /\ heard' \in Seq(Nat \X Nat) /\ Len(heard') = Len(heard) + 1
      /\ \A i \in 1 .. Len(heard) : heard'[i] = heard[i]
    BY <1>1, <1>2, <1>3
<1> QED
    BY <1>1, <1>4, <1>5

\* Nobody logs in or out, and no turn comes to its dispatch.
LEMMA SameSessions ==
    ASSUME AuthTypeOK, SessionInv, Len(states)' = Len(states), heard' = heard,
           \A o \in 1 .. Len(states) :
               states'[o].auth = states[o].auth /\ states'[o].at = states[o].at /\ states'[o].last = states[o].last,
           \A v \in Workers : visit'[v] = visit[v] \/ visit'[v].pc # "dispatch"
    PROVE  SessionInv'
<1>1. SessionTold'
    BY DEF SessionInv, SessionTold
<1>2. ASSUME NEW v \in Workers, visit'[v].pc = "dispatch", My(v)'.auth
      PROVE  LET told == heard'[visit'[v].o] IN visit'[v].now <= told[1] + MaxSession /\ visit'[v].now <= told[2] + IdleLimit
    <2>1. visit'[v] = visit[v] /\ visit[v].pc = "dispatch"
        BY <1>2
    <2>2. visit[v].o \in 1 .. Len(states)
        BY <2>1, VisitUnderWay
    <2>3. My(v).auth
        BY <2>1, <2>2, <1>2 DEF My
    <2> QED
        BY <2>1, <2>3 DEF SessionInv, InTime
<1> QED
    BY <1>1, <1>2 DEF SessionInv, InTime

\* A new OwnerState is logged out, and the old ones are as they were.
LEMMA MoreSessions ==
    ASSUME AuthTypeOK, SessionInv, NewState,
           \A v \in Workers : \/ visit'[v] = visit[v]
                              \/ visit'[v].pc # "dispatch"
                              \/ visit'[v].o = Len(states) + 1
    PROVE  SessionInv'
<1>1. /\ Len(states) \in Nat /\ Len(states)' = Len(states) + 1
      /\ \A i \in 1 .. Len(states) : states'[i] = states[i] /\ heard'[i] = heard[i]
      /\ ~states'[Len(states) + 1].auth
    BY StateAdded DEF LoggedOut
<1>2. ASSUME NEW o \in 1 .. Len(states)', states'[o].auth
      PROVE  heard'[o][1] = states'[o].at /\ states'[o].last <= heard'[o][2]
    <2>1. o \in 1 .. Len(states)
        BY <1>1, <1>2
    <2> QED
        BY <2>1, <1>1, <1>2 DEF SessionInv, SessionTold
<1>3. ASSUME NEW v \in Workers, visit'[v].pc = "dispatch", My(v)'.auth
      PROVE  LET told == heard'[visit'[v].o] IN visit'[v].now <= told[1] + MaxSession /\ visit'[v].now <= told[2] + IdleLimit
    <2>1. visit'[v] = visit[v] /\ visit[v].pc = "dispatch"
        BY <1>1, <1>3 DEF My
    <2>2. visit[v].o \in 1 .. Len(states)
        BY <2>1, VisitUnderWay
    <2>3. My(v).auth /\ heard'[visit[v].o] = heard[visit[v].o]
        BY <2>1, <2>2, <1>1, <1>3 DEF My
    <2> QED
        BY <2>1, <2>3 DEF SessionInv, InTime
<1> QED
    BY <1>2, <1>3 DEF SessionInv, SessionTold, InTime

\* A step in which no candidate is compared, and none is let through to the comparison, keeps every key's guesses.
LEMMA NoGuess ==
    ASSUME AuthInv, AuthTypeOK', fails' = fails, locked' = locked, failures' = failures, wall <= wall',
           \A v \in Workers : visit'[v] = visit[v] \/ visit'[v].pc # "verify"
    PROVE  \A k \in GuessKeys : GuessInv(k)'
<1> SUFFICES ASSUME NEW k \in GuessKeys PROVE GuessInv(k)'
    OBVIOUS
<1>1. Comparing(k)' \subseteq Comparing(k)
    BY DEF Comparing, KeysOf
<1> QED
    BY <1>1, QuietKeepsGuesses DEF AuthInv

LEMMA ArriveKeepsInv == ASSUME AuthInv, NEW w \in Workers, Arrive(w) PROVE AuthInv'
<1>1. /\ AuthTypeOK /\ SessionInv /\ Len(states) \in Nat /\ wall \in Nat
      /\ states \in Seq(OwnerStates) /\ heard \in Seq(Nat \X Nat) /\ Len(heard) = Len(states)
    BY LenProperties DEF AuthInv, AuthTypeOK
<1>2. PICK c \in Talks, a \in Addresses :
        /\ \/ ownerOf[c] = 0 /\ NewState /\ ownerOf' = [ownerOf EXCEPT ![c] = Len(states) + 1]
           \/ ownerOf[c] # 0 /\ UNCHANGED <<states, ownerOf, heard>>
        /\ visit' = [visit EXCEPT ![w] = [pc |-> "arrived", talk |-> c, address |-> a, o |-> ownerOf'[c], now |-> wall]]
    BY DEF Arrive
<1>3. UNCHANGED <<fails, locked, wall, failures>>
    BY DEF Arrive
<1>4. /\ Len(states)' \in Nat /\ Len(states) <= Len(states)' /\ Len(heard)' = Len(states)'
      /\ states' \in Seq(OwnerStates) /\ heard' \in Seq(Nat \X Nat)
      /\ ownerOf' \in [Talks -> Nat] /\ (\A x \in Talks : ownerOf'[x] <= Len(states)')
      /\ ownerOf'[c] \in 1 .. Len(states)'
    <2>1. ownerOf \in [Talks -> Nat] /\ \A x \in Talks : ownerOf[x] <= Len(states)
        BY <1>1 DEF AuthTypeOK
    <2>2. CASE ownerOf[c] = 0 /\ NewState /\ ownerOf' = [ownerOf EXCEPT ![c] = Len(states) + 1]
        <3>1. /\ states' \in Seq(OwnerStates) /\ heard' \in Seq(Nat \X Nat)
              /\ Len(states)' = Len(states) + 1 /\ Len(heard)' = Len(states) + 1
            BY <2>2, <1>1, StateAdded
        <3>2. ownerOf' \in [Talks -> Nat] /\ ownerOf'[c] = Len(states) + 1
              /\ \A x \in Talks : ownerOf'[x] <= Len(states) + 1
            BY <2>1, <2>2, <1>1
        <3> QED
            BY <3>1, <3>2, <1>1
    <2>3. CASE ownerOf[c] # 0 /\ UNCHANGED <<states, ownerOf, heard>>
        BY <2>1, <2>3, <1>1
    <2> QED
        BY <2>2, <2>3, <1>2
<1>5. PICK v \in AuthVisits : v = [pc |-> "arrived", talk |-> c, address |-> a, o |-> ownerOf'[c], now |-> wall]
    BY <1>1, <1>4 DEF AuthVisits
<1>6. /\ visit' \in [Workers -> AuthVisits \cup {NoVisit}] /\ visit'[w] = v
      /\ \A x \in Workers : visit'[x] # NoVisit => visit'[x].o \in 1 .. Len(states)' /\ visit'[x].now <= wall'
      /\ \A x \in Workers : x # w => visit'[x] = visit[x]
    <2>1. v.o \in 1 .. Len(states)' /\ v.now <= wall' /\ visit' = [visit EXCEPT ![w] = v] /\ wall' = wall
        BY <1>1, <1>2, <1>3, <1>4, <1>5
    <2>2. v \in AuthVisits \cup {NoVisit} /\ wall <= wall' /\ wall' \in Nat
        BY <2>1, <1>1
    <2> QED
        BY <2>1, <2>2, <1>1, <1>4, VisitGoesOn
<1>7. AuthTypeOK'
    BY <1>1, <1>3, <1>4, <1>6 DEF AuthTypeOK
<1>8. \A x \in Workers : visit'[x] = visit[x] \/ visit'[x].pc \notin {"dispatch", "verify"}
    BY <1>5, <1>6
<1>9. SessionInv'
    <2>1. CASE NewState
        BY <2>1, <1>1, <1>8, MoreSessions
    <2>2. CASE UNCHANGED <<states, heard>>
        BY <2>2, <1>1, <1>8, SameSessions
    <2> QED
        BY <2>1, <2>2, <1>2
<1>10. \A k \in GuessKeys : GuessInv(k)'
    BY <1>1, <1>3, <1>7, <1>8, NoGuess
<1> QED
    BY <1>7, <1>9, <1>10 DEF AuthInv

LEMMA LookAtSessionKeepsInv == ASSUME AuthInv, NEW w \in Workers, LookAtSession(w) PROVE AuthInv'
<1>1. /\ AuthTypeOK /\ SessionInv /\ Len(states) \in Nat /\ wall \in Nat
      /\ states \in Seq(OwnerStates) /\ heard \in Seq(Nat \X Nat) /\ Len(heard) = Len(states)
      /\ ownerOf \in [Talks -> Nat] /\ \A x \in Talks : ownerOf[x] <= Len(states)
    BY LenProperties DEF AuthInv, AuthTypeOK
<1>2. /\ visit[w].pc = "arrived" /\ UNCHANGED <<fails, locked, wall, failures>>
      /\ visit[w] \in AuthVisits /\ visit[w].o \in 1 .. Len(states) /\ visit[w].now <= wall /\ DOMAIN visit = Workers
      /\ My(w) \in OwnerStates /\ heard[visit[w].o] \in Nat \X Nat
    BY <1>1, VisitUnderWay DEF LookAtSession
<1>3. CASE Expired(My(w), visit[w].now)
    <2>1. /\ NewState /\ ownerOf' = [ownerOf EXCEPT ![visit[w].talk] = Len(states) + 1]
          /\ visit' = [visit EXCEPT ![w].pc = "dispatch", ![w].o = Len(states) + 1]
        BY <1>3 DEF LookAtSession
    <2>2. PICK v : v = [visit[w] EXCEPT !.pc = "dispatch", !.o = Len(states) + 1]
        OBVIOUS
    <2>3. v \in AuthVisits /\ v.o = Len(states) + 1 /\ v.now = visit[w].now /\ v.pc = "dispatch"
        <3>1. PICK m \in Nat : m = Len(states) + 1
            BY <1>1
        <3>2. v = [visit[w] EXCEPT !.pc = "dispatch", !.o = m]
            BY <2>2, <3>1
        <3>3. v \in AuthVisits /\ v.o = m /\ v.now = visit[w].now /\ v.pc = "dispatch"
            BY <3>2, <1>2 DEF AuthVisits
        <3> QED
            BY <3>1, <3>3
    <2>4. visit' = [visit EXCEPT ![w] = v]
        BY <2>1, <2>2, <1>1 DEF AuthTypeOK
    <2>5. /\ states' \in Seq(OwnerStates) /\ heard' \in Seq(Nat \X Nat)
          /\ Len(states)' = Len(states) + 1 /\ Len(heard)' = Len(states) + 1
        BY <2>1, <1>1, StateAdded
    <2>6. v.o \in 1 .. Len(states)' /\ v.now <= wall' /\ wall' = wall /\ Len(states)' \in Nat
          /\ Len(states) <= Len(states)' /\ wall <= wall' /\ wall' \in Nat /\ v \in AuthVisits \cup {NoVisit}
        <3>1. PICK m \in Nat : m = Len(states) /\ Len(states)' = m + 1
            BY <2>5, <1>1
        <3>2. v.o \in 1 .. m + 1 /\ m + 1 \in Nat /\ m <= m + 1
            BY <2>3, <3>1
        <3>3. v.now <= wall' /\ wall' = wall /\ wall <= wall' /\ wall' \in Nat /\ v \in AuthVisits \cup {NoVisit}
            BY <2>3, <1>1, <1>2
        <3> QED
            BY <3>1, <3>2, <3>3
    <2>7. /\ visit' \in [Workers -> AuthVisits \cup {NoVisit}] /\ visit'[w] = v
          /\ \A x \in Workers : visit'[x] # NoVisit => visit'[x].o \in 1 .. Len(states)' /\ visit'[x].now <= wall'
          /\ \A x \in Workers : x # w => visit'[x] = visit[x]
        BY <2>4, <2>6, <1>1, VisitGoesOn
    <2>8. ownerOf' \in [Talks -> Nat] /\ \A x \in Talks : ownerOf'[x] <= Len(states)'
        <3>1. PICK m \in Nat : m = Len(states) + 1 /\ m = Len(states)'
            BY <2>5, <1>1
        <3>2. ownerOf' = [ownerOf EXCEPT ![visit[w].talk] = m] /\ \A x \in Talks : ownerOf[x] \in Nat /\ ownerOf[x] <= m
            BY <2>1, <3>1, <1>1
        <3>3. ownerOf' \in [Talks -> Nat] /\ \A x \in Talks : ownerOf'[x] <= m
            <4>1. PICK old \in [Talks -> Nat] : old = ownerOf
                BY <1>1
            <4>2. PICK c : c = visit[w].talk
                OBVIOUS
            <4>3. ownerOf' = [old EXCEPT ![c] = m] /\ \A x \in Talks : old[x] <= m
                BY <3>2, <4>1, <4>2
            <4>4. ownerOf' \in [Talks -> Nat]
                BY <4>3
            <4>5. ASSUME NEW x \in Talks PROVE ownerOf'[x] <= m
                BY <4>3
            <4> QED
                BY <4>4, <4>5
        <3> QED
            BY <3>1, <3>3
    <2>9. AuthTypeOK'
        BY <2>5, <2>7, <2>8, <1>1, <1>2 DEF AuthTypeOK
    <2>10. \A x \in Workers : visit'[x] = visit[x] \/ visit'[x].o = Len(states) + 1
        BY <2>3, <2>7
    <2>11. SessionInv'
        BY <2>1, <2>10, <1>1, MoreSessions
    <2>12. \A x \in Workers : visit'[x] = visit[x] \/ visit'[x].pc # "verify"
        BY <2>3, <2>7
    <2>13. \A k \in GuessKeys : GuessInv(k)'
        BY <2>9, <2>12, <1>1, <1>2, NoGuess
    <2> QED
        BY <2>9, <2>11, <2>13 DEF AuthInv
<1>4. CASE ~Expired(My(w), visit[w].now)
    <2>1. UNCHANGED <<states, ownerOf, heard>> /\ visit' = [visit EXCEPT ![w].pc = "dispatch"]
        BY <1>4 DEF LookAtSession
    <2>2. PICK v : v = [visit[w] EXCEPT !.pc = "dispatch"]
        OBVIOUS
    <2>3. v \in AuthVisits /\ v.o = visit[w].o /\ v.now = visit[w].now /\ v.pc = "dispatch"
        BY <2>2, <1>1, <1>2 DEF AuthVisits
    <2>4. visit' = [visit EXCEPT ![w] = v]
        BY <2>1, <2>2
    <2>5. v.o \in 1 .. Len(states)' /\ v.now <= wall' /\ wall' = wall /\ Len(states)' = Len(states)
          /\ Len(states) <= Len(states)' /\ Len(states)' \in Nat /\ wall <= wall' /\ wall' \in Nat
          /\ v \in AuthVisits \cup {NoVisit}
        BY <2>1, <2>3, <1>1, <1>2
    <2>6. /\ visit' \in [Workers -> AuthVisits \cup {NoVisit}] /\ visit'[w] = v
          /\ \A x \in Workers : visit'[x] # NoVisit => visit'[x].o \in 1 .. Len(states)' /\ visit'[x].now <= wall'
          /\ \A x \in Workers : x # w => visit'[x] = visit[x]
        BY <2>4, <2>5, <1>1, VisitGoesOn
    <2>7. AuthTypeOK'
        BY <2>1, <2>6, <1>1, <1>2 DEF AuthTypeOK
    <2>8. SessionTold'
        BY <2>1, <1>1 DEF SessionInv, SessionTold
    <2>9. ASSUME My(w).auth
          PROVE  /\ visit[w].now <= heard[visit[w].o][1] + MaxSession
                 /\ visit[w].now <= heard[visit[w].o][2] + IdleLimit
        <3>1. ~(visit[w].now > ExpiresAt(My(w)))
            BY <2>9, <1>4 DEF Expired
        <3>2. My(w).last \in Nat /\ My(w).at \in Nat /\ visit[w].now \in Nat /\ IdleLimit \in Nat /\ MaxSession \in Nat
            BY <1>2, OwnerAuthAssumption DEF OwnerStates, AuthVisits
        <3>3. visit[w].now <= My(w).last + IdleLimit /\ visit[w].now <= My(w).at + MaxSession
            BY <3>1, <3>2 DEF ExpiresAt
        <3>4. heard[visit[w].o][1] = My(w).at /\ My(w).last <= heard[visit[w].o][2] /\ heard[visit[w].o][2] \in Nat
            BY <2>9, <1>1, <1>2 DEF SessionInv, SessionTold, My
        <3> QED
            BY <3>2, <3>3, <3>4
    <2>10. ASSUME NEW x \in Workers PROVE InTime(x)'
        <3>1. CASE x = w
            BY <3>1, <2>1, <2>3, <2>6, <2>9 DEF InTime, My
        <3>2. CASE x # w
            <4>1. visit'[x] = visit[x]
                BY <3>2, <2>6
            <4> QED
                BY <4>1, <2>1, <1>1 DEF SessionInv, InTime, My
        <3> QED
            BY <3>1, <3>2
    <2>11. \A x \in Workers : visit'[x] = visit[x] \/ visit'[x].pc # "verify"
        BY <2>3, <2>6
    <2>12. \A k \in GuessKeys : GuessInv(k)'
        BY <2>7, <2>11, <1>1, <1>2, NoGuess
    <2> QED
        BY <2>7, <2>8, <2>10, <2>12 DEF AuthInv, SessionInv
<1> QED
    BY <1>3, <1>4

\* A turn at its dispatch that changes no more of its OwnerState than whether the secret is awaited.
LEMMA AwaitingKeepsInv ==
    ASSUME AuthInv, NEW w \in Workers, visit[w].pc = "dispatch",
           NEW b \in BOOLEAN, MySet(w, [My(w) EXCEPT !.awaiting = b]),
           NEW v \in AuthVisits \cup {NoVisit}, visit' = [visit EXCEPT ![w] = v], v.pc \notin {"dispatch", "verify"},
           v # NoVisit => v.o = visit[w].o /\ v.now <= wall,
           UNCHANGED <<ownerOf, fails, locked, wall, heard, failures>>
    PROVE  AuthInv'
<1>1. /\ AuthTypeOK /\ SessionInv /\ Len(states) \in Nat /\ wall \in Nat
      /\ heard \in Seq(Nat \X Nat) /\ Len(heard) = Len(states)
    BY LenProperties DEF AuthInv, AuthTypeOK
<1>2. visit[w] \in AuthVisits /\ visit[w].o \in 1 .. Len(states) /\ My(w) \in OwnerStates
    BY <1>1, VisitUnderWay
<1>3. PICK s : s = [My(w) EXCEPT !.awaiting = b]
    OBVIOUS
<1>4. s \in OwnerStates /\ s.auth = My(w).auth /\ s.at = My(w).at /\ s.last = My(w).last
    BY <1>2, <1>3 DEF OwnerStates
<1>5. states' = [states EXCEPT ![visit[w].o] = s]
    BY <1>3 DEF MySet
<1>6. /\ states' \in Seq(OwnerStates) /\ Len(states)' = Len(states)
      /\ \A i \in 1 .. Len(states) : states'[i] = IF i = visit[w].o THEN s ELSE states[i]
    BY <1>1, <1>2, <1>4, <1>5, StateChanges
<1>7. /\ visit' \in [Workers -> AuthVisits \cup {NoVisit}] /\ visit'[w] = v
      /\ \A x \in Workers : visit'[x] # NoVisit => visit'[x].o \in 1 .. Len(states)' /\ visit'[x].now <= wall'
      /\ \A x \in Workers : x # w => visit'[x] = visit[x]
    <2>1. Len(states) <= Len(states)' /\ Len(states)' \in Nat /\ wall <= wall' /\ wall' \in Nat
        BY <1>1, <1>6
    <2>2. v # NoVisit => v.o \in 1 .. Len(states)' /\ v.now <= wall'
        BY <1>2, <1>6
    <2> QED
        BY <2>1, <2>2, <1>1, VisitGoesOn
<1>8. AuthTypeOK'
    BY <1>1, <1>6, <1>7 DEF AuthTypeOK
<1>9. \A o \in 1 .. Len(states) :
        states'[o].auth = states[o].auth /\ states'[o].at = states[o].at /\ states'[o].last = states[o].last
    BY <1>4, <1>6 DEF My
<1>10. \A x \in Workers : visit'[x] = visit[x] \/ visit'[x].pc \notin {"dispatch", "verify"}
    BY <1>7
<1>11. SessionInv'
    BY <1>1, <1>6, <1>9, <1>10, SameSessions
<1>12. \A k \in GuessKeys : GuessInv(k)'
    BY <1>1, <1>8, <1>10, NoGuess
<1> QED
    BY <1>8, <1>11, <1>12 DEF AuthInv

LEMMA TakeCandidateKeepsInv == ASSUME AuthInv, NEW w \in Workers, TakeCandidate(w) PROVE AuthInv'
<1>1. AuthTypeOK /\ wall \in Nat
    BY DEF AuthInv, AuthTypeOK
<1>2. visit[w].pc = "dispatch" /\ visit[w] \in AuthVisits
    BY <1>1, VisitUnderWay DEF TakeCandidate
<1>3. PICK v : v = [visit[w] EXCEPT !.pc = "locked?", !.now = 0]
    OBVIOUS
<1>4. v \in AuthVisits \cup {NoVisit} /\ v.pc \notin {"dispatch", "verify"} /\ v.o = visit[w].o /\ v.now <= wall
    <2>1. v \in AuthVisits /\ v.pc = "locked?" /\ v.o = visit[w].o /\ v.now = 0
        BY <1>2, <1>3 DEF AuthVisits
    <2> QED
        BY <2>1, <1>1
<1>5. /\ visit' = [visit EXCEPT ![w] = v] /\ MySet(w, [My(w) EXCEPT !.awaiting = FALSE])
      /\ UNCHANGED <<ownerOf, fails, locked, wall, heard, failures>>
    BY <1>1, <1>3 DEF TakeCandidate, AuthTypeOK
<1> QED
    BY <1>2, <1>4, <1>5, AwaitingKeepsInv

LEMMA EndedTurn == NoVisit \in AuthVisits \cup {NoVisit} /\ NoVisit.pc \notin {"dispatch", "verify"}
    BY DEF NoVisit

LEMMA CancelSecretKeepsInv == ASSUME AuthInv, NEW w \in Workers, CancelSecret(w) PROVE AuthInv'
<1>1. /\ visit[w].pc = "dispatch" /\ visit' = [visit EXCEPT ![w] = NoVisit]
      /\ MySet(w, [My(w) EXCEPT !.awaiting = FALSE])
      /\ UNCHANGED <<ownerOf, fails, locked, wall, heard, failures>>
    BY DEF CancelSecret, Done
<1> QED
    BY <1>1, EndedTurn, AwaitingKeepsInv

LEMMA OtherTurnKeepsInv == ASSUME AuthInv, NEW w \in Workers, OtherTurn(w) PROVE AuthInv'
<1>1. PICK asks \in BOOLEAN :
        /\ visit[w].pc = "dispatch" /\ visit' = [visit EXCEPT ![w] = NoVisit]
        /\ MySet(w, [My(w) EXCEPT !.awaiting = asks])
        /\ UNCHANGED <<ownerOf, fails, locked, wall, heard, failures>>
    BY DEF OtherTurn, Done
<1> QED
    BY <1>1, EndedTurn, AwaitingKeepsInv

\* A turn that logs in, is served or logs out: its OwnerState and the history of it change together.
LEMMA SessionKeepsInv ==
    ASSUME AuthInv, NEW w \in Workers, visit[w].pc \in {"dispatch", "verify"}, Done(w),
           NEW s \in OwnerStates, MySet(w, s),
           NEW h \in Nat \X Nat, heard' = [heard EXCEPT ![visit[w].o] = h],
           s.auth => s.at = h[1] /\ s.last <= h[2],
           \A x \in Workers : x # w /\ visit[x].pc = "dispatch" /\ visit[x].o = visit[w].o /\ s.auth
                => visit[x].now <= h[1] + MaxSession /\ visit[x].now <= h[2] + IdleLimit,
           UNCHANGED <<ownerOf, wall>>,
           fails' \in [GuessKeys -> Seq(Nat)], failures' \in [GuessKeys -> Seq(Nat)], UNCHANGED locked
    PROVE  AuthTypeOK' /\ SessionInv'
<1>1. /\ AuthTypeOK /\ SessionInv /\ Len(states) \in Nat /\ wall \in Nat
    BY LenProperties DEF AuthInv, AuthTypeOK
<1>2. visit[w] \in AuthVisits /\ visit[w].o \in 1 .. Len(states) /\ My(w) \in OwnerStates
    BY <1>1, VisitUnderWay
<1>3. /\ states' \in Seq(OwnerStates) /\ Len(states)' = Len(states)
      /\ \A i \in 1 .. Len(states) : states'[i] = IF i = visit[w].o THEN s ELSE states[i]
    BY <1>1, <1>2, StateChanges DEF MySet
<1>4. /\ heard' \in Seq(Nat \X Nat) /\ Len(heard)' = Len(states)
      /\ \A i \in 1 .. Len(states) : heard'[i] = IF i = visit[w].o THEN h ELSE heard[i]
    BY <1>1, <1>2, HistoryChanges
<1>5. /\ visit' \in [Workers -> AuthVisits \cup {NoVisit}] /\ visit'[w] = NoVisit
      /\ \A x \in Workers : visit'[x] # NoVisit => visit'[x].o \in 1 .. Len(states)' /\ visit'[x].now <= wall'
      /\ \A x \in Workers : x # w => visit'[x] = visit[x]
    <2>1. Len(states) <= Len(states)' /\ Len(states)' \in Nat /\ wall <= wall' /\ wall' \in Nat
        BY <1>1, <1>3
    <2> QED
        BY <2>1, <1>1, EndedTurn, VisitGoesOn DEF Done
<1>6. AuthTypeOK'
    BY <1>1, <1>3, <1>4, <1>5 DEF AuthTypeOK
<1>7. SessionTold'
    <2>1. ASSUME NEW o \in 1 .. Len(states), states'[o].auth
          PROVE  heard'[o][1] = states'[o].at /\ states'[o].last <= heard'[o][2]
        <3>1. CASE o = visit[w].o
            <4>1. states'[o] = s /\ heard'[o] = h
                BY <3>1, <1>3, <1>4
            <4> QED
                BY <4>1, <2>1
        <3>2. CASE o # visit[w].o
            <4>1. states'[o] = states[o] /\ heard'[o] = heard[o]
                BY <3>2, <1>3, <1>4
            <4> QED
                BY <4>1, <2>1, <1>1 DEF SessionInv, SessionTold
        <3> QED
            BY <3>1, <3>2
    <2> QED
        BY <2>1, <1>3 DEF SessionTold
<1>8. ASSUME NEW x \in Workers, visit'[x].pc = "dispatch", My(x)'.auth
      PROVE  LET told == heard'[visit'[x].o] IN visit'[x].now <= told[1] + MaxSession /\ visit'[x].now <= told[2] + IdleLimit
    <2>1. x # w /\ visit'[x] = visit[x]
        BY <1>5, <1>8, EndedTurn
    <2>2. visit[x].pc = "dispatch" /\ visit[x].o \in 1 .. Len(states)
        BY <2>1, <1>1, <1>8, VisitUnderWay
    <2>3. CASE visit[x].o = visit[w].o
        <3>1. s.auth /\ heard'[visit'[x].o] = h
            BY <2>1, <2>2, <2>3, <1>3, <1>4, <1>8 DEF My
        <3> QED
            BY <3>1, <2>1, <2>2, <2>3
    <2>4. CASE visit[x].o # visit[w].o
        <3>1. My(x).auth /\ heard'[visit'[x].o] = heard[visit[x].o]
            BY <2>1, <2>2, <2>4, <1>3, <1>4, <1>8 DEF My
        <3> QED
            BY <3>1, <2>1, <2>2, <1>1 DEF SessionInv, InTime
    <2> QED
        BY <2>3, <2>4
<1> QED
    BY <1>6, <1>7, <1>8 DEF SessionInv, InTime

LEMMA OwnerTurnKeepsInv == ASSUME AuthInv, NEW w \in Workers, OwnerTurn(w) PROVE AuthInv'
<1>1. /\ AuthTypeOK /\ SessionInv /\ wall \in Nat
      /\ fails \in [GuessKeys -> Seq(Nat)] /\ failures \in [GuessKeys -> Seq(Nat)]
    BY DEF AuthInv, AuthTypeOK
<1>2. visit[w].pc = "dispatch" /\ My(w).auth /\ UNCHANGED <<ownerOf, fails, locked, visits, wall, failures>> /\ Done(w)
    BY DEF OwnerTurn
<1>3. /\ visit[w] \in AuthVisits /\ visit[w].o \in 1 .. Len(states) /\ My(w) \in OwnerStates
      /\ heard[visit[w].o] \in Nat \X Nat
    BY <1>1, <1>2, VisitUnderWay
<1>4. PICK instant \in Nat, told \in Nat \X Nat : instant = visit[w].now /\ told = heard[visit[w].o]
    BY <1>3 DEF AuthVisits
<1>5. PICK exits \in BOOLEAN : MySet(w, [My(w) EXCEPT !.awaiting = FALSE, !.last = instant, !.auth = ~exits])
    BY <1>4 DEF OwnerTurn
<1>6. PICK s : s = [My(w) EXCEPT !.awaiting = FALSE, !.last = instant, !.auth = ~exits]
    OBVIOUS
<1>7. s \in OwnerStates /\ s.at = My(w).at /\ s.last = instant
    BY <1>3, <1>6 DEF OwnerStates
<1>8. PICK h \in Nat \X Nat : h = <<told[1], Later(told[2], instant)>> /\ h[1] = told[1] /\ told[2] <= h[2] /\ instant <= h[2]
    <2>1. told[1] \in Nat /\ told[2] \in Nat
        BY <1>4
    <2>2. PICK later \in Nat : later = Later(told[2], instant) /\ told[2] <= later /\ instant <= later
        BY <2>1 DEF Later
    <2>3. PICK h \in Nat \X Nat : h = <<told[1], later>>
        BY <2>1
    <2> QED
        BY <2>2, <2>3
<1>9. heard' = [heard EXCEPT ![visit[w].o] = h]
    BY <1>4, <1>8 DEF OwnerTurn
<1>10. s.at = h[1] /\ s.last <= h[2]
    BY <1>1, <1>2, <1>3, <1>4, <1>7, <1>8 DEF SessionInv, SessionTold, My
<1>11. ASSUME NEW x \in Workers, visit[x].pc = "dispatch", visit[x].o = visit[w].o
       PROVE  visit[x].now <= h[1] + MaxSession /\ visit[x].now <= h[2] + IdleLimit
    <2>1. visit[x].now \in Nat /\ IdleLimit \in Nat /\ MaxSession \in Nat
        BY <1>1, <1>11, VisitUnderWay, OwnerAuthAssumption DEF AuthVisits
    <2>2. visit[x].now <= told[1] + MaxSession /\ visit[x].now <= told[2] + IdleLimit
        BY <1>1, <1>2, <1>4, <1>11 DEF SessionInv, InTime, My
    <2> QED
        BY <2>1, <2>2, <1>4, <1>8
<1>12. MySet(w, s)
    BY <1>5, <1>6
<1>13. AuthTypeOK' /\ SessionInv'
    BY <1>1, <1>2, <1>7, <1>9, <1>10, <1>11, <1>12, SessionKeepsInv
<1>14. \A x \in Workers : visit'[x] = visit[x] \/ visit'[x].pc # "verify"
    BY <1>1, <1>2, EndedTurn DEF Done, AuthTypeOK
<1>15. \A k \in GuessKeys : GuessInv(k)'
    BY <1>1, <1>2, <1>13, <1>14, NoGuess
<1> QED
    BY <1>13, <1>15 DEF AuthInv

LEMMA EnterKeepsInv == ASSUME AuthInv, NEW w \in Workers, Enter(w) PROVE AuthInv'
<1>1. /\ AuthTypeOK /\ SessionInv /\ wall \in Nat
      /\ fails \in [GuessKeys -> Seq(Nat)] /\ failures \in [GuessKeys -> Seq(Nat)]
    BY DEF AuthInv, AuthTypeOK
<1>2. visit[w].pc = "verify" /\ UNCHANGED <<ownerOf, locked, visits, wall>> /\ Done(w)
    BY DEF Enter
<1>3. /\ visit[w] \in AuthVisits /\ My(w) \in OwnerStates
    BY <1>1, <1>2, VisitUnderWay
<1>4. PICK s : s = [My(w) EXCEPT !.auth = TRUE, !.at = wall, !.last = wall]
    OBVIOUS
<1>5. s \in OwnerStates /\ s.at = wall /\ s.last = wall
    BY <1>1, <1>3, <1>4 DEF OwnerStates
<1>6. PICK h \in Nat \X Nat : h = <<wall, wall>> /\ h[1] = wall /\ h[2] = wall
    <2>1. PICK instant \in Nat : instant = wall
        BY <1>1
    <2>2. PICK h \in Nat \X Nat : h = <<instant, instant>>
        OBVIOUS
    <2> QED
        BY <2>1, <2>2
<1>7. MySet(w, s) /\ heard' = [heard EXCEPT ![visit[w].o] = h]
    BY <1>4, <1>6 DEF Enter
<1>8. /\ fails' = [k \in GuessKeys |-> IF k \in KeysOf(w) THEN <<>> ELSE fails[k]]
      /\ failures' = [k \in GuessKeys |-> IF k \in KeysOf(w) THEN <<>> ELSE failures[k]]
    BY DEF Enter
<1>9. fails' \in [GuessKeys -> Seq(Nat)] /\ failures' \in [GuessKeys -> Seq(Nat)]
    BY <1>1, <1>8, EmptySeq
<1>10. ASSUME NEW x \in Workers, visit[x].pc = "dispatch"
       PROVE  visit[x].now <= h[1] + MaxSession /\ visit[x].now <= h[2] + IdleLimit
    <2>1. visit[x].now \in Nat /\ visit[x].now <= wall /\ IdleLimit \in Nat /\ MaxSession \in Nat
        BY <1>1, <1>10, VisitUnderWay, OwnerAuthAssumption DEF AuthVisits
    <2> QED
        BY <2>1, <1>1, <1>6
<1>11. s.at = h[1] /\ s.last <= h[2]
    BY <1>1, <1>5, <1>6
<1>12. AuthTypeOK' /\ SessionInv'
    BY <1>2, <1>5, <1>7, <1>9, <1>10, <1>11, SessionKeepsInv
<1>13. \A x \in Workers : visit'[x] = visit[x] \/ visit'[x].pc # "verify"
    BY <1>1, <1>2, EndedTurn DEF Done, AuthTypeOK
<1>14. ASSUME NEW k \in GuessKeys PROVE GuessInv(k)'
    <2>1. CASE k \in KeysOf(w)
        BY <2>1, <1>8, NothingFailed
    <2>2. CASE k \notin KeysOf(w)
        <3>1. Comparing(k)' \subseteq Comparing(k)
            BY <1>13 DEF Comparing, KeysOf
        <3>2. fails'[k] = fails[k] /\ failures'[k] = failures[k] /\ locked'[k] = locked[k] /\ wall <= wall'
            BY <2>2, <1>1, <1>2, <1>8
        <3> QED
            BY <3>1, <3>2, <1>1, <1>12, QuietKeepsGuesses DEF AuthInv
    <2> QED
        BY <2>1, <2>2
<1> QED
    BY <1>12, <1>14 DEF AuthInv

LEMMA FailKeepsInv == ASSUME AuthInv, NEW w \in Workers, Fail(w) PROVE AuthInv'
<1>1. /\ AuthTypeOK /\ SessionInv /\ wall \in Nat /\ Len(states) \in Nat
      /\ fails \in [GuessKeys -> Seq(Nat)] /\ failures \in [GuessKeys -> Seq(Nat)] /\ locked \in [GuessKeys -> Nat]
      /\ Lockout \in Nat
    BY LenProperties, OwnerAuthAssumption DEF AuthInv, AuthTypeOK
<1>2. visit[w].pc = "verify" /\ UNCHANGED <<ownerOf, states, visits, wall, heard>> /\ visit' = [visit EXCEPT ![w] = NoVisit]
    BY DEF Fail, Done
<1>3. /\ locked' = [k \in GuessKeys |-> IF k \in KeysOf(w) /\ TooMany(k) THEN wall + Lockout ELSE locked[k]]
      /\ fails' = [k \in GuessKeys |-> IF k \notin KeysOf(w) THEN fails[k] ELSE IF TooMany(k) THEN <<>> ELSE RecentFails(k)]
      /\ failures' = [k \in GuessKeys |-> IF k \in KeysOf(w) THEN Append(failures[k], wall) ELSE failures[k]]
    BY DEF Fail
<1>4. locked' \in [GuessKeys -> Nat]
    BY <1>1, <1>3
<1>5. failures' \in [GuessKeys -> Seq(Nat)]
    <2>1. \A k \in GuessKeys : Append(failures[k], wall) \in Seq(Nat) /\ failures[k] \in Seq(Nat)
        BY <1>1
    <2> QED
        BY <2>1, <1>3
<1>6. fails' \in [GuessKeys -> Seq(Nat)]
    <2>1. \A k \in GuessKeys : RecentFails(k) \in Seq(Nat) /\ fails[k] \in Seq(Nat)
        BY <1>1, RecentFailsAreTheEnd
    <2> QED
        BY <2>1, <1>3, EmptySeq
<1>7. /\ visit' \in [Workers -> AuthVisits \cup {NoVisit}] /\ visit'[w] = NoVisit
      /\ \A x \in Workers : visit'[x] # NoVisit => visit'[x].o \in 1 .. Len(states)' /\ visit'[x].now <= wall'
      /\ \A x \in Workers : x # w => visit'[x] = visit[x]
    <2>1. Len(states) <= Len(states)' /\ Len(states)' \in Nat /\ wall <= wall' /\ wall' \in Nat
        BY <1>1, <1>2
    <2> QED
        BY <2>1, <1>1, <1>2, EndedTurn, VisitGoesOn
<1>8. AuthTypeOK'
    BY <1>1, <1>2, <1>4, <1>5, <1>6, <1>7 DEF AuthTypeOK
<1>9. \A x \in Workers : visit'[x] = visit[x] \/ visit'[x].pc \notin {"dispatch", "verify"}
    BY <1>7, EndedTurn
<1>10. SessionInv'
    BY <1>1, <1>2, <1>9, SameSessions
<1>11. ASSUME NEW k \in GuessKeys PROVE GuessInv(k)'
    <2>1. CASE k \in KeysOf(w)
        BY <2>1, <1>1, <1>8, FailKeepsGuesses DEF AuthInv
    <2>2. CASE k \notin KeysOf(w)
        <3>1. Comparing(k)' \subseteq Comparing(k)
            BY <1>9 DEF Comparing, KeysOf
        <3>2. fails'[k] = fails[k] /\ failures'[k] = failures[k] /\ locked'[k] = locked[k] /\ wall <= wall'
            BY <2>2, <1>1, <1>2, <1>3
        <3> QED
            BY <3>1, <3>2, <1>1, <1>8, QuietKeepsGuesses DEF AuthInv
    <2> QED
        BY <2>1, <2>2
<1> QED
    BY <1>8, <1>10, <1>11 DEF AuthInv

LEMMA AskLockedKeepsInv == ASSUME AuthInv, NEW w \in Workers, AskLocked(w) PROVE AuthInv'
<1>1. AuthTypeOK /\ SessionInv /\ wall \in Nat /\ Len(states) \in Nat
    BY LenProperties DEF AuthInv, AuthTypeOK
<1>2. visit[w].pc = "locked?" /\ UNCHANGED <<ownerOf, states, fails, locked, visits, wall, heard, failures>>
    BY DEF AskLocked
<1>3. visit[w] \in AuthVisits /\ visit[w].o \in 1 .. Len(states) /\ visit[w].now <= wall
    BY <1>1, <1>2, VisitUnderWay
<1>4. PICK v \in AuthVisits \cup {NoVisit} :
        /\ visit' = [visit EXCEPT ![w] = v] /\ v.pc # "dispatch"
        /\ v # NoVisit => /\ v.o = visit[w].o /\ v.now = visit[w].now
                          /\ v.talk = visit[w].talk /\ v.address = visit[w].address
        /\ v.pc # "verify" \/ ~\E k \in KeysOf(w) : Locked(k)
    <2>1. CASE \E k \in KeysOf(w) : Locked(k)
        BY <2>1, EndedTurn DEF AskLocked, Done
    <2>2. CASE ~\E k \in KeysOf(w) : Locked(k)
        <3>1. PICK v : v = [visit[w] EXCEPT !.pc = "verify"]
            OBVIOUS
        <3>2. v \in AuthVisits /\ v.pc = "verify" /\ v.o = visit[w].o /\ v.now = visit[w].now
              /\ v.talk = visit[w].talk /\ v.address = visit[w].address
            BY <3>1, <1>3 DEF AuthVisits
        <3>3. visit' = [visit EXCEPT ![w] = v]
            BY <2>2, <3>1 DEF AskLocked, Passes
        <3> QED
            BY <2>2, <3>2, <3>3
    <2> QED
        BY <2>1, <2>2
<1>5. /\ visit' \in [Workers -> AuthVisits \cup {NoVisit}] /\ visit'[w] = v
      /\ \A x \in Workers : visit'[x] # NoVisit => visit'[x].o \in 1 .. Len(states)' /\ visit'[x].now <= wall'
      /\ \A x \in Workers : x # w => visit'[x] = visit[x]
    <2>1. Len(states) <= Len(states)' /\ Len(states)' \in Nat /\ wall <= wall' /\ wall' \in Nat
        BY <1>1, <1>2
    <2> QED
        BY <2>1, <1>1, <1>2, <1>3, <1>4, VisitGoesOn
<1>6. AuthTypeOK'
    BY <1>1, <1>2, <1>5 DEF AuthTypeOK
<1>7. SessionInv'
    BY <1>1, <1>2, <1>4, <1>5, SameSessions
<1>8. ASSUME NEW k \in GuessKeys PROVE GuessInv(k)'
    <2>1. Comparing(k)' \subseteq Comparing(k) \/ locked[k] <= wall
        <3>1. CASE v.pc # "verify"
            BY <3>1, <1>5 DEF Comparing, KeysOf
        <3>2. CASE k \in KeysOf(w) /\ ~\E x \in KeysOf(w) : Locked(x)
            <4>1. ~(locked[k] > wall) /\ locked[k] \in Nat
                BY <3>2, <1>1 DEF Locked, AuthTypeOK
            <4> QED
                BY <4>1, <1>1
        <3>3. CASE k \notin KeysOf(w)
            <4>1. CASE v = NoVisit
                BY <4>1, <1>5, EndedTurn DEF Comparing, KeysOf
            <4>2. CASE v # NoVisit
                <5>1. k \notin KeysOf(w)'
                    BY <3>3, <4>2, <1>4, <1>5 DEF KeysOf
                <5> QED
                    BY <5>1, <1>5 DEF Comparing, KeysOf
            <4> QED
                BY <4>1, <4>2
        <3> QED
            BY <3>1, <3>2, <3>3, <1>4
    <2>2. fails'[k] = fails[k] /\ failures'[k] = failures[k] /\ locked'[k] = locked[k] /\ wall <= wall'
        BY <1>1, <1>2
    <2> QED
        BY <2>1, <2>2, <1>1, <1>6, QuietKeepsGuesses DEF AuthInv
<1> QED
    BY <1>6, <1>7, <1>8 DEF AuthInv

LEMMA LogoutKeepsInv == ASSUME AuthInv, NEW c \in Talks, TeachLogout(c) PROVE AuthInv'
<1>1. /\ AuthTypeOK /\ SessionInv /\ wall \in Nat /\ Len(states) \in Nat
      /\ ownerOf \in [Talks -> Nat] /\ \A x \in Talks : ownerOf[x] <= Len(states)
    BY LenProperties DEF AuthInv, AuthTypeOK
<1>2. /\ UNCHANGED <<states, fails, locked, visit, visits, wall, heard, failures>>
      /\ ownerOf' = [ownerOf EXCEPT ![c] = 0]
    BY DEF TeachLogout
<1>3. ownerOf' \in [Talks -> Nat] /\ \A x \in Talks : ownerOf'[x] <= Len(states)
    BY <1>1, <1>2
<1>4. AuthTypeOK'
    BY <1>1, <1>2, <1>3 DEF AuthTypeOK
<1>5. SessionInv'
    BY <1>1, <1>2, SameSessions
<1> QED
    BY <1>1, <1>2, <1>4, <1>5, NoGuess DEF AuthInv

LEMMA TimeKeepsInv == ASSUME AuthInv, WallTicks PROVE AuthInv'
<1>1. AuthTypeOK /\ SessionInv /\ wall \in Nat /\ Len(states) \in Nat
    BY LenProperties DEF AuthInv, AuthTypeOK
<1>2. UNCHANGED <<ownerOf, states, fails, locked, visit, visits, heard, failures>> /\ wall' = wall + 1
    BY DEF WallTicks
<1>3. wall' \in Nat /\ wall <= wall'
    BY <1>1, <1>2
<1>4. \A w \in Workers : visit'[w] # NoVisit => visit'[w].o \in 1 .. Len(states)' /\ visit'[w].now <= wall'
    <2> SUFFICES ASSUME NEW w \in Workers, visit[w] # NoVisit
                 PROVE  visit[w].o \in 1 .. Len(states) /\ visit[w].now <= wall'
        BY <1>2
    <2>1. visit[w] \in AuthVisits /\ visit[w].o \in 1 .. Len(states) /\ visit[w].now <= wall
        BY <1>1 DEF AuthTypeOK
    <2>2. visit[w].now \in Nat
        BY <2>1 DEF AuthVisits
    <2> QED
        BY <2>1, <2>2, <1>1, <1>2
<1>5. AuthTypeOK'
    BY <1>1, <1>2, <1>3, <1>4 DEF AuthTypeOK
<1>6. SessionInv'
    BY <1>1, <1>2, SameSessions
<1> QED
    BY <1>1, <1>2, <1>3, <1>5, <1>6, NoGuess DEF AuthInv

LEMMA AuthInvInit == AuthInit => AuthInv
<1> SUFFICES ASSUME AuthInit PROVE AuthInv
    OBVIOUS
<1>1. /\ states = <<>> /\ heard = <<>> /\ Len(states) = 0 /\ Len(heard) = 0
      /\ states \in Seq(OwnerStates) /\ heard \in Seq(Nat \X Nat) /\ <<>> \in Seq(Nat)
    BY EmptySeq DEF AuthInit
<1>2. AuthTypeOK
    BY <1>1 DEF AuthInit, AuthTypeOK
<1>3. SessionInv
    BY <1>1 DEF AuthInit, SessionInv, SessionTold, InTime, NoVisit
<1>4. \A k \in GuessKeys : GuessInv(k)
    <2> SUFFICES ASSUME NEW k \in GuessKeys PROVE GuessInv(k)
        OBVIOUS
    <2>1. failures[k] = <<>> /\ fails[k] = <<>> /\ Len(<<>>) = 0
        BY EmptySeq DEF AuthInit
    <2>2. MaxFailures \in Nat /\ MaxFailures > 0
        BY OwnerAuthAssumption
    <2> QED
        BY <2>1, <2>2 DEF GuessInv
<1> QED
    BY <1>2, <1>3, <1>4 DEF AuthInv

LEMMA AuthInvNext == AuthInv /\ [AuthNext]_authVars => AuthInv'
<1> SUFFICES ASSUME AuthInv, [AuthNext]_authVars PROVE AuthInv'
    OBVIOUS
<1>1. ASSUME NEW w \in Workers, AuthStep(w) PROVE AuthInv'
    BY <1>1, ArriveKeepsInv, LookAtSessionKeepsInv, TakeCandidateKeepsInv, CancelSecretKeepsInv, OwnerTurnKeepsInv,
       OtherTurnKeepsInv, AskLockedKeepsInv, EnterKeepsInv, FailKeepsInv DEF AuthStep
<1>2. CASE UNCHANGED authVars
    <2>1. UNCHANGED <<ownerOf, states, fails, locked, visit, wall, heard, failures>>
        BY <1>2 DEF authVars
    <2>2. AuthTypeOK'
        BY <2>1 DEF AuthInv, AuthTypeOK
    <2>3. SessionInv'
        BY <2>1 DEF AuthInv, SessionInv, SessionTold, InTime, My
    <2>4. ASSUME NEW k \in GuessKeys PROVE GuessInv(k)'
        <3>1. Comparing(k)' = Comparing(k)
            BY <2>1 DEF Comparing, KeysOf
        <3>2. GuessInv(k)
            BY DEF AuthInv
        <3>3. \A j : LockedAt(k, j)' <=> LockedAt(k, j)
            BY <2>1, <3>1 DEF LockedAt
        <3> QED
            BY <2>1, <3>2, <3>3 DEF GuessInv
    <2> QED
        BY <2>2, <2>3, <2>4 DEF AuthInv
<1> QED
    BY <1>1, <1>2, LogoutKeepsInv, TimeKeepsInv DEF AuthNext

\* AuthInv holds in every behaviour, however many workers, conversations and addresses there are.
THEOREM AuthCorrect == AuthSpec => []AuthInv
<1>1. AuthInit => AuthInv
    BY AuthInvInit
<1>2. AuthInv /\ [AuthNext]_authVars => AuthInv'
    BY AuthInvNext
<1>3. QED
    BY <1>1, <1>2, PTL DEF AuthSpec

\* Among MaxFailures failures in a window one locked the key, and all but the turns under way came after that lock.
LEMMA GuessesAreBounded == AuthInv => GuessesBounded
<1> SUFFICES ASSUME AuthInv, NEW k \in GuessKeys,
                    NEW i \in 1 .. Len(failures[k]) - (MaxFailures + Cardinality(Workers) - 1)
             PROVE  failures[k][i + (MaxFailures + Cardinality(Workers) - 1)] - failures[k][i] >= FailureWindow
    BY DEF GuessesBounded
<1>1. failures[k] \in Seq(Nat) /\ Len(failures[k]) \in Nat
    BY LenProperties DEF AuthInv, AuthTypeOK
<1>2. PICK n \in Nat, w \in Nat, M \in Nat \ {0} : n = Len(failures[k]) /\ w = Cardinality(Workers) /\ M = MaxFailures
    BY <1>1, OwnerAuthAssumption, ComparingIsFinite
<1>3. PICK f \in [1 .. n -> Nat] : f = failures[k]
    BY <1>1, <1>2, LenProperties
<1>4. FailureWindow \in Nat /\ Lockout \in Nat /\ Lockout >= FailureWindow
    BY OwnerAuthAssumption
<1>5. i \in 1 .. n - (M + w - 1)
    BY <1>2
<1>6. i \in 1 .. n /\ i + (M + w - 1) \in Nat /\ i + (M + w - 1) <= n
    BY <1>5
<1>7. PICK last \in Nat : last = i + (M + w - 1)
    BY <1>6
<1>8. \A x \in 1 .. n : \A y \in x .. n : f[x] <= f[y]
    BY <1>2, <1>3 DEF AuthInv, GuessInv
<1>9. i + M - 1 \in 1 .. n /\ i + M - 1 <= last /\ last \in 1 .. n /\ i \in 1 .. n - M + 1
    BY <1>5, <1>6, <1>7
<1>10. f[i] \in Nat /\ f[last] \in Nat /\ f[i + M - 1] \in Nat
    BY <1>6, <1>9
<1>11. CASE f[i + M - 1] - f[i] > FailureWindow
    <2>1. f[i + M - 1] <= f[last]
        BY <1>8, <1>9
    <2>2. f[last] - f[i] >= FailureWindow
        BY <2>1, <1>4, <1>10, <1>11
    <2> QED
        BY <2>2, <1>2, <1>3, <1>7
<1>12. CASE \E j \in i .. i + M - 1 : LockedAt(k, j)
    <2>1. PICK j \in i .. i + M - 1 : LockedAt(k, j)
        BY <1>12
    <2>2. w - 1 >= 0 /\ \A m \in j + 1 .. n : f[m] < f[j] + Lockout => m - j <= w - 1
        BY <2>1, <1>2, <1>3 DEF LockedAt
    <2>3. j \in 1 .. n /\ j \in i .. n /\ j + w \in j + 1 .. n /\ j + w \in 1 .. n /\ last \in j + w .. n
        BY <2>2, <1>7, <1>9
    <2>4. f[j] \in Nat /\ f[j + w] \in Nat
        BY <2>3
    <2>5. ~(f[j + w] < f[j] + Lockout)
        <3>1. j + w - j = w /\ ~(w <= w - 1)
            BY <2>3
        <3> QED
            BY <2>2, <2>3, <3>1
    <2>6. f[i] <= f[j] /\ f[j + w] <= f[last]
        BY <2>3, <1>6, <1>8
    <2>7. f[last] - f[i] >= FailureWindow
        BY <2>4, <2>5, <2>6, <1>4, <1>10, SMTT(30)
    <2> QED
        BY <2>7, <1>2, <1>3, <1>7
<1>13. f[i + M - 1] - f[i] > FailureWindow \/ \E j \in i .. i + M - 1 : LockedAt(k, j)
    BY <1>2, <1>3, <1>9 DEF AuthInv, GuessInv
<1> QED
    BY <1>11, <1>12, <1>13

\* A turn is served as the owner's only in an OwnerState that is logged in, and before it expires.
LEMMA SessionsEnd ==
    AuthInv => \A w \in Workers : OwnerTurn(w) =>
        LET told == heard[visit[w].o]
        IN visit[w].now <= told[1] + MaxSession /\ visit[w].now <= told[2] + IdleLimit
    BY DEF AuthInv, SessionInv, InTime, OwnerTurn

(* Teacher mode is guarded at both ends: five wrong candidates and one more *)
(* span the window but for those under way together (FailureLimiter), and   *)
(* no turn is served as the owner's after his session has ended             *)
(* (OwnerState.expired).                                                    *)
THEOREM TeacherModeGuarded == AuthSpec => OwnerGuarded
<1>1. AuthInv' => GuessesBounded'
    <2>1. AuthInv => GuessesBounded
        BY GuessesAreBounded
    <2> QED
        BY <2>1, PTL
<1>2. AuthInv /\ AuthInv' /\ [AuthNext]_authVars => [GuessesBounded']_authVars
    BY <1>1
<1>3. AuthInv /\ [AuthNext]_authVars =>
        [ \A w \in Workers :
            OwnerTurn(w) => LET told == heard[visit[w].o]
                            IN visit[w].now <= told[1] + MaxSession /\ visit[w].now <= told[2] + IdleLimit ]_authVars
    BY SessionsEnd
<1>4. QED
    BY AuthCorrect, <1>2, <1>3, PTL DEF AuthSpec, OwnerGuarded, SessionEnds
=============================================================================
