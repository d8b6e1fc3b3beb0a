----------------------------- MODULE RateLimiter -----------------------------
(***************************************************************************)
(* RateLimiter of api/security.py: a sliding window per client and one for *)
(* the whole server.  check(key) runs under one lock (and every route that *)
(* calls it runs on the event loop), so it is one action with three        *)
(* outcomes.  A limit of 0 means unlimited.                                *)
(*                                                                         *)
(* hits and global are the program's deques; log and glog are histories of *)
(* every request that was let through, which the program does not keep.    *)
(***************************************************************************)
EXTENDS Integers, Sequences, FiniteSets

CONSTANTS
    Clients,       \* client_key(request)
    PerClient,     \* per_client
    GlobalLimit,   \* global_limit
    Window,        \* 60 seconds
    KeysLimit,     \* 50_000
    Readings          \* the clock readings that may occur

ASSUME LimiterAssumption ==
    /\ PerClient \in Nat
    /\ GlobalLimit \in Nat
    /\ Window \in Nat \ {0}
    /\ KeysLimit \in Nat
    /\ Readings \subseteq Nat
    /\ 0 \in Readings

VARIABLES
    hits,      \* self._hits: the deque of a client, <<>> when it has none
    keys,      \* the keys of self._hits
    global,    \* self._global
    clock,       \* self._clock()
    answer,    \* what the last check returned, to whom and when
    log, glog  \* history: all requests let through, per client and overall

limiterVars == <<hits, keys, global, clock, answer, log, glog>>

-----------------------------------------------------------------------------
(***************************************************************************)
(* while q and now - q[0] >= 60: q.popleft()                                 *)
(***************************************************************************)
\* Mutant of Aged: a hit is forgotten one second late.
AgedLate(h, t) == t - h > Window

Aged(h, t) == t - h >= Window

LimiterMayStop(q, t, i) == i = Len(q) + 1 \/ ~Aged(q[i], t)

FirstLive(q, t) ==
    CHOOSE i \in 1..Len(q) + 1 :
        /\ LimiterMayStop(q, t, i)
        /\ \A j \in 1..Len(q) + 1 : LimiterMayStop(q, t, j) => i <= j

Sweep(q, t) == SubSeq(q, FirstLive(q, t), Len(q))

\* Mutant of Full: one request too many.
FullOffByOne(q, limit) == limit > 0 /\ Len(q) > limit

Full(q, limit) == limit > 0 /\ Len(q) >= limit

LimiterInit ==
    /\ hits = [c \in Clients |-> <<>>]
    /\ keys = {}
    /\ global = <<>>
    /\ clock = 0
    /\ answer = [ok |-> TRUE, wait |-> 0, at |-> 0]
    /\ log = [c \in Clients |-> <<>>]
    /\ glog = <<>>

\* Looking a key up in the defaultdict creates it.
SweepBoth(c) ==
    /\ hits' = [hits EXCEPT ![c] = Sweep(@, clock)]
    /\ global' = Sweep(global, clock)
    /\ keys' = keys \cup {c}

\* Mutant of Refuse: the wait is a second short.
RefuseEarly(oldest) == answer' = [ok |-> FALSE, wait |-> Window - (clock - oldest) - 1, at |-> clock]

\* The seconds until the oldest hit of the full window has aged.
Refuse(oldest) == answer' = [ok |-> FALSE, wait |-> Window - (clock - oldest), at |-> clock]

\* The whole server is at its limit.
RefuseGlobal(c) ==
    /\ SweepBoth(c)
    /\ Full(global', GlobalLimit)
    /\ Refuse(global'[1])
    /\ UNCHANGED <<clock, log, glog>>

\* This client is at its limit.
RefuseClient(c) ==
    /\ SweepBoth(c)
    /\ ~Full(global', GlobalLimit)
    /\ Full(hits'[c], PerClient)
    /\ Refuse(hits'[c][1])
    /\ UNCHANGED <<clock, log, glog>>

\* Mutant of Remembered: everyone but the caller is forgotten.
ForgetBusy(ks, h, c) == IF Cardinality(ks) > KeysLimit THEN {c} ELSE ks

\* The keys left after "forget idle clients".
Remembered(ks, h, c) ==
    IF Cardinality(ks) > KeysLimit THEN {k \in ks : h[k] # <<>>} ELSE ks

\* Let through and counted; a client that is forgotten loses its deque.
Accept(c) ==
    LET h == Sweep(hits[c], clock)
        g == Sweep(global, clock)
        counted == [hits EXCEPT ![c] = Append(h, clock)]
    IN  /\ ~Full(g, GlobalLimit)
        /\ ~Full(h, PerClient)
        /\ global' = Append(g, clock)
        /\ keys' = Remembered(keys \cup {c}, counted, c)
        /\ hits' = [k \in Clients |-> IF k \in keys' THEN counted[k] ELSE <<>>]
        /\ answer' = [ok |-> TRUE, wait |-> 0, at |-> clock]
        /\ log' = [log EXCEPT ![c] = Append(@, clock)]
        /\ glog' = Append(glog, clock)
        /\ UNCHANGED clock

Check(c) == RefuseGlobal(c) \/ RefuseClient(c) \/ Accept(c)

LimiterTick(t) ==
    /\ t > clock
    /\ clock' = t
    /\ UNCHANGED <<hits, keys, global, answer, log, glog>>

LimiterNext ==
    \/ \E c \in Clients : Check(c)
    \/ \E t \in Readings : LimiterTick(t)

LimiterSpec == LimiterInit /\ [][LimiterNext]_limiterVars

-----------------------------------------------------------------------------
(***************************************************************************)
(* Properties.                                                             *)
(***************************************************************************)

\* The deque q is the end of the log l, and what is no longer in it has aged.
Tracks(q, l, t) ==
    /\ Len(q) <= Len(l)
    /\ \A i \in 1..Len(q) : q[i] = l[Len(l) - Len(q) + i]
    /\ \A i \in 1..Len(l) - Len(q) : Aged(l[i], t)
    /\ \A i, j \in 1..Len(l) : i <= j => l[i] <= l[j]
    /\ \A i \in 1..Len(l) : l[i] <= t

LimiterTypeOK ==
    /\ hits \in [Clients -> Seq(Readings)] /\ log \in [Clients -> Seq(Readings)]
    /\ global \in Seq(Readings) /\ glog \in Seq(Readings)
    /\ keys \subseteq Clients
    /\ clock \in Readings

\* Any limit + 1 successive entries of a log span at least a window.
Spaced(l, limit) ==
    limit > 0 => \A i \in 1..Len(l) - limit : l[i + limit] - l[i] >= Window

\* The class docstring: whatever minute one looks at, no client had more than
\* per_client requests let through in it, and the server no more than
\* global_limit, although only what the deques still hold is counted.
WindowLimits ==
    /\ \A c \in Clients : Spaced(log[c], PerClient)
    /\ Spaced(glog, GlobalLimit)

\* Why the deques are enough: nothing that still counts has been popped, and
\* the deque of a client the sweep of idle clients forgot is empty.
LimiterInv ==
    /\ LimiterTypeOK
    /\ WindowLimits
    /\ \A c \in Clients : Tracks(hits[c], log[c], clock)
    /\ \A c \in Clients \ keys : hits[c] = <<>>
    /\ Tracks(global, glog, clock)

InWindow(l, t) == Cardinality({i \in 1..Len(l) : t - l[i] < Window})

\* A request is refused only when the last minute really holds a limit's worth
\* of requests, and the server's limit is what refused it or the client's own.
RefusedOnlyWhenFull ==
    [][ \A c \in Clients :
          RefuseGlobal(c) \/ RefuseClient(c) =>
              \/ GlobalLimit > 0 /\ InWindow(glog, clock) >= GlobalLimit
              \/ PerClient > 0 /\ InWindow(log[c], clock) >= PerClient ]_limiterVars

\* "seconds until a slot frees up" (the docstring of check): after the wait the
\* response names (int(retry_after) + 1, so never less), the window that refused
\* the request has room again unless others sent requests meanwhile.
WaitIsEnough ==
    [][ \A c \in Clients :
          /\ RefuseGlobal(c) => InWindow(glog, clock + answer'.wait) < GlobalLimit
          /\ RefuseClient(c) => InWindow(log[c], clock + answer'.wait) < PerClient ]_limiterVars
=============================================================================
