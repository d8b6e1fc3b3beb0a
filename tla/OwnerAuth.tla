------------------------------ MODULE OwnerAuth ------------------------------
(***************************************************************************)
(* How the owner gets into teacher mode and how long he stays: the start   *)
(* of RupsaaService.chat and _handle_secret (api/services.py), OwnerState  *)
(* and FailureLimiter (rupsaa/owner/teaching.py). Turns run in worker      *)
(* threads and keep the OwnerState they found; time passes between their   *)
(* steps. What is taught in a session is in Teaching.                      *)
(***************************************************************************)
EXTENDS Integers, Sequences, FiniteSets

CONSTANTS
    Talks, Addresses,    \* conversation ids; client keys
    Workers,
    IdleLimit, MaxSession,    \* IDLE_SECONDS, MAX_SESSION_SECONDS
    MaxFailures, FailureWindow, Lockout,
    MaxVisits,           \* bound: turns in a behaviour
    MaxWall              \* bound: time.time()

ASSUME OwnerAuthAssumption ==
    /\ {IdleLimit, MaxSession, MaxFailures, FailureWindow, Lockout, MaxVisits, MaxWall} \subseteq Nat
    /\ MaxFailures > 0 /\ Lockout >= FailureWindow
    /\ IsFiniteSet(Workers)

VARIABLES
    ownerOf,     \* _owner: the OwnerState object of a conversation, 0 without one
    states,      \* the OwnerState objects: awaiting_secret, authenticated, authenticated_at, last_active
    fails, locked,  \* _fails, _locked
    visit,       \* the turn of each worker
    visits, wall,   \* bounds
    heard,       \* history: per OwnerState object, when the owner logged into it and his latest turn in it since
    failures     \* history: per key, the failed comparisons since the last right one

authVars == <<ownerOf, states, fails, locked, visit, visits, wall, heard, failures>>

GuessKeys == Talks \cup Addresses
KeysOf(w) == {visit[w].talk, visit[w].address}
NoVisit == [pc |-> "idle"]
LoggedOut == [awaiting |-> FALSE, auth |-> FALSE, at |-> 0, last |-> 0]

AuthInit ==
    /\ ownerOf = [c \in Talks |-> 0] /\ states = <<>>
    /\ fails = [k \in GuessKeys |-> <<>>] /\ locked = [k \in GuessKeys |-> 0]
    /\ visit = [w \in Workers |-> NoVisit]
    /\ visits = 0 /\ wall = 0
    /\ heard = <<>>
    /\ failures = [k \in GuessKeys |-> <<>>]

My(w) == states[visit[w].o]
NewState ==
    /\ states' = Append(states, LoggedOut)
    /\ heard' = Append(heard, <<0, 0>>)
MySet(w, s) == states' = [states EXCEPT ![visit[w].o] = s]
Done(w) == visit' = [visit EXCEPT ![w] = NoVisit]
Passes(w, from, to) == visit[w].pc = from /\ visit' = [visit EXCEPT ![w].pc = to]

-----------------------------------------------------------------------------
\* A turn to one conversation from one address. What its message is, is chosen where it first matters.
Arrive(w) ==
    /\ visit[w] = NoVisit /\ visits < MaxVisits
    /\ visits' = visits + 1
    /\ \E c \in Talks, a \in Addresses :
        /\ IF ownerOf[c] = 0
           THEN NewState /\ ownerOf' = [ownerOf EXCEPT ![c] = Len(states) + 1]
           ELSE UNCHANGED <<states, ownerOf, heard>>
        /\ visit' = [visit EXCEPT ![w] = [pc |-> "arrived", talk |-> c, address |-> a, o |-> ownerOf'[c], now |-> wall]]
    /\ UNCHANGED <<fails, locked, wall, failures>>

\* Mutant of ExpiresAt: a session has no absolute end.
ExpiresWhenIdle(s) == s.last + IdleLimit

ExpiresAt(s) == IF s.last + IdleLimit < s.at + MaxSession THEN s.last + IdleLimit ELSE s.at + MaxSession
Expired(s, now) == s.auth /\ now > ExpiresAt(s)
LookAtSession(w) ==
    /\ visit[w].pc = "arrived"
    /\ IF Expired(My(w), visit[w].now)
       THEN /\ NewState
            /\ ownerOf' = [ownerOf EXCEPT ![visit[w].talk] = Len(states) + 1]
            /\ visit' = [visit EXCEPT ![w].pc = "dispatch", ![w].o = Len(states) + 1]
       ELSE visit' = [visit EXCEPT ![w].pc = "dispatch"] /\ UNCHANGED <<states, ownerOf, heard>>
    /\ UNCHANGED <<fails, locked, visits, wall, failures>>

\* Everything in the masked field is a candidate, and every message while the secret is awaited but a cancel or another request.
TakeCandidate(w) ==
    /\ visit[w].pc = "dispatch"
    /\ visit' = [visit EXCEPT ![w] = [@ EXCEPT !.pc = "locked?", !.now = 0]]
    /\ MySet(w, [My(w) EXCEPT !.awaiting = FALSE])
    /\ UNCHANGED <<ownerOf, fails, locked, visits, wall, heard, failures>>
CancelSecret(w) ==
    /\ visit[w].pc = "dispatch" /\ My(w).awaiting
    /\ MySet(w, [My(w) EXCEPT !.awaiting = FALSE])
    /\ Done(w)
    /\ UNCHANGED <<ownerOf, fails, locked, visits, wall, heard, failures>>

\* Another message: of the owner, and it may end the session; or of somebody who may ask for teacher mode.
Later(x, y) == IF x > y THEN x ELSE y
OwnerTurn(w) ==
    LET now == visit[w].now
    IN /\ visit[w].pc = "dispatch" /\ My(w).auth
       /\ \E exits \in BOOLEAN :
            MySet(w, [My(w) EXCEPT !.awaiting = FALSE, !.last = now, !.auth = ~exits])
       /\ heard' = [heard EXCEPT ![visit[w].o] = <<@[1], Later(@[2], now)>>]
       /\ Done(w)
       /\ UNCHANGED <<ownerOf, fails, locked, visits, wall, failures>>
OtherTurn(w) ==
    /\ visit[w].pc = "dispatch" /\ ~My(w).auth
    /\ \E asks \in BOOLEAN :
        /\ My(w).awaiting => asks
        /\ MySet(w, [My(w) EXCEPT !.awaiting = asks])
    /\ Done(w)
    /\ UNCHANGED <<ownerOf, fails, locked, visits, wall, heard, failures>>

-----------------------------------------------------------------------------
(* _handle_secret: the question, the comparison and what follows from it.  *)
Locked(k) == locked[k] > wall
AskLocked(w) ==
    /\ visit[w].pc = "locked?"
    /\ IF \E k \in KeysOf(w) : Locked(k) THEN Done(w) ELSE Passes(w, "locked?", "verify")
    /\ UNCHANGED <<ownerOf, states, fails, locked, visits, wall, heard, failures>>

Enter(w) ==
    /\ visit[w].pc = "verify"
    /\ MySet(w, [My(w) EXCEPT !.auth = TRUE, !.at = wall, !.last = wall])
    /\ fails' = [k \in GuessKeys |-> IF k \in KeysOf(w) THEN <<>> ELSE fails[k]]
    /\ failures' = [k \in GuessKeys |-> IF k \in KeysOf(w) THEN <<>> ELSE failures[k]]
    /\ heard' = [heard EXCEPT ![visit[w].o] = <<wall, wall>>]
    /\ Done(w)
    /\ UNCHANGED <<ownerOf, locked, visits, wall>>

\* The queue with this attempt, its aged front popped.
RecentFails(k) ==
    LET queue == Append(fails[k], wall)
        recent == {i \in 1 .. Len(queue) : wall - queue[i] <= FailureWindow}
    IN SubSeq(queue, CHOOSE i \in recent : \A j \in recent : i <= j, Len(queue))

\* Mutant of TooMany: one more attempt than allowed.
TooManyOffByOne(k) == Len(RecentFails(k)) > MaxFailures

TooMany(k) == Len(RecentFails(k)) >= MaxFailures
Fail(w) ==
    /\ visit[w].pc = "verify"
    /\ locked' = [k \in GuessKeys |-> IF k \in KeysOf(w) /\ TooMany(k) THEN wall + Lockout ELSE locked[k]]
    /\ fails' = [k \in GuessKeys |-> IF k \notin KeysOf(w) THEN fails[k] ELSE IF TooMany(k) THEN <<>> ELSE RecentFails(k)]
    /\ failures' = [k \in GuessKeys |-> IF k \in KeysOf(w) THEN Append(failures[k], wall) ELSE failures[k]]
    /\ Done(w)
    /\ UNCHANGED <<ownerOf, states, visits, wall, heard>>

-----------------------------------------------------------------------------
\* /teach/logout and New chat.
TeachLogout(c) ==
    /\ ownerOf[c] # 0
    /\ ownerOf' = [ownerOf EXCEPT ![c] = 0]
    /\ UNCHANGED <<states, fails, locked, visit, visits, wall, heard, failures>>

WallTicks ==
    /\ wall < MaxWall
    /\ wall' = wall + 1
    /\ UNCHANGED <<ownerOf, states, fails, locked, visit, visits, heard, failures>>

AuthStep(w) ==
    \/ Arrive(w) \/ LookAtSession(w) \/ TakeCandidate(w) \/ CancelSecret(w) \/ OwnerTurn(w) \/ OtherTurn(w)
    \/ AskLocked(w) \/ Enter(w) \/ Fail(w)
AuthNext == (\E w \in Workers : AuthStep(w)) \/ (\E c \in Talks : TeachLogout(c)) \/ WallTicks

AuthSpec == AuthInit /\ [][AuthNext]_authVars
-----------------------------------------------------------------------------
(* "expires after 30 idle minutes (4 hours max)" (teaching.py): no turn is *)
(* served as the owner's later than that after the turn before it in the   *)
(* same session, or after the login to it, whichever turns overlap.        *)
SessionEnds ==
    [][ \A w \in Workers :
          OwnerTurn(w) => LET told == heard[visit[w].o]
                          IN visit[w].now <= told[1] + MaxSession /\ visit[w].now <= told[2] + IdleLimit ]_authVars

(* "5 per 15 minutes, 15-minute cooldown", per conversation and per client *)
(* (teaching.py): any five successive failed attempts and one more span    *)
(* the window, except for attempts that were under way together.           *)
GuessesBounded ==
    \A k \in GuessKeys :
        LET extra == MaxFailures + Cardinality(Workers) - 1
        IN \A i \in 1 .. Len(failures[k]) - extra : failures[k][i + extra] - failures[k][i] >= FailureWindow

(* Teacher mode is guarded at both ends: guessing the secret, and using a  *)
(* session that is over.                                                   *)
OwnerGuarded == [][GuessesBounded']_authVars /\ SessionEnds
=============================================================================
