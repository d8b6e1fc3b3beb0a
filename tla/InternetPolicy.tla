--------------------------- MODULE InternetPolicy ---------------------------
(***************************************************************************)
(* The internet permission policy: rupsaa/conversation/internet_policy.py  *)
(* as the chat turns of api/services.py (worker threads) and the routes    *)
(* /internet/mode and /conversation/reset (event loop) use it.             *)
(*                                                                         *)
(* A turn is numbered, and its number stands for its question.  What the   *)
(* command patterns and needs_web tell apart about a message is its kind:  *)
(*   "allow", "deny", "ask"  a persistent preference command               *)
(*   "halt"   a one-off "stop using the internet"                          *)
(*   "stop"   a one-off "search korona", which also reads as a rejection   *)
(*   "yes"    an approval; "search koro" is also a request to search       *)
(*   "no"     a rejection                                                  *)
(*   "question"  one that needs current information; "chat" the rest       *)
(* Preferences and pending look-ups are shared by all threads; the steps   *)
(* of a turn are split wherever another thread may run in between.         *)
(***************************************************************************)
EXTENDS Integers, FiniteSets

CONSTANTS
    Conversations, Users, Runners,
    NoUser,        \* no user id: the preference belongs to the conversation
    HasProvider,   \* a web search provider is configured
    Kinds,         \* the kinds of messages that arrive
    Legacy,        \* the values of allow_internet that arrive
    TTL,           \* PENDING_TTL_SECONDS
    Moments,         \* the clock readings that may occur
    MaxTurns,      \* bound: turns in a behaviour
    MaxPosts       \* bound: preferences set with the page's selector

ASSUME PolicyAssumption ==
    /\ NoUser \notin Users
    /\ Users \cap Conversations = {}
    /\ Kinds \subseteq {"allow", "deny", "ask", "halt", "stop", "yes", "no", "question", "chat"}
    /\ Legacy \subseteq BOOLEAN
    /\ HasProvider \in BOOLEAN
    /\ TTL \in Nat
    /\ Moments \subseteq Nat /\ 0 \in Moments
    /\ MaxTurns \in Nat /\ MaxPosts \in Nat

VARIABLES
    prefs,     \* the mode per user (a file) or anonymous conversation (_anon)
    pending,   \* _pending: the question awaiting permission, per conversation
    moment,       \* time.time()
    turn,      \* the turn each thread runs
    started,   \* number of turns started
    posts,     \* preferences set through the route
    searches,  \* history: what the provider was asked, and why
    asked,     \* history: questions the user was asked permission for
    over,      \* history: questions an answered request has searched or dropped
    standing   \* history: the permission question a conversation ended on

policyVars == <<prefs, pending, moment, turn, started, posts, searches, asked, over, standing>>

Modes == {"ASK", "ALLOW", "DENY"}

None == [q |-> 0, at |-> 0]
NoTurn == [pc |-> "idle", c |-> "none"]

Key(u, c) == IF u = NoUser THEN c ELSE u

On(t, c) == turn[t].pc # "idle" /\ turn[t].c = c

Proceed(t, label) == turn' = [turn EXCEPT ![t].pc = label]

PolicyInit ==
    /\ prefs = [k \in Users \cup Conversations |-> "ASK"]   \* DEFAULT_MODE
    /\ pending = [c \in Conversations |-> None]
    /\ moment = 0
    /\ turn = [t \in Runners |-> NoTurn]
    /\ started = 0 /\ posts = 0
    /\ searches = {} /\ asked = {} /\ over = {}
    /\ standing = [c \in Conversations |-> [q |-> 0, alone |-> TRUE]]

-----------------------------------------------------------------------------
(***************************************************************************)
(* A chat turn.                                                            *)
(***************************************************************************)
\* A request about question number started + 1; `legacy` is allow_internet, the
\* page's old switch: ALLOW for one request.
NewTurn(c, u, k, legacy) ==
    [pc |-> "mode", n |-> started + 1, c |-> c, u |-> u, kind |-> k,
     legacy |-> legacy, arrived |-> moment, mode |-> "ASK", pend |-> None,
     command |-> "none", query |-> 0, dropped |-> {}, asks |-> FALSE,
     expects |-> IF standing[c].alone THEN standing[c].q ELSE 0,
     over |-> over,
     alone |-> \A r \in Runners : ~On(r, c)]

\* Thread t begins turn `new`, and the others on its conversation have company.
Joined(t, new) ==
    [s \in Runners |-> IF s = t THEN new
                       ELSE IF On(s, new.c) THEN [turn[s] EXCEPT !.alone = FALSE]
                       ELSE turn[s]]

TurnArrives(t) ==
    /\ turn[t].pc = "idle"
    /\ started < MaxTurns
    /\ \E c \in Conversations, u \in Users \cup {NoUser}, k \in Kinds, legacy \in Legacy :
        /\ turn' = Joined(t, NewTurn(c, u, k, legacy))
        /\ standing' = [standing EXCEPT ![c].q = 0]
    /\ started' = started + 1
    /\ UNCHANGED <<prefs, pending, moment, posts, searches, asked, over>>

\* mode = ALLOW if allow_internet else the stored preference
ReadMode(t) ==
    /\ turn[t].pc = "mode"
    /\ turn' = [turn EXCEPT
          ![t].mode = IF turn[t].legacy THEN "ALLOW" ELSE prefs[Key(turn[t].u, turn[t].c)],
          ![t].pc = "pending"]
    /\ UNCHANGED <<prefs, pending, moment, started, posts, searches, asked, over, standing>>

\* Mutant of Lapsed: an old question never lapses.
NeverLapsed(p, t) == FALSE

\* Mutant of Lapsed: it lapses one second early.
LapsedEarly(p, t) == p.q # 0 /\ t - p.at >= TTL

Lapsed(p, t) == p.q # 0 /\ t - p.at > TTL

ReadPending(t) ==
    /\ turn[t].pc = "pending"
    /\ LET p == pending[turn[t].c] IN
        turn' = IF Lapsed(p, turn[t].arrived)
                  THEN [turn EXCEPT ![t].dropped = {p.q}, ![t].pc = "expire"]
                  ELSE [turn EXCEPT ![t].pend = p, ![t].pc = "decide"]
    /\ UNCHANGED <<prefs, pending, moment, started, posts, searches, asked, over, standing>>

\* _pending.pop(cid, None): whatever is there by now.
Pop(t) == pending' = [pending EXCEPT ![turn[t].c] = None]

Lapse(t) ==
    /\ turn[t].pc = "expire"
    /\ Pop(t)
    /\ Proceed(t, "decide")
    /\ UNCHANGED <<prefs, moment, started, posts, searches, asked, over, standing>>

\* detect_command
Command(kind, hasPending) ==
    CASE kind \in {"allow", "deny", "ask"}          -> kind
      [] kind = "yes" /\ hasPending                 -> "approve"
      [] kind \in {"no", "stop"} /\ hasPending      -> "reject"
      [] kind \in {"stop", "halt"} /\ ~hasPending   -> "deny"
      [] OTHER                                      -> "none"

Decide(t) ==
    LET p == turn[t].pend
        command == Command(turn[t].kind, p.q # 0)
    IN  /\ turn[t].pc = "decide"
        /\ turn' = [turn EXCEPT
              ![t].command = command,
              ![t].query = IF command = "approve" THEN p.q ELSE 0,
              ![t].pc = CASE command \in {"allow", "deny", "ask"}             -> "prefer"
                          [] command = "reject" \/ (command = "none" /\ p.q # 0) -> "drop"
                          [] OTHER                                            -> "need"]
        /\ UNCHANGED <<prefs, pending, moment, started, posts, searches, asked, over, standing>>

ModeOf(command) ==
    CASE command = "allow" -> "ALLOW" [] command = "deny" -> "DENY" [] command = "ask" -> "ASK"

\* A persistent command: stored, and an ALLOW takes up the pending question.
Prefer(t) ==
    LET mode == ModeOf(turn[t].command) IN
    /\ turn[t].pc = "prefer"
    /\ prefs' = [prefs EXCEPT ![Key(turn[t].u, turn[t].c)] = mode]
    /\ turn' = [turn EXCEPT
          ![t].mode = mode,
          ![t].query = IF mode = "ALLOW" THEN turn[t].pend.q ELSE 0,
          ![t].pc = IF mode = "ALLOW" THEN "need" ELSE "drop"]
    /\ UNCHANGED <<pending, moment, started, posts, searches, asked, over, standing>>

\* Rejected, abandoned for a new topic, or given up with a DENY or an ASK.
Drop(t) ==
    /\ turn[t].pc = "drop"
    /\ Pop(t)
    /\ turn' = [turn EXCEPT ![t].dropped = @ \cup {turn[t].pend.q, pending[turn[t].c].q},
                            ![t].pc = "need"]
    /\ UNCHANGED <<prefs, moment, started, posts, searches, asked, over, standing>>

\* needs_web, for a message that is no command: a fresh or explicit question;
\* "search koro" with nothing pending is explicit, "ha" is not.
NeedsWeb(t, needed) ==
    /\ turn[t].query = 0
    /\ turn[t].command = "none"
    /\ turn[t].kind = "question" \/ (turn[t].kind = "yes" /\ needed)

\* Mutant of MayAsk: the question is searched without asking.
NeverAsk(mode) == FALSE

MayAsk(mode) == mode = "ASK"

\* The question becomes the pending one, in place of any other.
AskFirst(t) ==
    /\ turn[t].pc = "need"
    /\ NeedsWeb(t, TRUE)
    /\ HasProvider
    /\ MayAsk(turn[t].mode)
    /\ pending' = [pending EXCEPT ![turn[t].c] = [q |-> turn[t].n, at |-> turn[t].arrived]]
    /\ asked' = asked \cup {[q |-> turn[t].n, c |-> turn[t].c, at |-> turn[t].arrived]}
    /\ turn' = [turn EXCEPT ![t].asks = TRUE, ![t].pc = "answer",
                            ![t].dropped = @ \cup {pending[turn[t].c].q}]
    /\ UNCHANGED <<prefs, moment, started, posts, searches, over, standing>>

\* The pending question was approved, or this one may be searched at once.
GoOnline(t) ==
    /\ turn[t].pc = "need"
    /\ HasProvider
    /\ \/ turn[t].query # 0 /\ Proceed(t, "search")
       \/ /\ NeedsWeb(t, TRUE) /\ ~MayAsk(turn[t].mode) /\ turn[t].mode # "DENY"
          /\ turn' = [turn EXCEPT ![t].query = turn[t].n, ![t].pc = "search"]
    /\ UNCHANGED <<prefs, pending, moment, started, posts, searches, asked, over, standing>>

\* Nothing to look up, or nothing may be.
StayLocal(t) ==
    /\ turn[t].pc = "need"
    /\ \/ ~HasProvider
       \/ turn[t].query = 0 /\ ~NeedsWeb(t, FALSE)
       \/ NeedsWeb(t, TRUE) /\ turn[t].mode = "DENY"
    /\ Proceed(t, "answer")
    /\ UNCHANGED <<prefs, pending, moment, started, posts, searches, asked, over, standing>>

\* search_with_policy: the provider is contacted.
Search(t) ==
    /\ turn[t].pc = "search"
    /\ searches' = searches \cup
          {[q |-> turn[t].query, c |-> turn[t].c, mode |-> turn[t].mode, command |-> turn[t].command,
            arrived |-> turn[t].arrived, over |-> turn[t].over]}
    /\ Proceed(t, "searched")
    /\ UNCHANGED <<prefs, pending, moment, started, posts, asked, over, standing>>

\* Mutant of Searched: the question stays pending after its search.
SearchedKept(t) ==
    /\ turn[t].pc = "searched"
    /\ turn' = [turn EXCEPT ![t].dropped = @ \cup {turn[t].query}, ![t].pc = "answer"]
    /\ UNCHANGED <<prefs, pending, moment, started, posts, searches, asked, over, standing>>

Searched(t) ==
    /\ turn[t].pc = "searched"
    /\ Pop(t)
    /\ turn' = [turn EXCEPT ![t].dropped = @ \cup {turn[t].query}, ![t].pc = "answer"]
    /\ UNCHANGED <<prefs, moment, started, posts, searches, asked, over, standing>>

Answer(t) ==
    LET k == Key(turn[t].u, turn[t].c) IN
    /\ turn[t].pc = "answer"
    /\ over' = over \cup (turn[t].dropped \ {0})
    /\ standing' = IF turn[t].asks
                     THEN [standing EXCEPT ![turn[t].c] = [q |-> turn[t].n, alone |-> turn[t].alone]]
                     ELSE standing
    /\ turn' = [turn EXCEPT ![t] = NoTurn]
    /\ UNCHANGED <<prefs, pending, moment, started, posts, searches, asked>>

-----------------------------------------------------------------------------
(***************************************************************************)
(* The routes.                                                             *)
(***************************************************************************)
\* POST /internet/mode: the page's selector.
SetMode ==
    /\ posts < MaxPosts
    /\ posts' = posts + 1
    /\ \E k \in Users \cup Conversations, mode \in Modes :
        /\ prefs' = [prefs EXCEPT ![k] = mode]
    /\ UNCHANGED <<pending, moment, turn, started, searches, asked, over, standing>>

\* A New chat is one of the things that clear a question.
Clears(c) == [t \in Runners |-> IF On(t, c) THEN [turn[t] EXCEPT !.asks = FALSE, !.expects = 0] ELSE turn[t]]

\* reset_conversation: the pending question goes, the preference stays.
Reset ==
    \E c \in Conversations :
        /\ pending[c].q # 0
        /\ over' = over \cup {pending[c].q}
        /\ pending' = [pending EXCEPT ![c] = None]
        /\ turn' = Clears(c)
        /\ standing' = [standing EXCEPT ![c].q = 0]
        /\ UNCHANGED <<prefs, moment, started, posts, searches, asked>>

ClockTicks ==
    /\ \E u \in Moments : u > moment /\ moment' = u
    /\ UNCHANGED <<prefs, pending, turn, started, posts, searches, asked, over, standing>>

TurnStep(t) ==
    \/ TurnArrives(t) \/ ReadMode(t) \/ ReadPending(t) \/ Lapse(t) \/ Decide(t) \/ Prefer(t)
    \/ Drop(t) \/ AskFirst(t) \/ GoOnline(t) \/ StayLocal(t) \/ Search(t) \/ Searched(t) \/ Answer(t)

PolicyNext ==
    \/ \E t \in Runners : TurnStep(t)
    \/ SetMode \/ Reset \/ ClockTicks

PolicySpec == PolicyInit /\ [][PolicyNext]_policyVars

-----------------------------------------------------------------------------
(***************************************************************************)
(* Properties.                                                             *)
(***************************************************************************)

\* "ASK (default): never contact a provider before permission" (the module
\* docstring): a search of a turn that goes by ASK is of a question its
\* conversation was asked about, that an approval names, and that is no older
\* than PENDING_TTL_SECONDS.
OnlyWithPermission ==
    \A s \in searches :
        s.mode = "ASK" =>
          /\ s.command = "approve"
          /\ \E a \in asked : a.q = s.q /\ a.c = s.c
          /\ \A a \in asked : a.q = s.q => s.arrived - a.at <= TTL

\* "DENY: never search until the preference changes" (the module docstring;
\* docs/PERSONAL_AI_V1.md: "Never searches").  An approval does not look at the
\* mode, so a question that was pending when the page set DENY is searched.
DenyNeverSearches == \A s \in searches : s.mode # "DENY"

\* "search the pending query once", "drop it" (the module docstring), and the
\* list of docs/PERSONAL_AI_V1.md: a question that an answered request has
\* searched, rejected, abandoned or cleared is not searched by a turn that
\* arrives later.  (Two approvals that overlap both
\* search it: the question is popped only after its search.)
SearchedAtMostOnce == \A s \in searches : s.q \notin s.over

\* "ha searches that original question, not the word ha"
\* (docs/PERSONAL_AI_V1.md): the approval that follows a permission question in
\* time searches that question, whatever happened in other conversations or on
\* the page, unless turns of the conversation overlapped, it was cleared, or
\* the turn goes by DENY (DenyNeverSearches).
ApprovalSearchesTheQuestion ==
    \A t \in Runners : \A a \in asked :
        /\ turn[t].pc = "answer" /\ turn[t].mode # "DENY"
        /\ turn[t].kind = "yes" /\ turn[t].alone
        /\ turn[t].expects = a.q
        /\ turn[t].arrived - a.at <= TTL
        => turn[t].query = a.q
=============================================================================
