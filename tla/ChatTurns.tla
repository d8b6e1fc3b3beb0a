------------------------------ MODULE ChatTurns ------------------------------
(***************************************************************************)
(* Chat turns over the shared conversations: ConversationManager of        *)
(* rupsaa/conversation/manager.py as RupsaaService.chat of                 *)
(* api/services.py uses it.  /chat runs every turn in a worker thread;     *)
(* /conversation/reset runs on the event loop, between their steps.        *)
(*                                                                         *)
(* The store's lock makes get, save and delete atomic (ConversationStore). *)
(* The Conversation object itself is shared without a lock: append_turn is *)
(* a sequence of steps, split where the interpreter may switch threads (a  *)
(* call).  The side state of a conversation is two dicts keyed by its id,  *)
(* _last_terms and _language, here the sets of their keys: a prune visits  *)
(* them in any order.                                                      *)
(***************************************************************************)
EXTENDS Integers, Sequences, FiniteSets

CONSTANTS
    Ids,               \* UUID-shaped conversation ids
    Foreign,           \* the ids of Ids that uuid4() never issues here: made up
                       \* by a browser, or issued before a restart
    Clients,           \* browsers
    Threads,           \* worker threads of the pool
    MaxConversations, IdleSeconds, Times,   \* as in ConversationStore
    MaxHistory,        \* max_history_messages
    MaxTurns,          \* bound: turns started in a behaviour
    NoId               \* no id, or one that is not UUID-shaped

ASSUME TurnsAssumption ==
    /\ MaxHistory \in Nat \ {0}
    /\ MaxTurns \in Nat
    /\ NoId \notin Ids
    /\ Foreign \subseteq Ids
    /\ IsFiniteSet(Threads)    \* the pool has a limit
    /\ MaxConversations \in Nat \ {0} /\ IdleSeconds \in Nat
    /\ Times \subseteq Nat /\ 0 \in Times

VARIABLES
    table, now,   \* the store
    issued,       \* ids of the Conversation objects that exist
    messages,     \* conversation.messages, per conversation
    listNo,       \* which list object conversation.messages is bound to
    dropped,      \* conversation.dropped_messages
    terms, lang,  \* keys of _last_terms and of _language
    turn,         \* the turn each worker thread runs
    reset,        \* the reset the event loop runs
    known,        \* the ids a browser was given
    started,      \* turns started
    overlapped,   \* history: two turns ran at the same time
    said,         \* history: messages appended to a conversation, kept or not
    raised,       \* history: a prune of the side state failed
    creator,      \* history: the browser a conversation was created for
    wasReset      \* history: conversations that were reset, and whether a turn
                  \* was working on them at that moment

Store == INSTANCE ConversationStore

store == <<table, now>>
objects == <<messages, listNo, dropped, said>>
side == <<terms, lang>>
history == <<creator, wasReset, raised>>
arrivals == <<started, overlapped>>
vars == <<store, objects, side, history, issued, turn, reset, known, arrivals>>

Message == [role : {"user", "assistant"}, by : Clients]

NoTurn == [pc |-> "none"]
NoReset == [pc |-> "none"]

Active(t) == turn[t].pc # "none"

WorksOn(t, c) == Active(t) /\ turn[t].cid = c

Goto(t, label) == turn' = [turn EXCEPT ![t].pc = label]

Init ==
    /\ Store!Init
    /\ issued = {}
    /\ messages = [c \in Ids |-> <<>>]
    /\ listNo = [c \in Ids |-> 0]
    /\ dropped = [c \in Ids |-> 0]
    /\ terms = {} /\ lang = {}
    /\ turn = [t \in Threads |-> NoTurn]
    /\ reset = NoReset
    /\ known = [b \in Clients |-> {}]
    /\ started = 0 /\ overlapped = FALSE
    /\ said = [c \in Ids |-> 0]
    /\ creator = [c \in Ids |-> NoId]
    /\ wasReset = [c \in Ids |-> "no"]
    /\ raised = FALSE

-----------------------------------------------------------------------------
(***************************************************************************)
(* get_or_create.                                                          *)
(***************************************************************************)

\* A request arrives with no usable id, an id the browser was given, or one
\* that was never issued here.
Arrive(t) ==
    /\ ~Active(t)
    /\ started < MaxTurns
    /\ \E b \in Clients :
         \E sent \in {NoId} \cup known[b] \cup Foreign :
            turn' = [turn EXCEPT ![t] =
                [pc |-> "lookup", by |-> b, cid |-> sent, kind |-> "reply",
                 list |-> 0, excess |-> 0, visit |-> {}, gone |-> {}, size |-> 0]]
    /\ started' = started + 1
    /\ overlapped' = (overlapped \/ \E u \in Threads : Active(u))
    /\ UNCHANGED <<store, objects, side, history, issued, reset, known>>

\* store.get(conversation_id) finds it: the turn continues that conversation.
Continue(t) ==
    /\ turn[t].pc = "lookup"
    /\ turn[t].cid \in Ids
    /\ Store!GetHit(turn[t].cid)
    /\ Goto(t, "answer")
    /\ UNCHANGED <<objects, side, history, issued, reset, known, arrivals>>

\* No usable id, or the store does not have it.
LookupFails(t) ==
    /\ turn[t].pc = "lookup"
    /\ IF turn[t].cid \in Ids THEN Store!GetMiss(turn[t].cid) ELSE UNCHANGED store
    /\ Goto(t, "create")
    /\ UNCHANGED <<objects, side, history, issued, reset, known, arrivals>>

\* The id of a new conversation, given the one the browser sent.
\* Mutant: adopt the browser's id.
AdoptSentId(sent) == IF sent \in Ids THEN {sent} ELSE Ids \ (issued \cup Foreign)

NewId(sent) == Ids \ (issued \cup Foreign)

\* A new conversation under a fresh uuid4 id, saved at once.
Create(t) ==
    /\ turn[t].pc = "create"
    /\ \E c \in NewId(turn[t].cid) :
        /\ issued' = issued \cup {c}
        /\ creator' = [creator EXCEPT ![c] = IF c \in issued THEN @ ELSE turn[t].by]
        /\ turn' = [turn EXCEPT ![t].cid = c, ![t].pc = "answer"]
        /\ Store!Save(c)
    /\ UNCHANGED <<objects, side, wasReset, raised, reset, known, arrivals>>

-----------------------------------------------------------------------------
(***************************************************************************)
(* append_turn.                                                            *)
(***************************************************************************)

\* The reply exists: a model reply, a fixed reply (_finish), or a refusal,
\* which is returned without being recorded.
Answer(t) ==
    /\ turn[t].pc = "answer"
    /\ \/ \E k \in {"reply", "fixed"} :
            turn' = [turn EXCEPT ![t].kind = k, ![t].pc = "user"]
       \/ Goto(t, "respond")
    /\ UNCHANGED <<store, objects, side, history, issued, reset, known, arrivals>>

\* conversation.messages.append(...): the list is fetched before the call that
\* builds the message, so another thread may rebind conversation.messages in
\* between and the message then goes to a list nobody reads any more.
FetchList(t, from, to) ==
    /\ turn[t].pc = from
    /\ turn' = [turn EXCEPT ![t].list = listNo[turn[t].cid], ![t].pc = to]
    /\ UNCHANGED <<store, objects, side, history, issued, reset, known, arrivals>>

AppendTo(t, from, role, to) ==
    LET c == turn[t].cid IN
    /\ turn[t].pc = from
    /\ messages' = IF turn[t].list = listNo[c]
                     THEN [messages EXCEPT ![c] = Append(@, [role |-> role, by |-> turn[t].by])]
                     ELSE messages
    /\ said' = [said EXCEPT ![c] = @ + 1]
    /\ Goto(t, to)
    /\ UNCHANGED <<store, listNo, dropped, side, history, issued, reset, known, arrivals>>

FetchForUser(t) == FetchList(t, "user", "user_append")
AppendUser(t) == AppendTo(t, "user_append", "user", "assistant")
FetchForAssistant(t) == FetchList(t, "assistant", "assistant_append")
AppendAssistant(t) == AppendTo(t, "assistant_append", "assistant", "measure")

\* if len(conversation.messages) > self.max_history_messages
Measure(t) ==
    /\ turn[t].pc = "measure"
    /\ Goto(t, IF Len(messages[turn[t].cid]) > MaxHistory THEN "overflow" ELSE "save")
    /\ UNCHANGED <<store, objects, side, history, issued, reset, known, arrivals>>

\* overflow = len(conversation.messages) - self.max_history_messages
Overflow(t) ==
    /\ turn[t].pc = "overflow"
    /\ turn' = [turn EXCEPT ![t].excess = Len(messages[turn[t].cid]) - MaxHistory,
                            ![t].pc = "trim"]
    /\ UNCHANGED <<store, objects, side, history, issued, reset, known, arrivals>>

\* The last n messages.  Mutant: one too many.
OneTooMany(s, n) == SubSeq(s, IF Len(s) <= n THEN 1 ELSE Len(s) - n, Len(s))

LastMessages(s, n) == SubSeq(s, IF Len(s) <= n THEN 1 ELSE Len(s) - n + 1, Len(s))

\* dropped_messages += overflow, then the slice becomes a new list.
\* Mutant: the counter is forgotten.
TrimUncounted(t) ==
    LET c == turn[t].cid IN
    /\ turn[t].pc = "trim"
    /\ messages' = [messages EXCEPT ![c] = LastMessages(@, MaxHistory)]
    /\ listNo' = [listNo EXCEPT ![c] = @ + 1]
    /\ Goto(t, "save")
    /\ UNCHANGED <<store, dropped, said, side, history, issued, reset, known, arrivals>>

Trim(t) ==
    LET c == turn[t].cid IN
    /\ turn[t].pc = "trim"
    /\ dropped' = [dropped EXCEPT ![c] = @ + turn[t].excess]
    /\ messages' = [messages EXCEPT ![c] = LastMessages(@, MaxHistory)]
    /\ listNo' = [listNo EXCEPT ![c] = @ + 1]
    /\ Goto(t, "save")
    /\ UNCHANGED <<store, said, side, history, issued, reset, known, arrivals>>

\* self.store.save(conversation), whatever happened to it meanwhile.
SaveTurn(t) ==
    /\ turn[t].pc = "save"
    /\ Store!Save(turn[t].cid)
    /\ Goto(t, IF turn[t].kind = "reply" THEN "terms" ELSE "respond")
    /\ UNCHANGED <<objects, side, history, issued, reset, known, arrivals>>

-----------------------------------------------------------------------------
(***************************************************************************)
(* Follow-up state of the turn, and _prune_side_state.                     *)
(***************************************************************************)

\* _last_terms: set, dropped, or left alone (a follow-up or recall turn).
NoteTerms(t) ==
    /\ turn[t].pc = "terms"
    /\ terms' \in {terms \cup {turn[t].cid}, terms \ {turn[t].cid}, terms}
    /\ Goto(t, "lang")
    /\ UNCHANGED <<store, objects, lang, history, issued, reset, known, arrivals>>

\* _language: set, or dropped.
NoteLanguage(t) ==
    /\ turn[t].pc = "lang"
    /\ lang' \in {lang \cup {turn[t].cid}, lang \ {turn[t].cid}}
    /\ Goto(t, "prune")
    /\ UNCHANGED <<store, objects, terms, history, issued, reset, known, arrivals>>

OverSideLimit == Cardinality(terms) + Cardinality(lang) > 2 * MaxConversations

StartPrune(t) ==
    /\ turn[t].pc = "prune"
    /\ IF OverSideLimit
         THEN turn' = [turn EXCEPT ![t].visit = terms, ![t].size = Cardinality(terms),
                                   ![t].gone = {}, ![t].pc = "visit_terms"]
         ELSE Goto(t, "respond")
    /\ UNCHANGED <<store, objects, side, history, issued, reset, known, arrivals>>

\* One step of [c for c in side if store.get(c) is None]: the get refreshes
\* the conversation it finds.
Visit(t, label, keys) ==
    /\ turn[t].pc = label
    /\ Cardinality(keys) = turn[t].size
    /\ \E c \in turn[t].visit :
        \/ /\ Store!GetHit(c)
           /\ turn' = [turn EXCEPT ![t].visit = @ \ {c}]
        \/ /\ Store!GetMiss(c)
           /\ turn' = [turn EXCEPT ![t].visit = @ \ {c}, ![t].gone = @ \cup {c}]
    /\ UNCHANGED <<objects, side, history, issued, reset, known, arrivals>>

\* Another thread added or removed a key since the iteration began: the dict
\* raises RuntimeError and the request ends in a 500.
PruneRaises(t, label, keys) ==
    /\ turn[t].pc = label
    /\ Cardinality(keys) # turn[t].size
    /\ turn' = [turn EXCEPT ![t] = NoTurn]
    /\ raised' = TRUE
    /\ UNCHANGED <<store, objects, side, creator, wasReset, issued, reset, known, arrivals>>

\* Mutant: the keys found to be gone are never popped.
KeptAll(keys, t) == keys

Kept(keys, t) == keys \ turn[t].gone

PopTerms(t) ==
    /\ turn[t].pc = "visit_terms"
    /\ Cardinality(terms) = turn[t].size
    /\ turn[t].visit = {}
    /\ terms' = Kept(terms, t)
    /\ turn' = [turn EXCEPT ![t].visit = lang, ![t].size = Cardinality(lang),
                            ![t].gone = {}, ![t].pc = "visit_lang"]
    /\ UNCHANGED <<store, objects, lang, history, issued, reset, known, arrivals>>

PopLang(t) ==
    /\ turn[t].pc = "visit_lang"
    /\ Cardinality(lang) = turn[t].size
    /\ turn[t].visit = {}
    /\ lang' = Kept(lang, t)
    /\ Goto(t, "respond")
    /\ UNCHANGED <<store, objects, terms, history, issued, reset, known, arrivals>>

Prune(t) ==
    \/ StartPrune(t)
    \/ Visit(t, "visit_terms", terms) \/ PruneRaises(t, "visit_terms", terms) \/ PopTerms(t)
    \/ Visit(t, "visit_lang", lang) \/ PruneRaises(t, "visit_lang", lang) \/ PopLang(t)

\* The response tells the browser the id of its conversation.
Respond(t) ==
    /\ turn[t].pc = "respond"
    /\ known' = [known EXCEPT ![turn[t].by] = @ \cup {turn[t].cid}]
    /\ turn' = [turn EXCEPT ![t] = NoTurn]
    /\ UNCHANGED <<store, objects, side, history, issued, reset, arrivals>>

-----------------------------------------------------------------------------
(***************************************************************************)
(* reset_conversation: one reset at a time, it runs on the event loop.     *)
(***************************************************************************)
ResetDelete ==
    /\ reset.pc = "none"
    /\ \E b \in Clients : \E c \in known[b] :
        /\ Store!Delete(c)
        /\ reset' = [pc |-> "terms", cid |-> c,
                     how |-> IF \E t \in Threads : WorksOn(t, c) THEN "racing" ELSE "alone"]
    /\ UNCHANGED <<objects, side, history, issued, turn, known, arrivals>>

ResetTerms ==
    /\ reset.pc = "terms"
    /\ terms' = terms \ {reset.cid}
    /\ reset' = [reset EXCEPT !.pc = "lang"]
    /\ UNCHANGED <<store, objects, lang, history, issued, turn, known, arrivals>>

\* Mutant: the language choice is not cleared.
ResetLangForgotten ==
    /\ reset.pc = "lang"
    /\ reset' = NoReset
    /\ wasReset' = [wasReset EXCEPT ![reset.cid] = reset.how]
    /\ UNCHANGED <<store, objects, side, creator, raised, issued, turn, known, arrivals>>

ResetLang ==
    /\ reset.pc = "lang"
    /\ lang' = lang \ {reset.cid}
    /\ reset' = NoReset
    /\ wasReset' = [wasReset EXCEPT ![reset.cid] = reset.how]
    /\ UNCHANGED <<store, objects, terms, creator, raised, issued, turn, known, arrivals>>

ClockTicks ==
    /\ \E t \in Times : Store!Tick(t)
    /\ UNCHANGED <<objects, side, history, issued, turn, reset, known, arrivals>>

TurnStep(t) ==
    \/ Continue(t) \/ LookupFails(t) \/ Create(t) \/ Answer(t)
    \/ FetchForUser(t) \/ AppendUser(t) \/ FetchForAssistant(t) \/ AppendAssistant(t)
    \/ Measure(t) \/ Overflow(t) \/ Trim(t) \/ SaveTurn(t)
    \/ NoteTerms(t) \/ NoteLanguage(t) \/ Prune(t) \/ Respond(t)

Next ==
    \/ \E t \in Threads : Arrive(t) \/ TurnStep(t)
    \/ ResetDelete \/ ResetTerms \/ ResetLang
    \/ ClockTicks

Spec == Init /\ [][Next]_vars

-----------------------------------------------------------------------------
(***************************************************************************)
(* Properties.                                                             *)
(***************************************************************************)
Labels == {"none", "lookup", "create", "answer", "user", "user_append", "assistant",
           "assistant_append", "measure", "overflow", "trim", "save", "terms", "lang",
           "prune", "visit_terms", "visit_lang", "respond"}

\* Types of the shared state and of the running turns.
TypeOK ==
    /\ Store!StoreInv
    /\ issued \subseteq Ids
    /\ messages \in [Ids -> Seq(Message)]
    /\ listNo \in [Ids -> Nat] /\ dropped \in [Ids -> Nat] /\ said \in [Ids -> Nat]
    /\ terms \subseteq Ids /\ lang \subseteq Ids
    /\ \A t \in Threads : turn[t].pc \in Labels
    /\ known \in [Clients -> SUBSET Ids]

\* Nothing is running.
Quiet == reset.pc = "none" /\ \A t \in Threads : ~Active(t)

Cleared(c) == ~Store!Has(table, c) /\ c \notin terms \cup lang

\* The appending steps of a turn on c.
Appending(c) ==
    \E t \in Threads :
        /\ WorksOn(t, c)
        /\ turn[t].pc \in {"assistant", "assistant_append", "measure", "overflow", "trim"}

\* "so a conversation cannot grow the prompt unbounded" (the module docstring):
\* once no turn is appending to it, a history is within its cap, however many
\* turns appended to it at the same time.
HistoryBounded ==
    \A c \in Ids : ~Appending(c) => Len(messages[c]) <= MaxHistory

\* get_or_create's docstring: no browser's words end up in the history of a
\* conversation that was created for another, whatever ids they send.
OwnHistoryOnly ==
    \A c \in Ids : \A i \in 1..Len(messages[c]) : messages[c][i].by = creator[c]

\* A recall question is answered as if nothing were missing exactly when
\* nothing is: dropped_messages is zero while the history is complete, also
\* when turns race on one conversation.
HonestTruncation ==
    \A c \in Ids : dropped[c] = 0 <=> Len(messages[c]) = said[c]

\* _prune_side_state keeps the follow-up state within 2 * max_conversations
\* keys when turns run one at a time.  A prune that others overtake may keep a
\* key of each dict per other thread (a conversation it saw alive is dropped
\* right after), never more, unless a prune failed.
SideStateBounded ==
    Quiet /\ ~raised =>
        Cardinality(terms) + Cardinality(lang) <= 2 * (MaxConversations + IF overlapped THEN Cardinality(Threads) - 1 ELSE 0)

\* reset_conversation's docstring: "New chat: conversation context, active
\* topic ... are cleared", for good if no turn was working on the conversation.
ResetIsFinal ==
    \A c \in Ids : wasReset[c] = "alone" => Cleared(c)
=============================================================================
