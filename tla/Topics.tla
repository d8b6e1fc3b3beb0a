-------------------------------- MODULE Topics --------------------------------
(***************************************************************************)
(* What a chat turn is told before the model answers, and what the next    *)
(* turn inherits: the router (rupsaa/rag/router.py), the look-up in the    *)
(* three stores of the owner (match_records of rupsaa/rag/terminology.py   *)
(* with the lookup of each store), the choice between their entries        *)
(* (rupsaa/rag/context_builder.py) and the language the user asked for     *)
(* (rupsaa/conversation/language_control.py), of one conversation.         *)
(*                                                                         *)
(* A turn reads the topic and the language left by earlier turns, then the *)
(* model answers, then it records its own (RupsaaService.chat); turns of   *)
(* one conversation may overlap, and the owner switches entries off and on *)
(* meanwhile.                                                              *)
(*                                                                         *)
(* An entry is the name it is known by.  A message is a record of what the *)
(* patterns see in it:                                                     *)
(*   memory, followup, knowledge, smalltalk, short, question, fresh        *)
(*   asked     what a definition question is about, or NoName              *)
(*   whole     the name that is the whole of the message, or NoName        *)
(*   mentions  the names it contains as whole phrases                      *)
(*   means     the general entry it is closest to by meaning, if that is   *)
(*             close enough and its name is covered, or NoName             *)
(*   closer    that one is clearly closer than the names it contains       *)
(*   aside     its context is technical or culinary                        *)
(*   dancing   it talks of dancing, or of the origin of what it names      *)
(*   brief     at most six words, not about Rupsaa, and a question or a    *)
(*             sentence that goes on with "and"                            *)
(*   language  the language it asks for, or NoLanguage; lasting: for good  *)
(***************************************************************************)
EXTENDS Integers, FiniteSets

CONSTANTS
    Terms, Dances, Generals,  \* the entries of the three stores
    Within,                   \* pairs of names: the first is part of the second
    Misspelt,                 \* pairs: what was typed, the entry one edit away
    CommonNames,              \* names made of everyday words
    NoName, NoLanguage,
    TopicMessages,            \* the messages a user may send
    Chats,                    \* requests served at the same time
    MaxAsked, MaxSwitched     \* bounds: turns, and switches by the owner

\* An entry belongs to one store. A proper part of a part is one, and the longest of some names is part of none of them.
ASSUME TopicsAssumption ==
  /\ IsFiniteSet(Terms) /\ IsFiniteSet(Dances) /\ IsFiniteSet(Generals)
  /\ Terms \cap Dances = {} /\ Terms \cap Generals = {} /\ Dances \cap Generals = {}
  /\ NoName \notin Terms \cup Dances \cup Generals
  /\ \A v, w \in Within : v[2] = w[1] => <<v[1], w[2]>> \in Within
  /\ \A names \in SUBSET Generals : names # {} => \E n \in names : \A o \in names : <<n, o>> \notin Within

VARIABLES
    enabled,    \* the entries that are switched on
    topic,      \* _last_terms of the conversation: the entries of the last turn
    language,   \* _language of the conversation: [wanted, lasting], or NoLanguage
    chat,       \* request -> the turn it serves
    asked, switched
topicVars == <<enabled, topic, language, chat, asked, switched>>

Limit == 2
Stores == {Terms, Dances, Generals}
NoTurnYet == [message |-> NoName]

-----------------------------------------------------------------------------
(* The router *)

\* classify_message: the first pattern that fits decides.
RouteOf(m) ==
  IF m.memory                    THEN "memory"
  ELSE IF m.followup             THEN "followup"
  ELSE IF m.asked # NoName       THEN "terminology"
  ELSE IF m.knowledge            THEN "knowledge"
  ELSE IF m.smalltalk \/ m.short THEN "casual" ELSE "general"

UseTerminology(m) == RouteOf(m) \in {"terminology", "knowledge", "general"}

\* _lookup_mode
LookupMode(m) ==
  IF RouteOf(m) \in {"memory", "followup"} \/ m.smalltalk THEN "none"
  ELSE IF RouteOf(m) = "casual" /\ ~m.question THEN "exact" ELSE "full"

-----------------------------------------------------------------------------
(* The look-up: a match is [entry, how, score] *)

\* The evidence for one entry, the strongest first.
Evidence(entry, m, candidate) ==
  CASE candidate = entry            -> {[entry |-> entry, how |-> "exact", score |-> 100]}
    [] candidate # entry /\ entry \in m.mentions
                                    -> {[entry |-> entry, how |-> "phrase", score |-> IF candidate = NoName THEN 90 ELSE 75]}
    [] candidate # entry /\ entry \notin m.mentions /\ <<candidate, entry>> \in Misspelt /\ candidate \notin CommonNames
                                    -> {[entry |-> entry, how |-> "fuzzy", score |-> 80]}
    [] OTHER                        -> {}

\* At most Limit of them, by score; ties in the order of the files.
Best(matches, limit) ==
  IF Cardinality(matches) <= limit THEN matches
  ELSE CHOOSE s \in SUBSET matches : /\ Cardinality(s) = limit
                                     /\ \A a \in s, b \in matches \ s : a.score >= b.score

\* match_records: a name that is only part of a longer one that was found is not what was meant.
MatchRecords(entries, m, candidate) ==
  LET all == UNION {Evidence(entry, m, candidate) : entry \in entries}
      asIs == {a \in all : ~(/\ a.how = "phrase" /\ \E b \in all : b.how = "exact"
                             /\ <<a.entry, candidate>> \in Within)}
  IN {a \in asIs : ~(a.how = "phrase" /\ \E b \in asIs : b.how \in {"exact", "phrase"} /\ <<a.entry, b.entry>> \in Within)}

\* DanceStore.lookup: a name made of everyday words counts only in talk of dancing.
Guarded(a) == a.how = "phrase" /\ a.entry \in CommonNames

\* TerminologyStore.lookup, DanceStore.lookup
Lookup(store, m, candidate) ==
  LET matches == MatchRecords(store \cap enabled, m, candidate)
  IN IF store = Dances
     THEN Best({a \in matches : Guarded(a) => m.dancing \/ \E b \in matches : ~Guarded(b)}, Limit)
     ELSE {a \in Best(matches, Limit) : m.aside => a.how = "exact"}

\* GeneralKnowledgeStore.lookup: a name that is asked for exactly is never overridden, another one may be.
LookupGeneral(m, candidate, semantic) ==
  LET matches == MatchRecords(Generals \cap enabled, m, candidate)
      meant == {[entry |-> g, how |-> "semantic", score |-> 95] : g \in {m.means} \cap Generals \cap enabled}
  IN CASE ~semantic \/ \E a \in matches : a.how = "exact" -> Best(matches, Limit)
       [] OTHER -> IF matches = {} \/ (m.closer /\ \A a \in matches : a.entry # m.means)
                   THEN Best(matches, Limit - Cardinality(meant)) \cup meant
                   ELSE Best(matches, Limit)

Named(matches) == {a \in matches : a.how \in {"exact", "fuzzy"}}

-----------------------------------------------------------------------------
(* What the turn is given (build_turn_knowledge) *)

\* Mutant of Carried: switched-off entries are carried on.
CarriedWithDisabled(store, previous) == {[entry |-> e, how |-> "carried", score |-> 100] : e \in store \cap previous}

\* Entries of earlier turns, when they are still switched on.
Carried(store, previous) == {[entry |-> e, how |-> "carried", score |-> 100] : e \in store \cap previous \cap enabled}

\* Mutant of JoinCarried: what the message names pushes the topic out.
JoinNamedFirst(carried, found) == Best(found, Limit) \cup Best(carried, Limit - Cardinality(Best(found, Limit)))

\* A follow-up keeps the entries of the turn before; one that it names itself joins them if there is room.
JoinCarried(carried, found) ==
  Best(carried, Limit) \cup Best({a \in found : \A c \in carried : c.entry # a.entry}, Limit - Cardinality(Best(carried, Limit)))

\* _reference_matches
ReferenceMatches(store, m, previous) ==
  CASE RouteOf(m) = "followup"                                   -> JoinCarried(Carried(store, previous), Lookup(store, m, NoName))
    [] UseTerminology(m)                                         -> Lookup(store, m, m.asked)
    [] LookupMode(m) = "full" /\ ~UseTerminology(m)              -> Lookup(store, m, m.whole)
    [] LookupMode(m) = "exact"                                   -> Named(Lookup(store, m, m.whole))
    [] OTHER                                                     -> {}

\* A casual message that talks of dancing is looked up all the same.
DanceMatches(m, previous) ==
  LET found == ReferenceMatches(Dances, m, previous)
  IN IF found = {} /\ RouteOf(m) = "casual" /\ m.dancing THEN Lookup(Dances, m, NoName) ELSE found

\* The general entries whose name says more than what the two other stores found.
Specific(m, found) ==
  {g \in LookupGeneral(m, m.asked, FALSE) : g.how = "exact" \/ \E a \in found : <<a.entry, g.entry>> \in Within}

Looser(found, specific) == {a \in found : \E g \in specific : <<a.entry, g.entry>> \in Within}

\* Mutant of Preferred: the looser phrase stays beside the specific name.
KeepsLooser(m, found) ==
  CASE found = {}                          -> LookupGeneral(m, m.asked, TRUE)
    [] \E a \in found : a.how = "exact"    -> found
    [] OTHER                               -> found \cup Specific(m, found)

\* The choice between what the two specialised stores found and general knowledge.
Preferred(m, found) ==
  CASE found = {}                          -> LookupGeneral(m, m.asked, TRUE)
    [] \E a \in found : a.how = "exact"    -> found
    [] OTHER                               -> (found \ Looser(found, Specific(m, found))) \cup Specific(m, found)

Found(m, previous) ==
  IF RouteOf(m) = "memory" THEN {}
  ELSE LET specialised == ReferenceMatches(Terms, m, previous) \cup DanceMatches(m, previous)
       IN CASE RouteOf(m) = "followup"   -> specialised \cup Best(Carried(Generals, previous), Limit)
            [] LookupMode(m) = "exact"   -> IF specialised = {} THEN Named(LookupGeneral(m, m.whole, FALSE)) ELSE specialised
            [] LookupMode(m) = "full"    -> Preferred(m, specialised)
            [] OTHER                     -> specialised

\* A short question that names nothing of its own goes on about the topic.
Elliptical(m) == m.brief /\ ~m.smalltalk /\ ~m.fresh /\ (m.asked = NoName \/ m.asked \in CommonNames)

Knowledge(m, previous) ==
  IF Found(m, previous) = {} /\ RouteOf(m) \notin {"memory", "followup"} /\ Elliptical(m)
  THEN UNION {Best(Carried(store, previous), Limit) : store \in Stores}
  ELSE Found(m, previous)

-----------------------------------------------------------------------------
(* The language of the turn and the choice to keep (resolve_turn_language) *)

\* Mutant of ResolveLanguage: a lasting choice lasts a turn.
LanguageForgotten(m, state) ==
  CASE m.language # NoLanguage -> [wanted |-> m.language, lasting |-> m.lasting]
    [] m.language = NoLanguage /\ state # NoLanguage /\ RouteOf(m) \in {"followup", "memory"} -> state
    [] OTHER -> NoLanguage

ResolveLanguage(m, state) ==
  CASE m.language # NoLanguage -> [wanted |-> m.language, lasting |-> m.lasting]
    [] m.language = NoLanguage /\ state # NoLanguage -> IF state.lasting \/ RouteOf(m) \in {"followup", "memory"} THEN state ELSE NoLanguage
    [] OTHER -> NoLanguage

-----------------------------------------------------------------------------
(* Turns *)

TopicsInit ==
  /\ enabled = Terms \cup Dances \cup Generals
  /\ topic = {} /\ language = NoLanguage
  /\ chat = [c \in Chats |-> NoTurnYet]
  /\ asked = 0 /\ switched = 0

\* The owner switches an entry off or on.
Switch(entry) ==
  /\ switched < MaxSwitched
  /\ switched' = switched + 1
  /\ enabled' = IF entry \in enabled THEN enabled \ {entry} ELSE enabled \cup {entry}
  /\ UNCHANGED <<topic, language, chat, asked>>

\* The turn reads what it inherits and looks its message up; then it waits for the model.
BeginTurn(c, m) ==
  /\ chat[c] = NoTurnYet /\ asked < MaxAsked
  /\ asked' = asked + 1
  /\ LET matches == Knowledge(m, topic)
     IN chat' = [chat EXCEPT ![c] = [message |-> m, used |-> {a.entry : a \in matches}, language |-> ResolveLanguage(m, language),
                                     inherited |-> language]]
  /\ UNCHANGED <<enabled, topic, language, switched>>

\* The reply is recorded and with it what the next turn inherits.
RecordTurn(c) ==
  /\ chat[c] # NoTurnYet
  /\ topic' = CASE chat[c].used # {} -> chat[c].used
                [] chat[c].used = {} -> IF RouteOf(chat[c].message) \in {"followup", "memory"} THEN topic ELSE {}
  /\ language' = chat[c].language
  /\ chat' = [chat EXCEPT ![c] = NoTurnYet]
  /\ UNCHANGED <<enabled, asked, switched>>

\* A reply that the boundary check refuses leaves no trace.
RefuseTurn(c) ==
  /\ chat[c] # NoTurnYet
  /\ chat' = [chat EXCEPT ![c] = NoTurnYet]
  /\ UNCHANGED <<enabled, topic, language, asked, switched>>

TopicsNext ==
  \/ \E entry \in UNION Stores : Switch(entry)
  \/ \E c \in Chats : RecordTurn(c) \/ RefuseTurn(c) \/ \E m \in TopicMessages : BeginTurn(c, m)

TopicsSpec == TopicsInit /\ [][TopicsNext]_topicVars

-----------------------------------------------------------------------------
(* Properties *)

Begins(c) == chat[c] = NoTurnYet /\ chat'[c] # NoTurnYet

\* What the owner has switched off is never given to the model, however often its topic was carried on.
OnlyLiveEntries == [][\A c \in Chats : Begins(c) => chat'[c].used \subseteq enabled]_topicVars

\* A follow-up is about everything the turn before was about, what else it names notwithstanding.
FollowUpKeepsTopic ==
  [][\A c \in Chats : Begins(c) /\ RouteOf(chat'[c].message) = "followup" => topic \cap enabled \subseteq chat'[c].used]_topicVars

\* "a sticky choice lasts until the user asks for another language" (language_control.py:78), but for a turn that was under
\* way when the choice was recorded.
ChoiceLasts ==
  [][\A c \in Chats : /\ language # NoLanguage /\ language' # language
                      /\ chat[c] # NoTurnYet /\ chat'[c] = NoTurnYet
                      => \/ ~language.lasting /\ RouteOf(chat[c].message) \notin {"followup", "memory"}
                         \/ chat[c].message.language # NoLanguage
                         \/ chat[c].inherited # language]_topicVars

\* "A more specific General Knowledge name beats a looser specialised phrase hit" (context_builder.py:104): an entry whose
\* name is only a part of a general entry's name in the message is not used beside or instead of it; but for a message that is
\* about an entry by its exact name or by its meaning, or has more general names than a look-up returns.
NoLooserEntry(m, used) ==
  LookupMode(m) = "full" /\ {m.asked, m.whole} \cap used = {} /\ Cardinality(MatchRecords(Generals \cap enabled, m, m.asked)) <= Limit =>
    \A e \in used \ {m.means}, g \in Generals \cap enabled \cap m.mentions : <<e, g>> \in Within => e \notin m.mentions
SpecificWins == [][\A c \in Chats : Begins(c) => NoLooserEntry(chat'[c].message, chat'[c].used)]_topicVars

\* A turn goes on where the conversation is: with its topic as the owner keeps it, the entry that is meant, its language.
TurnsFollowOn == OnlyLiveEntries /\ FollowUpKeepsTopic /\ SpecificWins /\ ChoiceLasts
=============================================================================
