------------------------------ MODULE MCStores ------------------------------
(***************************************************************************)
(* What the server keeps.  In memory: the conversation store, the rate     *)
(* limiter, the owner's sessions with their failed attempts.  In files,    *)
(* from the owner's pages to the sources of an answer: the pages, the      *)
(* record stores, the documents with their index, the cutting of a         *)
(* document, the topics of a chat, the web evidence, and the user memory   *)
(* without the unlocked forget.  They share no state here, so a behaviour  *)
(* is one of theirs; the others stand still.                               *)
(***************************************************************************)
EXTENDS MCConversationStore, RateLimiter, OwnerAuth,
        KnowledgeStore, KnowledgeDocuments, OwnerPages, Chunking, Topics, WebEvidence, UserMemory

VARIABLE part

tablesVars == <<mcVars, limiterVars, authVars>>
filesVars == <<knowledgeVars, documentVars, pagesVars, chunkVars, topicVars, evidenceVars, memoryVars>>

\* What the messages of a chat can be.
Plainly == [memory |-> FALSE, followup |-> FALSE, knowledge |-> FALSE, smalltalk |-> FALSE, short |-> FALSE, question |-> FALSE,
            brief |-> FALSE, fresh |-> FALSE, asked |-> NoName, whole |-> NoName, mentions |-> {}, means |-> NoName, closer |-> FALSE,
            aside |-> FALSE, dancing |-> FALSE, language |-> NoLanguage, lasting |-> FALSE]
Asks(name, mentions) == [Plainly EXCEPT !.asked = name, !.question = TRUE, !.mentions = mentions]
ChatMessages == {
    [Plainly EXCEPT !.smalltalk = TRUE],
    Asks("consent", {"consent"}),
    Asks("stirp", {}),
    [Plainly EXCEPT !.question = TRUE, !.mentions = {"consent", "full consent", "locking"}],
    [Plainly EXCEPT !.question = TRUE, !.mentions = {"strip", "consent"}],
    [Plainly EXCEPT !.followup = TRUE, !.mentions = {"reveal"}, !.language = "bn"],
    [Plainly EXCEPT !.followup = TRUE],
    [Plainly EXCEPT !.short = TRUE, !.whole = "full consent", !.mentions = {"full consent", "consent"}],
    [Plainly EXCEPT !.short = TRUE, !.question = TRUE, !.brief = TRUE],
    [Plainly EXCEPT !.short = TRUE, !.dancing = TRUE, !.mentions = {"locking"}, !.language = "en", !.lasting = TRUE],
    [Plainly EXCEPT !.memory = TRUE],
    [Plainly EXCEPT !.knowledge = TRUE, !.mentions = {"strip"}, !.aside = TRUE, !.means = "full consent", !.closer = TRUE]}
WithinPairs == {<<"consent", "full consent">>}
Typos == {<<"stirp", "strip">>}

\* What a search and the index can answer.
Page(u, c) == [url |-> u, class |-> c]
Health == Page("scarleteen", "health")
Reference == Page("wikipedia", "reference")
Community == Page("reddit", "community")
Other == Page("blog", "other")
Pages == {<<Reference>>, <<Community, Other, Reference>>, <<Page("wattpad", "fiction"), Other, Health>>,
          <<Page("alice", "qa"), Reference, Health>>, <<Health, Page("nhs", "health"), Community>>}
Hit(n, s, hidden, shares) == [piece |-> n, score |-> s, hidden |-> hidden, shares |-> shares]
Hits == {{}, {Hit(1, 79, TRUE, FALSE), Hit(2, 74, FALSE, TRUE)}, {Hit(1, 71, FALSE, TRUE)},
         {Hit(1, 79, FALSE, FALSE), Hit(2, 74, FALSE, TRUE), Hit(3, 76, FALSE, TRUE)},
         {Hit(1, 80, TRUE, FALSE), Hit(2, 79, FALSE, TRUE), Hit(3, 78, FALSE, TRUE), Hit(4, 78, FALSE, FALSE), Hit(5, 80, TRUE, TRUE)},
         {Hit(1, 80, TRUE, FALSE), Hit(2, 77, FALSE, TRUE), Hit(3, 77, FALSE, FALSE), Hit(4, 75, FALSE, TRUE)}}

ShortTexts == UNION {[1..n -> {1, 2, 4, 5, 6, 11}] : n \in 1..3}

Initially == CHOOSE t \in ChunkTexts : Len(t) = 1 /\ t[1] = 1
StoresInit ==
    /\ part \in {"store", "limiter", "owner",
                "records", "documents", "pages", "chunks", "topics", "evidence", "memory"}
    /\ MCInit /\ LimiterInit /\ AuthInit
    /\ DocumentsInit /\ (part # "documents" => seeded = {} /\ ~generalDir)
    /\ PagesInit /\ (part # "pages" => script = "terms" /\ server = {})
    /\ EvidenceInit /\ (part # "evidence" => provider = "brave")
    /\ ChunkInit /\ (part # "chunks" => text = Initially /\ verdict = "refused")
    /\ TopicsInit /\ MemoryInit
    /\ KnowledgeInit /\ (part # "records" => kind = "general" /\ \A id \in RecordIds : ~Exists(id))

TablesNext ==
    \/ part = "store" /\ MCNext /\ UNCHANGED <<limiterVars, authVars>>
    \/ part = "limiter" /\ LimiterNext /\ UNCHANGED <<mcVars, authVars>>
    \/ part = "owner" /\ AuthNext /\ UNCHANGED <<mcVars, limiterVars>>

FilesNext ==
    \/ /\ part = "records" /\ KnowledgeNext
       /\ UNCHANGED <<documentVars, pagesVars, chunkVars, topicVars, evidenceVars, memoryVars>>
    \/ /\ part = "documents" /\ DocumentsNext
       /\ UNCHANGED <<knowledgeVars, pagesVars, chunkVars, topicVars, evidenceVars, memoryVars>>
    \/ /\ part = "pages" /\ PagesNext
       /\ UNCHANGED <<knowledgeVars, documentVars, chunkVars, topicVars, evidenceVars, memoryVars>>
    \/ /\ part = "chunks" /\ ChunkNext
       /\ UNCHANGED <<knowledgeVars, documentVars, pagesVars, topicVars, evidenceVars, memoryVars>>
    \/ /\ part = "topics" /\ TopicsNext
       /\ UNCHANGED <<knowledgeVars, documentVars, pagesVars, chunkVars, evidenceVars, memoryVars>>
    \/ /\ part = "evidence" /\ EvidenceNext
       /\ UNCHANGED <<knowledgeVars, documentVars, pagesVars, chunkVars, topicVars, memoryVars>>
    \/ /\ part = "memory" /\ MemoryNext
       /\ UNCHANGED <<knowledgeVars, documentVars, pagesVars, chunkVars, topicVars, evidenceVars>>

StoresNext ==
    \/ TablesNext /\ UNCHANGED <<filesVars, part>>
    \/ FilesNext /\ UNCHANGED <<tablesVars, part>>

\* The cutting of a text goes on by itself.
StoresSpec ==
    /\ StoresInit /\ [][StoresNext]_<<tablesVars, filesVars, part>>
    /\ WF_chunkVars(part = "chunks" /\ ChunkNext)
=============================================================================
