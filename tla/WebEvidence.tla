------------------------------ MODULE WebEvidence ------------------------------
(***************************************************************************)
(* What evidence a turn gets from outside the model: pages of a permitted  *)
(* web search (rupsaa/rag/web_search.py) in the order of trust             *)
(* (rupsaa/rag/source_policy.py), and pieces of the owner's documents      *)
(* (query and filter_results of rupsaa/rag/pipeline.py).                   *)
(*                                                                         *)
(* A page is [url, class], the class of its domain; the search engine      *)
(* answers with one of WebAnswers.  A piece of the index is                *)
(* [piece, score, hidden, shares]: its score for the question, hidden for  *)
(* a file of the tooling, shares when it has a word in common with the     *)
(* question.  One of IndexAnswers is the whole index, scored.              *)
(***************************************************************************)
EXTENDS Integers, Sequences, FiniteSets, SequencesExt, Ordering

CONSTANTS
    WebAnswers,     \* what the engine may find, in its order
    WebQueries,
    MaxResults,     \* MAX_RESULTS
    CacheTime,      \* cache_seconds of the provider, in ticks
    MaxTime,        \* bound: ticks
    IndexAnswers,   \* what the index may hold, scored for a question
    TopK,           \* top_k
    MinScore, Margin    \* min_score, relative_margin

PageClasses == {"health", "reference", "qa", "other", "community", "fiction"}

\* An engine finds a page once, a cache that forgets at once is none, and scores are numbers.
ASSUME EvidenceAssumption ==
  /\ WebAnswers \subseteq Seq(UNION {ToSet(w) : w \in WebAnswers})
  /\ \A w \in WebAnswers : \A i \in DOMAIN w : w[i].class \in PageClasses /\ \A j \in DOMAIN w : i # j => w[i] # w[j]
  /\ {MaxResults, CacheTime, TopK, Margin} \subseteq Nat /\ CacheTime > 0
  /\ MinScore \in Int /\ \A found \in IndexAnswers : IsFiniteSet(found) /\ \A p \in found : p.score \in Int

VARIABLES
    provider,   \* "wikipedia", which caches, or "brave", which can be asked for sites
    cached,     \* query -> [at, pages] of the last look-up, or NotLookedUp
    time,
    shown,      \* the pages of the last search: [topic, retrieved, pages, age]
    pieces      \* the last document look-up: [strict, found, kept], the index and what was taken from it
evidenceVars == <<provider, cached, time, shown, pieces>>

NotLookedUp == [at |-> -1]
NothingShown == [topic |-> "none", retrieved |-> {}, pages |-> <<>>, age |-> 0]
NoPieces == [strict |-> FALSE, found |-> {}, kept |-> {}]

-----------------------------------------------------------------------------
(* Trust *)

PageTopics == {"health", "bdsm", "slang", "none"}

\* _ORDER: the classes of sources a question's purpose prefers, the best first.
SourceOrder(topic) ==
  CASE topic = "bdsm"  -> <<"health", "reference", "qa", "other", "community">>
    [] topic = "slang" -> <<"health", "reference", "qa", "community", "other">>
    [] OTHER           -> <<"health", "qa", "reference", "other", "community">>

Trust(topic, page) == CHOOSE i \in 1 .. 5 : SourceOrder(topic)[i] = page.class

\* The pages at some places of an answer, given as pairs of a key and a place: by key and, where that is equal, as they came.
Arranged(found, keyed) == LET order == Sorted(keyed) IN [k \in DOMAIN order |-> found[order[k][2]]]
AsTheyCame(places) == {0} \X places

\* rank: erotic fiction is never evidence; a topic orders the rest by trust and, within a class, as they came.
TrustKey(topic, page) == IF topic = "none" THEN 0 ELSE Trust(topic, page)
Ranked(found, topic) ==
  Arranged(found, {<<TrustKey(topic, found[i]), i>> : i \in {j \in DOMAIN found : found[j].class # "fiction"}})

Cut(found) == SubSeq(found, 1, IF Len(found) < MaxResults THEN Len(found) ELSE MaxResults)

\* PREFERRED_SITES, site_query
PreferredPages(topic, page) ==
  CASE topic = "none"              -> FALSE
    [] topic \in {"bdsm", "slang"} -> page.class \in {"health", "reference"}
    [] OTHER                       -> page.class \in {"health", "qa"}
OfPreferred(found, topic) == Arranged(found, AsTheyCame({i \in DOMAIN found : PreferredPages(topic, found[i])}))

-----------------------------------------------------------------------------
(* The search *)

\* Mutant of Shown: the results are cut before they are ranked.
ShownCutFirst(found, topic) == Ranked(Cut(found), topic)

\* The tail of search_with_policy
Shown(found, topic) == Cut(Ranked(found, topic))

\* What a second answer adds to a first one.
NewPages(found, seen) == Arranged(found, AsTheyCame({i \in DOMAIN found : \A j \in DOMAIN seen : seen[j].url # found[i].url}))

SitesFirst(topic) == provider = "brave" /\ topic # "none"

\* search_with_policy of an engine that understands site filters: the preferred sites first, then the open web.  Either call
\* may fail, which is an empty answer.
SearchBrave(topic) ==
  /\ provider = "brave"
  /\ \E sites \in IF SitesFirst(topic) THEN {OfPreferred(w, topic) : w \in WebAnswers} \cup {<<>>} ELSE {<<>>},
        open \in WebAnswers \cup {<<>>} :
        LET fromSites == Cut(sites)
            found == IF Len(fromSites) < MaxResults THEN fromSites \o NewPages(Cut(open), fromSites) ELSE fromSites
        IN shown' = [topic |-> topic, retrieved |-> ToSet(found), pages |-> Shown(found, topic), age |-> 0]
  /\ UNCHANGED <<provider, cached, time, pieces>>

\* Mutant of StillFresh: an answer of exactly that age is still served.
FreshToTheEnd(q) == cached[q] # NotLookedUp /\ time - cached[q].at <= CacheTime

\* Wikipedia: an answer is kept for CacheTime, an empty one and one cut short by a failed request too.
StillFresh(q) == cached[q] # NotLookedUp /\ time - cached[q].at < CacheTime
SearchWikipedia(q, topic) ==
  /\ provider = "wikipedia"
  /\ IF StillFresh(q)
     THEN /\ shown' = [topic |-> topic, retrieved |-> ToSet(cached[q].pages), pages |-> Shown(cached[q].pages, topic), age |-> time - cached[q].at]
          /\ UNCHANGED cached
     ELSE \E w \in WebAnswers \cup {<<>>} :
            LET found == Arranged(w, AsTheyCame({i \in DOMAIN w : w[i].class = "reference"}))
            IN /\ cached' = [cached EXCEPT ![q] = [at |-> time, pages |-> found]]
               /\ shown' = [topic |-> topic, retrieved |-> ToSet(found), pages |-> Shown(found, topic), age |-> 0]
  /\ UNCHANGED <<provider, time, pieces>>

TimePasses ==
  /\ time < MaxTime
  /\ time' = time + 1
  /\ UNCHANGED <<provider, cached, shown, pieces>>

-----------------------------------------------------------------------------
(* Documents *)

\* A piece is close to the best of the others.
Close(p, others) == \A q \in others : p.score >= q.score - Margin
Visible(found) == {p \in found : ~p.hidden}

\* Mutant of Relevant: the best score is that of a tooling file too.
RelevantToAll(found, strict) == {p \in Visible(found) : Close(p, found) /\ (strict => p.shares)}

\* filter_results: tooling files are out before the best score is taken.
Relevant(found, strict) == {p \in Visible(found) : Close(p, Visible(found)) /\ (strict => p.shares)}

\* FaissVectorStore.search: the TopK best of all pieces, those of tooling files among them; of equal ones it takes any.
Nearest(found) ==
  {top \in SUBSET found : /\ Cardinality(top) = IF Cardinality(found) < TopK THEN Cardinality(found) ELSE TopK
                          /\ \A p \in top, q \in found \ top : q.score <= p.score}

\* retrieve and RagPipeline.query
QueryDocuments(strict) ==
  /\ \E found \in IndexAnswers : \E top \in Nearest(found) :
        pieces' = [strict |-> strict, found |-> found, kept |-> Relevant({p \in top : p.score >= MinScore}, strict)]
  /\ UNCHANGED <<provider, cached, time, shown>>

-----------------------------------------------------------------------------

\* get_provider: the engine the settings name.
EvidenceInit ==
  /\ provider \in {"wikipedia", "brave"}
  /\ cached = [q \in WebQueries |-> NotLookedUp]
  /\ time = 0 /\ shown = NothingShown /\ pieces = NoPieces

EvidenceNext ==
  \/ \E topic \in PageTopics : SearchBrave(topic) \/ \E q \in WebQueries : SearchWikipedia(q, topic)
  \/ TimePasses
  \/ \E strict \in BOOLEAN : QueryDocuments(strict)

EvidenceSpec == EvidenceInit /\ [][EvidenceNext]_evidenceVars

-----------------------------------------------------------------------------
(* Properties *)

\* "community never outranks them" (source_policy.py:7): a page is shown only if every better one that was retrieved is shown
\* too, whichever of the two searches found it, no page twice, and no fiction at all.
BestSourcesShown ==
  LET pages == ToSet(shown.pages) IN
  /\ \A page \in pages : page.class # "fiction"
  /\ Cardinality(pages) = Len(shown.pages)
  /\ shown.topic # "none" =>
       \A page \in pages, other \in shown.retrieved \ pages :
          other.class # "fiction" => Trust(shown.topic, page) <= Trust(shown.topic, other)

\* No turn sees a page that was looked up an hour ago or earlier, though each hit of the cache is served to later turns.
EvidenceIsRecent == shown.age < CacheTime

\* What is taken from the documents is measured against the documents alone, though an old index still holds files of the
\* tooling: a piece that is good enough beside the owner's other pieces is taken unless TopK pieces are at least as near. The
\* files of the tooling count among those: each takes a place (retrieve cuts before filter_results drops them).
GoodPieces(found, strict) ==
  {p \in Visible(found) : p.score >= MinScore /\ (strict => p.shares) /\ Close(p, Visible(found))}
AsNear(p, found) == {q \in found \ {p} : q.score >= p.score}
GoodPiecesTaken ==
  LET good == GoodPieces(pieces.found, pieces.strict) IN
  /\ pieces.kept \subseteq good
  /\ \A p \in good \ pieces.kept : Cardinality(AsNear(p, pieces.found)) >= TopK

\* A turn gets the best of what was found, and nothing that is out of date.
BestEvidenceOnly == BestSourcesShown /\ EvidenceIsRecent /\ GoodPiecesTaken
=============================================================================
