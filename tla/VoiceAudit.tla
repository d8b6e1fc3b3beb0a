----------------------------- MODULE VoiceAudit -----------------------------
(***************************************************************************)
(* The voice audit: one conversation, judged by what is in its text and by *)
(* the company it is in. A behaviour writes more faults into the text, or  *)
(* more replies into the corpus; the audit is a function of the two.       *)
(* Every detector (a pattern over the text) is a fault that the text has   *)
(* or has not.                                                             *)
(***************************************************************************)
EXTENDS Integers, FiniteSets, Sequences

CONSTANTS
    Faults,          \* bound: the faults that a text can have, of AllFaults
    MaxFaults,       \* bound: faults in the text
    MaxOthers,       \* bound: other replies in the corpus
    GateReplies,     \* replies from which a share of the corpus can block
    GateGroup,       \* the same for the replies of one language
    PhraseWarn, PhraseBlock, OpeningWarn, OpeningBlock, \* shares, in percent
    OpenerLimit      \* replies with the same first words

AllFaults ==
    {"generic", "therapy", "validation", "restates", "disclaimer", "formal", "flirty",
     "attribution", "fact", "statistic", "pet names", "emojis"}

ASSUME AuditAssumption ==
    /\ Faults \subseteq AllFaults
    /\ {MaxFaults, MaxOthers, GateReplies, GateGroup, OpenerLimit} \subseteq Nat
    /\ {PhraseWarn, PhraseBlock, OpeningWarn, OpeningBlock} \subseteq Nat
    /\ PhraseWarn <= PhraseBlock /\ OpeningWarn <= OpeningBlock

VARIABLES
    conversation, others,
    report,     \* what the last audit said of the conversation
    since       \* history: what happened since: nothing, only what makes it worse, anything
auditVars == <<conversation, others, report, since>>

Categories == {"short_answers", "detailed_explanations", "flirty_contextual_adult",
               "adult_terminology_education", "other"}
AuditedConversations ==
    [category : Categories, text : {t \in SUBSET Faults : Cardinality(t) <= MaxFaults},
     markers : 0..3,               \* personality markers
     long : BOOLEAN,
     grounded : BOOLEAN,           \* a system message with retrieved context
     user : {"neutral", "casual", "flirty"},
     phrase : BOOLEAN]             \* a watched phrase, one of the markers if there are any
\* The other replies, by what they share with this one.
AuditedReplies == [phrase : BOOLEAN, opening : BOOLEAN, language : BOOLEAN]
Itself == [phrase |-> conversation.phrase, opening |-> TRUE, language |-> TRUE]
Corpus == Append(others, Itself)

-----------------------------------------------------------------------------
(* The corpus: how concentrated a phrase or an opening is.                 *)
Severity(count, total, warn, block, gated) ==
    IF 100 * count > block * total THEN IF gated THEN "block" ELSE "warn"
    ELSE IF 100 * count > warn * total THEN "warn" ELSE "none"
Gated == Len(Corpus) >= GateReplies
InLanguage == {i \in DOMAIN Corpus : Corpus[i].language}
PhraseSeverity(group, gated) ==
    Severity(Cardinality({i \in group : Corpus[i].phrase}), Cardinality(group), PhraseWarn, PhraseBlock, gated)
OverusedPhrase ==
    \/ PhraseSeverity(DOMAIN Corpus, Gated) = "block"
    \/ PhraseSeverity(InLanguage, Gated /\ Cardinality(InLanguage) >= GateGroup) = "block"
SharedOpenings == Cardinality({i \in DOMAIN Corpus : Corpus[i].opening})
OverusedOpening == Severity(SharedOpenings, Len(Corpus), OpeningWarn, OpeningBlock, Gated) # "none"

-----------------------------------------------------------------------------
(* The signals of the conversation.                                        *)
CatchphraseHit == conversation.phrase /\ OverusedPhrase
\* An overused phrase is taken out of the text before markers are counted.
Markers == IF conversation.markers > 0 /\ CatchphraseHit THEN conversation.markers - 1 ELSE conversation.markers
Signals ==
    {f \in conversation.text :
        /\ f = "formal" => conversation.user = "casual"
        /\ f \in {"attribution", "fact", "statistic"} => ~conversation.grounded
        /\ f = "flirty" => conversation.category # "flirty_contextual_adult" /\ conversation.user # "flirty"}
    \cup (IF conversation.category = "adult_terminology_education" /\ Markers = 0 THEN {"textbook"} ELSE {})
    \cup (IF conversation.category = "short_answers" /\ conversation.long THEN {"too long"} ELSE {})
    \cup (IF conversation.category = "detailed_explanations" /\ ~conversation.long THEN {"too short"} ELSE {})
    \cup (IF CatchphraseHit THEN {"catchphrase"} ELSE {})
    \cup (IF OverusedOpening THEN {"opening"} ELSE {})
    \cup (IF SharedOpenings >= OpenerLimit THEN {"opener"} ELSE {})

-----------------------------------------------------------------------------
(* The scores of a set of signals, and the recommendation.                 *)
Clamp(n) == IF n < 1 THEN 1 ELSE IF n > 5 THEN 5 ELSE n

\* Mutant of Factual: a statistic hides the worse faults.
FactualStatisticFirst(s) ==
    Clamp(5 - (IF "attribution" \in s THEN 4 ELSE 0) - (IF "statistic" \in s THEN 1 ELSE IF "fact" \in s THEN 3 ELSE 0))

Factual(s) ==
    Clamp(5 - (IF "attribution" \in s THEN 4 ELSE 0) - (IF "fact" \in s THEN 3 ELSE IF "statistic" \in s THEN 1 ELSE 0))
Scores(s, markers) ==
    [naturalness |-> Clamp(4 - (IF "generic" \in s THEN 2 ELSE 0)
                             - Cardinality(s \cap {"therapy", "validation", "restates", "disclaimer", "formal"})),
     language |-> Clamp(4 - Cardinality(s \cap {"formal"})),
     identity |-> Clamp(3 + (IF markers > 2 THEN 2 ELSE markers) - Cardinality(s \cap {"generic", "textbook"})),
     context |-> Clamp(4 - (IF "flirty" \in s THEN 2 ELSE 0)
                         - Cardinality(s \cap {"too long", "too short", "pet names", "emojis"})),
     variety |-> Clamp(4 - Cardinality(s \cap {"catchphrase", "opening", "opener"})),
     factual |-> Factual(s)]
Total(c) == c.naturalness + c.language + c.identity + c.context + c.variety + c.factual

\* Mutant of Strong: one point less is enough.
StrongFrom25(c) == Total(c) >= 25 /\ \A d \in DOMAIN c : c[d] >= 4

Strong(c) == Total(c) >= 26 /\ \A d \in DOMAIN c : c[d] >= 4

\* Mutant of Weak: only the total counts.
WeakTotalOnly(c) == Total(c) <= 18

Weak(c) == Total(c) <= 18 \/ c.factual <= 2
RejectSignal(s, c) == c.factual = 1 \/ "attribution" \in s \/ c.naturalness = 1 \/ c.language = 1
Recommendation ==
    LET s == Signals
        c == Scores(s, Markers)
    IN IF RejectSignal(s, c) THEN "WEAK" ELSE IF Strong(c) THEN "STRONG" ELSE IF Weak(c) THEN "WEAK" ELSE "NEEDS_EDIT"

-----------------------------------------------------------------------------
AuditInit ==
    /\ others = <<>> /\ conversation \in {c \in AuditedConversations : Cardinality(c.text) <= 1}
    /\ report = "none" /\ since = "anything"

\* Somebody edits the text, and puts one more fault in.
AddFault(f) ==
    /\ f \notin conversation.text /\ Cardinality(conversation.text) < MaxFaults
    /\ conversation' = [conversation EXCEPT !.text = @ \cup {f}]
    /\ since' = IF since = "nothing" THEN "worse" ELSE since
    /\ UNCHANGED <<others, report>>
\* Another record joins the drafts that are audited together.
AddReply(r) ==
    /\ Len(others) < MaxOthers
    /\ others' = Append(others, r)
    /\ since' = IF ~(r.phrase /\ r.opening) THEN "anything" ELSE IF since = "nothing" THEN "worse" ELSE since
    /\ UNCHANGED <<conversation, report>>
RunVoiceAudit ==
    /\ report' = Recommendation /\ since' = "nothing"
    /\ UNCHANGED <<conversation, others>>

AuditNext == (\E f \in Faults : AddFault(f)) \/ (\E r \in AuditedReplies : AddReply(r)) \/ RunVoiceAudit
AuditSpec == AuditInit /\ [][AuditNext]_auditVars
-----------------------------------------------------------------------------
(* STRONG is what a bulk review approves unread: it is given only when no  *)
(* flag at all is raised, the text has two personality markers, and they   *)
(* are not what the whole corpus says (score_conversation).                *)
StrongIsClean == report = "STRONG" /\ since = "nothing" => Signals = {} /\ Markers >= 2

(* A claim with nothing retrieved behind it, of a fact or of a source, is  *)
(* WEAK however good the rest is (score_conversation).                     *)
UngroundedIsWeak ==
    since = "nothing" /\ ~conversation.grounded /\ {"attribution", "fact"} \cap conversation.text # {} => report = "WEAK"

(* After more faults in the text, and more replies with the same phrase    *)
(* and the same opening, an audit is never better than the one before: the *)
(* deductions do not hide one another, and a habit that spreads costs more *)
(* (extract_signals, score_conversation, analyze_corpus).                  *)
Rank(r) == CASE r = "WEAK" -> 0 [] r = "NEEDS_EDIT" -> 1 [] r = "STRONG" -> 2
MoreFaultsNeverHelp ==
    [][since = "worse" /\ since' = "nothing" => Rank(report') <= Rank(report)]_auditVars

(* The verdict of the audit follows from the faults.                       *)
VerdictIsJust == [][StrongIsClean' /\ UngroundedIsWeak']_auditVars /\ MoreFaultsNeverHelp
=============================================================================
