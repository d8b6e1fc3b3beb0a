------------------------------ MODULE Teaching ------------------------------
(***************************************************************************)
(* Teaching in the chat: RupsaaService._handle_teaching of api/services.py *)
(* with TeachingSession, OwnerState and save_draft of                      *)
(* rupsaa/owner/teaching.py, for one conversation.                         *)
(*                                                                         *)
(* A turn captures the OwnerState object and its session object and keeps  *)
(* using them, while other turns (worker threads) and the routes           *)
(* /teach/cancel, /teach/logout and /conversation/reset (event loop) put   *)
(* new objects in their place; so objects have numbers here.  A turn is    *)
(* split at its calls, where the interpreter may switch threads.           *)
(*                                                                         *)
(* Turns are numbered.  A note, a draft, a piece of web evidence and a     *)
(* looked-up record are known by the turn that brought them; a draft is    *)
(* what build_draft makes of a set of notes.  What the patterns tell apart *)
(* about a message of the owner is its kind, "teach" being any message     *)
(* with teaching content.                                                  *)
(* A message the guardrail refuses, and a wrong secret, reach none of this *)
(* and are left out.                                                       *)
(***************************************************************************)
EXTENDS Naturals, Sequences

CONSTANTS
    Workers,
    Sayings,       \* the kinds of messages of the owner that arrive
    MaxTalks,    \* bound: turns in a behaviour
    MaxOverlaps, \* bound: turns that begin while another one runs
    MaxRouted     \* bound: requests to the three routes

ASSUME TeachingAssumption ==
    /\ Sayings \subseteq {"teach", "save", "cancel", "restart", "check", "verify", "exit"}
    /\ MaxTalks \in Nat /\ MaxOverlaps \in Nat /\ MaxRouted \in Nat

VARIABLES
    owner,      \* _owner[cid], 0 when the conversation has none
    owners,     \* the OwnerState objects: authenticated, and their session
    sessions,   \* the TeachingSession objects
    talk,       \* the turn each thread runs
    arrived, overlaps, routed,
    saves,      \* history: what was written to a knowledge store
    entered,    \* history: someone logged in and nobody left since
    gone,       \* history: what was in sessions that were replaced
    shown,      \* history: the preview answered last
    subject     \* history: the record the owner was last told the lesson is about

lessons == <<owner, owners, sessions>>
bounds == <<arrived, overlaps, routed>>
teachingHistory == <<saves, entered, gone, shown, subject>>
teachingVars == <<lessons, talk, bounds, teachingHistory>>

NoDraft == [by |-> 0, notes |-> {}]

\* TeachingSession(): awaiting_confirmation is set with the draft, so it is
\* not kept apart from it.
Fresh == [topic |-> 0, target |-> 0, notes |-> {}, draft |-> NoDraft, web |-> 0]

NoTalk == [pc |-> "idle"]

Running(t) == talk[t].pc # "idle"

\* The session object turn t works on, and its OwnerState object.
S(t) == sessions[talk[t].s]
O(t) == owners[talk[t].o]

Move(t, label) == talk' = [talk EXCEPT ![t].pc = label]

\* The turn is over as far as teaching is concerned.
Return(t) == talk' = [talk EXCEPT ![t] = NoTalk]

\* The model starts when the owner has just logged in.
TeachingInit ==
    /\ owner = 1
    /\ owners = <<[auth |-> TRUE, session |-> 1]>>
    /\ sessions = <<Fresh>>
    /\ talk = [t \in Workers |-> NoTalk]
    /\ arrived = 0 /\ overlaps = 0 /\ routed = 0
    /\ saves = {}
    /\ entered = TRUE
    /\ gone = {}
    /\ shown = [draft |-> NoDraft, target |-> 0, alone |-> TRUE]
    /\ subject = [record |-> 0, alone |-> TRUE]

-----------------------------------------------------------------------------
(***************************************************************************)
(* The start of a turn.                                                    *)
(***************************************************************************)
\* What goes with a session that is replaced.
Lost(old) == (old.notes \cup {old.target, old.web}) \ {0}

\* What goes when the conversation's OwnerState is dropped or replaced.
Abandoned == IF owner = 0 THEN {} ELSE Lost(sessions[owners[owner].session])

\* A new OwnerState with its session, as the number Len(owners) + 1.
AddOwner ==
    /\ sessions' = Append(sessions, Fresh)
    /\ owners' = Append(owners, [auth |-> FALSE, session |-> Len(sessions) + 1])
    /\ owner' = Len(owners) + 1

Overlapped == [t \in Workers |-> IF Running(t) THEN [talk[t] EXCEPT !.alone = FALSE] ELSE talk[t]]

\* _owner_state(cid): found, or created.  The turn submits the right secret
\* ("login"), or it is a message, whose kind is chosen where it first matters.
TalkBegins(t) ==
    /\ ~Running(t)
    /\ arrived < MaxTalks
    /\ (\E r \in Workers : Running(r)) => overlaps < MaxOverlaps
    /\ IF owner = 0 THEN AddOwner ELSE UNCHANGED <<owner, owners, sessions>>
    /\ \E pc \in {"login", "begun"} :
        talk' = [Overlapped EXCEPT ![t] =
            [pc |-> pc, n |-> arrived + 1, kind |-> "any", o |-> owner', s |-> 0,
             draft |-> NoDraft, target |-> 0, web |-> 0, notes |-> {}, next |-> Fresh,
             found |-> 0, did |-> "nothing", open |-> entered, gone |-> gone,
             alone |-> \A r \in Workers : ~Running(r)]]
    /\ arrived' = arrived + 1
    /\ overlaps' = IF \E r \in Workers : Running(r) THEN overlaps + 1 ELSE overlaps
    /\ UNCHANGED <<routed, teachingHistory>>

\* owner.expired(now): a new OwnerState takes its place.  When it expires is
\* left open.
Expire(t) ==
    /\ talk[t].pc \in {"login", "begun"}
    /\ O(t).auth
    /\ AddOwner
    /\ talk' = [talk EXCEPT ![t].o = Len(owners) + 1]
    /\ entered' = FALSE
    /\ gone' = gone \cup Abandoned
    /\ UNCHANGED <<bounds, saves, shown, subject>>

\* A message of a conversation without an owner is ordinary chat.
NotTheOwner(t) ==
    /\ talk[t].pc = "begun"
    /\ ~O(t).auth
    /\ Return(t)
    /\ UNCHANGED <<lessons, bounds, teachingHistory>>

TheOwner(t) ==
    /\ talk[t].pc = "begun"
    /\ O(t).auth
    /\ Move(t, "capture")
    /\ UNCHANGED <<lessons, bounds, teachingHistory>>

\* _handle_secret with the right secret: authenticated, then a new session.
Login(t) ==
    /\ talk[t].pc = "login"
    /\ owners' = [owners EXCEPT ![talk[t].o].auth = TRUE]
    /\ entered' = (entered \/ talk[t].o = owner)
    /\ talk' = [r \in Workers |->
          IF r = t THEN [talk[t] EXCEPT !.pc = "replace", !.open = TRUE]
          ELSE IF Running(r) THEN [talk[r] EXCEPT !.open = TRUE]
          ELSE talk[r]]
    /\ UNCHANGED <<owner, sessions, bounds, saves, gone, shown, subject>>

-----------------------------------------------------------------------------
(***************************************************************************)
(* _handle_teaching.                                                       *)
(***************************************************************************)
\* s = owner.session
Capture(t) ==
    /\ talk[t].pc = "capture"
    /\ talk' = [talk EXCEPT ![t].s = O(t).session, ![t].pc = "dispatch"]
    /\ UNCHANGED <<lessons, bounds, teachingHistory>>

HasDraft(t) == S(t).draft # NoDraft

\* Which branch takes the message: a "save" without a draft and a "cancel"
\* with nothing to cancel are taken for teaching content.
Branch(t, kind) ==
    CASE kind = "exit"                                            -> "exit"
      [] kind = "save" /\ HasDraft(t)                             -> "save"
      [] kind = "cancel" /\ (HasDraft(t) \/ S(t).notes # {})      -> "replace"
      [] kind \in {"restart", "verify", "check"}                  -> kind
      [] OTHER                                                    -> "note"

Dispatch(t) ==
    /\ talk[t].pc = "dispatch"
    /\ \E kind \in Sayings : talk' = [talk EXCEPT ![t].kind = kind, ![t].pc = Branch(t, kind)]
    /\ UNCHANGED <<lessons, bounds, teachingHistory>>

\* Mutant of Exit: the owner stays authenticated.
ExitStaysOpen(t) ==
    /\ talk[t].pc = "exit"
    /\ entered' = (entered /\ talk[t].o # owner)
    /\ Move(t, "replace")
    /\ UNCHANGED <<lessons, bounds, saves, gone, shown, subject>>

Exit(t) ==
    /\ talk[t].pc = "exit"
    /\ owners' = [owners EXCEPT ![talk[t].o].auth = FALSE]
    /\ entered' = (entered /\ talk[t].o # owner)
    /\ Move(t, "replace")
    /\ UNCHANGED <<owner, sessions, bounds, saves, gone, shown, subject>>

\* What a new session takes over from the old one is no longer gone.
Held(t) == {talk[t].next.target, talk[t].next.web}

\* owner.session = TeachingSession(...), at the end of most branches.
Replace(t) ==
    /\ talk[t].pc = "replace"
    /\ sessions' = Append(sessions, talk[t].next)
    /\ owners' = [owners EXCEPT ![talk[t].o].session = Len(sessions) + 1]
    /\ gone' = (gone \cup Lost(sessions[O(t).session])) \ Held(t)
    /\ talk' = [r \in Workers |->
          IF r = t THEN [talk[t] EXCEPT !.did = "replaced", !.next = Fresh, !.gone = @ \ Held(t),
                                        !.pc = IF talk[t].found # 0 THEN "target" ELSE "answer"]
          ELSE IF Running(r) THEN [talk[r] EXCEPT !.gone = @ \ Held(t)]
          ELSE talk[r]]
    /\ UNCHANGED <<owner, bounds, saves, entered, shown, subject>>

\* Notes and draft go; the topic, its record and the evidence stay.
Restart(t) ==
    /\ talk[t].pc = "restart"
    /\ talk' = [talk EXCEPT
          ![t].next = [Fresh EXCEPT !.topic = S(t).topic, !.target = S(t).target, !.web = S(t).web],
          ![t].pc = "replace"]
    /\ UNCHANGED <<lessons, bounds, teachingHistory>>

\* save_draft(s.draft, s.target, stores, s.web_evidence): the arguments ...
SaveArguments(t) ==
    /\ talk[t].pc = "save"
    /\ talk' = [talk EXCEPT ![t].draft = S(t).draft, ![t].target = S(t).target,
                            ![t].web = S(t).web, ![t].pc = "write"]
    /\ UNCHANGED <<lessons, bounds, teachingHistory>>

\* ... the write: a record is updated, or created, which the store refuses
\* when the title is taken ...
SaveWrites(t) ==
    LET record == [draft |-> talk[t].draft, target |-> talk[t].target] IN
    /\ talk[t].pc = "write"
    /\ talk[t].target = 0 => \A r \in saves : [draft |-> r.draft, target |-> r.target] # record
    /\ saves' = saves \cup {[draft |-> talk[t].draft, target |-> talk[t].target, web |-> talk[t].web,
                             open |-> talk[t].open, gone |-> talk[t].gone]}
    /\ talk' = [talk EXCEPT ![t].did = "saved", ![t].pc = "replace"]
    /\ UNCHANGED <<lessons, bounds, entered, gone, shown, subject>>

\* ... or an exception: validation, a taken title, a record deleted meanwhile.
\* The draft stays.
SaveRefused(t) ==
    /\ talk[t].pc = "write"
    /\ Return(t)
    /\ UNCHANGED <<lessons, bounds, teachingHistory>>

\* Nothing to verify, or the internet is off.
NoVerify(t) ==
    /\ talk[t].pc = "verify"
    /\ Return(t)
    /\ UNCHANGED <<lessons, bounds, teachingHistory>>

\* The search about the topic, or about the title of the draft.
Verify(t) ==
    /\ talk[t].pc = "verify"
    /\ S(t).topic # 0 \/ HasDraft(t)
    /\ Move(t, "evidence")
    /\ UNCHANGED <<lessons, bounds, teachingHistory>>

\* s.web_evidence = ..., empty when the search found nothing.
Evidence(t) ==
    /\ talk[t].pc = "evidence"
    /\ \E found \in {talk[t].n, 0} : sessions' = [sessions EXCEPT ![talk[t].s].web = found]
    /\ Return(t)
    /\ UNCHANGED <<owner, owners, bounds, teachingHistory>>

\* Is the topic known?  A new session, with the topic, ...
Check(t) ==
    /\ talk[t].pc = "check"
    /\ \E found \in {talk[t].n, 0} :
        talk' = [talk EXCEPT ![t].found = found, ![t].next.topic = talk[t].n, ![t].pc = "replace"]
    /\ UNCHANGED <<lessons, bounds, teachingHistory>>

\* Mutant of SetTarget: in the session this turn began with.
SetOldTarget(t) ==
    /\ talk[t].pc = "target"
    /\ sessions' = [sessions EXCEPT ![talk[t].s].target = talk[t].found]
    /\ Move(t, "answer")
    /\ UNCHANGED <<owner, owners, bounds, teachingHistory>>

\* ... then its record, in the session that is the owner's by then.
SetTarget(t) ==
    /\ talk[t].pc = "target"
    /\ sessions' = [sessions EXCEPT ![O(t).session].target = talk[t].found]
    /\ Move(t, "answer")
    /\ UNCHANGED <<owner, owners, bounds, teachingHistory>>

\* Teaching content: a note ...
Note(t) ==
    /\ talk[t].pc = "note"
    /\ sessions' = [sessions EXCEPT ![talk[t].s].notes = @ \cup {talk[t].n}]
    /\ Move(t, "existing")
    /\ UNCHANGED <<owner, owners, bounds, teachingHistory>>

\* ... the record it changes, which may have been deleted meanwhile: the
\* request ends in a 500 ...
RecordMissing(t) ==
    /\ talk[t].pc = "existing"
    /\ S(t).target # 0
    /\ Return(t)
    /\ UNCHANGED <<lessons, bounds, teachingHistory>>

\* ... the notes the model is given ...
Structure(t) ==
    /\ talk[t].pc = "existing"
    /\ talk' = [talk EXCEPT ![t].notes = S(t).notes, ![t].pc = "build"]
    /\ UNCHANGED <<lessons, bounds, teachingHistory>>

\* Mutant of BuildDraft: a correction does not replace the draft.
KeepFirstDraft(t) ==
    /\ talk[t].pc = "build"
    /\ sessions' = [sessions EXCEPT ![talk[t].s].draft =
          IF @ # NoDraft THEN @ ELSE [by |-> talk[t].n, notes |-> talk[t].notes]]
    /\ talk' = [talk EXCEPT ![t].draft = [by |-> talk[t].n, notes |-> talk[t].notes],
                            ![t].target = S(t).target, ![t].did = "previewed", ![t].pc = "answer"]
    /\ UNCHANGED <<owner, owners, bounds, teachingHistory>>

\* ... and the draft it makes of them, or the fallback of the notes there are
\* when it fails; then the preview.
BuildDraft(t) ==
    /\ talk[t].pc = "build"
    /\ \E notes \in {talk[t].notes, S(t).notes} :
        LET draft == [by |-> talk[t].n, notes |-> notes] IN
        /\ sessions' = [sessions EXCEPT ![talk[t].s].draft = draft]
        /\ talk' = [talk EXCEPT ![t].draft = draft, ![t].target = S(t).target,
                                ![t].did = "previewed", ![t].pc = "answer"]
    /\ UNCHANGED <<owner, owners, bounds, teachingHistory>>

Answers(t) ==
    /\ talk[t].pc = "answer"
    /\ Return(t)
    /\ shown' = IF talk[t].did = "previewed"
                  THEN [draft |-> talk[t].draft, target |-> talk[t].target, alone |-> talk[t].alone]
                  ELSE shown
    /\ subject' = IF talk[t].did # "replaced"
                    THEN subject
                  ELSE IF talk[t].kind = "restart"
                    THEN [subject EXCEPT !.alone = @ /\ talk[t].alone]
                  ELSE [record |-> talk[t].found, alone |-> talk[t].alone]
    /\ UNCHANGED <<lessons, bounds, saves, entered, gone>>

TalkStep(t) ==
    \/ TalkBegins(t) \/ Expire(t) \/ NotTheOwner(t) \/ TheOwner(t) \/ Login(t)
    \/ Capture(t) \/ Dispatch(t) \/ Exit(t) \/ Replace(t) \/ Restart(t)
    \/ SaveArguments(t) \/ SaveWrites(t) \/ SaveRefused(t)
    \/ NoVerify(t) \/ Verify(t) \/ Evidence(t) \/ Check(t) \/ SetTarget(t)
    \/ Note(t) \/ RecordMissing(t) \/ Structure(t) \/ BuildDraft(t) \/ Answers(t)

-----------------------------------------------------------------------------
(***************************************************************************)
(* The routes.                                                             *)
(***************************************************************************)
\* Mutant of TeachCancel: only the draft goes.
CancelKeepsNotes ==
    /\ owner # 0
    /\ sessions' = Append(sessions, [sessions[owners[owner].session] EXCEPT !.draft = NoDraft])
    /\ owners' = [owners EXCEPT ![owner].session = Len(sessions) + 1]
    /\ gone' = gone \cup Abandoned
    /\ subject' = [record |-> 0, alone |-> TRUE]
    /\ UNCHANGED <<owner, entered>>

\* teach_cancel
TeachCancel ==
    /\ owner # 0
    /\ sessions' = Append(sessions, Fresh)
    /\ owners' = [owners EXCEPT ![owner].session = Len(sessions) + 1]
    /\ gone' = gone \cup Abandoned
    /\ subject' = [record |-> 0, alone |-> TRUE]
    /\ UNCHANGED <<owner, entered>>

\* teach_logout and reset_conversation: the OwnerState is dropped.
Leave ==
    /\ owner # 0
    /\ owner' = 0
    /\ entered' = FALSE
    /\ gone' = gone \cup Abandoned
    /\ subject' = [record |-> 0, alone |-> TRUE]
    /\ UNCHANGED <<owners, sessions>>

Post ==
    /\ routed < MaxRouted
    /\ routed' = routed + 1
    /\ TeachCancel \/ Leave
    /\ talk' = Overlapped
    /\ UNCHANGED <<arrived, overlaps, saves, shown>>

TeachingNext == (\E t \in Workers : TalkStep(t)) \/ Post

TeachingSpec == TeachingInit /\ [][TeachingNext]_teachingVars

-----------------------------------------------------------------------------
(***************************************************************************)
(* Properties.                                                             *)
(***************************************************************************)
\* "Ends on logout / \"teaching done\"" (the docstring of teaching.py): what is
\* written was confirmed by a turn that found an owner logged in when it arrived,
\* or saw one log in while it ran; a logout, an exit, a reset or an expiry that
\* came first is not undone by a turn that was still running.
SavesOnlyInSession == \A s \in saves : s.open

\* Nothing of a session that was cancelled, restarted, saved, logged out of or
\* reset is written by a turn that arrives later, whatever was still running when
\* the session ended: no note, and no web evidence or record to update either
\* unless a new start, which keeps these, was running.
DiscardedStaysUnsaved ==
    \A s \in saves : s.gone \cap (s.draft.notes \cup {s.target, s.web}) = {}

JustSaved(t) == Running(t) /\ talk[t].did = "saved"

\* "Shows a preview, and writes to the knowledge store only after an explicit
\* owner confirmation" (the docstring): what is written is the draft previewed
\* last, as the update or the new record it was announced as, unless turns or
\* routes overlapped.
SavedAsPreviewed ==
    \A t \in Workers :
        JustSaved(t) /\ talk[t].alone /\ shown.alone
            => talk[t].draft = shown.draft /\ talk[t].target = shown.target

\* A lesson about a known topic changes the record the owner was told about, also
\* after a new start, and any other lesson changes no record, unless turns or
\* routes overlapped.
UpdatesTheSubject ==
    \A t \in Workers :
        JustSaved(t) /\ talk[t].alone /\ subject.alone => talk[t].target = subject.record
=============================================================================
