------------------------------- MODULE Serving -------------------------------
(***************************************************************************)
(* The way of a message from the chat page to the model and back: web/app.js *)
(* (sendMessage, resetConversation, checkHealth), POST /chat, GET /health   *)
(* and POST /conversation/reset of api/main.py, and the loading of the      *)
(* engine and the two locks of RupsaaService. One page, one server; every   *)
(* request runs in a worker thread of its own, beside the thread that       *)
(* preloads the model. What a turn does to the conversation itself is in    *)
(* ChatTurns; here it takes up its conversation and records its message.    *)
(***************************************************************************)
EXTENDS Naturals, Sequences, FiniteSets

CONSTANTS
    MaxTexts,        \* bound: messages the user writes
    MaxSends,        \* bound: requests to /chat
    MaxIncidents,    \* bound: loads that fail for a passing reason (memory, download), changes of the
                     \* adapter's directory and crashes of the server, together
    MaxResets        \* bound: presses of New chat

ASSUME ServingAssumption ==
    {MaxTexts, MaxSends, MaxIncidents, MaxResets} \subseteq Nat

VARIABLES
    conf,       \* settings: is_production and effective_preload()
    adapter,    \* the adapter's directory: "absent", "partial" (no weights) or "complete"
    up,         \* does the server run?
    engine,     \* _engine: "none", "base" or "adapted"
    loadError,  \* load_error
    loadLock, generateLock,
    thread,     \* the preload thread and the worker of each request
    live,       \* the conversations in the store
    conversations,  \* ids given out so far
    page,       \* conversationId, isSending, input, rateLimitedUntil, reset in flight
    status, polling,          \* status line, healthPollTimer
    texts, sends, incidents, resets,  \* bounds: messages written, requests sent, ...
    recorded,   \* history: messages recorded: [text, conversation, request]
    gaveUp,     \* history: requests the page stopped waiting for
    loads,      \* history: engines loaded since the server started
    left        \* history: conversations that New chat ended while no reply was due

serverVars == <<conf, adapter, up, engine, loadError, loadLock, generateLock, thread, live, conversations>>
pageVars == <<page, status, polling>>
servingHistory == <<recorded, gaveUp, loads, left>>
servingBounds == <<texts, sends, incidents, resets>>
servingVars == <<serverVars, pageVars, servingBounds, servingHistory>>

Requests == 1 .. MaxSends
Preload == 0
ServingThreads == {Preload} \cup Requests
Nobody == MaxSends + 1
NoConversation == 0
Off == [pc |-> "off"]

ServingInit ==
    /\ conf \in [production : BOOLEAN, preload : BOOLEAN]
    /\ adapter \in {"absent", "complete"}
    /\ conf.production => adapter = "complete"        \* production_problems() at startup
    /\ up = TRUE /\ engine = "none" /\ loadError = FALSE
    /\ loadLock = Nobody /\ generateLock = Nobody
    /\ thread = [t \in ServingThreads |-> IF t = Preload /\ conf.preload THEN [pc |-> "engine"] ELSE Off]
    /\ live = {} /\ conversations = 0
    /\ page = [cid |-> NoConversation, sending |-> 0, input |-> 0, limited |-> FALSE, reset |-> NoConversation]
    /\ status = "closed" /\ polling = FALSE
    /\ texts = 0 /\ sends = 0 /\ incidents = 0 /\ resets = 0
    /\ recorded = {} /\ gaveUp = {} /\ loads = 0 /\ left = {}

Goto(t, pc) == thread' = [thread EXCEPT ![t].pc = pc]
Loading == thread[Preload].pc # "off"       \* _preload_thread.is_alive()

-----------------------------------------------------------------------------
(***************************************************************************)
(* The engine: double-checked under _load_lock; a failure releases it.     *)
(***************************************************************************)
\* What a thread does once it has an engine, and when loading failed.
HaveEngine(t) == IF t = Preload THEN thread' = [thread EXCEPT ![t] = Off] ELSE Goto(t, "generate")
NoEngine(t) ==
    IF t = Preload
    THEN thread' = [thread EXCEPT ![t] = Off] /\ loadError' = TRUE
    ELSE thread' = [thread EXCEPT ![t].pc = "reply", ![t].code = 500] /\ UNCHANGED loadError

EngineUnchanged ==
    UNCHANGED <<resets, conf, adapter, up, generateLock, live, conversations, pageVars, texts, sends, recorded, gaveUp, left>>

GetEngine(t) ==
    /\ thread[t].pc = "engine"
    /\ IF engine # "none" THEN HaveEngine(t) ELSE Goto(t, "lock")
    /\ EngineUnchanged /\ UNCHANGED <<engine, loadError, loadLock, incidents, loads>>

\* Mutant of TakeLockAndLook: no second look under the lock.
TakeLock(t) == Goto(t, "check") /\ loadLock' = t

TakeLockAndLook(t) == IF engine # "none" THEN HaveEngine(t) /\ UNCHANGED loadLock ELSE TakeLock(t)
LockEngine(t) ==
    /\ thread[t].pc = "lock"
    /\ loadLock = Nobody
    /\ TakeLockAndLook(t)
    /\ EngineUnchanged /\ UNCHANGED <<engine, loadError, incidents, loads>>

\* Mutant of LoadFails: a load that fails keeps the lock.
LoadFailsLocked(t) == NoEngine(t) /\ UNCHANGED loadLock

LoadFails(t) == NoEngine(t) /\ loadLock' = Nobody
\* _load_engine: production looks for the weights first ...
LoadEngine(t) ==
    /\ thread[t].pc = "check"
    /\ IF conf.production /\ adapter # "complete" THEN LoadFails(t)
       ELSE Goto(t, "load") /\ UNCHANGED <<loadLock, loadError>>
    /\ EngineUnchanged /\ UNCHANGED <<engine, incidents, loads>>

\* ... load_model attaches what the directory holds by now, and nothing without one ...
LoadModel(t) ==
    /\ thread[t].pc = "load"
    /\ \/ /\ incidents < MaxIncidents
          /\ incidents' = incidents + 1
          /\ LoadFails(t)
       \/ /\ IF adapter = "partial" THEN LoadFails(t)
             ELSE Goto(t, IF adapter = "absent" THEN "base" ELSE "adapted") /\ UNCHANGED <<loadLock, loadError>>
          /\ UNCHANGED incidents
    /\ EngineUnchanged /\ UNCHANGED <<engine, loads>>

\* Mutant of Refused: production takes an engine without its adapter.
RefusesNobody(loaded) == FALSE

\* ... and production takes no engine without its adapter.
Refused(loaded) == conf.production /\ loaded = "base"
SetEngine(t) ==
    /\ thread[t].pc \in {"base", "adapted"}
    /\ IF Refused(thread[t].pc) THEN LoadFails(t) /\ UNCHANGED <<engine, loads>>
       ELSE /\ engine' = thread[t].pc
            /\ loads' = loads + 1
            /\ loadLock' = Nobody
            /\ HaveEngine(t)
            /\ UNCHANGED loadError
    /\ EngineUnchanged /\ UNCHANGED incidents

EngineStep(t) ==
    GetEngine(t) \/ LockEngine(t) \/ LoadEngine(t) \/ LoadModel(t) \/ SetEngine(t)

-----------------------------------------------------------------------------
(***************************************************************************)
(* POST /chat.                                                             *)
(***************************************************************************)
RequestUnchanged ==
    UNCHANGED <<conf, adapter, up, engine, loadError, loadLock, pageVars, servingBounds, gaveUp, loads, left>>
Answered(r, code) == thread' = [thread EXCEPT ![r].pc = "reply", ![r].code = code]

\* The limiter; the gate of a server that is starting up; then service.chat takes up the conversation, and
\* makes the reply itself or needs the engine.
StartingUp == conf.production /\ engine = "none" /\ (Loading \/ loadError)
TakeConversation(r) ==
    LET cid == IF thread[r].cid \in live THEN thread[r].cid ELSE conversations + 1
    IN /\ conversations' = IF cid \in live THEN conversations ELSE cid
       /\ live' = live \cup {cid}
       /\ \E pc \in {"engine", "record"} : thread' = [thread EXCEPT ![r].pc = pc, ![r].cid = cid]
Chat(r) ==
    /\ thread[r].pc = "arrived"
    /\ \/ conf.production /\ Answered(r, 429) /\ UNCHANGED <<live, conversations>>
       \/ StartingUp /\ Answered(r, 503) /\ UNCHANGED <<live, conversations>>
       \/ ~StartingUp /\ TakeConversation(r)
    /\ RequestUnchanged /\ UNCHANGED <<generateLock, recorded>>

LockGeneration(r) ==
    /\ thread[r].pc = "generate"
    /\ generateLock = Nobody
    /\ generateLock' = r
    /\ Goto(r, "generating")
    /\ RequestUnchanged /\ UNCHANGED <<live, conversations, recorded>>

Generate(r) ==
    /\ thread[r].pc = "generating"
    /\ Goto(r, "record") \/ Answered(r, 500)
    /\ generateLock' = Nobody
    /\ RequestUnchanged /\ UNCHANGED <<live, conversations, recorded>>

Record(r) ==
    /\ thread[r].pc = "record"
    /\ recorded' = recorded \cup {[text |-> thread[r].text, cid |-> thread[r].cid, request |-> r]}
    /\ live' = live \cup {thread[r].cid}
    /\ Answered(r, 200)
    /\ RequestUnchanged /\ UNCHANGED <<generateLock, conversations>>

RequestStep(r) == Chat(r) \/ LockGeneration(r) \/ Generate(r) \/ Record(r)

-----------------------------------------------------------------------------
(***************************************************************************)
(* The page.                                                               *)
(***************************************************************************)
SendUnchanged == UNCHANGED <<resets, conf, adapter, up, engine, loadError, loadLock, generateLock, live, conversations,
                             status, polling, incidents, recorded, loads>>
Write ==
    /\ texts < MaxTexts /\ page.input = 0 /\ status # "closed"
    /\ texts' = texts + 1
    /\ page' = [page EXCEPT !.input = texts + 1]
    /\ SendUnchanged /\ UNCHANGED <<thread, sends, gaveUp, left>>

Send ==
    /\ page.input # 0 /\ page.sending = 0 /\ ~page.limited
    /\ sends < MaxSends
    /\ sends' = sends + 1
    /\ page' = [page EXCEPT !.input = 0, !.sending = sends + 1]
    /\ thread' = IF up THEN [thread EXCEPT ![sends + 1] =
                               [pc |-> "arrived", text |-> page.input, cid |-> page.cid, code |-> 0]]
                 ELSE [thread EXCEPT ![sends + 1] = [pc |-> "lost", text |-> page.input]]
    /\ SendUnchanged /\ UNCHANGED <<texts, gaveUp, left>>

\* The failed message goes back to the input unless the user is writing another.
Restored(r) == IF page.input = 0 THEN thread[r].text ELSE page.input

\* Mutant of PageAfter: every message is offered again, also one that was answered.
PageAfterAlways(r, code) ==
    [page EXCEPT !.sending = 0, !.cid = IF code = 200 THEN thread[r].cid ELSE @,
                 !.input = Restored(r), !.limited = code = 429]

PageAfter(r, code) ==
    [page EXCEPT !.sending = 0, !.cid = IF code = 200 THEN thread[r].cid ELSE @,
                 !.input = IF code = 200 THEN @ ELSE Restored(r), !.limited = code = 429]
Receive(r) ==
    /\ thread[r].pc = "reply"
    /\ page' = IF page.sending = r THEN PageAfter(r, thread[r].code) ELSE page
    /\ thread' = [thread EXCEPT ![r] = Off]
    /\ SendUnchanged /\ UNCHANGED <<texts, sends, gaveUp, left>>

\* Mutant of GiveUpPage: after the timeout the page still waits.
GiveUpSilently == page' = page

\* The timer aborts the request, or the network or the proxy fails it; the server is not told.
GiveUpPage == page' = PageAfter(page.sending, 0)
GiveUp ==
    /\ page.sending # 0
    /\ GiveUpPage
    /\ gaveUp' = gaveUp \cup {page.sending}
    /\ SendUnchanged /\ UNCHANGED <<thread, texts, sends, left>>

CountdownEnds ==
    /\ page.limited
    /\ page' = [page EXCEPT !.limited = FALSE]
    /\ SendUnchanged /\ UNCHANGED <<thread, texts, sends, gaveUp, left>>

\* New chat: the old conversation is ended on the server, if it can be reached, then on the page.
ResetUnchanged == UNCHANGED <<incidents, conf, adapter, up, engine, loadError, loadLock, generateLock, thread, conversations,
                              status, polling, texts, sends, recorded, gaveUp, loads>>
PressNewChat ==
    /\ page.reset = NoConversation /\ page.cid # NoConversation
    /\ resets < MaxResets
    /\ resets' = resets + 1
    /\ page' = [page EXCEPT !.reset = page.cid]
    /\ ResetUnchanged /\ UNCHANGED <<live, left>>
ConversationReset ==
    /\ up /\ page.reset \in live
    /\ live' = live \ {page.reset}
    /\ ResetUnchanged /\ UNCHANGED <<page, resets, left>>

\* Mutant of PageReset: the page forgets the conversation only when the server did.
PageResetIfReached == page' = [page EXCEPT !.reset = NoConversation, !.cid = IF page.reset \in live THEN @ ELSE NoConversation]

PageReset == page' = [page EXCEPT !.reset = NoConversation, !.cid = NoConversation]
ResetDone ==
    /\ page.reset # NoConversation
    /\ PageReset
    /\ left' = IF page.sending = 0 THEN left \cup {page.reset} ELSE left
    /\ ResetUnchanged /\ UNCHANGED <<live, resets>>

OpenPage ==
    /\ status = "closed"
    /\ status' = "checking"
    /\ UNCHANGED <<serverVars, page, polling, servingBounds, servingHistory>>

\* Mutant of PollDue: health is asked for once.
PollOnce == status = "checking"

\* checkHealth: once when the page loads, then every five seconds while the model loads.
PollDue == status = "checking" \/ polling
CheckHealth ==
    /\ PollDue
    /\ status' = IF ~up THEN "offline" ELSE IF engine = "none" /\ Loading THEN "starting up" ELSE "online"
    /\ polling' = IF up THEN engine = "none" /\ Loading ELSE polling
    /\ UNCHANGED <<serverVars, page, servingBounds, servingHistory>>

PageStep == Write \/ Send \/ GiveUp \/ CountdownEnds \/ PressNewChat \/ ConversationReset \/ ResetDone
            \/ OpenPage \/ CheckHealth \/ \E r \in Requests : Receive(r)

-----------------------------------------------------------------------------
(***************************************************************************)
(* What happens around them: a release is copied into the adapter's        *)
(* directory or taken away; the server dies, and its supervisor or the     *)
(* owner starts it again.                                                  *)
(***************************************************************************)
SwapAdapter ==
    /\ incidents < MaxIncidents
    /\ incidents' = incidents + 1
    /\ adapter' \in {"absent", "partial", "complete"} \ {adapter}
    /\ UNCHANGED <<resets, conf, up, engine, loadError, loadLock, generateLock, thread, live, conversations, pageVars, texts, sends,
                   servingHistory>>

Crash ==
    /\ up /\ incidents < MaxIncidents
    /\ up' = FALSE
    /\ incidents' = incidents + 1
    /\ engine' = "none" /\ loadError' = FALSE /\ loadLock' = Nobody /\ generateLock' = Nobody
    /\ thread' = [t \in ServingThreads |-> IF t \in Requests /\ thread[t] # Off THEN [pc |-> "lost", text |-> thread[t].text]
                                           ELSE Off]
    /\ live' = {} /\ loads' = 0
    /\ UNCHANGED <<resets, conf, adapter, conversations, pageVars, texts, sends, recorded, gaveUp, left>>

\* lifespan: production refuses to start without its adapter; preloading starts the thread.
Start ==
    /\ ~up
    /\ conf.production => adapter = "complete"
    /\ up' = TRUE
    /\ thread' = [thread EXCEPT ![Preload] = IF conf.preload THEN [pc |-> "engine"] ELSE Off]
    /\ UNCHANGED <<conf, adapter, engine, loadError, loadLock, generateLock, live, conversations, pageVars, servingBounds,
                   servingHistory>>

ServingNext ==
    \/ PageStep
    \/ \E t \in ServingThreads : EngineStep(t)
    \/ \E r \in Requests : RequestStep(r)
    \/ SwapAdapter \/ Crash \/ Start

\* Threads run until they end, replies arrive, timers fire. Nobody has to open the page, to write, to press New chat, to change
\* the adapter or to start a server that died.
ServingFairness ==
    /\ \A t \in ServingThreads : WF_servingVars(EngineStep(t))
    /\ \A r \in Requests : WF_servingVars(RequestStep(r)) /\ WF_servingVars(Receive(r))
    /\ WF_servingVars(GiveUp) /\ WF_servingVars(CountdownEnds)
    /\ WF_servingVars(CheckHealth)

ServingSpec == ServingInit /\ [][ServingNext]_servingVars /\ ServingFairness
-----------------------------------------------------------------------------
(* In production the model never answers without its adapter, whatever     *)
(* happens to the adapter's directory while the model loads (_load_engine: *)
(* "refusing to serve the base model").                                    *)
ProductionServesAdapter == conf.production => engine # "base"

(* However many turns and the preload want the engine at once, it is       *)
(* loaded once (the engine property).                                      *)
LoadedOnce == loads <= 1

(* A message the user wrote once is recorded once, and once more for every *)
(* request the page gave up on: no answer, refusal or error makes the page *)
(* offer a recorded message again (sendMessage).                           *)
RecordedOnce ==
    \A x \in 1 .. MaxTexts :
        LET of == {m \in recorded : m.text = x}
        IN Cardinality(of) <= 1 + Cardinality({m \in of : m.request \in gaveUp})

(* New chat ends the conversation for the page also when the server cannot *)
(* be reached: unless a reply was due, the page never goes on with it.     *)
NewChatIsNew == page.cid \notin left

(* The page never waits for ever for a reply.                              *)
SendingEnds == page.sending # 0 ~> page.sending = 0

(* A turn that waits for the model gets it or an error: no failure of a    *)
(* load or a generation keeps a lock.                                      *)
TurnsEnd == \A r \in Requests : thread[r].pc \in {"engine", "lock", "generate"} ~> thread[r].pc \in {"reply", "lost", "off"}

(* The status line does not say "starting up" for ever.                    *)
StartingUpEnds == status = "starting up" ~> status # "starting up"

(* "Rupsaa is starting up - please try again in a minute": a server that   *)
(* refuses messages because it is starting up does not do so for ever.     *)
RefusalsEnd == []<>(~(up /\ StartingUp))

(* The engine that answers is the one that was to be loaded, and one.      *)
EngineIsRight == ProductionServesAdapter /\ LoadedOnce

(* What the page shows of a conversation is what the server has of it.     *)
PageIsTrue == RecordedOnce /\ NewChatIsNew

(* Neither the page nor a turn waits for ever.                             *)
NobodyWaitsForEver == SendingEnds /\ TurnsEnd /\ StartingUpEnds
=============================================================================
