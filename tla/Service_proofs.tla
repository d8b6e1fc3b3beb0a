--------------------------- MODULE Service_proofs ---------------------------
(***************************************************************************)
(* Proofs about the service while it runs: Serving, for every number of    *)
(* messages, requests, incidents and presses of New chat; Launcher, for    *)
(* every set of launches; and InternetPolicy, for every set of             *)
(* conversations, users and threads, every expiry time and every clock.    *)
(* ServingInv: a thread past the second look holds the load lock while     *)
(* there is no engine, and a message that was recorded for a page that     *)
(* still waits is nowhere else. LauncherInv: a server that runs is noted   *)
(* by its launcher, or about to be, or was slipped by a signal, and        *)
(* without an overlap of scripts one instance runs at most.                *)
(***************************************************************************)
EXTENDS Serving, Launcher, InternetPolicy, FiniteSetTheorems, TLAPS

Loaders == {"check", "load", "base", "adapted"}
PreloadStates == [pc : {"off", "engine", "lock"} \cup Loaders]
LostTurns == [pc : {"lost"}, text : Nat \ {0}]
Answers == {"reply", "generate", "generating", "record", "arrived"}
RunningTurns == [pc : {"engine", "lock"} \cup Loaders \cup Answers, text : Nat \ {0}, cid : Nat, code : Nat]
TurnStates == {Off} \cup LostTurns \cup RunningTurns
Pages == [cid : Nat, sending : Nat, input : Nat, limited : BOOLEAN, reset : Nat]
Messages == [text : Nat \ {0}, cid : Nat, request : Requests]

ServingTypeOK ==
    /\ conf \in [production : BOOLEAN, preload : BOOLEAN]
    /\ engine \in {"none", "base", "adapted"}
    /\ thread \in [ServingThreads -> PreloadStates \cup TurnStates]
    /\ thread[Preload] \in PreloadStates
    /\ \A r \in Requests : thread[r] \in TurnStates
    /\ conversations \in Nat /\ live \subseteq 0 .. conversations
    /\ page \in Pages
    /\ texts \in Nat /\ sends \in 0 .. MaxSends
    /\ recorded \subseteq Messages /\ IsFiniteSet(recorded)
    /\ loads \in Nat

\* Whoever loads, holds the lock, and there is no engine yet.
LoaderHoldsLock == \A t \in ServingThreads : thread[t].pc \in Loaders => loadLock = t /\ engine = "none"
LoadsCounted == loads = IF engine = "none" THEN 0 ELSE 1

Running(r) == thread[r] \in RunningTurns

\* What exists so far: requests, texts and conversations.
NothingFromTheFuture ==
    /\ page.sending <= sends /\ page.input <= texts
    /\ page.cid <= conversations /\ page.reset <= conversations
    /\ \A r \in Requests : /\ r > sends => thread[r] = Off
                           /\ thread[r] # Off => thread[r].text <= texts
                           /\ Running(r) => thread[r].cid <= conversations
    /\ \A m \in recorded : m.request <= sends /\ m.text <= texts
    /\ \A r \in gaveUp : r \in Requests /\ r <= sends
    /\ left \subseteq 1 .. conversations

\* A request is under way as long as the page waits for it, or after the page gave it up.
PageWaits ==
    /\ \A r \in Requests : thread[r] # Off => page.sending = r \/ r \in gaveUp
    /\ page.sending # 0 => page.sending \in Requests /\ thread[page.sending] # Off /\ page.sending \notin gaveUp

\* A message on its way is not in the input too.
TextOnce == page.sending # 0 => thread[page.sending].text # page.input

\* A recorded message whose request was not given up is neither in the input nor on its way again.
RecordedIsGone ==
    \A m \in recorded :
        m.request \notin gaveUp =>
            /\ m.text # page.input
            /\ page.sending # 0 /\ page.sending # m.request => thread[page.sending].text # m.text

\* A request records at the end, and once.
RecordsAtTheEnd ==
    /\ \A m \in recorded :
          LET s == thread[m.request]
          IN Running(m.request) => s.pc = "reply" /\ s.code = 200
    /\ \A m, n \in recorded : m.request = n.request => m = n
RecordedAlone ==
    \A m, n \in recorded :
        m.text = n.text /\ m.request \notin gaveUp /\ n.request \notin gaveUp => m = n

\* Neither the page nor the reply it waits for goes on with a conversation that was left.
LeftBehind ==
    /\ page.cid \notin left
    /\ page.sending # 0 => (Running(page.sending) => thread[page.sending].cid \notin left)

EngineInv == LoaderHoldsLock /\ LoadsCounted /\ ProductionServesAdapter
PageInv == NothingFromTheFuture /\ PageWaits /\ TextOnce /\ RecordedIsGone /\ RecordsAtTheEnd
           /\ RecordedAlone /\ LeftBehind
ServingInv == ServingTypeOK /\ EngineInv /\ PageInv
-----------------------------------------------------------------------------
Pcs == {"engine", "lock"} \cup Loaders \cup Answers

\* What the threads of requests and the preload thread are not confused by.
LEMMA ThreadFacts ==
    /\ Requests \subseteq Nat /\ Preload \notin Requests /\ Nobody \notin ServingThreads
    /\ Off \notin RunningTurns /\ Off \notin LostTurns /\ Off \in PreloadStates
    /\ \A s \in RunningTurns : s.pc \in Pcs /\ s.text \in Nat \ {0} /\ s.cid \in Nat /\ s.code \in Nat
    /\ \A s \in LostTurns : s \notin RunningTurns /\ s.pc = "lost" /\ s.text \in Nat \ {0}
<1>1. MaxSends \in Nat
    BY ServingAssumption
<1>2. \A s \in RunningTurns : s.pc \in Pcs /\ s.text \in Nat \ {0} /\ s.cid \in Nat /\ s.code \in Nat
    BY DEF RunningTurns, Pcs
<1>3. \A s \in LostTurns : s.pc = "lost" /\ s.text \in Nat \ {0}
    BY DEF LostTurns
<1>4. Off.pc = "off"
    BY DEF Off
<1>5. "off" \notin Pcs /\ "lost" \notin Pcs
    BY DEF Pcs, Loaders, Answers
<1>6. Off \in PreloadStates
    BY DEF Off, PreloadStates
<1>7. Requests \subseteq Nat /\ Preload \notin Requests /\ Nobody \notin ServingThreads
    BY <1>1 DEF Requests, Preload, Nobody, ServingThreads
<1>8. QED
    BY <1>2, <1>3, <1>4, <1>5, <1>6, <1>7

LEMMA TurnFacts ==
    ASSUME ServingTypeOK, NEW r \in Requests, thread[r] # Off
    PROVE  thread[r].text \in Nat \ {0} /\ (Running(r) \/ thread[r].pc = "lost")
BY ThreadFacts DEF ServingTypeOK, TurnStates, Running

\* A running request that is at one of its steps is not off and not lost.
LEMMA AtIsRunning ==
    ASSUME ServingTypeOK, NEW r \in Requests, thread[r].pc \in Pcs
    PROVE  Running(r) /\ thread[r] # Off
<1>1. thread[r] \in TurnStates
    BY DEF ServingTypeOK
<1>2. thread[r] # Off
    BY DEF Off, Pcs, Loaders, Answers
<1>3. thread[r] \notin LostTurns
    BY ThreadFacts DEF Pcs, Loaders, Answers
<1>4. QED
    BY <1>1, <1>2, <1>3 DEF TurnStates, Running

\* The steps of a request's thread: to another place, to its reply, to a
\* conversation.
Stepped(s, pc) == [s EXCEPT !.pc = pc]
Replied(s, code) == [s EXCEPT !.pc = "reply", !.code = code]
Talking(s, pc, cid) == [s EXCEPT !.pc = pc, !.cid = cid]

LEMMA MovedTurn ==
    ASSUME NEW s \in RunningTurns
    PROVE  /\ \A pc \in Pcs : /\ Stepped(s, pc) \in RunningTurns /\ Stepped(s, pc).pc = pc
                              /\ Stepped(s, pc).text = s.text /\ Stepped(s, pc).cid = s.cid
           /\ \A code \in Nat : /\ Replied(s, code) \in RunningTurns /\ Replied(s, code).pc = "reply"
                                /\ Replied(s, code).code = code
                               /\ Replied(s, code).text = s.text /\ Replied(s, code).cid = s.cid
<1>1. ASSUME NEW pc \in Pcs
      PROVE  /\ Stepped(s, pc) \in RunningTurns /\ Stepped(s, pc).pc = pc
             /\ Stepped(s, pc).text = s.text /\ Stepped(s, pc).cid = s.cid
    BY DEF RunningTurns, Pcs, Stepped
<1>2. ASSUME NEW code \in Nat
      PROVE  /\ Replied(s, code) \in RunningTurns /\ Replied(s, code).pc = "reply"
             /\ Replied(s, code).code = code
             /\ Replied(s, code).text = s.text /\ Replied(s, code).cid = s.cid
    BY DEF RunningTurns, Answers, Replied
<1>3. QED
    BY <1>1, <1>2

LEMMA MovedTalk ==
    ASSUME NEW s \in RunningTurns, NEW pc \in Pcs, NEW cid \in Nat
    PROVE  /\ Talking(s, pc, cid) \in RunningTurns
           /\ Talking(s, pc, cid).pc = pc /\ Talking(s, pc, cid).cid = cid
           /\ Talking(s, pc, cid).text = s.text
BY DEF RunningTurns, Pcs, Talking

\* The preload thread's steps.
LEMMA MovedPreload ==
    ASSUME NEW s \in PreloadStates, NEW pc \in {"engine", "lock"} \cup Loaders
    PROVE  [s EXCEPT !.pc = pc] \in PreloadStates /\ [s EXCEPT !.pc = pc].pc = pc
BY DEF PreloadStates

\* A request's thread that moves on before it has recorded changes nothing of
\* what the page may rely on.
LEMMA TurnMovesOn ==
    ASSUME ServingTypeOK, PageInv, NEW r \in Requests, NEW s \in RunningTurns,
           Running(r), thread[r].pc # "reply",
           thread' = [thread EXCEPT ![r] = s], s.text = thread[r].text,
           s.cid \notin left \/ page.sending # r, s.cid <= conversations',
           conversations' \in Nat, conversations <= conversations',
           UNCHANGED <<page, texts, sends, recorded, gaveUp, left>>
    PROVE  PageInv'
<1>1. thread[r] # Off /\ s # Off /\ thread \in [ServingThreads -> PreloadStates \cup TurnStates] /\ r \in ServingThreads
    BY ThreadFacts DEF Running, ServingTypeOK, ServingThreads
<1>2. thread'[r] = s /\ \A q \in Requests : q # r => thread'[q] = thread[q]
    BY <1>1 DEF ServingThreads
<1>3. \A m \in recorded : m.request # r
    BY DEF PageInv, RecordsAtTheEnd
<1>4. NothingFromTheFuture'
    <2>1. conversations \in Nat /\ page.cid \in Nat /\ page.reset \in Nat
        BY DEF ServingTypeOK, Pages
    <2>2. \A q \in Requests : Running(q) => thread[q].cid \in Nat
        BY ThreadFacts DEF Running
    <2>3. page.cid <= conversations' /\ page.reset <= conversations' /\ left \subseteq 1 .. conversations'
        BY <2>1 DEF PageInv, NothingFromTheFuture
    <2>4. ASSUME NEW q \in Requests
          PROVE /\ q > sends => thread'[q] = Off
                /\ thread'[q] # Off => thread'[q].text <= texts
                /\ Running(q)' => thread'[q].cid <= conversations'
        <3>1. CASE q = r
            BY <1>1, <1>2, <3>1 DEF PageInv, NothingFromTheFuture
        <3>2. CASE q # r
            <4>1. Running(q)' = Running(q)
                BY <1>2, <3>2 DEF Running
            <4>2. Running(q) => thread[q].cid <= conversations'
                BY <2>1, <2>2 DEF PageInv, NothingFromTheFuture
            <4>3. QED
                BY <1>2, <3>2, <4>1, <4>2 DEF PageInv, NothingFromTheFuture
        <3>3. QED
            BY <3>1, <3>2
    <2>5. QED
        BY <2>3, <2>4 DEF PageInv, NothingFromTheFuture
<1>5. PageWaits'
    BY <1>1, <1>2 DEF PageInv, PageWaits
<1>6. page.sending # 0 => thread'[page.sending].text = thread[page.sending].text
    BY <1>2 DEF PageInv, PageWaits
<1>7. TextOnce' /\ RecordedIsGone' /\ RecordedAlone'
    BY <1>6 DEF PageInv, TextOnce, RecordedIsGone, RecordedAlone
<1>8. RecordsAtTheEnd'
    <2>1. \A m \in recorded : m.request \in Requests /\ thread'[m.request] = thread[m.request]
        BY <1>2, <1>3 DEF ServingTypeOK, Messages
    <2>2. QED
        BY <2>1 DEF PageInv, RecordsAtTheEnd, Running
<1>9. LeftBehind'
    <2>1. CASE page.sending = r
        BY <1>2, <2>1 DEF PageInv, LeftBehind
    <2>2. CASE page.sending # r
        <3>1. page.sending # 0 => thread'[page.sending] = thread[page.sending]
            BY <1>2, <2>2 DEF PageInv, PageWaits
        <3>2. QED
            BY <3>1 DEF PageInv, LeftBehind, Running
    <2>3. QED
        BY <2>1, <2>2
<1>10. QED
    BY <1>4, <1>5, <1>7, <1>8, <1>9 DEF PageInv

\* What is not about a request's thread leaves the page's invariant alone.
LEMMA OthersMove ==
    ASSUME PageInv, \A q \in Requests : thread'[q] = thread[q],
           UNCHANGED <<page, texts, sends, recorded, gaveUp, left, conversations>>, ServingTypeOK
    PROVE  PageInv'
<1>1. \A q \in Requests : Running(q)' = Running(q)
    BY DEF Running
<1>2. \A m \in recorded : m.request \in Requests
    BY DEF ServingTypeOK, Messages
<1>3. page.sending # 0 => page.sending \in Requests
    BY DEF PageInv, PageWaits
<1>4. NothingFromTheFuture' /\ PageWaits' /\ TextOnce' /\ RecordedIsGone' /\ RecordedAlone'
    BY <1>1, <1>3 DEF PageInv, NothingFromTheFuture, PageWaits, TextOnce, RecordedIsGone, RecordedAlone
<1>5. RecordsAtTheEnd' /\ LeftBehind'
    BY <1>1, <1>2, <1>3 DEF PageInv, RecordsAtTheEnd, LeftBehind
<1>6. QED
    BY <1>4, <1>5 DEF PageInv

-----------------------------------------------------------------------------
(* The engine's steps, by the preload thread or by a request's.            *)

LoadSteps == {"engine", "lock"} \cup Loaders

ThreadTypeOK ==
    /\ thread \in [ServingThreads -> PreloadStates \cup TurnStates]
    /\ thread[Preload] \in PreloadStates
    /\ \A r \in Requests : thread[r] \in TurnStates

\* Where a step of the engine leaves its thread.
LEMMA EngineThread ==
    ASSUME ServingTypeOK, PageInv, NEW t \in ServingThreads, thread[t].pc \in LoadSteps, EngineUnchanged,
           HaveEngine(t) \/ NoEngine(t) \/ \E pc \in LoadSteps : Goto(t, pc)
    PROVE  /\ PageInv' /\ ThreadTypeOK'
           /\ \A q \in ServingThreads : q # t => thread'[q] = thread[q]
           /\ HaveEngine(t) \/ NoEngine(t) => thread'[t].pc \notin Loaders
           /\ \A pc \in LoadSteps : Goto(t, pc) => thread'[t].pc = pc
<1>1. /\ thread \in [ServingThreads -> PreloadStates \cup TurnStates]
      /\ Preload \in ServingThreads /\ Requests \subseteq ServingThreads
      /\ ServingThreads = {Preload} \cup Requests
      /\ conversations \in Nat
    BY DEF ServingTypeOK, ServingThreads
<1>2. UNCHANGED <<page, texts, sends, recorded, gaveUp, left, conversations>>
    BY DEF EngineUnchanged, pageVars
<1>3. CASE t = Preload
    <2> DEFINE s == thread'[Preload]
    <2>1. \/ thread' = [thread EXCEPT ![Preload] = Off]
          \/ \E pc \in LoadSteps : thread' = [thread EXCEPT ![Preload].pc = pc] /\ Goto(t, pc)
        BY <1>3 DEF HaveEngine, NoEngine, Goto
    <2>2. thread[Preload] \in PreloadStates
        BY DEF ServingTypeOK
    <2>3. /\ \A q \in ServingThreads : q # Preload => thread'[q] = thread[q]
          /\ \A q \in Requests : thread'[q] = thread[q]
        BY <1>1, <2>1, ThreadFacts
    <2>4. /\ s \in PreloadStates
          /\ HaveEngine(t) \/ NoEngine(t) => s = Off
          /\ \A pc \in LoadSteps : Goto(t, pc) => s.pc = pc
        <3>1. \A pc \in LoadSteps : [thread[Preload] EXCEPT !.pc = pc] \in PreloadStates
                                    /\ [thread[Preload] EXCEPT !.pc = pc].pc = pc
            BY <2>2, MovedPreload DEF LoadSteps
        <3>2. HaveEngine(t) \/ NoEngine(t) => s = Off
            BY <1>1, <1>3 DEF HaveEngine, NoEngine
        <3>3. \A pc \in LoadSteps : Goto(t, pc) => s = [thread[Preload] EXCEPT !.pc = pc]
            BY <1>1, <1>3 DEF Goto
        <3>4. QED
            BY <3>1, <3>2, <3>3, ThreadFacts
    <2>5. PageInv'
        BY <1>2, <2>3, OthersMove
    <2>6. ThreadTypeOK'
        <3>1. thread' \in [ServingThreads -> PreloadStates \cup TurnStates]
            BY <1>1, <2>1, <2>4
        <3>2. QED
            BY <3>1, <2>3, <2>4 DEF ThreadTypeOK, ServingTypeOK
    <2>7. Off.pc \notin Loaders
        BY DEF Off, Loaders
    <2>8. QED
        BY <1>3, <2>3, <2>4, <2>5, <2>6, <2>7
<1>4. CASE t \in Requests
    <2>1. Running(t) /\ thread[t] # Off
        BY <1>4, AtIsRunning DEF LoadSteps, Pcs
    <2>2. t # Preload
        BY <1>4, ThreadFacts
    <2> DEFINE u == thread[t]
    <2>3. /\ \A pc \in Pcs : /\ Stepped(u, pc) \in RunningTurns /\ Stepped(u, pc).pc = pc
                             /\ Stepped(u, pc).text = u.text /\ Stepped(u, pc).cid = u.cid
          /\ Replied(u, 500) \in RunningTurns /\ Replied(u, 500).pc = "reply"
          /\ Replied(u, 500).text = u.text /\ Replied(u, 500).cid = u.cid
        BY <2>1, MovedTurn DEF Running
    <2>4. LoadSteps \subseteq Pcs /\ "generate" \in Pcs /\ "generate" \notin Loaders /\ "reply" \notin Loaders
        BY DEF LoadSteps, Pcs, Answers, Loaders
    <2>5. /\ HaveEngine(t) => thread' = [thread EXCEPT ![t] = Stepped(u, "generate")]
          /\ \A pc \in LoadSteps : Goto(t, pc) => thread' = [thread EXCEPT ![t] = Stepped(u, pc)]
          /\ NoEngine(t) => thread' = [thread EXCEPT ![t] = Replied(u, 500)]
        <3>1. \A pc : Goto(t, pc) => thread' = [thread EXCEPT ![t] = Stepped(u, pc)]
            BY DEF Goto, Stepped
        <3>2. NoEngine(t) => thread' = [thread EXCEPT ![t] = Replied(u, 500)]
            <4>1. [thread EXCEPT ![t].pc = "reply", ![t].code = 500] = [thread EXCEPT ![t] = Replied(u, 500)]
                BY <1>1 DEF Replied
            <4>2. NoEngine(t) => thread' = [thread EXCEPT ![t].pc = "reply", ![t].code = 500]
                BY <2>2 DEF NoEngine
            <4>3. QED
                BY <4>1, <4>2, Zenon
        <3>3. HaveEngine(t) => Goto(t, "generate")
            BY <2>2 DEF HaveEngine
        <3>4. QED
            BY <3>1, <3>2, <3>3
    <2>6. PICK s \in RunningTurns : /\ thread' = [thread EXCEPT ![t] = s]
                                    /\ s.text = thread[t].text /\ s.cid = thread[t].cid
        BY <2>3, <2>4, <2>5
    <2>7. /\ HaveEngine(t) \/ NoEngine(t) => thread'[t].pc \notin Loaders
          /\ \A pc \in LoadSteps : Goto(t, pc) => thread'[t].pc = pc
        BY <1>1, <2>3, <2>4, <2>5
    <2>8. \A q \in ServingThreads : q # t => thread'[q] = thread[q]
        BY <1>1, <2>6
    <2>9. PageInv'
        <3>1. thread[t].pc # "reply"
            BY DEF LoadSteps, Loaders
        <3>2. s.cid \notin left \/ page.sending # t
            BY <2>1, <2>6, <1>4, ThreadFacts DEF PageInv, LeftBehind, Preload
        <3>3. s.cid <= conversations'
            BY <1>2, <1>4, <2>1, <2>6 DEF PageInv, NothingFromTheFuture
        <3>4. conversations' \in Nat /\ conversations <= conversations'
            BY <1>1, <1>2
        <3>5. QED
            BY <1>2, <1>4, <2>1, <2>6, <3>1, <3>2, <3>3, <3>4, TurnMovesOn
    <2>10. ThreadTypeOK'
        <3>1. s \in TurnStates
            BY DEF TurnStates
        <3>2. thread' \in [ServingThreads -> PreloadStates \cup TurnStates]
            BY <1>1, <2>6, <3>1
        <3>3. QED
            BY <1>1, <1>4, <2>2, <2>6, <3>1, <3>2 DEF ThreadTypeOK, ServingTypeOK
    <2>11. QED
        BY <2>7, <2>8, <2>9, <2>10
<1>5. QED
    BY <1>1, <1>3, <1>4

\* The types of everything but the threads in a step of the engine.
LEMMA EngineStepType ==
    ASSUME ServingTypeOK, ThreadTypeOK', EngineUnchanged, engine' \in {"none", "base", "adapted"}, loads' \in Nat
    PROVE  ServingTypeOK'
BY DEF ServingTypeOK, ThreadTypeOK, EngineUnchanged, pageVars

\* A thread that goes on without having come to load leaves the load to its
\* holder.
LEMMA EngineStays ==
    ASSUME EngineInv, NEW t \in ServingThreads, UNCHANGED <<conf, engine, loads>>,
           \A q \in ServingThreads : q # t => thread'[q] = thread[q],
           thread'[t].pc \in Loaders => loadLock' = t /\ engine = "none",
           \/ loadLock' = loadLock
           \/ \A q \in ServingThreads \ {t} : loadLock # q
    PROVE  EngineInv'
BY DEF EngineInv, LoaderHoldsLock, LoadsCounted, ProductionServesAdapter

LEMMA GetEngineKeeps ==
    ASSUME ServingInv, NEW t \in ServingThreads, GetEngine(t)
    PROVE  ServingInv'
<1>1. thread[t].pc \in LoadSteps /\ "lock" \in LoadSteps /\ "lock" \notin Loaders /\ EngineUnchanged
    BY DEF GetEngine, LoadSteps, Loaders
<1>2. HaveEngine(t) \/ Goto(t, "lock")
    BY DEF GetEngine
<1>3. /\ PageInv' /\ ThreadTypeOK' /\ thread'[t].pc \notin Loaders
      /\ \A q \in ServingThreads : q # t => thread'[q] = thread[q]
    BY <1>1, <1>2, EngineThread DEF ServingInv
<1>4. UNCHANGED <<engine, loadLock, loads, conf>>
    BY DEF GetEngine, EngineUnchanged
<1>5. EngineInv'
    BY <1>3, <1>4, EngineStays DEF ServingInv
<1>6. ServingTypeOK'
    <2>1. engine' \in {"none", "base", "adapted"} /\ loads' \in Nat
        BY <1>4 DEF ServingInv, ServingTypeOK
    <2>2. QED
        BY <1>1, <1>3, <2>1, EngineStepType DEF ServingInv
<1>7. QED
    BY <1>3, <1>5, <1>6 DEF ServingInv

LEMMA LockEngineKeeps ==
    ASSUME ServingInv, NEW t \in ServingThreads, LockEngine(t)
    PROVE  ServingInv'
<1>1. thread[t].pc \in LoadSteps /\ "check" \in LoadSteps /\ EngineUnchanged
    BY DEF LockEngine, LoadSteps, Loaders
<1>2. \/ HaveEngine(t) /\ UNCHANGED loadLock
      \/ engine = "none" /\ Goto(t, "check") /\ loadLock' = t
    BY DEF LockEngine, TakeLockAndLook, TakeLock
<1>3. /\ PageInv' /\ ThreadTypeOK'
      /\ \A q \in ServingThreads : q # t => thread'[q] = thread[q]
      /\ HaveEngine(t) => thread'[t].pc \notin Loaders
    BY <1>1, <1>2, EngineThread DEF ServingInv
<1>4. UNCHANGED <<engine, loads, conf>>
    BY DEF LockEngine, EngineUnchanged
<1>5. EngineInv'
    <2>1. \A q \in ServingThreads \ {t} : loadLock # q
        BY ThreadFacts DEF LockEngine
    <2>2. thread'[t].pc \in Loaders => loadLock' = t /\ engine = "none"
        BY <1>2, <1>3
    <2>3. QED
        BY <1>3, <1>4, <2>1, <2>2, EngineStays DEF ServingInv
<1>6. ServingTypeOK'
    <2>1. engine' \in {"none", "base", "adapted"} /\ loads' \in Nat
        BY <1>4 DEF ServingInv, ServingTypeOK
    <2>2. QED
        BY <1>1, <1>3, <2>1, EngineStepType DEF ServingInv
<1>7. QED
    BY <1>3, <1>5, <1>6 DEF ServingInv

\* A step of the load that goes on to the next, or fails and gives the lock back.
LEMMA LoadStepKeeps ==
    ASSUME ServingInv, NEW t \in ServingThreads, thread[t].pc \in Loaders, EngineUnchanged,
           UNCHANGED <<engine, loads>>,
           LoadFails(t) \/ ((\E pc \in Loaders : Goto(t, pc)) /\ UNCHANGED loadLock)
    PROVE  ServingInv'
<1>1. thread[t].pc \in LoadSteps /\ Loaders \subseteq LoadSteps /\ loadLock = t /\ engine = "none"
    BY DEF LoadSteps, ServingInv, EngineInv, LoaderHoldsLock
<1>2. NoEngine(t) \/ \E pc \in LoadSteps : Goto(t, pc)
    BY <1>1 DEF LoadFails
<1>3. /\ PageInv' /\ ThreadTypeOK'
      /\ \A q \in ServingThreads : q # t => thread'[q] = thread[q]
      /\ NoEngine(t) => thread'[t].pc \notin Loaders
    BY <1>1, <1>2, EngineThread DEF ServingInv
<1>4. EngineInv'
    <2>1. thread'[t].pc \in Loaders => loadLock' = t /\ engine = "none"
        BY <1>1, <1>3 DEF LoadFails
    <2>2. QED
        BY <1>1, <1>3, <2>1, EngineStays DEF ServingInv, EngineUnchanged
<1>5. ServingTypeOK'
    <2>1. engine' \in {"none", "base", "adapted"} /\ loads' \in Nat
        BY DEF ServingInv, ServingTypeOK
    <2>2. QED
        BY <1>3, <2>1, EngineStepType DEF ServingInv
<1>6. QED
    BY <1>3, <1>4, <1>5 DEF ServingInv

LEMMA LoadKeeps ==
    ASSUME ServingInv, NEW t \in ServingThreads, LoadEngine(t) \/ LoadModel(t)
    PROVE  ServingInv'
<1>1. {"check", "load", "base", "adapted"} \subseteq Loaders
    BY DEF Loaders
<1>2. CASE LoadEngine(t)
    BY <1>1, <1>2, LoadStepKeeps DEF LoadEngine
<1>3. CASE LoadModel(t)
    <2>1. thread[t].pc \in Loaders /\ EngineUnchanged /\ UNCHANGED <<engine, loads>>
        BY <1>1, <1>3 DEF LoadModel
    <2>2. LoadFails(t) \/ ((\E pc \in Loaders : Goto(t, pc)) /\ UNCHANGED loadLock)
        BY <1>1, <1>3 DEF LoadModel
    <2>3. QED
        BY <2>1, <2>2, LoadStepKeeps
<1>4. QED
    BY <1>2, <1>3

LEMMA SetEngineKeeps ==
    ASSUME ServingInv, NEW t \in ServingThreads, SetEngine(t)
    PROVE  ServingInv'
<1>1. thread[t].pc \in Loaders /\ thread[t].pc \in LoadSteps /\ EngineUnchanged
    BY DEF SetEngine, LoadSteps, Loaders
<1>2. CASE Refused(thread[t].pc)
    BY <1>1, <1>2, LoadStepKeeps DEF SetEngine
<1>3. CASE ~Refused(thread[t].pc)
    <2>1. /\ engine' = thread[t].pc /\ loads' = loads + 1 /\ loadLock' = Nobody /\ HaveEngine(t)
          /\ thread[t].pc \in {"base", "adapted"} /\ UNCHANGED conf
        BY <1>3 DEF SetEngine, EngineUnchanged
    <2>2. /\ PageInv' /\ ThreadTypeOK' /\ thread'[t].pc \notin Loaders
          /\ \A q \in ServingThreads : q # t => thread'[q] = thread[q]
        BY <1>1, <2>1, EngineThread DEF ServingInv
    <2>3. loadLock = t /\ engine = "none" /\ loads = 0
        BY <1>1 DEF ServingInv, EngineInv, LoaderHoldsLock, LoadsCounted
    <2>4. LoaderHoldsLock'
        BY <2>2, <2>3 DEF ServingInv, EngineInv, LoaderHoldsLock
    <2>5. LoadsCounted' /\ ProductionServesAdapter'
        BY <1>3, <2>1, <2>3 DEF LoadsCounted, ProductionServesAdapter, Refused
    <2>6. ServingTypeOK'
        BY <1>1, <2>1, <2>2, <2>3, EngineStepType DEF ServingInv
    <2>7. QED
        BY <2>2, <2>4, <2>5, <2>6 DEF ServingInv, EngineInv
<1>4. QED
    BY <1>2, <1>3

-----------------------------------------------------------------------------
(* POST /chat.                                                             *)

\* A request's thread that goes on before it records.
LEMMA RequestMoves ==
    ASSUME ServingInv, NEW r \in Requests, Running(r), thread[r].pc \notin Loaders \cup {"reply"},
           NEW s \in RunningTurns, thread' = [thread EXCEPT ![r] = s], s.pc \notin Loaders, s.text = thread[r].text,
           s.cid \notin left \/ page.sending # r, s.cid <= conversations',
           conversations' \in Nat, conversations <= conversations', live' \subseteq 0 .. conversations',
           RequestUnchanged, UNCHANGED recorded
    PROVE  ServingInv'
<1>1. UNCHANGED <<page, texts, sends, gaveUp, left, conf, engine, loadLock, loads>>
    BY DEF RequestUnchanged, pageVars, servingBounds
<1>2. /\ thread \in [ServingThreads -> PreloadStates \cup TurnStates] /\ r \in ServingThreads
      /\ Preload \in ServingThreads /\ r # Preload
    BY ThreadFacts DEF ServingInv, ServingTypeOK, ServingThreads
<1>3. PageInv'
    BY <1>1, TurnMovesOn DEF ServingInv
<1>4. \A q \in ServingThreads : q # r => thread'[q] = thread[q]
    BY <1>2
<1>5. thread'[r] = s /\ s \in TurnStates
    BY <1>2 DEF TurnStates
<1>6. EngineInv'
    BY <1>1, <1>2, <1>4, <1>5, EngineStays DEF ServingInv
<1>7. thread' \in [ServingThreads -> PreloadStates \cup TurnStates]
    BY <1>2, <1>5
<1>8. ServingTypeOK'
    BY <1>1, <1>2, <1>4, <1>5, <1>7 DEF ServingInv, ServingTypeOK, ServingThreads
<1>9. QED
    BY <1>3, <1>6, <1>8 DEF ServingInv

\* What an answer leaves in a request's record.
LEMMA AnsweredIs ==
    ASSUME ServingTypeOK, NEW r \in Requests, NEW code, Answered(r, code)
    PROVE  thread' = [thread EXCEPT ![r] = Replied(thread[r], code)]
<1>1. thread \in [ServingThreads -> PreloadStates \cup TurnStates] /\ r \in ServingThreads
    BY DEF ServingTypeOK, ServingThreads
<1>2. [thread EXCEPT ![r].pc = "reply", ![r].code = code] = [thread EXCEPT ![r] = Replied(thread[r], code)]
    BY <1>1 DEF Replied
<1>3. QED
    BY <1>2, Zenon DEF Answered

\* A request that goes on, or is answered, in its conversation.
LEMMA RequestGoesOn ==
    ASSUME ServingInv, NEW r \in Requests, thread[r].pc \in {"arrived", "generate", "generating"},
           \/ \E pc \in {"generating", "record"} : Goto(r, pc)
           \/ \E code \in {429, 500, 503} : Answered(r, code),
           RequestUnchanged, UNCHANGED <<live, conversations, recorded>>
    PROVE  ServingInv'
<1>1. Running(r) /\ thread[r] # Off /\ thread[r].pc \notin Loaders \cup {"reply"}
    BY AtIsRunning DEF ServingInv, Pcs, Answers, Loaders
<1>2. PICK s \in RunningTurns : /\ thread' = [thread EXCEPT ![r] = s] /\ s.pc \notin Loaders
                                /\ s.text = thread[r].text /\ s.cid = thread[r].cid
    <2>1. \A pc \in {"generating", "record"} : pc \in Pcs /\ pc \notin Loaders
        BY DEF Pcs, Answers, Loaders
    <2>2. "reply" \notin Loaders
        BY DEF Loaders
    <2>3. CASE \E pc \in {"generating", "record"} : Goto(r, pc)
        <3>1. PICK pc \in {"generating", "record"} : Goto(r, pc)
            BY <2>3
        <3>2. PICK s : s = Stepped(thread[r], pc)
            OBVIOUS
        <3>3. s \in RunningTurns /\ s.pc = pc /\ s.text = thread[r].text /\ s.cid = thread[r].cid
            BY <1>1, <2>1, <3>2, MovedTurn DEF Running
        <3>4. thread' = [thread EXCEPT ![r] = s]
            BY <3>1, <3>2 DEF Goto, Stepped
        <3>5. QED
            BY <2>1, <3>3, <3>4
    <2>4. CASE \E code \in {429, 500, 503} : Answered(r, code)
        <3>1. PICK code \in {429, 500, 503} : Answered(r, code)
            BY <2>4
        <3>2. PICK s : s = Replied(thread[r], code)
            OBVIOUS
        <3>3. s \in RunningTurns /\ s.pc = "reply" /\ s.text = thread[r].text /\ s.cid = thread[r].cid
            BY <1>1, <3>2, MovedTurn DEF Running
        <3>4. thread' = [thread EXCEPT ![r] = s]
            BY <3>1, <3>2, AnsweredIs DEF ServingInv
        <3>5. s.pc \notin Loaders
            BY <3>3 DEF Loaders
        <3>6. QED
            BY <3>3, <3>4, <3>5
    <2>5. QED
        BY <2>3, <2>4
<1>3. s.cid \notin left \/ page.sending # r
    BY <1>1, <1>2, ThreadFacts DEF ServingInv, PageInv, LeftBehind, Preload
<1>4. /\ s.cid <= conversations' /\ conversations' \in Nat /\ conversations <= conversations'
      /\ live' \subseteq 0 .. conversations'
    BY <1>1, <1>2 DEF ServingInv, ServingTypeOK, PageInv, NothingFromTheFuture
<1>5. QED
    BY <1>1, <1>2, <1>3, <1>4, RequestMoves

LEMMA ChatKeeps ==
    ASSUME ServingInv, NEW r \in Requests, Chat(r)
    PROVE  ServingInv'
<1>1. CASE UNCHANGED <<live, conversations>> /\ \E code \in {429, 503} : Answered(r, code)
    BY <1>1, RequestGoesOn DEF Chat
<1>2. CASE TakeConversation(r)
    <2>1. PICK cid : cid = IF thread[r].cid \in live THEN thread[r].cid ELSE conversations + 1
        OBVIOUS
    <2>2. /\ conversations' = IF cid \in live THEN conversations ELSE cid
          /\ live' = live \cup {cid}
          /\ \E pc \in {"engine", "record"} : thread' = [thread EXCEPT ![r].pc = pc, ![r].cid = cid]
        BY <1>2, <2>1 DEF TakeConversation
    <2>3. Running(r) /\ thread[r] # Off /\ thread[r].pc \notin Loaders \cup {"reply"}
        BY AtIsRunning DEF ServingInv, Pcs, Answers, Loaders, Chat
    <2>4. thread[r].cid \in Nat /\ conversations \in Nat /\ live \subseteq 0 .. conversations
        BY <2>3, ThreadFacts DEF Running, ServingInv, ServingTypeOK
    <2>5. /\ cid \in Nat /\ cid <= conversations' /\ conversations' \in Nat /\ conversations <= conversations'
          /\ live' \subseteq 0 .. conversations'
        <3>1. CASE thread[r].cid \in live
            BY <2>1, <2>2, <2>4, <3>1
        <3>2. CASE thread[r].cid \notin live
            <4>1. cid = conversations + 1 /\ cid \notin live
                BY <2>1, <2>4, <3>2
            <4>2. QED
                BY <2>2, <2>4, <4>1
        <3>3. QED
            BY <3>1, <3>2
    <2>6. \A pc \in {"engine", "record"} : pc \in Pcs /\ pc \notin Loaders
        BY DEF Pcs, Answers, Loaders
    <2>7. cid \notin left \/ page.sending # r
        <3>1. page.sending = r => thread[r].cid \notin left
            BY <2>3, ThreadFacts DEF ServingInv, PageInv, LeftBehind, Preload
        <3>2. left \subseteq 1 .. conversations
            BY DEF ServingInv, PageInv, NothingFromTheFuture
        <3>3. QED
            BY <2>1, <2>4, <3>1, <3>2
    <2>8. PICK pc \in {"engine", "record"} : thread' = [thread EXCEPT ![r].pc = pc, ![r].cid = cid]
        BY <2>2
    <2>9. PICK s : s = Talking(thread[r], pc, cid)
        OBVIOUS
    <2>10. thread' = [thread EXCEPT ![r] = s]
        <3>1. thread \in [ServingThreads -> PreloadStates \cup TurnStates] /\ r \in ServingThreads
            BY DEF ServingInv, ServingTypeOK, ServingThreads
        <3>2. [thread EXCEPT ![r].pc = pc, ![r].cid = cid] = [thread EXCEPT ![r] = Talking(thread[r], pc, cid)]
            BY <3>1 DEF Talking
        <3>3. QED
            BY <2>8, <2>9, <3>2, Zenon
    <2>11. s \in RunningTurns /\ s.pc = pc /\ s.cid = cid /\ s.text = thread[r].text
        BY <2>3, <2>5, <2>6, <2>9, MovedTalk DEF Running
    <2>12. RequestUnchanged /\ UNCHANGED recorded
        BY DEF Chat
    <2>13. QED
        BY <2>3, <2>5, <2>6, <2>7, <2>10, <2>11, <2>12, RequestMoves
<1>3. QED
    BY <1>1, <1>2 DEF Chat

LEMMA GenerationKeeps ==
    ASSUME ServingInv, NEW r \in Requests, LockGeneration(r) \/ Generate(r)
    PROVE  ServingInv'
<1>1. CASE LockGeneration(r)
    BY <1>1, RequestGoesOn DEF LockGeneration
<1>2. CASE Generate(r)
    BY <1>2, RequestGoesOn DEF Generate
<1>3. QED
    BY <1>1, <1>2

LEMMA RecordKeeps ==
    ASSUME ServingInv, NEW r \in Requests, Record(r)
    PROVE  ServingInv'
<1>1. Running(r) /\ thread[r] # Off /\ thread[r].pc = "record" /\ thread[r].pc \notin Loaders
    BY AtIsRunning DEF ServingInv, Pcs, Answers, Loaders, Record
<1>2. UNCHANGED <<page, texts, sends, gaveUp, left, conf, engine, loadLock, loads, conversations>>
    BY DEF Record, RequestUnchanged, pageVars, servingBounds
<1>3. /\ thread \in [ServingThreads -> PreloadStates \cup TurnStates] /\ r \in ServingThreads
      /\ Preload \in ServingThreads /\ r # Preload
    BY ThreadFacts DEF ServingInv, ServingTypeOK, ServingThreads
<1>4. PICK m : m = [text |-> thread[r].text, cid |-> thread[r].cid, request |-> r]
    OBVIOUS
<1>5. /\ recorded' = recorded \cup {m}
      /\ m \in Messages /\ m.text = thread[r].text /\ m.request = r
    BY <1>1, <1>4, ThreadFacts DEF Record, Messages, Running
<1>6. PICK s : s = Replied(thread[r], 200)
    OBVIOUS
<1>7. /\ s \in RunningTurns /\ s.pc = "reply" /\ s.code = 200
      /\ s.text = thread[r].text /\ s.cid = thread[r].cid
    BY <1>1, <1>6, MovedTurn DEF Running
<1>8. thread' = [thread EXCEPT ![r] = s]
    BY <1>6, AnsweredIs DEF ServingInv, Record
<1>9. thread'[r] = s /\ \A q \in ServingThreads : q # r => thread'[q] = thread[q]
    BY <1>3, <1>8
<1>10. s # Off /\ s \in TurnStates /\ s.pc \notin Loaders
    BY <1>7, ThreadFacts DEF TurnStates, Loaders
<1>11. Requests \subseteq ServingThreads
    BY DEF ServingThreads
<1>12. \A n \in recorded : n.request # r /\ n.request \in Requests
    BY <1>1 DEF ServingInv, ServingTypeOK, PageInv, RecordsAtTheEnd, Messages
<1>13. NothingFromTheFuture'
    <2>1. r <= sends
        BY <1>1, ServingAssumption DEF ServingInv, ServingTypeOK, PageInv, NothingFromTheFuture, Requests
    <2>2. thread[r].text <= texts
        BY <1>1 DEF ServingInv, PageInv, NothingFromTheFuture
    <2>3. ASSUME NEW q \in Requests
          PROVE /\ q > sends => thread'[q] = Off
                /\ thread'[q] # Off => thread'[q].text <= texts
                /\ Running(q)' => thread'[q].cid <= conversations
        <3>1. CASE q = r
            BY <1>1, <1>7, <1>9, <3>1 DEF ServingInv, PageInv, NothingFromTheFuture
        <3>2. CASE q # r
            BY <1>9, <1>11, <3>2 DEF ServingInv, PageInv, NothingFromTheFuture, Running
        <3>3. QED
            BY <3>1, <3>2
    <2>4. QED
        BY <1>2, <1>5, <2>1, <2>2, <2>3 DEF ServingInv, PageInv, NothingFromTheFuture
<1>14. PageWaits'
    BY <1>2, <1>1, <1>9, <1>10, <1>11 DEF ServingInv, PageInv, PageWaits
<1>15. page.sending # 0 => thread'[page.sending].text = thread[page.sending].text
    BY <1>7, <1>9, <1>11 DEF ServingInv, PageInv, PageWaits
<1>16. r \notin gaveUp => page.sending = r /\ page.sending # 0
    BY <1>1, ThreadFacts DEF ServingInv, PageInv, PageWaits, Preload
<1>17. TextOnce'
    BY <1>2, <1>15 DEF ServingInv, PageInv, TextOnce
<1>18. RecordedIsGone'
    <2>1. ASSUME NEW n \in recorded, n.request \notin gaveUp
          PROVE  n.text # page.input /\ (page.sending # 0 /\ page.sending # n.request => thread'[page.sending].text # n.text)
        BY <1>15, <2>1 DEF ServingInv, PageInv, RecordedIsGone
    <2>2. r \notin gaveUp => m.text # page.input
        BY <1>5, <1>16 DEF ServingInv, PageInv, TextOnce
    <2>3. QED
        BY <1>2, <1>5, <1>16, <2>1, <2>2 DEF RecordedIsGone
<1>19. RecordsAtTheEnd'
    <2>1. \A n \in recorded : thread'[n.request] = thread[n.request]
        BY <1>9, <1>11, <1>12
    <2>2. QED
        BY <1>5, <1>7, <1>9, <1>12, <2>1 DEF ServingInv, PageInv, RecordsAtTheEnd, Running
<1>20. RecordedAlone'
    <2>1. ASSUME NEW n \in recorded, n.text = m.text, n.request \notin gaveUp, r \notin gaveUp
          PROVE  FALSE
        BY <1>5, <1>12, <1>16, <2>1 DEF ServingInv, PageInv, RecordedIsGone
    <2>2. QED
        BY <1>2, <1>5, <2>1 DEF ServingInv, PageInv, RecordedAlone
<1>21. LeftBehind'
    <2>1. CASE page.sending = r
        BY <1>1, <1>2, <1>7, <1>9, <2>1 DEF ServingInv, PageInv, LeftBehind
    <2>2. CASE page.sending # r
        BY <1>2, <1>9, <1>11, <2>2 DEF ServingInv, PageInv, LeftBehind, PageWaits, Running
    <2>3. QED
        BY <2>1, <2>2
<1>22. EngineInv'
    BY <1>2, <1>3, <1>9, <1>10, EngineStays DEF ServingInv
<1>23. ServingTypeOK'
    <2>1. thread' \in [ServingThreads -> PreloadStates \cup TurnStates]
        BY <1>3, <1>8, <1>10
    <2>2. \A q \in Requests : thread'[q] \in TurnStates
        BY <1>9, <1>10, <1>11 DEF ServingInv, ServingTypeOK
    <2>3. thread'[Preload] \in PreloadStates
        BY <1>3, <1>9 DEF ServingInv, ServingTypeOK
    <2>4. live' \subseteq 0 .. conversations
        <3>1. thread[r].cid \in 0 .. conversations
            BY <1>1, ThreadFacts DEF ServingInv, ServingTypeOK, PageInv, NothingFromTheFuture, Running
        <3>2. live' = live \cup {thread[r].cid}
            BY DEF Record
        <3>3. QED
            BY <3>1, <3>2 DEF ServingInv, ServingTypeOK
    <2>5. IsFiniteSet(recorded')
        BY <1>5, FS_AddElement DEF ServingInv, ServingTypeOK
    <2>6. QED
        BY <1>2, <1>5, <2>1, <2>2, <2>3, <2>4, <2>5 DEF ServingInv, ServingTypeOK
<1>24. QED
    BY <1>13, <1>14, <1>17, <1>18, <1>19, <1>20, <1>21, <1>22, <1>23 DEF ServingInv, PageInv

-----------------------------------------------------------------------------
(* The page.                                                               *)

\* What the page and the world around it do to nothing but their own state.
LEMMA EngineAlone ==
    ASSUME EngineInv, UNCHANGED <<conf, engine, loads, loadLock>>,
           \A t \in ServingThreads : thread'[t].pc \in Loaders => thread'[t] = thread[t]
    PROVE  EngineInv'
BY DEF EngineInv, LoaderHoldsLock, LoadsCounted, ProductionServesAdapter

LEMMA WriteKeeps ==
    ASSUME ServingInv, Write
    PROVE  ServingInv'
<1>1. /\ UNCHANGED <<thread, sends, gaveUp, left, conf, engine, loads, loadLock, conversations, live, recorded>>
      /\ texts' = texts + 1 /\ page' = [page EXCEPT !.input = texts + 1]
    BY DEF Write, SendUnchanged
<1>2. page \in Pages /\ texts \in Nat /\ conversations \in Nat
    BY DEF ServingInv, ServingTypeOK
<1>3. /\ page' \in Pages /\ page'.input = texts'
      /\ page'.sending = page.sending /\ page'.cid = page.cid /\ page'.reset = page.reset
    BY <1>1, <1>2 DEF Pages
<1>4. ServingTypeOK'
    BY <1>1, <1>2, <1>3 DEF ServingInv, ServingTypeOK
<1>5. EngineInv'
    BY <1>1, EngineAlone DEF ServingInv
<1>6. \A r \in Requests : thread[r] # Off => thread[r].text \in Nat /\ thread[r].text <= texts
    BY TurnFacts DEF ServingInv, PageInv, NothingFromTheFuture
<1>7. \A m \in recorded : m.text \in Nat /\ m.text <= texts
    BY DEF ServingInv, ServingTypeOK, Messages, PageInv, NothingFromTheFuture
<1>8. NothingFromTheFuture'
    <2>1. \A r \in Requests : thread[r] # Off => thread[r].text <= texts'
        BY <1>1, <1>2, <1>6
    <2>2. \A m \in recorded : m.text <= texts'
        BY <1>1, <1>2, <1>7
    <2>3. page'.input <= texts'
        BY <1>1, <1>2, <1>3
    <2>4. QED
        BY <1>1, <1>3, <2>1, <2>2, <2>3 DEF ServingInv, PageInv, NothingFromTheFuture, Running
<1>9. PageWaits' /\ LeftBehind' /\ RecordedAlone' /\ RecordsAtTheEnd'
    BY <1>1, <1>3 DEF ServingInv, PageInv, PageWaits, LeftBehind, Running, RecordedAlone, RecordsAtTheEnd
<1>10. TextOnce'
    BY <1>1, <1>2, <1>3, <1>6 DEF ServingInv, PageInv, PageWaits, TextOnce
<1>11. RecordedIsGone'
    BY <1>1, <1>2, <1>3, <1>7 DEF ServingInv, PageInv, RecordedIsGone
<1>12. QED
    BY <1>4, <1>5, <1>8, <1>9, <1>10, <1>11 DEF ServingInv, PageInv

LEMMA SendKeeps ==
    ASSUME ServingInv, Send
    PROVE  ServingInv'
<1>1. /\ UNCHANGED <<texts, gaveUp, left, conf, engine, loads, loadLock, conversations, live, recorded>>
      /\ sends' = sends + 1 /\ sends < MaxSends
      /\ page' = [page EXCEPT !.input = 0, !.sending = sends + 1]
      /\ page.input # 0 /\ page.sending = 0
    BY DEF Send, SendUnchanged
<1>2. page \in Pages /\ texts \in Nat /\ conversations \in Nat /\ sends \in Nat /\ MaxSends \in Nat
    BY ServingAssumption DEF ServingInv, ServingTypeOK
<1>3. PICK r : r = sends + 1
    OBVIOUS
<1>4. r \in Requests /\ r \in ServingThreads /\ r # 0 /\ r # Preload
    BY <1>1, <1>2, <1>3 DEF Requests, ServingThreads, Preload
<1>5. /\ page' \in Pages /\ page'.input = 0 /\ page'.sending = r /\ page'.cid = page.cid /\ page'.reset = page.reset
    <2>1. r \in Nat /\ page' = [page EXCEPT !.input = 0, !.sending = r]
        BY <1>1, <1>2, <1>3
    <2>2. QED
        BY <1>2, <2>1 DEF Pages
<1>6. /\ thread \in [ServingThreads -> PreloadStates \cup TurnStates]
      /\ Preload \in ServingThreads /\ Requests \subseteq ServingThreads
    BY DEF ServingInv, ServingTypeOK, ServingThreads
<1>7. PICK s \in TurnStates : /\ thread' = [thread EXCEPT ![r] = s]
                              /\ s # Off /\ s.pc \notin Loaders /\ s.text = page.input
                              /\ s \in RunningTurns => s.cid = page.cid
    <2>1. page.input \in Nat \ {0} /\ page.cid \in Nat
        BY <1>1, <1>2 DEF Pages
    <2>2. CASE up
        <3>1. PICK s : s = [pc |-> "arrived", text |-> page.input, cid |-> page.cid, code |-> 0]
            OBVIOUS
        <3>2. s \in RunningTurns /\ s.pc = "arrived" /\ s.text = page.input /\ s.cid = page.cid
            BY <2>1, <3>1 DEF RunningTurns, Answers
        <3>3. thread' = [thread EXCEPT ![r] = s]
            BY <1>3, <2>2, <3>1 DEF Send
        <3>4. s.pc \notin Loaders /\ s # Off /\ s \in TurnStates
            BY <3>2, ThreadFacts DEF Loaders, TurnStates
        <3>5. QED
            BY <3>2, <3>3, <3>4
    <2>3. CASE ~up
        <3>1. PICK s : s = [pc |-> "lost", text |-> page.input]
            OBVIOUS
        <3>2. s \in LostTurns /\ s.pc = "lost" /\ s.text = page.input
            BY <2>1, <3>1 DEF LostTurns
        <3>3. thread' = [thread EXCEPT ![r] = s]
            BY <1>3, <2>3, <3>1 DEF Send
        <3>4. s.pc \notin Loaders /\ s # Off /\ s \in TurnStates /\ s \notin RunningTurns
            BY <3>2, ThreadFacts DEF Loaders, TurnStates
        <3>5. QED
            BY <3>2, <3>3, <3>4
    <2>4. QED
        BY <2>2, <2>3
<1>8. thread'[r] = s /\ \A q \in ServingThreads : q # r => thread'[q] = thread[q]
    BY <1>4, <1>6, <1>7
<1>9. ServingTypeOK'
    <2>1. thread' \in [ServingThreads -> PreloadStates \cup TurnStates]
        BY <1>6, <1>7
    <2>2. sends' \in 0 .. MaxSends
        BY <1>1, <1>2
    <2>3. thread'[Preload] \in PreloadStates /\ \A q \in Requests : thread'[q] \in TurnStates
        BY <1>4, <1>6, <1>7, <1>8 DEF ServingInv, ServingTypeOK
    <2>4. QED
        BY <1>1, <1>5, <2>1, <2>2, <2>3 DEF ServingInv, ServingTypeOK
<1>10. EngineInv'
    BY <1>1, <1>7, <1>8, EngineAlone DEF ServingInv
<1>11. Running(r)' => s.cid = page.cid
    BY <1>7, <1>8 DEF Running
<1>12. \A q \in Requests : q # r => thread'[q] = thread[q] /\ Running(q)' = Running(q)
    BY <1>6, <1>8 DEF Running
<1>13. NothingFromTheFuture'
    <2>1. ASSUME NEW q \in Requests
          PROVE /\ q > sends' => thread'[q] = Off
                /\ thread'[q] # Off => thread'[q].text <= texts
                /\ Running(q)' => thread'[q].cid <= conversations
        <3>1. CASE q = r
            BY <1>1, <1>2, <1>3, <1>7, <1>8, <1>11, <3>1 DEF ServingInv, PageInv, NothingFromTheFuture
        <3>2. CASE q # r
            <4>1. q > sends' => q > sends
                BY <1>1, <1>2, ThreadFacts
            <4>2. QED
                BY <1>12, <3>2, <4>1 DEF ServingInv, PageInv, NothingFromTheFuture
        <3>3. QED
            BY <3>1, <3>2
    <2>2. \A m \in recorded : m.request <= sends'
        BY <1>1, <1>2, ThreadFacts DEF ServingInv, PageInv, NothingFromTheFuture, ServingTypeOK, Messages
    <2>3. \A q \in gaveUp : q \in Requests /\ q <= sends'
        <3>1. \A q \in gaveUp : q \in Requests /\ q <= sends
            BY DEF ServingInv, PageInv, NothingFromTheFuture
        <3>2. QED
            BY <1>1, <1>2, <3>1, ThreadFacts
    <2>4. QED
        BY <1>1, <1>2, <1>3, <1>5, <2>1, <2>2, <2>3 DEF ServingInv, PageInv, NothingFromTheFuture
<1>14. r \notin gaveUp /\ \A m \in recorded : m.request \in Requests /\ m.request # r
    BY <1>2, <1>3, ThreadFacts DEF ServingInv, PageInv, NothingFromTheFuture, ServingTypeOK, Messages
<1>15. PageWaits'
    BY <1>1, <1>4, <1>5, <1>7, <1>8, <1>12, <1>14, ThreadFacts DEF ServingInv, PageInv, PageWaits, Preload
<1>16. TextOnce'
    BY <1>1, <1>5, <1>7, <1>8 DEF TextOnce
<1>17. RecordedIsGone'
    <2>1. \A m \in recorded : m.text # 0
        BY DEF ServingInv, ServingTypeOK, Messages
    <2>2. QED
        BY <1>1, <1>5, <1>7, <1>8, <2>1 DEF ServingInv, PageInv, RecordedIsGone
<1>18. RecordsAtTheEnd' /\ RecordedAlone'
    BY <1>1, <1>12, <1>14 DEF ServingInv, PageInv, RecordsAtTheEnd, RecordedAlone
<1>19. LeftBehind'
    BY <1>1, <1>5, <1>8, <1>11 DEF ServingInv, PageInv, LeftBehind
<1>20. QED
    BY <1>9, <1>10, <1>13, <1>15, <1>16, <1>17, <1>18, <1>19 DEF ServingInv, PageInv

LEMMA PageFields ==
    ASSUME NEW p \in Pages, NEW cid \in Nat, NEW input \in Nat, NEW limited \in BOOLEAN
    PROVE  [p EXCEPT !.sending = 0, !.cid = cid, !.input = input, !.limited = limited] \in Pages
BY DEF Pages

\* The page after a reply or an error: nothing is under way for it, and its
\* input is what it was or the message that failed.
LEMMA PageAfterFacts ==
    ASSUME page \in Pages, NEW r \in Requests, NEW code, thread[r].text \in Nat,
           code = 200 => thread[r].cid \in Nat, page' = PageAfter(r, code)
    PROVE  /\ page' \in Pages /\ page'.sending = 0 /\ page'.reset = page.reset
           /\ page'.cid = IF code = 200 THEN thread[r].cid ELSE page.cid
           /\ page'.input = page.input \/ (code # 200 /\ page'.input = thread[r].text)
<1>1. PICK cid : cid = IF code = 200 THEN thread[r].cid ELSE page.cid
    OBVIOUS
<1>2. PICK input : input = IF code = 200 THEN page.input ELSE Restored(r)
    OBVIOUS
<1>3. cid \in Nat /\ input \in Nat /\ (input = page.input \/ (code # 200 /\ input = thread[r].text))
    BY <1>1, <1>2 DEF Restored, Pages
<1>4. PICK limited \in BOOLEAN : page' = [page EXCEPT !.sending = 0, !.cid = cid, !.input = input, !.limited = limited]
    <2>1. page' = [page EXCEPT !.sending = 0, !.cid = cid, !.input = input, !.limited = code = 429]
        BY <1>1, <1>2 DEF PageAfter
    <2>2. QED
        BY <2>1, Zenon
<1>5. page'.sending = 0 /\ page'.reset = page.reset /\ page'.cid = cid /\ page'.input = input
    BY <1>3, <1>4 DEF Pages
<1>6. page' \in Pages
    <2>1. [page EXCEPT !.sending = 0, !.cid = cid, !.input = input, !.limited = limited] \in Pages
        BY <1>3, PageFields
    <2>2. QED
        BY <1>4, <2>1, Zenon
<1>7. QED
    BY <1>1, <1>3, <1>5, <1>6

LEMMA ReceiveKeeps ==
    ASSUME ServingInv, NEW r \in Requests, Receive(r)
    PROVE  ServingInv'
<1>1. /\ UNCHANGED <<texts, sends, gaveUp, left, conf, engine, loads, loadLock, conversations, live, recorded>>
      /\ thread' = [thread EXCEPT ![r] = Off]
      /\ thread[r].pc = "reply"
    BY DEF Receive, SendUnchanged
<1>2. Running(r) /\ thread[r] # Off
    BY <1>1, AtIsRunning DEF ServingInv, Pcs, Answers
<1>3. thread[r].text \in Nat /\ thread[r].cid \in Nat
    BY <1>2, ThreadFacts DEF Running
<1>4. r # 0 /\ r # Preload /\ r \in ServingThreads /\ Preload \in ServingThreads /\ Requests \subseteq ServingThreads
    BY ThreadFacts DEF Preload, ServingThreads
<1>5. page \in Pages /\ thread \in [ServingThreads -> PreloadStates \cup TurnStates]
    BY DEF ServingInv, ServingTypeOK
<1>6. /\ thread'[r] = Off /\ Off \in TurnStates /\ ~Running(r)'
      /\ \A q \in ServingThreads : q # r => thread'[q] = thread[q] /\ Running(q)' = Running(q)
    BY <1>1, <1>4, <1>5, ThreadFacts DEF TurnStates, Running
<1>7. EngineInv'
    <2>1. Off.pc \notin Loaders
        BY DEF Off, Loaders
    <2>2. QED
        BY <1>1, <1>6, <2>1, EngineAlone DEF ServingInv
<1>8. \A m \in recorded : m.request \in Requests
    BY DEF ServingInv, ServingTypeOK, Messages
<1>9. RecordsAtTheEnd' /\ RecordedAlone'
    BY <1>1, <1>4, <1>6, <1>8 DEF ServingInv, PageInv, RecordsAtTheEnd, RecordedAlone
<1>10. /\ page' \in Pages => ServingTypeOK'
    <2>1. thread' \in [ServingThreads -> PreloadStates \cup TurnStates]
        BY <1>1, <1>5, <1>6
    <2>2. thread'[Preload] \in PreloadStates /\ \A q \in Requests : thread'[q] \in TurnStates
        BY <1>4, <1>6 DEF ServingInv, ServingTypeOK
    <2>3. QED
        BY <1>1, <2>1, <2>2 DEF ServingInv, ServingTypeOK
<1>11. ASSUME NEW q \in Requests
       PROVE /\ q > sends => thread'[q] = Off
             /\ thread'[q] # Off => thread'[q].text <= texts
             /\ Running(q)' => thread'[q].cid <= conversations
    <2>1. CASE q = r
        BY <1>6, <2>1
    <2>2. CASE q # r
        BY <1>4, <1>6, <2>2 DEF ServingInv, PageInv, NothingFromTheFuture
    <2>3. QED
        BY <2>1, <2>2
<1>12. CASE page.sending = r
    <2>1. page' = PageAfter(r, thread[r].code)
        BY <1>12 DEF Receive
    <2>2. /\ page' \in Pages /\ page'.sending = 0 /\ page'.reset = page.reset
          /\ page'.cid = IF thread[r].code = 200 THEN thread[r].cid ELSE page.cid
          /\ page'.input = page.input \/ (thread[r].code # 200 /\ page'.input = thread[r].text)
        BY <1>3, <1>5, <2>1, PageAfterFacts
    <2>3. NothingFromTheFuture'
        <3>1. thread[r].cid <= conversations /\ thread[r].text <= texts /\ page'.sending <= sends
            BY <1>2, <2>2 DEF ServingInv, ServingTypeOK, PageInv, NothingFromTheFuture
        <3>2. QED
            BY <1>1, <1>11, <2>2, <3>1 DEF ServingInv, PageInv, NothingFromTheFuture
    <2>4. PageWaits'
        BY <1>1, <1>4, <1>6, <1>12, <2>2 DEF ServingInv, PageInv, PageWaits
    <2>5. TextOnce' /\ LeftBehind'
        BY <1>1, <1>2, <1>4, <1>12, <2>2 DEF ServingInv, PageInv, TextOnce, LeftBehind
    <2>6. RecordedIsGone'
        <3>1. ASSUME NEW m \in recorded, m.request \notin gaveUp PROVE m.text # page'.input
            <4>1. CASE page'.input = page.input
                BY <3>1, <4>1 DEF ServingInv, PageInv, RecordedIsGone
            <4>2. CASE thread[r].code # 200 /\ page'.input = thread[r].text
                <5>1. m.request # r
                    BY <1>2, <4>2 DEF ServingInv, PageInv, RecordsAtTheEnd
                <5>2. QED
                    BY <1>4, <1>12, <3>1, <4>2, <5>1 DEF ServingInv, PageInv, RecordedIsGone
            <4>3. QED
                BY <2>2, <4>1, <4>2
        <3>2. QED
            BY <1>1, <2>2, <3>1 DEF RecordedIsGone
    <2>7. QED
        BY <1>7, <1>9, <1>10, <2>2, <2>3, <2>4, <2>5, <2>6 DEF ServingInv, PageInv
<1>13. CASE page.sending # r
    <2>1. page' = page /\ r \in gaveUp
        BY <1>2, <1>13 DEF Receive, ServingInv, PageInv, PageWaits
    <2>2. page.sending # 0 => page.sending \in Requests /\ thread'[page.sending] = thread[page.sending]
                              /\ Running(page.sending)' = Running(page.sending)
        BY <1>4, <1>6, <1>13, <2>1 DEF ServingInv, PageInv, PageWaits
    <2>3. NothingFromTheFuture'
        BY <1>1, <1>11, <2>1 DEF ServingInv, PageInv, NothingFromTheFuture
    <2>4. PageWaits'
        BY <1>1, <1>4, <1>6, <2>1, <2>2 DEF ServingInv, PageInv, PageWaits
    <2>5. TextOnce' /\ LeftBehind' /\ RecordedIsGone'
        BY <1>1, <2>1, <2>2 DEF ServingInv, PageInv, TextOnce, LeftBehind, RecordedIsGone
    <2>6. QED
        BY <1>5, <1>7, <1>9, <1>10, <2>1, <2>3, <2>4, <2>5 DEF ServingInv, PageInv
<1>14. QED
    BY <1>12, <1>13

LEMMA GiveUpKeeps ==
    ASSUME ServingInv, GiveUp
    PROVE  ServingInv'
<1>1. /\ UNCHANGED <<thread, texts, sends, left, conf, engine, loads, loadLock, conversations, live, recorded>>
      /\ gaveUp' = gaveUp \cup {page.sending}
      /\ page' = PageAfter(page.sending, 0)
      /\ page.sending # 0
    BY DEF GiveUp, GiveUpPage, SendUnchanged
<1>2. PICK r \in Requests : r = page.sending /\ thread[r] # Off /\ r <= sends
    BY <1>1 DEF ServingInv, PageInv, PageWaits, NothingFromTheFuture
<1>3. page \in Pages /\ thread[r].text \in Nat
    BY <1>2, TurnFacts DEF ServingInv, ServingTypeOK
<1>4. /\ page' \in Pages /\ page'.sending = 0 /\ page'.reset = page.reset /\ page'.cid = page.cid
      /\ page'.input = page.input \/ page'.input = thread[r].text
    <2>1. page' = PageAfter(r, 0) /\ ~(0 = 200)
        BY <1>1, <1>2
    <2>2. QED
        BY <1>3, <2>1, PageAfterFacts
<1>5. ServingTypeOK'
    BY <1>1, <1>4 DEF ServingInv, ServingTypeOK
<1>6. EngineInv'
    BY <1>1, EngineAlone DEF ServingInv
<1>7. NothingFromTheFuture'
    <2>1. thread[r].text <= texts /\ page'.sending <= sends
        BY <1>2, <1>4 DEF ServingInv, ServingTypeOK, PageInv, NothingFromTheFuture
    <2>2. QED
        BY <1>1, <1>2, <1>4, <2>1 DEF ServingInv, PageInv, NothingFromTheFuture, Running
<1>8. PageWaits'
    BY <1>1, <1>2, <1>4 DEF ServingInv, PageInv, PageWaits
<1>9. TextOnce' /\ LeftBehind' /\ RecordsAtTheEnd' /\ RecordedAlone'
    BY <1>1, <1>4 DEF ServingInv, PageInv, TextOnce, LeftBehind, RecordsAtTheEnd, RecordedAlone, Running
<1>10. RecordedIsGone'
    <2>1. ASSUME NEW m \in recorded, m.request \notin gaveUp, m.request # r PROVE m.text # page'.input
        BY <1>1, <1>2, <1>4, <2>1 DEF ServingInv, PageInv, RecordedIsGone
    <2>2. QED
        BY <1>1, <1>2, <1>4, <2>1 DEF RecordedIsGone
<1>11. QED
    BY <1>5, <1>6, <1>7, <1>8, <1>9, <1>10 DEF ServingInv, PageInv

\* The countdown, the health check and the first step of New chat.
LEMMA PageFieldChanges ==
    ASSUME ServingInv, page' \in Pages, page'.sending = page.sending, page'.input = page.input,
           page'.cid = page.cid, page'.reset <= conversations,
           UNCHANGED <<thread, texts, sends, left, conf, engine, loads, loadLock, conversations, recorded, gaveUp>>,
           live' \subseteq live
    PROVE  ServingInv'
<1>1. ServingTypeOK'
    BY DEF ServingInv, ServingTypeOK
<1>2. EngineInv'
    BY EngineAlone DEF ServingInv
<1>3. NothingFromTheFuture' /\ PageWaits' /\ TextOnce' /\ RecordedIsGone'
    BY DEF ServingInv, PageInv, NothingFromTheFuture, PageWaits, TextOnce, RecordedIsGone, Running
<1>4. RecordsAtTheEnd' /\ RecordedAlone' /\ LeftBehind'
    BY DEF ServingInv, PageInv, RecordsAtTheEnd, RecordedAlone, LeftBehind, Running
<1>5. QED
    BY <1>1, <1>2, <1>3, <1>4 DEF ServingInv, PageInv

LEMMA CountdownEndsKeeps ==
    ASSUME ServingInv, CountdownEnds
    PROVE  ServingInv'
<1>1. /\ UNCHANGED <<thread, texts, sends, left, conf, engine, loads, loadLock, conversations, recorded, gaveUp, live>>
      /\ page' = [page EXCEPT !.limited = FALSE]
    BY DEF CountdownEnds, SendUnchanged
<1>2. page \in Pages /\ page.reset <= conversations
    BY DEF ServingInv, ServingTypeOK, PageInv, NothingFromTheFuture
<1>3. page' \in Pages
    BY <1>1, <1>2 DEF Pages
<1>4. page'.sending = page.sending /\ page'.input = page.input /\ page'.cid = page.cid /\ page'.reset = page.reset
    BY <1>1, <1>2 DEF Pages
<1>5. QED
    BY <1>1, <1>2, <1>3, <1>4, PageFieldChanges

LEMMA PressNewChatKeeps ==
    ASSUME ServingInv, PressNewChat
    PROVE  ServingInv'
<1>1. /\ UNCHANGED <<thread, texts, sends, left, conf, engine, loads, loadLock, conversations, recorded, gaveUp, live>>
      /\ page' = [page EXCEPT !.reset = page.cid]
    BY DEF PressNewChat, ResetUnchanged
<1>2. page \in Pages /\ page.cid <= conversations
    BY DEF ServingInv, ServingTypeOK, PageInv, NothingFromTheFuture
<1>3. page' \in Pages
    BY <1>1, <1>2 DEF Pages
<1>4. page'.sending = page.sending /\ page'.input = page.input /\ page'.cid = page.cid /\ page'.reset = page.cid
    BY <1>1, <1>2 DEF Pages
<1>5. QED
    BY <1>1, <1>2, <1>3, <1>4, PageFieldChanges

LEMMA PageQuietKeeps ==
    ASSUME ServingInv, ConversationReset \/ OpenPage \/ CheckHealth \/ SwapAdapter \/ UNCHANGED servingVars
    PROVE  ServingInv'
<1>1. /\ UNCHANGED <<thread, texts, sends, left, conf, engine, loads, loadLock, conversations, recorded, gaveUp, page>>
      /\ live' \subseteq live
    BY DEF ConversationReset, OpenPage, CheckHealth, SwapAdapter, ResetUnchanged, servingVars, serverVars, pageVars,
           servingBounds, servingHistory
<1>2. page \in Pages /\ page.reset <= conversations
    BY DEF ServingInv, ServingTypeOK, PageInv, NothingFromTheFuture
<1>3. QED
    BY <1>1, <1>2, PageFieldChanges

LEMMA ResetDoneKeeps ==
    ASSUME ServingInv, ResetDone
    PROVE  ServingInv'
<1>1. /\ UNCHANGED <<thread, texts, sends, conf, engine, loads, loadLock, conversations, recorded, gaveUp, live>>
      /\ page' = [page EXCEPT !.reset = 0, !.cid = 0]
      /\ left' = IF page.sending = 0 THEN left \cup {page.reset} ELSE left
      /\ page.reset # 0
    BY DEF ResetDone, PageReset, ResetUnchanged, NoConversation
<1>2. page \in Pages /\ conversations \in Nat
    BY DEF ServingInv, ServingTypeOK
<1>3. page' \in Pages
    BY <1>1, <1>2 DEF Pages
<1>4. page'.sending = page.sending /\ page'.input = page.input /\ page'.cid = 0 /\ page'.reset = 0
    BY <1>1, <1>2 DEF Pages
<1>5. page.reset \in 1 .. conversations
    BY <1>1, <1>2 DEF Pages, ServingInv, PageInv, NothingFromTheFuture
<1>6. ServingTypeOK'
    BY <1>1, <1>3 DEF ServingInv, ServingTypeOK
<1>7. EngineInv'
    BY <1>1, EngineAlone DEF ServingInv
<1>8. NothingFromTheFuture'
    <2>1. left' \subseteq 1 .. conversations
        BY <1>1, <1>5 DEF ServingInv, PageInv, NothingFromTheFuture
    <2>2. page'.cid <= conversations /\ page'.reset <= conversations
        BY <1>2, <1>4
    <2>3. QED
        BY <1>1, <1>4, <2>1, <2>2 DEF ServingInv, PageInv, NothingFromTheFuture, Running
<1>9. PageWaits' /\ TextOnce' /\ RecordedIsGone' /\ RecordsAtTheEnd' /\ RecordedAlone'
    BY <1>1, <1>4 DEF ServingInv, PageInv, PageWaits, TextOnce, RecordedIsGone, RecordsAtTheEnd, RecordedAlone, Running
<1>10. LeftBehind'
    <2>1. 0 \notin left'
        BY <1>1, <1>5 DEF ServingInv, PageInv, NothingFromTheFuture
    <2>2. page.sending # 0 => left' = left
        BY <1>1
    <2>3. QED
        BY <1>1, <1>4, <2>1, <2>2 DEF ServingInv, PageInv, LeftBehind, Running
<1>11. QED
    BY <1>6, <1>7, <1>8, <1>9, <1>10 DEF ServingInv, PageInv

-----------------------------------------------------------------------------
(* The server dies and starts again.                                       *)

LEMMA CrashKeeps ==
    ASSUME ServingInv, Crash
    PROVE  ServingInv'
<1>1. /\ UNCHANGED <<page, texts, sends, left, conf, conversations, recorded, gaveUp>>
      /\ engine' = "none" /\ loads' = 0 /\ live' = {}
      /\ thread' = [t \in ServingThreads |-> IF t \in Requests /\ thread[t] # Off
                                             THEN [pc |-> "lost", text |-> thread[t].text] ELSE Off]
    BY DEF Crash, pageVars
<1>2. Requests \subseteq ServingThreads /\ Preload \in ServingThreads
    BY DEF ServingThreads
<1>3. ASSUME NEW r \in Requests, thread[r] # Off
      PROVE  thread'[r] \in LostTurns /\ thread'[r].pc = "lost" /\ thread'[r].text = thread[r].text
    <2>1. PICK s : s = [pc |-> "lost", text |-> thread[r].text]
        OBVIOUS
    <2>2. thread'[r] = s
        BY <1>1, <1>2, <1>3, <2>1
    <2>3. thread[r].text \in Nat \ {0}
        BY <1>3, TurnFacts DEF ServingInv
    <2>4. s \in LostTurns /\ s.pc = "lost" /\ s.text = thread[r].text
        BY <2>1, <2>3 DEF LostTurns
    <2>5. QED
        BY <2>2, <2>4
<1>4. ASSUME NEW t \in ServingThreads, t \notin Requests \/ thread[t] = Off PROVE thread'[t] = Off
    BY <1>1, <1>4
<1>5. \A r \in Requests : /\ thread'[r] # Off <=> thread[r] # Off
                          /\ thread'[r] \in TurnStates /\ ~Running(r)'
    BY <1>2, <1>3, <1>4, ThreadFacts DEF TurnStates, Running
<1>6. thread'[Preload] = Off
    BY <1>2, <1>4, ThreadFacts
<1>7. ServingTypeOK'
    <2>1. ASSUME NEW t \in ServingThreads PROVE thread'[t] \in PreloadStates \cup TurnStates
        BY <1>4, <1>5, <1>6, ThreadFacts
    <2>2. thread' \in [ServingThreads -> PreloadStates \cup TurnStates]
        BY <1>1, <2>1
    <2>3. live' \subseteq 0 .. conversations
        BY <1>1
    <2>4. QED
        BY <1>1, <1>5, <1>6, <2>2, <2>3, ThreadFacts DEF ServingInv, ServingTypeOK
<1>8. \A t \in ServingThreads : thread'[t].pc \notin Loaders
    <2>1. Off.pc \notin Loaders /\ "lost" \notin Loaders
        BY DEF Off, Loaders
    <2>2. QED
        BY <1>3, <1>4, <2>1
<1>9. EngineInv'
    BY <1>1, <1>8 DEF EngineInv, LoaderHoldsLock, LoadsCounted, ProductionServesAdapter
<1>10. NothingFromTheFuture'
    BY <1>1, <1>3, <1>5 DEF ServingInv, PageInv, NothingFromTheFuture
<1>11. PageWaits'
    BY <1>1, <1>5 DEF ServingInv, PageInv, PageWaits
<1>12. page.sending # 0 => page.sending \in Requests /\ thread'[page.sending].text = thread[page.sending].text
    BY <1>3 DEF ServingInv, PageInv, PageWaits
<1>13. TextOnce' /\ RecordedIsGone' /\ RecordedAlone'
    BY <1>1, <1>12 DEF ServingInv, PageInv, TextOnce, RecordedIsGone, RecordedAlone
<1>14. \A m \in recorded : m.request \in Requests
    BY DEF ServingInv, ServingTypeOK, Messages
<1>15. RecordsAtTheEnd'
    BY <1>1, <1>5, <1>14 DEF ServingInv, PageInv, RecordsAtTheEnd
<1>16. LeftBehind'
    <2>1. page.sending # 0 => ~Running(page.sending)'
        BY <1>1, <1>5, <1>12
    <2>2. page'.cid \notin left'
        BY <1>1 DEF ServingInv, PageInv, LeftBehind
    <2>3. page.sending # 0 => thread'[page.sending] \notin RunningTurns
        BY <1>5, <1>12 DEF Running
    <2>4. QED
        BY <1>1, <2>2, <2>3 DEF LeftBehind, Running
<1>17. QED
    BY <1>7, <1>9, <1>10, <1>11, <1>13, <1>15, <1>16 DEF ServingInv, PageInv

LEMMA StartKeeps ==
    ASSUME ServingInv, Start
    PROVE  ServingInv'
<1>1. /\ UNCHANGED <<page, texts, sends, left, conf, conversations, recorded, gaveUp, engine, loads, loadLock, live>>
      /\ thread' = [thread EXCEPT ![Preload] = IF conf.preload THEN [pc |-> "engine"] ELSE Off]
    BY DEF Start, pageVars, servingBounds, servingHistory
<1>2. /\ thread \in [ServingThreads -> PreloadStates \cup TurnStates]
      /\ Requests \subseteq ServingThreads /\ Preload \in ServingThreads
    BY DEF ServingInv, ServingTypeOK, ServingThreads
<1>3. PICK s : s = IF conf.preload THEN [pc |-> "engine"] ELSE Off
    OBVIOUS
<1>4. s \in PreloadStates /\ s.pc \notin Loaders
    BY <1>3 DEF PreloadStates, Off, Loaders
<1>5. thread'[Preload] = s /\ \A t \in ServingThreads : t # Preload => thread'[t] = thread[t]
    BY <1>1, <1>2, <1>3
<1>6. \A q \in Requests : thread'[q] = thread[q]
    BY <1>2, <1>5, ThreadFacts
<1>7. PageInv'
    BY <1>1, <1>6, OthersMove DEF ServingInv
<1>8. EngineInv'
    BY <1>1, <1>4, <1>5, EngineAlone DEF ServingInv
<1>9. ServingTypeOK'
    <2>1. thread' \in [ServingThreads -> PreloadStates \cup TurnStates]
        BY <1>1, <1>2, <1>3, <1>4
    <2>2. QED
        BY <1>1, <1>4, <1>5, <1>6, <2>1 DEF ServingInv, ServingTypeOK
<1>10. QED
    BY <1>7, <1>8, <1>9 DEF ServingInv

LEMMA ServingInitInv == ServingInit => ServingInv
<1> SUFFICES ASSUME ServingInit PROVE ServingInv
    OBVIOUS
<1>1. \A t \in ServingThreads : /\ thread[t] \in PreloadStates /\ thread[t].pc \notin Loaders
                                /\ t # Preload => thread[t] = Off
    BY DEF ServingInit, PreloadStates, Off, Loaders
<1>2. Requests \subseteq ServingThreads /\ Preload \in ServingThreads
    BY DEF ServingThreads
<1>3. \A r \in Requests : thread[r] = Off /\ ~Running(r) /\ thread[r] \in TurnStates
    BY <1>1, <1>2, ThreadFacts DEF Running, TurnStates
<1>4. /\ page \in Pages /\ page.sending = 0 /\ page.cid = 0 /\ page.reset = 0 /\ page.input = 0
      /\ texts = 0 /\ sends = 0 /\ conversations = 0 /\ recorded = {} /\ left = {} /\ gaveUp = {}
      /\ loads = 0 /\ engine = "none" /\ live = {}
    BY DEF ServingInit, Pages, NoConversation
<1>5. ServingTypeOK
    <2>1. thread \in [ServingThreads -> PreloadStates \cup TurnStates]
        BY <1>1 DEF ServingInit
    <2>2. IsFiniteSet(recorded)
        BY <1>4, FS_EmptySet
    <2>3. conf \in [production : BOOLEAN, preload : BOOLEAN]
        BY DEF ServingInit
    <2>4. sends \in 0 .. MaxSends /\ live \subseteq 0 .. conversations /\ recorded \subseteq Messages
        BY <1>4, ServingAssumption
    <2>5. QED
        BY <1>1, <1>2, <1>3, <1>4, <2>1, <2>2, <2>3, <2>4 DEF ServingTypeOK
<1>6. EngineInv
    BY <1>1, <1>4 DEF EngineInv, LoaderHoldsLock, LoadsCounted, ProductionServesAdapter
<1>7. PageInv
    BY <1>3, <1>4, ThreadFacts DEF PageInv, NothingFromTheFuture, PageWaits, TextOnce, RecordedIsGone, RecordsAtTheEnd,
                                   RecordedAlone, LeftBehind
<1>8. QED
    BY <1>5, <1>6, <1>7 DEF ServingInv

LEMMA ServingStep == ServingInv /\ [ServingNext]_servingVars => ServingInv'
<1> SUFFICES ASSUME ServingInv, [ServingNext]_servingVars
             PROVE  ServingInv'
    OBVIOUS
<1>1. CASE PageStep
    BY <1>1, WriteKeeps, SendKeeps, ReceiveKeeps, GiveUpKeeps, CountdownEndsKeeps, PressNewChatKeeps, ResetDoneKeeps,
       PageQuietKeeps DEF PageStep
<1>2. CASE \E t \in ServingThreads : EngineStep(t)
    BY <1>2, GetEngineKeeps, LockEngineKeeps, LoadKeeps, SetEngineKeeps DEF EngineStep
<1>3. CASE \E r \in Requests : RequestStep(r)
    BY <1>3, ChatKeeps, GenerationKeeps, RecordKeeps DEF RequestStep
<1>4. CASE SwapAdapter \/ UNCHANGED servingVars
    BY <1>4, PageQuietKeeps
<1>5. CASE Crash \/ Start
    BY <1>5, CrashKeeps, StartKeeps
<1>6. QED
    BY <1>1, <1>2, <1>3, <1>4, <1>5 DEF ServingNext

\* What is recorded alone is recorded once, and once more for every request
\* that was given up.
LEMMA RecordedOnceFollows ==
    ASSUME ServingTypeOK, RecordedAlone
    PROVE  RecordedOnce
<1> SUFFICES ASSUME NEW x \in 1 .. MaxTexts
             PROVE  LET of == {m \in recorded : m.text = x}
                    IN Cardinality(of) <= 1 + Cardinality({m \in of : m.request \in gaveUp})
    BY DEF RecordedOnce
<1> DEFINE of == {m \in recorded : m.text = x}
           again == {m \in of : m.request \in gaveUp}
<1>1. IsFiniteSet(recorded) /\ of \in SUBSET recorded
    BY DEF ServingTypeOK
<1>2. IsFiniteSet(of)
    BY <1>1, FS_Subset
<1>3. again \in SUBSET of
    OBVIOUS
<1>4. IsFiniteSet(again) /\ Cardinality(again) \in Nat
    BY <1>2, <1>3, FS_Subset, FS_CardinalityType
<1>5. CASE of = again
    <2> HIDE DEF of, again
    <2>1. Cardinality(of) <= 1 + Cardinality(again)
        BY <1>4, <1>5
    <2>2. QED
        BY <2>1 DEF of, again
<1>6. CASE of # again
    <2>1. PICK m \in of : m \notin again
        BY <1>6
    <2>2. \A n \in of : n \notin again => n = m
        BY <2>1 DEF RecordedAlone
    <2>3. of = again \cup {m}
        BY <2>1, <2>2
    <2> HIDE DEF of, again
    <2>4. Cardinality(again \cup {m}) = Cardinality(again) + 1
        BY <1>4, <2>1, FS_AddElement
    <2>5. QED
        BY <1>4, <2>3, <2>4 DEF of, again
<1>7. QED
    BY <1>5, <1>6

\* ServingInv holds in every behaviour of the running system.
THEOREM ServingInvariant == ServingSpec => []ServingInv
<1>1. ServingInit => ServingInv
    BY ServingInitInv
<1>2. ServingInv /\ [ServingNext]_servingVars => ServingInv'
    BY ServingStep
<1>3. QED
    BY <1>1, <1>2, PTL DEF ServingSpec

(* Whatever fails, changes or dies while the model loads, and however many *)
(* threads want it at once: production never answers with the base model,  *)
(* and an engine is loaded at most once (_load_lock of api/services.py).   *)
THEOREM EngineRight == ServingSpec => []EngineIsRight
<1>1. ServingInv => EngineIsRight
    BY DEF ServingInv, EngineInv, LoadsCounted, EngineIsRight, LoadedOnce
<1>2. QED
    BY <1>1, ServingInvariant, PTL

(* A message is recorded once, and once more for every request the page    *)
(* gave up on; and the page never goes on with a conversation that New     *)
(* chat ended while no reply was due (sendMessage and resetConversation of *)
(* web/app.js).                                                            *)
THEOREM PageTrue == ServingSpec => []PageIsTrue
<1>1. ServingInv => PageIsTrue
    BY RecordedOnceFollows DEF ServingInv, PageInv, PageIsTrue, NewChatIsNew, LeftBehind
<1>2. QED
    BY <1>1, ServingInvariant, PTL

-----------------------------------------------------------------------------
(***************************************************************************)
(* The scripts that start and stop the service.                            *)
(***************************************************************************)

Shells == {"new", "validate", "write", "launch", "wait", "ended"}
Pythons == {"none", "forked", "spawn api", "spawn web", "note api", "note web", "look api", "look web", "watch", "stop", "exited"}
Stoppers == [pc : {"idle", "look", "kill", "wait", "remove", "done"}, found : Launches \cup {0}, child : BOOLEAN]
LauncherTypeOK ==
    /\ shell \in [Launches -> Shells]
    /\ python \in [Launches -> [pc : Pythons, noted : SUBSET Servers]]
    /\ process \in [Launches -> [Servers -> {"none", "starting", "serving", "dead"}]]
    /\ pidfile \in Launches \cup {0}
    /\ stopper \in Stoppers
    /\ overlapped \in BOOLEAN

\* A launcher that runs has its script waiting for it, but for the one whose
\* shell the stop script killed.
LaunchesAreNested ==
    \A l \in Launches :
        /\ shell[l] \in {"new", "validate", "write", "launch"} => python[l].pc = "none"
        /\ shell[l] = "wait" => python[l].pc # "none"
        /\ shell[l] = "ended" /\ python[l].pc \notin {"none", "exited"} =>
              stopper.found = l /\ ~stopper.child /\ stopper.pc \in {"wait", "remove", "done"}
        /\ python[l].pc = "none" => \A s \in Servers : ~Alive(l, s)

\* A server that runs has been noted, is about to be, or was slipped by a
\* signal; and what was noted is gone when the launcher has exited.
ServersAreKnown ==
    \A l \in Launches : \A s \in Servers :
        Alive(l, s) => \/ s \in python[l].noted /\ python[l].pc # "exited"
                       \/ python[l].pc = Noting[s]
                       \/ <<l, s>> \in slipped

\* Where the stop script is with the launch it found.
StopperFollows ==
    /\ stopper.pc = "idle" => stopper.found = 0
    /\ stopper.pc \in {"look", "kill", "wait"} => stopper.found # 0 /\ shell[stopper.found] # "new"
    /\ stopper.pc \in {"remove", "done"} /\ stopper.found # 0 => shell[stopper.found] = "ended"

\* When no two scripts overlapped: one instance at most, named by the pid file
\* and waited for by its script; the stop script finds it, with its launcher.
AloneAtWork ==
    ~overlapped =>
        /\ \A j, k \in Launches : ShellAlive(j) /\ ShellAlive(k) => j = k
        /\ \A l \in Launches : shell[l] \in {"launch", "wait"} => pidfile = l
        /\ \A l \in Launches : python[l].pc \notin {"none", "exited"} => shell[l] = "wait"
        /\ stopper.pc \in {"look", "kill", "wait"} => \A k \in Launches : ShellAlive(k) => k = stopper.found
        /\ stopper.pc \in {"look", "kill"} => python[stopper.found].pc \notin {"none", "forked"}
        /\ stopper.pc = "kill" /\ ~stopper.child => python[stopper.found].pc = "exited"
        /\ stopper.pc = "remove" => \A k \in Launches : ~ShellAlive(k)

LauncherInv == LauncherTypeOK /\ LaunchesAreNested /\ ServersAreKnown /\ StopperFollows /\ AloneAtWork

-----------------------------------------------------------------------------
LEMMA ServerNames ==
    ASSUME NEW s \in Servers
    PROVE  /\ s \in {"api", "web"}
           /\ Spawning[s] \in {"spawn api", "spawn web"}
           /\ Noting[s] = IF s = "api" THEN "note api" ELSE "note web"
           /\ Looking[s] \in {"look api", "look web"}
<1>1. s = "api" \/ s = "web"
    BY DEF Servers
<1>2. CASE s = "api"
    BY <1>2 DEF Spawning, Noting, Looking
<1>3. CASE s = "web"
    BY <1>3 DEF Spawning, Noting, Looking
<1>4. QED
    BY <1>1, <1>2, <1>3

LEMMA LauncherInitInv == LauncherInit => LauncherInv
<1> SUFFICES ASSUME LauncherInit PROVE LauncherInv
    OBVIOUS
<1>1. /\ \A l \in Launches : shell[l] = "new" /\ python[l].pc = "none" /\ \A s \in Servers : process[l][s] = "none"
      /\ stopper.pc = "idle" /\ stopper.found = 0
    BY DEF LauncherInit
<1>2. LauncherTypeOK
    <2>1. python \in [Launches -> [pc : Pythons, noted : SUBSET Servers]]
        BY DEF LauncherInit, Pythons
    <2>2. stopper \in Stoppers
        BY DEF LauncherInit, Stoppers
    <2>3. process \in [Launches -> [Servers -> {"none", "starting", "serving", "dead"}]]
        BY DEF LauncherInit
    <2>4. shell \in [Launches -> Shells] /\ pidfile \in Launches \cup {0} /\ overlapped \in BOOLEAN
        BY DEF LauncherInit, Shells
    <2>5. QED
        BY <2>1, <2>2, <2>3, <2>4 DEF LauncherTypeOK
<1>3. LaunchesAreNested /\ ServersAreKnown /\ StopperFollows /\ AloneAtWork
    BY <1>1 DEF LaunchesAreNested, ServersAreKnown, StopperFollows, AloneAtWork, Alive, ShellAlive
<1>4. QED
    BY <1>2, <1>3 DEF LauncherInv

\* Steps of one script that leave its launcher and the servers alone.
LEMMA CheckPidFileKeeps ==
    ASSUME LauncherInv, NEW l \in Launches, CheckPidFile(l)
    PROVE  LauncherInv'
<1>1. /\ UNCHANGED <<python, process, stopper, slipped, pidfile>>
      /\ shell[l] = "new"
      /\ overlapped' = (overlapped \/ stopper.pc # "idle" \/ \E k \in Launches : Transient(k))
      /\ \/ shell' = [shell EXCEPT ![l] = "ended"]
         \/ shell' = [shell EXCEPT ![l] = "validate"] /\ (pidfile = 0 \/ ~ShellAlive(pidfile))
    BY DEF CheckPidFile, End
<1>2. shell \in [Launches -> Shells] /\ python[l].pc = "none"
    BY <1>1 DEF LauncherInv, LauncherTypeOK, LaunchesAreNested
<1>3. LauncherTypeOK'
    BY <1>1, <1>2 DEF LauncherInv, LauncherTypeOK, Shells
<1>4. LaunchesAreNested'
    BY <1>1, <1>2 DEF LauncherInv, LaunchesAreNested, Alive
<1>5. ServersAreKnown'
    BY <1>1 DEF LauncherInv, ServersAreKnown, Alive
<1>6. StopperFollows'
    <2>1. stopper.found \in Launches \cup {0}
        BY DEF LauncherInv, LauncherTypeOK, Stoppers
    <2>2. QED
        BY <1>1, <1>2, <2>1 DEF LauncherInv, StopperFollows
<1>7. AloneAtWork'
    <2> SUFFICES ASSUME ~overlapped' PROVE AloneAtWork'
        BY DEF AloneAtWork
    <2>1. ~overlapped /\ stopper.pc = "idle" /\ \A k \in Launches : ~Transient(k)
        BY <1>1
    <2>2. \A k \in Launches : k # l => shell'[k] = shell[k]
        BY <1>1, <1>2
    <2>3. CASE shell' = [shell EXCEPT ![l] = "ended"]
        BY <1>1, <1>2, <2>1, <2>2, <2>3 DEF LauncherInv, AloneAtWork, ShellAlive
    <2>4. CASE shell' = [shell EXCEPT ![l] = "validate"] /\ (pidfile = 0 \/ ~ShellAlive(pidfile))
        <3>1. ASSUME NEW k \in Launches, ShellAlive(k) PROVE FALSE
            <4>1. python[k].pc = "watch"
                BY <2>1, <3>1 DEF Transient
            <4>2. shell[k] = "wait"
                BY <1>2, <3>1, <4>1 DEF LauncherInv, LaunchesAreNested, ShellAlive, Shells
            <4>3. pidfile = k /\ ShellAlive(k)
                BY <2>1, <3>1, <4>2 DEF LauncherInv, AloneAtWork
            <4>4. k = 0
                BY <2>4, <4>3
            <4>5. QED
                BY <4>4, LauncherAssumption
        <3>2. \A k \in Launches : ShellAlive(k)' => k = l
            BY <2>2, <3>1 DEF ShellAlive
        <3>3. \A k \in Launches : shell'[k] \notin {"launch", "wait"}
            BY <1>2, <2>2, <2>4, <3>1 DEF ShellAlive
        <3>4. \A k \in Launches : python[k].pc \in {"none", "exited"}
            BY <2>1, <3>1 DEF LauncherInv, AloneAtWork, ShellAlive
        <3>5. QED
            BY <1>1, <2>1, <3>2, <3>3, <3>4 DEF AloneAtWork
    <2>5. QED
        BY <1>1, <2>3, <2>4
<1>8. QED
    BY <1>3, <1>4, <1>5, <1>6, <1>7 DEF LauncherInv

LEMMA CheckConfigurationKeeps ==
    ASSUME LauncherInv, NEW l \in Launches, CheckConfiguration(l)
    PROVE  LauncherInv'
<1>1. /\ UNCHANGED <<python, process, stopper, slipped, pidfile, overlapped>>
      /\ shell[l] = "validate"
      /\ \/ shell' = [shell EXCEPT ![l] = "ended"]
         \/ shell' = [shell EXCEPT ![l] = "write"]
    BY DEF CheckConfiguration, End
<1>2. shell \in [Launches -> Shells] /\ python[l].pc = "none"
    BY <1>1 DEF LauncherInv, LauncherTypeOK, LaunchesAreNested
<1>3. \A k \in Launches : k # l => shell'[k] = shell[k]
    BY <1>1, <1>2
<1>4. shell'[l] \in {"ended", "write"}
    BY <1>1, <1>2
<1>5. LauncherTypeOK'
    BY <1>1, <1>2 DEF LauncherInv, LauncherTypeOK, Shells
<1>6. LaunchesAreNested'
    BY <1>1, <1>2, <1>3, <1>4 DEF LauncherInv, LaunchesAreNested, Alive
<1>7. ServersAreKnown'
    BY <1>1 DEF LauncherInv, ServersAreKnown, Alive
<1>8. StopperFollows'
    <2>1. stopper.found \in Launches \cup {0}
        BY DEF LauncherInv, LauncherTypeOK, Stoppers
    <2>2. QED
        BY <1>1, <1>3, <1>4, <2>1 DEF LauncherInv, StopperFollows
<1>9. AloneAtWork'
    BY <1>1, <1>2, <1>3, <1>4 DEF LauncherInv, AloneAtWork, ShellAlive
<1>10. QED
    BY <1>5, <1>6, <1>7, <1>8, <1>9 DEF LauncherInv

LEMMA WritePidFileKeeps ==
    ASSUME LauncherInv, NEW l \in Launches, WritePidFile(l)
    PROVE  LauncherInv'
<1>1. /\ UNCHANGED <<python, process, stopper, slipped, overlapped>>
      /\ shell[l] = "write" /\ shell' = [shell EXCEPT ![l] = "launch"]
      /\ pidfile' = l
    BY DEF WritePidFile, Script
<1>2. shell \in [Launches -> Shells] /\ stopper.found \in Launches \cup {0}
    BY DEF LauncherInv, LauncherTypeOK, Stoppers
<1>3. shell'[l] = "launch" /\ \A k \in Launches : k # l => shell'[k] = shell[k]
    BY <1>1, <1>2
<1>4. LauncherTypeOK'
    BY <1>1, <1>2 DEF LauncherInv, LauncherTypeOK, Shells
<1>5. LaunchesAreNested' /\ ServersAreKnown'
    BY <1>1, <1>3 DEF LauncherInv, LaunchesAreNested, ServersAreKnown, Alive
<1>6. StopperFollows'
    BY <1>1, <1>2, <1>3 DEF LauncherInv, StopperFollows
<1>7. AloneAtWork'
    BY <1>1, <1>3 DEF LauncherInv, AloneAtWork, ShellAlive
<1>8. QED
    BY <1>4, <1>5, <1>6, <1>7 DEF LauncherInv

LEMMA ForkKeeps ==
    ASSUME LauncherInv, NEW l \in Launches, Fork(l)
    PROVE  LauncherInv'
<1>1. /\ UNCHANGED <<process, pidfile, stopper, slipped, overlapped>>
      /\ shell[l] = "launch" /\ shell' = [shell EXCEPT ![l] = "wait"]
      /\ python' = [python EXCEPT ![l].pc = "forked"]
    BY DEF Fork, Script
<1>2. /\ shell \in [Launches -> Shells] /\ python[l].pc = "none"
      /\ python \in [Launches -> [pc : Pythons, noted : SUBSET Servers]]
      /\ stopper.found \in Launches \cup {0}
    BY <1>1 DEF LauncherInv, LauncherTypeOK, LaunchesAreNested, Stoppers
<1>3. /\ shell'[l] = "wait" /\ \A k \in Launches : k # l => shell'[k] = shell[k]
      /\ python'[l].pc = "forked" /\ \A k \in Launches : k # l => python'[k] = python[k]
    BY <1>1, <1>2
<1>4. LauncherTypeOK'
    <2>1. python' \in [Launches -> [pc : Pythons, noted : SUBSET Servers]]
        BY <1>1, <1>2 DEF Pythons
    <2>2. shell' \in [Launches -> Shells]
        BY <1>1, <1>2 DEF Shells
    <2>3. QED
        BY <1>1, <2>1, <2>2 DEF LauncherInv, LauncherTypeOK
<1>5. LaunchesAreNested'
    BY <1>1, <1>3 DEF LauncherInv, LaunchesAreNested, Alive
<1>6. ServersAreKnown'
    <2>1. \A s \in Servers : ~Alive(l, s)
        BY <1>2 DEF LauncherInv, LaunchesAreNested
    <2>2. QED
        BY <1>1, <1>3, <2>1 DEF LauncherInv, ServersAreKnown, Alive
<1>7. StopperFollows'
    BY <1>1, <1>2, <1>3 DEF LauncherInv, StopperFollows
<1>8. AloneAtWork'
    <2> SUFFICES ASSUME ~overlapped PROVE AloneAtWork'
        BY <1>1 DEF AloneAtWork
    <2>1. stopper.pc \in {"look", "kill"} => stopper.found \in Launches /\ stopper.found # l
        BY <1>2 DEF LauncherInv, StopperFollows, AloneAtWork
    <2>2. QED
        BY <1>1, <1>3, <2>1 DEF LauncherInv, AloneAtWork, ShellAlive
<1>9. QED
    BY <1>4, <1>5, <1>6, <1>7, <1>8 DEF LauncherInv

LEMMA TrapKeeps ==
    ASSUME LauncherInv, NEW l \in Launches, Trap(l)
    PROVE  LauncherInv'
<1>1. /\ UNCHANGED <<python, process, stopper, slipped, overlapped>>
      /\ shell[l] = "wait" /\ shell' = [shell EXCEPT ![l] = "ended"] /\ python[l].pc = "exited"
      /\ pidfile' = 0
    BY DEF Trap, EndErasing
<1>2. shell \in [Launches -> Shells] /\ stopper.found \in Launches \cup {0}
    BY DEF LauncherInv, LauncherTypeOK, Stoppers
<1>3. shell'[l] = "ended" /\ \A k \in Launches : k # l => shell'[k] = shell[k]
    BY <1>1, <1>2
<1>4. LauncherTypeOK'
    BY <1>1, <1>2 DEF LauncherInv, LauncherTypeOK, Shells
<1>5. LaunchesAreNested' /\ ServersAreKnown'
    BY <1>1, <1>3 DEF LauncherInv, LaunchesAreNested, ServersAreKnown, Alive
<1>6. StopperFollows'
    BY <1>1, <1>2, <1>3 DEF LauncherInv, StopperFollows
<1>7. AloneAtWork'
    BY <1>1, <1>3 DEF LauncherInv, AloneAtWork, ShellAlive
<1>8. QED
    BY <1>4, <1>5, <1>6, <1>7 DEF LauncherInv

\* A step of a launcher that lives, whatever becomes of its servers.
LEMMA LauncherMoves ==
    ASSUME LauncherInv, NEW l \in Launches, UNCHANGED <<shell, pidfile, stopper, overlapped>>,
           python[l].pc \notin {"none", "exited"},
           python' \in [Launches -> [pc : Pythons, noted : SUBSET Servers]],
           process' \in [Launches -> [Servers -> {"none", "starting", "serving", "dead"}]],
           \A k \in Launches : k # l => python'[k] = python[k] /\ process'[k] = process[k],
           python'[l].pc \notin {"none", "forked"}, slipped \subseteq slipped',
           \A s \in Servers :
               Alive(l, s)' => \/ s \in python'[l].noted /\ python'[l].pc # "exited"
                               \/ python'[l].pc = Noting[s]
                               \/ <<l, s>> \in slipped'
    PROVE  LauncherInv'
<1>1. LauncherTypeOK' /\ StopperFollows'
    BY DEF LauncherInv, LauncherTypeOK, StopperFollows
<1>2. shell[l] \in {"wait", "ended"}
    BY DEF LauncherInv, LauncherTypeOK, LaunchesAreNested, Shells
<1>3. LaunchesAreNested'
    BY <1>2 DEF LauncherInv, LaunchesAreNested, Alive
<1>4. ServersAreKnown'
    <2>1. ASSUME NEW k \in Launches, NEW s \in Servers, k # l, Alive(k, s)'
          PROVE  \/ s \in python'[k].noted /\ python'[k].pc # "exited"
                 \/ python'[k].pc = Noting[s]
                 \/ <<k, s>> \in slipped'
        BY <2>1 DEF LauncherInv, ServersAreKnown, Alive
    <2>2. QED
        BY <2>1 DEF ServersAreKnown
<1>5. AloneAtWork'
    <2> SUFFICES ASSUME ~overlapped PROVE AloneAtWork'
        BY DEF AloneAtWork
    <2>1. stopper.pc \in {"look", "kill"} => stopper.found \in Launches
        BY DEF LauncherInv, LauncherTypeOK, StopperFollows, Stoppers
    <2>2. stopper.pc = "kill" /\ ~stopper.child => stopper.found # l
        BY DEF LauncherInv, AloneAtWork
    <2>3. QED
        BY <2>1, <2>2 DEF LauncherInv, AloneAtWork, ShellAlive
<1>6. QED
    BY <1>1, <1>3, <1>4, <1>5 DEF LauncherInv

LEMMA SpawnKeeps ==
    ASSUME LauncherInv, NEW l \in Launches, NEW s \in Servers, Spawn(l, s)
    PROVE  LauncherInv'
<1>1. /\ UNCHANGED <<shell, pidfile, stopper, overlapped, slipped>>
      /\ python[l].pc = Spawning[s] /\ python' = [python EXCEPT ![l].pc = Noting[s]]
      /\ process' = [process EXCEPT ![l][s] = "starting"]
    BY DEF Spawn, PythonAt
<1>2. /\ python \in [Launches -> [pc : Pythons, noted : SUBSET Servers]]
      /\ process \in [Launches -> [Servers -> {"none", "starting", "serving", "dead"}]]
    BY DEF LauncherInv, LauncherTypeOK
<1>3. python[l].pc \notin {"none", "exited"} /\ Noting[s] \in Pythons /\ Noting[s] \notin {"none", "forked"}
    BY <1>1, ServerNames DEF Pythons
<1>4. /\ python' \in [Launches -> [pc : Pythons, noted : SUBSET Servers]]
      /\ process' \in [Launches -> [Servers -> {"none", "starting", "serving", "dead"}]]
    BY <1>1, <1>2, <1>3
<1>5. /\ \A k \in Launches : k # l => python'[k] = python[k] /\ process'[k] = process[k]
      /\ python'[l].pc = Noting[s] /\ python'[l].noted = python[l].noted
      /\ \A x \in Servers : x # s => process'[l][x] = process[l][x]
    BY <1>1, <1>2
<1>6. \A x \in Servers : Alive(l, x)' => \/ x \in python'[l].noted /\ python'[l].pc # "exited"
                                         \/ python'[l].pc = Noting[x]
                                         \/ <<l, x>> \in slipped'
    <2>1. ASSUME NEW x \in Servers, x # s, Alive(l, x)
          PROVE  x \in python[l].noted \/ <<l, x>> \in slipped
        <3>1. python[l].pc # Noting[x]
            BY <1>1, ServerNames
        <3>2. QED
            BY <2>1, <3>1 DEF LauncherInv, ServersAreKnown
    <2>2. python'[l].pc # "exited"
        BY <1>5, ServerNames
    <2>3. QED
        BY <1>1, <1>5, <2>1, <2>2 DEF Alive
<1>7. QED
    BY <1>1, <1>3, <1>4, <1>5, <1>6, LauncherMoves

LEMMA NoteKeeps ==
    ASSUME LauncherInv, NEW l \in Launches, NEW s \in Servers, Note(l, s)
    PROVE  LauncherInv'
<1>1. /\ UNCHANGED <<shell, process, pidfile, stopper, overlapped, slipped>>
      /\ python[l].pc = Noting[s]
      /\ python' = [python EXCEPT ![l] = [pc |-> Looking[s], noted |-> python[l].noted \cup {s}]]
    BY DEF Note
<1>2. /\ python \in [Launches -> [pc : Pythons, noted : SUBSET Servers]]
      /\ process \in [Launches -> [Servers -> {"none", "starting", "serving", "dead"}]]
    BY DEF LauncherInv, LauncherTypeOK
<1>3. /\ python[l].pc \notin {"none", "exited"} /\ Looking[s] \in Pythons /\ Looking[s] \notin {"none", "forked", "exited"}
      /\ \A x \in Servers : Noting[x] = Noting[s] => x = s
    <2>1. \A x \in Servers : Noting[x] = Noting[s] => x = s
        BY ServerNames
    <2>2. QED
        BY <1>1, <2>1, ServerNames DEF Pythons
<1>4. python' \in [Launches -> [pc : Pythons, noted : SUBSET Servers]]
    BY <1>1, <1>2, <1>3
<1>5. /\ \A k \in Launches : k # l => python'[k] = python[k]
      /\ python'[l].pc = Looking[s] /\ python'[l].noted = python[l].noted \cup {s}
    BY <1>1, <1>2
<1>6. \A x \in Servers : Alive(l, x)' => \/ x \in python'[l].noted /\ python'[l].pc # "exited"
                                         \/ python'[l].pc = Noting[x]
                                         \/ <<l, x>> \in slipped'
    <2>1. ASSUME NEW x \in Servers, Alive(l, x)
          PROVE  x \in python[l].noted \/ x = s \/ <<l, x>> \in slipped
        BY <1>1, <1>3, <2>1 DEF LauncherInv, ServersAreKnown
    <2>2. QED
        BY <1>1, <1>3, <1>5, <2>1 DEF Alive
<1>7. QED
    BY <1>1, <1>2, <1>3, <1>4, <1>5, <1>6, LauncherMoves

\* A launcher that goes on and touches no server: from a step at which it was
\* not spawning one, or slipping it.
LEMMA LauncherGoesOn ==
    ASSUME LauncherInv, NEW l \in Launches, NEW to \in Pythons \ {"none", "forked", "exited"},
           UNCHANGED <<shell, process, pidfile, stopper, overlapped>>,
           python[l].pc \notin {"none", "exited"}, python' = [python EXCEPT ![l].pc = to],
           slipped \subseteq slipped',
           \A s \in Servers : python[l].pc = Noting[s] => <<l, s>> \in slipped'
    PROVE  LauncherInv'
<1>1. /\ python \in [Launches -> [pc : Pythons, noted : SUBSET Servers]]
      /\ process \in [Launches -> [Servers -> {"none", "starting", "serving", "dead"}]]
    BY DEF LauncherInv, LauncherTypeOK
<1>2. python' \in [Launches -> [pc : Pythons, noted : SUBSET Servers]]
    BY <1>1
<1>3. /\ \A k \in Launches : k # l => python'[k] = python[k]
      /\ python'[l].pc = to /\ python'[l].noted = python[l].noted
    BY <1>1
<1>4. \A x \in Servers : Alive(l, x)' => \/ x \in python'[l].noted /\ python'[l].pc # "exited"
                                         \/ python'[l].pc = Noting[x]
                                         \/ <<l, x>> \in slipped'
    <2>1. ASSUME NEW x \in Servers, Alive(l, x)
          PROVE  x \in python[l].noted \/ <<l, x>> \in slipped'
        BY <2>1 DEF LauncherInv, ServersAreKnown
    <2>2. QED
        BY <1>3, <2>1 DEF Alive
<1>5. to \notin {"none", "forked"}
    OBVIOUS
<1>6. QED
    BY <1>1, <1>2, <1>3, <1>4, <1>5, LauncherMoves

LEMMA LookWatchKeeps ==
    ASSUME LauncherInv, NEW l \in Launches, Exec(l) \/ Watch(l) \/ \E s \in Servers : Look(l, s)
    PROVE  LauncherInv'
<1>0. CASE Exec(l)
    <2>1. \A s \in Servers : python[l].pc # Noting[s]
        BY <1>0, ServerNames DEF Exec, PythonAt
    <2>2. "spawn api" \in Pythons \ {"none", "forked", "exited"}
        BY DEF Pythons
    <2>3. QED
        BY <1>0, <2>1, <2>2, LauncherGoesOn DEF Exec, PythonAt
<1>1. CASE Watch(l)
    <2>1. \A s \in Servers : python[l].pc # Noting[s]
        BY <1>1, ServerNames DEF Watch, PythonAt
    <2>2. "stop" \in Pythons \ {"none", "forked", "exited"}
        BY DEF Pythons
    <2>3. QED
        BY <1>1, <2>1, <2>2, LauncherGoesOn DEF Watch, PythonAt
<1>2. CASE \E s \in Servers : Look(l, s)
    <2>1. PICK s \in Servers : Look(l, s)
        BY <1>2
    <2>2. PICK to : to = IF ~Alive(l, s) THEN "stop" ELSE IF s = "api" THEN "spawn web" ELSE "watch"
        OBVIOUS
    <2>3. to \in Pythons \ {"none", "forked", "exited"}
        BY <2>2 DEF Pythons
    <2>4. python[l].pc = Looking[s] /\ python' = [python EXCEPT ![l].pc = to]
        BY <2>1, <2>2 DEF Look, PythonAt
    <2>5. python[l].pc \notin {"none", "exited"} /\ \A x \in Servers : python[l].pc # Noting[x]
        BY <2>4, ServerNames
    <2>6. UNCHANGED <<shell, process, pidfile, stopper, overlapped, slipped>>
        BY <2>1 DEF Look
    <2>7. QED
        BY <2>3, <2>4, <2>5, <2>6, LauncherGoesOn
<1>3. QED
    BY <1>0, <1>1, <1>2

LEMMA StopAllKeeps ==
    ASSUME LauncherInv, NEW l \in Launches, StopAll(l)
    PROVE  LauncherInv'
<1>1. /\ UNCHANGED <<shell, pidfile, stopper, overlapped, slipped>>
      /\ python[l].pc = "stop" /\ python' = [python EXCEPT ![l].pc = "exited"]
      /\ process' = [process EXCEPT ![l] = [s \in Servers |-> IF s \in python[l].noted THEN "dead" ELSE process[l][s]]]
    BY DEF StopAll, TerminateAll, PythonAt
<1>2. /\ python \in [Launches -> [pc : Pythons, noted : SUBSET Servers]]
      /\ process \in [Launches -> [Servers -> {"none", "starting", "serving", "dead"}]]
    BY DEF LauncherInv, LauncherTypeOK
<1>3. /\ python' \in [Launches -> [pc : Pythons, noted : SUBSET Servers]]
      /\ process' \in [Launches -> [Servers -> {"none", "starting", "serving", "dead"}]]
    <2>1. "exited" \in Pythons
        BY DEF Pythons
    <2>2. \A s \in Servers : process[l][s] \in {"none", "starting", "serving", "dead"}
        BY <1>2
    <2>3. [s \in Servers |-> IF s \in python[l].noted THEN "dead" ELSE process[l][s]]
              \in [Servers -> {"none", "starting", "serving", "dead"}]
        BY <2>2
    <2>4. QED
        BY <1>1, <1>2, <2>1, <2>3
<1>4. /\ \A k \in Launches : k # l => python'[k] = python[k] /\ process'[k] = process[k]
      /\ python'[l].pc = "exited"
      /\ \A s \in Servers : process'[l][s] = IF s \in python[l].noted THEN "dead" ELSE process[l][s]
    BY <1>1, <1>2
<1>5. \A s \in Servers : Alive(l, s)' => <<l, s>> \in slipped'
    <2>1. ASSUME NEW s \in Servers, Alive(l, s)'
          PROVE  <<l, s>> \in slipped
        <3>1. s \notin python[l].noted /\ Alive(l, s)
            BY <1>4, <2>1 DEF Alive
        <3>2. python[l].pc # Noting[s]
            BY <1>1, ServerNames
        <3>3. QED
            BY <3>1, <3>2 DEF LauncherInv, ServersAreKnown
    <2>2. QED
        BY <1>1, <2>1
<1>6. python[l].pc \notin {"none", "exited"} /\ python'[l].pc \notin {"none", "forked"}
    BY <1>1, <1>4
<1>7. QED
    BY <1>1, <1>3, <1>4, <1>5, <1>6, LauncherMoves

\* A signal, of the stop script or from the terminal.
LEMMA SignalKeeps ==
    ASSUME LauncherInv, NEW l \in Launches, Signal(l),
           UNCHANGED <<shell, process, pidfile, stopper, overlapped>>
    PROVE  LauncherInv'
<1>1. "stop" \in Pythons \ {"none", "forked", "exited"}
    BY DEF Pythons
<1>2. \A s \in Servers : python[l].pc = Noting[s] => <<l, s>> \in slipped'
    BY DEF Signal
<1>3. QED
    BY <1>1, <1>2, LauncherGoesOn DEF Signal

LEMMA ServerKeeps ==
    ASSUME LauncherInv, NEW l \in Launches, NEW s \in Servers, Bind(l, s) \/ ServerDies(l, s)
    PROVE  LauncherInv'
<1>1. /\ UNCHANGED <<shell, python, pidfile, stopper, overlapped, slipped>>
      /\ Alive(l, s)
      /\ \E to \in {"serving", "dead"} : process' = [process EXCEPT ![l][s] = to]
    BY DEF Bind, ServerDies, Alive
<1>2. process \in [Launches -> [Servers -> {"none", "starting", "serving", "dead"}]]
    BY DEF LauncherInv, LauncherTypeOK
<1>3. \A k \in Launches : \A x \in Servers : Alive(k, x)' => Alive(k, x)
    BY <1>1, <1>2 DEF Alive
<1>4. process' \in [Launches -> [Servers -> {"none", "starting", "serving", "dead"}]]
    BY <1>1, <1>2
<1>5. LauncherTypeOK'
    BY <1>1, <1>4 DEF LauncherInv, LauncherTypeOK
<1>6. LaunchesAreNested' /\ ServersAreKnown'
    BY <1>1, <1>3 DEF LauncherInv, LaunchesAreNested, ServersAreKnown
<1>7. StopperFollows' /\ AloneAtWork'
    BY <1>1 DEF LauncherInv, StopperFollows, AloneAtWork, ShellAlive
<1>8. QED
    BY <1>5, <1>6, <1>7 DEF LauncherInv

LEMMA StopScriptKeeps ==
    ASSUME LauncherInv, StopScript
    PROVE  LauncherInv'
<1>1. /\ UNCHANGED <<shell, python, process, pidfile, slipped>>
      /\ stopper.pc = "idle"
      /\ overlapped' = (overlapped \/ \E l \in Launches : Transient(l))
    BY DEF StopScript
<1>2. stopper \in Stoppers /\ stopper.found = 0 /\ pidfile \in Launches \cup {0}
    BY <1>1 DEF LauncherInv, LauncherTypeOK, StopperFollows
<1>3. /\ stopper' \in Stoppers
      /\ \/ stopper'.pc = "done" /\ stopper'.found = 0
         \/ pidfile # 0 /\ ~ShellAlive(pidfile) /\ stopper'.pc = "remove" /\ stopper'.found = 0
         \/ pidfile # 0 /\ ShellAlive(pidfile) /\ stopper'.pc = "look" /\ stopper'.found = pidfile
    BY <1>2 DEF StopScript, Stoppers
<1>4. LauncherTypeOK' /\ LaunchesAreNested' /\ ServersAreKnown'
    BY <1>1, <1>3 DEF LauncherInv, LauncherTypeOK, LaunchesAreNested, ServersAreKnown, Alive
<1>5. StopperFollows'
    BY <1>1, <1>3 DEF StopperFollows, ShellAlive
<1>6. AloneAtWork'
    <2> SUFFICES ASSUME ~overlapped' PROVE AloneAtWork'
        BY DEF AloneAtWork
    <2>1. ~overlapped /\ \A k \in Launches : ~Transient(k)
        BY <1>1
    <2>2. ASSUME NEW k \in Launches, ShellAlive(k) PROVE pidfile = k
        <3>1. python[k].pc = "watch"
            BY <2>1, <2>2 DEF Transient
        <3>2. shell[k] = "wait"
            BY <2>2, <3>1 DEF LauncherInv, LauncherTypeOK, LaunchesAreNested, ShellAlive, Shells
        <3>3. QED
            BY <2>1, <3>2 DEF LauncherInv, AloneAtWork
    <2>3. /\ stopper'.pc = "look" => \A k \in Launches : ShellAlive(k) => k = stopper'.found
          /\ stopper'.pc = "remove" => \A k \in Launches : ~ShellAlive(k)
        BY <1>3, <2>2
    <2>4. stopper'.pc = "look" => python[stopper'.found].pc \notin {"none", "forked"}
        BY <1>2, <1>3, <2>1 DEF Transient
    <2>5. QED
        BY <1>1, <1>3, <2>1, <2>3, <2>4 DEF LauncherInv, AloneAtWork, ShellAlive
<1>7. QED
    BY <1>4, <1>5, <1>6 DEF LauncherInv

\* The stop script goes on: the kill is sent, the instance has ended, the file
\* is removed.
LEMMA StopperGoesOn ==
    ASSUME LauncherInv, UNCHANGED <<shell, python, process, slipped, overlapped>>,
           NEW to \in {"wait", "remove", "done"}, stopper' = [stopper EXCEPT !.pc = to],
           to = "wait" => stopper.pc = "kill",
           to = "remove" => stopper.pc = "wait" /\ ~ShellAlive(stopper.found),
           to = "done" => stopper.pc = "remove",
           pidfile' = IF to = "done" THEN 0 ELSE pidfile
    PROVE  LauncherInv'
<1>1. stopper \in Stoppers
    BY DEF LauncherInv, LauncherTypeOK
<1>2. stopper'.pc = to /\ stopper'.found = stopper.found /\ stopper'.child = stopper.child
    BY <1>1 DEF Stoppers
<1>3. LauncherTypeOK'
    <2>1. stopper' \in Stoppers
        BY <1>1 DEF Stoppers
    <2>2. QED
        BY <2>1 DEF LauncherInv, LauncherTypeOK
<1>4. LaunchesAreNested' /\ ServersAreKnown'
    BY <1>2 DEF LauncherInv, LaunchesAreNested, ServersAreKnown, Alive
<1>5. StopperFollows'
    BY <1>2 DEF LauncherInv, StopperFollows, ShellAlive
<1>6. AloneAtWork'
    <2> SUFFICES ASSUME ~overlapped PROVE AloneAtWork'
        BY DEF AloneAtWork
    <2>1. CASE to = "wait"
        BY <1>2, <2>1 DEF LauncherInv, AloneAtWork, ShellAlive
    <2>2. CASE to = "remove"
        <3>1. \A k \in Launches : ~ShellAlive(k)
            BY <2>2 DEF LauncherInv, AloneAtWork
        <3>2. QED
            BY <1>2, <2>2, <3>1 DEF LauncherInv, AloneAtWork, ShellAlive
    <2>3. CASE to = "done"
        <3>1. \A k \in Launches : ~ShellAlive(k)
            BY <2>3 DEF LauncherInv, AloneAtWork
        <3>2. \A k \in Launches : shell[k] \notin {"launch", "wait"}
            BY <3>1 DEF ShellAlive
        <3>3. QED
            BY <1>2, <2>3, <3>1, <3>2 DEF LauncherInv, AloneAtWork, ShellAlive
    <2>4. QED
        BY <2>1, <2>2, <2>3
<1>7. QED
    BY <1>3, <1>4, <1>5, <1>6 DEF LauncherInv

\* What it looks for and what it kills.
LEMMA FindChildKeeps ==
    ASSUME LauncherInv, FindChild
    PROVE  LauncherInv'
<1>1. /\ UNCHANGED <<shell, python, process, pidfile, slipped, overlapped>>
      /\ stopper.pc = "look" /\ stopper' = [stopper EXCEPT !.pc = "kill", !.child = Visible(stopper.found)]
    BY DEF FindChild
<1>2. stopper \in Stoppers
    BY DEF LauncherInv, LauncherTypeOK
<1>3. /\ stopper'.pc = "kill" /\ stopper'.found = stopper.found /\ stopper' \in Stoppers
      /\ stopper'.child = Visible(stopper.found)
    BY <1>1, <1>2 DEF Stoppers, Visible
<1>4. LauncherTypeOK' /\ LaunchesAreNested' /\ ServersAreKnown' /\ StopperFollows'
    BY <1>1, <1>3 DEF LauncherInv, LauncherTypeOK, LaunchesAreNested, ServersAreKnown, StopperFollows, Alive
<1>5. AloneAtWork'
    BY <1>1, <1>3 DEF LauncherInv, AloneAtWork, ShellAlive, Visible
<1>6. QED
    BY <1>4, <1>5 DEF LauncherInv

\* The kill and the signal it is in one step: the signal first, then the stop
\* script's own step.
LEMMA KillChildKeeps ==
    ASSUME LauncherInv, KillChild
    PROVE  LauncherInv'
<1>1. /\ UNCHANGED <<shell, process, pidfile, overlapped>>
      /\ stopper.pc = "kill" /\ stopper.child /\ stopper' = [stopper EXCEPT !.pc = "wait"]
      /\ Signal(stopper.found) \/ UNCHANGED <<python, slipped>>
    BY DEF KillChild
<1>2. PICK l \in Launches : l = stopper.found
    BY <1>1 DEF LauncherInv, LauncherTypeOK, StopperFollows, Stoppers
<1>3. CASE UNCHANGED <<python, slipped>>
    BY <1>1, <1>3, StopperGoesOn
<1>4. CASE Signal(stopper.found)
    <2>1. Signal(l)
        BY <1>2, <1>4
    <2>2. python \in [Launches -> [pc : Pythons, noted : SUBSET Servers]] /\ stopper \in Stoppers
        BY DEF LauncherInv, LauncherTypeOK
    <2>3. /\ python[l].pc \notin {"none", "stop", "exited"} /\ python' = [python EXCEPT ![l].pc = "stop"]
          /\ slipped \subseteq slipped' /\ \A s \in Servers : python[l].pc = Noting[s] => <<l, s>> \in slipped'
        BY <2>1 DEF Signal
    <2>4. /\ python'[l].pc = "stop" /\ python'[l].noted = python[l].noted
          /\ \A k \in Launches : k # l => python'[k] = python[k]
          /\ python' \in [Launches -> [pc : Pythons, noted : SUBSET Servers]]
        BY <2>2, <2>3 DEF Pythons
    <2>5. stopper'.pc = "wait" /\ stopper'.found = stopper.found /\ stopper' \in Stoppers
        BY <1>1, <2>2 DEF Stoppers
    <2>6. LauncherTypeOK'
        BY <1>1, <2>4, <2>5 DEF LauncherInv, LauncherTypeOK
    <2>7. LaunchesAreNested'
        <3>1. shell[l] = "wait"
            BY <1>1, <2>3 DEF LauncherInv, LauncherTypeOK, LaunchesAreNested, Shells
        <3>2. QED
            BY <1>1, <2>4, <3>1 DEF LauncherInv, LaunchesAreNested, Alive
    <2>8. ServersAreKnown'
        BY <1>1, <2>3, <2>4 DEF LauncherInv, ServersAreKnown, Alive
    <2>9. StopperFollows'
        BY <1>1, <2>5 DEF LauncherInv, StopperFollows
    <2>10. AloneAtWork'
        BY <1>1, <2>3, <2>4, <2>5 DEF LauncherInv, AloneAtWork, ShellAlive
    <2>11. QED
        BY <2>6, <2>7, <2>8, <2>9, <2>10 DEF LauncherInv
<1>5. QED
    BY <1>1, <1>3, <1>4

\* The shell dies and its launcher, if there is one by now, goes on.
LEMMA KillShellKeeps ==
    ASSUME LauncherInv, KillShell
    PROVE  LauncherInv'
<1>1. /\ UNCHANGED <<python, process, slipped, overlapped>>
      /\ stopper.pc = "kill" /\ ~stopper.child /\ ShellAlive(stopper.found)
      /\ stopper' = [stopper EXCEPT !.pc = "wait"]
      /\ shell' = [shell EXCEPT ![stopper.found] = "ended"]
      /\ pidfile' \in {0, pidfile}
    BY DEF KillShell, EndErasing, End
<1>2. PICK l \in Launches : l = stopper.found
    BY <1>1 DEF LauncherInv, LauncherTypeOK, StopperFollows, Stoppers
<1>3. shell \in [Launches -> Shells] /\ stopper \in Stoppers
    BY DEF LauncherInv, LauncherTypeOK
<1>4. /\ stopper'.pc = "wait" /\ stopper'.found = l /\ ~stopper'.child /\ stopper' \in Stoppers
      /\ shell'[l] = "ended" /\ \A k \in Launches : k # l => shell'[k] = shell[k]
    BY <1>1, <1>2, <1>3 DEF Stoppers
<1>5. LauncherTypeOK'
    BY <1>1, <1>3, <1>4 DEF LauncherInv, LauncherTypeOK, Shells
<1>6. LaunchesAreNested'
    BY <1>1, <1>4 DEF LauncherInv, LaunchesAreNested, Alive
<1>7. ServersAreKnown'
    BY <1>1 DEF LauncherInv, ServersAreKnown, Alive
<1>8. StopperFollows'
    BY <1>2, <1>4, LauncherAssumption DEF StopperFollows
<1>9. AloneAtWork'
    <2> SUFFICES ASSUME ~overlapped PROVE AloneAtWork'
        BY <1>1 DEF AloneAtWork
    <2>1. \A k \in Launches : ~ShellAlive(k)'
        BY <1>1, <1>2, <1>4 DEF LauncherInv, AloneAtWork, ShellAlive
    <2>2. \A k \in Launches : python[k].pc \in {"none", "exited"}
        BY <1>1, <1>2 DEF LauncherInv, AloneAtWork, ShellAlive
    <2>3. QED
        BY <1>1, <1>4, <2>1, <2>2 DEF AloneAtWork, ShellAlive
<1>10. QED
    BY <1>5, <1>6, <1>7, <1>8, <1>9 DEF LauncherInv

LEMMA KillFailsKeeps ==
    ASSUME LauncherInv, KillFails
    PROVE  LauncherInv'
<1>1. /\ UNCHANGED <<shell, python, process, pidfile, slipped, overlapped>>
      /\ stopper.pc = "kill" /\ stopper' = [stopper EXCEPT !.pc = "done", !.found = 0]
    BY DEF KillFails
<1>2. stopper'.pc = "done" /\ stopper'.found = 0 /\ stopper' \in Stoppers
    BY <1>1 DEF LauncherInv, LauncherTypeOK, Stoppers
<1>3. LauncherTypeOK' /\ LaunchesAreNested' /\ ServersAreKnown' /\ StopperFollows' /\ AloneAtWork'
    BY <1>1, <1>2 DEF LauncherInv, LauncherTypeOK, LaunchesAreNested, ServersAreKnown, StopperFollows, AloneAtWork,
                      Alive, ShellAlive
<1>4. QED
    BY <1>3 DEF LauncherInv

LEMMA StopperKeeps ==
    ASSUME LauncherInv, StopWaited \/ RemovePidFile
    PROVE  LauncherInv'
<1>1. CASE StopWaited
    BY <1>1, StopperGoesOn DEF StopWaited, StopWaits
<1>2. CASE RemovePidFile
    BY <1>2, StopperGoesOn DEF RemovePidFile
<1>3. QED
    BY <1>1, <1>2

LEMMA LauncherStep == LauncherInv /\ [LauncherNext]_launcherVars => LauncherInv'
<1> SUFFICES ASSUME LauncherInv, [LauncherNext]_launcherVars
             PROVE  LauncherInv'
    OBVIOUS
<1>1. ASSUME NEW l \in Launches, CheckPidFile(l) \/ CheckConfiguration(l) \/ WritePidFile(l) \/ Fork(l) \/ Trap(l)
      PROVE  LauncherInv'
    BY <1>1, CheckPidFileKeeps, CheckConfigurationKeeps, WritePidFileKeeps, ForkKeeps, TrapKeeps
<1>2. ASSUME NEW l \in Launches, PythonStep(l)
      PROVE  LauncherInv'
    BY <1>2, SpawnKeeps, NoteKeeps, LookWatchKeeps, StopAllKeeps DEF PythonStep
<1>3. ASSUME NEW l \in Launches, NEW s \in Servers, Bind(l, s) \/ ServerDies(l, s)
      PROVE  LauncherInv'
    BY <1>3, ServerKeeps
<1>4. CASE StopScript \/ FindChild \/ KillChild \/ KillShell \/ KillFails \/ StopWaited \/ RemovePidFile
    BY <1>4, StopScriptKeeps, FindChildKeeps, KillChildKeeps, KillShellKeeps, KillFailsKeeps, StopperKeeps
<1>5. CASE CtrlC
    BY <1>5, SignalKeeps DEF CtrlC
<1>6. CASE UNCHANGED launcherVars
    BY <1>6 DEF launcherVars, LauncherInv, LauncherTypeOK, LaunchesAreNested, ServersAreKnown, StopperFollows, AloneAtWork,
                Alive, ShellAlive
<1>7. QED
    BY <1>1, <1>2, <1>3, <1>4, <1>5, <1>6 DEF LauncherNext

\* LauncherInv holds in every behaviour of the start script, start_rupsaa.py,
\* the two servers and the stop script.
THEOREM LauncherInvariant == LauncherSpec => []LauncherInv
<1>1. LauncherInit => LauncherInv
    BY LauncherInitInv
<1>2. LauncherInv /\ [LauncherNext]_launcherVars => LauncherInv'
    BY LauncherStep
<1>3. QED
    BY <1>1, <1>2, PTL DEF LauncherSpec

(* When stop_rupsaa_production.sh has ended and found the launcher of the  *)
(* instance, that is gone with both its servers, except a server that was  *)
(* being spawned as the signal came (stop_all of start_rupsaa.py); and as  *)
(* long as no two scripts overlapped, the pid file names the instance that *)
(* runs. (A stop before the launcher is there: NothingRunsAfterStop.)      *)
THEOREM StopAlwaysWorks == LauncherSpec => []StopWorks
<1>1. LauncherInv => StopMeansStopped
    <2> SUFFICES ASSUME LauncherInv, stopper.pc = "done", stopper.found # 0, stopper.child,
                        NEW s \in Servers, Alive(stopper.found, s)
                 PROVE  <<stopper.found, s>> \in slipped
        BY DEF StopMeansStopped
    <2>1. PICK l \in Launches : l = stopper.found /\ shell[l] = "ended"
        BY DEF LauncherInv, LauncherTypeOK, StopperFollows, Stoppers
    <2>2. python[l].pc = "exited"
        BY <2>1 DEF LauncherInv, LaunchesAreNested
    <2>3. python[l].pc # Noting[s]
        BY <2>2, ServerNames
    <2>4. QED
        BY <2>1, <2>2, <2>3 DEF LauncherInv, ServersAreKnown
<1>2. LauncherInv => PidFileNamesRunning
    <2> SUFFICES ASSUME LauncherInv, ~overlapped, NEW l \in Launches, python[l].pc = "watch"
                 PROVE  pidfile = l
        BY DEF PidFileNamesRunning
    <2>1. shell[l] = "wait"
        BY DEF LauncherInv, AloneAtWork
    <2>2. QED
        BY <2>1 DEF LauncherInv, AloneAtWork
<1>3. LauncherInv => StopWorks
    BY <1>1, <1>2 DEF StopWorks
<1>4. QED
    BY <1>3, LauncherInvariant, PTL

-----------------------------------------------------------------------------
(***************************************************************************)
(* The internet policy. PolicyInv says where the number of a question may  *)
(* be: pending, carried by the turn that took it up, or given up. A number *)
(* is asked about once, never comes back after it left the pending         *)
(* questions, and is searched only by the turn that carries it.            *)
(* ApprovalInv follows the question a conversation stands on through the   *)
(* turn that approves it.                                                  *)
(***************************************************************************)
Busy(t) == turn[t].pc # "idle"

Labels == {"mode", "pending", "expire", "decide", "prefer", "drop", "need", "search", "searched", "answer"}

Commands == {"allow", "deny", "ask", "approve", "reject", "none"}

Question == [q : Nat, at : Nat]

ChatTurn ==
    [pc : Labels, n : Nat, c : Conversations, u : Users \cup {NoUser}, kind : Kinds, legacy : BOOLEAN,
     arrived : Nat, mode : Modes, pend : Question, command : Commands, query : Nat,
     dropped : SUBSET Nat, asks : BOOLEAN, expects : Nat, over : SUBSET Nat, alone : BOOLEAN]

PolicyTypes ==
    /\ prefs \in [Users \cup Conversations -> Modes]
    /\ pending \in [Conversations -> Question]
    /\ moment \in Nat
    /\ turn \in [Runners -> ChatTurn \cup {NoTurn}]
    /\ started \in Nat
    /\ asked \subseteq [q : Nat, c : Conversations, at : Nat]
    /\ over \subseteq Nat
    /\ standing \in [Conversations -> [q : Nat, alone : BOOLEAN]]

\* A turn's number is its own.
OwnNumbers ==
    /\ \A t \in Runners : Busy(t) => turn[t].n \in 1..started
    /\ \A t, r \in Runners : Busy(t) /\ Busy(r) /\ t # r => turn[t].n # turn[r].n
    /\ \A a \in asked : a.q \in 1..started
    /\ over \subseteq 1..started

\* A question is asked about once, at the end of its turn.
AskedOnce ==
    /\ \A a, b \in asked : a.q = b.q => a = b
    /\ \A t \in Runners :
          Busy(t) /\ turn[t].pc # "answer" => turn[t].n \notin over /\ \A a \in asked : a.q # turn[t].n

WasAsked(q, c) == \E a \in asked : a.q = q /\ a.c = c

\* What is pending was asked, and is not given up.
PendingAsked ==
    \A c \in Conversations :
        pending[c].q # 0 =>
            /\ [q |-> pending[c].q, c |-> c, at |-> pending[c].at] \in asked
            /\ pending[c].q \notin over

\* What a turn took up was pending when it did, and in time.
TakenUp ==
    \A t \in Runners :
        Busy(t) /\ turn[t].pend.q # 0 =>
            /\ [q |-> turn[t].pend.q, c |-> turn[t].c, at |-> turn[t].pend.at] \in asked
            /\ turn[t].arrived - turn[t].pend.at <= TTL
            /\ turn[t].pend.q \notin turn[t].over

\* What a turn gives up is not pending any more.
GivenUp ==
    \A t \in Runners : Busy(t) =>
        \A d \in turn[t].dropped \ {0} :
            /\ (d = turn[t].n /\ turn[t].pc = "answer") \/ \E a \in asked : a.q = d
            /\ turn[t].pc # "expire" => \A c \in Conversations : pending[c].q # d
            /\ turn[t].pc = "expire" => WasAsked(d, turn[t].c)

\* What a turn searches is its own question, or the one it took up, and then
\* it is permitted.
Searching ==
    \A t \in Runners : Busy(t) =>
        /\ turn[t].over \subseteq over
        /\ turn[t].n \notin turn[t].over
        /\ turn[t].query \in {0, turn[t].pend.q, turn[t].n}
        /\ turn[t].pc \notin {"need", "search", "searched", "answer"} => turn[t].query = 0
        /\ turn[t].pc = "need" => turn[t].query \in {0, turn[t].pend.q}
        /\ turn[t].pc = "search" => turn[t].query # 0
        /\ turn[t].pc \in {"need", "search"} /\ turn[t].query # 0 =>
              turn[t].mode = "ALLOW" \/ (turn[t].command = "approve" /\ turn[t].query = turn[t].pend.q)

PolicyInv ==
    /\ PolicyTypes /\ OwnNumbers /\ AskedOnce /\ PendingAsked /\ TakenUp /\ GivenUp /\ Searching
    /\ OnlyWithPermission /\ SearchedAtMostOnce

\* What a conversation stands on, and what a turn expects to take up or has
\* asked itself, was asked.
AskedBefore ==
    /\ \A c \in Conversations : standing[c].q # 0 => \E a \in asked : a.q = standing[c].q
    /\ \A t \in Runners : Busy(t) =>
          /\ turn[t].asks => \E a \in asked : a.q = turn[t].n
          /\ turn[t].expects # 0 => \E a \in asked : a.q = turn[t].expects

\* A question a conversation stands on is pending, and nothing else runs there.
Standing ==
    \A c \in Conversations :
        standing[c].alone /\ standing[c].q # 0 => pending[c].q = standing[c].q /\ \A t \in Runners : ~On(t, c)

\* A turn that is alone is the only one of its conversation, and the question
\* it has asked is pending.
AloneOn ==
    \A t \in Runners :
        Busy(t) /\ turn[t].alone =>
            /\ \A r \in Runners \ {t} : ~On(r, turn[t].c)
            /\ turn[t].asks => turn[t].pc = "answer" /\ pending[turn[t].c].q = turn[t].n

\* Where the question is that a turn is expected to take up.
Expects(t) ==
    CASE turn[t].pc \in {"mode", "pending"} -> pending[turn[t].c].q = turn[t].expects
      [] turn[t].pc = "decide"              -> turn[t].pend.q = turn[t].expects
      [] turn[t].pc \in {"need", "search", "searched", "answer"} -> turn[t].query = turn[t].expects
      [] OTHER                              -> FALSE

Expected ==
    \A t \in Runners : \A a \in asked :
        /\ Busy(t) /\ turn[t].kind = "yes" /\ turn[t].alone
        /\ turn[t].expects = a.q
        /\ turn[t].arrived - a.at <= TTL
        => Expects(t)

ApprovalInv == AskedBefore /\ Standing /\ AloneOn /\ Expected

-----------------------------------------------------------------------------
(***************************************************************************)
(* Types.                                                                  *)
(***************************************************************************)
LEMMA BusyTurn ==
    ASSUME PolicyTypes, NEW t \in Runners, Busy(t)
    PROVE  turn[t] \in ChatTurn
BY DEF PolicyTypes, Busy, NoTurn

LEMMA ProceedTypes ==
    ASSUME PolicyTypes, NEW t \in Runners, Busy(t), NEW label \in Labels, Proceed(t, label)
    PROVE  turn' \in [Runners -> ChatTurn \cup {NoTurn}]
<1>1. turn[t] \in ChatTurn
    BY BusyTurn
<1>2. [turn[t] EXCEPT !.pc = label] \in ChatTurn
    BY <1>1 DEF ChatTurn
<1>3. QED
    BY <1>2 DEF PolicyTypes, Proceed

LEMMA PolicyTypesInit == PolicyInit => PolicyTypes
BY PolicyAssumption DEF PolicyInit, PolicyTypes, Question, Modes, None

LEMMA PolicyTypesStep ==
    PolicyTypes /\ [PolicyNext]_policyVars => PolicyTypes'
<1> SUFFICES ASSUME PolicyTypes, [PolicyNext]_policyVars PROVE PolicyTypes'
    OBVIOUS
<1> USE PolicyAssumption
<1>1. ASSUME NEW t \in Runners, TurnArrives(t) PROVE PolicyTypes'
    <2> PICK c \in Conversations, u \in Users \cup {NoUser}, k \in Kinds, legacy \in Legacy :
                /\ turn' = Joined(t, NewTurn(c, u, k, legacy))
                /\ standing' = [standing EXCEPT ![c].q = 0]
        BY <1>1 DEF TurnArrives
    <2>1. standing' \in [Conversations -> [q : Nat, alone : BOOLEAN]]
        BY DEF PolicyTypes
    <2>2. NewTurn(c, u, k, legacy) \in ChatTurn
        BY DEF PolicyTypes, ChatTurn, NewTurn, Question, None, Labels, Modes, Commands
    <2>3. ASSUME NEW r \in Runners, On(r, c) PROVE [turn[r] EXCEPT !.alone = FALSE] \in ChatTurn
        <3>1. turn[r] \in ChatTurn
            BY <2>3, BusyTurn DEF On, Busy
        <3>2. QED
            BY <3>1 DEF ChatTurn
    <2>4. turn' \in [Runners -> ChatTurn \cup {NoTurn}]
        <3>1. \A r \in Runners : Joined(t, NewTurn(c, u, k, legacy))[r] \in ChatTurn \cup {NoTurn}
            BY <2>2, <2>3 DEF Joined, PolicyTypes, NewTurn
        <3>2. QED
            BY <3>1 DEF Joined
    <2>5. QED
        BY <1>1, <2>1, <2>4 DEF PolicyTypes, TurnArrives
<1>2. ASSUME NEW t \in Runners, ReadMode(t) PROVE PolicyTypes'
    BY <1>2 DEF PolicyTypes, ChatTurn, Question, NoTurn, ReadMode, Modes, Key, Labels
<1>3. ASSUME NEW t \in Runners, ReadPending(t) PROVE PolicyTypes'
    BY <1>3 DEF PolicyTypes, ChatTurn, Question, NoTurn, ReadPending, Labels, Lapsed
<1>4. ASSUME NEW t \in Runners, Lapse(t) PROVE PolicyTypes'
    <2>1. Busy(t)
        BY <1>4 DEF Lapse, Busy
    <2>2. turn' \in [Runners -> ChatTurn \cup {NoTurn}]
        BY <1>4, <2>1, ProceedTypes DEF Lapse, Labels
    <2>3. turn[t].c \in Conversations
        BY <2>1, BusyTurn DEF ChatTurn
    <2>4. QED
        BY <1>4, <2>2, <2>3 DEF PolicyTypes, Question, None, Lapse, Pop
<1>5. ASSUME NEW t \in Runners, Decide(t) PROVE PolicyTypes'
    <2>1. turn[t] \in ChatTurn
        BY <1>5, BusyTurn DEF Decide, Busy
    <2> DEFINE command == Command(turn[t].kind, turn[t].pend.q # 0)
               query == IF command = "approve" THEN turn[t].pend.q ELSE 0
               label == CASE command \in {"allow", "deny", "ask"} -> "prefer"
                          [] command = "reject" \/ (command = "none" /\ turn[t].pend.q # 0) -> "drop"
                          [] OTHER -> "need"
    <2>2. command \in Commands
        BY DEF Command, Commands
    <2>3. query \in Nat
        BY <2>1 DEF ChatTurn, Question
    <2>4. label \in Labels
        BY DEF Labels
    <2>5. turn' = [turn EXCEPT ![t].command = command, ![t].query = query, ![t].pc = label]
        BY <1>5 DEF Decide
    <2> HIDE DEF command, query, label
    <2>6. turn' \in [Runners -> ChatTurn \cup {NoTurn}]
        BY <2>1, <2>2, <2>3, <2>4, <2>5 DEF PolicyTypes, ChatTurn
    <2>7. QED
        BY <1>5, <2>6 DEF PolicyTypes, Decide
<1>6. ASSUME NEW t \in Runners, Prefer(t) PROVE PolicyTypes'
    BY <1>6 DEF PolicyTypes, ChatTurn, Question, NoTurn, Prefer, Labels, Modes, ModeOf, Key
<1>7. ASSUME NEW t \in Runners, Drop(t) PROVE PolicyTypes'
    BY <1>7 DEF PolicyTypes, ChatTurn, Question, NoTurn, Drop, Labels, None, Pop
<1>8. ASSUME NEW t \in Runners, AskFirst(t) PROVE PolicyTypes'
    BY <1>8 DEF PolicyTypes, ChatTurn, Question, NoTurn, AskFirst, Labels
<1>9. ASSUME NEW t \in Runners, GoOnline(t) PROVE PolicyTypes'
    <2>1. Busy(t) /\ turn[t] \in ChatTurn
        BY <1>9, BusyTurn DEF GoOnline, Busy
    <2>2. CASE Proceed(t, "search")
        BY <1>9, <2>1, <2>2, ProceedTypes DEF GoOnline, Labels, PolicyTypes
    <2>3. CASE turn' = [turn EXCEPT ![t].query = turn[t].n, ![t].pc = "search"]
        BY <1>9, <2>1, <2>3 DEF GoOnline, Labels, PolicyTypes, ChatTurn
    <2>4. QED
        BY <1>9, <2>2, <2>3 DEF GoOnline
<1>10. ASSUME NEW t \in Runners, StayLocal(t) PROVE PolicyTypes'
    <2>1. Busy(t)
        BY <1>10 DEF StayLocal, Busy
    <2>2. turn' \in [Runners -> ChatTurn \cup {NoTurn}]
        BY <1>10, <2>1, ProceedTypes DEF StayLocal, Labels
    <2>3. turn[t].c \in Conversations
        BY <2>1, BusyTurn DEF ChatTurn
    <2>4. QED
        BY <1>10, <2>2, <2>3 DEF PolicyTypes, Question, None, StayLocal, Pop
<1>11. ASSUME NEW t \in Runners, Search(t) PROVE PolicyTypes'
    <2>1. Busy(t)
        BY <1>11 DEF Search, Busy
    <2>2. turn' \in [Runners -> ChatTurn \cup {NoTurn}]
        BY <1>11, <2>1, ProceedTypes DEF Search, Labels
    <2>3. turn[t].c \in Conversations
        BY <2>1, BusyTurn DEF ChatTurn
    <2>4. QED
        BY <1>11, <2>2, <2>3 DEF PolicyTypes, Question, None, Search, Pop
<1>12. ASSUME NEW t \in Runners, Searched(t) PROVE PolicyTypes'
    BY <1>12 DEF PolicyTypes, ChatTurn, Question, NoTurn, Searched, Labels, None, Pop
<1>13. ASSUME NEW t \in Runners, Answer(t) PROVE PolicyTypes'
    <2>1. turn[t] \in ChatTurn
        BY <1>13, BusyTurn DEF Answer, Busy
    <2>2. turn' \in [Runners -> ChatTurn \cup {NoTurn}]
        BY <1>13 DEF PolicyTypes, Answer
    <2>3. standing' \in [Conversations -> [q : Nat, alone : BOOLEAN]]
        <3>1. [q |-> turn[t].n, alone |-> turn[t].alone] \in [q : Nat, alone : BOOLEAN]
            BY <2>1 DEF ChatTurn
        <3>2. QED
            BY <1>13, <3>1 DEF PolicyTypes, Answer
    <2>4. over' \subseteq Nat
        <3>1. turn[t].dropped \subseteq Nat
            BY <2>1 DEF ChatTurn
        <3>2. QED
            BY <1>13, <3>1 DEF PolicyTypes, Answer
    <2>5. QED
        BY <1>13, <2>2, <2>3, <2>4 DEF PolicyTypes, Answer
<1>14. ASSUME SetMode PROVE PolicyTypes'
    BY <1>14 DEF PolicyTypes, SetMode
<1>15. ASSUME Reset PROVE PolicyTypes'
    <2> PICK c \in Conversations :
            /\ over' = over \cup {pending[c].q}
            /\ pending' = [pending EXCEPT ![c] = None]
            /\ turn' = Clears(c)
            /\ standing' = [standing EXCEPT ![c].q = 0]
            /\ UNCHANGED <<prefs, moment, started, asked>>
        BY <1>15 DEF Reset
    <2>1. ASSUME NEW r \in Runners, On(r, c) PROVE [turn[r] EXCEPT !.asks = FALSE, !.expects = 0] \in ChatTurn
        <3>1. turn[r] \in ChatTurn
            BY <2>1, BusyTurn DEF On, Busy
        <3>2. QED
            BY <3>1 DEF ChatTurn
    <2>2. turn' \in [Runners -> ChatTurn \cup {NoTurn}]
        <3>1. \A r \in Runners : Clears(c)[r] \in ChatTurn \cup {NoTurn}
            BY <2>1 DEF Clears, PolicyTypes
        <3>2. QED
            BY <3>1 DEF Clears
    <2>3. QED
        BY <2>2 DEF PolicyTypes, Question, None
<1>16. ASSUME ClockTicks PROVE PolicyTypes'
    BY <1>16 DEF PolicyTypes, ClockTicks
<1>17. CASE UNCHANGED policyVars
    BY <1>17 DEF policyVars, PolicyTypes
<1>18. QED
    BY <1>1, <1>2, <1>3, <1>4, <1>5, <1>6, <1>7, <1>8, <1>9, <1>10, <1>11,
       <1>12, <1>13, <1>14, <1>15, <1>16, <1>17
    DEF PolicyNext, TurnStep

-----------------------------------------------------------------------------
(***************************************************************************)
(* The steps.  What a step does to a turn is stated field by field first;  *)
(* each conjunct then follows from that.                                   *)
(***************************************************************************)
\* What a turn keeps from its arrival to its answer.
Carried(old, new) ==
    /\ new.n = old.n /\ new.c = old.c /\ new.kind = old.kind /\ new.arrived = old.arrived
    /\ new.over = old.over /\ new.alone = old.alone /\ new.expects = old.expects

\* Thread t takes a step of its turn and no other thread does.
Advances(t) ==
    /\ Busy(t) /\ Busy(t)'
    /\ Carried(turn[t], turn'[t])
    /\ \A r \in Runners \ {t} : turn'[r] = turn[r]
    /\ \A r \in Runners : Busy(r) => turn[r].c \in Conversations

Popped(t) == \A c \in Conversations : pending'[c] = IF c = turn[t].c THEN None ELSE pending[c]

LEMMA RecordAsked ==
    ASSUME NEW q, NEW c, NEW at, [q |-> q, c |-> c, at |-> at] \in asked
    PROVE  WasAsked(q, c) /\ \E a \in asked : a.q = q
<1> DEFINE a == [q |-> q, c |-> c, at |-> at]
<1>1. a.q = q /\ a.c = c
    OBVIOUS
<1>2. QED
    BY <1>1 DEF WasAsked

\* A question that was asked in one conversation is pending in no other.
LEMMA AskedIsThere ==
    ASSUME PendingAsked, AskedOnce, NEW q, NEW c, NEW d \in Conversations,
           WasAsked(q, c), q # 0, pending[d].q = q
    PROVE  d = c
<1>1. [q |-> q, c |-> d, at |-> pending[d].at] \in asked
    BY DEF PendingAsked
<1>2. PICK a \in asked : a.q = q /\ a.c = c
    BY DEF WasAsked
<1>3. a = [q |-> q, c |-> d, at |-> pending[d].at]
    BY <1>1, <1>2 DEF AskedOnce
<1>4. QED
    BY <1>2, <1>3

\* Popping a conversation's question gives up what was asked there.
LEMMA PopGivesUp ==
    ASSUME GivenUp, PendingAsked, AskedOnce, NEW t \in Runners, Advances(t), Popped(t), asked' = asked,
           turn'[t].pc # "expire",
           NEW lost, turn'[t].dropped = turn[t].dropped \cup lost,
           turn[t].pc # "expire" \/ lost = {},
           \A q \in lost \ {0} : WasAsked(q, turn[t].c) \/ (q = turn[t].n /\ turn'[t].pc = "answer"),
           \A q \in lost \ {0} : \A d \in Conversations \ {turn[t].c} : pending[d].q # q,
           turn[t].pc = "answer" => turn'[t].pc = "answer"
    PROVE  GivenUp'
<1> SUFFICES ASSUME NEW r \in Runners, Busy(r)', NEW d \in turn'[r].dropped \ {0}
             PROVE  /\ (d = turn'[r].n /\ turn'[r].pc = "answer") \/ \E a \in asked : a.q = d
                    /\ turn'[r].pc # "expire" => \A c \in Conversations : pending'[c].q # d
                    /\ turn'[r].pc = "expire" => WasAsked(d, turn'[r].c)
    BY DEF GivenUp, WasAsked
<1>1. CASE r # t
    <2>1. turn'[r] = turn[r] /\ Busy(r)
        BY <1>1 DEF Advances, Busy
    <2>2. QED
        BY <2>1 DEF GivenUp, Popped, None
<1>2. CASE r = t /\ d \in lost
    BY <1>2 DEF Advances, Carried, Popped, None, WasAsked
<1>3. CASE r = t /\ d \in turn[t].dropped
    <2>1. (d = turn[t].n /\ turn[t].pc = "answer") \/ \E a \in asked : a.q = d
        BY <1>3 DEF GivenUp, Advances
    <2>2. ASSUME NEW c \in Conversations PROVE pending'[c].q # d
        <3>1. CASE c = turn[t].c
            BY <3>1 DEF Popped, None
        <3>2. CASE c # turn[t].c /\ turn[t].pc # "expire"
            BY <1>3, <3>2 DEF GivenUp, Popped, Advances
        <3>3. CASE c # turn[t].c /\ turn[t].pc = "expire"
            <4>1. WasAsked(d, turn[t].c)
                BY <1>3, <3>3 DEF GivenUp, Advances
            <4>2. pending[c].q # d
                BY <3>3, <4>1, AskedIsThere
            <4>3. QED
                BY <3>3, <4>2 DEF Popped
        <3>4. QED
            BY <3>1, <3>2, <3>3
    <2>3. QED
        BY <1>3, <2>1, <2>2 DEF Advances, Carried
<1>4. QED
    BY <1>1, <1>2, <1>3

LEMMA TurnSteps ==
    ASSUME PolicyInv, ApprovalInv, NEW t \in Runners, TurnStep(t), ~TurnArrives(t), ~Answer(t)
    PROVE  PolicyInv' /\ ApprovalInv'
<1> USE PolicyAssumption DEF PolicyInv, ApprovalInv
<1>1. PolicyTypes'
    BY PolicyTypesStep DEF PolicyNext
<1>2. CASE ReadMode(t)
    <2>1. turn[t] \in ChatTurn /\ \A r \in Runners : Busy(r) => turn[r].c \in Conversations
        BY <1>2, BusyTurn DEF Busy, ReadMode, ChatTurn
    <2>2. Advances(t)
        BY <1>2, <2>1 DEF Advances, Busy, Carried, PolicyTypes, ChatTurn, ReadMode, Proceed
    <2>3. /\ UNCHANGED <<pending,started,searches,asked,over,standing>>
          /\ turn[t].pc = "mode"
          /\ turn'[t].pc = "pending"
          /\ turn'[t].pend = turn[t].pend /\ turn'[t].command = turn[t].command /\ turn'[t].query = turn[t].query
          /\ turn'[t].dropped = turn[t].dropped /\ turn'[t].asks = turn[t].asks
        BY <1>2, <2>1 DEF PolicyTypes, ChatTurn, ReadMode,  Key, Modes
    <2> USE <2>2, <2>3 DEF Advances, Carried, Busy
    <2>4. OwnNumbers'
        BY DEF OwnNumbers
    <2>5. AskedOnce'
        BY DEF AskedOnce
    <2>6. PendingAsked'
        BY DEF PendingAsked
    <2>7. TakenUp'
        BY DEF TakenUp
    <2>8. GivenUp'
        BY DEF GivenUp, WasAsked
    <2>9. Searching'
        BY DEF Searching
    <2>10. OnlyWithPermission'
        BY DEF OnlyWithPermission
    <2>11. SearchedAtMostOnce'
        BY DEF SearchedAtMostOnce
    <2>12. AskedBefore'
        BY DEF AskedBefore
    <2>13. Standing'
        BY DEF Standing, On
    <2>14. AloneOn'
        BY DEF AloneOn, On
    <2>15. Expected'
        BY DEF Expected, On, Expects
    <2>16. QED
        BY <1>1, <2>4, <2>5, <2>6, <2>7, <2>8, <2>9, <2>10, <2>11, <2>12, <2>13, <2>14, <2>15
<1>3. CASE ReadPending(t)
    <2>1. turn[t] \in ChatTurn /\ \A r \in Runners : Busy(r) => turn[r].c \in Conversations
        BY <1>3, BusyTurn DEF Busy, ReadPending, ChatTurn
    <2>2. Advances(t)
        BY <1>3, <2>1 DEF Advances, Busy, Carried, PolicyTypes, ChatTurn, ReadPending, Proceed
    <2>3. /\ UNCHANGED <<pending,started,searches,asked,over,standing>>
          /\ turn[t].pc = "pending"
          /\ turn'[t].command = turn[t].command /\ turn'[t].query = turn[t].query /\ turn'[t].asks = turn[t].asks
          /\ pending[turn[t].c] \in Question
          /\ turn[t].arrived \in Nat
          /\ \/ Lapsed(pending[turn[t].c], turn[t].arrived) /\ turn'[t].pc = "expire"
                   /\ turn'[t].dropped = {pending[turn[t].c].q} /\ turn'[t].pend = turn[t].pend
             \/ ~Lapsed(pending[turn[t].c], turn[t].arrived) /\ turn'[t].pc = "decide"
                   /\ turn'[t].pend = pending[turn[t].c] /\ turn'[t].dropped = turn[t].dropped
        BY <1>3, <2>1 DEF PolicyTypes, ChatTurn, ReadPending, Lapsed
    <2> USE <2>2, <2>3 DEF Advances, Carried, Busy
    <2>4. OwnNumbers'
        BY DEF OwnNumbers
    <2>5. AskedOnce'
        BY DEF AskedOnce
    <2>6. PendingAsked'
        BY DEF PendingAsked
    <2>7. TakenUp'
        BY DEF TakenUp, PendingAsked, Lapsed, Question, Searching
    <2>8. GivenUp'
        <3>1. pending[turn[t].c].q # 0 =>
                  WasAsked(pending[turn[t].c].q, turn[t].c) /\ \E a \in asked : a.q = pending[turn[t].c].q
            BY RecordAsked DEF PendingAsked
        <3>2. QED
            BY <3>1 DEF GivenUp, WasAsked
    <2>9. Searching'
        BY DEF Searching, Lapsed
    <2>10. OnlyWithPermission'
        BY DEF OnlyWithPermission
    <2>11. SearchedAtMostOnce'
        BY DEF SearchedAtMostOnce
    <2>12. AskedBefore'
        BY DEF AskedBefore
    <2>13. Standing'
        BY DEF Standing, On
    <2>14. AloneOn'
        BY DEF AloneOn, On
    <2>15. Expected'
        <3> SUFFICES ASSUME NEW r \in Runners, NEW a \in asked,
                            Busy(r)', turn'[r].kind = "yes", turn'[r].alone, turn'[r].expects = a.q,
                            turn'[r].arrived - a.at <= TTL
                     PROVE  Expects(r)'
            BY DEF Expected
        <3>1. CASE r # t
            BY <3>1 DEF Expected, Expects
        <3>2. CASE r = t
            <4> DEFINE p == pending[turn[t].c]
            <4>1. p.q = a.q
                BY <3>2 DEF Expected, Expects
            <4>2. [q |-> p.q, c |-> turn[t].c, at |-> p.at] \in asked
                BY <4>1 DEF PendingAsked, OwnNumbers
            <4>3. p.at = a.at
                BY <4>1, <4>2 DEF AskedOnce
            <4>4. ~Lapsed(p, turn[t].arrived)
                BY <3>2, <4>3 DEF Lapsed, Question
            <4>5. QED
                BY <3>2, <4>1, <4>4 DEF Expects
        <3>3. QED
            BY <3>1, <3>2
    <2>16. QED
        BY <1>1, <2>4, <2>5, <2>6, <2>7, <2>8, <2>9, <2>10, <2>11, <2>12, <2>13, <2>14, <2>15
<1>4. CASE Lapse(t)
    <2>1. turn[t] \in ChatTurn /\ \A r \in Runners : Busy(r) => turn[r].c \in Conversations
        BY <1>4, BusyTurn DEF Busy, Lapse, ChatTurn
    <2>2. Advances(t)
        BY <1>4, <2>1 DEF Advances, Busy, Carried, PolicyTypes, ChatTurn, Lapse, Proceed
    <2>3. /\ UNCHANGED <<started,searches,asked,over,standing>>
          /\ Popped(t)
          /\ turn[t].pc = "expire"
          /\ turn'[t].pc = "decide"
          /\ turn'[t].pend = turn[t].pend /\ turn'[t].command = turn[t].command /\ turn'[t].query = turn[t].query
          /\ turn'[t].dropped = turn[t].dropped /\ turn'[t].asks = turn[t].asks
        BY <1>4, <2>1 DEF PolicyTypes, ChatTurn, Lapse, Pop, Proceed, Popped
    <2> USE <2>2, <2>3 DEF Advances, Carried, Busy
    <2>4. OwnNumbers'
        BY DEF OwnNumbers
    <2>5. AskedOnce'
        BY DEF AskedOnce
    <2>6. PendingAsked'
        BY DEF PendingAsked, Popped, None
    <2>7. TakenUp'
        BY DEF TakenUp
    <2>8. GivenUp'
        <3>1. turn'[t].dropped = turn[t].dropped \cup {}
            OBVIOUS
        <3>2. QED
            BY <3>1, PopGivesUp, ZenonT(40)
    <2>9. Searching'
        BY DEF Searching
    <2>10. OnlyWithPermission'
        BY DEF OnlyWithPermission
    <2>11. SearchedAtMostOnce'
        BY DEF SearchedAtMostOnce, Popped, None
    <2>12. AskedBefore'
        BY DEF AskedBefore
    <2>13. Standing'
        BY DEF Standing, Popped, None, On, AloneOn
    <2>14. AloneOn'
        BY DEF AloneOn, Popped, None, On
    <2>15. Expected'
        BY DEF Expected, Popped, None, On, Expects, AloneOn
    <2>16. QED
        BY <1>1, <2>4, <2>5, <2>6, <2>7, <2>8, <2>9, <2>10, <2>11, <2>12, <2>13, <2>14, <2>15
<1>5. CASE Decide(t)
    <2>1. turn[t] \in ChatTurn /\ \A r \in Runners : Busy(r) => turn[r].c \in Conversations
        BY <1>5, BusyTurn DEF Busy, Decide, ChatTurn
    <2>2. Advances(t)
        BY <1>5, <2>1 DEF Advances, Busy, Carried, PolicyTypes, ChatTurn, Decide, Proceed
    <2>3. /\ UNCHANGED <<pending,started,searches,asked,over,standing>>
          /\ turn[t].pc = "decide"
          /\ turn'[t].pend = turn[t].pend /\ turn'[t].dropped = turn[t].dropped /\ turn'[t].asks = turn[t].asks
          /\ turn'[t].command = Command(turn[t].kind, turn[t].pend.q # 0)
          /\ turn'[t].query = (IF turn'[t].command = "approve" THEN turn[t].pend.q ELSE 0)
          /\ turn'[t].pc = (CASE turn'[t].command \in {"allow", "deny", "ask"} -> "prefer"
                                 [] turn'[t].command = "reject" \/ (turn'[t].command = "none" /\ turn[t].pend.q # 0) -> "drop"
                                 [] OTHER -> "need")
        BY <1>5, <2>1 DEF PolicyTypes, ChatTurn, Decide
    <2> USE <2>2, <2>3 DEF Advances, Carried, Busy
    <2>4. OwnNumbers'
        BY DEF OwnNumbers
    <2>5. AskedOnce'
        BY DEF AskedOnce
    <2>6. PendingAsked'
        BY DEF PendingAsked
    <2>7. TakenUp'
        BY DEF TakenUp
    <2>8. GivenUp'
        BY DEF GivenUp, WasAsked
    <2>9. Searching'
        BY DEF Searching, Command
    <2>10. OnlyWithPermission'
        BY DEF OnlyWithPermission
    <2>11. SearchedAtMostOnce'
        BY DEF SearchedAtMostOnce
    <2>12. AskedBefore'
        BY DEF AskedBefore
    <2>13. Standing'
        BY DEF Standing, On
    <2>14. AloneOn'
        BY DEF AloneOn, On
    <2>15. Expected'
        BY DEF Expected, On, Expects, Command, OwnNumbers
    <2>16. QED
        BY <1>1, <2>4, <2>5, <2>6, <2>7, <2>8, <2>9, <2>10, <2>11, <2>12, <2>13, <2>14, <2>15
<1>6. CASE Prefer(t)
    <2>1. turn[t] \in ChatTurn /\ \A r \in Runners : Busy(r) => turn[r].c \in Conversations
        BY <1>6, BusyTurn DEF Busy, Prefer, ChatTurn
    <2>2. Advances(t)
        BY <1>6, <2>1 DEF Advances, Busy, Carried, PolicyTypes, ChatTurn, Prefer, Proceed
    <2>3. /\ UNCHANGED <<pending,started,searches,asked,over,standing>>
          /\ turn[t].pc = "prefer"
          /\ turn'[t].pend = turn[t].pend /\ turn'[t].command = turn[t].command
          /\ turn'[t].dropped = turn[t].dropped /\ turn'[t].asks = turn[t].asks
          /\ \/ turn'[t].mode = "ALLOW" /\ turn'[t].query = turn[t].pend.q /\ turn'[t].pc = "need"
             \/ turn'[t].query = 0 /\ turn'[t].pc = "drop"
        BY <1>6, <2>1 DEF PolicyTypes, ChatTurn, Prefer
    <2> USE <2>2, <2>3 DEF Advances, Carried, Busy
    <2>4. OwnNumbers'
        BY DEF OwnNumbers
    <2>5. AskedOnce'
        BY DEF AskedOnce
    <2>6. PendingAsked'
        BY DEF PendingAsked
    <2>7. TakenUp'
        BY DEF TakenUp
    <2>8. GivenUp'
        BY DEF GivenUp, WasAsked
    <2>9. Searching'
        BY DEF Searching
    <2>10. OnlyWithPermission'
        BY DEF OnlyWithPermission
    <2>11. SearchedAtMostOnce'
        BY DEF SearchedAtMostOnce
    <2>12. AskedBefore'
        BY DEF AskedBefore
    <2>13. Standing'
        BY DEF Standing, On
    <2>14. AloneOn'
        BY DEF AloneOn, On
    <2>15. Expected'
        BY DEF Expected, On, Expects
    <2>16. QED
        BY <1>1, <2>4, <2>5, <2>6, <2>7, <2>8, <2>9, <2>10, <2>11, <2>12, <2>13, <2>14, <2>15
<1>7. CASE Drop(t)
    <2>1. turn[t] \in ChatTurn /\ \A r \in Runners : Busy(r) => turn[r].c \in Conversations
        BY <1>7, BusyTurn DEF Busy, Drop, ChatTurn
    <2>2. Advances(t)
        BY <1>7, <2>1 DEF Advances, Busy, Carried, PolicyTypes, ChatTurn, Drop, Proceed
    <2>3. /\ UNCHANGED <<started,searches,asked,over,standing>>
          /\ Popped(t)
          /\ turn[t].pc = "drop"
          /\ turn'[t].pc = "need"
          /\ turn'[t].dropped = turn[t].dropped \cup {turn[t].pend.q, pending[turn[t].c].q}
          /\ turn'[t].pend = turn[t].pend /\ turn'[t].command = turn[t].command
          /\ turn'[t].query = turn[t].query /\ turn'[t].asks = turn[t].asks
        BY <1>7, <2>1 DEF PolicyTypes, ChatTurn, Drop, Pop, Popped
    <2> USE <2>2, <2>3 DEF Advances, Carried, Busy
    <2>4. OwnNumbers'
        BY DEF OwnNumbers
    <2>5. AskedOnce'
        BY DEF AskedOnce
    <2>6. PendingAsked'
        BY DEF PendingAsked, Popped, None
    <2>7. TakenUp'
        BY DEF TakenUp
    <2>8. GivenUp'
        <3>1. \A q \in {turn[t].pend.q, pending[turn[t].c].q} \ {0} : WasAsked(q, turn[t].c)
            <4>1. turn[t].pend.q # 0 => WasAsked(turn[t].pend.q, turn[t].c)
                BY RecordAsked DEF TakenUp
            <4>2. pending[turn[t].c].q # 0 => WasAsked(pending[turn[t].c].q, turn[t].c)
                BY RecordAsked DEF PendingAsked
            <4>3. QED
                BY <4>1, <4>2
        <3>2. \A q \in {turn[t].pend.q, pending[turn[t].c].q} \ {0} :
                  \A d \in Conversations \ {turn[t].c} : pending[d].q # q
            BY <3>1, AskedIsThere
        <3>3. QED
            BY <3>1, <3>2, PopGivesUp, ZenonT(40)
    <2>9. Searching'
        BY DEF Searching
    <2>10. OnlyWithPermission'
        BY DEF OnlyWithPermission
    <2>11. SearchedAtMostOnce'
        BY DEF SearchedAtMostOnce, Popped, None
    <2>12. AskedBefore'
        BY DEF AskedBefore
    <2>13. Standing'
        BY DEF Standing, Popped, None, On, AloneOn
    <2>14. AloneOn'
        BY DEF AloneOn, Popped, None, On
    <2>15. Expected'
        BY DEF Expected, Popped, None, On, Expects, AloneOn
    <2>16. QED
        BY <1>1, <2>4, <2>5, <2>6, <2>7, <2>8, <2>9, <2>10, <2>11, <2>12, <2>13, <2>14, <2>15
<1>8. CASE AskFirst(t)
    <2>1. turn[t] \in ChatTurn /\ \A r \in Runners : Busy(r) => turn[r].c \in Conversations
        BY <1>8, BusyTurn DEF Busy, AskFirst, ChatTurn
    <2>2. Advances(t)
        BY <1>8, <2>1 DEF Advances, Busy, Carried, PolicyTypes, ChatTurn, AskFirst, Proceed
    <2>3. /\ UNCHANGED <<started,searches,over,standing>>
          /\ \A c \in Conversations : pending'[c] = IF c = turn[t].c THEN [q |-> turn[t].n, at |-> turn[t].arrived]
                                                    ELSE pending[c]
          /\ asked' = asked \cup {[q |-> turn[t].n, c |-> turn[t].c, at |-> turn[t].arrived]}
          /\ turn[t].pc = "need"
          /\ turn'[t].pc = "answer"
          /\ turn[t].query = 0
          /\ turn'[t].dropped = turn[t].dropped \cup {pending[turn[t].c].q}
          /\ turn'[t].pend = turn[t].pend /\ turn'[t].command = turn[t].command /\ turn'[t].query = turn[t].query
          /\ turn'[t].asks = TRUE
        BY <1>8, <2>1 DEF PolicyTypes, ChatTurn, AskFirst, NeedsWeb
    <2> USE <2>2, <2>3 DEF Advances, Carried, Busy
    <2>4. OwnNumbers'
        BY DEF OwnNumbers, PendingAsked
    <2>5. AskedOnce'
        BY DEF AskedOnce, OwnNumbers
    <2>6. PendingAsked'
        BY DEF PendingAsked, AskedOnce
    <2>7. TakenUp'
        BY DEF TakenUp
    <2>8. GivenUp'
        <3> SUFFICES ASSUME NEW r \in Runners, Busy(r)', NEW d \in turn'[r].dropped \ {0}
                     PROVE  /\ (d = turn'[r].n /\ turn'[r].pc = "answer") \/ \E a \in asked' : a.q = d
                            /\ turn'[r].pc # "expire" => \A c \in Conversations : pending'[c].q # d
                            /\ turn'[r].pc = "expire" => \E a \in asked' : a.q = d /\ a.c = turn'[r].c
            BY DEF GivenUp, WasAsked
        <3>1. turn[t].n # pending[turn[t].c].q \/ pending[turn[t].c].q = 0
            <4>1. pending[turn[t].c].q # 0 => \E a \in asked : a.q = pending[turn[t].c].q
                BY RecordAsked DEF PendingAsked
            <4>2. QED
                BY <4>1 DEF AskedOnce
        <3>2. CASE r # t
            <4>1. turn'[r] = turn[r] /\ Busy(r) /\ turn[r].n # turn[t].n
                BY <3>2 DEF OwnNumbers
            <4>2. (d = turn[r].n /\ turn[r].pc = "answer") \/ \E a \in asked : a.q = d
                BY <4>1 DEF GivenUp
            <4>3. d # turn[t].n
                BY <4>1, <4>2 DEF AskedOnce
            <4>4. QED
                BY <4>1, <4>2, <4>3 DEF GivenUp, WasAsked
        <3>3. CASE r = t /\ d \in turn[t].dropped
            <4>1. \E a \in asked : a.q = d
                BY <3>3 DEF GivenUp
            <4>2. d # turn[t].n
                BY <4>1 DEF AskedOnce
            <4>3. QED
                BY <3>3, <4>1, <4>2 DEF GivenUp
        <3>4. CASE r = t /\ d = pending[turn[t].c].q
            <4>1. [q |-> d, c |-> turn[t].c, at |-> pending[turn[t].c].at] \in asked
                BY <3>4 DEF PendingAsked
            <4>2. \A c \in Conversations \ {turn[t].c} : pending[c].q # d
                BY <4>1, AskedIsThere DEF WasAsked
            <4>3. QED
                BY <3>1, <3>4, <4>1, <4>2
        <3>5. QED
            BY <3>2, <3>3, <3>4
    <2>9. Searching'
        BY DEF Searching
    <2>10. OnlyWithPermission'
        BY DEF OnlyWithPermission, AskedOnce
    <2>11. SearchedAtMostOnce'
        BY DEF SearchedAtMostOnce
    <2>12. AskedBefore'
        <3> DEFINE new == [q |-> turn[t].n, c |-> turn[t].c, at |-> turn[t].arrived]
        <3>1. new \in asked' /\ new.q = turn[t].n
            OBVIOUS
        <3>2. \E a \in asked' : a.q = turn[t].n
            BY <3>1
        <3>3. QED
            BY <3>2 DEF AskedBefore
    <2>13. Standing'
        BY DEF Standing, On, AloneOn
    <2>14. AloneOn'
        BY DEF AloneOn, On
    <2>15. Expected'
        BY DEF Expected, On, Expects, OwnNumbers, AskedOnce, AloneOn, Searching, AskedBefore
    <2>16. QED
        BY <1>1, <2>4, <2>5, <2>6, <2>7, <2>8, <2>9, <2>10, <2>11, <2>12, <2>13, <2>14, <2>15
<1>9. CASE GoOnline(t)
    <2>1. turn[t] \in ChatTurn /\ \A r \in Runners : Busy(r) => turn[r].c \in Conversations
        BY <1>9, BusyTurn DEF Busy, GoOnline, ChatTurn
    <2>2. Advances(t)
        <3>1. CASE Proceed(t, "search")
            BY <1>9, <2>1, <3>1 DEF Advances, Busy, Carried, PolicyTypes, ChatTurn, GoOnline, Proceed
        <3>2. CASE turn' = [turn EXCEPT ![t].query = turn[t].n, ![t].pc = "search"]
            BY <1>9, <2>1, <3>2 DEF Advances, Busy, Carried, PolicyTypes, ChatTurn, GoOnline
        <3>3. QED
            BY <1>9, <3>1, <3>2 DEF GoOnline
    <2>3. /\ UNCHANGED <<pending,started,searches,asked,over,standing>>
          /\ turn[t].pc = "need"
          /\ turn'[t].pc = "search"
          /\ turn'[t].pend = turn[t].pend /\ turn'[t].command = turn[t].command /\ turn'[t].mode = turn[t].mode
          /\ turn'[t].dropped = turn[t].dropped /\ turn'[t].asks = turn[t].asks
          /\ \/ turn[t].query # 0 /\ turn'[t].query = turn[t].query
             \/ turn[t].query = 0 /\ turn[t].mode = "ALLOW" /\ turn'[t].query = turn[t].n
        <3>0. UNCHANGED <<pending,started,searches,asked,over,standing>> /\ turn[t].pc = "need"
            BY <1>9 DEF GoOnline
        <3>1. CASE turn[t].query # 0 /\ Proceed(t, "search")
            BY <3>0, <2>1, <3>1 DEF PolicyTypes, ChatTurn, Proceed
        <3>2. CASE NeedsWeb(t, TRUE) /\ ~MayAsk(turn[t].mode) /\ turn[t].mode # "DENY"
              /\ turn' = [turn EXCEPT ![t].query = turn[t].n, ![t].pc = "search"]
            <4>1. turn[t].mode = "ALLOW"
                BY <2>1, <3>2 DEF ChatTurn, Modes, MayAsk
            <4>2. QED
                BY <1>9, <2>1, <3>2, <4>1 DEF PolicyTypes, ChatTurn, GoOnline, NeedsWeb
        <3>3. QED
            BY <1>9, <3>1, <3>2 DEF GoOnline
    <2> USE <2>2, <2>3 DEF Advances, Carried, Busy
    <2>4. OwnNumbers'
        BY DEF OwnNumbers
    <2>5. AskedOnce'
        BY DEF AskedOnce
    <2>6. PendingAsked'
        BY DEF PendingAsked
    <2>7. TakenUp'
        BY DEF TakenUp
    <2>8. GivenUp'
        BY DEF GivenUp, WasAsked
    <2>9. Searching'
        BY DEF Searching, OwnNumbers
    <2>10. OnlyWithPermission'
        BY DEF OnlyWithPermission
    <2>11. SearchedAtMostOnce'
        BY DEF SearchedAtMostOnce
    <2>12. AskedBefore'
        BY DEF AskedBefore
    <2>13. Standing'
        BY DEF Standing, On
    <2>14. AloneOn'
        BY DEF AloneOn, On
    <2>15. Expected'
        BY DEF Expected, On, Expects, OwnNumbers
    <2>16. QED
        BY <1>1, <2>4, <2>5, <2>6, <2>7, <2>8, <2>9, <2>10, <2>11, <2>12, <2>13, <2>14, <2>15
<1>10. CASE StayLocal(t)
    <2>1. turn[t] \in ChatTurn /\ \A r \in Runners : Busy(r) => turn[r].c \in Conversations
        BY <1>10, BusyTurn DEF Busy, StayLocal, ChatTurn
    <2>2. Advances(t)
        BY <1>10, <2>1 DEF Advances, Busy, Carried, PolicyTypes, ChatTurn, StayLocal, Proceed
    <2>3. /\ UNCHANGED <<pending,started,searches,asked,over,standing>>
          /\ turn[t].pc = "need"
          /\ turn'[t].pc = "answer"
          /\ turn'[t].pend = turn[t].pend /\ turn'[t].command = turn[t].command /\ turn'[t].query = turn[t].query
          /\ turn'[t].dropped = turn[t].dropped /\ turn'[t].asks = turn[t].asks
        BY <1>10, <2>1 DEF PolicyTypes, ChatTurn, StayLocal, Proceed
    <2> USE <2>2, <2>3 DEF Advances, Carried, Busy
    <2>4. OwnNumbers'
        BY DEF OwnNumbers
    <2>5. AskedOnce'
        BY DEF AskedOnce
    <2>6. PendingAsked'
        BY DEF PendingAsked
    <2>7. TakenUp'
        BY DEF TakenUp
    <2>8. GivenUp'
        BY DEF GivenUp, WasAsked
    <2>9. Searching'
        BY DEF Searching
    <2>10. OnlyWithPermission'
        BY DEF OnlyWithPermission
    <2>11. SearchedAtMostOnce'
        BY DEF SearchedAtMostOnce
    <2>12. AskedBefore'
        BY DEF AskedBefore
    <2>13. Standing'
        BY DEF Standing, On
    <2>14. AloneOn'
        BY DEF AloneOn, On
    <2>15. Expected'
        BY DEF Expected, On, Expects
    <2>16. QED
        BY <1>1, <2>4, <2>5, <2>6, <2>7, <2>8, <2>9, <2>10, <2>11, <2>12, <2>13, <2>14, <2>15
<1>11. CASE Search(t)
    <2>1. turn[t] \in ChatTurn /\ \A r \in Runners : Busy(r) => turn[r].c \in Conversations
        BY <1>11, BusyTurn DEF Busy, Search, ChatTurn
    <2>2. Advances(t)
        BY <1>11, <2>1 DEF Advances, Busy, Carried, PolicyTypes, ChatTurn, Search, Proceed
    <2>3. /\ UNCHANGED <<pending,started,asked,over,standing>>
          /\ searches' = searches \cup {[q |-> turn[t].query, c |-> turn[t].c, mode |-> turn[t].mode,
                                         command |-> turn[t].command, arrived |-> turn[t].arrived, over |-> turn[t].over]}
          /\ turn[t].pc = "search"
          /\ turn'[t].pc = "searched"
          /\ turn'[t].pend = turn[t].pend /\ turn'[t].command = turn[t].command /\ turn'[t].query = turn[t].query
          /\ turn'[t].dropped = turn[t].dropped /\ turn'[t].asks = turn[t].asks
        BY <1>11, <2>1 DEF PolicyTypes, ChatTurn, Search, Proceed
    <2> USE <2>2, <2>3 DEF Advances, Carried, Busy
    <2>4. OwnNumbers'
        BY DEF OwnNumbers
    <2>5. AskedOnce'
        BY DEF AskedOnce
    <2>6. PendingAsked'
        BY DEF PendingAsked
    <2>7. TakenUp'
        BY DEF TakenUp
    <2>8. GivenUp'
        BY DEF GivenUp, WasAsked
    <2>9. Searching'
        BY DEF Searching
    <2>10. OnlyWithPermission'
        <3> DEFINE new == [q |-> turn[t].query, c |-> turn[t].c, mode |-> turn[t].mode,
                           command |-> turn[t].command, arrived |-> turn[t].arrived, over |-> turn[t].over]
        <3>1. CASE turn[t].mode = "ALLOW"
            BY <3>1 DEF OnlyWithPermission
        <3>2. CASE turn[t].mode # "ALLOW"
            <4>1. turn[t].command = "approve" /\ turn[t].query = turn[t].pend.q /\ turn[t].pend.q # 0
                BY <3>2 DEF Searching
            <4>2. /\ [q |-> turn[t].pend.q, c |-> turn[t].c, at |-> turn[t].pend.at] \in asked
                  /\ turn[t].arrived - turn[t].pend.at <= TTL
                BY <4>1 DEF TakenUp
            <4>3. \A a \in asked : a.q = turn[t].pend.q => a.at = turn[t].pend.at
                BY <4>2 DEF AskedOnce
            <4>4. \E a \in asked : a.q = new.q /\ a.c = new.c
                BY <4>1, <4>2
            <4>5. \A a \in asked : a.q = new.q => new.arrived - a.at <= TTL
                BY <4>1, <4>2, <4>3
            <4>6. QED
                BY <4>1, <4>4, <4>5 DEF OnlyWithPermission
        <3>3. QED
            BY <3>1, <3>2
    <2>11. SearchedAtMostOnce'
        <3>1. turn[t].query \notin turn[t].over
            BY DEF Searching, TakenUp
        <3>2. QED
            BY <3>1 DEF SearchedAtMostOnce
    <2>12. AskedBefore'
        BY DEF AskedBefore
    <2>13. Standing'
        BY DEF Standing, On
    <2>14. AloneOn'
        BY DEF AloneOn, On
    <2>15. Expected'
        BY DEF Expected, On, Expects
    <2>16. QED
        BY <1>1, <2>4, <2>5, <2>6, <2>7, <2>8, <2>9, <2>10, <2>11, <2>12, <2>13, <2>14, <2>15
<1>12. CASE Searched(t)
    <2>1. turn[t] \in ChatTurn /\ \A r \in Runners : Busy(r) => turn[r].c \in Conversations
        BY <1>12, BusyTurn DEF Busy, Searched, ChatTurn
    <2>2. Advances(t)
        BY <1>12, <2>1 DEF Advances, Busy, Carried, PolicyTypes, ChatTurn, Searched, Proceed
    <2>3. /\ UNCHANGED <<started,searches,asked,over,standing>>
          /\ Popped(t)
          /\ turn[t].pc = "searched"
          /\ turn'[t].pc = "answer"
          /\ turn'[t].dropped = turn[t].dropped \cup {turn[t].query}
          /\ turn'[t].pend = turn[t].pend /\ turn'[t].command = turn[t].command
          /\ turn'[t].query = turn[t].query /\ turn'[t].asks = turn[t].asks
        BY <1>12, <2>1 DEF PolicyTypes, ChatTurn, Searched, Pop, Popped
    <2> USE <2>2, <2>3 DEF Advances, Carried, Busy
    <2>4. OwnNumbers'
        BY DEF OwnNumbers
    <2>5. AskedOnce'
        BY DEF AskedOnce
    <2>6. PendingAsked'
        BY DEF PendingAsked, Popped, None
    <2>7. TakenUp'
        BY DEF TakenUp
    <2>8. GivenUp'
        <3>1. \A q \in {turn[t].query} \ {0} : q = turn[t].n \/ WasAsked(q, turn[t].c)
            BY RecordAsked DEF TakenUp, Searching
        <3>2. \A d \in Conversations : pending[d].q # 0 => pending[d].q # turn[t].n
            BY RecordAsked DEF PendingAsked, AskedOnce
        <3>3. \A q \in {turn[t].query} \ {0} : \A d \in Conversations \ {turn[t].c} : pending[d].q # q
            BY <3>1, <3>2, AskedIsThere
        <3>4. QED
            BY <3>1, <3>3, PopGivesUp
    <2>9. Searching'
        BY DEF Searching
    <2>10. OnlyWithPermission'
        BY DEF OnlyWithPermission
    <2>11. SearchedAtMostOnce'
        BY DEF SearchedAtMostOnce, Popped, None
    <2>12. AskedBefore'
        BY DEF AskedBefore
    <2>13. Standing'
        BY DEF Standing, Popped, None, On, AloneOn
    <2>14. AloneOn'
        BY DEF AloneOn, Popped, None, On
    <2>15. Expected'
        BY DEF Expected, Popped, None, On, Expects, AloneOn
    <2>16. QED
        BY <1>1, <2>4, <2>5, <2>6, <2>7, <2>8, <2>9, <2>10, <2>11, <2>12, <2>13, <2>14, <2>15
<1>20. QED
    BY <1>2, <1>3, <1>4, <1>5, <1>6, <1>7, <1>8, <1>9, <1>10, <1>11, <1>12 DEF TurnStep

\* A new turn carries nothing yet, and ends the solitude of the others.
LEMMA ArriveSteps ==
    ASSUME PolicyInv, ApprovalInv, NEW t \in Runners, TurnArrives(t)
    PROVE  PolicyInv' /\ ApprovalInv'
<1> USE PolicyAssumption DEF PolicyInv, ApprovalInv
<1>1. PolicyTypes'
    BY PolicyTypesStep DEF PolicyNext, TurnStep
<1> PICK c \in Conversations, u \in Users \cup {NoUser}, k \in Kinds, legacy \in Legacy :
        /\ turn' = Joined(t, NewTurn(c, u, k, legacy))
        /\ standing' = [standing EXCEPT ![c].q = 0]
    BY DEF TurnArrives
<1>2. /\ ~Busy(t) /\ Busy(t)'
      /\ turn'[t].pc = "mode" /\ turn'[t].n = started + 1 /\ turn'[t].c = c
      /\ turn'[t].pend.q = 0 /\ turn'[t].query = 0 /\ turn'[t].dropped = {} /\ turn'[t].asks = FALSE
      /\ turn'[t].over = over
      /\ turn'[t].expects = (IF standing[c].alone THEN standing[c].q ELSE 0)
    BY DEF TurnArrives, Busy, Joined, NewTurn, None
<1>3. turn'[t].alone => \A r \in Runners : ~On(r, c)
    BY DEF Joined, NewTurn
<1>4. ASSUME NEW r \in Runners \ {t}
      PROVE  /\ Busy(r)' <=> Busy(r)
             /\ Busy(r) => /\ turn[r].c \in Conversations
                           /\ turn'[r].pc = turn[r].pc /\ Carried(turn[r], [turn'[r] EXCEPT !.alone = turn[r].alone])
                           /\ turn'[r].pend = turn[r].pend /\ turn'[r].query = turn[r].query
                           /\ turn'[r].command = turn[r].command /\ turn'[r].mode = turn[r].mode
                           /\ turn'[r].dropped = turn[r].dropped /\ turn'[r].asks = turn[r].asks
                           /\ turn'[r].alone => turn[r].alone /\ turn[r].c # c
    <2>1. turn'[r] = IF On(r, c) THEN [turn[r] EXCEPT !.alone = FALSE] ELSE turn[r]
        BY DEF Joined, NewTurn
    <2>2. CASE Busy(r)
        <3>1. turn[r] \in ChatTurn
            BY <2>2, BusyTurn
        <3>2. CASE turn[r].c = c
            BY <2>1, <2>2, <3>1, <3>2 DEF Busy, On, ChatTurn, Carried
        <3>3. CASE turn[r].c # c
            BY <2>1, <2>2, <3>1, <3>3 DEF Busy, On, ChatTurn, Carried
        <3>4. QED
            BY <3>2, <3>3
    <2>3. CASE ~Busy(r)
        BY <2>1, <2>3 DEF Busy, On
    <2>4. QED
        BY <2>2, <2>3
<1>5. /\ started' = started + 1
      /\ UNCHANGED <<pending, searches, asked, over>>
      /\ \A d \in Conversations : standing'[d].alone = standing[d].alone
                                  /\ standing'[d].q = IF d = c THEN 0 ELSE standing[d].q
    BY DEF TurnArrives, PolicyTypes
<1>6. started \in Nat /\ over \subseteq 1..started /\ \A a \in asked : a.q \in 1..started
    BY DEF PolicyTypes, OwnNumbers
<1> USE <1>2, <1>4, <1>5, <1>6 DEF Carried
<1>7. OwnNumbers'
    BY DEF OwnNumbers
<1>8. AskedOnce'
    BY DEF AskedOnce
<1>9. PendingAsked'
    BY DEF PendingAsked
<1>10. TakenUp'
    BY DEF TakenUp
<1>11. GivenUp'
    BY DEF GivenUp, WasAsked
<1>12. Searching'
    BY DEF Searching
<1>13. OnlyWithPermission' /\ SearchedAtMostOnce'
    BY DEF OnlyWithPermission, SearchedAtMostOnce
<1>14. AskedBefore'
    BY DEF AskedBefore
<1>15. Standing'
    BY DEF Standing, On, Busy
<1>16. AloneOn'
    <2> SUFFICES ASSUME NEW r \in Runners, Busy(r)', turn'[r].alone
                 PROVE  /\ \A x \in Runners \ {r} : ~(turn'[x].pc # "idle" /\ turn'[x].c = turn'[r].c)
                        /\ turn'[r].asks => turn'[r].pc = "answer" /\ pending'[turn'[r].c].q = turn'[r].n
        BY DEF AloneOn, On
    <2>1. CASE r = t
        <3>1. \A x \in Runners \ {t} : ~(turn[x].pc # "idle" /\ turn[x].c = c)
            BY <1>3, <2>1 DEF On
        <3>2. QED
            BY <2>1, <3>1 DEF Busy
    <2>2. CASE r # t
        <3>1. Busy(r) /\ turn[r].alone /\ turn[r].c # c /\ turn'[r].c = turn[r].c /\ turn'[r].n = turn[r].n
            BY <2>2
        <3>2. \A x \in Runners \ {r} : ~(turn[x].pc # "idle" /\ turn[x].c = turn[r].c)
            BY <3>1 DEF AloneOn, On
        <3>3. ASSUME NEW x \in Runners \ {r}, turn'[x].pc # "idle", turn'[x].c = turn'[r].c PROVE FALSE
            <4>1. CASE x = t
                BY <3>1, <3>3, <4>1
            <4>2. CASE x # t
                <5>1. Busy(x)
                    BY <3>3, <4>2 DEF Busy
                <5>2. turn'[x].c = turn[x].c
                    BY <4>2, <5>1
                <5>3. QED
                    BY <3>1, <3>2, <3>3, <5>1, <5>2 DEF Busy
            <4>3. QED
                BY <4>1, <4>2
        <3>4. turn'[r].asks => turn'[r].pc = "answer" /\ pending'[turn'[r].c].q = turn'[r].n
            BY <2>2, <3>1 DEF AloneOn
        <3>5. QED
            BY <3>3, <3>4
    <2>3. QED
        BY <2>1, <2>2
<1>17. Expected'
    <2> SUFFICES ASSUME NEW r \in Runners, NEW a \in asked,
                        Busy(r)', turn'[r].kind = "yes", turn'[r].alone, turn'[r].expects = a.q,
                        turn'[r].arrived - a.at <= TTL
                 PROVE  Expects(r)'
        BY DEF Expected
    <2>1. CASE r = t
        BY <2>1 DEF Standing, Expects
    <2>2. CASE r # t
        BY <2>2 DEF Expected, Expects
    <2>3. QED
        BY <2>1, <2>2
<1>18. QED
    BY <1>1, <1>7, <1>8, <1>9, <1>10, <1>11, <1>12, <1>13, <1>14, <1>15, <1>16, <1>17

\* The end of a turn: what it dropped is given up, what it asked stands.
LEMMA AnswerSteps ==
    ASSUME PolicyInv, ApprovalInv, NEW t \in Runners, Answer(t)
    PROVE  PolicyInv' /\ ApprovalInv'
<1> USE PolicyAssumption DEF PolicyInv, ApprovalInv
<1>1. PolicyTypes'
    BY PolicyTypesStep DEF PolicyNext, TurnStep
<1>2. /\ Busy(t) /\ turn[t].pc = "answer" /\ turn[t].c \in Conversations /\ turn[t].dropped \subseteq Nat
      /\ ~Busy(t)' /\ turn'[t].pc = "idle"
      /\ \A r \in Runners \ {t} : turn'[r] = turn[r]
      /\ \A r \in Runners : Busy(r) => turn[r].c \in Conversations
    BY BusyTurn DEF Answer, PolicyTypes, Busy, NoTurn, ChatTurn
<1>3. /\ UNCHANGED <<pending, started, searches, asked>>
      /\ over' = over \cup (turn[t].dropped \ {0})
    BY DEF Answer
<1>4. \A d \in Conversations :
          IF d = turn[t].c /\ turn[t].asks
            THEN standing'[d].q = turn[t].n /\ standing'[d].alone = turn[t].alone
            ELSE standing'[d] = standing[d]
    BY <1>2 DEF Answer, PolicyTypes
<1> USE <1>2, <1>3, <1>4 DEF Busy
<1>5. \A d \in turn[t].dropped \ {0} :
          /\ d = turn[t].n \/ \E a \in asked : a.q = d
          /\ \A c \in Conversations : pending[c].q # d
    BY DEF GivenUp
<1>6. OwnNumbers'
    <2>1. \A d \in turn[t].dropped \ {0} : d \in 1..started
        BY <1>5 DEF OwnNumbers
    <2>2. over' \subseteq 1..started
        BY <2>1 DEF OwnNumbers
    <2>3. QED
        BY <2>2 DEF OwnNumbers
<1>7. AskedOnce'
    BY <1>5 DEF AskedOnce, OwnNumbers
<1>8. PendingAsked'
    BY <1>5 DEF PendingAsked
<1>9. TakenUp'
    BY DEF TakenUp
<1>10. GivenUp'
    BY DEF GivenUp, WasAsked
<1>11. Searching'
    BY DEF Searching
<1>12. OnlyWithPermission' /\ SearchedAtMostOnce'
    BY DEF OnlyWithPermission, SearchedAtMostOnce
<1>13. AskedBefore'
    BY DEF AskedBefore
<1>14. Standing'
    BY DEF Standing, AloneOn, On
<1>15. AloneOn'
    BY DEF AloneOn, On
<1>16. Expected'
    BY DEF Expected, Expects
<1>17. QED
    BY <1>1, <1>6, <1>7, <1>8, <1>9, <1>10, <1>11, <1>12, <1>13, <1>14, <1>15, <1>16

\* New chat: the pending question is given up, and nobody is expected to take
\* it up any more.
LEMMA ResetSteps ==
    ASSUME PolicyInv, ApprovalInv, Reset
    PROVE  PolicyInv' /\ ApprovalInv'
<1> USE PolicyAssumption DEF PolicyInv, ApprovalInv
<1>1. PolicyTypes'
    BY PolicyTypesStep DEF PolicyNext
<1> PICK c \in Conversations :
        /\ pending[c].q # 0
        /\ over' = over \cup {pending[c].q}
        /\ pending' = [pending EXCEPT ![c] = None]
        /\ turn' = Clears(c)
        /\ standing' = [standing EXCEPT ![c].q = 0]
        /\ UNCHANGED <<started, searches, asked>>
    BY DEF Reset
<1>2. \A r \in Runners :
          /\ Busy(r)' <=> Busy(r)
          /\ Busy(r) => /\ turn[r].c \in Conversations
                        /\ turn'[r].pc = turn[r].pc /\ Carried(turn[r], [turn'[r] EXCEPT !.expects = turn[r].expects])
                        /\ turn'[r].pend = turn[r].pend /\ turn'[r].query = turn[r].query
                        /\ turn'[r].command = turn[r].command /\ turn'[r].mode = turn[r].mode
                        /\ turn'[r].dropped = turn[r].dropped
                        /\ IF turn[r].c = c THEN ~turn'[r].asks /\ turn'[r].expects = 0
                           ELSE turn'[r].asks = turn[r].asks /\ turn'[r].expects = turn[r].expects
    <2> TAKE r \in Runners
    <2>1. turn'[r] = IF On(r, c) THEN [turn[r] EXCEPT !.asks = FALSE, !.expects = 0] ELSE turn[r]
        BY DEF Clears
    <2>2. CASE Busy(r)
        <3>1. turn[r] \in ChatTurn
            BY <2>2, BusyTurn
        <3>2. CASE turn[r].c = c
            BY <2>1, <2>2, <3>1, <3>2 DEF Busy, On, ChatTurn, Carried
        <3>3. CASE turn[r].c # c
            BY <2>1, <2>2, <3>1, <3>3 DEF Busy, On, ChatTurn, Carried
        <3>4. QED
            BY <3>2, <3>3
    <2>3. CASE ~Busy(r)
        BY <2>1, <2>3 DEF Busy, On
    <2>4. QED
        BY <2>2, <2>3
<1>3. \A d \in Conversations :
          /\ pending'[d] = IF d = c THEN None ELSE pending[d]
          /\ standing'[d].alone = standing[d].alone
          /\ standing'[d].q = IF d = c THEN 0 ELSE standing[d].q
    BY DEF PolicyTypes
<1>4. /\ pending[c].q \in 1..started
      /\ WasAsked(pending[c].q, c)
      /\ \A d \in Conversations \ {c} : pending[d].q # pending[c].q
    <2>1. WasAsked(pending[c].q, c)
        BY RecordAsked DEF PendingAsked
    <2>2. pending[c].q \in 1..started
        BY <2>1 DEF WasAsked, OwnNumbers
    <2>3. QED
        BY <2>1, <2>2, AskedIsThere
<1> USE <1>2, <1>3, <1>4 DEF Carried, None
<1>5. OwnNumbers'
    BY DEF OwnNumbers
<1>6. AskedOnce'
    BY DEF AskedOnce, WasAsked
<1>7. PendingAsked'
    BY DEF PendingAsked
<1>8. TakenUp'
    BY DEF TakenUp
<1>9. GivenUp'
    BY DEF GivenUp, WasAsked
<1>10. Searching'
    BY DEF Searching
<1>11. OnlyWithPermission' /\ SearchedAtMostOnce'
    BY DEF OnlyWithPermission, SearchedAtMostOnce
<1>12. AskedBefore'
    BY DEF AskedBefore
<1>13. Standing'
    BY DEF Standing, On, Busy
<1>14. AloneOn'
    BY DEF AloneOn, On, Busy
<1>15. Expected'
    <2> SUFFICES ASSUME NEW r \in Runners, NEW a \in asked,
                        Busy(r)', turn'[r].kind = "yes", turn'[r].alone, turn'[r].expects = a.q,
                        turn'[r].arrived - a.at <= TTL
                 PROVE  Expects(r)'
        BY DEF Expected
    <2>1. turn[r].c # c
        BY DEF OwnNumbers
    <2>2. QED
        BY <2>1 DEF Expected, Expects
<1>16. QED
    BY <1>1, <1>5, <1>6, <1>7, <1>8, <1>9, <1>10, <1>11, <1>12, <1>13, <1>14, <1>15

\* Everything else changes neither a turn nor a question.
LEMMA OtherSteps ==
    ASSUME PolicyInv, ApprovalInv, SetMode \/ ClockTicks \/ UNCHANGED policyVars
    PROVE  PolicyInv' /\ ApprovalInv'
<1> USE DEF PolicyInv, ApprovalInv
<1>1. PolicyTypes'
    BY PolicyTypesStep DEF PolicyNext
<1>2. UNCHANGED <<pending, turn, started, searches, asked, over, standing>>
    BY DEF SetMode, ClockTicks, policyVars
<1>3. OwnNumbers' /\ AskedOnce' /\ PendingAsked' /\ TakenUp' /\ GivenUp' /\ Searching'
    BY <1>2 DEF OwnNumbers, AskedOnce, PendingAsked, TakenUp, GivenUp, WasAsked, Searching, Busy
<1>4. OnlyWithPermission' /\ SearchedAtMostOnce'
    BY <1>2 DEF OnlyWithPermission, SearchedAtMostOnce
<1>5. AskedBefore' /\ Standing' /\ AloneOn' /\ Expected'
    BY <1>2 DEF AskedBefore, Standing, AloneOn, Expected, Expects, On, Busy
<1>6. QED
    BY <1>1, <1>3, <1>4, <1>5

LEMMA PolicyStart == PolicyInit => PolicyInv /\ ApprovalInv
<1> SUFFICES ASSUME PolicyInit PROVE PolicyInv /\ ApprovalInv
    OBVIOUS
<1>1. PolicyTypes
    BY PolicyTypesInit
<1>2. /\ \A t \in Runners : ~Busy(t)
      /\ \A c \in Conversations : pending[c].q = 0 /\ standing[c].q = 0
      /\ searches = {} /\ asked = {} /\ over = {}
    BY DEF PolicyInit, Busy, NoTurn, None
<1>3. OwnNumbers /\ AskedOnce /\ PendingAsked /\ TakenUp /\ GivenUp /\ Searching
    BY <1>2 DEF OwnNumbers, AskedOnce, PendingAsked, TakenUp, GivenUp, Searching
<1>4. OnlyWithPermission /\ SearchedAtMostOnce
    BY <1>2 DEF OnlyWithPermission, SearchedAtMostOnce
<1>5. AskedBefore /\ Standing /\ AloneOn /\ Expected
    BY <1>2 DEF AskedBefore, Standing, AloneOn, Expected
<1>6. QED
    BY <1>1, <1>3, <1>4, <1>5 DEF PolicyInv, ApprovalInv

-----------------------------------------------------------------------------
(***************************************************************************)
(* Theorems.                                                               *)
(***************************************************************************)
\* Both invariants hold in every behaviour of the permission policy.
THEOREM PolicyCorrect == PolicySpec => [](PolicyInv /\ ApprovalInv)
<1>1. PolicyInv /\ ApprovalInv /\ [PolicyNext]_policyVars => PolicyInv' /\ ApprovalInv'
    <2> SUFFICES ASSUME PolicyInv, ApprovalInv, [PolicyNext]_policyVars PROVE PolicyInv' /\ ApprovalInv'
        OBVIOUS
    <2>1. CASE \E t \in Runners : TurnStep(t)
        BY <2>1, TurnSteps, ArriveSteps, AnswerSteps
    <2>2. CASE Reset
        BY <2>2, ResetSteps
    <2>3. CASE SetMode \/ ClockTicks \/ UNCHANGED policyVars
        BY <2>3, OtherSteps
    <2>4. QED
        BY <2>1, <2>2, <2>3 DEF PolicyNext
<1>2. QED
    BY PolicyStart, <1>1, PTL DEF PolicySpec

\* Whatever turns, switches, resets and clocks interleave: a turn that goes by
\* ASK contacts the provider only for a question that the conversation was asked
\* about, that its message approves and that was still fresh when it arrived.
THEOREM NeverWithoutPermission == PolicySpec => []OnlyWithPermission
<1>1. PolicyInv => OnlyWithPermission
    BY DEF PolicyInv
<1>2. QED
    BY PolicyCorrect, <1>1, PTL

\* A question that was searched, rejected, abandoned or cleared is not searched
\* by a turn that arrives after the answer which said so.
THEOREM NoSecondSearch == PolicySpec => []SearchedAtMostOnce
<1>1. PolicyInv => SearchedAtMostOnce
    BY DEF PolicyInv
<1>2. QED
    BY PolicyCorrect, <1>1, PTL

\* The approval that follows a permission question in time searches exactly
\* that question.
THEOREM ApprovalIsOfTheQuestion == PolicySpec => []ApprovalSearchesTheQuestion
<1>1. PolicyInv /\ ApprovalInv => ApprovalSearchesTheQuestion
    BY DEF ApprovalInv, Expected, Expects, ApprovalSearchesTheQuestion, Busy
<1>2. QED
    BY PolicyCorrect, <1>1, PTL
=============================================================================
