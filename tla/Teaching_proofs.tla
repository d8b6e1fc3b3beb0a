-------------------------- MODULE Teaching_proofs --------------------------
(***************************************************************************)
(* Proofs about Teaching, for every set of threads, every set of message   *)
(* kinds and any number of turns, overlaps and requests.  TeachInv is the  *)
(* inductive invariant.  Beyond types it says what a turn at each label    *)
(* holds (Fits), that what two OwnerState objects lead to is disjoint      *)
(* (Apart), that a turn's own note or evidence is nowhere before it is put *)
(* into a session (Unused), and that the last preview and the last         *)
(* announced record are the current session's (ShownIsCurrent,             *)
(* SubjectIsCurrent) unless turns or routes overlapped.                    *)
(***************************************************************************)
EXTENDS Teaching, SequenceTheorems, TLAPS

Labels == {"login", "begun", "capture", "dispatch", "exit", "replace", "restart", "save", "write",
           "verify", "evidence", "check", "target", "note", "existing", "build", "answer"}

\* Where a turn works on the session it captured.
Inside == {"dispatch", "exit", "restart", "save", "write", "verify", "evidence", "check",
           "note", "existing", "build"}

Draft == [by : Nat, notes : SUBSET Nat]
Session == [topic : Nat, target : Nat, notes : SUBSET Nat, draft : Draft, web : Nat]
Owner == [auth : BOOLEAN, session : Nat]
Talk ==
    [pc : Labels, n : Nat, kind : Sayings \cup {"any"}, o : Nat, s : Nat, draft : Draft, target : Nat,
     web : Nat, notes : SUBSET Nat, next : Session, found : Nat,
     did : {"nothing", "previewed", "saved", "replaced"}, open : BOOLEAN, gone : SUBSET Nat,
     alone : BOOLEAN]

TeachTypes ==
    /\ owner \in 0..Len(owners)
    /\ owners \in Seq(Owner)
    /\ sessions \in Seq(Session)
    /\ talk \in [Workers -> Talk \cup {NoTalk}]
    /\ arrived \in Nat /\ overlaps \in Nat /\ routed \in Nat
    /\ entered \in BOOLEAN
    /\ gone \subseteq 1..arrived
    /\ shown \in [draft : Draft, target : Nat, alone : BOOLEAN]
    /\ subject \in [record : Nat, alone : BOOLEAN]

Things(x) == Lost(sessions[x])

Objects ==
    /\ \A o \in 1..Len(owners) : owners[o].session \in 1..Len(sessions)
    /\ \A x \in 1..Len(sessions) :
          sessions[x].draft.notes \subseteq sessions[x].notes /\ Things(x) \subseteq 1..arrived

\* Turn w refers to what there is.
Placed(w) ==
    /\ w.n \in 1..arrived
    /\ w.o \in 1..Len(owners) /\ w.s \in 0..Len(sessions)
    /\ w.pc \in Inside => w.s # 0
    /\ w.pc = "save" => sessions[w.s].draft # NoDraft
    /\ w.pc = "build" => w.notes \subseteq sessions[w.s].notes
    /\ w.next.target \in 0..arrived /\ w.next.web \in 0..arrived
    /\ w.gone \subseteq 1..arrived

\* What turn w carries at its label.
Stage(w) ==
    /\ w.next.draft = NoDraft /\ w.next.notes = {}
    /\ w.did = "previewed" => w.pc = "answer"
    /\ w.did = "saved" => w.pc = "replace"
    /\ w.did = "replaced" => w.pc \in {"target", "answer"}
    /\ w.pc = "answer" => w.did \in {"previewed", "replaced"}
    /\ w.pc = "target" => w.did = "replaced" /\ w.found # 0
    /\ w.found \in {0, w.n}
    /\ w.found # 0 => w.kind = "check" /\ w.pc \in {"replace", "target", "answer"}
    /\ w.next.target # 0 \/ w.next.web # 0 => w.kind = "restart" /\ w.pc = "replace"
    /\ w.kind = "restart" => w.pc \in {"restart", "replace", "answer"}
    /\ w.pc \in {"restart", "check"} => w.kind = w.pc
    /\ w.pc \in {"login", "begun", "capture"} => w.s = 0

\* A turn that got past the login, or may, ran while someone was logged in.
Opened(w) == owners[w.o].auth \/ w.pc \notin {"login", "begun"} => w.open

\* What was gone when turn w began is in none of the sessions it can reach, nor
\* in what it is about to save.
Clear(w) ==
    /\ w.gone \cap Things(owners[w.o].session) = {}
    /\ w.s # 0 => w.gone \cap Things(w.s) = {}
    /\ w.pc = "write" => w.gone \cap (w.draft.notes \cup {w.target, w.web}) = {}

Current == sessions[owners[owner].session]

\* A turn nothing overlapped works on the current session.
Solo(w) ==
    /\ w.o = owner
    /\ w.pc \in Inside => w.s = owners[owner].session
    /\ w.pc \in Inside \cup {"capture"} => owners[owner].auth
    /\ (w.pc = "write" \/ w.did = "saved") /\ shown.alone => w.draft = shown.draft /\ w.target = shown.target
    /\ (w.pc = "write" \/ w.did = "saved") /\ subject.alone => w.target = subject.record
    /\ w.did = "previewed" => w.draft = Current.draft /\ w.target = Current.target
    /\ w.kind = "restart" /\ subject.alone =>
          /\ w.pc = "replace" => w.next.target = subject.record
          /\ w.did = "replaced" => Current.target = subject.record
    /\ w.kind # "restart" /\ w.did = "replaced" /\ w.pc = "answer" => Current.target = w.found
    /\ w.did = "replaced" => Current.draft = NoDraft

Fits(w) == Placed(w) /\ Stage(w) /\ Opened(w) /\ Clear(w) /\ (w.alone => Solo(w))

Turns ==
    /\ \A t \in Workers : Running(t) => Fits(talk[t])
    /\ \A t, r \in Workers : Running(t) /\ Running(r) /\ talk[t].n = talk[r].n => t = r
    /\ \A t, r \in Workers : Running(t) /\ Running(r) /\ talk[t].alone => t = r

\* The turn has not put its note, evidence or record into a session yet.
Pending(t) == Running(t) /\ talk[t].pc \notin {"existing", "build", "answer"}

Unused ==
    \A t \in Workers : Pending(t) =>
        /\ talk[t].n \notin gone
        /\ \A x \in 1..Len(sessions) : talk[t].n \notin Things(x)
        /\ \A r \in Workers : Running(r) =>
              talk[t].n \notin talk[r].gone \cup {talk[r].next.target, talk[r].next.web}

\* Session x is reached through OwnerState o, by the conversation or by a turn.
InRoom(o, x) == x = owners[o].session \/ \E t \in Workers : Running(t) /\ talk[t].o = o /\ talk[t].s = x

\* The same of what is in the sessions, or may come there.
Has(o, n) ==
    \/ n \in Things(owners[o].session)
    \/ \E t \in Workers : Running(t) /\ talk[t].o = o /\
          \/ n \in {talk[t].n, talk[t].next.target, talk[t].next.web}
          \/ talk[t].s # 0 /\ n \in Things(talk[t].s)

Apart ==
    \A o, p \in 1..Len(owners) :
        /\ \A x \in 1..Len(sessions) : InRoom(o, x) /\ InRoom(p, x) => o = p
        /\ \A n \in 1..arrived : Has(o, n) /\ Has(p, n) => o = p

OwnerEntered == owner # 0 => (owners[owner].auth => entered)
OwnerClear == owner # 0 => gone \cap Things(owners[owner].session) = {}

ShownIsCurrent ==
    /\ owner # 0 /\ shown.alone /\ Current.draft # NoDraft
    /\ \A t \in Workers : Running(t) => talk[t].did # "previewed"
    => /\ shown.draft = Current.draft /\ shown.target = Current.target
       /\ \A t \in Workers : ~(Running(t) /\ talk[t].o = owner /\ talk[t].pc = "target")

Settling(t) == Running(t) /\ (talk[t].pc = "replace" \/ talk[t].did = "replaced")

SubjectIsCurrent ==
    owner # 0 /\ owners[owner].auth /\ subject.alone /\ (\A t \in Workers : ~Settling(t))
        => Current.target = subject.record

TeachInv ==
    /\ TeachTypes /\ Objects /\ Turns /\ Unused /\ Apart
    /\ OwnerEntered /\ SavesOnlyInSession
    /\ OwnerClear /\ DiscardedStaysUnsaved
    /\ ShownIsCurrent /\ SubjectIsCurrent
-----------------------------------------------------------------------------
LEMMA InitHolds == TeachingInit => TeachInv
<1> SUFFICES ASSUME TeachingInit PROVE TeachInv
    OBVIOUS
<1> USE DEF TeachingInit, Fresh, NoDraft, NoTalk
<1>1. \A t \in Workers : ~Running(t)
    BY DEF Running
<1>2. /\ Len(owners) = 1 /\ Len(sessions) = 1
      /\ owners[1] = [auth |-> TRUE, session |-> 1] /\ sessions[1] = Fresh
    OBVIOUS
<1>3. Things(1) = {}
    BY <1>2 DEF Things, Lost
<1>4. TeachTypes
    <2>1. owners \in Seq(Owner)
        BY DEF Owner
    <2>2. sessions \in Seq(Session)
        <3>1. Fresh \in Session
            BY DEF Session, Draft
        <3>2. QED
            BY <3>1
    <2>3. QED
        BY <1>2, <2>1, <2>2 DEF TeachTypes, Draft
<1>5. Objects
    BY <1>2, <1>3 DEF Objects
<1>6. Turns /\ Unused
    BY <1>1 DEF Turns, Unused, Pending
<1>7. Apart
    BY <1>1, <1>2, <1>3 DEF Apart, InRoom, Has
<1>8. OwnerEntered /\ OwnerClear /\ SavesOnlyInSession /\ DiscardedStaysUnsaved
    BY DEF OwnerEntered, OwnerClear, SavesOnlyInSession, DiscardedStaysUnsaved
<1>9. ShownIsCurrent /\ SubjectIsCurrent
    BY <1>2 DEF ShownIsCurrent, SubjectIsCurrent, Current
<1>10. QED
    BY <1>4, <1>5, <1>6, <1>7, <1>8, <1>9 DEF TeachInv

-----------------------------------------------------------------------------
(***************************************************************************)
(* Steps of one turn that leave the objects alone.                         *)
(***************************************************************************)
\* A running turn is a record of its fields.
LEMMA TurnIsTyped == ASSUME TeachTypes, NEW t \in Workers, Running(t) PROVE talk[t] \in Talk
BY DEF TeachTypes, Running, NoTalk

LEMMA IdleIsNoTurn == ASSUME TeachTypes, NEW t \in Workers, ~Running(t) PROVE talk[t] = NoTalk
BY DEF TeachTypes, Running, Talk, Labels

\* The turn ends.
LEMMA ReturnKeeps ==
    ASSUME TeachInv, NEW t \in Workers, Running(t), ~Settling(t), talk[t].did # "previewed",
           Return(t), UNCHANGED <<lessons, bounds, teachingHistory>>
    PROVE  TeachInv'
<1> USE DEF TeachInv
<1>1. /\ talk'[t] = NoTalk /\ \A u \in Workers \ {t} : talk'[u] = talk[u]
      /\ talk' \in [Workers -> Talk \cup {NoTalk}]
      /\ UNCHANGED <<owner, owners, sessions, arrived, overlaps, routed, saves, entered, gone, shown, subject>>
    BY DEF Return, lessons, bounds, teachingHistory, TeachTypes
<1>2. \A u \in Workers : Running(u)' => u # t /\ Running(u) /\ talk'[u] = talk[u]
    BY <1>1 DEF Running, NoTalk
<1> USE <1>1, <1>2
<1>3. TeachTypes'
    BY DEF TeachTypes
<1>4. Objects'
    BY DEF Objects, Things
<1>5. Turns'
    <2>1. ASSUME NEW u \in Workers, Running(u)' PROVE Fits(talk[u])'
        <3>1. Fits(talk[u])
            BY <2>1 DEF Turns
        <3>2. QED
            BY <2>1, <3>1 DEF Fits, Placed, Stage, Opened, Clear, Solo, Current, Things
    <2>2. QED
        BY <2>1 DEF Turns
<1>6. Unused'
    BY DEF Unused, Pending, Things
<1>7. Apart'
    <2>1. \A o \in 1..Len(owners) : \A x \in 1..Len(sessions) : InRoom(o, x)' => InRoom(o, x)
        BY DEF InRoom
    <2>2. \A o \in 1..Len(owners) : \A n \in 1..arrived : Has(o, n)' => Has(o, n)
        BY DEF Has, Things
    <2>3. QED
        BY <2>1, <2>2 DEF Apart
<1>8. OwnerEntered' /\ OwnerClear' /\ SavesOnlyInSession' /\ DiscardedStaysUnsaved'
    BY DEF OwnerEntered, OwnerClear, SavesOnlyInSession, DiscardedStaysUnsaved, Things
<1>9. ShownIsCurrent'
    <2>1. (\A u \in Workers : Running(u)' => talk'[u].did # "previewed")
             => \A u \in Workers : Running(u) => talk[u].did # "previewed"
        BY DEF Running
    <2>2. \A u \in Workers : Running(u)' /\ talk'[u].pc = "target" => talk'[u].o = talk[u].o /\ talk[u].pc = "target"
        OBVIOUS
    <2>3. QED
        BY <2>1, <2>2 DEF ShownIsCurrent, Current
<1>10. SubjectIsCurrent'
    <2>1. (\A u \in Workers : ~Settling(u)') => \A u \in Workers : ~Settling(u)
        BY DEF Settling, Running
    <2>2. QED
        BY <2>1 DEF SubjectIsCurrent, Current
<1>11. QED
    BY <1>3, <1>4, <1>5, <1>6, <1>7, <1>8, <1>9, <1>10

\* The turn changes only its own fields, to w.
LEMMA LocalKeeps ==
    ASSUME TeachInv, NEW t \in Workers, Running(t), NEW w \in Talk,
           talk' = [talk EXCEPT ![t] = w], UNCHANGED <<lessons, bounds, entered, gone, shown, subject>>,
           SavesOnlyInSession', DiscardedStaysUnsaved',
           Pending(t) \/ w.pc = "build",
           ~Settling(t), talk[t].did # "previewed", w.pc \notin {"target", "answer"},
           w.n = talk[t].n, w.o = talk[t].o, w.gone = talk[t].gone, w.alone = talk[t].alone,
           w.s = talk[t].s \/ w.s = O(t).session,
           \/ w.next.target = talk[t].next.target /\ w.next.web = talk[t].next.web
           \/ talk[t].s # 0 /\ w.next.target = S(t).target /\ w.next.web = S(t).web,
           Fits(w)
    PROVE  TeachInv'
<1> USE DEF TeachInv
<1>1. /\ talk'[t] = w /\ \A u \in Workers \ {t} : talk'[u] = talk[u]
      /\ talk' \in [Workers -> Talk \cup {NoTalk}]
      /\ UNCHANGED <<owner, owners, sessions, arrived, overlaps, routed, entered, gone, shown, subject>>
    BY DEF lessons, bounds, TeachTypes
<1>2. \A u \in Workers : Running(u)' => Running(u) /\ (u # t => talk'[u] = talk[u])
    BY <1>1 DEF Running
<1>3. talk[t].s # 0 => \A n \in {w.next.target, w.next.web} :
          n = 0 \/ n \in {talk[t].next.target, talk[t].next.web} \/ n \in Things(talk[t].s)
    BY DEF Things, Lost, S
<1>4. talk[t].s = 0 => w.next.target = talk[t].next.target /\ w.next.web = talk[t].next.web
    OBVIOUS
<1>5. talk[t].n \in 1..arrived
    BY DEF Turns, Fits, Placed
<1> USE <1>1, <1>2
<1>6. TeachTypes'
    BY DEF TeachTypes
<1>7. Objects'
    BY DEF Objects, Things
<1>8. Turns'
    <2>1. ASSUME NEW u \in Workers, Running(u)' PROVE Fits(talk[u])'
        <3>1. CASE u = t
            BY <3>1 DEF Fits, Placed, Stage, Opened, Clear, Solo, Current, Things
        <3>2. CASE u # t
            <4>1. Fits(talk[u])
                BY <2>1, <3>2 DEF Turns
            <4>2. QED
                BY <2>1, <3>2, <4>1 DEF Fits, Placed, Stage, Opened, Clear, Solo, Current, Things
        <3>3. QED
            BY <3>1, <3>2
    <2>2. \A u \in Workers : Running(u)' => talk'[u].n = talk[u].n /\ talk'[u].alone = talk[u].alone
        OBVIOUS
    <2>3. QED
        BY <2>1, <2>2 DEF Turns
<1>9. Unused'
    <2> SUFFICES ASSUME NEW u \in Workers, Pending(u)'
                 PROVE  /\ talk'[u].n \notin gone
                        /\ \A x \in 1..Len(sessions) : talk'[u].n \notin Things(x)
                        /\ \A r \in Workers : Running(r)' =>
                              talk'[u].n \notin talk'[r].gone \cup {talk'[r].next.target, talk'[r].next.web}
        BY DEF Unused, Things
    <2>1. Pending(u) /\ talk'[u].n = talk[u].n
        BY DEF Pending
    <2>2. talk[u].n \notin gone /\ \A x \in 1..Len(sessions) : talk[u].n \notin Things(x)
        BY <2>1 DEF Unused
    <2>3. ASSUME NEW r \in Workers, Running(r)'
          PROVE  talk[u].n \notin talk'[r].gone \cup {talk'[r].next.target, talk'[r].next.web}
        <3>1. talk[u].n \notin talk[r].gone \cup {talk[r].next.target, talk[r].next.web}
            BY <2>1, <2>3 DEF Unused
        <3>2. CASE r = t
            <4>1. talk[u].n # 0 /\ (talk[t].s # 0 => talk[t].s \in 1..Len(sessions))
                BY <2>1 DEF Turns, Fits, Placed, Pending
            <4>2. talk[u].n \notin {w.next.target, w.next.web}
                BY <1>3, <1>4, <2>2, <3>1, <3>2, <4>1
            <4>3. QED
                BY <3>1, <3>2, <4>2
        <3>3. CASE r # t
            BY <2>3, <3>1, <3>3
        <3>4. QED
            BY <3>2, <3>3
    <2>4. QED
        BY <2>1, <2>2, <2>3
<1>10. Apart'
    <2>1. \A o \in 1..Len(owners) : \A x \in 1..Len(sessions) : InRoom(o, x)' => InRoom(o, x)
        BY DEF InRoom, O
    <2>2. ASSUME NEW o \in 1..Len(owners), NEW n \in 1..arrived, Has(o, n)' PROVE Has(o, n)
        <3>1. CASE n \in Things(owners[o].session)
            BY <3>1 DEF Has
        <3>2. CASE n \notin Things(owners[o].session)
            <4>1. PICK u \in Workers : Running(u)' /\ talk'[u].o = o /\
                        \/ n \in {talk'[u].n, talk'[u].next.target, talk'[u].next.web}
                        \/ talk'[u].s # 0 /\ n \in Things(talk'[u].s)
                BY <2>2, <3>2 DEF Has, Things
            <4>2. CASE u # t
                BY <4>1, <4>2 DEF Has
            <4>3. CASE u = t
                <5>1. n # 0
                    OBVIOUS
                <5>2. n \in Things(w.s) => w.s = talk[t].s
                    BY <3>2, <4>1, <4>3 DEF O
                <5>3. QED
                    BY <1>3, <1>4, <4>1, <4>3, <5>1, <5>2 DEF Has
            <4>4. QED
                BY <4>2, <4>3
        <3>3. QED
            BY <3>1, <3>2
    <2>3. QED
        BY <2>1, <2>2 DEF Apart
<1>11. OwnerEntered' /\ OwnerClear'
    BY DEF OwnerEntered, OwnerClear, Things
<1>12. ShownIsCurrent'
    <2>1. (\A u \in Workers : Running(u)' => talk'[u].did # "previewed")
             => \A u \in Workers : Running(u) => talk[u].did # "previewed"
        BY DEF Running
    <2>2. \A u \in Workers : Running(u)' /\ talk'[u].pc = "target" => talk'[u].o = talk[u].o /\ talk[u].pc = "target"
        OBVIOUS
    <2>3. QED
        BY <2>1, <2>2 DEF ShownIsCurrent, Current
<1>13. SubjectIsCurrent'
    <2>1. (\A u \in Workers : ~Settling(u)') => \A u \in Workers : ~Settling(u)
        BY DEF Settling, Running
    <2>2. QED
        BY <2>1 DEF SubjectIsCurrent, Current
<1>14. QED
    BY <1>6, <1>7, <1>8, <1>9, <1>10, <1>11, <1>12, <1>13

\* The facts every step of a running turn starts from.
LEMMA TurnFacts ==
    ASSUME TeachInv, NEW t \in Workers, Running(t)
    PROVE  /\ talk[t] \in Talk
           /\ Fits(talk[t])
           /\ talk[t].o \in 1..Len(owners) /\ O(t) \in Owner /\ O(t).session \in 1..Len(sessions)
           /\ talk[t].s # 0 => talk[t].s \in 1..Len(sessions) /\ S(t) \in Session
           /\ \A x \in 1..Len(sessions) : sessions[x] \in Session
<1>1. talk[t] \in Talk /\ Fits(talk[t])
    BY TurnIsTyped DEF TeachInv, Turns
<1>2. talk[t].o \in 1..Len(owners) /\ talk[t].s \in 0..Len(sessions)
    BY <1>1 DEF Fits, Placed
<1>3. Len(owners) \in Nat /\ \A o \in 1..Len(owners) : owners[o] \in Owner
    BY LenProperties, ElementOfSeq DEF TeachInv, TeachTypes
<1>4. Len(sessions) \in Nat /\ \A x \in 1..Len(sessions) : sessions[x] \in Session
    BY LenProperties, ElementOfSeq DEF TeachInv, TeachTypes
<1>5. QED
    BY <1>1, <1>2, <1>3, <1>4 DEF O, S, TeachInv, Objects

\* What holds of a turn that nothing overlapped when it reads the current session.
LEMMA SoloReads ==
    ASSUME TeachInv, NEW t \in Workers, Running(t), talk[t].alone, talk[t].pc \in Inside \cup {"capture"}
    PROVE  /\ owner # 0
           /\ subject.alone => Current.target = subject.record
           /\ shown.alone /\ Current.draft # NoDraft
                 => shown.draft = Current.draft /\ shown.target = Current.target
<1>1. Solo(talk[t]) /\ Stage(talk[t]) /\ Placed(talk[t])
    BY DEF TeachInv, Turns, Fits
<1>2. \A r \in Workers : Running(r) => r = t
    BY DEF TeachInv, Turns
<1>3. owner # 0 /\ owners[owner].auth
    BY <1>1 DEF Solo, Placed
<1>4. talk[t].did # "previewed" /\ ~Settling(t) /\ talk[t].pc # "target"
    BY <1>1 DEF Stage, Settling, Inside
<1>5. \A r \in Workers : ~Settling(r)
    BY <1>2, <1>4 DEF Settling
<1>6. QED
    BY <1>2, <1>3, <1>4, <1>5 DEF TeachInv, ShownIsCurrent, SubjectIsCurrent

LEMMA TheOwnerKeeps == ASSUME TeachInv, NEW t \in Workers, TheOwner(t) PROVE TeachInv'
<1> DEFINE w == [talk[t] EXCEPT !.pc = "capture"]
<1>1. Running(t) /\ talk[t].pc = "begun"
    BY DEF TheOwner, Running
<1>2. talk[t] \in Talk /\ Fits(talk[t])
    BY <1>1, TurnFacts
<1>3. w \in Talk /\ talk' = [talk EXCEPT ![t] = w]
    BY <1>2 DEF Talk, Labels, TheOwner, Move, TeachInv, TeachTypes
<1>4. /\ w.pc = "capture" /\ w.n = talk[t].n /\ w.o = talk[t].o /\ w.s = talk[t].s /\ w.gone = talk[t].gone
      /\ w.kind = talk[t].kind /\ w.found = talk[t].found /\ w.did = talk[t].did /\ w.next = talk[t].next
      /\ w.open = talk[t].open /\ w.alone = talk[t].alone
      /\ w.draft = talk[t].draft /\ w.target = talk[t].target /\ w.web = talk[t].web /\ w.notes = talk[t].notes
    BY <1>2 DEF Talk
<1> HIDE DEF w
<1>5. Fits(w)
    <2> USE <1>1, <1>2, <1>4 DEF Fits
    <2>1. Placed(w)
        BY DEF Placed, Inside
    <2>2. Stage(w)
        BY DEF Stage
    <2>3. Opened(w)
        BY DEF Opened, TheOwner, O
    <2>4. Clear(w)
        BY DEF Clear
    <2>5. w.alone => Solo(w)
        BY DEF Solo, Inside, TheOwner, O, Stage
    <2>6. QED
        BY <2>1, <2>2, <2>3, <2>4, <2>5
<1>6. Pending(t) /\ ~Settling(t) /\ talk[t].did # "previewed"
    BY <1>1, <1>2 DEF Pending, Settling, Fits, Stage
<1>7. UNCHANGED <<lessons, bounds, teachingHistory>> /\ SavesOnlyInSession' /\ DiscardedStaysUnsaved'
    BY DEF TheOwner, lessons, teachingHistory, TeachInv, SavesOnlyInSession, DiscardedStaysUnsaved
<1>8. QED
    BY <1>1, <1>3, <1>4, <1>5, <1>6, <1>7, LocalKeeps DEF teachingHistory
LEMMA CaptureKeeps == ASSUME TeachInv, NEW t \in Workers, Capture(t) PROVE TeachInv'
<1> DEFINE w == [talk[t] EXCEPT !.s = O(t).session, !.pc = "dispatch"]
<1>1. Running(t) /\ talk[t].pc = "capture"
    BY DEF Capture, Running
<1>2. /\ talk[t] \in Talk /\ Fits(talk[t])
      /\ O(t) \in Owner /\ O(t).session \in 1..Len(sessions)
      /\ talk[t].s # 0 => talk[t].s \in 1..Len(sessions) /\ S(t) \in Session
    BY <1>1, TurnFacts
<1>3. w \in Talk /\ talk' = [talk EXCEPT ![t] = w]
    BY <1>2 DEF Talk, Labels, Capture, Owner, TeachInv, TeachTypes
<1>4. /\ w.pc = "dispatch" /\ w.s = O(t).session /\ w.n = talk[t].n /\ w.o = talk[t].o
      /\ w.gone = talk[t].gone /\ w.kind = talk[t].kind /\ w.found = talk[t].found /\ w.did = talk[t].did
      /\ w.next = talk[t].next /\ w.open = talk[t].open /\ w.alone = talk[t].alone /\ w.draft = talk[t].draft
      /\ w.target = talk[t].target /\ w.web = talk[t].web /\ w.notes = talk[t].notes
    BY <1>2 DEF Talk, Owner
<1> HIDE DEF w
<1>5. Fits(w)
    <2> USE <1>1, <1>2, <1>4 DEF Fits
    <2>1. Placed(w)
        BY DEF Placed, Inside
    <2>2. Stage(w)
        BY DEF Stage
    <2>3. Opened(w)
        BY DEF Opened
    <2>4. Clear(w)
        BY DEF Clear, O
    <2>5. w.alone => Solo(w)
        BY DEF Solo, Inside, Stage, O
    <2>6. QED
        BY <2>1, <2>2, <2>3, <2>4, <2>5
<1>6. Pending(t) \/ w.pc = "build"
    BY <1>1, <1>4 DEF Pending
<1>7. ~Settling(t) /\ talk[t].did # "previewed"
    BY <1>1, <1>2 DEF Settling, Fits, Stage
<1>8. UNCHANGED <<lessons, bounds, teachingHistory>> /\ SavesOnlyInSession' /\ DiscardedStaysUnsaved'
    BY DEF Capture, lessons, teachingHistory, TeachInv, SavesOnlyInSession, DiscardedStaysUnsaved
<1>9. QED
    BY <1>1, <1>2, <1>3, <1>4, <1>5, <1>6, <1>7, <1>8, LocalKeeps DEF teachingHistory

LEMMA BranchFacts ==
    ASSUME NEW t \in Workers, NEW kind \in Sayings
    PROVE  /\ Branch(t, kind) \in {"exit", "save", "replace", "restart", "verify", "check", "note"}
           /\ Branch(t, kind) = "save" => HasDraft(t)
           /\ kind = "restart" <=> Branch(t, kind) = "restart"
           /\ Branch(t, kind) \in {"verify", "check"} => Branch(t, kind) = kind
BY TeachingAssumption DEF Branch

LEMMA DispatchKeeps == ASSUME TeachInv, NEW t \in Workers, Dispatch(t) PROVE TeachInv'
<1>a. PICK kind \in Sayings : talk' = [talk EXCEPT ![t].kind = kind, ![t].pc = Branch(t, kind)]
    BY DEF Dispatch
<1> DEFINE w == [talk[t] EXCEPT !.kind = kind, !.pc = Branch(t, kind)]
<1>1. Running(t) /\ talk[t].pc = "dispatch"
    BY DEF Dispatch, Running
<1>2. /\ talk[t] \in Talk /\ Fits(talk[t])
      /\ O(t) \in Owner /\ O(t).session \in 1..Len(sessions)
      /\ talk[t].s # 0 => talk[t].s \in 1..Len(sessions) /\ S(t) \in Session
    BY <1>1, TurnFacts
<1>3. w \in Talk /\ talk' = [talk EXCEPT ![t] = w]
    BY <1>2, <1>a, BranchFacts DEF Talk, Labels, TeachInv, TeachTypes
<1>4. /\ w.pc = Branch(t, kind) /\ w.kind = kind /\ w.n = talk[t].n /\ w.o = talk[t].o
      /\ w.s = talk[t].s /\ w.gone = talk[t].gone /\ w.found = talk[t].found /\ w.did = talk[t].did
      /\ w.next = talk[t].next /\ w.open = talk[t].open /\ w.alone = talk[t].alone /\ w.draft = talk[t].draft
      /\ w.target = talk[t].target /\ w.web = talk[t].web /\ w.notes = talk[t].notes
    BY <1>2 DEF Talk
<1> HIDE DEF w
<1>5. Fits(w)
    <2> USE <1>1, <1>2, <1>4 DEF Fits
    <2>1. Placed(w)
        BY BranchFacts DEF Placed, Inside, HasDraft, S
    <2>2. Stage(w)
        BY BranchFacts DEF Stage
    <2>3. Opened(w)
        BY DEF Opened
    <2>4. Clear(w)
        BY BranchFacts DEF Clear
    <2>5. w.alone => Solo(w)
        BY BranchFacts DEF Solo, Inside, Stage
    <2>6. QED
        BY <2>1, <2>2, <2>3, <2>4, <2>5
<1>6. Pending(t) \/ w.pc = "build"
    BY <1>1, <1>4 DEF Pending
<1>7. ~Settling(t) /\ talk[t].did # "previewed"
    BY <1>1, <1>2 DEF Settling, Fits, Stage
<1>8. UNCHANGED <<lessons, bounds, teachingHistory>> /\ SavesOnlyInSession' /\ DiscardedStaysUnsaved'
    BY DEF Dispatch, lessons, teachingHistory, TeachInv, SavesOnlyInSession, DiscardedStaysUnsaved
<1>9. QED
    BY <1>1, <1>2, <1>3, <1>4, <1>5, <1>6, <1>7, <1>8, LocalKeeps, BranchFacts DEF teachingHistory

LEMMA RestartKeeps == ASSUME TeachInv, NEW t \in Workers, Restart(t) PROVE TeachInv'
<1> DEFINE w == [talk[t] EXCEPT !.next = [Fresh EXCEPT !.topic = S(t).topic, !.target = S(t).target, !.web = S(t).web],
                                 !.pc = "replace"]
<1>1. Running(t) /\ talk[t].pc = "restart"
    BY DEF Restart, Running
<1>2. /\ talk[t] \in Talk /\ Fits(talk[t])
      /\ O(t) \in Owner /\ O(t).session \in 1..Len(sessions)
      /\ talk[t].s # 0 => talk[t].s \in 1..Len(sessions) /\ S(t) \in Session
    BY <1>1, TurnFacts
<1>3. w \in Talk /\ talk' = [talk EXCEPT ![t] = w]
    <2>1. talk[t].s # 0
        BY <1>1, <1>2 DEF Fits, Placed, Inside
    <2>2. [Fresh EXCEPT !.topic = S(t).topic, !.target = S(t).target, !.web = S(t).web] \in Session
        BY <1>2, <2>1 DEF Session, Draft, Fresh, NoDraft
    <2>3. QED
        BY <1>2, <2>2 DEF Talk, Labels, Restart, TeachInv, TeachTypes
<1>4. /\ w.pc = "replace" /\ w.next.target = S(t).target /\ w.next.web = S(t).web /\ w.next.notes = {}
      /\ w.next.draft = NoDraft /\ w.n = talk[t].n /\ w.o = talk[t].o /\ w.s = talk[t].s
      /\ w.gone = talk[t].gone /\ w.kind = talk[t].kind /\ w.found = talk[t].found /\ w.did = talk[t].did
      /\ w.open = talk[t].open /\ w.alone = talk[t].alone /\ w.draft = talk[t].draft
      /\ w.target = talk[t].target
      /\ w.web = talk[t].web /\ w.notes = talk[t].notes
    BY <1>2 DEF Talk, Fresh, Session
<1> HIDE DEF w
<1>5. Fits(w)
    <2> USE <1>1, <1>2, <1>4 DEF Fits
    <2>1. Placed(w)
        <3>1. talk[t].s \in 1..Len(sessions)
            BY DEF Placed, Inside
        <3>2. S(t).target \in 0..arrived /\ S(t).web \in 0..arrived
            <4>1. Things(talk[t].s) \subseteq 1..arrived
                BY <3>1 DEF TeachInv, Objects
            <4>2. arrived \in Nat
                BY DEF TeachInv, TeachTypes
            <4>3. QED
                BY <3>1, <4>1, <4>2 DEF Things, Lost, S, Session
        <3>3. QED
            BY <3>1, <3>2 DEF Placed, Inside
    <2>2. Stage(w)
        BY DEF Stage
    <2>3. Opened(w)
        BY DEF Opened
    <2>4. Clear(w)
        BY DEF Clear
    <2>5. w.alone => Solo(w)
        <3>1. ASSUME w.alone PROVE (subject.alone => Current.target = subject.record) /\ S(t) = Current
            BY <3>1, SoloReads DEF Inside, Solo, S, Current
        <3>2. QED
            BY <3>1 DEF Solo, Inside, Stage
    <2>6. QED
        BY <2>1, <2>2, <2>3, <2>4, <2>5
<1>6. Pending(t) \/ w.pc = "build"
    BY <1>1, <1>4 DEF Pending
<1>7. ~Settling(t) /\ talk[t].did # "previewed"
    BY <1>1, <1>2 DEF Settling, Fits, Stage
<1>8. UNCHANGED <<lessons, bounds, teachingHistory>> /\ SavesOnlyInSession' /\ DiscardedStaysUnsaved'
    BY DEF Restart, lessons, teachingHistory, TeachInv, SavesOnlyInSession, DiscardedStaysUnsaved
<1>9. QED
    BY <1>1, <1>2, <1>3, <1>4, <1>5, <1>6, <1>7, <1>8, LocalKeeps DEF teachingHistory, Fits, Placed, Inside

LEMMA SaveArgumentsKeeps == ASSUME TeachInv, NEW t \in Workers, SaveArguments(t) PROVE TeachInv'
<1> DEFINE w == [talk[t] EXCEPT !.draft = S(t).draft, !.target = S(t).target, !.web = S(t).web, !.pc = "write"]
<1>1. Running(t) /\ talk[t].pc = "save"
    BY DEF SaveArguments, Running
<1>2. /\ talk[t] \in Talk /\ Fits(talk[t])
      /\ O(t) \in Owner /\ O(t).session \in 1..Len(sessions)
      /\ talk[t].s # 0 => talk[t].s \in 1..Len(sessions) /\ S(t) \in Session
    BY <1>1, TurnFacts
<1>3. w \in Talk /\ talk' = [talk EXCEPT ![t] = w]
    <2>1. talk[t].s # 0
        BY <1>1, <1>2 DEF Fits, Placed, Inside
    <2>2. QED
        BY <1>2, <2>1 DEF Talk, Labels, SaveArguments, Session, TeachInv, TeachTypes
<1>4. /\ w.pc = "write" /\ w.draft = S(t).draft /\ w.target = S(t).target /\ w.web = S(t).web
      /\ w.n = talk[t].n /\ w.o = talk[t].o /\ w.s = talk[t].s /\ w.gone = talk[t].gone
      /\ w.kind = talk[t].kind /\ w.found = talk[t].found /\ w.did = talk[t].did /\ w.next = talk[t].next
      /\ w.open = talk[t].open /\ w.alone = talk[t].alone /\ w.notes = talk[t].notes
    BY <1>2 DEF Talk, Session
<1> HIDE DEF w
<1>5. Fits(w)
    <2> USE <1>1, <1>2, <1>4 DEF Fits
    <2>1. Placed(w)
        BY DEF Placed, Inside
    <2>2. Stage(w)
        BY DEF Stage
    <2>3. Opened(w)
        BY DEF Opened
    <2>4. Clear(w)
        <3>1. talk[t].s \in 1..Len(sessions) /\ talk[t].gone \subseteq 1..arrived
            BY DEF Placed, Inside
        <3>2. S(t).draft.notes \subseteq S(t).notes
            BY <3>1 DEF TeachInv, Objects, S
        <3>3. talk[t].gone \cap Lost(S(t)) = {}
            BY <3>1 DEF Clear, Things, S
        <3>4. 0 \notin 1..arrived
            BY DEF TeachInv, TeachTypes
        <3>5. talk[t].gone \cap (S(t).draft.notes \cup {S(t).target, S(t).web}) = {}
            BY <3>1, <3>2, <3>3, <3>4 DEF Lost
        <3>6. QED
            BY <3>5 DEF Clear
    <2>5. w.alone => Solo(w)
        <3>1. ASSUME w.alone
              PROVE  /\ subject.alone => S(t).target = subject.record
                     /\ shown.alone => shown.draft = S(t).draft /\ shown.target = S(t).target
            <4>1. S(t) = Current /\ S(t).draft # NoDraft
                BY <3>1 DEF Inside, Solo, S, Current, Placed
            <4>2. QED
                BY <3>1, <4>1, SoloReads DEF Inside
        <3>2. QED
            BY <3>1 DEF Solo, Inside, Stage
    <2>6. QED
        BY <2>1, <2>2, <2>3, <2>4, <2>5
<1>6. Pending(t) \/ w.pc = "build"
    BY <1>1, <1>4 DEF Pending
<1>7. ~Settling(t) /\ talk[t].did # "previewed"
    BY <1>1, <1>2 DEF Settling, Fits, Stage
<1>8. UNCHANGED <<lessons, bounds, teachingHistory>> /\ SavesOnlyInSession' /\ DiscardedStaysUnsaved'
    BY DEF SaveArguments, lessons, teachingHistory, TeachInv, SavesOnlyInSession, DiscardedStaysUnsaved
<1>9. QED
    BY <1>1, <1>2, <1>3, <1>4, <1>5, <1>6, <1>7, <1>8, LocalKeeps DEF teachingHistory

LEMMA VerifyKeeps == ASSUME TeachInv, NEW t \in Workers, Verify(t) PROVE TeachInv'
<1> DEFINE w == [talk[t] EXCEPT !.pc = "evidence"]
<1>1. Running(t) /\ talk[t].pc = "verify"
    BY DEF Verify, Running
<1>2. /\ talk[t] \in Talk /\ Fits(talk[t])
      /\ O(t) \in Owner /\ O(t).session \in 1..Len(sessions)
      /\ talk[t].s # 0 => talk[t].s \in 1..Len(sessions) /\ S(t) \in Session
    BY <1>1, TurnFacts
<1>3. w \in Talk /\ talk' = [talk EXCEPT ![t] = w]
    BY <1>2 DEF Talk, Labels, Verify, Move, TeachInv, TeachTypes
<1>4. /\ w.pc = "evidence" /\ w.n = talk[t].n /\ w.o = talk[t].o /\ w.s = talk[t].s
      /\ w.gone = talk[t].gone /\ w.kind = talk[t].kind /\ w.found = talk[t].found /\ w.did = talk[t].did
      /\ w.next = talk[t].next /\ w.open = talk[t].open /\ w.alone = talk[t].alone /\ w.draft = talk[t].draft
      /\ w.target = talk[t].target /\ w.web = talk[t].web /\ w.notes = talk[t].notes
    BY <1>2 DEF Talk
<1> HIDE DEF w
<1>5. Fits(w)
    <2> USE <1>1, <1>2, <1>4 DEF Fits
    <2>1. Placed(w)
        BY DEF Placed, Inside
    <2>2. Stage(w)
        BY DEF Stage
    <2>3. Opened(w)
        BY DEF Opened
    <2>4. Clear(w)
        BY DEF Clear
    <2>5. w.alone => Solo(w)
        BY DEF Solo, Inside, Stage
    <2>6. QED
        BY <2>1, <2>2, <2>3, <2>4, <2>5
<1>6. Pending(t) \/ w.pc = "build"
    BY <1>1, <1>4 DEF Pending
<1>7. ~Settling(t) /\ talk[t].did # "previewed"
    BY <1>1, <1>2 DEF Settling, Fits, Stage
<1>8. UNCHANGED <<lessons, bounds, teachingHistory>> /\ SavesOnlyInSession' /\ DiscardedStaysUnsaved'
    BY DEF Verify, lessons, teachingHistory, TeachInv, SavesOnlyInSession, DiscardedStaysUnsaved
<1>9. QED
    BY <1>1, <1>2, <1>3, <1>4, <1>5, <1>6, <1>7, <1>8, LocalKeeps DEF teachingHistory

LEMMA CheckKeeps == ASSUME TeachInv, NEW t \in Workers, Check(t) PROVE TeachInv'
<1>a. PICK found \in {talk[t].n, 0} :
          talk' = [talk EXCEPT ![t].found = found, ![t].next.topic = talk[t].n, ![t].pc = "replace"]
    BY DEF Check
<1> DEFINE w == [talk[t] EXCEPT !.found = found, !.next.topic = talk[t].n, !.pc = "replace"]
<1>1. Running(t) /\ talk[t].pc = "check"
    BY DEF Check, Running
<1>2. /\ talk[t] \in Talk /\ Fits(talk[t])
      /\ O(t) \in Owner /\ O(t).session \in 1..Len(sessions)
      /\ talk[t].s # 0 => talk[t].s \in 1..Len(sessions) /\ S(t) \in Session
    BY <1>1, TurnFacts
<1>3. w \in Talk /\ talk' = [talk EXCEPT ![t] = w]
    <2>1. found \in Nat
        BY <1>2, <1>a DEF Talk
    <2>2. [talk[t].next EXCEPT !.topic = talk[t].n] \in Session
        BY <1>2 DEF Talk, Session
    <2>3. QED
        BY <1>2, <1>a, <2>1, <2>2 DEF Talk, Labels, TeachInv, TeachTypes
<1>4. /\ w.pc = "replace" /\ w.found = found /\ w.next.target = talk[t].next.target
      /\ w.next.web = talk[t].next.web
      /\ w.next.notes = talk[t].next.notes /\ w.next.draft = talk[t].next.draft /\ w.n = talk[t].n
      /\ w.o = talk[t].o
      /\ w.s = talk[t].s /\ w.gone = talk[t].gone /\ w.kind = talk[t].kind /\ w.did = talk[t].did
      /\ w.open = talk[t].open /\ w.alone = talk[t].alone /\ w.draft = talk[t].draft
      /\ w.target = talk[t].target
      /\ w.web = talk[t].web /\ w.notes = talk[t].notes
    BY <1>2 DEF Talk, Session
<1> HIDE DEF w
<1>5. Fits(w)
    <2> USE <1>1, <1>2, <1>4 DEF Fits
    <2>1. Placed(w)
        BY DEF Placed, Inside
    <2>2. Stage(w)
        BY <1>a DEF Stage
    <2>3. Opened(w)
        BY DEF Opened
    <2>4. Clear(w)
        BY DEF Clear
    <2>5. w.alone => Solo(w)
        BY DEF Solo, Inside, Stage
    <2>6. QED
        BY <2>1, <2>2, <2>3, <2>4, <2>5
<1>6. Pending(t) \/ w.pc = "build"
    BY <1>1, <1>4 DEF Pending
<1>7. ~Settling(t) /\ talk[t].did # "previewed"
    BY <1>1, <1>2 DEF Settling, Fits, Stage
<1>8. UNCHANGED <<lessons, bounds, teachingHistory>> /\ SavesOnlyInSession' /\ DiscardedStaysUnsaved'
    BY DEF Check, lessons, teachingHistory, TeachInv, SavesOnlyInSession, DiscardedStaysUnsaved
<1>9. QED
    BY <1>1, <1>2, <1>3, <1>4, <1>5, <1>6, <1>7, <1>8, LocalKeeps DEF teachingHistory

LEMMA StructureKeeps == ASSUME TeachInv, NEW t \in Workers, Structure(t) PROVE TeachInv'
<1> DEFINE w == [talk[t] EXCEPT !.notes = S(t).notes, !.pc = "build"]
<1>1. Running(t) /\ talk[t].pc = "existing"
    BY DEF Structure, Running
<1>2. /\ talk[t] \in Talk /\ Fits(talk[t])
      /\ O(t) \in Owner /\ O(t).session \in 1..Len(sessions)
      /\ talk[t].s # 0 => talk[t].s \in 1..Len(sessions) /\ S(t) \in Session
    BY <1>1, TurnFacts
<1>3. w \in Talk /\ talk' = [talk EXCEPT ![t] = w]
    <2>1. talk[t].s # 0
        BY <1>1, <1>2 DEF Fits, Placed, Inside
    <2>2. QED
        BY <1>2, <2>1 DEF Talk, Labels, Structure, Session, TeachInv, TeachTypes
<1>4. /\ w.pc = "build" /\ w.notes = S(t).notes /\ w.n = talk[t].n /\ w.o = talk[t].o
      /\ w.s = talk[t].s /\ w.gone = talk[t].gone /\ w.kind = talk[t].kind /\ w.found = talk[t].found
      /\ w.did = talk[t].did /\ w.next = talk[t].next /\ w.open = talk[t].open /\ w.alone = talk[t].alone
      /\ w.draft = talk[t].draft /\ w.target = talk[t].target /\ w.web = talk[t].web
    BY <1>2 DEF Talk
<1> HIDE DEF w
<1>5. Fits(w)
    <2> USE <1>1, <1>2, <1>4 DEF Fits
    <2>1. Placed(w)
        BY DEF Placed, Inside, S
    <2>2. Stage(w)
        BY DEF Stage
    <2>3. Opened(w)
        BY DEF Opened
    <2>4. Clear(w)
        BY DEF Clear
    <2>5. w.alone => Solo(w)
        BY DEF Solo, Inside, Stage
    <2>6. QED
        BY <2>1, <2>2, <2>3, <2>4, <2>5
<1>6. Pending(t) \/ w.pc = "build"
    BY <1>1, <1>4 DEF Pending
<1>7. ~Settling(t) /\ talk[t].did # "previewed"
    BY <1>1, <1>2 DEF Settling, Fits, Stage
<1>8. UNCHANGED <<lessons, bounds, teachingHistory>> /\ SavesOnlyInSession' /\ DiscardedStaysUnsaved'
    BY DEF Structure, lessons, teachingHistory, TeachInv, SavesOnlyInSession, DiscardedStaysUnsaved
<1>9. QED
    BY <1>1, <1>2, <1>3, <1>4, <1>5, <1>6, <1>7, <1>8, LocalKeeps DEF teachingHistory

LEMMA NotTheOwnerKeeps == ASSUME TeachInv, NEW t \in Workers, NotTheOwner(t) PROVE TeachInv'
<1>1. Running(t) /\ talk[t].pc = "begun"
    BY DEF NotTheOwner, Running
<1>2. Stage(talk[t])
    BY <1>1 DEF TeachInv, Turns, Fits
<1>3. ~Settling(t) /\ talk[t].did # "previewed"
    BY <1>1, <1>2 DEF Settling, Stage
<1>4. QED
    BY <1>1, <1>3, ReturnKeeps DEF NotTheOwner

LEMMA SaveRefusedKeeps == ASSUME TeachInv, NEW t \in Workers, SaveRefused(t) PROVE TeachInv'
<1>1. Running(t) /\ talk[t].pc = "write"
    BY DEF SaveRefused, Running
<1>2. Stage(talk[t])
    BY <1>1 DEF TeachInv, Turns, Fits
<1>3. ~Settling(t) /\ talk[t].did # "previewed"
    BY <1>1, <1>2 DEF Settling, Stage
<1>4. QED
    BY <1>1, <1>3, ReturnKeeps DEF SaveRefused

LEMMA NoVerifyKeeps == ASSUME TeachInv, NEW t \in Workers, NoVerify(t) PROVE TeachInv'
<1>1. Running(t) /\ talk[t].pc = "verify"
    BY DEF NoVerify, Running
<1>2. Stage(talk[t])
    BY <1>1 DEF TeachInv, Turns, Fits
<1>3. ~Settling(t) /\ talk[t].did # "previewed"
    BY <1>1, <1>2 DEF Settling, Stage
<1>4. QED
    BY <1>1, <1>3, ReturnKeeps DEF NoVerify

LEMMA RecordMissingKeeps == ASSUME TeachInv, NEW t \in Workers, RecordMissing(t) PROVE TeachInv'
<1>1. Running(t) /\ talk[t].pc = "existing"
    BY DEF RecordMissing, Running
<1>2. Stage(talk[t])
    BY <1>1 DEF TeachInv, Turns, Fits
<1>3. ~Settling(t) /\ talk[t].did # "previewed"
    BY <1>1, <1>2 DEF Settling, Stage
<1>4. QED
    BY <1>1, <1>3, ReturnKeeps DEF RecordMissing
LEMMA SaveWritesKeeps == ASSUME TeachInv, NEW t \in Workers, SaveWrites(t) PROVE TeachInv'
<1> DEFINE w == [talk[t] EXCEPT !.did = "saved", !.pc = "replace"]
<1>1. Running(t) /\ talk[t].pc = "write"
    BY DEF SaveWrites, Running
<1>2. talk[t] \in Talk /\ Fits(talk[t])
    BY <1>1, TurnFacts
<1>3. w \in Talk /\ talk' = [talk EXCEPT ![t] = w]
    BY <1>2 DEF Talk, Labels, SaveWrites, TeachInv, TeachTypes
<1>4. /\ w.pc = "replace" /\ w.did = "saved" /\ w.n = talk[t].n /\ w.o = talk[t].o
      /\ w.s = talk[t].s /\ w.gone = talk[t].gone /\ w.kind = talk[t].kind /\ w.found = talk[t].found
      /\ w.next = talk[t].next /\ w.open = talk[t].open /\ w.alone = talk[t].alone
      /\ w.draft = talk[t].draft /\ w.target = talk[t].target /\ w.web = talk[t].web
      /\ w.notes = talk[t].notes
    BY <1>2 DEF Talk
<1> HIDE DEF w
<1>5. Fits(w)
    <2> USE <1>1, <1>2, <1>4 DEF Fits
    <2>1. Placed(w)
        BY DEF Placed, Inside
    <2>2. Stage(w)
        BY DEF Stage
    <2>3. Opened(w)
        BY DEF Opened
    <2>4. Clear(w)
        BY DEF Clear
    <2>5. w.alone => Solo(w)
        BY DEF Solo, Inside, Stage
    <2>6. QED
        BY <2>1, <2>2, <2>3, <2>4, <2>5
<1>6. \A x \in saves' :
          \/ x \in saves
          \/ x = [draft |-> talk[t].draft, target |-> talk[t].target, web |-> talk[t].web,
                  open |-> talk[t].open, gone |-> talk[t].gone]
    BY DEF SaveWrites
<1>7. SavesOnlyInSession'
    <2>1. talk[t].open
        BY <1>1, <1>2 DEF Fits, Opened
    <2>2. QED
        BY <1>6, <2>1 DEF SavesOnlyInSession, TeachInv
<1>8. DiscardedStaysUnsaved'
    <2>1. talk[t].gone \cap (talk[t].draft.notes \cup {talk[t].target, talk[t].web}) = {}
        BY <1>1, <1>2 DEF Fits, Clear
    <2>2. QED
        BY <1>6, <2>1 DEF DiscardedStaysUnsaved, TeachInv
<1>9. ~Settling(t) /\ talk[t].did # "previewed" /\ Pending(t)
    BY <1>1, <1>2 DEF Settling, Fits, Stage, Pending
<1>10. UNCHANGED <<lessons, bounds, entered, gone, shown, subject>>
    BY DEF SaveWrites
<1>11. QED
    BY <1>1, <1>3, <1>4, <1>5, <1>7, <1>8, <1>9, <1>10, LocalKeeps

-----------------------------------------------------------------------------
(***************************************************************************)
(* Steps that change the objects.                                          *)
(***************************************************************************)
LEMMA SessionAdded ==
    ASSUME TeachInv, NEW v \in Session, sessions' = Append(sessions, v)
    PROVE  /\ sessions' \in Seq(Session) /\ Len(sessions) \in Nat /\ Len(sessions') = Len(sessions) + 1
           /\ \A y \in 1..Len(sessions) : sessions'[y] = sessions[y] /\ Things(y)' = Things(y)
           /\ sessions'[Len(sessions) + 1] = v
BY AppendProperties, LenProperties DEF TeachInv, TeachTypes, Things

LEMMA SessionEdited ==
    ASSUME TeachInv, NEW x \in 1..Len(sessions), NEW v \in Session, sessions' = [sessions EXCEPT ![x] = v]
    PROVE  /\ sessions' \in Seq(Session) /\ Len(sessions') = Len(sessions)
           /\ \A y \in 1..Len(sessions) : sessions'[y] = IF y = x THEN v ELSE sessions[y]
<1>1. sessions \in Seq(Session) /\ sessions = [y \in 1..Len(sessions) |-> sessions[y]]
    BY DEF TeachInv, TeachTypes
<1>2. QED
    BY <1>1, ExceptSeq

LEMMA OwnerEdited ==
    ASSUME TeachInv, NEW o \in 1..Len(owners), NEW v \in Owner, owners' = [owners EXCEPT ![o] = v]
    PROVE  /\ owners' \in Seq(Owner) /\ Len(owners') = Len(owners)
           /\ \A p \in 1..Len(owners) : owners'[p] = IF p = o THEN v ELSE owners[p]
<1>1. owners \in Seq(Owner) /\ owners = [p \in 1..Len(owners) |-> owners[p]]
    BY DEF TeachInv, TeachTypes
<1>2. QED
    BY <1>1, ExceptSeq

\* A new OwnerState with a fresh session; everything there was is as it was.
LEMMA OwnerAdded ==
    ASSUME TeachInv, AddOwner
    PROVE  /\ owners' \in Seq(Owner) /\ sessions' \in Seq(Session)
           /\ Len(owners) \in Nat /\ Len(sessions) \in Nat
           /\ Len(owners') = Len(owners) + 1 /\ Len(sessions') = Len(sessions) + 1
           /\ \A p \in 1..Len(owners) : owners'[p] = owners[p]
           /\ \A y \in 1..Len(sessions) : sessions'[y] = sessions[y] /\ Things(y)' = Things(y)
           /\ owner' = Len(owners) + 1
           /\ owners'[owner'] = [auth |-> FALSE, session |-> Len(sessions) + 1]
           /\ sessions'[Len(sessions) + 1] = Fresh
           /\ owners'[owner'].session = Len(sessions) + 1 /\ ~owners'[owner'].auth
           /\ Lost(sessions'[Len(sessions) + 1]) = {}
           /\ Fresh.draft = NoDraft /\ Fresh.target = 0
<1>1. Fresh \in Session
    BY DEF Fresh, NoDraft, Session, Draft
<1>2. /\ sessions' \in Seq(Session) /\ Len(sessions) \in Nat /\ Len(sessions') = Len(sessions) + 1
      /\ \A y \in 1..Len(sessions) : sessions'[y] = sessions[y] /\ Things(y)' = Things(y)
      /\ sessions'[Len(sessions) + 1] = Fresh
    BY <1>1, SessionAdded DEF AddOwner
<1> DEFINE a == [auth |-> FALSE, session |-> Len(sessions) + 1]
<1>3. a \in Owner
    BY <1>2 DEF Owner
<1>4. owners' = Append(owners, a) /\ owner' = Len(owners) + 1
    BY DEF AddOwner
<1>5. a.session = Len(sessions) + 1 /\ ~a.auth
    OBVIOUS
<1> HIDE DEF a
<1>6. /\ owners' \in Seq(Owner) /\ Len(owners) \in Nat /\ Len(owners') = Len(owners) + 1
      /\ \A p \in 1..Len(owners) : owners'[p] = owners[p]
      /\ owners'[Len(owners) + 1] = a
    BY <1>3, <1>4, AppendProperties, LenProperties DEF TeachInv, TeachTypes
<1>7. Lost(Fresh) = {} /\ Fresh.draft = NoDraft /\ Fresh.target = 0
    BY DEF Lost, Fresh
<1>8. Lost(sessions'[Len(sessions) + 1]) = {}
    BY <1>2, <1>7
<1>9. QED
    BY <1>2, <1>4, <1>5, <1>6, <1>7, <1>8 DEF a

\* The turn puts what it brought, if anything, into a session it can reach.
LEMMA EditKeeps ==
    ASSUME TeachInv, NEW t \in Workers, Running(t), NEW w \in Talk \cup {NoTalk},
           NEW x \in 1..Len(sessions), InRoom(talk[t].o, x), NEW v \in Session,
           sessions' = [sessions EXCEPT ![x] = v], talk' = [talk EXCEPT ![t] = w],
           UNCHANGED <<owner, owners, bounds, teachingHistory>>,
           sessions[x].notes \subseteq v.notes, v.draft.notes \subseteq v.notes,
           sessions[x].draft # NoDraft => v.draft # NoDraft,
           \/ Lost(v) \subseteq Things(x)
           \/ Lost(v) \subseteq Things(x) \cup {talk[t].n} /\ Pending(t) /\ ~Pending(t)',
           Running(t)' =>
              /\ w.n = talk[t].n /\ w.o = talk[t].o /\ w.s = talk[t].s /\ w.gone = talk[t].gone
              /\ w.alone = talk[t].alone /\ w.next = talk[t].next
              /\ Fits(talk[t])',
           Pending(t)' => Pending(t),
           ShownIsCurrent', SubjectIsCurrent'
    PROVE  TeachInv'
<1> USE DEF TeachInv
<1>1. /\ talk'[t] = w /\ \A u \in Workers \ {t} : talk'[u] = talk[u]
      /\ talk' \in [Workers -> Talk \cup {NoTalk}]
      /\ UNCHANGED <<owner, owners, arrived, overlaps, routed, saves, entered, gone, shown, subject>>
    BY DEF bounds, teachingHistory, TeachTypes
<1>2. \A u \in Workers : Running(u)' =>
          /\ Running(u) /\ talk'[u].n = talk[u].n /\ talk'[u].o = talk[u].o /\ talk'[u].s = talk[u].s
          /\ talk'[u].gone = talk[u].gone /\ talk'[u].alone = talk[u].alone /\ talk'[u].next = talk[u].next
    BY <1>1 DEF Running
<1>3. /\ sessions' \in Seq(Session) /\ Len(sessions') = Len(sessions)
      /\ \A y \in 1..Len(sessions) : sessions'[y] = IF y = x THEN v ELSE sessions[y]
    BY SessionEdited
<1>4. \A y \in 1..Len(sessions) :
          /\ y # x => Things(y)' = Things(y)
          /\ Things(y)' \subseteq Things(y) \cup {talk[t].n}
          /\ sessions[y].notes \subseteq sessions'[y].notes
          /\ sessions[y].draft # NoDraft => sessions'[y].draft # NoDraft
    BY <1>3 DEF Things
<1>5. talk[t].n \in 1..arrived /\ talk[t].n \in Nat
    BY DEF Turns, Fits, Placed
<1>6. \A y \in 1..Len(sessions), n \in Nat : n \in Things(y)' /\ n \notin Things(y) =>
          y = x /\ n = talk[t].n /\ Pending(t) /\ ~Pending(t)'
    BY <1>3 DEF Things
<1>7. /\ \A o \in 1..Len(owners) : owners[o].session \in 1..Len(sessions)
      /\ owner # 0 => owner \in 1..Len(owners)
      /\ \A u \in Workers : Running(u) => talk[u].o \in 1..Len(owners) /\ talk[u].s \in 0..Len(sessions)
      /\ \A u \in Workers : Running(u) /\ talk[u].s # 0 => talk[u].s \in 1..Len(sessions)
      /\ \A u \in Workers : Running(u) => talk[u].gone \subseteq 1..arrived
    <2>1. Objects /\ Turns /\ TeachTypes
        OBVIOUS
    <2>2. \A o \in 1..Len(owners) : owners[o].session \in 1..Len(sessions)
        BY ONLY <2>1 DEF Objects
    <2>3. owner # 0 => owner \in 1..Len(owners)
        BY ONLY <2>1 DEF Objects, TeachTypes
    <2>4. ASSUME NEW u \in Workers, Running(u)
          PROVE  /\ talk[u].o \in 1..Len(owners) /\ talk[u].s \in 0..Len(sessions)
                 /\ talk[u].gone \subseteq 1..arrived
        BY ONLY <2>1, <2>4 DEF Turns, Fits, Placed
    <2>5. \A k \in 0..Len(sessions) : k # 0 => k \in 1..Len(sessions)
        BY ONLY LenProperties, <2>1 DEF TeachTypes
    <2>6. QED
        BY ONLY <2>2, <2>3, <2>4, <2>5
<1> USE <1>1, <1>2, <1>3, <1>4, <1>5, <1>6, <1>7
<1>8. TeachTypes'
    BY DEF TeachTypes
<1>9. Objects'
    <2>1. ASSUME NEW y \in 1..Len(sessions)
          PROVE  sessions'[y].draft.notes \subseteq sessions'[y].notes /\ Things(y)' \subseteq 1..arrived
        BY DEF Objects
    <2>2. QED
        BY <2>1 DEF Objects
<1>10. Turns'
    <2>1. ASSUME NEW u \in Workers \ {t}, Running(u)' PROVE Fits(talk[u])'
        <3>1. Fits(talk[u])
            BY <2>1 DEF Turns
        <3> USE <2>1, <3>1 DEF Fits
        <3>2. Placed(talk[u])'
            BY DEF Placed, Inside
        <3>3. Stage(talk[u])'
            BY DEF Stage
        <3>4. Opened(talk[u])'
            BY DEF Opened
        <3>5. talk[t].n \notin talk[u].gone \/ ~Pending(t)
            BY DEF Unused
        <3>6. Clear(talk[u])'
            BY <3>5 DEF Clear
        <3>7. ~talk'[u].alone
            BY DEF Turns
        <3>8. QED
            BY <3>2, <3>3, <3>4, <3>6, <3>7
    <2>2. QED
        BY <2>1 DEF Turns
<1>11. Unused'
    <2> SUFFICES ASSUME NEW u \in Workers, Pending(u)'
                 PROVE  /\ talk'[u].n \notin gone
                        /\ \A y \in 1..Len(sessions) : talk'[u].n \notin Things(y)'
                        /\ \A r \in Workers : Running(r)' =>
                              talk'[u].n \notin talk'[r].gone \cup {talk'[r].next.target, talk'[r].next.web}
        BY DEF Unused
    <2>1. Pending(u) /\ Running(u)'
        BY DEF Pending
    <2>2. talk[u].n \in Nat
        BY <2>1 DEF Turns, Fits, Placed
    <2>3. ~(Pending(t) /\ ~Pending(t)') \/ talk[u].n # talk[t].n
        BY <2>1 DEF Turns
    <2>4. QED
        BY <2>1, <2>2, <2>3 DEF Unused
<1>12. Apart'
    <2>1. \A o \in 1..Len(owners) : \A y \in 1..Len(sessions) : InRoom(o, y)' => InRoom(o, y)
        BY DEF InRoom
    <2>2. ASSUME NEW o \in 1..Len(owners), NEW n \in 1..arrived, Has(o, n)' PROVE Has(o, n)
        <3>1. InRoom(o, x) => o = talk[t].o
            BY DEF Apart
        <3>2. n \in Nat
            BY DEF TeachTypes
        <3>3. CASE n \in Things(owners[o].session)'
            <4>1. owners[o].session = x => InRoom(o, x)
                BY DEF InRoom
            <4>2. QED
                BY <3>1, <3>2, <3>3, <4>1 DEF Has
        <3>4. CASE n \notin Things(owners[o].session)'
            <4>1. PICK u \in Workers : Running(u)' /\ talk'[u].o = o /\
                        \/ n \in {talk'[u].n, talk'[u].next.target, talk'[u].next.web}
                        \/ talk'[u].s # 0 /\ n \in Lost(sessions'[talk'[u].s])
                BY <2>2, <3>4 DEF Has, Things
            <4>2. talk[u].s = x => InRoom(o, x)
                BY <4>1 DEF InRoom
            <4>3. QED
                <5>2. talk[u].s # 0 /\ n \in Lost(sessions'[talk'[u].s]) =>
                          n \in Things(talk[u].s) \/ (talk[u].s = x /\ n = talk[t].n)
                    <6> SUFFICES ASSUME talk[u].s # 0, n \in Lost(sessions'[talk'[u].s])
                                 PROVE  n \in Things(talk[u].s) \/ (talk[u].s = x /\ n = talk[t].n)
                        OBVIOUS
                    <6>1. talk[u].s \in 1..Len(sessions) /\ talk'[u].s = talk[u].s
                        BY <4>1
                    <6>2. n \notin Things(talk[u].s) => talk[u].s = x /\ n = talk[t].n
                        <7> HIDE <1>1, <1>2, <1>3, <1>4, <1>5, <1>6, <1>7
                        <7>1. \A y \in 1..Len(sessions), k \in Nat :
                                  k \in Lost(sessions'[y]) /\ k \notin Things(y) => y = x /\ k = talk[t].n
                            BY <1>6 DEF Things
                        <7>2. QED
                            BY <3>2, <6>1, <7>1
                    <6>3. QED
                        BY <6>2
                <5>3. QED
                    BY <3>1, <3>2, <4>1, <4>2, <5>2 DEF Has
        <3>5. QED
            BY <3>3, <3>4
    <2>3. QED
        BY <2>1, <2>2 DEF Apart
<1>13. OwnerEntered' /\ SavesOnlyInSession' /\ DiscardedStaysUnsaved'
    BY DEF OwnerEntered, SavesOnlyInSession, DiscardedStaysUnsaved
<1>14. OwnerClear'
    <2>1. talk[t].n \notin gone \/ ~Pending(t)
        BY DEF Unused
    <2>2. QED
        BY <2>1 DEF OwnerClear
<1>15. QED
    BY <1>8, <1>9, <1>10, <1>11, <1>12, <1>13, <1>14
LEMMA EvidenceKeeps == ASSUME TeachInv, NEW t \in Workers, Evidence(t) PROVE TeachInv'
<1>1. Running(t) /\ talk[t].pc = "evidence"
    BY DEF Evidence, Running
<1>2. /\ talk[t] \in Talk /\ Fits(talk[t])
      /\ talk[t].o \in 1..Len(owners) /\ O(t) \in Owner /\ O(t).session \in 1..Len(sessions)
      /\ talk[t].s # 0 => talk[t].s \in 1..Len(sessions) /\ S(t) \in Session
      /\ \A x \in 1..Len(sessions) : sessions[x] \in Session
    BY <1>1, TurnFacts
<1>3. /\ talk[t].n \in 1..arrived /\ talk[t].n \in Nat /\ talk[t].n # 0
    BY <1>2 DEF Fits, Placed, Talk
<1>4. /\ owner # 0 => owner \in 1..Len(owners) /\ owners[owner].session \in 1..Len(sessions)
      /\ \A u \in Workers : Running(u) => talk[u] \in Talk
    BY TurnIsTyped DEF TeachInv, TeachTypes, Objects
<1>5. talk[t].s \in 1..Len(sessions) /\ S(t) = sessions[talk[t].s] /\ S(t) \in Session
    BY <1>1, <1>2 DEF Fits, Placed, Inside, S
<1>6. S(t).draft.notes \subseteq S(t).notes /\ Things(talk[t].s) = Lost(S(t))
    BY <1>5 DEF TeachInv, Objects, Things
<1>7. InRoom(talk[t].o, talk[t].s)
    BY <1>1 DEF InRoom
<1>8. PICK found \in {talk[t].n, 0} : sessions' = [sessions EXCEPT ![talk[t].s].web = found]
    BY DEF Evidence
<1> DEFINE v == [S(t) EXCEPT !.web = found]
<1>9. /\ v \in Session /\ v.notes = S(t).notes /\ v.draft = S(t).draft /\ v.target = S(t).target
      /\ v.web = found
    BY <1>3, <1>5 DEF Session
<1>10. sessions' = [sessions EXCEPT ![talk[t].s] = v]
    BY <1>8 DEF S
<1> HIDE DEF v
<1>11. Lost(v) \subseteq Things(talk[t].s) \cup {talk[t].n}
    BY <1>6, <1>9 DEF Lost
<1>12. /\ talk' = [talk EXCEPT ![t] = NoTalk] /\ ~Running(t)' /\ ~Pending(t)' /\ Pending(t)
       /\ \A u \in Workers : Running(u)' => u # t /\ Running(u) /\ talk'[u] = talk[u]
       /\ UNCHANGED <<owner, owners, bounds, teachingHistory>>
    BY <1>1 DEF Evidence, Return, Pending, Running, NoTalk, TeachInv, TeachTypes
<1>13. \A x \in 1..Len(sessions) : sessions'[x].draft = sessions[x].draft /\ sessions'[x].target = sessions[x].target
    BY <1>5, <1>9, <1>10, SessionEdited
<1>14. talk[t].did # "previewed" /\ ~Settling(t)
    BY <1>1, <1>2 DEF Fits, Stage, Settling
<1>15. ShownIsCurrent'
    <2>1. (\A u \in Workers : Running(u)' => talk'[u].did # "previewed")
             => \A u \in Workers : Running(u) => talk[u].did # "previewed"
        BY <1>12, <1>14 DEF Running, Evidence, Return, TeachInv, TeachTypes
    <2>2. QED
        BY <1>4, <1>12, <1>13, <2>1 DEF ShownIsCurrent, Current, TeachInv, teachingHistory
<1>16. SubjectIsCurrent'
    <2>1. (\A u \in Workers : ~Settling(u)') => \A u \in Workers : ~Settling(u)
        BY <1>12, <1>14 DEF Settling, Running, Evidence, Return, TeachInv, TeachTypes
    <2>2. QED
        BY <1>4, <1>12, <1>13, <2>1 DEF SubjectIsCurrent, Current, TeachInv, teachingHistory
<1>17. QED
    BY <1>1, <1>5, <1>6, <1>7, <1>9, <1>10, <1>11, <1>12, <1>15, <1>16, EditKeeps

LEMMA NoteKeeps == ASSUME TeachInv, NEW t \in Workers, Note(t) PROVE TeachInv'
<1>1. Running(t) /\ talk[t].pc = "note"
    BY DEF Note, Running
<1>2. /\ talk[t] \in Talk /\ Fits(talk[t])
      /\ talk[t].o \in 1..Len(owners) /\ O(t) \in Owner /\ O(t).session \in 1..Len(sessions)
      /\ talk[t].s # 0 => talk[t].s \in 1..Len(sessions) /\ S(t) \in Session
      /\ \A x \in 1..Len(sessions) : sessions[x] \in Session
    BY <1>1, TurnFacts
<1>3. /\ talk[t].n \in 1..arrived /\ talk[t].n \in Nat /\ talk[t].n # 0
    BY <1>2 DEF Fits, Placed, Talk
<1>4. /\ owner # 0 => owner \in 1..Len(owners) /\ owners[owner].session \in 1..Len(sessions)
      /\ \A u \in Workers : Running(u) => talk[u] \in Talk
    BY TurnIsTyped DEF TeachInv, TeachTypes, Objects
<1>5. talk[t].s \in 1..Len(sessions) /\ S(t) = sessions[talk[t].s] /\ S(t) \in Session
    BY <1>1, <1>2 DEF Fits, Placed, Inside, S
<1>6. S(t).draft.notes \subseteq S(t).notes /\ Things(talk[t].s) = Lost(S(t))
    BY <1>5 DEF TeachInv, Objects, Things
<1>7. InRoom(talk[t].o, talk[t].s)
    BY <1>1 DEF InRoom
<1> DEFINE v == [S(t) EXCEPT !.notes = @ \cup {talk[t].n}]
           w == [talk[t] EXCEPT !.pc = "existing"]
<1>8. /\ v \in Session /\ v.notes = S(t).notes \cup {talk[t].n} /\ v.draft = S(t).draft
      /\ v.target = S(t).target /\ v.web = S(t).web
    BY <1>3, <1>5 DEF Session
<1>9. sessions' = [sessions EXCEPT ![talk[t].s] = v]
    BY <1>5 DEF Note
<1>10. w \in Talk /\ talk' = [talk EXCEPT ![t] = w]
    BY <1>2 DEF Note, Move, Talk, Labels, TeachInv, TeachTypes
<1>11. /\ w.pc = "existing" /\ w.n = talk[t].n /\ w.o = talk[t].o /\ w.s = talk[t].s /\ w.gone = talk[t].gone
       /\ w.kind = talk[t].kind /\ w.found = talk[t].found /\ w.did = talk[t].did /\ w.next = talk[t].next
       /\ w.open = talk[t].open /\ w.alone = talk[t].alone
       /\ w.draft = talk[t].draft /\ w.target = talk[t].target /\ w.web = talk[t].web /\ w.notes = talk[t].notes
    BY <1>2 DEF Talk
<1> HIDE DEF v, w
<1>12. Lost(v) \subseteq Things(talk[t].s) \cup {talk[t].n}
    BY <1>6, <1>8 DEF Lost
<1>13. /\ talk'[t] = w /\ \A u \in Workers \ {t} : talk'[u] = talk[u]
       /\ Running(t)' /\ Pending(t) /\ ~Pending(t)'
       /\ UNCHANGED <<owner, owners, arrived, overlaps, routed, saves, entered, gone, shown, subject>>
    BY <1>1, <1>10, <1>11 DEF Note, Pending, Running, TeachInv, TeachTypes, bounds, teachingHistory
<1>14. /\ \A x \in 1..Len(sessions) : sessions'[x].draft = sessions[x].draft /\ sessions'[x].target = sessions[x].target
       /\ \A x \in 1..Len(sessions) : x # talk[t].s => sessions'[x] = sessions[x]
       /\ sessions'[talk[t].s] = v /\ Len(sessions') = Len(sessions)
    BY <1>5, <1>8, <1>9, SessionEdited
<1>15. talk[t].n \notin talk[t].gone
    BY <1>1, <1>13 DEF TeachInv, Unused
<1>16. Fits(talk[t])'
    <2> USE <1>1, <1>2, <1>11, <1>13 DEF Fits
    <2>1. Placed(talk[t])'
        BY <1>14 DEF Placed, Inside
    <2>2. Stage(talk[t])'
        BY DEF Stage
    <2>3. Opened(talk[t])'
        BY DEF Opened
    <2>4. Clear(talk[t])'
        <3>1. \A x \in 1..Len(sessions) : Lost(sessions'[x]) \subseteq Things(x) \cup {talk[t].n}
            BY <1>12, <1>14 DEF Things
        <3>2. owners[w.o].session \in 1..Len(sessions) /\ w.s \in 1..Len(sessions)
            BY <1>5 DEF O
        <3>3. /\ talk[t].gone \cap Things(owners[w.o].session) = {}
              /\ talk[t].gone \cap Things(w.s) = {}
            BY <1>5 DEF Clear, Inside
        <3>4. /\ w.gone \cap Lost(sessions'[owners[w.o].session]) = {}
              /\ w.gone \cap Lost(sessions'[w.s]) = {}
            BY <1>15, <3>1, <3>2, <3>3
        <3>5. QED
            BY <3>4 DEF Clear, Things
    <2>5. w.alone => Solo(talk[t])'
        BY DEF Solo, Inside, Stage
    <2>6. QED
        BY <2>1, <2>2, <2>3, <2>4, <2>5
<1>17. talk[t].did # "previewed" /\ ~Settling(t)
    BY <1>1, <1>2 DEF Fits, Stage, Settling
<1>18. ShownIsCurrent'
    <2>1. (\A u \in Workers : Running(u)' => talk'[u].did # "previewed")
             => \A u \in Workers : Running(u) => talk[u].did # "previewed"
        BY <1>13, <1>17 DEF Running
    <2>2. \A u \in Workers : Running(u)' /\ talk'[u].pc = "target"
              => Running(u) /\ talk'[u].o = talk[u].o /\ talk[u].pc = "target"
        BY <1>11, <1>13 DEF Running
    <2>3. QED
        BY <1>4, <1>13, <1>14, <2>1, <2>2 DEF ShownIsCurrent, Current, TeachInv
<1>19. SubjectIsCurrent'
    <2>1. (\A u \in Workers : ~Settling(u)') => \A u \in Workers : ~Settling(u)
        BY <1>13, <1>17 DEF Settling, Running
    <2>2. QED
        BY <1>4, <1>13, <1>14, <2>1 DEF SubjectIsCurrent, Current, TeachInv
<1>20. UNCHANGED <<owner, owners, bounds, teachingHistory>>
    BY DEF Note
<1>21. QED
    BY <1>1, <1>5, <1>6, <1>7, <1>8, <1>9, <1>10, <1>11, <1>12, <1>13, <1>16, <1>18, <1>19, <1>20, EditKeeps

LEMMA BuildDraftKeeps == ASSUME TeachInv, NEW t \in Workers, BuildDraft(t) PROVE TeachInv'
<1>1. Running(t) /\ talk[t].pc = "build"
    BY DEF BuildDraft, Running
<1>2. /\ talk[t] \in Talk /\ Fits(talk[t])
      /\ talk[t].o \in 1..Len(owners) /\ O(t) \in Owner /\ O(t).session \in 1..Len(sessions)
      /\ talk[t].s # 0 => talk[t].s \in 1..Len(sessions) /\ S(t) \in Session
      /\ \A x \in 1..Len(sessions) : sessions[x] \in Session
    BY <1>1, TurnFacts
<1>3. /\ talk[t].n \in 1..arrived /\ talk[t].n \in Nat /\ talk[t].n # 0
    BY <1>2 DEF Fits, Placed, Talk
<1>4. /\ owner # 0 => owner \in 1..Len(owners) /\ owners[owner].session \in 1..Len(sessions)
      /\ \A u \in Workers : Running(u) => talk[u] \in Talk
    BY TurnIsTyped DEF TeachInv, TeachTypes, Objects
<1>5. talk[t].s \in 1..Len(sessions) /\ S(t) = sessions[talk[t].s] /\ S(t) \in Session
    BY <1>1, <1>2 DEF Fits, Placed, Inside, S
<1>6. S(t).draft.notes \subseteq S(t).notes /\ Things(talk[t].s) = Lost(S(t))
    BY <1>5 DEF TeachInv, Objects, Things
<1>7. InRoom(talk[t].o, talk[t].s)
    BY <1>1 DEF InRoom
<1>8. PICK notes \in {talk[t].notes, S(t).notes} :
          /\ sessions' = [sessions EXCEPT ![talk[t].s].draft = [by |-> talk[t].n, notes |-> notes]]
          /\ talk' = [talk EXCEPT ![t].draft = [by |-> talk[t].n, notes |-> notes], ![t].target = S(t).target,
                                  ![t].did = "previewed", ![t].pc = "answer"]
    BY DEF BuildDraft
<1>9. notes \subseteq S(t).notes /\ notes \in SUBSET Nat
    BY <1>1, <1>2, <1>5 DEF Fits, Placed, Session
<1> DEFINE d == [by |-> talk[t].n, notes |-> notes]
           v == [S(t) EXCEPT !.draft = d]
           w == [talk[t] EXCEPT !.draft = d, !.target = S(t).target, !.did = "previewed", !.pc = "answer"]
<1>10. d \in Draft /\ d # NoDraft /\ d.notes = notes
    BY <1>3, <1>9 DEF Draft, NoDraft
<1>11. sessions' = [sessions EXCEPT ![talk[t].s] = v]
    BY <1>5, <1>8
<1>12. talk' = [talk EXCEPT ![t] = w]
    BY <1>8 DEF TeachInv, TeachTypes
<1> HIDE DEF d
<1>13. v \in Session /\ v.notes = S(t).notes /\ v.draft = d /\ v.target = S(t).target /\ v.web = S(t).web
    BY <1>5, <1>10 DEF Session
<1>14. w \in Talk
    BY <1>2, <1>5, <1>10 DEF Talk, Labels, Session
<1>15. /\ w.pc = "answer" /\ w.n = talk[t].n /\ w.o = talk[t].o /\ w.s = talk[t].s /\ w.gone = talk[t].gone
       /\ w.kind = talk[t].kind /\ w.found = talk[t].found /\ w.did = "previewed" /\ w.next = talk[t].next
       /\ w.open = talk[t].open /\ w.alone = talk[t].alone
       /\ w.draft = d /\ w.target = S(t).target /\ w.web = talk[t].web /\ w.notes = talk[t].notes
    BY <1>2 DEF Talk
<1> HIDE DEF v, w
<1>16. Lost(v) \subseteq Things(talk[t].s)
    BY <1>6, <1>13 DEF Lost
<1>17. /\ talk'[t] = w /\ \A u \in Workers \ {t} : talk'[u] = talk[u]
       /\ Running(t)' /\ ~Pending(t)'
       /\ UNCHANGED <<owner, owners, arrived, overlaps, routed, saves, entered, gone, shown, subject>>
    BY <1>1, <1>12, <1>15 DEF BuildDraft, Pending, Running, TeachInv, TeachTypes, bounds, teachingHistory
<1>18. /\ \A x \in 1..Len(sessions) : sessions'[x].target = sessions[x].target
       /\ \A x \in 1..Len(sessions) : x # talk[t].s => sessions'[x] = sessions[x]
       /\ sessions'[talk[t].s] = v /\ Len(sessions') = Len(sessions)
    BY <1>5, <1>11, <1>13, SessionEdited
<1>19. Fits(talk[t])'
    <2> USE <1>1, <1>2, <1>15, <1>17 DEF Fits
    <2>1. Placed(talk[t])'
        BY <1>18 DEF Placed, Inside
    <2>2. Stage(talk[t])'
        BY DEF Stage
    <2>3. Opened(talk[t])'
        BY DEF Opened
    <2>4. Clear(talk[t])'
        <3>1. \A x \in 1..Len(sessions) : Lost(sessions'[x]) \subseteq Things(x)
            BY <1>16, <1>18 DEF Things
        <3>2. owners[w.o].session \in 1..Len(sessions) /\ w.s \in 1..Len(sessions)
            BY <1>5 DEF O
        <3>3. QED
            BY <3>1, <3>2 DEF Clear, Things
    <2>5. w.alone => Solo(talk[t])'
        <3>1. w.alone => talk[t].o = owner /\ talk[t].s = owners[owner].session
            BY DEF Solo, Inside
        <3>2. talk[t].kind # "restart"
            BY DEF Stage
        <3>3. QED
            BY <1>13, <1>18, <3>1, <3>2 DEF Solo, Inside, Current
    <2>6. QED
        BY <2>1, <2>2, <2>3, <2>4, <2>5
<1>20. ShownIsCurrent'
    BY <1>15, <1>17 DEF ShownIsCurrent
<1>21. SubjectIsCurrent'
    <2>1. ~Settling(t)
        BY <1>1, <1>2 DEF Fits, Stage, Settling
    <2>2. (\A u \in Workers : ~Settling(u)') => \A u \in Workers : ~Settling(u)
        BY <1>17, <2>1 DEF Settling, Running
    <2>3. QED
        BY <1>4, <1>17, <1>18, <2>2 DEF SubjectIsCurrent, Current, TeachInv
<1>22. UNCHANGED <<owner, owners, bounds, teachingHistory>>
    BY DEF BuildDraft
<1>23. QED
    BY <1>1, <1>5, <1>6, <1>7, <1>9, <1>10, <1>11, <1>12, <1>13, <1>14, <1>15, <1>16, <1>17, <1>19,
       <1>20, <1>21,
       <1>22, EditKeeps

LEMMA SetTargetKeeps == ASSUME TeachInv, NEW t \in Workers, SetTarget(t) PROVE TeachInv'
<1>1. Running(t) /\ talk[t].pc = "target"
    BY DEF SetTarget, Running
<1>2. /\ talk[t] \in Talk /\ Fits(talk[t])
      /\ talk[t].o \in 1..Len(owners) /\ O(t) \in Owner /\ O(t).session \in 1..Len(sessions)
      /\ talk[t].s # 0 => talk[t].s \in 1..Len(sessions) /\ S(t) \in Session
      /\ \A x \in 1..Len(sessions) : sessions[x] \in Session
    BY <1>1, TurnFacts
<1>3. /\ talk[t].n \in 1..arrived /\ talk[t].n \in Nat /\ talk[t].n # 0
    BY <1>2 DEF Fits, Placed, Talk
<1>4. /\ owner # 0 => owner \in 1..Len(owners) /\ owners[owner].session \in 1..Len(sessions)
      /\ \A u \in Workers : Running(u) => talk[u] \in Talk
    BY TurnIsTyped DEF TeachInv, TeachTypes, Objects
<1> DEFINE x == O(t).session
           v == [sessions[x] EXCEPT !.target = talk[t].found]
           w == [talk[t] EXCEPT !.pc = "answer"]
<1>5. x \in 1..Len(sessions) /\ sessions[x] \in Session /\ InRoom(talk[t].o, x)
    BY <1>2 DEF InRoom, O
<1>6. talk[t].found = talk[t].n /\ talk[t].did = "replaced" /\ talk[t].kind = "check"
    BY <1>1, <1>2 DEF Fits, Stage
<1>7. sessions[x].draft.notes \subseteq sessions[x].notes
    BY <1>5 DEF TeachInv, Objects
<1>8. /\ v \in Session /\ v.notes = sessions[x].notes /\ v.draft = sessions[x].draft
      /\ v.target = talk[t].n /\ v.web = sessions[x].web
    BY <1>3, <1>5, <1>6 DEF Session
<1>9. sessions' = [sessions EXCEPT ![x] = v]
    BY <1>5 DEF SetTarget
<1>10. w \in Talk /\ talk' = [talk EXCEPT ![t] = w]
    BY <1>2 DEF SetTarget, Move, Talk, Labels, TeachInv, TeachTypes
<1>11. /\ w.pc = "answer" /\ w.n = talk[t].n /\ w.o = talk[t].o /\ w.s = talk[t].s /\ w.gone = talk[t].gone
       /\ w.kind = talk[t].kind /\ w.found = talk[t].found /\ w.did = talk[t].did /\ w.next = talk[t].next
       /\ w.open = talk[t].open /\ w.alone = talk[t].alone
       /\ w.draft = talk[t].draft /\ w.target = talk[t].target /\ w.web = talk[t].web /\ w.notes = talk[t].notes
    BY <1>2 DEF Talk
<1>12. x = owners[talk[t].o].session
    BY DEF O
<1> HIDE DEF v, w, x
<1>13. Lost(v) \subseteq Things(x) \cup {talk[t].n}
    BY <1>8 DEF Lost, Things
<1>14. /\ talk'[t] = w /\ \A u \in Workers \ {t} : talk'[u] = talk[u]
       /\ Running(t)' /\ Pending(t) /\ ~Pending(t)'
       /\ UNCHANGED <<owner, owners, arrived, overlaps, routed, saves, entered, gone, shown, subject>>
    BY <1>1, <1>10, <1>11 DEF SetTarget, Pending, Running, TeachInv, TeachTypes, bounds, teachingHistory
<1>15. /\ \A y \in 1..Len(sessions) : sessions'[y].draft = sessions[y].draft
       /\ \A y \in 1..Len(sessions) : y # x => sessions'[y] = sessions[y]
       /\ sessions'[x] = v /\ Len(sessions') = Len(sessions)
    BY <1>5, <1>8, <1>9, SessionEdited
<1>16. talk[t].n \notin talk[t].gone
    BY <1>1, <1>14 DEF TeachInv, Unused
<1>17. Fits(talk[t])'
    <2> USE <1>1, <1>2, <1>11, <1>14 DEF Fits
    <2>1. Placed(talk[t])'
        BY <1>15 DEF Placed, Inside
    <2>2. Stage(talk[t])'
        BY DEF Stage
    <2>3. Opened(talk[t])'
        BY DEF Opened
    <2>4. Clear(talk[t])'
        <3>1. \A y \in 1..Len(sessions) : Lost(sessions'[y]) \subseteq Things(y) \cup {talk[t].n}
            BY <1>13, <1>15 DEF Things
        <3>2. owners[w.o].session \in 1..Len(sessions) /\ (w.s # 0 => w.s \in 1..Len(sessions))
            BY <1>5, <1>12
        <3>3. /\ talk[t].gone \cap Things(owners[w.o].session) = {}
              /\ w.s # 0 => talk[t].gone \cap Things(w.s) = {}
            BY DEF Clear
        <3>4. /\ w.gone \cap Lost(sessions'[owners[w.o].session]) = {}
              /\ w.s # 0 => w.gone \cap Lost(sessions'[w.s]) = {}
            BY <1>16, <3>1, <3>2, <3>3
        <3>5. QED
            BY <3>4 DEF Clear, Things
    <2>5. w.alone => Solo(talk[t])'
        <3>1. w.alone => talk[t].o = owner /\ x = owners[owner].session /\ sessions[x].draft = NoDraft
            BY <1>6, <1>12 DEF Solo, Current
        <3>2. QED
            BY <1>6, <1>8, <1>15, <3>1 DEF Solo, Inside, Current
    <2>6. QED
        BY <2>1, <2>2, <2>3, <2>4, <2>5
<1>18. ShownIsCurrent'
    <2>1. (\A u \in Workers : Running(u)' => talk'[u].did # "previewed")
             => \A u \in Workers : Running(u) => talk[u].did # "previewed"
        BY <1>6, <1>14 DEF Running
    <2>2. \A u \in Workers : Running(u)' /\ talk'[u].pc = "target"
              => Running(u) /\ talk'[u].o = talk[u].o /\ talk[u].pc = "target"
        BY <1>11, <1>14 DEF Running
    <2>3. owner # 0 /\ talk[t].o # owner => owners[owner].session # x
        <3>1. InRoom(owner, owners[owner].session)
            BY DEF InRoom
        <3>2. QED
            BY <1>2, <1>4, <1>5, <3>1 DEF TeachInv, Apart
    <2>4. QED
        BY <1>1, <1>4, <1>14, <1>15, <2>1, <2>2, <2>3 DEF ShownIsCurrent, Current, TeachInv
<1>19. SubjectIsCurrent'
    BY <1>6, <1>11, <1>14 DEF SubjectIsCurrent, Settling
<1>20. UNCHANGED <<owner, owners, bounds, teachingHistory>>
    BY DEF SetTarget
<1>21. QED
    BY <1>1, <1>5, <1>7, <1>8, <1>9, <1>10, <1>11, <1>13, <1>14, <1>17, <1>18, <1>19, <1>20, EditKeeps
LEMMA LoginKeeps == ASSUME TeachInv, NEW t \in Workers, Login(t) PROVE TeachInv'
<1>1. Running(t) /\ talk[t].pc = "login"
    BY DEF Login, Running
<1>2. /\ talk[t] \in Talk /\ Fits(talk[t])
      /\ talk[t].o \in 1..Len(owners) /\ O(t) \in Owner /\ O(t).session \in 1..Len(sessions)
      /\ talk[t].s # 0 => talk[t].s \in 1..Len(sessions) /\ S(t) \in Session
      /\ \A x \in 1..Len(sessions) : sessions[x] \in Session
    BY <1>1, TurnFacts
<1>3. /\ talk[t].n \in 1..arrived /\ talk[t].n \in Nat /\ talk[t].n # 0
    BY <1>2 DEF Fits, Placed, Talk
<1>4. /\ owner # 0 => owner \in 1..Len(owners) /\ owners[owner].session \in 1..Len(sessions)
      /\ \A u \in Workers : Running(u) => talk[u] \in Talk
    BY TurnIsTyped DEF TeachInv, TeachTypes, Objects
<1> DEFINE w == [talk[t] EXCEPT !.pc = "replace", !.open = TRUE]
<1>5. /\ w \in Talk /\ talk'[t] = w
      /\ \A u \in Workers \ {t} : talk'[u] = IF Running(u) THEN [talk[u] EXCEPT !.open = TRUE] ELSE talk[u]
      /\ talk' = [u \in Workers |-> talk'[u]]
    BY <1>2 DEF Login, Move, Talk, Labels, TeachInv, TeachTypes
<1>6. /\ w.pc = "replace" /\ w.open /\ w.n = talk[t].n /\ w.o = talk[t].o /\ w.s = talk[t].s
      /\ w.gone = talk[t].gone
      /\ w.kind = talk[t].kind /\ w.found = talk[t].found /\ w.did = talk[t].did /\ w.next = talk[t].next
      /\ w.alone = talk[t].alone
      /\ w.draft = talk[t].draft /\ w.target = talk[t].target /\ w.web = talk[t].web /\ w.notes = talk[t].notes
    BY <1>2 DEF Talk
<1> HIDE DEF w
<1>7. \A u \in Workers \ {t} : Running(u)' =>
          /\ Running(u) /\ talk[u] \in Talk /\ talk'[u] \in Talk /\ talk'[u].open
          /\ talk'[u].pc = talk[u].pc /\ talk'[u].n = talk[u].n /\ talk'[u].o = talk[u].o
          /\ talk'[u].s = talk[u].s
          /\ talk'[u].gone = talk[u].gone /\ talk'[u].kind = talk[u].kind /\ talk'[u].found = talk[u].found
          /\ talk'[u].did = talk[u].did /\ talk'[u].next = talk[u].next /\ talk'[u].alone = talk[u].alone
          /\ talk'[u].draft = talk[u].draft /\ talk'[u].target = talk[u].target /\ talk'[u].web = talk[u].web
          /\ talk'[u].notes = talk[u].notes
    <2> SUFFICES ASSUME NEW u \in Workers \ {t}, Running(u)'
                 PROVE  /\ Running(u) /\ talk[u] \in Talk /\ talk'[u] \in Talk /\ talk'[u].open
                        /\ talk'[u].pc = talk[u].pc /\ talk'[u].n = talk[u].n /\ talk'[u].o = talk[u].o
                        /\ talk'[u].s = talk[u].s /\ talk'[u].gone = talk[u].gone
                        /\ talk'[u].kind = talk[u].kind
                        /\ talk'[u].found = talk[u].found /\ talk'[u].did = talk[u].did
                        /\ talk'[u].next = talk[u].next /\ talk'[u].alone = talk[u].alone
                        /\ talk'[u].draft = talk[u].draft /\ talk'[u].target = talk[u].target
                        /\ talk'[u].web = talk[u].web /\ talk'[u].notes = talk[u].notes
        OBVIOUS
    <2>1. Running(u)
        BY <1>5 DEF Running
    <2>2. talk[u] \in Talk /\ talk'[u] = [talk[u] EXCEPT !.open = TRUE]
        BY <1>4, <1>5, <2>1
    <2>3. QED
        BY <2>1, <2>2 DEF Talk
<1>8. \A u \in Workers : Running(u)' =>
          /\ Running(u) /\ talk'[u].n = talk[u].n /\ talk'[u].o = talk[u].o /\ talk'[u].s = talk[u].s
          /\ talk'[u].gone = talk[u].gone /\ talk'[u].next = talk[u].next /\ talk'[u].alone = talk[u].alone
          /\ talk'[u].did = talk[u].did
    BY <1>1, <1>5, <1>6, <1>7
<1>9. /\ owners' \in Seq(Owner) /\ Len(owners') = Len(owners)
      /\ \A p \in 1..Len(owners) : owners'[p].session = owners[p].session
      /\ \A p \in 1..Len(owners) : p # talk[t].o => owners'[p] = owners[p]
      /\ owners'[talk[t].o].auth
    <2> DEFINE v == [O(t) EXCEPT !.auth = TRUE]
    <2>1. v \in Owner /\ v.session = O(t).session /\ v.auth
        BY <1>2 DEF Owner
    <2>2. owners' = [owners EXCEPT ![talk[t].o] = v]
        BY DEF Login, O
    <2> HIDE DEF v
    <2>3. /\ owners' \in Seq(Owner) /\ Len(owners') = Len(owners)
          /\ \A p \in 1..Len(owners) : owners'[p] = IF p = talk[t].o THEN v ELSE owners[p]
        BY <1>2, <2>1, <2>2, OwnerEdited
    <2>4. QED
        BY <1>2, <2>1, <2>3 DEF O
<1>10. /\ UNCHANGED <<owner, sessions, arrived, overlaps, routed, saves, gone, shown, subject>>
       /\ entered' = (entered \/ talk[t].o = owner)
    BY DEF Login, bounds
<1>11. Running(t)' /\ talk'[t].pc = "replace"
    BY <1>5, <1>6 DEF Running
<1> USE <1>8, <1>9, <1>10 DEF TeachInv
<1>12. TeachTypes'
    <2>1. \A u \in Workers \ {t} : ~Running(u)' => talk'[u] = NoTalk
        <3> SUFFICES ASSUME NEW u \in Workers \ {t}, ~Running(u)' PROVE talk'[u] = NoTalk
            OBVIOUS
        <3>1. Running(u) => talk[u] \in Talk /\ talk'[u] = [talk[u] EXCEPT !.open = TRUE]
            BY <1>4, <1>5
        <3>2. ~Running(u)
            BY <3>1 DEF Running, Talk
        <3>3. QED
            BY <1>5, <3>2, IdleIsNoTurn
    <2>2. \A u \in Workers : talk'[u] \in Talk \cup {NoTalk}
        BY <1>5, <1>7, <2>1
    <2>3. talk' \in [Workers -> Talk \cup {NoTalk}]
        BY <1>5, <2>2
    <2>4. QED
        BY <2>3 DEF TeachTypes
<1>13. Objects'
    BY DEF Objects, Things
<1>14. Turns'
    <2>1. ASSUME NEW u \in Workers \ {t}, Running(u)' PROVE Fits(talk[u])'
        <3>1. Fits(talk[u])
            BY <2>1 DEF Turns
        <3> USE <2>1, <3>1, <1>7 DEF Fits
        <3>2. Placed(talk[u])'
            BY DEF Placed
        <3>3. Stage(talk[u])'
            BY DEF Stage
        <3>4. Opened(talk[u])'
            BY DEF Opened, Placed
        <3>5. Clear(talk[u])'
            BY SMTT(30) DEF Clear, Placed, Things
        <3>6. ~talk'[u].alone
            BY <1>1 DEF Turns
        <3>7. QED
            BY <3>2, <3>3, <3>4, <3>5, <3>6
    <2>2. Fits(talk[t])'
        <3> USE <1>1, <1>2, <1>5, <1>6 DEF Fits
        <3>1. Placed(talk[t])'
            BY DEF Placed, Inside
        <3>2. Stage(talk[t])'
            BY DEF Stage
        <3>3. Opened(talk[t])'
            BY DEF Opened
        <3>4. Clear(talk[t])'
            BY DEF Clear, Things
        <3>5. w.alone => Solo(talk[t])'
            BY DEF Solo, Stage, Inside
        <3>6. QED
            BY <3>1, <3>2, <3>3, <3>4, <3>5
    <2>3. QED
        BY <2>1, <2>2 DEF Turns
<1>15. Unused'
    <2>1. \A u \in Workers : Pending(u)' => Pending(u)
        BY <1>1, <1>7 DEF Pending
    <2>2. \A u \in Workers : Pending(u)' => Running(u)'
        BY DEF Pending
    <2>3. QED
        BY <2>1, <2>2 DEF Unused, Things
<1>16. Apart'
    <2>1. \A o \in 1..Len(owners) : \A x \in 1..Len(sessions) : InRoom(o, x)' => InRoom(o, x)
        BY DEF InRoom
    <2>2. \A o \in 1..Len(owners) : \A n \in 1..arrived : Has(o, n)' => Has(o, n)
        BY DEF Has, Things
    <2>3. QED
        BY <2>1, <2>2 DEF Apart
<1>17. OwnerEntered' /\ OwnerClear' /\ SavesOnlyInSession' /\ DiscardedStaysUnsaved'
    BY <1>4 DEF OwnerEntered, OwnerClear, SavesOnlyInSession, DiscardedStaysUnsaved, Things
<1>18. ShownIsCurrent'
    <2>1. (\A u \in Workers : Running(u)' => talk'[u].did # "previewed")
             => \A u \in Workers : Running(u) => talk[u].did # "previewed"
        <3>1. talk[t].did # "previewed"
            BY <1>1, <1>2 DEF Fits, Stage
        <3>2. ASSUME NEW u \in Workers \ {t}, Running(u) PROVE Running(u)'
            <4>1. talk[u] \in Talk /\ talk'[u] = [talk[u] EXCEPT !.open = TRUE]
                BY <1>4, <1>5, <3>2
            <4>2. talk'[u].pc = talk[u].pc
                BY <4>1 DEF Talk
            <4>3. QED
                BY <3>2, <4>2 DEF Running
        <3>3. QED
            BY <1>8, <3>1, <3>2
    <2>2. \A u \in Workers : Running(u)' /\ talk'[u].pc = "target"
              => Running(u) /\ talk'[u].o = talk[u].o /\ talk[u].pc = "target"
        BY <1>7, <1>11
    <2>3. QED
        BY <1>4, <2>1, <2>2 DEF ShownIsCurrent, Current
<1>19. SubjectIsCurrent'
    BY <1>11 DEF SubjectIsCurrent, Settling
<1>20. QED
    BY <1>12, <1>13, <1>14, <1>15, <1>16, <1>17, <1>18, <1>19

LEMMA ExitKeeps == ASSUME TeachInv, NEW t \in Workers, Exit(t) PROVE TeachInv'
<1>1. Running(t) /\ talk[t].pc = "exit"
    BY DEF Exit, Running
<1>2. /\ talk[t] \in Talk /\ Fits(talk[t])
      /\ talk[t].o \in 1..Len(owners) /\ O(t) \in Owner /\ O(t).session \in 1..Len(sessions)
      /\ talk[t].s # 0 => talk[t].s \in 1..Len(sessions) /\ S(t) \in Session
      /\ \A x \in 1..Len(sessions) : sessions[x] \in Session
    BY <1>1, TurnFacts
<1>3. /\ talk[t].n \in 1..arrived /\ talk[t].n \in Nat /\ talk[t].n # 0
    BY <1>2 DEF Fits, Placed, Talk
<1>4. /\ owner # 0 => owner \in 1..Len(owners) /\ owners[owner].session \in 1..Len(sessions)
      /\ \A u \in Workers : Running(u) => talk[u] \in Talk
    BY TurnIsTyped DEF TeachInv, TeachTypes, Objects
<1> DEFINE w == [talk[t] EXCEPT !.pc = "replace"]
<1>5. /\ w \in Talk /\ talk'[t] = w
      /\ \A u \in Workers \ {t} : talk'[u] = talk[u]
      /\ talk' = [u \in Workers |-> talk'[u]]
    BY <1>2 DEF Exit, Move, Talk, Labels, TeachInv, TeachTypes
<1>6. /\ w.pc = "replace" /\ w.open = talk[t].open /\ w.n = talk[t].n /\ w.o = talk[t].o
      /\ w.s = talk[t].s /\ w.gone = talk[t].gone
      /\ w.kind = talk[t].kind /\ w.found = talk[t].found /\ w.did = talk[t].did /\ w.next = talk[t].next
      /\ w.alone = talk[t].alone
      /\ w.draft = talk[t].draft /\ w.target = talk[t].target /\ w.web = talk[t].web /\ w.notes = talk[t].notes
    BY <1>2 DEF Talk
<1> HIDE DEF w
<1>7. \A u \in Workers \ {t} : Running(u)' =>
          /\ Running(u) /\ talk[u] \in Talk /\ talk'[u] \in Talk /\ talk'[u].open = talk[u].open
          /\ talk'[u].pc = talk[u].pc /\ talk'[u].n = talk[u].n /\ talk'[u].o = talk[u].o
          /\ talk'[u].s = talk[u].s
          /\ talk'[u].gone = talk[u].gone /\ talk'[u].kind = talk[u].kind /\ talk'[u].found = talk[u].found
          /\ talk'[u].did = talk[u].did /\ talk'[u].next = talk[u].next /\ talk'[u].alone = talk[u].alone
          /\ talk'[u].draft = talk[u].draft /\ talk'[u].target = talk[u].target /\ talk'[u].web = talk[u].web
          /\ talk'[u].notes = talk[u].notes
    BY <1>4, <1>5 DEF Running, Talk
<1>8. \A u \in Workers : Running(u)' =>
          /\ Running(u) /\ talk'[u].n = talk[u].n /\ talk'[u].o = talk[u].o /\ talk'[u].s = talk[u].s
          /\ talk'[u].gone = talk[u].gone /\ talk'[u].next = talk[u].next /\ talk'[u].alone = talk[u].alone
          /\ talk'[u].did = talk[u].did
    BY <1>1, <1>5, <1>6, <1>7
<1>9. /\ owners' \in Seq(Owner) /\ Len(owners') = Len(owners)
      /\ \A p \in 1..Len(owners) : owners'[p].session = owners[p].session
      /\ \A p \in 1..Len(owners) : p # talk[t].o => owners'[p] = owners[p]
      /\ ~owners'[talk[t].o].auth
    <2> DEFINE v == [O(t) EXCEPT !.auth = FALSE]
    <2>1. v \in Owner /\ v.session = O(t).session /\ ~v.auth
        BY <1>2 DEF Owner
    <2>2. owners' = [owners EXCEPT ![talk[t].o] = v]
        BY DEF Exit, O
    <2> HIDE DEF v
    <2>3. /\ owners' \in Seq(Owner) /\ Len(owners') = Len(owners)
          /\ \A p \in 1..Len(owners) : owners'[p] = IF p = talk[t].o THEN v ELSE owners[p]
        BY <1>2, <2>1, <2>2, OwnerEdited
    <2>4. QED
        BY <1>2, <2>1, <2>3 DEF O
<1>10. /\ UNCHANGED <<owner, sessions, arrived, overlaps, routed, saves, gone, shown, subject>>
       /\ entered' = (entered /\ talk[t].o # owner)
    BY DEF Exit, bounds
<1>11. Running(t)' /\ talk'[t].pc = "replace"
    BY <1>5, <1>6 DEF Running
<1> USE <1>8, <1>9, <1>10 DEF TeachInv
<1>12. TeachTypes'
    <2>1. \A u \in Workers \ {t} : ~Running(u)' => talk'[u] = NoTalk
        BY <1>5, IdleIsNoTurn DEF Running
    <2>2. \A u \in Workers : talk'[u] \in Talk \cup {NoTalk}
        BY <1>5, <1>7, <2>1
    <2>3. talk' \in [Workers -> Talk \cup {NoTalk}]
        BY <1>5, <2>2
    <2>4. QED
        BY <2>3 DEF TeachTypes
<1>13. Objects'
    BY DEF Objects, Things
<1>14. Turns'
    <2>1. ASSUME NEW u \in Workers \ {t}, Running(u)' PROVE Fits(talk[u])'
        <3>1. Fits(talk[u])
            BY <2>1 DEF Turns
        <3> USE <2>1, <3>1, <1>7 DEF Fits
        <3>2. Placed(talk[u])'
            BY DEF Placed
        <3>3. Stage(talk[u])'
            BY DEF Stage
        <3>4. Opened(talk[u])'
            BY DEF Opened, Placed
        <3>5. Clear(talk[u])'
            BY DEF Clear, Placed, Things
        <3>6. ~talk'[u].alone
            BY <1>1 DEF Turns
        <3>7. QED
            BY <3>2, <3>3, <3>4, <3>5, <3>6
    <2>2. Fits(talk[t])'
        <3> USE <1>1, <1>2, <1>5, <1>6 DEF Fits
        <3>1. Placed(talk[t])'
            BY DEF Placed, Inside
        <3>2. Stage(talk[t])'
            BY DEF Stage
        <3>3. Opened(talk[t])'
            BY DEF Opened
        <3>4. Clear(talk[t])'
            BY DEF Clear, Things
        <3>5. w.alone => Solo(talk[t])'
            BY DEF Solo, Stage, Inside
        <3>6. QED
            BY <3>1, <3>2, <3>3, <3>4, <3>5
    <2>3. QED
        BY <2>1, <2>2 DEF Turns
<1>15. Unused'
    <2>1. \A u \in Workers : Pending(u)' => Pending(u)
        BY <1>1, <1>7 DEF Pending
    <2>2. \A u \in Workers : Pending(u)' => Running(u)'
        BY DEF Pending
    <2>3. QED
        BY <2>1, <2>2 DEF Unused, Things
<1>16. Apart'
    <2>1. \A o \in 1..Len(owners) : \A x \in 1..Len(sessions) : InRoom(o, x)' => InRoom(o, x)
        BY DEF InRoom
    <2>2. \A o \in 1..Len(owners) : \A n \in 1..arrived : Has(o, n)' => Has(o, n)
        BY DEF Has, Things
    <2>3. QED
        BY <2>1, <2>2 DEF Apart
<1>17. OwnerEntered' /\ OwnerClear' /\ SavesOnlyInSession' /\ DiscardedStaysUnsaved'
    BY <1>4 DEF OwnerEntered, OwnerClear, SavesOnlyInSession, DiscardedStaysUnsaved, Things
<1>18. ShownIsCurrent'
    <2>1. (\A u \in Workers : Running(u)' => talk'[u].did # "previewed")
             => \A u \in Workers : Running(u) => talk[u].did # "previewed"
        <3>1. talk[t].did # "previewed"
            BY <1>1, <1>2 DEF Fits, Stage
        <3>2. \A u \in Workers \ {t} : Running(u) => Running(u)'
            BY <1>4, <1>5 DEF Running, Talk
        <3>3. QED
            BY <1>8, <3>1, <3>2
    <2>2. \A u \in Workers : Running(u)' /\ talk'[u].pc = "target"
              => Running(u) /\ talk'[u].o = talk[u].o /\ talk[u].pc = "target"
        BY <1>7, <1>11
    <2>3. QED
        BY <1>4, <2>1, <2>2 DEF ShownIsCurrent, Current
<1>19. SubjectIsCurrent'
    BY <1>11 DEF SubjectIsCurrent, Settling
<1>20. QED
    BY <1>12, <1>13, <1>14, <1>15, <1>16, <1>17, <1>18, <1>19
LEMMA OverlappedFacts ==
    ASSUME TeachTypes, NEW u \in Workers
    PROVE  /\ Overlapped[u] \in Talk \cup {NoTalk} /\ Overlapped[u].pc = talk[u].pc
           /\ Running(u) =>
                 /\ ~Overlapped[u].alone
                 /\ Overlapped[u].n = talk[u].n /\ Overlapped[u].o = talk[u].o
                 /\ Overlapped[u].s = talk[u].s /\ Overlapped[u].gone = talk[u].gone
                 /\ Overlapped[u].kind = talk[u].kind /\ Overlapped[u].found = talk[u].found
                 /\ Overlapped[u].did = talk[u].did /\ Overlapped[u].next = talk[u].next
                 /\ Overlapped[u].open = talk[u].open /\ Overlapped[u].draft = talk[u].draft
                 /\ Overlapped[u].target = talk[u].target
                 /\ Overlapped[u].web = talk[u].web /\ Overlapped[u].notes = talk[u].notes
<1>1. CASE Running(u)
    <2>1. talk[u] \in Talk /\ Overlapped[u] = [talk[u] EXCEPT !.alone = FALSE]
        BY <1>1, TurnIsTyped DEF Overlapped
    <2>2. QED
        BY <2>1 DEF Talk
<1>2. CASE ~Running(u)
    <2>1. Overlapped[u] = talk[u] /\ talk[u] = NoTalk
        BY <1>2, IdleIsNoTurn DEF Overlapped
    <2>2. QED
        BY <1>2, <2>1
<1>3. QED
    BY <1>1, <1>2

\* Requests that end the session: what is said of the running turns alone.
LEMMA PostedTurns ==
    ASSUME TeachInv, talk' = Overlapped, UNCHANGED <<arrived, saves>>,
           \A o \in 1..Len(owners) :
              /\ o \in 1..Len(owners') /\ owners'[o].auth = owners[o].auth
              /\ \/ owners'[o].session = owners[o].session
                 \/ Lost(sessions'[owners'[o].session]) = {} /\ owners'[o].session \notin 1..Len(sessions),
           \A x \in 1..Len(sessions) : x \in 1..Len(sessions') /\ sessions'[x] = sessions[x],
           \A x \in 1..Len(sessions') : x \in 1..Len(sessions) \/ Lost(sessions'[x]) = {},
           Len(owners') = Len(owners), Len(sessions) \in Nat, Len(sessions') \in Nat,
           gone' = gone \cup Abandoned, owner \in 1..Len(owners),
           \A o, p \in 1..Len(owners) :
              owners'[o].session = owners'[p].session /\ owners'[o].session \notin 1..Len(sessions) => o = p
    PROVE  /\ talk' \in [Workers -> Talk \cup {NoTalk}]
           /\ gone' \subseteq 1..arrived
           /\ \A u \in Workers : talk'[u].pc = talk[u].pc /\ (Running(u) => talk'[u].did = talk[u].did)
           /\ Turns' /\ Unused' /\ Apart'
<1> USE DEF TeachInv
<1>1. \A u \in Workers : talk'[u] \in Talk \cup {NoTalk} /\ talk'[u].pc = talk[u].pc
    BY OverlappedFacts
<1>2. \A u \in Workers : Running(u)' <=> Running(u)
    BY <1>1 DEF Running
<1>3. \A u \in Workers : Running(u) =>
          /\ ~talk'[u].alone
          /\ talk'[u].n = talk[u].n /\ talk'[u].o = talk[u].o /\ talk'[u].s = talk[u].s
          /\ talk'[u].gone = talk[u].gone
          /\ talk'[u].kind = talk[u].kind /\ talk'[u].found = talk[u].found
          /\ talk'[u].did = talk[u].did /\ talk'[u].next = talk[u].next
          /\ talk'[u].open = talk[u].open /\ talk'[u].draft = talk[u].draft /\ talk'[u].target = talk[u].target
          /\ talk'[u].web = talk[u].web /\ talk'[u].notes = talk[u].notes
    BY OverlappedFacts
<1>4. talk' \in [Workers -> Talk \cup {NoTalk}]
    BY <1>1 DEF Overlapped
<1>5. \A x \in 1..Len(sessions) : Lost(sessions'[x]) = Things(x)
    BY DEF Things
<1>6. /\ owners[owner].session \in 1..Len(sessions)
      /\ \A u \in Workers : Running(u) => talk[u].o \in 1..Len(owners)
      /\ \A u \in Workers : Running(u) => talk[u].s \in 0..Len(sessions)
      /\ \A u \in Workers : Running(u) /\ talk[u].s # 0 => talk[u].s \in 1..Len(sessions)
      /\ \A o \in 1..Len(owners) : owners[o].session \in 1..Len(sessions)
    BY DEF Objects, Turns, Fits, Placed
<1>7. gone' = gone \cup Things(owners[owner].session)
    BY DEF Abandoned, Things, TeachTypes
<1>8. gone' \subseteq 1..arrived
    BY <1>6, <1>7 DEF Objects, TeachTypes
<1>9. \A o \in 1..Len(owners) : Lost(sessions'[owners'[o].session]) \subseteq Things(owners[o].session)
    <2>1. ASSUME NEW o \in 1..Len(owners) PROVE Lost(sessions'[owners'[o].session]) \subseteq Things(owners[o].session)
        <3>1. owners[o].session \in 1..Len(sessions)
            BY <1>6
        <3>2. CASE owners'[o].session = owners[o].session
            BY <1>5, <3>1, <3>2
        <3>3. CASE owners'[o].session # owners[o].session
            BY <3>3
        <3>4. QED
            BY <3>2, <3>3
    <2>2. QED
        BY <2>1
<1> USE <1>1, <1>2, <1>3, <1>5, <1>6, <1>9
<1>10. Turns'
    <2>1. ASSUME NEW u \in Workers, Running(u)' PROVE Fits(talk[u])'
        <3>1. Fits(talk[u]) /\ Running(u)
            BY <2>1 DEF Turns
        <3> USE <2>1, <3>1 DEF Fits
        <3>2. Placed(talk[u])'
            <4>1. talk[u].s \in 0..Len(sessions') /\ (talk[u].s # 0 => sessions'[talk[u].s] = sessions[talk[u].s])
                BY DEF Placed
            <4>2. talk[u].o \in 1..Len(owners')
                OBVIOUS
            <4>3. arrived' = arrived
                OBVIOUS
            <4>4. /\ talk'[u].n = talk[u].n /\ talk'[u].o = talk[u].o /\ talk'[u].s = talk[u].s
                  /\ talk'[u].pc = talk[u].pc /\ talk'[u].draft = talk[u].draft /\ talk'[u].notes = talk[u].notes
                  /\ talk'[u].next = talk[u].next /\ talk'[u].gone = talk[u].gone
                BY ONLY <1>1, <1>3, <3>1
            <4>5. Placed(talk[u])
                BY ONLY <3>1 DEF Fits
            <4>6. QED
                BY ONLY <4>1, <4>2, <4>3, <4>4, <4>5 DEF Placed, Inside
        <3>3. Stage(talk[u])'
            BY DEF Stage
        <3>4. Opened(talk[u])'
            BY DEF Opened
        <3>5. Clear(talk[u])'
            <4>1. talk[u].gone \cap Lost(sessions'[owners'[talk[u].o].session]) = {}
                <5>1. talk[u].gone \cap Things(owners[talk[u].o].session) = {} /\ talk[u].o \in 1..Len(owners)
                    BY DEF Clear
                <5>2. Lost(sessions'[owners'[talk[u].o].session]) \subseteq Things(owners[talk[u].o].session)
                    BY <5>1
                <5>3. QED
                    BY <5>1, <5>2
            <4>2. talk[u].s # 0 => talk[u].gone \cap Lost(sessions'[talk[u].s]) = {}
                BY DEF Clear
            <4>3. QED
                BY <4>1, <4>2 DEF Clear, Things
        <3>6. QED
            BY <3>2, <3>3, <3>4, <3>5
    <2>2. QED
        BY <2>1 DEF Turns
<1>11. Unused'
    <2>1. \A u \in Workers : Pending(u)' => Pending(u) /\ Running(u) /\ talk'[u].n = talk[u].n
        BY DEF Pending
    <2>2. \A u \in Workers : Pending(u) => talk[u].n \notin gone'
        BY <1>7 DEF Unused
    <2>3. ASSUME NEW u \in Workers, Pending(u), NEW x \in 1..Len(sessions') PROVE talk[u].n \notin Lost(sessions'[x])
        <3>1. CASE x \in 1..Len(sessions)
            <4>1. talk[u].n \notin Things(x)
                BY <2>3, <3>1 DEF Unused
            <4>2. QED
                BY <3>1, <4>1
        <3>2. CASE x \notin 1..Len(sessions)
            BY <3>2
        <3>3. QED
            BY <3>1, <3>2
    <2>4. ASSUME NEW u \in Workers, Pending(u), NEW r \in Workers, Running(r)
          PROVE  talk[u].n \notin talk'[r].gone \cup {talk'[r].next.target, talk'[r].next.web}
        <3>1. talk[u].n \notin talk[r].gone \cup {talk[r].next.target, talk[r].next.web}
            BY <2>4 DEF Unused
        <3>2. talk'[r].gone = talk[r].gone /\ talk'[r].next = talk[r].next
            BY <2>4
        <3>3. QED
            BY <3>1, <3>2
    <2>5. QED
        BY <2>1, <2>2, <2>3, <2>4 DEF Unused, Things
<1>12. Apart'
    <2>1. ASSUME NEW o \in 1..Len(owners), NEW x \in 1..Len(sessions'), InRoom(o, x)'
          PROVE  (x \in 1..Len(sessions) /\ InRoom(o, x)) \/ (x \notin 1..Len(sessions) /\ x = owners'[o].session)
        <3>1. CASE x = owners'[o].session
            BY <3>1 DEF InRoom
        <3>2. CASE x # owners'[o].session
            <4>1. PICK u \in Workers : Running(u) /\ talk[u].o = o /\ talk[u].s = x
                BY <2>1, <3>2, SMTT(30) DEF InRoom
            <4>2. QED
                BY <4>1 DEF InRoom
        <3>3. QED
            BY <3>1, <3>2
    <2>2. ASSUME NEW o \in 1..Len(owners), NEW n \in 1..arrived, Has(o, n)' PROVE Has(o, n)
        <3>1. CASE n \in Lost(sessions'[owners'[o].session])
            <4>1. n \in Things(owners[o].session)
                BY <3>1
            <4>2. QED
                BY <4>1 DEF Has
        <3>2. CASE n \notin Lost(sessions'[owners'[o].session])
            <4>1. PICK u \in Workers : Running(u)' /\ talk'[u].o = o /\
                        \/ n \in {talk'[u].n, talk'[u].next.target, talk'[u].next.web}
                        \/ talk'[u].s # 0 /\ n \in Lost(sessions'[talk'[u].s])
                BY <2>2, <3>2 DEF Has, Things
            <4>2. Running(u) /\ talk[u].o = o /\ talk[u].s = talk'[u].s /\ talk[u].n = talk'[u].n /\ talk[u].next = talk'[u].next
                BY <4>1
            <4>3. talk[u].s # 0 /\ n \in Lost(sessions'[talk'[u].s]) => n \in Things(talk[u].s)
                BY <4>2
            <4>4. QED
                BY <4>1, <4>2, <4>3 DEF Has
        <3>3. QED
            BY <3>1, <3>2
    <2>3. \A o, p \in 1..Len(owners) : \A x \in 1..Len(sessions') : InRoom(o, x)' /\ InRoom(p, x)' => o = p
        BY <2>1, SMTT(30) DEF Apart
    <2>4. \A o, p \in 1..Len(owners) : \A n \in 1..arrived : Has(o, n)' /\ Has(p, n)' => o = p
        BY <2>2 DEF Apart
    <2>5. QED
        BY <2>3, <2>4 DEF Apart
<1>13. QED
    BY <1>4, <1>8, <1>10, <1>11, <1>12

LEMMA LeaveKeeps == ASSUME TeachInv, Post, Leave PROVE TeachInv'
<1> USE DEF TeachInv
<1>1. /\ owner # 0 /\ owner' = 0 /\ entered' = FALSE /\ gone' = gone \cup Abandoned
      /\ subject' = [record |-> 0, alone |-> TRUE] /\ talk' = Overlapped
      /\ routed' = routed + 1
      /\ UNCHANGED <<owners, sessions, arrived, overlaps, saves, shown>>
    BY DEF Post, Leave
<1>2. owner \in 1..Len(owners) /\ Len(sessions) \in Nat /\ Len(owners) \in Nat
    BY <1>1, LenProperties DEF TeachTypes
<1>3. /\ talk' \in [Workers -> Talk \cup {NoTalk}] /\ gone' \subseteq 1..arrived
      /\ Turns' /\ Unused' /\ Apart'
    <2>1. \A o \in 1..Len(owners) : owners[o].session \in 1..Len(sessions)
        BY DEF Objects
    <2>2. QED
        BY <1>1, <1>2, <2>1, PostedTurns
<1>4. TeachTypes'
    <2>1. owner' \in 0..Len(owners') /\ subject' \in [record : Nat, alone : BOOLEAN] /\ entered' \in BOOLEAN
        <3>1. owner' \in 0..Len(owners')
            BY <1>1, <1>2
        <3>2. subject' \in [record : Nat, alone : BOOLEAN]
            BY <1>1
        <3>3. QED
            BY <1>1, <3>1, <3>2
    <2>2. arrived' \in Nat /\ overlaps' \in Nat /\ routed' \in Nat
        BY <1>1 DEF TeachTypes
    <2>3. QED
        BY <1>1, <1>3, <2>1, <2>2 DEF TeachTypes
<1>5. Objects'
    BY <1>1 DEF Objects, Things
<1>6. OwnerEntered' /\ OwnerClear' /\ SavesOnlyInSession' /\ DiscardedStaysUnsaved'
    BY <1>1 DEF OwnerEntered, OwnerClear, SavesOnlyInSession, DiscardedStaysUnsaved
<1>7. ShownIsCurrent' /\ SubjectIsCurrent'
    BY <1>1 DEF ShownIsCurrent, SubjectIsCurrent
<1>8. QED
    BY <1>3, <1>4, <1>5, <1>6, <1>7

LEMMA TeachCancelKeeps == ASSUME TeachInv, Post, TeachCancel PROVE TeachInv'
<1> USE DEF TeachInv
<1>1. /\ owner # 0 /\ gone' = gone \cup Abandoned
      /\ sessions' = Append(sessions, Fresh)
      /\ subject' = [record |-> 0, alone |-> TRUE] /\ talk' = Overlapped
      /\ routed' = routed + 1
      /\ UNCHANGED <<owner, entered, arrived, overlaps, saves, shown>>
    BY DEF Post, TeachCancel
<1>2. owner \in 1..Len(owners) /\ Len(owners) \in Nat /\ owners[owner] \in Owner
    BY <1>1, LenProperties, ElementOfSeq DEF TeachTypes
<1>3. Fresh \in Session /\ Lost(Fresh) = {} /\ Fresh.draft = NoDraft /\ Fresh.target = 0 /\ Fresh.draft.notes = {}
    BY DEF Fresh, NoDraft, Session, Draft, Lost
<1>4. /\ sessions' \in Seq(Session) /\ Len(sessions) \in Nat /\ Len(sessions') = Len(sessions) + 1
      /\ \A y \in 1..Len(sessions) : sessions'[y] = sessions[y]
      /\ sessions'[Len(sessions) + 1] = Fresh
    BY <1>1, <1>3, SessionAdded
<1>5. /\ owners' \in Seq(Owner) /\ Len(owners') = Len(owners)
      /\ \A o \in 1..Len(owners) : o # owner => owners'[o] = owners[o]
      /\ owners'[owner].session = Len(sessions) + 1 /\ owners'[owner].auth = owners[owner].auth
    <2> DEFINE v == [owners[owner] EXCEPT !.session = Len(sessions) + 1]
    <2>1. v \in Owner /\ v.session = Len(sessions) + 1 /\ v.auth = owners[owner].auth
        BY <1>2, <1>4 DEF Owner
    <2>2. owners' = [owners EXCEPT ![owner] = v]
        BY DEF TeachCancel
    <2> HIDE DEF v
    <2>3. /\ owners' \in Seq(Owner) /\ Len(owners') = Len(owners)
          /\ \A p \in 1..Len(owners) : owners'[p] = IF p = owner THEN v ELSE owners[p]
        BY <1>2, <2>1, <2>2, OwnerEdited
    <2>4. QED
        BY <1>2, <2>1, <2>3
<1>6. \A o \in 1..Len(owners) : owners[o].session \in 1..Len(sessions)
    BY DEF Objects
<1>7. /\ talk' \in [Workers -> Talk \cup {NoTalk}] /\ gone' \subseteq 1..arrived
      /\ Turns' /\ Unused' /\ Apart'
    <2>1. \A x \in 1..Len(sessions') : x \in 1..Len(sessions) \/ x = Len(sessions) + 1
        BY <1>4
    <2>2. \A x \in 1..Len(sessions') : x \in 1..Len(sessions) \/ Lost(sessions'[x]) = {}
        BY <1>3, <1>4, <2>1
    <2>3. \A o \in 1..Len(owners) :
              /\ o \in 1..Len(owners') /\ owners'[o].auth = owners[o].auth
              /\ \/ owners'[o].session = owners[o].session
                 \/ Lost(sessions'[owners'[o].session]) = {} /\ owners'[o].session \notin 1..Len(sessions)
        BY <1>3, <1>4, <1>5
    <2>4. \A o, p \in 1..Len(owners) :
              owners'[o].session = owners'[p].session /\ owners'[o].session \notin 1..Len(sessions) => o = p
        BY <1>5, <1>6
    <2>5. \A x \in 1..Len(sessions) : x \in 1..Len(sessions') /\ sessions'[x] = sessions[x]
        BY <1>4
    <2>6. Len(sessions') \in Nat
        BY <1>4
    <2>7. QED
        BY <1>1, <1>2, <1>4, <1>5, <2>2, <2>3, <2>4, <2>5, <2>6, PostedTurns
<1>8. TeachTypes'
    BY <1>1, <1>2, <1>4, <1>5, <1>7 DEF TeachTypes
<1>9. Objects'
    <2>1. \A o \in 1..Len(owners') : owners'[o].session \in 1..Len(sessions')
        BY <1>2, <1>4, <1>5, <1>6
    <2>2. ASSUME NEW x \in 1..Len(sessions')
          PROVE  sessions'[x].draft.notes \subseteq sessions'[x].notes /\ Lost(sessions'[x]) \subseteq 1..arrived
        BY <1>3, <1>4 DEF Objects, Things
    <2>3. QED
        BY <1>1, <2>1, <2>2 DEF Objects, Things
<1>10. OwnerEntered' /\ SavesOnlyInSession' /\ DiscardedStaysUnsaved'
    BY <1>1, <1>5 DEF OwnerEntered, SavesOnlyInSession, DiscardedStaysUnsaved
<1>11. OwnerClear'
    BY <1>1, <1>3, <1>4, <1>5 DEF OwnerClear, Things
<1>12. ShownIsCurrent' /\ SubjectIsCurrent'
    BY <1>1, <1>3, <1>4, <1>5 DEF ShownIsCurrent, SubjectIsCurrent, Current
<1>13. QED
    BY <1>7, <1>8, <1>9, <1>10, <1>11, <1>12
LEMMA AnswerKeeps == ASSUME TeachInv, NEW t \in Workers, Answers(t) PROVE TeachInv'
<1> USE DEF TeachInv
<1>1. Running(t) /\ talk[t].pc = "answer"
    BY DEF Answers, Running
<1>2. /\ talk[t] \in Talk /\ Fits(talk[t])
      /\ talk[t].o \in 1..Len(owners) /\ O(t) \in Owner /\ O(t).session \in 1..Len(sessions)
      /\ talk[t].s # 0 => talk[t].s \in 1..Len(sessions) /\ S(t) \in Session
      /\ \A x \in 1..Len(sessions) : sessions[x] \in Session
    BY <1>1, TurnFacts
<1>3. /\ talk[t].n \in 1..arrived /\ talk[t].n \in Nat /\ talk[t].n # 0
    BY <1>2 DEF Fits, Placed, Talk
<1>4. /\ owner # 0 => owner \in 1..Len(owners) /\ owners[owner].session \in 1..Len(sessions)
      /\ \A u \in Workers : Running(u) => talk[u] \in Talk
    BY TurnIsTyped DEF TeachInv, TeachTypes, Objects
<1>5. Stage(talk[t]) /\ (talk[t].alone => Solo(talk[t]))
    BY <1>2 DEF Fits
<1>6. /\ talk'[t] = NoTalk /\ \A u \in Workers \ {t} : talk'[u] = talk[u]
      /\ talk' \in [Workers -> Talk \cup {NoTalk}]
      /\ UNCHANGED <<owner, owners, sessions, arrived, overlaps, routed, saves, entered, gone>>
    BY DEF Answers, Return, lessons, bounds, TeachTypes
<1>7. /\ talk[t].did = "previewed" =>
            /\ shown'.draft = talk[t].draft /\ shown'.target = talk[t].target /\ shown'.alone = talk[t].alone
            /\ subject' = subject
      /\ talk[t].did # "previewed" => shown' = shown
    BY DEF Answers
<1>8. talk[t].did = "replaced" =>
          /\ talk[t].kind = "restart" => subject'.record = subject.record /\ subject'.alone = (subject.alone /\ talk[t].alone)
          /\ talk[t].kind # "restart" => subject'.record = talk[t].found /\ subject'.alone = talk[t].alone
    BY DEF Answers, TeachTypes
<1>9. talk[t].did \in {"previewed", "replaced"}
    BY <1>1, <1>5 DEF Stage
<1>10. /\ shown' \in [draft : Draft, target : Nat, alone : BOOLEAN]
       /\ subject' \in [record : Nat, alone : BOOLEAN]
    BY <1>2 DEF Answers, TeachTypes, Talk
<1>11. \A u \in Workers : Running(u)' => u # t /\ Running(u) /\ talk'[u] = talk[u]
    BY <1>6 DEF Running, NoTalk
<1>12. talk[t].alone => \A u \in Workers : ~Running(u)'
    BY <1>1, <1>11 DEF Turns
<1> USE <1>6, <1>11
<1>13. TeachTypes'
    BY <1>10 DEF TeachTypes
<1>14. Objects'
    BY DEF Objects, Things
<1>15. Turns'
    <2>1. ASSUME NEW u \in Workers, Running(u)' PROVE Fits(talk[u])'
        <3>1. Fits(talk[u]) /\ ~talk[u].alone
            BY <1>1, <2>1 DEF Turns
        <3>2. QED
            BY <2>1, <3>1 DEF Fits, Placed, Stage, Opened, Clear, Things
    <2>2. QED
        BY <2>1 DEF Turns
<1>16. Unused'
    BY DEF Unused, Pending, Things
<1>17. Apart'
    <2>1. \A o \in 1..Len(owners) : \A x \in 1..Len(sessions) : InRoom(o, x)' => InRoom(o, x)
        BY DEF InRoom
    <2>2. \A o \in 1..Len(owners) : \A n \in 1..arrived : Has(o, n)' => Has(o, n)
        BY DEF Has, Things
    <2>3. QED
        BY <2>1, <2>2 DEF Apart
<1>18. OwnerEntered' /\ OwnerClear' /\ SavesOnlyInSession' /\ DiscardedStaysUnsaved'
    BY DEF OwnerEntered, OwnerClear, SavesOnlyInSession, DiscardedStaysUnsaved, Things
<1>19. ShownIsCurrent'
    <2>1. CASE talk[t].did = "previewed"
        <3>1. talk[t].alone => shown'.draft = Current.draft /\ shown'.target = Current.target
            BY <1>5, <1>7, <2>1 DEF Solo
        <3>2. QED
            BY <1>7, <1>12, <2>1, <3>1 DEF ShownIsCurrent, Current
    <2>2. CASE talk[t].did # "previewed"
        <3>1. (\A u \in Workers : Running(u)' => talk'[u].did # "previewed")
                 => \A u \in Workers : Running(u) => talk[u].did # "previewed"
            BY <2>2 DEF Running
        <3>2. QED
            BY <1>7, <2>2, <3>1 DEF ShownIsCurrent, Current
    <2>3. QED
        BY <2>1, <2>2
<1>20. SubjectIsCurrent'
    <2>1. CASE talk[t].did = "previewed"
        <3>1. ~Settling(t)
            BY <1>1, <2>1 DEF Settling
        <3>2. (\A u \in Workers : ~Settling(u)') => \A u \in Workers : ~Settling(u)
            BY <3>1 DEF Settling, Running
        <3>3. QED
            BY <1>7, <2>1, <3>2 DEF SubjectIsCurrent, Current
    <2>2. CASE talk[t].did = "replaced"
        <3>1. CASE talk[t].kind = "restart"
            BY <1>5, <1>8, <2>2, <3>1 DEF SubjectIsCurrent, Current, Solo
        <3>2. CASE talk[t].kind # "restart"
            BY <1>1, <1>5, <1>8, <2>2, <3>2 DEF SubjectIsCurrent, Current, Solo
        <3>3. QED
            BY <3>1, <3>2
    <2>3. QED
        BY <1>9, <2>1, <2>2
<1>21. QED
    BY <1>13, <1>14, <1>15, <1>16, <1>17, <1>18, <1>19, <1>20

LEMMA ReplaceKeeps == ASSUME TeachInv, NEW t \in Workers, Replace(t) PROVE TeachInv'
<1> USE DEF TeachInv
<1>1. Running(t) /\ talk[t].pc = "replace"
    BY DEF Replace, Running
<1>2. /\ talk[t] \in Talk /\ Fits(talk[t])
      /\ talk[t].o \in 1..Len(owners) /\ O(t) \in Owner /\ O(t).session \in 1..Len(sessions)
      /\ talk[t].s # 0 => talk[t].s \in 1..Len(sessions) /\ S(t) \in Session
      /\ \A x \in 1..Len(sessions) : sessions[x] \in Session
    BY <1>1, TurnFacts
<1>3. /\ talk[t].n \in 1..arrived /\ talk[t].n \in Nat /\ talk[t].n # 0
    BY <1>2 DEF Fits, Placed, Talk
<1>4. /\ owner # 0 => owner \in 1..Len(owners) /\ owners[owner].session \in 1..Len(sessions)
      /\ \A u \in Workers : Running(u) => talk[u] \in Talk
    BY TurnIsTyped DEF TeachInv, TeachTypes, Objects
<1> DEFINE o == talk[t].o
           x == Len(sessions) + 1
           next == talk[t].next
           w == [talk[t] EXCEPT !.did = "replaced", !.next = Fresh, !.gone = @ \ Held(t),
                                !.pc = IF talk[t].found # 0 THEN "target" ELSE "answer"]
<1>5. /\ Stage(talk[t]) /\ Placed(talk[t]) /\ Clear(talk[t]) /\ (talk[t].alone => Solo(talk[t]))
      /\ next \in Session /\ next.draft = NoDraft /\ next.notes = {}
    BY <1>2 DEF Fits, Stage, Talk
<1>6. /\ sessions' \in Seq(Session) /\ Len(sessions) \in Nat /\ Len(sessions') = x
      /\ \A y \in 1..Len(sessions) : sessions'[y] = sessions[y] /\ Lost(sessions'[y]) = Things(y)
      /\ sessions'[x] = next
    BY <1>5, SessionAdded DEF Replace, Things
<1>7. /\ owners' \in Seq(Owner) /\ Len(owners') = Len(owners)
      /\ \A p \in 1..Len(owners) : p # o => owners'[p] = owners[p]
      /\ \A p \in 1..Len(owners) : owners'[p].auth = owners[p].auth
      /\ owners'[o].session = x
    <2> DEFINE v == [O(t) EXCEPT !.session = Len(sessions) + 1]
    <2>1. v \in Owner /\ v.session = x /\ v.auth = O(t).auth
        BY <1>2, <1>6 DEF Owner
    <2>2. owners' = [owners EXCEPT ![o] = v]
        BY DEF Replace, O
    <2> HIDE DEF v
    <2>3. /\ owners' \in Seq(Owner) /\ Len(owners') = Len(owners)
          /\ \A p \in 1..Len(owners) : owners'[p] = IF p = o THEN v ELSE owners[p]
        BY <1>2, <2>1, <2>2, OwnerEdited
    <2> HIDE DEF o, x
    <2>4. QED
        BY <1>2, <2>1, <2>3 DEF O, o
<1>8. /\ gone' = (gone \cup Things(owners[o].session)) \ Held(t)
      /\ UNCHANGED <<owner, arrived, overlaps, routed, saves, entered, shown, subject>>
    BY DEF Replace, Things, O, bounds
<1>9. w \in Talk /\ talk'[t] = w
    <2>1. Fresh \in Session
        BY DEF Fresh, NoDraft, Session, Draft
    <2>2. talk'[t] = w
        BY DEF Replace
    <2>3. talk[t].gone \ Held(t) \in SUBSET Nat
        BY <1>2 DEF Talk
    <2> HIDE DEF next
    <2>4. w \in Talk
        BY <1>2, <2>1, <2>3 DEF Talk, Labels
    <2>5. QED
        BY <2>2, <2>4
<1>10. /\ w.pc = IF talk[t].found # 0 THEN "target" ELSE "answer"
       /\ w.did = "replaced" /\ w.next = Fresh /\ w.gone = talk[t].gone \ Held(t)
       /\ w.n = talk[t].n /\ w.o = talk[t].o /\ w.s = talk[t].s
       /\ w.kind = talk[t].kind /\ w.found = talk[t].found /\ w.open = talk[t].open /\ w.alone = talk[t].alone
       /\ w.draft = talk[t].draft /\ w.target = talk[t].target /\ w.web = talk[t].web /\ w.notes = talk[t].notes
    BY <1>2 DEF Talk
<1>11. Held(t) = {next.target, next.web}
    BY DEF Held
<1>12. \A y \in Nat : y \in Lost(next) <=> y \in Held(t) /\ y # 0
    BY <1>5, <1>11 DEF Lost
<1>13. Fresh.target = 0 /\ Fresh.web = 0
        /\ Fresh.draft = NoDraft /\ Fresh.notes = {}
    BY DEF Fresh
<1>14. ASSUME NEW u \in Workers \ {t}, Running(u)
       PROVE  /\ Running(u)' /\ talk'[u] \in Talk /\ talk'[u].gone = talk[u].gone \ Held(t)
              /\ talk'[u].pc = talk[u].pc /\ talk'[u].n = talk[u].n /\ talk'[u].o = talk[u].o
              /\ talk'[u].s = talk[u].s
              /\ talk'[u].kind = talk[u].kind /\ talk'[u].found = talk[u].found
              /\ talk'[u].did = talk[u].did /\ talk'[u].next = talk[u].next /\ talk'[u].alone = talk[u].alone
              /\ talk'[u].open = talk[u].open
              /\ talk'[u].draft = talk[u].draft /\ talk'[u].target = talk[u].target
              /\ talk'[u].web = talk[u].web
              /\ talk'[u].notes = talk[u].notes
    <2>1. talk[u] \in Talk /\ talk'[u] = [talk[u] EXCEPT !.gone = @ \ Held(t)]
        BY <1>4, <1>14 DEF Replace
    <2>2. talk'[u].pc = talk[u].pc
        BY <2>1 DEF Talk
    <2>3. talk[u].gone \ Held(t) \in SUBSET Nat
        BY <2>1 DEF Talk
    <2>4. QED
        BY <1>14, <2>1, <2>2, <2>3 DEF Running, Talk
<1>15. ASSUME NEW u \in Workers, ~Running(u) PROVE talk'[u] = NoTalk /\ ~Running(u)'
    <2>1. talk'[u] = talk[u]
        BY <1>1, <1>15 DEF Replace
    <2>2. QED
        BY <1>15, <2>1, IdleIsNoTurn DEF Running
<1>16. Running(t)' /\ talk'[t].pc \in {"target", "answer"} /\ talk'[t].did = "replaced"
    BY <1>9, <1>10 DEF Running
<1>17. talk' \in [Workers -> Talk \cup {NoTalk}]
    <2>1. \A u \in Workers : talk'[u] \in Talk \cup {NoTalk}
        BY <1>9, <1>14, <1>15
    <2>2. talk' = [u \in Workers |-> talk'[u]]
        BY DEF Replace
    <2> HIDE DEF w, x, next, o
    <2>3. QED
        BY <2>1, <2>2
<1> HIDE DEF w, x, next, o
<1>18. /\ \A u \in Workers : Running(u)' => Running(u)
       /\ \A u \in Workers : Running(u) =>
             /\ talk'[u].n = talk[u].n /\ talk'[u].o = talk[u].o /\ talk'[u].s = talk[u].s
             /\ talk'[u].alone = talk[u].alone
             /\ talk'[u].gone = talk[u].gone \ Held(t)
             /\ talk'[u].next = IF u = t THEN Fresh ELSE talk[u].next
    BY <1>1, <1>9, <1>10, <1>14, <1>15
<1>19. x = Len(sessions) + 1 /\ o = talk[t].o /\ next = talk[t].next
    BY DEF x, o, next
<1>20. o \in 1..Len(owners) /\ x \notin 1..Len(sessions)
    BY <1>2, <1>6, <1>19
<1>21. /\ arrived \in Nat
       /\ \A p \in 1..Len(owners) : owners[p].session \in 1..Len(sessions)
       /\ \A u \in Workers : Running(u) => talk[u].o \in 1..Len(owners) /\ talk[u].s \in 0..Len(sessions)
       /\ \A u \in Workers : Running(u) /\ talk[u].s # 0 => talk[u].s \in 1..Len(sessions)
       /\ \A u \in Workers : Running(u) => talk[u].gone \subseteq 1..arrived
    BY DEF Objects, Turns, Fits, Placed, TeachTypes
<1>22. Things(owners[o].session) \subseteq 1..arrived /\ gone' \subseteq 1..arrived /\ gone \subseteq 1..arrived
    BY <1>8, <1>20, <1>21 DEF Objects, TeachTypes
<1>23. Lost(next) \subseteq 1..arrived
    <2>1. next.target \in 0..arrived /\ next.web \in 0..arrived
        BY <1>5, <1>19 DEF Placed
    <2>2. QED
        BY <1>5, <1>21, <2>1 DEF Lost
<1>24. TeachTypes'
    <2>1. owner' \in 0..Len(owners')
        BY <1>7, <1>8 DEF TeachTypes
    <2>2. QED
        BY <1>6, <1>7, <1>8, <1>17, <1>22, <2>1 DEF TeachTypes
<1>25. Objects'
    <2>1. \A p \in 1..Len(owners) : owners'[p].session \in 1..Len(sessions')
        BY <1>6, <1>7, <1>19, <1>21
    <2>2. NoDraft.notes = {}
        BY DEF NoDraft
    <2>3. ASSUME NEW y \in 1..Len(sessions')
          PROVE  sessions'[y].draft.notes \subseteq sessions'[y].notes /\ Lost(sessions'[y]) \subseteq 1..arrived
        <3>1. CASE y = x
            BY <1>5, <1>6, <1>23, <2>2, <3>1
        <3>2. CASE y # x
            BY <1>6, <1>19, <3>2 DEF Objects, Things
        <3>3. QED
            BY <3>1, <3>2
    <2>4. QED
        BY <1>7, <1>8, <2>1, <2>3 DEF Objects, Things
<1>26. \A u \in Workers : Running(u) =>
           /\ talk'[u].gone \cap Lost(sessions'[owners'[talk[u].o].session]) = {}
           /\ talk[u].s # 0 => talk'[u].gone \cap Lost(sessions'[talk[u].s]) = {}
    <2> SUFFICES ASSUME NEW u \in Workers, Running(u)
                 PROVE  /\ talk'[u].gone \cap Lost(sessions'[owners'[talk[u].o].session]) = {}
                        /\ talk[u].s # 0 => talk'[u].gone \cap Lost(sessions'[talk[u].s]) = {}
        OBVIOUS
    <2>1. Clear(talk[u])
        BY DEF Turns, Fits
    <2>2. talk'[u].gone \subseteq talk[u].gone /\ talk'[u].gone \cap Held(t) = {} /\ talk'[u].gone \subseteq Nat
        BY <1>18, <1>21
    <2>3. talk[u].s # 0 => talk'[u].gone \cap Lost(sessions'[talk[u].s]) = {}
        BY <1>6, <1>21, <2>1, <2>2 DEF Clear
    <2>4. CASE talk[u].o = o
        <3>1. sessions'[owners'[talk[u].o].session] = next
            BY <1>6, <1>7, <2>4
        <3>2. \A n \in talk'[u].gone : n \notin Lost(next)
            BY <1>12, <2>2
        <3>3. talk'[u].gone \cap Lost(next) = {}
            BY <3>2
        <3>4. QED
            BY <2>3, <3>1, <3>3
    <2>5. CASE talk[u].o # o
        <3>1. owners'[talk[u].o].session = owners[talk[u].o].session /\ owners[talk[u].o].session \in 1..Len(sessions)
            BY <1>7, <1>21, <2>5
        <3>2. Lost(sessions'[owners'[talk[u].o].session]) = Things(owners[talk[u].o].session)
            BY <1>6, <3>1
        <3>3. talk[u].gone \cap Things(owners[talk[u].o].session) = {}
            BY <2>1 DEF Clear
        <3>4. talk'[u].gone \cap Things(owners[talk[u].o].session) = {}
            BY <2>2, <3>3
        <3>5. QED
            BY <2>3, <3>2, <3>4
    <2>6. QED
        BY <2>3, <2>4, <2>5
<1>27. Turns'
    <2>1. ASSUME NEW u \in Workers \ {t}, Running(u)' PROVE Fits(talk[u])'
        <3>1. Fits(talk[u]) /\ Running(u) /\ ~talk[u].alone
            BY <1>1, <1>18, <2>1 DEF Turns
        <3>2. /\ talk'[u].gone = talk[u].gone \ Held(t)
              /\ talk'[u].pc = talk[u].pc /\ talk'[u].n = talk[u].n /\ talk'[u].o = talk[u].o
              /\ talk'[u].s = talk[u].s
              /\ talk'[u].kind = talk[u].kind /\ talk'[u].found = talk[u].found
              /\ talk'[u].did = talk[u].did /\ talk'[u].next = talk[u].next /\ talk'[u].alone = talk[u].alone
              /\ talk'[u].open = talk[u].open
              /\ talk'[u].draft = talk[u].draft /\ talk'[u].target = talk[u].target
              /\ talk'[u].web = talk[u].web
              /\ talk'[u].notes = talk[u].notes
            BY <1>14, <3>1
        <3> USE <3>1, <3>2 DEF Fits
        <3>3. Placed(talk[u])'
            <4>1. talk[u].s \in 0..Len(sessions') /\ talk[u].o \in 1..Len(owners')
                BY <1>6, <1>7, <1>19, <1>21
            <4>2. talk[u].s # 0 => sessions'[talk[u].s] = sessions[talk[u].s]
                BY <1>6, <1>21
            <4>3. QED
                BY <1>8, <4>1, <4>2 DEF Placed, Inside
        <3>4. Stage(talk[u])'
            BY DEF Stage
        <3>5. Opened(talk[u])'
            BY <1>7, <1>21 DEF Opened
        <3>6. Clear(talk[u])'
            BY <1>26 DEF Clear, Things
        <3>7. QED
            BY <3>3, <3>4, <3>5, <3>6
    <2>2. Fits(talk[t])'
        <3> USE <1>1, <1>5, <1>9, <1>10 DEF Fits
        <3>1. Placed(talk[t])'
            <4>1. talk[t].s \in 0..Len(sessions') /\ talk[t].o \in 1..Len(owners')
                BY <1>6, <1>7, <1>19, <1>21
            <4>2. QED
                BY <1>8, <1>13, <1>21, <4>1 DEF Placed, Inside
        <3>2. Stage(talk[t])'
            BY <1>13 DEF Stage
        <3>3. Opened(talk[t])'
            BY <1>2, <1>7 DEF Opened
        <3>4. Clear(talk[t])'
            BY <1>26 DEF Clear, Things
        <3>5. w.alone => Solo(talk[t])'
            <4> SUFFICES ASSUME w.alone PROVE Solo(talk[t])'
                OBVIOUS
            <4>1. Solo(talk[t]) /\ owner' = owner /\ o = owner
                BY <1>8, <1>19 DEF Solo
            <4>2. Current' = next
                BY <1>6, <1>7, <4>1 DEF Current
            <4>3. talk[t].kind # "restart" /\ talk[t].found = 0 => next.target = talk[t].found
                BY <1>19 DEF Stage
            <4>4. w.kind = "restart" /\ subject.alone => next.target = subject.record
                BY <1>19, <4>1 DEF Solo
            <4>5. QED
                BY <1>8, <4>1, <4>2, <4>3, <4>4 DEF Solo, Inside
        <3>6. QED
            BY <3>1, <3>2, <3>3, <3>4, <3>5
    <2>3. \A u, r \in Workers : Running(u)' /\ Running(r)' /\ talk'[u].n = talk'[r].n => u = r
        BY <1>18 DEF Turns
    <2>4. \A u, r \in Workers : Running(u)' /\ Running(r)' /\ talk'[u].alone => u = r
        BY <1>18 DEF Turns
    <2>5. QED
        BY <2>1, <2>2, <2>3, <2>4 DEF Turns
<1>28. Unused'
    <2> SUFFICES ASSUME NEW u \in Workers, Pending(u)'
                 PROVE  /\ talk'[u].n \notin gone'
                        /\ \A y \in 1..Len(sessions') : talk'[u].n \notin Lost(sessions'[y])
                        /\ \A r \in Workers : Running(r)' =>
                              talk'[u].n \notin talk'[r].gone \cup {talk'[r].next.target, talk'[r].next.web}
        BY DEF Unused, Things
    <2>1. Running(u) /\ Pending(u) /\ talk'[u].n = talk[u].n
        BY <1>1, <1>14, <1>18 DEF Pending
    <2>2. /\ talk[u].n \notin gone /\ \A y \in 1..Len(sessions) : talk[u].n \notin Things(y)
          /\ \A r \in Workers : Running(r) => talk[u].n \notin talk[r].gone \cup {talk[r].next.target, talk[r].next.web}
        BY <2>1 DEF Unused
    <2>3. talk[u].n # 0 /\ talk[u].n \in Nat
        BY <1>21, <2>1 DEF Turns, Fits, Placed
    <2>4. talk[u].n \notin Held(t)
        BY <1>1, <1>11, <1>19, <2>2
    <2>5. talk[u].n \notin gone'
        BY <1>8, <1>20, <1>21, <2>2
    <2>6. \A y \in 1..Len(sessions') : talk[u].n \notin Lost(sessions'[y])
        <3>1. \A y \in 1..Len(sessions') : y \in 1..Len(sessions) \/ y = x
            BY <1>6, <1>19
        <3>2. QED
            BY <1>6, <1>12, <2>2, <2>3, <2>4, <3>1
    <2>7. \A r \in Workers : Running(r)' =>
              talk[u].n \notin talk'[r].gone \cup {talk'[r].next.target, talk'[r].next.web}
        BY <1>13, <1>18, <2>2, <2>3
    <2>8. QED
        BY <2>1, <2>5, <2>6, <2>7
<1>29. Apart'
    <2>1. ASSUME NEW p \in 1..Len(owners), NEW y \in 1..Len(sessions'), InRoom(p, y)'
          PROVE  (y \in 1..Len(sessions) /\ InRoom(p, y)) \/ (y = x /\ p = o)
        <3>1. CASE y = owners'[p].session
            BY <1>7, <1>21, <3>1 DEF InRoom
        <3>2. CASE y # owners'[p].session
            <4>1. PICK u \in Workers : Running(u)' /\ talk'[u].o = p /\ talk'[u].s = y
                BY <2>1, <3>2 DEF InRoom
            <4>2. Running(u) /\ talk[u].o = p /\ talk[u].s = y
                BY <1>18, <4>1
            <4>3. y \in 1..Len(sessions)
                BY <1>6, <1>19, <1>21, <4>2
            <4>4. QED
                BY <4>2, <4>3 DEF InRoom
        <3>3. QED
            BY <3>1, <3>2
    <2>2. ASSUME NEW p \in 1..Len(owners), NEW n \in 1..arrived, Has(p, n)' PROVE Has(p, n)
        <3>1. CASE n \in Lost(sessions'[owners'[p].session])
            <4>1. CASE p = o
                <5>1. n \in {talk[t].next.target, talk[t].next.web}
                    BY <1>6, <1>7, <1>11, <1>12, <1>19, <1>21, <3>1, <4>1
                <5>2. QED
                    BY <1>1, <1>19, <4>1, <5>1 DEF Has
            <4>2. CASE p # o
                <5>1. owners'[p].session = owners[p].session /\ owners[p].session \in 1..Len(sessions)
                    BY <1>7, <1>21, <4>2
                <5>2. n \in Things(owners[p].session)
                    BY <1>6, <3>1, <5>1
                <5>3. QED
                    BY <5>2 DEF Has
            <4>3. QED
                BY <4>1, <4>2
        <3>2. CASE n \notin Lost(sessions'[owners'[p].session])
            <4>1. PICK u \in Workers : Running(u)' /\ talk'[u].o = p /\
                        \/ n \in {talk'[u].n, talk'[u].next.target, talk'[u].next.web}
                        \/ talk'[u].s # 0 /\ n \in Lost(sessions'[talk'[u].s])
                BY <2>2, <3>2 DEF Has, Things
            <4>2. /\ Running(u) /\ talk[u].o = p /\ talk[u].s = talk'[u].s /\ talk[u].n = talk'[u].n
                  /\ (u # t => talk[u].next = talk'[u].next) /\ (u = t => talk'[u].next = Fresh)
                BY <1>18, <4>1
            <4>3. n # 0
                BY <1>21
            <4>4. talk[u].s # 0 /\ n \in Lost(sessions'[talk'[u].s]) => n \in Things(talk[u].s)
                BY <1>6, <1>21, <4>2
            <4>5. n \in {talk[u].n, talk[u].next.target, talk[u].next.web} \/ (talk[u].s # 0 /\ n \in Things(talk[u].s))
                BY <1>13, <4>1, <4>2, <4>3, <4>4
            <4>6. QED
                BY <4>2, <4>5 DEF Has
        <3>3. QED
            BY <3>1, <3>2
    <2>3. \A p, q \in 1..Len(owners) : \A y \in 1..Len(sessions') : InRoom(p, y)' /\ InRoom(q, y)' => p = q
        BY <1>20, <2>1 DEF Apart
    <2>4. \A p, q \in 1..Len(owners) : \A n \in 1..arrived : Has(p, n)' /\ Has(q, n)' => p = q
        BY <2>2 DEF Apart
    <2>5. QED
        BY <1>7, <1>8, <2>3, <2>4 DEF Apart
<1>30. OwnerEntered' /\ SavesOnlyInSession' /\ DiscardedStaysUnsaved'
    BY <1>4, <1>7, <1>8 DEF OwnerEntered, SavesOnlyInSession, DiscardedStaysUnsaved
<1>31. OwnerClear'
    <2> SUFFICES ASSUME owner # 0 PROVE gone' \cap Lost(sessions'[owners'[owner].session]) = {}
        BY <1>8 DEF OwnerClear, Things
    <2>1. CASE owner = o
        <3>1. sessions'[owners'[owner].session] = next /\ gone' \subseteq Nat /\ gone' \cap Held(t) = {}
            BY <1>6, <1>7, <1>8, <1>20, <1>21, <1>22, <2>1
        <3>2. QED
            BY <1>12, <3>1
    <2>2. CASE owner # o
        <3>1. owners'[owner].session = owners[owner].session /\ owners[owner].session \in 1..Len(sessions)
            BY <1>4, <1>7, <2>2
        <3>2. Lost(sessions'[owners'[owner].session]) = Things(owners[owner].session)
            BY <1>6, <3>1
        <3>3. Things(owners[o].session) \cap Things(owners[owner].session) = {}
            <4> SUFFICES ASSUME NEW n \in Things(owners[o].session), n \in Things(owners[owner].session) PROVE FALSE
                OBVIOUS
            <4>1. n \in 1..arrived /\ Has(o, n) /\ Has(owner, n)
                BY <1>22 DEF Has
            <4>2. QED
                BY <1>4, <1>20, <2>2, <4>1 DEF Apart
        <3>4. gone \cap Things(owners[owner].session) = {}
            BY DEF OwnerClear
        <3>5. QED
            BY <1>8, <3>2, <3>3, <3>4
    <2>3. QED
        BY <2>1, <2>2
<1>32. ShownIsCurrent'
    <2>1. CASE owner = o
        <3>1. Current' = next
            BY <1>6, <1>7, <1>8, <1>20, <2>1 DEF Current
        <3>2. QED
            BY <1>5, <3>1 DEF ShownIsCurrent
    <2>2. CASE owner # o
        <3>1. owner # 0 => Current' = Current
            BY <1>4, <1>6, <1>7, <1>8, <2>2 DEF Current
        <3>2. talk[t].did # "previewed"
            BY <1>1, <1>5 DEF Stage
        <3>3. (\A u \in Workers : Running(u)' => talk'[u].did # "previewed")
                 => \A u \in Workers : Running(u) => talk[u].did # "previewed"
            BY <1>14, <3>2
        <3>4. \A u \in Workers : Running(u)' /\ talk'[u].o = owner /\ talk'[u].pc = "target" =>
                  Running(u) /\ talk[u].o = owner /\ talk[u].pc = "target"
            BY <1>14, <1>18, <1>19, <2>2
        <3>5. QED
            BY <1>8, <3>1, <3>3, <3>4 DEF ShownIsCurrent
    <2>3. QED
        BY <2>1, <2>2
<1>33. SubjectIsCurrent'
    BY <1>16 DEF SubjectIsCurrent, Settling
<1>34. QED
    BY <1>24, <1>25, <1>27, <1>28, <1>29, <1>30, <1>31, <1>32, <1>33
\* The conversation's OwnerState is found, or a new one with a fresh session is added.
LEMMA Grown ==
    ASSUME TeachInv, AddOwner \/ (owner # 0 /\ UNCHANGED <<owner, owners, sessions>>)
    PROVE  /\ owners' \in Seq(Owner) /\ sessions' \in Seq(Session)
           /\ Len(owners') \in Nat /\ Len(sessions') \in Nat
           /\ \A p \in 1..Len(owners) : p \in 1..Len(owners') /\ owners'[p] = owners[p]
           /\ \A y \in 1..Len(sessions) : y \in 1..Len(sessions') /\ sessions'[y] = sessions[y]
           /\ \A y \in 1..Len(sessions') : y \in 1..Len(sessions) \/ sessions'[y] = Fresh
           /\ \A p \in 1..Len(owners') :
                 \/ p \in 1..Len(owners)
                 \/ /\ p = owner' /\ ~owners'[p].auth
                    /\ owners'[p].session \in 1..Len(sessions') /\ owners'[p].session \notin 1..Len(sessions)
           /\ owner' \in 1..Len(owners')
           /\ owner' \in 1..Len(owners) => owner # 0 /\ owner' = owner
<1>1. CASE AddOwner
    BY <1>1, OwnerAdded
<1>2. CASE owner # 0 /\ UNCHANGED <<owner, owners, sessions>>
    BY <1>2, LenProperties DEF TeachInv, TeachTypes
<1>3. QED
    BY <1>1, <1>2

\* A turn takes the conversation's OwnerState, found or new.
LEMMA EnterKeeps ==
    ASSUME TeachInv, NEW t \in Workers, NEW w \in Talk,
           AddOwner \/ (owner # 0 /\ UNCHANGED <<owner, owners, sessions>>),
           w.pc \in {"login", "begun"}, w.s = 0, w.o = owner', w.next.target = 0, w.next.web = 0, Stage(w),
           talk'[t] = w, talk' \in [Workers -> Talk \cup {NoTalk}],
           \A u \in Workers \ {t} :
              /\ talk'[u].pc = talk[u].pc
              /\ Running(u) =>
                 /\ ~talk'[u].alone
                 /\ talk'[u].n = talk[u].n /\ talk'[u].o = talk[u].o /\ talk'[u].s = talk[u].s
                 /\ talk'[u].gone = talk[u].gone
                 /\ talk'[u].kind = talk[u].kind /\ talk'[u].found = talk[u].found /\ talk'[u].did = talk[u].did
                 /\ talk'[u].next = talk[u].next /\ talk'[u].open = talk[u].open
                 /\ talk'[u].draft = talk[u].draft
                 /\ talk'[u].target = talk[u].target /\ talk'[u].web = talk[u].web
                 /\ talk'[u].notes = talk[u].notes,
           w.alone => \A u \in Workers \ {t} : ~Running(u),
           Running(t) => talk[t].did # "previewed" /\ ~Settling(t),
           arrived' \in Nat, arrived <= arrived', w.n \in 1..arrived',
           \A y \in 1..Len(sessions) : w.n \notin Things(y),
           \A u \in Workers \ {t} : Running(u) =>
              w.n # talk[u].n /\ w.n \notin talk[u].gone \cup {talk[u].next.target, talk[u].next.web},
           w.n \notin gone' \cup w.gone,
           \A u \in Workers \ {t} : Pending(u) => talk[u].n \notin gone' \cup w.gone,
           gone' \subseteq 1..arrived', w.gone \subseteq 1..arrived',
           \A n \in gone' \cup w.gone : n \notin Lost(sessions'[owners'[owner'].session]),
           owners'[owner'].auth => w.open /\ entered',
           UNCHANGED <<saves, shown, subject>>,
           overlaps' \in Nat, routed' \in Nat, entered' \in BOOLEAN
    PROVE  TeachInv'
<1> USE DEF TeachInv
<1>1. /\ owners' \in Seq(Owner) /\ sessions' \in Seq(Session)
      /\ Len(owners') \in Nat /\ Len(sessions') \in Nat
      /\ \A p \in 1..Len(owners) : p \in 1..Len(owners') /\ owners'[p] = owners[p]
      /\ \A y \in 1..Len(sessions) : y \in 1..Len(sessions') /\ sessions'[y] = sessions[y]
      /\ \A y \in 1..Len(sessions') : y \in 1..Len(sessions) \/ sessions'[y] = Fresh
      /\ \A p \in 1..Len(owners') :
            \/ p \in 1..Len(owners)
            \/ /\ p = owner' /\ ~owners'[p].auth
               /\ owners'[p].session \in 1..Len(sessions') /\ owners'[p].session \notin 1..Len(sessions)
      /\ owner' \in 1..Len(owners')
      /\ owner' \in 1..Len(owners) => owner # 0 /\ owner' = owner
    BY Grown
<1>2. /\ Lost(Fresh) = {} /\ Fresh.draft = NoDraft /\ Fresh.target = 0 /\ Fresh.draft.notes = {}
    BY DEF Fresh, NoDraft, Lost
<1>3. /\ arrived \in Nat
      /\ \A p \in 1..Len(owners) : owners[p].session \in 1..Len(sessions)
      /\ \A u \in Workers : Running(u) =>
            /\ talk[u].n \in 1..arrived /\ talk[u].o \in 1..Len(owners) /\ talk[u].s \in 0..Len(sessions)
            /\ talk[u].next.target \in 0..arrived /\ talk[u].next.web \in 0..arrived
      /\ \A u \in Workers : Running(u) /\ talk[u].s # 0 => talk[u].s \in 1..Len(sessions)
    BY DEF Objects, Turns, Fits, Placed, TeachTypes
<1>4. \A y \in 1..Len(sessions) : Lost(sessions'[y]) = Things(y) /\ Things(y) \subseteq 1..arrived
    BY <1>1 DEF Things, Objects
<1>5. \A y \in 1..Len(sessions') : y \in 1..Len(sessions) \/ Lost(sessions'[y]) = {}
    BY <1>1, <1>2
<1>6. \A u \in Workers \ {t} : Running(u)' <=> Running(u)
    BY DEF Running
<1>7. Running(t)' /\ w.n # 0 /\ w.n \in Nat
    BY DEF Running
<1>8. TeachTypes'
    BY <1>1 DEF TeachTypes
<1>9. Objects'
    <2>1. \A p \in 1..Len(owners') : owners'[p].session \in 1..Len(sessions')
        BY <1>1, <1>3
    <2>2. ASSUME NEW y \in 1..Len(sessions')
          PROVE  sessions'[y].draft.notes \subseteq sessions'[y].notes /\ Lost(sessions'[y]) \subseteq 1..arrived'
        <3>1. CASE y \in 1..Len(sessions)
            BY <1>1, <1>3, <1>4, <3>1 DEF Objects
        <3>2. CASE y \notin 1..Len(sessions)
            BY <1>1, <1>2, <3>2
        <3>3. QED
            BY <3>1, <3>2
    <2>3. QED
        BY <2>1, <2>2 DEF Objects, Things
<1>10. Turns'
    <2>1. ASSUME NEW u \in Workers \ {t}, Running(u)' PROVE Fits(talk[u])'
        <3>1. Fits(talk[u]) /\ Running(u)
            BY <1>6, <2>1 DEF Turns
        <3>2. /\ talk'[u].pc = talk[u].pc /\ ~talk'[u].alone
              /\ talk'[u].n = talk[u].n /\ talk'[u].o = talk[u].o /\ talk'[u].s = talk[u].s
              /\ talk'[u].gone = talk[u].gone
              /\ talk'[u].kind = talk[u].kind /\ talk'[u].found = talk[u].found /\ talk'[u].did = talk[u].did
              /\ talk'[u].next = talk[u].next /\ talk'[u].open = talk[u].open /\ talk'[u].draft = talk[u].draft
              /\ talk'[u].target = talk[u].target /\ talk'[u].web = talk[u].web
              /\ talk'[u].notes = talk[u].notes
            BY <3>1
        <3>3. /\ owners'[talk[u].o] = owners[talk[u].o] /\ talk[u].o \in 1..Len(owners')
              /\ owners[talk[u].o].session \in 1..Len(sessions)
            BY <1>1, <1>3, <3>1
        <3>4. talk[u].s # 0 => sessions'[talk[u].s] = sessions[talk[u].s] /\ talk[u].s \in 1..Len(sessions)
            BY <1>1, <1>3, <3>1
        <3>5. talk[u].s \in 0..Len(sessions')
            BY <1>1, <1>3, <3>1
        <3> USE <3>1, <3>2, <3>3, <3>4 DEF Fits
        <3>6. Placed(talk[u])'
            <4>1. /\ talk[u].n \in 1..arrived' /\ talk[u].next.target \in 0..arrived'
                  /\ talk[u].next.web \in 0..arrived'
                BY <1>3, SMTT(30)
            <4>2. talk[u].gone \subseteq 1..arrived'
                <5>1. talk[u].gone \subseteq 1..arrived
                    BY DEF Placed
                <5>2. \A n \in 1..arrived : n \in 1..arrived'
                    BY <1>3
                <5>3. QED
                    BY <5>1, <5>2
            <4>3. talk[u].pc = "save" => sessions'[talk[u].s].draft # NoDraft
                BY DEF Placed, Inside
            <4>4. talk[u].pc = "build" => talk[u].notes \subseteq sessions'[talk[u].s].notes
                BY DEF Placed, Inside
            <4>5. talk[u].pc \in Inside => talk[u].s # 0
                BY DEF Placed
            <4>6. QED
                BY <3>5, <4>1, <4>2, <4>3, <4>4, <4>5 DEF Placed
        <3>7. Stage(talk[u])'
            BY DEF Stage
        <3>8. Opened(talk[u])'
            BY DEF Opened
        <3>9. Clear(talk[u])'
            <4>1. talk[u].gone \cap Lost(sessions'[owners'[talk[u].o].session]) = {}
                BY <1>4 DEF Clear
            <4>2. talk[u].s # 0 => talk[u].gone \cap Lost(sessions'[talk[u].s]) = {}
                BY <1>4 DEF Clear
            <4>3. QED
                BY <4>1, <4>2 DEF Clear, Things
        <3>10. QED
            BY <3>6, <3>7, <3>8, <3>9
    <2>2. Fits(talk[t])'
        <3>1. Placed(talk[t])'
            BY <1>1, <1>7 DEF Placed, Inside
        <3>2. Stage(talk[t])'
            BY DEF Stage
        <3>3. Opened(talk[t])'
            BY DEF Opened
        <3>4. Clear(talk[t])'
            BY DEF Clear, Things
        <3>5. Solo(talk[t])'
            BY DEF Solo, Inside, Stage
        <3>6. QED
            BY <3>1, <3>2, <3>3, <3>4, <3>5 DEF Fits
    <2>3. ASSUME NEW u \in Workers, NEW r \in Workers, Running(u)', Running(r)', talk'[u].n = talk'[r].n PROVE u = r
        <3>1. CASE u # t /\ r # t
            BY <1>6, <2>3, <3>1 DEF Turns
        <3>2. CASE u = t \/ r = t
            BY <1>6, <2>3, <3>2
        <3>3. QED
            BY <3>1, <3>2
    <2>4. \A u, r \in Workers : Running(u)' /\ Running(r)' /\ talk'[u].alone => u = r
        BY <1>6
    <2>5. QED
        BY <2>1, <2>2, <2>3, <2>4 DEF Turns
<1>11. Unused'
    <2> SUFFICES ASSUME NEW u \in Workers, Pending(u)'
                 PROVE  /\ talk'[u].n \notin gone'
                        /\ \A y \in 1..Len(sessions') : talk'[u].n \notin Lost(sessions'[y])
                        /\ \A r \in Workers : Running(r)' =>
                              talk'[u].n \notin talk'[r].gone \cup {talk'[r].next.target, talk'[r].next.web}
        BY DEF Unused, Things
    <2>1. CASE u = t
        <3>1. ASSUME NEW y \in 1..Len(sessions') PROVE w.n \notin Lost(sessions'[y])
            <4>1. CASE y \in 1..Len(sessions)
                BY <1>4, <4>1
            <4>2. CASE y \notin 1..Len(sessions)
                BY <1>5, <4>2
            <4>3. QED
                BY <4>1, <4>2
        <3>2. ASSUME NEW r \in Workers, Running(r)'
              PROVE  w.n \notin talk'[r].gone \cup {talk'[r].next.target, talk'[r].next.web}
            BY <1>6, <1>7, <3>2
        <3>3. QED
            BY <2>1, <3>1, <3>2
    <2>2. CASE u # t
        <3>1. Pending(u) /\ Running(u) /\ talk'[u].n = talk[u].n
            BY <1>6, <2>2 DEF Pending
        <3>2. ASSUME NEW y \in 1..Len(sessions') PROVE talk[u].n \notin Lost(sessions'[y])
            <4>1. CASE y \in 1..Len(sessions)
                BY <1>4, <3>1, <4>1 DEF Unused
            <4>2. CASE y \notin 1..Len(sessions)
                BY <1>5, <4>2
            <4>3. QED
                BY <4>1, <4>2
        <3>3. ASSUME NEW r \in Workers, Running(r)'
              PROVE  talk[u].n \notin talk'[r].gone \cup {talk'[r].next.target, talk'[r].next.web}
            <4>1. CASE r = t
                BY <1>3, <2>2, <3>1, <4>1
            <4>2. CASE r # t
                BY <1>6, <3>1, <3>3, <4>2 DEF Unused
            <4>3. QED
                BY <4>1, <4>2
        <3>4. QED
            BY <2>2, <3>1, <3>2, <3>3
    <2>3. QED
        BY <2>1, <2>2
<1>12. Apart'
    <2>1. ASSUME NEW p \in 1..Len(owners'), NEW y \in 1..Len(sessions'), InRoom(p, y)'
          PROVE  \/ p \in 1..Len(owners) /\ y \in 1..Len(sessions) /\ InRoom(p, y)
                 \/ p \notin 1..Len(owners) /\ y \notin 1..Len(sessions)
        <3>1. CASE y = owners'[p].session
            <4>1. CASE p \in 1..Len(owners)
                BY <1>1, <1>3, <3>1, <4>1 DEF InRoom
            <4>2. CASE p \notin 1..Len(owners)
                BY <1>1, <3>1, <4>2
            <4>3. QED
                BY <4>1, <4>2
        <3>2. CASE y # owners'[p].session
            <4>1. PICK u \in Workers : Running(u)' /\ talk'[u].o = p /\ talk'[u].s = y
                BY <2>1, <3>2 DEF InRoom
            <4>2. u # t
                BY <1>1, <4>1
            <4>3. Running(u) /\ talk[u].o = p /\ talk[u].s = y
                BY <1>6, <4>1, <4>2
            <4>4. p \in 1..Len(owners) /\ y \in 1..Len(sessions)
                BY <1>1, <1>3, <4>3
            <4>5. QED
                BY <4>3, <4>4 DEF InRoom
        <3>3. QED
            BY <3>1, <3>2
    <2>2. ASSUME NEW p \in 1..Len(owners'), NEW n \in 1..arrived', Has(p, n)'
          PROVE  (n = w.n /\ p = owner') \/ (p \in 1..Len(owners) /\ Has(p, n) /\ n # w.n /\ n \in 1..arrived)
        <3>1. CASE n \in Lost(sessions'[owners'[p].session])
            <4>1. p \in 1..Len(owners)
                BY <1>1, <1>5, <3>1
            <4>2. owners'[p].session = owners[p].session /\ owners[p].session \in 1..Len(sessions)
                BY <1>1, <1>3, <4>1
            <4>3. n \in Things(owners[p].session)
                BY <1>4, <3>1, <4>2
            <4>4. n # w.n /\ n \in 1..arrived
                BY <1>4, <4>2, <4>3
            <4>5. QED
                BY <4>1, <4>3, <4>4 DEF Has
        <3>2. CASE n \notin Lost(sessions'[owners'[p].session])
            <4>1. PICK u \in Workers : Running(u)' /\ talk'[u].o = p /\
                        \/ n \in {talk'[u].n, talk'[u].next.target, talk'[u].next.web}
                        \/ talk'[u].s # 0 /\ n \in Lost(sessions'[talk'[u].s])
                BY <2>2, <3>2 DEF Has, Things
            <4>2. n # 0
                OBVIOUS
            <4>3. CASE u = t
                BY <4>1, <4>2, <4>3
            <4>4. CASE u # t
                <5>1. Running(u) /\ talk[u].o = p /\ talk'[u].s = talk[u].s /\ talk'[u].n = talk[u].n /\ talk'[u].next = talk[u].next
                    BY <1>6, <4>1, <4>4
                <5>2. talk[u].s # 0 /\ n \in Lost(sessions'[talk'[u].s]) =>
                          n \in Things(talk[u].s) /\ n # w.n /\ n \in 1..arrived
                    BY <1>3, <1>4, <5>1
                <5>3. n \in {talk[u].n, talk[u].next.target, talk[u].next.web} => n # w.n /\ n \in 1..arrived
                    BY <1>3, <4>2, <4>4, <5>1, SMTT(30)
                <5>4. p \in 1..Len(owners)
                    BY <1>3, <5>1
                <5>5. QED
                    BY <4>1, <5>1, <5>2, <5>3, <5>4 DEF Has
            <4>5. QED
                BY <4>3, <4>4
        <3>3. QED
            BY <3>1, <3>2
    <2>3. \A p, q \in 1..Len(owners') : p \notin 1..Len(owners) /\ q \notin 1..Len(owners) => p = q
        BY <1>1
    <2>4. \A p, q \in 1..Len(owners') : \A y \in 1..Len(sessions') : InRoom(p, y)' /\ InRoom(q, y)' => p = q
        BY <2>1, <2>3 DEF Apart
    <2>5. \A p, q \in 1..Len(owners') : \A n \in 1..arrived' : Has(p, n)' /\ Has(q, n)' => p = q
        BY <2>2 DEF Apart
    <2>6. QED
        BY <2>4, <2>5 DEF Apart
<1>13. OwnerEntered' /\ OwnerClear' /\ SavesOnlyInSession' /\ DiscardedStaysUnsaved'
    BY DEF OwnerEntered, OwnerClear, SavesOnlyInSession, DiscardedStaysUnsaved, Things
<1>14. CASE owner' \notin 1..Len(owners)
    <2>1. sessions'[owners'[owner'].session] = Fresh /\ ~owners'[owner'].auth
        BY <1>1, <1>14
    <2>2. ShownIsCurrent' /\ SubjectIsCurrent'
        BY <1>2, <2>1 DEF ShownIsCurrent, SubjectIsCurrent, Current
    <2>3. QED
        BY <1>8, <1>9, <1>10, <1>11, <1>12, <1>13, <2>2
<1>15. CASE owner' \in 1..Len(owners)
    <2>1. owner # 0 /\ owner' = owner /\ owners'[owner] = owners[owner] /\ Current' = Current
        BY <1>1, <1>3, <1>15 DEF Current
    <2>2. ShownIsCurrent'
        <3>1. (\A u \in Workers : Running(u)' => talk'[u].did # "previewed")
                 => \A u \in Workers : Running(u) => talk[u].did # "previewed"
            BY <1>6
        <3>2. \A u \in Workers : Running(u)' /\ talk'[u].o = owner /\ talk'[u].pc = "target" =>
                  Running(u) /\ talk[u].o = owner /\ talk[u].pc = "target"
            BY <1>6
        <3>3. QED
            BY <2>1, <3>1, <3>2 DEF ShownIsCurrent
    <2>3. SubjectIsCurrent'
        <3>1. (\A u \in Workers : ~Settling(u)') => \A u \in Workers : ~Settling(u)
            BY <1>6 DEF Settling
        <3>2. QED
            BY <2>1, <3>1 DEF SubjectIsCurrent
    <2>4. QED
        BY <1>8, <1>9, <1>10, <1>11, <1>12, <1>13, <2>2, <2>3
<1>16. QED
    BY <1>14, <1>15
LEMMA BeginKeeps == ASSUME TeachInv, NEW t \in Workers, TalkBegins(t) PROVE TeachInv'
<1> USE DEF TeachInv
<1> DEFINE w(pc) == [pc |-> pc, n |-> arrived + 1, kind |-> "any", o |-> owner', s |-> 0,
                     draft |-> NoDraft, target |-> 0, web |-> 0, notes |-> {}, next |-> Fresh,
                     found |-> 0, did |-> "nothing", open |-> entered, gone |-> gone,
                     alone |-> \A r \in Workers : ~Running(r)]
<1>1. PICK pc \in {"login", "begun"} : talk' = [Overlapped EXCEPT ![t] = w(pc)]
    BY DEF TalkBegins
<1>2. /\ ~Running(t) /\ arrived' = arrived + 1 /\ overlaps' \in {overlaps, overlaps + 1}
      /\ AddOwner \/ (owner # 0 /\ UNCHANGED <<owner, owners, sessions>>)
      /\ UNCHANGED <<routed, saves, entered, gone, shown, subject>>
    BY DEF TalkBegins, teachingHistory
<1>3. /\ arrived \in Nat /\ overlaps \in Nat /\ routed \in Nat /\ gone \subseteq 1..arrived
      /\ entered \in BOOLEAN
      /\ arrived + 1 \notin 1..arrived
    BY DEF TeachTypes
<1>4. owner' \in 1..Len(owners') /\ Len(owners') \in Nat
    BY <1>2, Grown
<1>5. /\ Fresh \in Session /\ NoDraft \in Draft /\ Fresh.target = 0 /\ Fresh.web = 0
      /\ Fresh.draft = NoDraft /\ Fresh.notes = {}
    BY DEF Fresh, NoDraft, Session, Draft
<1>6. w(pc) \in Talk
    <2>1. (\A r \in Workers : ~Running(r)) \in BOOLEAN
        OBVIOUS
    <2>2. arrived + 1 \in Nat /\ owner' \in Nat /\ gone \in SUBSET Nat
        BY <1>3, <1>4
    <2>3. QED
        BY <1>3, <1>5, <2>1, <2>2 DEF Talk, Labels
<1>7. /\ talk'[t] = w(pc) /\ talk' \in [Workers -> Talk \cup {NoTalk}]
      /\ \A u \in Workers \ {t} : talk'[u] = Overlapped[u]
    <2>1. Overlapped \in [Workers -> Talk \cup {NoTalk}]
        <3>1. \A u \in Workers : Overlapped[u] \in Talk \cup {NoTalk}
            BY OverlappedFacts
        <3>2. QED
            BY <3>1 DEF Overlapped
    <2> HIDE DEF w
    <2>2. QED
        BY <1>1, <1>6, <2>1
<1>8. \A u \in Workers \ {t} :
          /\ talk'[u].pc = talk[u].pc
          /\ Running(u) =>
                 /\ ~talk'[u].alone
                 /\ talk'[u].n = talk[u].n /\ talk'[u].o = talk[u].o /\ talk'[u].s = talk[u].s
                 /\ talk'[u].gone = talk[u].gone
                 /\ talk'[u].kind = talk[u].kind /\ talk'[u].found = talk[u].found /\ talk'[u].did = talk[u].did
                 /\ talk'[u].next = talk[u].next /\ talk'[u].open = talk[u].open
                 /\ talk'[u].draft = talk[u].draft
                 /\ talk'[u].target = talk[u].target /\ talk'[u].web = talk[u].web
                 /\ talk'[u].notes = talk[u].notes
    BY <1>7, OverlappedFacts
<1>9. \A u \in Workers : Running(u) =>
          /\ talk[u].n \in 1..arrived /\ talk[u].gone \subseteq 1..arrived
          /\ talk[u].next.target \in 0..arrived /\ talk[u].next.web \in 0..arrived
    BY DEF Turns, Fits, Placed
<1>10. \A u \in Workers \ {t} : Pending(u) => talk[u].n \notin gone
    BY DEF Unused
<1>11. \A y \in 1..Len(sessions) : arrived + 1 \notin Things(y)
    BY <1>3 DEF Objects
<1>12. /\ \A n \in gone : n \notin Lost(sessions'[owners'[owner'].session])
       /\ owners'[owner'].auth => entered
    <2>1. CASE AddOwner
        BY <2>1, OwnerAdded DEF Fresh, Lost
    <2>2. CASE owner # 0 /\ UNCHANGED <<owner, owners, sessions>>
        BY <2>2 DEF OwnerClear, OwnerEntered, Things
    <2>3. QED
        BY <1>2, <2>1, <2>2
<1>13. /\ w(pc).pc \in {"login", "begun"} /\ w(pc).s = 0 /\ w(pc).o = owner' /\ w(pc).next = Fresh
       /\ w(pc).n = arrived + 1 /\ w(pc).gone = gone /\ w(pc).open = entered
       /\ w(pc).kind = "any" /\ w(pc).did = "nothing" /\ w(pc).found = 0
       /\ w(pc).alone => \A u \in Workers \ {t} : ~Running(u)
    OBVIOUS
<1> DEFINE v == w(pc)
<1>14. /\ v \in Talk /\ v = talk'[t]
       /\ v.pc \in {"login", "begun"} /\ v.s = 0 /\ v.o = owner' /\ v.next = Fresh
       /\ v.n = arrived + 1 /\ v.gone = gone /\ v.open = entered
       /\ v.kind = "any" /\ v.did = "nothing" /\ v.found = 0
       /\ v.alone => \A u \in Workers \ {t} : ~Running(u)
    BY <1>6, <1>7, <1>13
<1> HIDE DEF v, w
<1>15. Stage(v)
    BY <1>5, <1>14 DEF Stage
<1>16. /\ arrived' \in Nat /\ arrived <= arrived' /\ v.n \in 1..arrived'
       /\ gone' \subseteq 1..arrived' /\ v.gone \subseteq 1..arrived'
       /\ overlaps' \in Nat /\ routed' \in Nat /\ entered' \in BOOLEAN
       /\ UNCHANGED <<saves, shown, subject>>
    BY <1>2, <1>3, <1>14
<1>17. /\ \A u \in Workers \ {t} : Running(u) =>
              v.n # talk[u].n /\ v.n \notin talk[u].gone \cup {talk[u].next.target, talk[u].next.web}
       /\ v.n \notin gone' \cup v.gone
       /\ \A u \in Workers \ {t} : Pending(u) => talk[u].n \notin gone' \cup v.gone
       /\ \A y \in 1..Len(sessions) : v.n \notin Things(y)
    BY <1>2, <1>3, <1>9, <1>10, <1>11, <1>14
<1>18. /\ \A n \in gone' \cup v.gone : n \notin Lost(sessions'[owners'[owner'].session])
       /\ owners'[owner'].auth => v.open /\ entered'
    BY <1>2, <1>12, <1>14
<1>19. v.next.target = 0 /\ v.next.web = 0
    BY <1>5, <1>14
<1>20. QED
    BY <1>2, <1>7, <1>8, <1>14, <1>15, <1>16, <1>17, <1>18, <1>19, EnterKeeps

LEMMA ExpireKeeps == ASSUME TeachInv, NEW t \in Workers, Expire(t) PROVE TeachInv'
<1> USE DEF TeachInv
<1>1. Running(t) /\ talk[t].pc \in {"login", "begun"}
    BY DEF Expire, Running
<1>2. /\ talk[t] \in Talk /\ Fits(talk[t])
      /\ talk[t].o \in 1..Len(owners) /\ O(t) \in Owner /\ O(t).session \in 1..Len(sessions)
      /\ talk[t].s # 0 => talk[t].s \in 1..Len(sessions) /\ S(t) \in Session
      /\ \A x \in 1..Len(sessions) : sessions[x] \in Session
    BY <1>1, TurnFacts
<1>3. /\ talk[t].n \in 1..arrived /\ talk[t].n \in Nat /\ talk[t].n # 0
    BY <1>2 DEF Fits, Placed, Talk
<1>4. /\ owner # 0 => owner \in 1..Len(owners) /\ owners[owner].session \in 1..Len(sessions)
      /\ \A u \in Workers : Running(u) => talk[u] \in Talk
    BY TurnIsTyped DEF TeachInv, TeachTypes, Objects
<1> DEFINE w == [talk[t] EXCEPT !.o = Len(owners) + 1]
<1>5. AddOwner /\ entered' = FALSE /\ gone' = gone \cup Abandoned
    BY DEF Expire
<1>6. UNCHANGED <<arrived, overlaps, routed, saves, shown, subject>>
    BY DEF Expire, bounds
<1>7. /\ owner' = Len(owners) + 1 /\ Len(owners) \in Nat /\ ~owners'[owner'].auth
      /\ Lost(sessions'[owners'[owner'].session]) = {}
    BY <1>5, OwnerAdded
<1>8. talk' = [talk EXCEPT ![t] = w]
    BY DEF Expire, TeachTypes
<1>9. w \in Talk
    <2>1. Len(owners) + 1 \in Nat
        BY <1>7
    <2>2. QED
        BY <1>2, <2>1 DEF Talk
<1>10. /\ w.o = owner' /\ w.pc = talk[t].pc /\ w.n = talk[t].n /\ w.s = talk[t].s /\ w.gone = talk[t].gone
       /\ w.kind = talk[t].kind /\ w.found = talk[t].found /\ w.did = talk[t].did /\ w.next = talk[t].next
       /\ w.open = talk[t].open /\ w.alone = talk[t].alone
    BY <1>2, <1>7 DEF Talk
<1> HIDE DEF w
<1>11. Stage(talk[t]) /\ Placed(talk[t])
    BY <1>2 DEF Fits
<1>12. Stage(w) /\ w.s = 0 /\ w.next.target = 0 /\ w.next.web = 0
    BY <1>1, <1>10, <1>11 DEF Stage
<1>13. /\ talk'[t] = w /\ talk' \in [Workers -> Talk \cup {NoTalk}]
       /\ \A u \in Workers \ {t} : talk'[u] = talk[u] /\ (Running(u) => ~talk[u].alone)
    BY <1>1, <1>8, <1>9 DEF TeachTypes, Turns
<1>14. Pending(t)
    BY <1>1 DEF Pending
<1>15. /\ arrived \in Nat /\ overlaps \in Nat /\ routed \in Nat
       /\ gone' \subseteq 1..arrived /\ talk[t].gone \subseteq 1..arrived
       /\ \A y \in Abandoned : \E x \in 1..Len(sessions) : y \in Things(x)
    <2>1. Abandoned # {} => owner # 0 /\ Abandoned = Things(owners[owner].session)
        BY DEF Abandoned, Things
    <2>2. Abandoned \subseteq 1..arrived
        BY <1>4, <2>1 DEF Objects
    <2>3. QED
        BY <1>4, <1>5, <1>11, <2>1, <2>2 DEF TeachTypes, Placed
<1>16. /\ \A y \in 1..Len(sessions) : talk[t].n \notin Things(y)
       /\ \A u \in Workers \ {t} : Running(u) =>
              talk[t].n # talk[u].n /\ talk[t].n \notin talk[u].gone \cup {talk[u].next.target, talk[u].next.web}
       /\ talk[t].n \notin gone \cup talk[t].gone
    BY <1>1, <1>14 DEF Unused, Turns
<1>17. talk[t].n \notin gone' \cup talk[t].gone
    BY <1>5, <1>15, <1>16
<1>18. \A u \in Workers \ {t} : Pending(u) => talk[u].n \notin gone' \cup talk[t].gone
    BY <1>1, <1>5, <1>15 DEF Unused
<1>19. talk[t].did # "previewed" /\ ~Settling(t)
    BY <1>1, <1>11 DEF Stage, Settling
<1>20. w.alone => \A u \in Workers \ {t} : ~Running(u)
    BY <1>1, <1>10 DEF Turns
<1>21. /\ arrived' \in Nat /\ arrived <= arrived' /\ w.n \in 1..arrived' /\ w.pc \in {"login", "begun"}
       /\ gone' \subseteq 1..arrived' /\ w.gone \subseteq 1..arrived'
       /\ overlaps' \in Nat /\ routed' \in Nat /\ entered' \in BOOLEAN
    <2>1. arrived' = arrived /\ overlaps' = overlaps /\ routed' = routed
        BY <1>6
    <2>2. w.n \in 1..arrived' /\ w.pc \in {"login", "begun"} /\ w.gone \subseteq 1..arrived'
        BY <1>1, <1>3, <1>10, <1>15, <2>1
    <2>3. gone' \subseteq 1..arrived'
        BY <1>15, <2>1
    <2>4. arrived' \in Nat /\ arrived <= arrived' /\ overlaps' \in Nat /\ routed' \in Nat
        BY <1>15, <2>1
    <2>5. entered' \in BOOLEAN
        BY <1>5
    <2>6. QED
        BY <2>2, <2>3, <2>4, <2>5
<1>22. /\ \A n \in gone' \cup w.gone : n \notin Lost(sessions'[owners'[owner'].session])
       /\ owners'[owner'].auth => w.open /\ entered'
    BY <1>7
<1>23. QED
    BY <1>5, <1>6, <1>9, <1>10, <1>12, <1>13, <1>16, <1>17, <1>18, <1>19, <1>20, <1>21, <1>22, EnterKeeps

-----------------------------------------------------------------------------
LEMMA StepKeeps == TeachInv /\ [TeachingNext]_teachingVars => TeachInv'
<1> SUFFICES ASSUME TeachInv, [TeachingNext]_teachingVars PROVE TeachInv'
    OBVIOUS
<1>1. ASSUME NEW t \in Workers, TalkStep(t) PROVE TeachInv'
    BY <1>1, BeginKeeps, ExpireKeeps, NotTheOwnerKeeps, TheOwnerKeeps, LoginKeeps, CaptureKeeps, DispatchKeeps,
       ExitKeeps, ReplaceKeeps, RestartKeeps, SaveArgumentsKeeps, SaveWritesKeeps, SaveRefusedKeeps, NoVerifyKeeps,
       VerifyKeeps, EvidenceKeeps, CheckKeeps, SetTargetKeeps, NoteKeeps, RecordMissingKeeps, StructureKeeps,
       BuildDraftKeeps, AnswerKeeps
       DEF TalkStep
<1>2. ASSUME Post PROVE TeachInv'
    BY <1>2, TeachCancelKeeps, LeaveKeeps DEF Post
<1>3. CASE UNCHANGED teachingVars
    <2> USE <1>3 DEF teachingVars, lessons, bounds, teachingHistory, TeachInv
    <2>1. TeachTypes' /\ Objects' /\ OwnerEntered' /\ SavesOnlyInSession' /\ OwnerClear' /\ DiscardedStaysUnsaved'
        BY DEF TeachTypes, Objects, Things, OwnerEntered, SavesOnlyInSession, OwnerClear, DiscardedStaysUnsaved
    <2>2. Turns'
        BY DEF Turns, Running, Fits, Placed, Stage, Opened, Clear, Solo, Current, Things
    <2>3. Unused' /\ Apart'
        BY DEF Unused, Pending, Running, Apart, InRoom, Has, Things
    <2>4. ShownIsCurrent' /\ SubjectIsCurrent'
        BY DEF ShownIsCurrent, SubjectIsCurrent, Settling, Running, Current
    <2>5. QED
        BY <2>1, <2>2, <2>3, <2>4
<1>4. QED
    BY <1>1, <1>2, <1>3 DEF TeachingNext

\* The invariant holds throughout, whatever turns and routes overlap.
THEOREM TeachingCorrect == TeachingSpec => []TeachInv
<1>1. TeachingInit => TeachInv
    BY InitHolds
<1>2. TeachInv /\ [TeachingNext]_teachingVars => TeachInv'
    BY StepKeeps
<1>3. QED
    BY <1>1, <1>2, PTL DEF TeachingSpec

\* A turn that was still running when the owner logged out, left, was reset or
\* expired writes nothing to a knowledge store, unless it had found the owner
\* logged in or saw one log in (save_draft of rupsaa/owner/teaching.py).
THEOREM NoSaveWithoutOwner == TeachingSpec => []SavesOnlyInSession
<1>1. TeachInv => SavesOnlyInSession
    BY DEF TeachInv
<1>2. QED
    BY <1>1, TeachingCorrect, PTL

\* What a cancel, a new start, a save, a logout or a reset discarded is never
\* written by a turn that arrives later (TeachingSession of rupsaa/owner/teaching.py).
THEOREM DiscardedIsFinal == TeachingSpec => []DiscardedStaysUnsaved
<1>1. TeachInv => DiscardedStaysUnsaved
    BY DEF TeachInv
<1>2. QED
    BY <1>1, TeachingCorrect, PTL

\* What a turn without overlap writes is the draft that was previewed last, as the
\* update or the new record that was announced (_handle_teaching of api/services.py).
THEOREM PreviewIsSaved == TeachingSpec => []SavedAsPreviewed
<1>1. TeachInv => SavedAsPreviewed
    BY DEF TeachInv, SavedAsPreviewed, JustSaved, Turns, Fits, Solo
<1>2. QED
    BY <1>1, TeachingCorrect, PTL

\* A lesson without overlap changes the record the owner was last told about
\* (TeachingSession.target of rupsaa/owner/teaching.py).
THEOREM LessonIsAboutTheSubject == TeachingSpec => []UpdatesTheSubject
<1>1. TeachInv => UpdatesTheSubject
    BY DEF TeachInv, UpdatesTheSubject, JustSaved, Turns, Fits, Solo
<1>2. QED
    BY <1>1, TeachingCorrect, PTL
=============================================================================
