----------------------------- MODULE UserMemory -----------------------------
(***************************************************************************)
(* UserMemoryStore of rupsaa/conversation/user_memory.py for one browser   *)
(* id, as the chat turns of api/services.py (worker threads) and the       *)
(* /memory routes of api/main.py (the event loop) use it.                  *)
(*                                                                         *)
(* The memory is one JSON file, replaced atomically.  set_consent,         *)
(* remember and delete_fact read, change and write it under the store's    *)
(* lock; forget unlinks it without the lock.  A step is what happens       *)
(* between two calls after which another thread may run.                   *)
(***************************************************************************)
EXTENDS Integers, Sequences, SequencesExt

CONSTANTS
    Keys, Values, MaxFacts,   \* as in UserMemoryAtomic
    Threads,                  \* worker threads, which run chat turns
    Loop,                     \* the event loop, which runs the /memory routes
    Requests,                 \* the kinds of requests that arrive
    MaxRequests               \* bound: requests in a behaviour

ASSUME RequestsAssumption ==
    /\ MaxFacts \in Nat \ {0} /\ MaxRequests \in Nat
    /\ Loop \notin Threads
    /\ "free" \notin Threads \cup {Loop} /\ "unknown" \notin Keys
    /\ Requests \subseteq {"remember", "forget", "on", "off", "delete"}

VARIABLES
    file,      \* the user's file, NoFile when there is none
    lock,      \* who holds _lock
    op,        \* the request each thread is working on
    received,  \* requests so far
    expect,    \* history: the acknowledged value of a slot that nothing has
               \* touched since
    erased     \* history: memory was turned off or forgotten, and not turned
               \* on since

memoryVars == <<file, lock, op, received, expect, erased>>

\* The consent and the facts as get() reads them: UserMemory() without a file.
NoMemory == [consent |-> FALSE, facts |-> <<>>, exists |-> FALSE]

File(c, fs) == [consent |-> c, facts |-> fs, exists |-> TRUE]

Atomic == INSTANCE UserMemoryAtomic WITH consent <- file.consent, facts <- file.facts

Procs == Threads \cup {Loop}

Unlocked == "free"
Unknown == "unknown"
AtRest == [pc |-> "idle", kind |-> "none"]

TurningOn == \E p \in Procs : op[p].pc # "idle" /\ op[p].kind = "on"

\* Two requests that may change the same slot; k is Unknown for all of them.
Touches(o, k) ==
    /\ o.pc # "idle"
    /\ o.kind # "on"
    /\ k = Unknown \/ o.key = Unknown \/ o.key = k

Goto(p, label) == op' = [op EXCEPT ![p].pc = label]

MemoryInit ==
    /\ file = NoMemory
    /\ lock = Unlocked
    /\ op = [p \in Procs |-> AtRest]
    /\ received = 0
    /\ expect = [k \in Keys |-> Unknown]
    /\ erased = FALSE

-----------------------------------------------------------------------------
(***************************************************************************)
(* Requests arrive.                                                        *)
(***************************************************************************)
Begin(p, kind, k, v, label) ==
    /\ kind \in Requests
    /\ op[p].pc = "idle"
    /\ received < MaxRequests
    /\ received' = received + 1
    /\ op' = [q \in Procs |->
                IF q = p THEN [pc |-> label, kind |-> kind, key |-> k, value |-> v, mem |-> NoMemory,
                               alone |-> \A r \in Procs : ~Touches(op[r], k)]
                ELSE IF kind # "on" /\ Touches(op[q], k) THEN [op[q] EXCEPT !.alone = FALSE]
                ELSE op[q]]
    /\ UNCHANGED <<file, lock>>

\* A chat turn whose message states a fact: store.remember(uid, facts).
ChatRemembers(p) ==
    /\ p \in Threads
    /\ \E k \in Keys, v \in Values :
        /\ Begin(p, "remember", k, v, "lock")
        /\ expect' = [expect EXCEPT ![k] = Unknown]
    /\ UNCHANGED erased

\* A chat turn that asks to forget, or /memory/forget.
AsksToForget(p) ==
    /\ Begin(p, "forget", Unknown, Unknown, "exists")
    /\ expect' = [k \in Keys |-> Unknown]
    /\ UNCHANGED erased

\* /memory/consent, on or off.
SetsConsent(p) ==
    /\ p = Loop
    /\ \/ Begin(p, "on", Unknown, Unknown, "lock") /\ erased' = FALSE /\ UNCHANGED expect
       \/ Begin(p, "off", Unknown, Unknown, "lock") /\ expect' = [k \in Keys |-> Unknown]
                                                    /\ UNCHANGED erased

\* /memory/delete of a fact.
DeletesFact(p) ==
    /\ p = Loop
    /\ \E k \in Keys :
        /\ Begin(p, "delete", k, Unknown, "lock")
        /\ expect' = [expect EXCEPT ![k] = Unknown]
    /\ UNCHANGED erased

-----------------------------------------------------------------------------
(***************************************************************************)
(* The locked operations: with self._lock: get, change, _write.            *)
(***************************************************************************)
\* Mutant of MayEnter: the operation is not under the lock.
MayEnterUnlocked(p) == TRUE

MayEnter(p) == lock = Unlocked

TakeLock(p) ==
    /\ op[p].pc = "lock"
    /\ MayEnter(p)
    /\ lock' = p
    /\ Goto(p, IF op[p].kind = "off" THEN "exists" ELSE "get")
    /\ UNCHANGED <<file, received, expect, erased>>

\* get: p.exists(), and without a file an empty memory.
GetMemory(p) ==
    /\ op[p].pc = "get"
    /\ IF file.exists
         THEN Goto(p, "read")
         ELSE op' = [op EXCEPT ![p].pc = "change", ![p].mem = NoMemory]
    /\ UNCHANGED <<file, lock, received, expect, erased>>

\* get: p.read_text(), which raises if the file has just gone.
Read(p) ==
    /\ op[p].pc = "read"
    /\ file.exists
    /\ op' = [op EXCEPT ![p].pc = "change", ![p].mem = file]
    /\ UNCHANGED <<file, lock, received, expect, erased>>

ReadRaises(p) ==
    /\ op[p].pc = "read"
    /\ ~file.exists
    /\ lock' = Unlocked
    /\ op' = [op EXCEPT ![p] = AtRest]
    /\ UNCHANGED <<file, received, expect, erased>>

\* Mutant of MayStore: the consent is not looked at.
MayStoreAnything(mem) == TRUE

\* if not mem.consent: return []
MayStore(mem) == mem.consent

\* What remember, set_consent(True) and delete_fact write, if anything.
Writes(p) ==
    LET o == op[p] IN
    CASE o.kind = "remember" -> MayStore(o.mem) /\ ~Atomic!Holds(o.mem.facts, o.key, o.value)
      [] o.kind = "on"       -> TRUE
      [] o.kind = "delete"   -> Atomic!Stored(o.mem.facts, o.key)

Changed(p) ==
    LET o == op[p] IN
    CASE o.kind = "remember" ->
            File(o.mem.consent, Atomic!Capped(Atomic!Put(o.mem.facts, o.key, o.value)))
      [] o.kind = "on"       -> File(TRUE, o.mem.facts)
      [] o.kind = "delete"   -> File(o.mem.consent, Atomic!Without(o.mem.facts, o.key))

Change(p) ==
    /\ op[p].pc = "change"
    /\ IF Writes(p)
         THEN op' = [op EXCEPT ![p].pc = "write", ![p].mem = Changed(p)]
         ELSE Goto(p, "unlock")
    /\ UNCHANGED <<file, lock, received, expect, erased>>

\* _write: the new file is complete before it replaces the old one.  A slot
\* the cap pushes out is not expected any more.
WriteFile(p) ==
    /\ op[p].pc = "write"
    /\ file' = op[p].mem
    /\ expect' = [k \in Keys |-> IF Len(op[p].mem.facts) = MaxFacts /\ ~Atomic!Stored(op[p].mem.facts, k)
                                   THEN Unknown ELSE expect[k]]
    /\ Goto(p, "unlock")
    /\ UNCHANGED <<lock, received, erased>>

\* The lock is released and the request answered.
Unlock(p) ==
    /\ op[p].pc = "unlock"
    /\ lock' = Unlocked
    /\ op' = [op EXCEPT ![p] = AtRest]
    /\ expect' = IF op[p].kind = "remember" /\ op[p].mem.consent /\ op[p].alone
                   THEN [expect EXCEPT ![op[p].key] = op[p].value]
                   ELSE expect
    /\ erased' = (erased \/ (op[p].kind = "off" /\ ~TurningOn))
    /\ UNCHANGED <<file, received>>

-----------------------------------------------------------------------------
(***************************************************************************)
(* forget: if p.exists(): p.unlink().  Called under the lock by            *)
(* set_consent(False) only.                                                *)
(***************************************************************************)
Forgotten(p) ==
    IF op[p].kind = "off"
      THEN Goto(p, "unlock") /\ UNCHANGED erased
      ELSE op' = [op EXCEPT ![p] = AtRest] /\ erased' = (erased \/ ~TurningOn)

FileExists(p) ==
    /\ op[p].pc = "exists"
    /\ IF file.exists THEN Goto(p, "unlink") /\ UNCHANGED erased ELSE Forgotten(p)
    /\ UNCHANGED <<file, lock, received, expect>>

AfterUnlink == NoMemory

UnlinkFile(p) ==
    /\ op[p].pc = "unlink"
    /\ file.exists
    /\ file' = AfterUnlink
    /\ Forgotten(p)
    /\ UNCHANGED <<lock, received, expect>>

\* Another forget was faster: unlink raises.
UnlinkRaises(p) ==
    /\ op[p].pc = "unlink"
    /\ ~file.exists
    /\ lock' = IF lock = p THEN Unlocked ELSE lock
    /\ op' = [op EXCEPT ![p] = AtRest]
    /\ UNCHANGED <<file, received, expect, erased>>

\* The process dies: what was running is never answered.
Crash ==
    /\ op # [p \in Procs |-> AtRest]
    /\ op' = [p \in Procs |-> AtRest]
    /\ lock' = Unlocked
    /\ UNCHANGED <<file, received, expect, erased>>

MemoryStep(p) ==
    \/ ChatRemembers(p) \/ AsksToForget(p) \/ SetsConsent(p) \/ DeletesFact(p)
    \/ TakeLock(p) \/ GetMemory(p) \/ Read(p) \/ ReadRaises(p) \/ Change(p) \/ WriteFile(p) \/ Unlock(p)
    \/ FileExists(p) \/ UnlinkFile(p) \/ UnlinkRaises(p)

MemoryNext == Crash \/ \E p \in Procs : MemoryStep(p)

MemorySpec == MemoryInit /\ [][MemoryNext]_memoryVars

-----------------------------------------------------------------------------
(***************************************************************************)
(* Properties.                                                             *)
(***************************************************************************)

\* "a correction REPLACES the old value" (the module docstring), however
\* requests interleave, and the cap holds.
OneValuePerSlot ==
    /\ \A i, j \in 1..Len(file.facts) : file.facts[i].key = file.facts[j].key => i = j
    /\ Len(file.facts) <= MaxFacts

\* A fact the user was told is remembered stays, until the user corrects,
\* deletes or forgets it or the cap pushes it out: no concurrent request and no
\* crash loses it.
RememberedFactsStay ==
    \A k \in Keys : expect[k] # Unknown => Atomic!Holds(file.facts, k, expect[k])

\* What is remembered is what the user was told, once each.
FactsStay == OneValuePerSlot /\ RememberedFactsStay

\* "Turning memory off or "forget" deletes everything" (the module docstring):
\* once answered, nothing is stored before memory is turned on again.
ErasedStaysErased == erased => ~file.exists

\* Without the unlocked forget, every interleaving of requests and crashes is
\* one of requests applied at once.
AtomicSpec == Atomic!Spec
=============================================================================
