---------------------------- MODULE KnowledgeStore ----------------------------
(***************************************************************************)
(* The three stores of curated knowledge (general, terminology, dance): a  *)
(* directory with one JSON file per record, written by the owner's routes  *)
(* on the event loop, by a teaching save in a worker thread and by bulk    *)
(* imports, and read through a cache by every chat turn. Each handler is   *)
(* the sequence of file operations it performs; the stores differ in the   *)
(* lock, the backups and the cache key, and kind says which one runs.      *)
(* A record is the names it answers to, the edits it contains, its         *)
(* revision, and the tick and the inode its file was written with.         *)
(***************************************************************************)
EXTENDS Naturals, Sequences, FiniteSets, FiniteSetsExt

CONSTANTS
    Name,       \* normalized titles and aliases
    RecordIds,        \* numbers of the ids one slug can get: topic, topic_2, ...
    MaxEdits,   \* bound on the changes started
    MaxRows     \* bound on the rows of an imported file

ASSUME KnowledgeAssumption ==
    /\ IsFiniteSet(RecordIds)
    /\ RecordIds = 1 .. Cardinality(RecordIds)
    /\ {MaxEdits, MaxRows} \subseteq Nat

VARIABLES
    kind,       \* the store: "general", "terminology" or "dance"
    files,      \* the record in each file, or NoRecord
    tmp,        \* the temporary file beside it, or NoRecord
    history,    \* the .history directory: [id, stamp, record]
    cache,      \* _cache: what list keeps of a file, or NoRecord, with its signature
    kLock,      \* who holds GeneralKnowledgeStore._lock
    tick,       \* the clock of the file system
    lastTick,   \* the tick of the last version written for each record
    blurred,    \* records of the general store written twice in one tick
    job,        \* the handler each actor is running, or Idle
    edits,      \* changes started so far
    acked       \* changes answered with success: [edit, op, id]

knowledgeVars == <<kind, files, tmp, history, cache, kLock, tick, lastTick, blurred, job, edits, acked>>

Actors == {"loop", "worker"}    \* the routes share the event loop; teaching saves run in threads
NoRecord == [rev |-> 0]
Idle == [todo |-> <<>>, rows |-> <<>>]
Free == "nobody"
Exists(id) == files[id] # NoRecord
TicksPerSecond == 2

(* What list compares a cached record by.                                  *)
GeneralSig(r) == <<r.tick, 0>>          \* st_mtime_ns

\* Mutant of TermSig: the cache key is the time alone.
TermSigByTime(r) == <<r.tick, 0>>

TermSig(r) == <<r.tick, r.inode>>       \* mtime, size and inode
DanceSig(r) == <<r.tick, r.inode>>
Sig(r) == CASE kind = "general" -> GeneralSig(r)
            [] kind = "terminology" -> TermSig(r)
            [] OTHER -> DanceSig(r)

(* The file operations of each handler, in order.                          *)
\* Mutant of GeneralCreate: a taken name is not looked for.
GeneralCreateUnchecked == <<"lock", "newId", "write", "rename">>

GeneralCreate == <<"lock", "newId", "conflicts", "write", "rename">>

\* Mutant of GeneralUpdate: the lock is not taken.
GeneralUpdateUnlocked == <<"get", "conflicts", "backup", "write", "rename">>

GeneralUpdate == <<"lock", "get", "conflicts", "backup", "write", "rename">>
GeneralDelete == <<"lock", "exists", "backup", "unlink">>
TermCreate == <<"newId", "conflicts", "write", "rename", "drop">>
TermUpdate == <<"get", "conflicts", "backup", "write", "rename", "drop">>
TermDelete == <<"exists", "backup", "unlink", "drop">>
DanceCreate == <<"newId", "conflicts", "write", "rename", "drop">>
DanceUpdate == <<"get", "conflicts", "write", "rename", "drop">>
DanceDelete == <<"exists", "unlink", "drop">>
Steps(op) == CASE kind = "general" -> [create |-> GeneralCreate, update |-> GeneralUpdate, delete |-> GeneralDelete][op]
               [] kind = "terminology" -> [create |-> TermCreate, update |-> TermUpdate, delete |-> TermDelete][op]
               [] OTHER -> [create |-> DanceCreate, update |-> DanceUpdate, delete |-> DanceDelete][op]

Doing(a, step) == job[a].todo # <<>> /\ Head(job[a].todo) = step
Go(a, j) == job' = [job EXCEPT ![a] = [j EXCEPT !.todo = Tail(@)]]
\* The next row of an import, or nothing: what a handler does when it ends.
Start(op, names, id, edit, rows) ==
    [todo |-> Steps(op), op |-> op, names |-> names, id |-> id, edit |-> edit, rows |-> rows, read |-> NoRecord]
ToDo(rows) == {i \in DOMAIN rows : rows[i].op # "skip"}
StartRow(rows, edit) ==
    LET i == Min(ToDo(rows))
    IN Start(rows[i].op, rows[i].names, rows[i].id, edit, SubSeq(rows, i + 1, Len(rows)))
NextRow(a) ==
    IF ToDo(job[a].rows) = {} \/ edits = MaxEdits
    THEN edits' = edits /\ job' = [job EXCEPT ![a] = Idle]
    ELSE edits' = edits + 1 /\ job' = [job EXCEPT ![a] = StartRow(job[a].rows, edits + 1)]
Release(a) == kLock' = IF kLock = a THEN Free ELSE kLock
End(a) == Release(a) /\ NextRow(a)              \* an error ends the handler; an import goes on with the next row

KnowledgeInit ==
    /\ kind \in {"general", "terminology", "dance"}
    /\ \E names \in [RecordIds -> {{}} \cup {{n} : n \in Name}] :
        /\ \A i, k \in RecordIds : i # k => names[i] \cap names[k] = {}
        /\ files = [id \in RecordIds |-> IF names[id] = {} THEN NoRecord
                                   ELSE [rev |-> 1, names |-> names[id], edits |-> {}, tick |-> 0, inode |-> 0]]
    /\ tmp = [id \in RecordIds |-> NoRecord]
    /\ cache = [id \in RecordIds |-> [sig |-> <<>>, record |-> NoRecord]]
    /\ history = {} /\ acked = {}
    /\ kLock = Free /\ tick = 1 /\ edits = 0
    /\ lastTick = [id \in RecordIds |-> 0] /\ blurred = {}
    /\ job = [a \in Actors |-> Idle]

(***************************************************************************)
(* Requests. A route or a lesson creates, updates or deletes one record; a *)
(* lesson changes a record of another store only when it already exists.   *)
(***************************************************************************)
Request(a, op, names, id) ==
    /\ job[a] = Idle
    /\ edits < MaxEdits
    /\ edits' = edits + 1
    /\ job' = [job EXCEPT ![a] = Start(op, names, id, edits + 1, <<>>)]
    /\ UNCHANGED <<kind, files, tmp, history, cache, kLock, tick, lastTick, blurred, acked>>

OwnerChanges(k) ==
    /\ kind = k
    /\ \E op \in {"create", "update", "delete"}, n \in Name, id \in RecordIds :
          Request("loop", op, {n}, IF op = "create" THEN 0 ELSE id)
TermRoutes == OwnerChanges("terminology")
DanceRoutes == OwnerChanges("dance")
GeneralRoutes == OwnerChanges("general")
SaveDraft ==
    \E n \in Name, id \in RecordIds :
        \/ kind = "general" /\ Request("worker", "create", {n}, 0)
        \/ Request("worker", "update", {n}, id)

(***************************************************************************)
(* An imported file. Preview gives every row a status against the records  *)
(* of the store; commit previews the same file again and turns the rows    *)
(* into creations and, where the owner chose so, updates. A row is the     *)
(* names it holds, the id it asks for (general store only, 0 for none) and *)
(* whether its parser found errors.                                        *)
(***************************************************************************)
RowNames == {{n} : n \in Name} \cup {Name}
TermRows == [names : RowNames, id : {0}, bad : BOOLEAN]
DanceRows == [names : RowNames, id : {0}, bad : BOOLEAN]
GeneralRows == [names : RowNames, id : {0} \cup RecordIds, bad : BOOLEAN]
ParsedRows == IF kind = "general" THEN GeneralRows ELSE IF kind = "terminology" THEN TermRows ELSE DanceRows
ImportFiles == UNION {[1 .. n -> ParsedRows] : n \in 1 .. MaxRows}
Listed == {id \in RecordIds : Exists(id)}
Matches(row) == {id \in Listed : files[id].names \cap row.names # {}}

\* The rows that repeat an earlier row; what a duplicate holds is not remembered. Only general rows have an id.
SameRow(r, s) == r.names \cap s.names # {} \/ (r.id # 0 /\ r.id = s.id)
Duplicates(rows) ==
    LET Dup[i \in 1 .. Len(rows)] ==
          /\ ~rows[i].bad
          /\ \E k \in 1 .. i - 1 : ~rows[k].bad /\ ~Dup[k] /\ SameRow(rows[k], rows[i])
    IN {i \in DOMAIN rows : Dup[i]}

ByNames(row) == CASE Cardinality(Matches(row)) = 1 -> "existing_match"
                  [] Cardinality(Matches(row)) > 1 -> "invalid"
                  [] OTHER -> "valid"
ById(row) == CASE row.id \in Listed -> IF Matches(row) \subseteq {row.id} THEN "existing_match" ELSE "invalid"
               [] row.id \notin Listed /\ Matches(row) # {} -> "invalid"
               [] OTHER -> "valid"
TermPreview(rows) ==
    [i \in DOMAIN rows |-> IF rows[i].bad THEN "invalid"
                           ELSE IF i \in Duplicates(rows) THEN "duplicate_in_file" ELSE ByNames(rows[i])]
DancePreview(rows) == TermPreview(rows)
GeneralPreview(rows) ==
    [i \in DOMAIN rows |-> IF rows[i].bad THEN "invalid"
                           ELSE IF i \in Duplicates(rows) THEN "duplicate_in_file"
                           ELSE IF rows[i].id = 0 THEN ByNames(rows[i]) ELSE ById(rows[i])]
Preview(rows) == CASE kind = "general" -> GeneralPreview(rows)
                   [] kind = "terminology" -> TermPreview(rows)
                   [] OTHER -> DancePreview(rows)
\* What commit does with each row: an existing match is skipped unless the owner chose its row.
RowOps(rows, chosen) ==
    LET status == Preview(rows)
        row(i) == CASE status[i] = "valid" -> [op |-> "create", names |-> rows[i].names, id |-> rows[i].id]
                    [] status[i] = "existing_match" /\ i \in chosen ->
                         [op |-> "update", names |-> rows[i].names,
                          id |-> IF rows[i].id # 0 THEN rows[i].id ELSE CHOOSE id \in Matches(rows[i]) : TRUE]
                    [] OTHER -> [op |-> "skip", names |-> {}, id |-> 0]
    IN [i \in DOMAIN rows |-> row(i)]
Commit ==
    /\ job["loop"] = Idle
    /\ edits < MaxEdits
    /\ \E rows \in ImportFiles : \E chosen \in SUBSET DOMAIN rows :
         LET ops == RowOps(rows, chosen)
         IN /\ ToDo(ops) # {}
            /\ edits' = edits + 1
            /\ job' = [job EXCEPT !["loop"] = StartRow(ops, edits + 1)]
    /\ UNCHANGED <<kind, files, tmp, history, cache, kLock, tick, lastTick, blurred, acked>>

(***************************************************************************)
(* The steps of a handler.                                                 *)
(***************************************************************************)
Lock(a) ==
    /\ Doing(a, "lock")
    /\ kLock = Free
    /\ kLock' = a
    /\ Go(a, job[a])
    /\ UNCHANGED <<kind, files, tmp, history, cache, tick, lastTick, blurred, edits, acked>>

\* create: the first id of the slug whose file does not exist; get and exists: an error without the file.
FreeIds == {id \in RecordIds : ~Exists(id)}
NewId(a) ==
    /\ Doing(a, "newId")
    /\ IF FreeIds = {} \/ job[a].id \in Listed THEN End(a)    \* the id asked for is taken, or the model has no more
       ELSE Go(a, [job[a] EXCEPT !.id = IF @ = 0 THEN Min(FreeIds) ELSE @]) /\ UNCHANGED <<kLock, edits>>
    /\ UNCHANGED <<kind, files, tmp, history, cache, tick, lastTick, blurred, acked>>

Get(a) ==
    /\ Doing(a, "get") \/ Doing(a, "exists")
    /\ IF ~Exists(job[a].id) THEN End(a)
       ELSE Go(a, [job[a] EXCEPT !.read = files[job[a].id]]) /\ UNCHANGED <<kLock, edits>>
    /\ UNCHANGED <<kind, files, tmp, history, cache, tick, lastTick, blurred, acked>>

\* _conflicts and _check_conflicts: through list, so through the cache, which it brings up to date.
Fresh(id) == cache[id].record # NoRecord /\ cache[id].sig = Sig(files[id])
Served(id) == IF Fresh(id) THEN cache[id].record ELSE files[id]
ListedCache == [id \in RecordIds |-> IF ~Exists(id) THEN [sig |-> <<>>, record |-> NoRecord]
                               ELSE [sig |-> Sig(files[id]), record |-> Served(id)]]
Conflicts(a) ==
    /\ Doing(a, "conflicts")
    /\ cache' = ListedCache
    /\ IF \E id \in Listed \ {job[a].id} : Served(id).names \cap job[a].names # {}
       THEN End(a)
       ELSE Go(a, job[a]) /\ UNCHANGED <<kLock, edits>>
    /\ UNCHANGED <<kind, files, tmp, history, tick, lastTick, blurred, acked>>

\* The stamp has seconds in the general store and microseconds in the terminology store.
GeneralStamp(a) == tick \div TicksPerSecond
TermStamp(a) == job[a].edit
Stamp(a) == IF kind = "general" THEN GeneralStamp(a) ELSE TermStamp(a)
Backup(a) ==
    /\ Doing(a, "backup")
    /\ LET id == job[a].id
       IN history' = IF ~Exists(id) THEN history
                     ELSE {h \in history : <<h.id, h.stamp>> # <<id, Stamp(a)>>}
                            \cup {[id |-> id, stamp |-> Stamp(a), record |-> files[id]]}
    /\ Go(a, job[a])
    /\ UNCHANGED <<kind, files, tmp, cache, kLock, tick, lastTick, blurred, edits, acked>>

NewVersion(a) ==
    [rev |-> job[a].read.rev + 1, names |-> job[a].names, tick |-> tick, inode |-> job[a].edit,
     edits |-> {job[a].edit} \cup (IF job[a].read = NoRecord THEN {} ELSE job[a].read.edits)]
Write(a) ==
    /\ Doing(a, "write")
    /\ LET id == job[a].id
       IN /\ tmp' = [tmp EXCEPT ![id] = NewVersion(a)]
          /\ lastTick' = [lastTick EXCEPT ![id] = tick]
          /\ blurred' = blurred \cup {i \in {id} : kind = "general" /\ lastTick[id] = tick}
    /\ tick' \in {tick, tick + 1}      \* the clock may stand still for several writes
    /\ Go(a, job[a])
    /\ UNCHANGED <<kind, files, history, cache, kLock, edits, acked>>

Ack(a) == acked' = acked \cup {[edit |-> job[a].edit, op |-> job[a].op, id |-> job[a].id]}
LastStep(a) == Len(job[a].todo) = 1
Finish(a) == IF LastStep(a) THEN Ack(a) /\ End(a) ELSE Go(a, job[a]) /\ UNCHANGED <<acked, kLock, edits>>

\* tmp.replace(path) takes whatever the temporary file holds by now, and fails when another writer took it.
Rename(a) ==
    /\ Doing(a, "rename")
    /\ LET id == job[a].id
       IN IF tmp[id] = NoRecord
          THEN End(a) /\ UNCHANGED <<files, tmp, acked>>
          ELSE /\ files' = [files EXCEPT ![id] = tmp[id]]
               /\ tmp' = [tmp EXCEPT ![id] = NoRecord]
               /\ Finish(a)
    /\ UNCHANGED <<kind, history, cache, tick, lastTick, blurred>>

Unlink(a) ==
    /\ Doing(a, "unlink")
    /\ files' = [files EXCEPT ![job[a].id] = NoRecord]
    /\ Finish(a)
    /\ UNCHANGED <<kind, tmp, history, cache, tick, lastTick, blurred>>

Drop(a) ==
    /\ Doing(a, "drop")
    /\ cache' = [cache EXCEPT ![job[a].id] = [sig |-> <<>>, record |-> NoRecord]]
    /\ Finish(a)
    /\ UNCHANGED <<kind, files, tmp, history, tick, lastTick, blurred>>

(***************************************************************************)
(* A chat turn's lookup, and the owner's search: list looks at the file's  *)
(* signature first and reads it afterwards, without the lock.              *)
(***************************************************************************)
Stat(id) ==
    /\ job["worker"] = Idle
    /\ Exists(id)
    /\ ~Fresh(id)
    /\ job' = [job EXCEPT !["worker"] = [todo |-> <<"read">>, rows |-> <<>>, id |-> id, sig |-> Sig(files[id])]]
    /\ UNCHANGED <<kind, files, tmp, history, cache, kLock, tick, lastTick, blurred, edits, acked>>

ReadFile ==
    /\ Doing("worker", "read")
    /\ LET id == job["worker"].id
       IN cache' = IF Exists(id) THEN [cache EXCEPT ![id] = [sig |-> job["worker"].sig, record |-> files[id]]] ELSE cache
    /\ job' = [job EXCEPT !["worker"] = Idle]
    /\ UNCHANGED <<kind, files, tmp, history, kLock, tick, lastTick, blurred, edits, acked>>

\* The server dies and is started again: temporary files stay behind, the caches are empty.
Restart ==
    /\ job' = [a \in Actors |-> Idle]
    /\ kLock' = Free
    /\ cache' = [id \in RecordIds |-> [sig |-> <<>>, record |-> NoRecord]]
    /\ UNCHANGED <<kind, files, tmp, history, tick, lastTick, blurred, edits, acked>>

KnowledgeNext ==
    \/ TermRoutes \/ DanceRoutes \/ GeneralRoutes
    \/ SaveDraft
    \/ Commit
    \/ \E a \in Actors : \/ Lock(a) \/ NewId(a) \/ Get(a) \/ Conflicts(a) \/ Backup(a)
                         \/ Write(a) \/ Rename(a) \/ Unlink(a) \/ Drop(a)
    \/ \E id \in RecordIds : Stat(id)
    \/ ReadFile
    \/ Restart

KnowledgeSpec == KnowledgeInit /\ [][KnowledgeNext]_knowledgeVars
-----------------------------------------------------------------------------
(* No two records of the general store answer to one name, whatever the    *)
(* routes, lessons and imports do at the same time (_conflicts), unless    *)
(* one of them was written twice in one tick of the file system's clock:   *)
(* its names may then be read from a cache that missed the second version. *)
NamesUnique ==
    kind = "general" =>
        \A i, k \in Listed \ blurred : i # k => files[i].names \cap files[k].names = {}

(* The general store loses no change it has answered: the record keeps it  *)
(* until a delete, and a record that was deleted stays away.               *)
AcknowledgedEditsStay ==
    kind = "general" =>
        \A e \in acked :
            IF e.op = "delete"
            THEN ~Exists(e.id) \/ \E c \in acked : c.op = "create" /\ c.id = e.id
            ELSE \/ Exists(e.id) /\ e.edit \in files[e.id].edits
                 \/ \E d \in acked : d.op = "delete" /\ d.id = e.id

(* A record served from the terminology or the dance cache is the record   *)
(* in its file: the signature tells every rewrite apart.                   *)
CacheFresh ==
    kind # "general" =>
        \A id \in Listed : Fresh(id) => cache[id].record = files[id]

(* What was saved stays saved, and what is served is what is saved.        *)
SavedIsServed == AcknowledgedEditsStay /\ CacheFresh
=============================================================================
