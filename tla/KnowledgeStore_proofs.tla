------------------------ MODULE KnowledgeStore_proofs ------------------------
(***************************************************************************)
(* Proofs about the knowledge the owner keeps: the record stores, the      *)
(* documents with their metadata, the pages he edits them with, the        *)
(* evidence that a search finds, and what a chat turn is given of it all   *)
(* (Topics).                                                               *)
(*                                                                         *)
(* KnowledgeStore, for every set of names, any number of ids, changes and  *)
(* rows, and every interleaving of routes, lessons, imports, look-ups and  *)
(* restarts. KnowledgeInv, the inductive invariant, has two parts beyond   *)
(* types. Versions: a signature that a later write will give a file is not *)
(* in use yet, and nobody has seen the version that waits in a temporary   *)
(* file, so a cached record that looks fresh is the record in the file     *)
(* (of the general store, which compares times alone, for every record     *)
(* that was never written twice in one tick).                              *)
(* LockGuards, of the general store: only the holder of the lock is past   *)
(* it, so what it read, and that no other record has its names, still      *)
(* holds when it renames.                                                  *)
(***************************************************************************)
EXTENDS KnowledgeStore, KnowledgeDocuments, OwnerPages, Topics, WebEvidence, DataLemmas, FiniteSetTheorems, FunctionTheorems

Kinds == {"general", "terminology", "dance"}
Ops == {"create", "update", "delete"}
Record == [rev : Nat \ {0}, names : SUBSET Name, edits : SUBSET Nat, tick : Nat, inode : Nat]
Signature == (Nat \X Nat) \cup {<<>>}
Row == [op : {"create", "skip"}, names : SUBSET Name, id : RecordIds \cup {0}] \cup [op : {"update"}, names : SUBSET Name, id : RecordIds]

Operations == {"lock", "newId", "get", "exists", "conflicts", "backup", "write", "rename", "unlink", "drop"}

\* A handler has done some of its file operations, and the others are left.
Todo(op) == {SubSeq(Steps(op), i, Len(Steps(op))) : i \in 1..Len(Steps(op))}
Pc(a) == IF job[a].todo = <<>> THEN "idle" ELSE Head(job[a].todo)
Changes(a) == Pc(a) \notin {"idle", "read"}

Change == [todo : Seq(Operations), op : Ops, names : SUBSET Name, id : RecordIds \cup {0}, edit : Nat,
           rows : Seq(Row), read : Record \cup {NoRecord}]
Reading == [todo : {<<"read">>}, rows : {<<>>}, id : RecordIds, sig : Signature]
Answers == [edit : Nat, op : Ops, id : RecordIds]
Handler(a) ==
    /\ Pc(a) = "idle" => job[a] = Idle
    /\ Pc(a) = "read" => job[a] \in Reading
    /\ Changes(a) =>
          /\ job[a] \in Change
          /\ job[a].todo \in Todo(job[a].op)
          /\ job[a].op = "create" => job[a].read = NoRecord
          /\ (job[a].op = "create" => Pc(a) \notin {"lock", "newId"}) => job[a].id \in RecordIds
          /\ job[a].edit \in 1..edits

KnowledgeTypes ==
    /\ kind \in Kinds
    /\ files \in [RecordIds -> Record \cup {NoRecord}]
    /\ tmp \in [RecordIds -> Record \cup {NoRecord}]
    /\ cache \in [RecordIds -> [sig : Signature, record : Record \cup {NoRecord}]]
    /\ kLock \in Actors \cup {Free}
    /\ tick \in Nat /\ edits \in Nat
    /\ lastTick \in [RecordIds -> Nat] /\ \A id \in RecordIds : lastTick[id] <= tick
    /\ blurred \subseteq RecordIds /\ (kind # "general" => blurred = {})
    /\ DOMAIN job = Actors
    /\ \A a \in Actors : Handler(a)
    /\ acked \subseteq Answers

-----------------------------------------------------------------------------
Writing(a) == Changes(a) /\ job[a].op # "delete" /\ Pc(a) \notin {"rename", "drop"}

\* A signature that some later write may give the file of record id, when it
\* does not blur it.
Coming(id, s) ==
    /\ s \in Nat \X Nat
    /\ IF kind = "general" THEN s[1] > lastTick[id] /\ s[2] = 0
       ELSE s[2] > edits \/ \E a \in Actors : Writing(a) /\ s[2] = job[a].edit

\* Nobody has seen a file of record id with the signature s.
Unseen(id, s) ==
    /\ Exists(id) => Sig(files[id]) # s
    /\ cache[id].sig # s
    /\ \A a \in Actors : Pc(a) = "read" /\ job[a].id = id => job[a].sig # s

NewSignatures ==
    \A id \in RecordIds : \A s \in Nat \X Nat :
        Coming(id, s) => Unseen(id, s) /\ (tmp[id] # NoRecord => Sig(tmp[id]) # s)
WaitingUnseen == \A id \in RecordIds \ blurred : tmp[id] # NoRecord => Unseen(id, Sig(tmp[id]))
FreshIsSaved == \A id \in Listed \ blurred : Fresh(id) => cache[id].record = files[id]
OwnEdits == \A a, b \in Actors : Changes(a) /\ Changes(b) /\ job[a].edit = job[b].edit => a = b

Versions == NewSignatures /\ WaitingUnseen /\ FreshIsSaved /\ OwnEdits

-----------------------------------------------------------------------------
\* What a handler of the general store may rely on, as far as it has come.
Relies(a) ==
    LET j == job[a]
    IN Changes(a) /\ Pc(a) # "lock" =>
          /\ kLock = a
          /\ j.op = "create" /\ Pc(a) # "newId" => ~Exists(j.id)
          /\ j.op = "update" /\ Pc(a) # "get" => Exists(j.id) /\ j.read = files[j.id]
          /\ Pc(a) \in {"backup", "write", "rename"} /\ j.op # "delete" =>
                \A k \in Listed \ {j.id} : k \in blurred \/ files[k].names \cap j.names = {}
          /\ Pc(a) = "rename" =>
                /\ tmp[j.id] # NoRecord
                /\ tmp[j.id].names = j.names
                /\ tmp[j.id].edits = {j.edit} \cup (IF j.read = NoRecord THEN {} ELSE j.read.edits)

LockGuards ==
    kind = "general" =>
        /\ \A a \in Actors : Relies(a)
        /\ NamesUnique
        /\ AcknowledgedEditsStay

KnowledgeInv == KnowledgeTypes /\ Versions /\ LockGuards

-----------------------------------------------------------------------------
\* Operation g comes after operation h in a handler of kind op.
After(op, h, g) ==
    /\ h \notin {"idle", "read", "unlink", "drop"} \/ (h = "unlink" /\ g = "drop")
    /\ g \notin {"idle", "read", "lock"}
    /\ h = "rename" => g = "drop"
    /\ h = "write" <=> g = "rename"
    /\ g = "newId" => h = "lock" /\ op = "create"
    /\ g = "get" => h = "lock" /\ op = "update"
    /\ op = "create" => h \notin {"get", "exists"} /\ (h = "lock" => g = "newId")
    /\ op = "update" /\ h = "lock" => g = "get"
    /\ op # "delete" /\ g \in {"backup", "write"} => h \in {"conflicts", "backup"}

LastSteps == IF kind = "general" THEN {"rename", "unlink"} ELSE {"drop"}

\* What kinds of operation are whose.
Belongs(op, h) ==
    /\ h \in Operations
    /\ h = "newId" => op = "create"
    /\ h = "get" => op = "update"
    /\ h \in {"exists", "unlink"} <=> op = "delete" /\ h \notin {"lock", "backup", "drop"}
    /\ h = "drop" => kind # "general"

Ordered(op, s) ==
    /\ s \in Seq(Operations) /\ Len(s) \in 3..6
    /\ \A i \in 1..Len(s) : Belongs(op, s[i]) /\ (i = Len(s) <=> s[i] \in LastSteps)
    /\ \A i \in 1..Len(s) - 1 : After(op, s[i], s[i + 1])
    /\ s[1] \in {"lock", "newId", "get", "exists"} /\ (kind = "general" => s[1] = "lock")
    /\ op # "create" => s[1] # "newId"

\* The file operations of every handler are in such an order.
LEMMA HandlersOrdered ==
    ASSUME kind \in Kinds, NEW op \in Ops
    PROVE  Ordered(op, Steps(op))
<1>1. CASE kind = "general" /\ op = "create"
    <2>1. Steps(op) = GeneralCreate
        BY <1>1 DEF Steps
    <2>2. GeneralCreate \in Seq(Operations)
        BY DEF GeneralCreate, Operations
    <2>a. Len(GeneralCreate) = 5
        BY DEF GeneralCreate
    <2>3. GeneralCreate[1] = "lock" /\ GeneralCreate[2] = "newId" /\ GeneralCreate[3] = "conflicts"
          /\ GeneralCreate[4] = "write" /\ GeneralCreate[5] = "rename"
        BY DEF GeneralCreate
    <2>4. \A i \in 1..5 : i = 1 \/ i = 2 \/ i = 3 \/ i = 4 \/ i = 5
        OBVIOUS
    <2>5. \A i \in 1..5 : Belongs(op, GeneralCreate[i]) /\ (i = 5 <=> GeneralCreate[i] \in LastSteps)
        BY <1>1, <2>3, <2>4 DEF Belongs, LastSteps, Operations
    <2>6. \A i \in 1..5 - 1 : i = 1 \/ i = 2 \/ i = 3 \/ i = 4
        OBVIOUS
    <2>7. \A i \in 1..5 - 1 : After(op, GeneralCreate[i], GeneralCreate[i + 1])
        BY <1>1, <2>3, <2>6 DEF After
    <2>8. /\ GeneralCreate[1] \in {"lock", "newId", "get", "exists"} /\ (kind = "general" => GeneralCreate[1] = "lock")
          /\ op # "create" => GeneralCreate[1] # "newId"
        BY <1>1, <2>3
    <2>9. Ordered(op, GeneralCreate)
        BY <2>2, <2>a, <2>5, <2>7, <2>8 DEF Ordered
    <2>10. QED
        BY <2>1, <2>9
<1>2. CASE kind = "general" /\ op = "update"
    <2>1. Steps(op) = GeneralUpdate
        BY <1>2 DEF Steps
    <2>2. GeneralUpdate \in Seq(Operations)
        BY DEF GeneralUpdate, Operations
    <2>a. Len(GeneralUpdate) = 6
        BY DEF GeneralUpdate
    <2>3. GeneralUpdate[1] = "lock" /\ GeneralUpdate[2] = "get" /\ GeneralUpdate[3] = "conflicts"
          /\ GeneralUpdate[4] = "backup" /\ GeneralUpdate[5] = "write" /\ GeneralUpdate[6] = "rename"
        BY DEF GeneralUpdate
    <2>4. \A i \in 1..6 : i = 1 \/ i = 2 \/ i = 3 \/ i = 4 \/ i = 5 \/ i = 6
        OBVIOUS
    <2>5. \A i \in 1..6 : Belongs(op, GeneralUpdate[i]) /\ (i = 6 <=> GeneralUpdate[i] \in LastSteps)
        BY <1>2, <2>3, <2>4 DEF Belongs, LastSteps, Operations
    <2>6. \A i \in 1..6 - 1 : i = 1 \/ i = 2 \/ i = 3 \/ i = 4 \/ i = 5
        OBVIOUS
    <2>7. \A i \in 1..6 - 1 : After(op, GeneralUpdate[i], GeneralUpdate[i + 1])
        BY <1>2, <2>3, <2>6 DEF After
    <2>8. /\ GeneralUpdate[1] \in {"lock", "newId", "get", "exists"} /\ (kind = "general" => GeneralUpdate[1] = "lock")
          /\ op # "create" => GeneralUpdate[1] # "newId"
        BY <1>2, <2>3
    <2>9. Ordered(op, GeneralUpdate)
        BY <2>2, <2>a, <2>5, <2>7, <2>8 DEF Ordered
    <2>10. QED
        BY <2>1, <2>9
<1>3. CASE kind = "general" /\ op = "delete"
    <2>1. Steps(op) = GeneralDelete
        BY <1>3 DEF Steps
    <2>2. GeneralDelete \in Seq(Operations)
        BY DEF GeneralDelete, Operations
    <2>a. Len(GeneralDelete) = 4
        BY DEF GeneralDelete
    <2>3. GeneralDelete[1] = "lock" /\ GeneralDelete[2] = "exists" /\ GeneralDelete[3] = "backup" /\ GeneralDelete[4] = "unlink"
        BY DEF GeneralDelete
    <2>4. \A i \in 1..4 : i = 1 \/ i = 2 \/ i = 3 \/ i = 4
        OBVIOUS
    <2>5. \A i \in 1..4 : Belongs(op, GeneralDelete[i]) /\ (i = 4 <=> GeneralDelete[i] \in LastSteps)
        BY <1>3, <2>3, <2>4 DEF Belongs, LastSteps, Operations
    <2>6. \A i \in 1..4 - 1 : i = 1 \/ i = 2 \/ i = 3
        OBVIOUS
    <2>7. \A i \in 1..4 - 1 : After(op, GeneralDelete[i], GeneralDelete[i + 1])
        BY <1>3, <2>3, <2>6 DEF After
    <2>8. /\ GeneralDelete[1] \in {"lock", "newId", "get", "exists"} /\ (kind = "general" => GeneralDelete[1] = "lock")
          /\ op # "create" => GeneralDelete[1] # "newId"
        BY <1>3, <2>3
    <2>9. Ordered(op, GeneralDelete)
        BY <2>2, <2>a, <2>5, <2>7, <2>8 DEF Ordered
    <2>10. QED
        BY <2>1, <2>9
<1>4. CASE kind = "terminology" /\ op = "create"
    <2>1. Steps(op) = TermCreate
        BY <1>4 DEF Steps
    <2>2. TermCreate \in Seq(Operations)
        BY DEF TermCreate, Operations
    <2>a. Len(TermCreate) = 5
        BY DEF TermCreate
    <2>3. TermCreate[1] = "newId" /\ TermCreate[2] = "conflicts" /\ TermCreate[3] = "write"
          /\ TermCreate[4] = "rename" /\ TermCreate[5] = "drop"
        BY DEF TermCreate
    <2>4. \A i \in 1..5 : i = 1 \/ i = 2 \/ i = 3 \/ i = 4 \/ i = 5
        OBVIOUS
    <2>5. \A i \in 1..5 : Belongs(op, TermCreate[i]) /\ (i = 5 <=> TermCreate[i] \in LastSteps)
        BY <1>4, <2>3, <2>4 DEF Belongs, LastSteps, Operations
    <2>6. \A i \in 1..5 - 1 : i = 1 \/ i = 2 \/ i = 3 \/ i = 4
        OBVIOUS
    <2>7. \A i \in 1..5 - 1 : After(op, TermCreate[i], TermCreate[i + 1])
        BY <1>4, <2>3, <2>6 DEF After
    <2>8. /\ TermCreate[1] \in {"lock", "newId", "get", "exists"} /\ (kind = "general" => TermCreate[1] = "lock")
          /\ op # "create" => TermCreate[1] # "newId"
        BY <1>4, <2>3
    <2>9. Ordered(op, TermCreate)
        BY <2>2, <2>a, <2>5, <2>7, <2>8 DEF Ordered
    <2>10. QED
        BY <2>1, <2>9
<1>5. CASE kind = "terminology" /\ op = "update"
    <2>1. Steps(op) = TermUpdate
        BY <1>5 DEF Steps
    <2>2. TermUpdate \in Seq(Operations)
        BY DEF TermUpdate, Operations
    <2>a. Len(TermUpdate) = 6
        BY DEF TermUpdate
    <2>3. TermUpdate[1] = "get" /\ TermUpdate[2] = "conflicts" /\ TermUpdate[3] = "backup"
          /\ TermUpdate[4] = "write" /\ TermUpdate[5] = "rename" /\ TermUpdate[6] = "drop"
        BY DEF TermUpdate
    <2>4. \A i \in 1..6 : i = 1 \/ i = 2 \/ i = 3 \/ i = 4 \/ i = 5 \/ i = 6
        OBVIOUS
    <2>5. \A i \in 1..6 : Belongs(op, TermUpdate[i]) /\ (i = 6 <=> TermUpdate[i] \in LastSteps)
        BY <1>5, <2>3, <2>4 DEF Belongs, LastSteps, Operations
    <2>6. \A i \in 1..6 - 1 : i = 1 \/ i = 2 \/ i = 3 \/ i = 4 \/ i = 5
        OBVIOUS
    <2>7. \A i \in 1..6 - 1 : After(op, TermUpdate[i], TermUpdate[i + 1])
        BY <1>5, <2>3, <2>6 DEF After
    <2>8. /\ TermUpdate[1] \in {"lock", "newId", "get", "exists"} /\ (kind = "general" => TermUpdate[1] = "lock")
          /\ op # "create" => TermUpdate[1] # "newId"
        BY <1>5, <2>3
    <2>9. Ordered(op, TermUpdate)
        BY <2>2, <2>a, <2>5, <2>7, <2>8 DEF Ordered
    <2>10. QED
        BY <2>1, <2>9
<1>6. CASE kind = "terminology" /\ op = "delete"
    <2>1. Steps(op) = TermDelete
        BY <1>6 DEF Steps
    <2>2. TermDelete \in Seq(Operations)
        BY DEF TermDelete, Operations
    <2>a. Len(TermDelete) = 4
        BY DEF TermDelete
    <2>3. TermDelete[1] = "exists" /\ TermDelete[2] = "backup" /\ TermDelete[3] = "unlink" /\ TermDelete[4] = "drop"
        BY DEF TermDelete
    <2>4. \A i \in 1..4 : i = 1 \/ i = 2 \/ i = 3 \/ i = 4
        OBVIOUS
    <2>5. \A i \in 1..4 : Belongs(op, TermDelete[i]) /\ (i = 4 <=> TermDelete[i] \in LastSteps)
        BY <1>6, <2>3, <2>4 DEF Belongs, LastSteps, Operations
    <2>6. \A i \in 1..4 - 1 : i = 1 \/ i = 2 \/ i = 3
        OBVIOUS
    <2>7. \A i \in 1..4 - 1 : After(op, TermDelete[i], TermDelete[i + 1])
        BY <1>6, <2>3, <2>6 DEF After
    <2>8. /\ TermDelete[1] \in {"lock", "newId", "get", "exists"} /\ (kind = "general" => TermDelete[1] = "lock")
          /\ op # "create" => TermDelete[1] # "newId"
        BY <1>6, <2>3
    <2>9. Ordered(op, TermDelete)
        BY <2>2, <2>a, <2>5, <2>7, <2>8 DEF Ordered
    <2>10. QED
        BY <2>1, <2>9
<1>7. CASE kind = "dance" /\ op = "create"
    <2>1. Steps(op) = DanceCreate
        BY <1>7 DEF Steps
    <2>2. DanceCreate \in Seq(Operations)
        BY DEF DanceCreate, Operations
    <2>a. Len(DanceCreate) = 5
        BY DEF DanceCreate
    <2>3. DanceCreate[1] = "newId" /\ DanceCreate[2] = "conflicts" /\ DanceCreate[3] = "write"
          /\ DanceCreate[4] = "rename" /\ DanceCreate[5] = "drop"
        BY DEF DanceCreate
    <2>4. \A i \in 1..5 : i = 1 \/ i = 2 \/ i = 3 \/ i = 4 \/ i = 5
        OBVIOUS
    <2>5. \A i \in 1..5 : Belongs(op, DanceCreate[i]) /\ (i = 5 <=> DanceCreate[i] \in LastSteps)
        BY <1>7, <2>3, <2>4 DEF Belongs, LastSteps, Operations
    <2>6. \A i \in 1..5 - 1 : i = 1 \/ i = 2 \/ i = 3 \/ i = 4
        OBVIOUS
    <2>7. \A i \in 1..5 - 1 : After(op, DanceCreate[i], DanceCreate[i + 1])
        BY <1>7, <2>3, <2>6 DEF After
    <2>8. /\ DanceCreate[1] \in {"lock", "newId", "get", "exists"} /\ (kind = "general" => DanceCreate[1] = "lock")
          /\ op # "create" => DanceCreate[1] # "newId"
        BY <1>7, <2>3
    <2>9. Ordered(op, DanceCreate)
        BY <2>2, <2>a, <2>5, <2>7, <2>8 DEF Ordered
    <2>10. QED
        BY <2>1, <2>9
<1>8. CASE kind = "dance" /\ op = "update"
    <2>1. Steps(op) = DanceUpdate
        BY <1>8 DEF Steps
    <2>2. DanceUpdate \in Seq(Operations)
        BY DEF DanceUpdate, Operations
    <2>a. Len(DanceUpdate) = 5
        BY DEF DanceUpdate
    <2>3. DanceUpdate[1] = "get" /\ DanceUpdate[2] = "conflicts" /\ DanceUpdate[3] = "write"
          /\ DanceUpdate[4] = "rename" /\ DanceUpdate[5] = "drop"
        BY DEF DanceUpdate
    <2>4. \A i \in 1..5 : i = 1 \/ i = 2 \/ i = 3 \/ i = 4 \/ i = 5
        OBVIOUS
    <2>5. \A i \in 1..5 : Belongs(op, DanceUpdate[i]) /\ (i = 5 <=> DanceUpdate[i] \in LastSteps)
        BY <1>8, <2>3, <2>4 DEF Belongs, LastSteps, Operations
    <2>6. \A i \in 1..5 - 1 : i = 1 \/ i = 2 \/ i = 3 \/ i = 4
        OBVIOUS
    <2>7. \A i \in 1..5 - 1 : After(op, DanceUpdate[i], DanceUpdate[i + 1])
        BY <1>8, <2>3, <2>6 DEF After
    <2>8. /\ DanceUpdate[1] \in {"lock", "newId", "get", "exists"} /\ (kind = "general" => DanceUpdate[1] = "lock")
          /\ op # "create" => DanceUpdate[1] # "newId"
        BY <1>8, <2>3
    <2>9. Ordered(op, DanceUpdate)
        BY <2>2, <2>a, <2>5, <2>7, <2>8 DEF Ordered
    <2>10. QED
        BY <2>1, <2>9
<1>9. CASE kind = "dance" /\ op = "delete"
    <2>1. Steps(op) = DanceDelete
        BY <1>9 DEF Steps
    <2>2. DanceDelete \in Seq(Operations)
        BY DEF DanceDelete, Operations
    <2>a. Len(DanceDelete) = 3
        BY DEF DanceDelete
    <2>3. DanceDelete[1] = "exists" /\ DanceDelete[2] = "unlink" /\ DanceDelete[3] = "drop"
        BY DEF DanceDelete
    <2>4. \A i \in 1..3 : i = 1 \/ i = 2 \/ i = 3
        OBVIOUS
    <2>5. \A i \in 1..3 : Belongs(op, DanceDelete[i]) /\ (i = 3 <=> DanceDelete[i] \in LastSteps)
        BY <1>9, <2>3, <2>4 DEF Belongs, LastSteps, Operations
    <2>6. \A i \in 1..3 - 1 : i = 1 \/ i = 2
        OBVIOUS
    <2>7. \A i \in 1..3 - 1 : After(op, DanceDelete[i], DanceDelete[i + 1])
        BY <1>9, <2>3, <2>6 DEF After
    <2>8. /\ DanceDelete[1] \in {"lock", "newId", "get", "exists"} /\ (kind = "general" => DanceDelete[1] = "lock")
          /\ op # "create" => DanceDelete[1] # "newId"
        BY <1>9, <2>3
    <2>9. Ordered(op, DanceDelete)
        BY <2>2, <2>a, <2>5, <2>7, <2>8 DEF Ordered
    <2>10. QED
        BY <2>1, <2>9
<1>10. QED
    BY <1>1, <1>2, <1>3, <1>4, <1>5, <1>6, <1>7, <1>8, <1>9 DEF Kinds, Ops

\* The operations that are left, and what remains of them after the next.
LEMMA LeftToDo ==
    ASSUME kind \in Kinds, NEW op \in Ops, NEW t \in Todo(op)
    PROVE  /\ t \in Seq(Operations) /\ t # <<>> /\ Belongs(op, Head(t))
           /\ Len(t) = 1 <=> Head(t) \in LastSteps
           /\ Len(t) # 1 => Tail(t) \in Todo(op) /\ Tail(t) # <<>> /\ After(op, Head(t), Head(Tail(t)))
<1> DEFINE s == Steps(op)
<1>1. PICK i \in 1..Len(s) : t = SubSeq(s, i, Len(s))
    BY DEF Todo
<1>2. Ordered(op, s)
    BY HandlersOrdered
<1> HIDE DEF s
<1>3. s \in Seq(Operations) /\ Len(s) \in Nat /\ \A k \in 1..Len(s) : s[k] \in Operations
    BY <1>2, ElementOfSeq DEF Ordered
<1>4. ASSUME NEW k \in 1..Len(s)
      PROVE  /\ SubSeq(s, k, Len(s)) \in Seq(Operations)
             /\ Len(SubSeq(s, k, Len(s))) = Len(s) - k + 1 /\ SubSeq(s, k, Len(s)) # <<>>
             /\ Head(SubSeq(s, k, Len(s))) = s[k] /\ Tail(SubSeq(s, k, Len(s))) = SubSeq(s, k + 1, Len(s))
    <2>1. \A m \in k..Len(s) : s[m] \in Operations
        BY <1>3
    <2>2. /\ SubSeq(s, k, Len(s)) \in Seq(Operations)
          /\ Len(SubSeq(s, k, Len(s))) = IF k <= Len(s) THEN Len(s) - k + 1 ELSE 0
        BY <1>3, <2>1, SubSeqProperties
    <2>3. Len(SubSeq(s, k, Len(s))) = Len(s) - k + 1 /\ Len(s) - k + 1 # 0
        BY <1>3, <2>2
    <2>4. Len(s) \in k..Len(s)
        BY <1>3
    <2>5. Head(SubSeq(s, k, Len(s))) = s[k] /\ Tail(SubSeq(s, k, Len(s))) = SubSeq(s, k + 1, Len(s))
        BY <1>3, <2>4, HeadTailOfSubSeq
    <2>6. QED
        BY <2>2, <2>3, <2>5
<1>5. t \in Seq(Operations) /\ t # <<>> /\ Belongs(op, Head(t))
    BY <1>1, <1>2, <1>4 DEF Ordered
<1>6. Len(t) = 1 <=> Head(t) \in LastSteps
    BY <1>1, <1>2, <1>3, <1>4 DEF Ordered
<1>7. ASSUME Len(t) # 1 PROVE Tail(t) \in Todo(op) /\ Tail(t) # <<>> /\ After(op, Head(t), Head(Tail(t)))
    <2>1. i \in 1..Len(s) - 1 /\ i + 1 \in 1..Len(s)
        BY <1>1, <1>3, <1>4, <1>7
    <2>2. Tail(t) = SubSeq(s, i + 1, Len(s)) /\ Tail(t) # <<>> /\ Head(Tail(t)) = s[i + 1] /\ Head(t) = s[i]
        BY <1>1, <1>4, <2>1
    <2>3. QED
        BY <1>2, <2>1, <2>2 DEF Ordered, Todo, s
<1>8. QED
    BY <1>5, <1>6, <1>7

LEMMA WholeToDo ==
    ASSUME kind \in Kinds, NEW op \in Ops
    PROVE  /\ Steps(op) \in Todo(op) /\ Steps(op) \in Seq(Operations) /\ Steps(op) # <<>>
           /\ Head(Steps(op)) \in {"lock", "newId", "get", "exists"}
           /\ kind = "general" => Head(Steps(op)) = "lock"
           /\ op # "create" => Head(Steps(op)) # "newId"
<1> DEFINE s == Steps(op)
<1>1. Ordered(op, s)
    BY HandlersOrdered
<1> HIDE DEF s
<1>2. s \in Seq(Operations) /\ Len(s) \in Nat /\ Len(s) > 0
    BY <1>1 DEF Ordered
<1>3. s = SubSeq(s, 1, Len(s))
    <2>1. 1 \in Int /\ Len(s) \in Int /\ \A m \in 1..Len(s) : s[m] \in Operations
        BY <1>2, ElementOfSeq
    <2>2. /\ SubSeq(s, 1, Len(s)) \in Seq(Operations)
          /\ Len(SubSeq(s, 1, Len(s))) = IF 1 <= Len(s) THEN Len(s) - 1 + 1 ELSE 0
          /\ \A m \in 1..Len(s) - 1 + 1 : SubSeq(s, 1, Len(s))[m] = s[1 + m - 1]
        BY <2>1, SubSeqProperties
    <2>3. Len(SubSeq(s, 1, Len(s))) = Len(s)
        BY <1>2, <2>2
    <2>4. \A m \in 1..Len(s) : SubSeq(s, 1, Len(s))[m] = s[m]
        BY <1>2, <2>2
    <2>5. QED
        BY <1>2, <2>2, <2>3, <2>4, SeqEqual
<1>4. 1 \in 1..Len(s) /\ s # <<>> /\ Head(s) = s[1]
    BY <1>2
<1>5. s \in Todo(op)
    BY <1>3, <1>4 DEF Todo, s
<1>6. QED
    BY <1>1, <1>2, <1>4, <1>5 DEF Ordered, s

LEMMA IdsAreNumbers == RecordIds \subseteq Nat \ {0}
<1>1. Cardinality(RecordIds) \in Nat
    BY KnowledgeAssumption, FS_CardinalityType
<1>2. QED
    BY <1>1, KnowledgeAssumption

\* The smallest of a set of numbers is one of them.
LEMMA SmallestIsIn == ASSUME NEW T, T \subseteq Nat, T # {} PROVE Min(T) \in T
<1>1. \E x \in T : \A y \in T : x <= y
    BY LeastElement
<1>2. QED
    BY <1>1 DEF Min

-----------------------------------------------------------------------------
\* Handler j has just begun change e.
Begun(j, e) ==
    /\ j \in Change /\ j.todo = Steps(j.op)
    /\ j.read = NoRecord /\ j.edit = e
    /\ j.op # "create" => j.id \in RecordIds

LEMMA BeginsRow ==
    ASSUME kind \in Kinds, NEW rows \in Seq(Row), ToDo(rows) # {}, NEW e \in Nat
    PROVE  Begun(StartRow(rows, e), e)
<1> DEFINE i == Min(ToDo(rows))
<1>1. Len(rows) \in Nat /\ DOMAIN rows = 1..Len(rows) /\ \A k \in 1..Len(rows) : rows[k] \in Row
    BY LenProperties, ElementOfSeq
<1>2. ToDo(rows) \subseteq Nat
    BY <1>1 DEF ToDo
<1>3. i \in 1..Len(rows) /\ rows[i].op # "skip"
    BY <1>1, <1>2, SmallestIsIn DEF ToDo
<1> HIDE DEF i
<1>4. rows[i].op \in Ops /\ rows[i].names \in SUBSET Name /\ rows[i].id \in RecordIds \cup {0}
      /\ (rows[i].op # "create" => rows[i].id \in RecordIds)
    BY <1>1, <1>3 DEF Row, Ops
<1>5. SubSeq(rows, i + 1, Len(rows)) \in Seq(Row)
    <2>1. \A m \in i + 1..Len(rows) : rows[m] \in Row
        BY <1>1, <1>3
    <2>2. QED
        BY <1>1, <1>3, <2>1, SubSeqProperties
<1>6. Steps(rows[i].op) \in Seq(Operations)
    BY <1>4, WholeToDo
<1>7. StartRow(rows, e) = Start(rows[i].op, rows[i].names, rows[i].id, e, SubSeq(rows, i + 1, Len(rows)))
    BY DEF StartRow, i
<1>8. QED
    BY <1>4, <1>5, <1>6, <1>7 DEF Start, Begun, Change

\* The next row of an import, or the end of a handler.
Ended(a) ==
    /\ DOMAIN job' = Actors /\ edits' \in Nat
    /\ \A b \in Actors \ {a} : job'[b] = job[b]
    /\ \/ job'[a] = Idle /\ edits' = edits
       \/ Begun(job'[a], edits') /\ edits' = edits + 1
    /\ kLock' = IF kLock = a THEN Free ELSE kLock

LEMMA EndMeans ==
    ASSUME KnowledgeTypes, NEW a \in Actors, Changes(a), End(a)
    PROVE  Ended(a)
<1>1. job[a].rows \in Seq(Row)
    BY DEF KnowledgeTypes, Handler, Change
<1>2. kind \in Kinds /\ edits \in Nat /\ DOMAIN job = Actors
    BY DEF KnowledgeTypes
<1>3. CASE ToDo(job[a].rows) = {} \/ edits = MaxEdits
    BY <1>2, <1>3 DEF End, Release, NextRow, Ended
<1>4. CASE ~(ToDo(job[a].rows) = {} \/ edits = MaxEdits)
    <2>1. edits' = edits + 1 /\ job' = [job EXCEPT ![a] = StartRow(job[a].rows, edits + 1)]
        BY <1>4 DEF End, NextRow
    <2>2. Begun(StartRow(job[a].rows, edits + 1), edits + 1)
        BY <1>1, <1>2, <1>4, BeginsRow
    <2>3. kLock' = IF kLock = a THEN Free ELSE kLock
        BY DEF End, Release
    <2>4. QED
        BY <1>2, <2>1, <2>2, <2>3 DEF Ended
<1>5. QED
    BY <1>3, <1>4

\* What no step but the first of a look-up does to the handlers.
Orderly ==
    /\ DOMAIN job' = Actors /\ edits' \in Nat /\ edits <= edits'
    /\ \A b \in Actors : Handler(b)'
    /\ \A b \in Actors : Pc(b)' = "read" => Pc(b) = "read" /\ job'[b] = job[b]
    /\ \A b \in Actors : Changes(b)' =>
          \/ job'[b].edit > edits
          \/ Changes(b) /\ job'[b].edit = job[b].edit /\ (Writing(b)' => Writing(b))
    /\ OwnEdits'

LEMMA OthersStay ==
    ASSUME KnowledgeTypes, kind' = kind, edits' \in Nat, edits <= edits', NEW b \in Actors, job'[b] = job[b]
    PROVE  /\ Handler(b)' /\ Pc(b)' = Pc(b) /\ (Changes(b)' <=> Changes(b)) /\ (Writing(b)' <=> Writing(b))
           /\ Changes(b) => job[b].edit <= edits
<1>1. Handler(b) /\ edits \in Nat
    BY DEF KnowledgeTypes
<1>2. Pc(b)' = Pc(b)
    BY DEF Pc
<1>3. (Changes(b)' <=> Changes(b)) /\ (Writing(b)' <=> Writing(b))
    BY <1>2 DEF Changes, Writing
<1>4. \A op : Todo(op)' = Todo(op)
    BY DEF Todo, Steps
<1>5. Changes(b) => job[b].edit \in 1..edits /\ job[b].edit \in 1..edits' /\ job[b].edit <= edits
    BY <1>1 DEF Handler
<1>6. (Pc(b)' = "idle" => job'[b] = Idle) /\ (Pc(b)' = "read" => job'[b] \in Reading)
    BY <1>1, <1>2 DEF Handler
<1>a. ASSUME Changes(b)' PROVE (job[b].todo \in Todo(job[b].op))'
    BY <1>1, <1>3, <1>4, <1>a DEF Handler
<1>7. ASSUME Changes(b)'
      PROVE  /\ job'[b] \in Change
             /\ (job[b].todo \in Todo(job[b].op))'
             /\ job'[b].op = "create" => job'[b].read = NoRecord
             /\ (job'[b].op = "create" => Pc(b)' \notin {"lock", "newId"}) => job'[b].id \in RecordIds
             /\ job'[b].edit \in 1..edits'
    BY <1>1, <1>2, <1>3, <1>a, <1>5, <1>7 DEF Handler
<1>8. Handler(b)'
    BY <1>6, <1>7 DEF Handler
<1>9. QED
    BY <1>2, <1>3, <1>5, <1>8

LEMMA OneMoves ==
    ASSUME KnowledgeTypes, OwnEdits, kind' = kind, edits' \in Nat, edits <= edits', DOMAIN job' = Actors,
           NEW a \in Actors, \A b \in Actors \ {a} : job'[b] = job[b],
           Handler(a)', Pc(a)' = "read" => Pc(a) = "read" /\ job'[a] = job[a],
           Changes(a)' => \/ job'[a].edit > edits
                          \/ Changes(a) /\ job'[a].edit = job[a].edit /\ (Writing(a)' => Writing(a))
    PROVE  Orderly
<1>1. \A b \in Actors \ {a} : /\ Handler(b)' /\ Pc(b)' = Pc(b)
                              /\ (Changes(b)' <=> Changes(b)) /\ (Writing(b)' <=> Writing(b))
                              /\ Changes(b) => job[b].edit <= edits
    BY OthersStay
<1>2. Changes(a) => job[a].edit \in Nat /\ edits \in Nat
    BY DEF KnowledgeTypes, Handler
<1>3. \A b \in Actors \ {a} : Changes(b) => job[b].edit \in Nat
    BY DEF KnowledgeTypes, Handler
<1>4. edits \in Nat
    BY DEF KnowledgeTypes
<1>5. ASSUME NEW b \in Actors, NEW c \in Actors, Changes(b)', Changes(c)', job'[b].edit = job'[c].edit
      PROVE  b = c
    <2>1. CASE b # a /\ c # a
        BY <1>1, <1>5, <2>1 DEF OwnEdits
    <2>2. CASE b = a /\ c # a
        <3>1. job'[c] = job[c] /\ Changes(c) /\ job[c].edit <= edits /\ job[c].edit \in Nat
            BY <1>1, <1>3, <1>5, <2>2
        <3>2. ~(job'[a].edit > edits)
            BY <1>4, <1>5, <2>2, <3>1
        <3>3. QED
            BY <1>5, <2>2, <3>1, <3>2 DEF OwnEdits
    <2>3. CASE b # a /\ c = a
        <3>1. job'[b] = job[b] /\ Changes(b) /\ job[b].edit <= edits /\ job[b].edit \in Nat
            BY <1>1, <1>3, <1>5, <2>3
        <3>2. ~(job'[a].edit > edits)
            BY <1>4, <1>5, <2>3, <3>1
        <3>3. QED
            BY <1>5, <2>3, <3>1, <3>2 DEF OwnEdits
    <2>4. QED
        BY <2>1, <2>2, <2>3
<1>6. OwnEdits'
    BY <1>5 DEF OwnEdits
<1>7. \A b \in Actors : Handler(b)' /\ (Pc(b)' = "read" => Pc(b) = "read" /\ job'[b] = job[b])
    BY <1>1
<1>8. ASSUME NEW b \in Actors, Changes(b)'
      PROVE  \/ job'[b].edit > edits
             \/ Changes(b) /\ job'[b].edit = job[b].edit /\ (Writing(b)' => Writing(b))
    BY <1>1, <1>8
<1>9. QED
    BY <1>6, <1>7, <1>8 DEF Orderly

\* A change that begins is new and starts at its first operation.
LEMMA BegunMeans ==
    ASSUME KnowledgeTypes, kind' = kind, edits' = edits + 1, NEW a \in Actors, Begun(job'[a], edits')
    PROVE  /\ Handler(a)' /\ Changes(a)' /\ job'[a].edit > edits
           /\ Pc(a)' \in {"lock", "newId", "get", "exists"} /\ (kind = "general" => Pc(a)' = "lock")
<1> DEFINE j == job'[a]
<1>1. edits \in Nat /\ kind \in Kinds
    BY DEF KnowledgeTypes
<1>2. j.op \in Ops /\ j \in Change /\ j.todo = Steps(j.op) /\ j.read = NoRecord
      /\ j.edit = edits' /\ (j.op # "create" => j.id \in RecordIds)
    BY DEF Begun, Change
<1>3. /\ Steps(j.op) \in Todo(j.op) /\ Steps(j.op) # <<>>
      /\ Head(Steps(j.op)) \in {"lock", "newId", "get", "exists"}
      /\ kind = "general" => Head(Steps(j.op)) = "lock"
      /\ j.op # "create" => Head(Steps(j.op)) # "newId"
    BY <1>1, <1>2, WholeToDo
<1>4. Pc(a)' = Head(Steps(j.op))
    BY <1>2, <1>3 DEF Pc
<1>5. \A op : Todo(op)' = Todo(op)
    BY DEF Todo, Steps
<1>6. Changes(a)'
    BY <1>3, <1>4 DEF Changes
<1>7. j.edit > edits /\ j.edit \in 1..edits'
    BY <1>1, <1>2
<1>8. (j.op = "create" /\ Pc(a)' \in {"lock", "newId"}) \/ j.id \in RecordIds
    <2>1. ASSUME j.op = "create" PROVE Head(Steps(j.op)) \in {"lock", "newId"}
        <3>1. Ordered(j.op, Steps(j.op))
            BY <1>1, <1>2, HandlersOrdered
        <3>2. 1 \in 1..Len(Steps(j.op)) /\ Head(Steps(j.op)) = Steps(j.op)[1]
            BY <1>3, <3>1 DEF Ordered
        <3>3. Belongs(j.op, Head(Steps(j.op)))
            BY <3>1, <3>2 DEF Ordered
        <3>4. QED
            BY <1>3, <2>1, <3>3 DEF Belongs
    <2>2. QED
        BY <1>2, <1>4, <2>1
<1>9. Handler(a)'
    <2>1. (job[a].todo \in Todo(job[a].op))'
        BY <1>2, <1>3, <1>5
    <2>2. Pc(a)' # "idle" /\ Pc(a)' # "read"
        BY <1>3, <1>4
    <2>3. QED
        BY <1>2, <1>7, <1>8, <2>1, <2>2 DEF Handler
<1>10. QED
    BY <1>3, <1>4, <1>6, <1>7, <1>9

LEMMA EndIsOrderly ==
    ASSUME KnowledgeTypes, OwnEdits, kind' = kind, NEW a \in Actors, Changes(a), Ended(a)
    PROVE  Orderly
<1>1. edits \in Nat
    BY DEF KnowledgeTypes
<1>2. CASE job'[a] = Idle /\ edits' = edits
    <2>1. Pc(a)' = "idle"
        BY <1>2 DEF Pc, Idle
    <2>2. Handler(a)' /\ ~Changes(a)'
        BY <1>2, <2>1 DEF Handler, Changes
    <2>3. QED
        BY <1>1, <1>2, <2>1, <2>2, OneMoves DEF Ended
<1>3. CASE Begun(job'[a], edits') /\ edits' = edits + 1
    <2>1. Handler(a)' /\ job'[a].edit > edits /\ Pc(a)' \in {"lock", "newId", "get", "exists"}
        BY <1>3, BegunMeans
    <2>2. QED
        BY <1>1, <1>3, <2>1, OneMoves DEF Ended
<1>4. QED
    BY <1>2, <1>3 DEF Ended

-----------------------------------------------------------------------------
LEMMA Signatures ==
    ASSUME NEW r \in Record
    PROVE  /\ Sig(r) \in Nat \X Nat /\ r # NoRecord
           /\ Sig(r)[1] = r.tick /\ Sig(r)[2] = IF kind = "general" THEN 0 ELSE r.inode
<1>1. r.tick \in Nat /\ r.inode \in Nat /\ r.rev # 0
    BY DEF Record
<1>2. r # NoRecord
    BY <1>1 DEF NoRecord
<1>3. QED
    BY <1>1, <1>2 DEF Sig, GeneralSig, TermSig, DanceSig

LEMMA NoSignature == ASSUME NEW s \in Nat \X Nat PROVE s # <<>>
OBVIOUS

LEMMA ComingShrinks ==
    ASSUME KnowledgeTypes, Orderly, kind' = kind, NEW id \in RecordIds, lastTick'[id] \in Nat, lastTick[id] <= lastTick'[id],
           NEW s \in Nat \X Nat, Coming(id, s)'
    PROVE  Coming(id, s)
<1>1. lastTick[id] \in Nat /\ edits \in Nat /\ edits' \in Nat /\ edits <= edits' /\ s[1] \in Nat /\ s[2] \in Nat
    BY DEF KnowledgeTypes, Orderly
<1>2. CASE kind = "general"
    BY <1>1, <1>2 DEF Coming
<1>3. CASE kind # "general"
    <2>1. CASE s[2] > edits'
        BY <1>1, <1>3, <2>1 DEF Coming
    <2>2. CASE \E b \in Actors : Writing(b)' /\ s[2] = job'[b].edit
        <3>1. PICK b \in Actors : Writing(b)' /\ s[2] = job'[b].edit
            BY <2>2
        <3>2. Changes(b)'
            BY <3>1 DEF Writing
        <3>3. job'[b].edit > edits \/ (Writing(b) /\ job'[b].edit = job[b].edit)
            BY <3>1, <3>2 DEF Orderly
        <3>4. QED
            BY <1>3, <3>1, <3>3 DEF Coming
    <2>3. QED
        BY <1>3, <2>1, <2>2 DEF Coming
<1>4. QED
    BY <1>2, <1>3

\* What a step may do to a cached record: nothing, drop it, bring it up to date,
\* or enter what a look-up has read.
CacheMoves(id) ==
    \/ cache'[id] = cache[id]
    \/ cache'[id] = [sig |-> <<>>, record |-> NoRecord]
    \/ Exists(id) /\ cache'[id] = [sig |-> Sig(files[id]), record |-> files[id]]
    \/ Exists(id) /\ \E a \in Actors : Pc(a) = "read" /\ job[a].id = id /\ cache'[id] = [sig |-> job[a].sig, record |-> files[id]]

LEMMA StaysUnseen ==
    ASSUME Orderly, kind' = kind, NEW id \in RecordIds, NEW s \in Nat \X Nat, Unseen(id, s), CacheMoves(id),
           Exists(id)' => Sig(files'[id]) # s
    PROVE  Unseen(id, s)'
<1>1. cache'[id].sig # s
    <2>1. CASE cache'[id] = cache[id]
        BY <2>1 DEF Unseen
    <2>2. CASE cache'[id] = [sig |-> <<>>, record |-> NoRecord]
        BY <2>2, NoSignature
    <2>3. CASE Exists(id) /\ cache'[id] = [sig |-> Sig(files[id]), record |-> files[id]]
        BY <2>3 DEF Unseen
    <2>4. ASSUME NEW a \in Actors, Pc(a) = "read", job[a].id = id, cache'[id] = [sig |-> job[a].sig, record |-> files[id]]
          PROVE  cache'[id].sig # s
        BY <2>4 DEF Unseen
    <2>5. QED
        BY <2>1, <2>2, <2>3, <2>4 DEF CacheMoves
<1>2. \A b \in Actors : Pc(b)' = "read" /\ job'[b].id = id => job'[b].sig # s
    BY DEF Unseen, Orderly
<1>3. Exists(id)' => Sig(files[id])' # s
    BY DEF Sig, GeneralSig, TermSig, DanceSig
<1>4. QED
    BY <1>1, <1>2, <1>3 DEF Unseen

LEMMA FreshStays ==
    ASSUME FreshIsSaved, kind' = kind, files' = files, blurred \subseteq blurred', \A id \in RecordIds : CacheMoves(id)
    PROVE  FreshIsSaved'
<1>1. ASSUME NEW id \in RecordIds \ blurred, Exists(id)', Fresh(id)' PROVE cache'[id].record = files'[id]
    <2>1. Exists(id) /\ files'[id] = files[id]
        BY <1>1 DEF Exists
    <2>2. CASE cache'[id] = cache[id]
        <3>1. Fresh(id)
            BY <1>1, <2>2 DEF Fresh, Sig, GeneralSig, TermSig, DanceSig
        <3>2. QED
            BY <2>1, <2>2, <3>1 DEF FreshIsSaved, Listed
    <2>3. CASE cache'[id] = [sig |-> <<>>, record |-> NoRecord]
        BY <1>1, <2>3 DEF Fresh
    <2>4. CASE Exists(id) /\ cache'[id] = [sig |-> Sig(files[id]), record |-> files[id]]
        BY <2>1, <2>4
    <2>5. ASSUME NEW a \in Actors, cache'[id] = [sig |-> job[a].sig, record |-> files[id]]
          PROVE  cache'[id].record = files'[id]
        BY <2>1, <2>5
    <2>6. CacheMoves(id)
        BY <1>1
    <2>7. QED
        BY <2>2, <2>3, <2>4, <2>5, <2>6 DEF CacheMoves
<1>2. QED
    BY <1>1 DEF FreshIsSaved, Listed

\* A step that changes no file keeps the versions apart.
LEMMA VersionsStay ==
    ASSUME KnowledgeTypes, Versions, Orderly, kind' = kind, files' = files, tmp' = tmp, lastTick' = lastTick,
           blurred' = blurred, \A id \in RecordIds : CacheMoves(id)
    PROVE  Versions'
<1>1. \A r : Sig(r)' = Sig(r)
    BY DEF Sig, GeneralSig, TermSig, DanceSig
<1>2. ASSUME NEW id \in RecordIds PROVE Exists(id)' <=> Exists(id)
    BY DEF Exists
<1>3. ASSUME NEW id \in RecordIds, NEW s \in Nat \X Nat, Unseen(id, s) PROVE Unseen(id, s)'
    <2>1. Exists(id)' => Sig(files'[id]) # s
        BY <1>2, <1>3 DEF Unseen
    <2>2. QED
        BY <1>3, <2>1, StaysUnseen
<1>4. NewSignatures'
    <2>1. ASSUME NEW id \in RecordIds, NEW s \in Nat \X Nat, Coming(id, s)'
          PROVE  Unseen(id, s)' /\ (tmp'[id] # NoRecord => Sig(tmp[id])' # s)
        <3>1. Coming(id, s)
            BY <2>1, ComingShrinks DEF KnowledgeTypes
        <3>2. Unseen(id, s) /\ (tmp[id] # NoRecord => Sig(tmp[id]) # s)
            BY <3>1 DEF Versions, NewSignatures
        <3>3. Sig(tmp[id])' = Sig(tmp[id])
            BY DEF Sig, GeneralSig, TermSig, DanceSig
        <3>4. QED
            BY <1>3, <3>2, <3>3
    <2>2. QED
        BY <2>1 DEF NewSignatures
<1>5. WaitingUnseen'
    <2>1. ASSUME NEW id \in RecordIds \ blurred, tmp'[id] # NoRecord PROVE Unseen(id, Sig(tmp[id]))'
        <3>1. tmp[id] \in Record
            BY <2>1 DEF KnowledgeTypes
        <3>2. Sig(tmp[id]) \in Nat \X Nat /\ Unseen(id, Sig(tmp[id]))
            BY <2>1, <3>1, Signatures DEF Versions, WaitingUnseen
        <3>3. Sig(tmp[id])' = Sig(tmp[id])
            BY DEF Sig, GeneralSig, TermSig, DanceSig
        <3>4. PICK s \in Nat \X Nat : s = Sig(tmp[id])
            BY <3>2
        <3>5. Unseen(id, s)'
            BY <1>3, <3>2, <3>4
        <3>6. QED
            BY <3>3, <3>4, <3>5 DEF Unseen
    <2>2. QED
        BY <2>1 DEF WaitingUnseen
<1>6. FreshIsSaved'
    BY FreshStays DEF Versions
<1>7. QED
    BY <1>4, <1>5, <1>6 DEF Versions, Orderly

-----------------------------------------------------------------------------
\* Handler a goes on to its next operation; what it knows is that of j.
GoesOn(a, j) ==
    /\ DOMAIN job' = Actors
    /\ \A b \in Actors \ {a} : job'[b] = job[b]
    /\ Handler(a)' /\ Changes(a)' /\ After(j.op, Pc(a), Pc(a)')
    /\ job'[a].op = j.op /\ job'[a].names = j.names /\ job'[a].id = j.id
    /\ job'[a].edit = j.edit /\ job'[a].read = j.read

LEMMA GoMeans ==
    ASSUME KnowledgeTypes, kind' = kind, edits' = edits, NEW a \in Actors, Changes(a), Pc(a) \notin LastSteps,
           NEW j \in Change, Go(a, j), j.todo = job[a].todo, j.op = job[a].op, j.edit = job[a].edit,
           j.op = "create" => j.read = NoRecord, j.id \in RecordIds \/ (j.id = job[a].id /\ Pc(a) = "lock")
    PROVE  GoesOn(a, j)
<1>1. kind \in Kinds /\ DOMAIN job = Actors /\ Handler(a)
    BY DEF KnowledgeTypes
<1>2. j.todo \in Todo(j.op) /\ j.op \in Ops /\ j.edit \in 1..edits
    BY <1>1 DEF Handler, Change
<1>3. /\ j.todo \in Seq(Operations) /\ j.todo # <<>>
      /\ Len(j.todo) = 1 <=> Head(j.todo) \in LastSteps
      /\ Len(j.todo) # 1 => /\ Tail(j.todo) \in Todo(j.op) /\ Tail(j.todo) # <<>>
                            /\ After(j.op, Head(j.todo), Head(Tail(j.todo)))
    BY <1>1, <1>2, LeftToDo
<1>4. Pc(a) = Head(j.todo)
    BY <1>3 DEF Pc
<1>5. job' = [job EXCEPT ![a] = [j EXCEPT !.todo = Tail(@)]]
    BY DEF Go
<1>6. /\ DOMAIN job' = Actors /\ \A b \in Actors \ {a} : job'[b] = job[b]
      /\ job'[a] = [j EXCEPT !.todo = Tail(@)]
    BY <1>1, <1>5
<1>7. /\ job'[a].op = j.op /\ job'[a].names = j.names /\ job'[a].id = j.id
      /\ job'[a].edit = j.edit /\ job'[a].read = j.read /\ job'[a].todo = Tail(j.todo)
    BY <1>6 DEF Change
<1>8. Tail(j.todo) \in Todo(j.op) /\ Tail(j.todo) # <<>> /\ After(j.op, Head(j.todo), Head(Tail(j.todo)))
    BY <1>3, <1>4
<1>9. Pc(a)' = Head(Tail(j.todo))
    BY <1>7, <1>8 DEF Pc
<1>10. After(j.op, Pc(a), Pc(a)')
    BY <1>4, <1>8, <1>9
<1>11. Pc(a)' # "idle" /\ Pc(a)' # "read"
    BY <1>10 DEF After
<1>12. \A op : Todo(op)' = Todo(op)
    BY DEF Todo, Steps
<1>13. (job[a].todo \in Todo(job[a].op))'
    BY <1>7, <1>8, <1>12
<1>14. job'[a] \in Change
    <2>1. Tail(j.todo) \in Seq(Operations)
        BY <1>1, <1>2, <1>8, LeftToDo
    <2>2. QED
        BY <1>6, <2>1 DEF Change
<1>15. (job'[a].op = "create" => Pc(a)' \notin {"lock", "newId"}) => job'[a].id \in RecordIds
    <2>1. CASE Pc(a) = "lock"
        <3>1. j.id \in RecordIds \/ j.op = "create"
            BY <1>1, <2>1 DEF Handler
        <3>2. j.op = "create" => Pc(a)' = "newId"
            BY <1>10, <2>1 DEF After
        <3>3. QED
            BY <1>7, <3>1, <3>2
    <2>2. QED
        BY <1>7, <2>1
<1>16. Handler(a)'
    BY <1>2, <1>7, <1>11, <1>13, <1>14, <1>15 DEF Handler
<1>17. QED
    BY <1>6, <1>7, <1>10, <1>11, <1>16 DEF GoesOn, Changes


LEMMA DoingMeans ==
    ASSUME KnowledgeTypes, NEW a \in Actors, NEW step \in Operations, Doing(a, step)
    PROVE  /\ Pc(a) = step /\ Changes(a) /\ job[a] \in Change /\ job[a].op \in Ops
           /\ Belongs(job[a].op, step) /\ (Len(job[a].todo) = 1 <=> step \in LastSteps)
           /\ step \notin {"lock", "newId"} => job[a].id \in RecordIds
<1>1. kind \in Kinds /\ Handler(a)
    BY DEF KnowledgeTypes
<1>2. Pc(a) = step
    BY DEF Doing, Pc
<1>3. Changes(a)
    BY <1>2 DEF Changes, Operations
<1>4. job[a] \in Change /\ job[a].todo \in Todo(job[a].op) /\ job[a].op \in Ops
    BY <1>1, <1>3 DEF Handler, Change
<1>5. Belongs(job[a].op, step) /\ (Len(job[a].todo) = 1 <=> step \in LastSteps)
    BY <1>1, <1>4, LeftToDo DEF Doing
<1>6. step \notin {"lock", "newId"} => job[a].id \in RecordIds
    BY <1>1, <1>2, <1>3 DEF Handler
<1>7. QED
    BY <1>2, <1>3, <1>4, <1>5, <1>6

LEMMA GoIsOrderly ==
    ASSUME KnowledgeTypes, OwnEdits, kind' = kind, edits' = edits, NEW a \in Actors, Changes(a),
           NEW j, GoesOn(a, j), j.op = job[a].op, j.edit = job[a].edit
    PROVE  Orderly
<1>1. edits \in Nat
    BY DEF KnowledgeTypes
<1>2. Writing(a)' => Writing(a)
    BY DEF GoesOn, After, Writing
<1>3. Pc(a)' # "read"
    BY DEF GoesOn, After
<1>4. QED
    BY <1>1, <1>2, <1>3, OneMoves DEF GoesOn

-----------------------------------------------------------------------------
\* A handler that is not at a step keeps what it relies on, when nothing it
\* relies on changes.
LEMMA ReliesStays ==
    ASSUME kind' = kind, files' = files, tmp' = tmp, blurred \subseteq blurred', NEW b \in Actors, Relies(b), job'[b] = job[b],
           kLock = b => kLock' = b
    PROVE  Relies(b)'
<1>1. Pc(b)' = Pc(b)
    BY DEF Pc
<1>2. Changes(b)' <=> Changes(b)
    BY <1>1 DEF Changes
<1>3. Listed' = Listed /\ \A id : Exists(id)' <=> Exists(id)
    BY DEF Listed, Exists
<1>4. QED
    BY <1>1, <1>2, <1>3 DEF Relies

\* A step that changes no file; no answer is one of the general store.
LEMMA GuardedStays ==
    ASSUME LockGuards, kind' = kind, files' = files, blurred \subseteq blurred', acked' = acked \/ kind # "general",
           kind = "general" => \A a \in Actors : Relies(a)'
    PROVE  LockGuards'
<1>1. Listed' = Listed /\ \A id : Exists(id)' <=> Exists(id)
    BY DEF Listed, Exists
<1>2. kind = "general" => NamesUnique'
    BY <1>1 DEF LockGuards, NamesUnique
<1>3. kind = "general" => AcknowledgedEditsStay'
    BY <1>1 DEF LockGuards, AcknowledgedEditsStay
<1>4. QED
    BY <1>2, <1>3 DEF LockGuards

\* What holds of the variables a step leaves alone.
LEMMA TypesStay ==
    ASSUME KnowledgeTypes, Orderly, kind' = kind, kLock' \in Actors \cup {Free}, files' = files, tmp' = tmp,
           UNCHANGED <<tick, lastTick, blurred>>, acked' = acked \/ acked' \subseteq Answers, \A id \in RecordIds : CacheMoves(id),
           DOMAIN cache' = RecordIds, cache' = [id \in RecordIds |-> cache'[id]]
    PROVE  KnowledgeTypes'
<1>1. ASSUME NEW id \in RecordIds PROVE cache'[id] \in [sig : Signature, record : Record \cup {NoRecord}]
    <2>1. CASE cache'[id] = cache[id]
        BY <2>1 DEF KnowledgeTypes
    <2>2. CASE cache'[id] = [sig |-> <<>>, record |-> NoRecord]
        BY <2>2 DEF Signature
    <2>3. CASE Exists(id) /\ cache'[id] = [sig |-> Sig(files[id]), record |-> files[id]]
        <3>1. files[id] \in Record
            BY <2>3 DEF KnowledgeTypes, Exists
        <3>2. Sig(files[id]) \in Signature
            BY <3>1, Signatures DEF Signature
        <3>3. QED
            BY <2>3, <3>1, <3>2
    <2>4. ASSUME Exists(id), NEW a \in Actors, Pc(a) = "read",
                 cache'[id] = [sig |-> job[a].sig, record |-> files[id]]
          PROVE  cache'[id] \in [sig : Signature, record : Record \cup {NoRecord}]
        <3>1. job[a].sig \in Signature
            BY <2>4 DEF KnowledgeTypes, Handler, Reading
        <3>2. files[id] \in Record
            BY <2>4 DEF KnowledgeTypes, Exists
        <3>3. QED
            BY <2>4, <3>1, <3>2
    <2>5. QED
        BY <2>1, <2>2, <2>3, <2>4 DEF CacheMoves
<1>2. cache' \in [RecordIds -> [sig : Signature, record : Record \cup {NoRecord}]]
    BY <1>1
<1>3. QED
    BY <1>2 DEF KnowledgeTypes, Orderly

-----------------------------------------------------------------------------
\* A step that leaves the files alone keeps the invariant, once it is orderly
\* and every handler keeps what it relies on.
LEMMA QuietStep ==
    ASSUME KnowledgeInv, Orderly, kind' = kind, files' = files, tmp' = tmp,
           acked' = acked \/ (kind # "general" /\ acked' \subseteq Answers),
           kLock' \in Actors \cup {Free}, UNCHANGED <<tick, lastTick, blurred>>,
           \A id \in RecordIds : CacheMoves(id), DOMAIN cache' = RecordIds, cache' = [id \in RecordIds |-> cache'[id]],
           kind = "general" => \A b \in Actors : Relies(b)'
    PROVE  KnowledgeInv'
<1>1. KnowledgeTypes'
    BY TypesStay DEF KnowledgeInv
<1>2. Versions'
    BY VersionsStay DEF KnowledgeInv
<1>3. LockGuards'
    BY GuardedStays DEF KnowledgeInv
<1>4. QED
    BY <1>1, <1>2, <1>3 DEF KnowledgeInv

LEMMA CacheStays ==
    ASSUME KnowledgeTypes, cache' = cache
    PROVE  (\A id \in RecordIds : CacheMoves(id)) /\ DOMAIN cache' = RecordIds /\ cache' = [id \in RecordIds |-> cache'[id]]
BY DEF KnowledgeTypes, CacheMoves

\* The end of a handler without a change of the files.
LEMMA EndKeeps ==
    ASSUME KnowledgeInv, kind' = kind, files' = files, tmp' = tmp, UNCHANGED <<tick, lastTick, blurred>>,
           acked' = acked \/ (kind # "general" /\ acked' \subseteq Answers),
           \A id \in RecordIds : CacheMoves(id), DOMAIN cache' = RecordIds, cache' = [id \in RecordIds |-> cache'[id]],
           NEW a \in Actors, Changes(a), Ended(a)
    PROVE  KnowledgeInv'
<1>1. Orderly
    BY EndIsOrderly DEF KnowledgeInv, Versions
<1>2. kLock' \in Actors \cup {Free}
    BY DEF Ended, KnowledgeInv, KnowledgeTypes
<1>3. ASSUME kind = "general", NEW b \in Actors PROVE Relies(b)'
    <2>1. CASE b = a
        <3>1. CASE job'[a] = Idle
            <4>1. Pc(a)' = "idle"
                BY <3>1 DEF Pc, Idle
            <4>2. QED
                BY <2>1, <4>1 DEF Relies, Changes
        <3>2. CASE Begun(job'[a], edits') /\ edits' = edits + 1
            <4>1. Pc(a)' = "lock"
                BY <1>3, <3>2, BegunMeans DEF KnowledgeInv
            <4>2. QED
                BY <2>1, <4>1 DEF Relies
        <3>3. QED
            BY <3>1, <3>2 DEF Ended
    <2>2. CASE b # a
        <3>1. job'[b] = job[b] /\ (kLock = b => kLock' = b)
            BY <2>2 DEF Ended
        <3>2. Relies(b)
            BY <1>3 DEF KnowledgeInv, LockGuards
        <3>3. QED
            BY <3>1, <3>2, ReliesStays
    <2>3. QED
        BY <2>1, <2>2
<1>4. QED
    BY <1>1, <1>2, <1>3, QuietStep

\* A request begins a change.
LEMMA BeginKeeps ==
    ASSUME KnowledgeInv, NEW a \in Actors, job[a] = Idle, edits' = edits + 1,
           NEW j, Begun(j, edits + 1), job' = [job EXCEPT ![a] = j],
           UNCHANGED <<kind, files, tmp, history, cache, kLock, tick, lastTick, blurred, acked>>
    PROVE  KnowledgeInv'
<1>1. KnowledgeTypes /\ OwnEdits /\ DOMAIN job = Actors /\ edits \in Nat
    BY DEF KnowledgeInv, Versions, KnowledgeTypes
<1>2. DOMAIN job' = Actors /\ job'[a] = j /\ \A b \in Actors \ {a} : job'[b] = job[b]
    BY <1>1
<1>3. Begun(job'[a], edits')
    BY <1>2
<1>4. /\ Handler(a)' /\ job'[a].edit > edits
      /\ Pc(a)' \in {"lock", "newId", "get", "exists"} /\ (kind = "general" => Pc(a)' = "lock")
    BY <1>1, <1>3, BegunMeans
<1>5. Orderly
    BY <1>1, <1>2, <1>4, OneMoves
<1>6. ASSUME kind = "general", NEW b \in Actors PROVE Relies(b)'
    <2>1. CASE b = a
        BY <1>4, <1>6, <2>1 DEF Relies
    <2>2. CASE b # a
        BY <1>2, <1>6, <2>2, ReliesStays DEF KnowledgeInv, LockGuards
    <2>3. QED
        BY <2>1, <2>2
<1>7. kLock' \in Actors \cup {Free}
    BY <1>1 DEF KnowledgeTypes
<1>8. QED
    BY <1>1, <1>5, <1>6, <1>7, CacheStays, QuietStep

LEMMA RequestKeeps ==
    ASSUME KnowledgeInv, NEW a \in Actors, NEW op \in Ops, NEW names \in SUBSET Name, NEW id \in RecordIds \cup {0},
           op # "create" => id \in RecordIds, Request(a, op, names, id)
    PROVE  KnowledgeInv'
<1> DEFINE j == Start(op, names, id, edits + 1, <<>>)
<1>1. edits \in Nat /\ kind \in Kinds
    BY DEF KnowledgeInv, KnowledgeTypes
<1>2. Steps(op) \in Seq(Operations)
    BY <1>1, WholeToDo
<1>3. Begun(j, edits + 1)
    BY <1>1, <1>2 DEF Start, Begun, Change
<1> HIDE DEF j
<1>4. job[a] = Idle /\ edits' = edits + 1 /\ job' = [job EXCEPT ![a] = j]
      /\ UNCHANGED <<kind, files, tmp, history, cache, kLock, tick, lastTick, blurred, acked>>
    BY DEF Request, j
<1>5. QED
    BY <1>3, <1>4, BeginKeeps

LEMMA ChangesKeep ==
    ASSUME KnowledgeInv, TermRoutes \/ DanceRoutes \/ GeneralRoutes \/ SaveDraft
    PROVE  KnowledgeInv'
<1>1. ASSUME NEW k, OwnerChanges(k) PROVE KnowledgeInv'
    <2>1. PICK op \in {"create", "update", "delete"}, n \in Name, id \in RecordIds :
              Request("loop", op, {n}, IF op = "create" THEN 0 ELSE id)
        BY <1>1 DEF OwnerChanges
    <2>2. op \in Ops /\ {n} \in SUBSET Name /\ "loop" \in Actors
        BY DEF Ops, Actors
    <2>3. CASE op = "create"
        BY <2>1, <2>2, <2>3, RequestKeeps
    <2>4. CASE op # "create"
        BY <2>1, <2>2, <2>4, RequestKeeps
    <2>5. QED
        BY <2>3, <2>4
<1>2. ASSUME SaveDraft PROVE KnowledgeInv'
    <2>1. PICK n \in Name, id \in RecordIds : \/ Request("worker", "create", {n}, 0)
                                              \/ Request("worker", "update", {n}, id)
        BY <1>2 DEF SaveDraft
    <2>2. {n} \in SUBSET Name /\ "worker" \in Actors /\ "create" \in Ops /\ "update" \in Ops
        BY DEF Ops, Actors
    <2>3. QED
        BY <2>1, <2>2, RequestKeeps
<1>3. QED
    BY <1>1, <1>2 DEF TermRoutes, DanceRoutes, GeneralRoutes

\* The rows of an import are creations, and updates of records that exist.
LEMMA RowsAreChanges ==
    ASSUME KnowledgeTypes, NEW n \in Nat, NEW rows \in [1..n -> ParsedRows], NEW chosen
    PROVE  RowOps(rows, chosen) \in Seq(Row)
<1> DEFINE status == Preview(rows)
           ops == RowOps(rows, chosen)
<1>1. \A i \in 1..n : rows[i].names \in SUBSET Name /\ rows[i].id \in RecordIds \cup {0}
    BY DEF ParsedRows, GeneralRows, TermRows, DanceRows, RowNames
<1>2. ASSUME NEW i \in 1..n, status[i] = "existing_match", rows[i].id = 0 PROVE Matches(rows[i]) # {}
    <2>1. ByNames(rows[i]) = "existing_match"
        BY <1>2 DEF Preview, GeneralPreview, DancePreview, TermPreview
    <2>2. Cardinality(Matches(rows[i])) = 1
        BY <2>1 DEF ByNames
    <2>3. QED
        BY <2>2, FS_EmptySet
<1>3. ASSUME NEW i \in 1..n, Matches(rows[i]) # {} PROVE (CHOOSE id \in Matches(rows[i]) : TRUE) \in RecordIds
    BY <1>3 DEF Matches, Listed
<1> DEFINE new(i) == [op |-> "create", names |-> rows[i].names, id |-> rows[i].id]
           old(i) == [op |-> "update", names |-> rows[i].names,
                      id |-> IF rows[i].id # 0 THEN rows[i].id ELSE CHOOSE id \in Matches(rows[i]) : TRUE]
           none == [op |-> "skip", names |-> {}, id |-> 0]
           row(i) == CASE status[i] = "valid" -> new(i)
                       [] status[i] = "existing_match" /\ i \in chosen -> old(i)
                       [] OTHER -> none
<1>4. ASSUME NEW i \in 1..n PROVE row(i) \in Row
    <2>1. new(i) \in Row
        BY <1>1 DEF Row
    <2>2. none \in Row
        BY DEF Row
    <2>3. status[i] = "existing_match" => old(i) \in Row
        BY <1>1, <1>2, <1>3 DEF Row
    <2> HIDE DEF status, new, old, none
    <2>4. row(i) = new(i) \/ row(i) = none \/ (row(i) = old(i) /\ status[i] = "existing_match")
        OBVIOUS
    <2>5. QED
        BY <2>1, <2>2, <2>3, <2>4
<1>5. ops = [i \in 1..n |-> row(i)]
    BY DEF RowOps
<1> HIDE DEF ops, row, status
<1>6. ops \in [1..n -> Row]
    BY <1>4, <1>5
<1>7. QED
    BY <1>6 DEF ops

LEMMA CommitKeeps ==
    ASSUME KnowledgeInv, Commit
    PROVE  KnowledgeInv'
<1>1. PICK rows \in ImportFiles : \E chosen \in SUBSET DOMAIN rows :
          /\ ToDo(RowOps(rows, chosen)) # {}
          /\ edits' = edits + 1
          /\ job' = [job EXCEPT !["loop"] = StartRow(RowOps(rows, chosen), edits + 1)]
    BY DEF Commit
<1>2. PICK chosen \in SUBSET DOMAIN rows :
          /\ ToDo(RowOps(rows, chosen)) # {}
          /\ edits' = edits + 1
          /\ job' = [job EXCEPT !["loop"] = StartRow(RowOps(rows, chosen), edits + 1)]
    BY <1>1
<1>3. PICK n \in 1..MaxRows : rows \in [1..n -> ParsedRows]
    BY DEF ImportFiles
<1>4. n \in Nat
    BY <1>3, KnowledgeAssumption
<1>5. RowOps(rows, chosen) \in Seq(Row)
    BY <1>3, <1>4, RowsAreChanges DEF KnowledgeInv
<1>6. kind \in Kinds /\ edits + 1 \in Nat
    BY DEF KnowledgeInv, KnowledgeTypes
<1>7. Begun(StartRow(RowOps(rows, chosen), edits + 1), edits + 1)
    BY <1>2, <1>5, <1>6, BeginsRow
<1>8. job["loop"] = Idle /\ "loop" \in Actors /\ UNCHANGED <<kind, files, tmp, history, cache, kLock, tick, lastTick, blurred, acked>>
    BY DEF Commit, Actors
<1>9. QED
    BY <1>2, <1>7, <1>8, BeginKeeps

-----------------------------------------------------------------------------
\* A handler that goes on without a change of the files keeps the invariant,
\* when it may rely on what it then relies on.
LEMMA GoKeeps ==
    ASSUME KnowledgeInv, kind' = kind, files' = files, tmp' = tmp, acked' = acked, edits' = edits, UNCHANGED <<tick, lastTick, blurred>>,
           \A id \in RecordIds : CacheMoves(id), DOMAIN cache' = RecordIds, cache' = [id \in RecordIds |-> cache'[id]],
           NEW a \in Actors, Changes(a), NEW j, GoesOn(a, j), j.op = job[a].op, j.edit = job[a].edit,
           kLock' = kLock \/ (kLock = Free /\ kLock' = a), kind = "general" => Relies(a)'
    PROVE  KnowledgeInv'
<1>1. Orderly
    BY GoIsOrderly DEF KnowledgeInv, Versions
<1>2. kLock' \in Actors \cup {Free}
    BY DEF KnowledgeInv, KnowledgeTypes
<1>3. ASSUME kind = "general", NEW b \in Actors PROVE Relies(b)'
    <2>1. CASE b = a
        BY <1>3, <2>1
    <2>2. CASE b # a
        <3>1. job'[b] = job[b] /\ (kLock = b => kLock' = b)
            BY <2>2 DEF GoesOn, Free, Actors
        <3>2. QED
            BY <1>3, <3>1, ReliesStays DEF KnowledgeInv, LockGuards
    <2>3. QED
        BY <2>1, <2>2
<1>4. QED
    BY <1>1, <1>2, <1>3, QuietStep

LEMMA LockKeeps == ASSUME KnowledgeInv, NEW a \in Actors, Lock(a) PROVE KnowledgeInv'
<1>1. KnowledgeTypes /\ "lock" \in Operations
    BY DEF KnowledgeInv, Operations
<1>2. Doing(a, "lock") /\ kLock = Free /\ kLock' = a /\ Go(a, job[a])
      /\ UNCHANGED <<kind, files, tmp, history, cache, tick, lastTick, blurred, edits, acked>>
    BY DEF Lock
<1>3. /\ Pc(a) = "lock" /\ Changes(a) /\ job[a] \in Change /\ job[a].op \in Ops
      /\ Len(job[a].todo) = 1 <=> "lock" \in LastSteps
    BY <1>1, <1>2, DoingMeans
<1>4. job[a].op = "create" => job[a].read = NoRecord
    BY <1>1, <1>3 DEF KnowledgeTypes, Handler
<1>5. "lock" \notin LastSteps
    BY DEF LastSteps
<1>6. GoesOn(a, job[a])
    BY <1>1, <1>2, <1>3, <1>4, <1>5, GoMeans
<1>7. Pc(a)' \notin {"lock", "rename", "backup", "write"} \/ job[a].op = "delete"
    BY <1>3, <1>6 DEF GoesOn, After
<1>8. (job[a].op = "create" => Pc(a)' = "newId") /\ (job[a].op = "update" => Pc(a)' = "get") /\ Pc(a)' # "rename"
    BY <1>3, <1>6 DEF GoesOn, After
<1>9. Relies(a)'
    BY <1>2, <1>3, <1>6, <1>7, <1>8 DEF Relies, GoesOn
<1>10. QED
    BY <1>1, <1>2, <1>3, <1>6, <1>9, CacheStays, GoKeeps

LEMMA NewIdKeeps == ASSUME KnowledgeInv, NEW a \in Actors, NewId(a) PROVE KnowledgeInv'
<1>1. KnowledgeTypes /\ "newId" \in Operations
    BY DEF KnowledgeInv, Operations
<1>2. Doing(a, "newId") /\ UNCHANGED <<kind, files, tmp, history, cache, tick, lastTick, blurred, acked>>
    BY DEF NewId
<1>3. /\ Pc(a) = "newId" /\ Changes(a) /\ job[a] \in Change /\ job[a].op = "create" /\ job[a].id \in RecordIds \cup {0}
      /\ Belongs(job[a].op, "newId") /\ (Len(job[a].todo) = 1 <=> "newId" \in LastSteps)
    BY <1>1, <1>2, DoingMeans DEF Belongs, Change
<1>4. CASE FreeIds = {} \/ job[a].id \in Listed
    <2>1. Ended(a)
        BY <1>1, <1>3, <1>4, EndMeans DEF NewId
    <2>2. QED
        BY <1>1, <1>2, <1>3, <2>1, CacheStays, EndKeeps
<1>5. CASE ~(FreeIds = {} \/ job[a].id \in Listed)
    <2> DEFINE id == IF job[a].id = 0 THEN Min(FreeIds) ELSE job[a].id
               j == [job[a] EXCEPT !.id = id]
    <2>1. FreeIds \subseteq Nat
        BY IdsAreNumbers DEF FreeIds
    <2>2. id \in RecordIds /\ ~Exists(id)
        BY <1>3, <1>5, <2>1, SmallestIsIn DEF FreeIds, Listed
    <2>3. Go(a, [job[a] EXCEPT !.id = IF @ = 0 THEN Min(FreeIds) ELSE @]) /\ UNCHANGED <<kLock, edits>>
        BY <1>5 DEF NewId
    <2>4. Go(a, j)
        BY <1>3, <2>3 DEF Change
    <2> HIDE DEF id
    <2>5. j \in Change /\ j.id = id /\ j.todo = job[a].todo /\ j.op = job[a].op /\ j.edit = job[a].edit
          /\ j.read = job[a].read /\ j.names = job[a].names
        BY <1>3, <2>2 DEF Change
    <2>6. job[a].read = NoRecord
        BY <1>1, <1>3 DEF KnowledgeTypes, Handler
    <2>7. "newId" \notin LastSteps
        BY DEF LastSteps
    <2> HIDE DEF j
    <2>8. GoesOn(a, j)
        BY <1>1, <1>2, <1>3, <2>2, <2>3, <2>4, <2>5, <2>6, <2>7, GoMeans
    <2>9. Pc(a)' \notin {"lock", "newId", "rename", "backup", "write"}
        BY <1>3, <2>5, <2>8 DEF GoesOn, After
    <2>10. kind = "general" => Relies(a)'
        <3>1. kind = "general" => kLock = a
            BY <1>3 DEF KnowledgeInv, LockGuards, Relies
        <3>2. files'[id] = NoRecord
            BY <1>2, <2>2 DEF Exists
        <3>3. job'[a].id = id /\ job'[a].op = "create"
            BY <1>3, <2>5, <2>8 DEF GoesOn
        <3>4. QED
            BY <2>3, <2>9, <3>1, <3>2, <3>3 DEF Relies, Exists
    <2>11. QED
        BY <1>1, <1>2, <1>3, <2>3, <2>5, <2>8, <2>10, CacheStays, GoKeeps
<1>6. QED
    BY <1>4, <1>5

LEMMA GetKeeps == ASSUME KnowledgeInv, NEW a \in Actors, Get(a) PROVE KnowledgeInv'
<1>1. KnowledgeTypes
    BY DEF KnowledgeInv
<1>2. PICK step \in {"get", "exists"} : Doing(a, step)
    BY DEF Get
<1>3. UNCHANGED <<kind, files, tmp, history, cache, tick, lastTick, blurred, acked>>
    BY DEF Get
<1>4. /\ Pc(a) = step /\ Changes(a) /\ job[a] \in Change /\ job[a].op \in {"update", "delete"}
      /\ Belongs(job[a].op, step) /\ (Len(job[a].todo) = 1 <=> step \in LastSteps) /\ job[a].id \in RecordIds
    BY <1>1, <1>2, DoingMeans DEF Belongs, Operations, Ops
<1>5. CASE ~Exists(job[a].id)
    <2>1. Ended(a)
        BY <1>1, <1>4, <1>5, EndMeans DEF Get
    <2>2. QED
        BY <1>1, <1>3, <1>4, <2>1, CacheStays, EndKeeps
<1>6. CASE Exists(job[a].id)
    <2> DEFINE j == [job[a] EXCEPT !.read = files[job[a].id]]
    <2>1. Go(a, j) /\ UNCHANGED <<kLock, edits>>
        BY <1>6 DEF Get
    <2>2. files[job[a].id] \in Record
        BY <1>1, <1>4, <1>6 DEF KnowledgeTypes, Exists
    <2>3. j \in Change /\ j.id = job[a].id /\ j.todo = job[a].todo /\ j.op = job[a].op /\ j.edit = job[a].edit
          /\ j.read = files[job[a].id] /\ j.names = job[a].names
        BY <1>4, <2>2 DEF Change
    <2>4. step \notin LastSteps
        BY <1>2 DEF LastSteps
    <2> HIDE DEF j
    <2>5. GoesOn(a, j)
        BY <1>1, <1>3, <1>4, <2>1, <2>3, <2>4, GoMeans
    <2>6. (job[a].op # "delete" => Pc(a)' \notin {"backup", "write"}) /\ Pc(a)' \notin {"lock", "newId", "get", "rename"}
        BY <1>4, <1>2, <2>3, <2>5 DEF GoesOn, After
    <2>7. kind = "general" => Relies(a)'
        <3>1. kind = "general" => kLock = a
            BY <1>2, <1>4 DEF KnowledgeInv, LockGuards, Relies
        <3>2. /\ job'[a].op = job[a].op /\ job'[a].id = job[a].id
              /\ job'[a].read = files'[job'[a].id] /\ files'[job'[a].id] # NoRecord
            BY <1>3, <1>6, <2>3, <2>5 DEF GoesOn, Exists
        <3>3. QED
            BY <1>4, <2>1, <2>6, <3>1, <3>2 DEF Relies, Exists
    <2>8. QED
        BY <1>1, <1>3, <1>4, <2>1, <2>3, <2>5, <2>7, CacheStays, GoKeeps
<1>7. QED
    BY <1>5, <1>6

LEMMA ConflictsKeeps == ASSUME KnowledgeInv, NEW a \in Actors, Conflicts(a) PROVE KnowledgeInv'
<1>1. KnowledgeTypes /\ "conflicts" \in Operations
    BY DEF KnowledgeInv, Operations
<1>2. Doing(a, "conflicts") /\ cache' = ListedCache /\ UNCHANGED <<kind, files, tmp, history, tick, lastTick, blurred, acked>>
    BY DEF Conflicts
<1>3. /\ Pc(a) = "conflicts" /\ Changes(a) /\ job[a] \in Change /\ job[a].op \in {"create", "update"} /\ job[a].id \in RecordIds
      /\ Belongs(job[a].op, "conflicts") /\ (Len(job[a].todo) = 1 <=> "conflicts" \in LastSteps)
    BY <1>1, <1>2, DoingMeans DEF Belongs, Ops
<1>4. \A id \in Listed \ blurred : Served(id) = files[id]
    BY DEF KnowledgeInv, Versions, FreshIsSaved, Served
<1>5. \A id \in RecordIds : CacheMoves(id)
    <2>1. ASSUME NEW id \in RecordIds, Exists(id) PROVE CacheMoves(id)
        <3>1. cache'[id] = [sig |-> Sig(files[id]), record |-> Served(id)]
            BY <1>2, <2>1 DEF ListedCache
        <3>2. CASE Fresh(id)
            <4>1. cache[id] = [sig |-> Sig(files[id]), record |-> Served(id)]
                BY <1>1, <3>2 DEF Fresh, Served, KnowledgeTypes
            <4>2. QED
                BY <3>1, <4>1 DEF CacheMoves
        <3>3. CASE ~Fresh(id)
            BY <2>1, <3>1, <3>3 DEF CacheMoves, Served
        <3>4. QED
            BY <3>2, <3>3
    <2>2. ASSUME NEW id \in RecordIds, ~Exists(id) PROVE cache'[id] = [sig |-> <<>>, record |-> NoRecord]
        BY <1>2, <2>2 DEF ListedCache
    <2>3. QED
        BY <2>1, <2>2 DEF CacheMoves
<1>6. DOMAIN cache' = RecordIds /\ cache' = [id \in RecordIds |-> cache'[id]]
    BY <1>2 DEF ListedCache
<1>7. CASE \E id \in Listed \ {job[a].id} : Served(id).names \cap job[a].names # {}
    <2>1. Ended(a)
        BY <1>1, <1>3, <1>7, EndMeans DEF Conflicts
    <2>2. QED
        BY <1>1, <1>2, <1>3, <1>5, <1>6, <2>1, EndKeeps
<1>8. CASE ~(\E id \in Listed \ {job[a].id} : Served(id).names \cap job[a].names # {})
    <2>1. Go(a, job[a]) /\ UNCHANGED <<kLock, edits>>
        BY <1>8 DEF Conflicts
    <2>2. job[a].op = "create" => job[a].read = NoRecord
        BY <1>1, <1>3 DEF KnowledgeTypes, Handler
    <2>3. "conflicts" \notin LastSteps
        BY DEF LastSteps
    <2>4. GoesOn(a, job[a])
        BY <1>1, <1>2, <1>3, <2>1, <2>2, <2>3, GoMeans
    <2>5. Pc(a)' # "rename"
        BY <1>3, <2>4 DEF GoesOn, After
    <2>6. kind = "general" => Relies(a)'
        <3>1. kind = "general" =>
                  /\ kLock = a
                  /\ job[a].op = "create" => ~Exists(job[a].id)
                  /\ job[a].op = "update" => Exists(job[a].id) /\ job[a].read = files[job[a].id]
            BY <1>3 DEF KnowledgeInv, LockGuards, Relies
        <3>2. \A k \in Listed \ {job[a].id} : k \in blurred \/ files[k].names \cap job[a].names = {}
            BY <1>4, <1>8
        <3>3. Listed' = Listed
            BY <1>2 DEF Listed, Exists
        <3>4. job'[a].id = job[a].id /\ job'[a].op = job[a].op /\ job'[a].read = job[a].read /\ job'[a].names = job[a].names
            BY <2>4 DEF GoesOn
        <3>5. QED
            BY <1>2, <1>3, <2>1, <2>5, <3>1, <3>2, <3>3, <3>4 DEF Relies, Exists
    <2>7. QED
        BY <1>1, <1>2, <1>3, <1>5, <1>6, <2>1, <2>4, <2>6, GoKeeps
<1>9. QED
    BY <1>7, <1>8

LEMMA BackupKeeps == ASSUME KnowledgeInv, NEW a \in Actors, Backup(a) PROVE KnowledgeInv'
<1>1. KnowledgeTypes /\ "backup" \in Operations
    BY DEF KnowledgeInv, Operations
<1>2. Doing(a, "backup") /\ Go(a, job[a]) /\ UNCHANGED <<kind, files, tmp, cache, kLock, tick, lastTick, blurred, edits, acked>>
    BY DEF Backup
<1>3. /\ Pc(a) = "backup" /\ Changes(a) /\ job[a] \in Change /\ job[a].id \in RecordIds
      /\ (Len(job[a].todo) = 1 <=> "backup" \in LastSteps)
    BY <1>1, <1>2, DoingMeans
<1>4. job[a].op = "create" => job[a].read = NoRecord
    BY <1>1, <1>3 DEF KnowledgeTypes, Handler
<1>5. "backup" \notin LastSteps
    BY DEF LastSteps
<1>6. GoesOn(a, job[a])
    BY <1>1, <1>2, <1>3, <1>4, <1>5, GoMeans
<1>7. Pc(a)' \notin {"rename", "get", "newId"}
    BY <1>3, <1>6 DEF GoesOn, After
<1>8. kind = "general" => Relies(a)'
    <2>1. kind = "general" =>
              /\ kLock = a
              /\ job[a].op = "create" => ~Exists(job[a].id)
              /\ job[a].op = "update" => Exists(job[a].id) /\ job[a].read = files[job[a].id]
              /\ job[a].op # "delete" => \A k \in Listed \ {job[a].id} : k \in blurred \/ files[k].names \cap job[a].names = {}
        BY <1>3 DEF KnowledgeInv, LockGuards, Relies
    <2>2. Listed' = Listed
        BY <1>2 DEF Listed, Exists
    <2>3. job'[a].id = job[a].id /\ job'[a].op = job[a].op /\ job'[a].read = job[a].read /\ job'[a].names = job[a].names
        BY <1>6 DEF GoesOn
    <2>4. QED
        BY <1>2, <1>7, <2>1, <2>2, <2>3 DEF Relies, Exists
<1>9. QED
    BY <1>1, <1>2, <1>3, <1>6, <1>8, CacheStays, GoKeeps

\* Only the terminology and the dance store drop a cached record; it is their last operation.
LEMMA DropKeeps == ASSUME KnowledgeInv, NEW a \in Actors, Drop(a) PROVE KnowledgeInv'
<1>1. KnowledgeTypes /\ "drop" \in Operations
    BY DEF KnowledgeInv, Operations
<1>2. Doing(a, "drop") /\ UNCHANGED <<kind, files, tmp, history, tick, lastTick, blurred>>
      /\ cache' = [cache EXCEPT ![job[a].id] = [sig |-> <<>>, record |-> NoRecord]] /\ Finish(a)
    BY DEF Drop
<1>3. /\ Pc(a) = "drop" /\ Changes(a) /\ job[a] \in Change /\ job[a].op \in Ops /\ job[a].id \in RecordIds
      /\ Belongs(job[a].op, "drop") /\ (Len(job[a].todo) = 1 <=> "drop" \in LastSteps)
    BY <1>1, <1>2, DoingMeans
<1>4. kind # "general" /\ LastStep(a)
    BY <1>3 DEF Belongs, LastSteps, LastStep
<1>5. acked' = acked \cup {[edit |-> job[a].edit, op |-> job[a].op, id |-> job[a].id]} /\ End(a)
    BY <1>2, <1>4 DEF Finish, Ack
<1>6. acked' \subseteq Answers
    BY <1>1, <1>3, <1>5 DEF KnowledgeTypes, Answers, Change
<1>7. Ended(a)
    BY <1>1, <1>3, <1>5, EndMeans
<1>8. (\A id \in RecordIds : CacheMoves(id)) /\ DOMAIN cache' = RecordIds /\ cache' = [id \in RecordIds |-> cache'[id]]
    BY <1>1, <1>2, <1>3 DEF KnowledgeTypes, CacheMoves
<1>9. QED
    BY <1>2, <1>3, <1>4, <1>6, <1>7, <1>8, EndKeeps

-----------------------------------------------------------------------------
\* The second half of a look-up: what it read is entered with the signature
\* it saw before.
LEMMA ReadKeeps == ASSUME KnowledgeInv, ReadFile PROVE KnowledgeInv'
<1>1. KnowledgeTypes /\ OwnEdits /\ "worker" \in Actors
    BY DEF KnowledgeInv, Versions, Actors
<1>2. Doing("worker", "read") /\ UNCHANGED <<kind, files, tmp, history, kLock, tick, lastTick, blurred, edits, acked>>
      /\ job' = [job EXCEPT !["worker"] = Idle]
    BY DEF ReadFile
<1>3. Pc("worker") = "read" /\ job["worker"] \in Reading
    BY <1>1, <1>2 DEF Doing, Pc, KnowledgeTypes, Handler
<1>4. DOMAIN job' = Actors /\ job'["worker"] = Idle /\ \A b \in Actors \ {"worker"} : job'[b] = job[b]
    BY <1>1, <1>2 DEF KnowledgeTypes
<1>5. Pc("worker")' = "idle"
    BY <1>4 DEF Pc, Idle
<1>6. Handler("worker")' /\ ~Changes("worker")'
    BY <1>4, <1>5 DEF Handler, Changes
<1>7. edits \in Nat /\ edits' \in Nat /\ edits <= edits'
    BY <1>1, <1>2 DEF KnowledgeTypes
<1>8. Orderly
    BY <1>1, <1>2, <1>4, <1>5, <1>6, <1>7, OneMoves
<1>9. cache' = IF Exists(job["worker"].id)
               THEN [cache EXCEPT ![job["worker"].id] = [sig |-> job["worker"].sig, record |-> files[job["worker"].id]]]
               ELSE cache
    BY DEF ReadFile
<1>10. (\A id \in RecordIds : CacheMoves(id)) /\ DOMAIN cache' = RecordIds /\ cache' = [id \in RecordIds |-> cache'[id]]
    BY <1>1, <1>3, <1>9 DEF KnowledgeTypes, CacheMoves, Reading
<1>11. ASSUME kind = "general", NEW b \in Actors PROVE Relies(b)'
    <2>1. CASE b = "worker"
        BY <1>6, <2>1 DEF Relies
    <2>2. CASE b # "worker"
        BY <1>2, <1>4, <1>11, <2>2, ReliesStays DEF KnowledgeInv, LockGuards
    <2>3. QED
        BY <2>1, <2>2
<1>12. kLock' \in Actors \cup {Free}
    BY <1>1, <1>2 DEF KnowledgeTypes
<1>13. QED
    BY <1>2, <1>7, <1>8, <1>10, <1>11, <1>12, QuietStep

LEMMA RestartKeeps == ASSUME KnowledgeInv, Restart PROVE KnowledgeInv'
<1>1. KnowledgeTypes
    BY DEF KnowledgeInv
<1>2. /\ job' = [a \in Actors |-> Idle] /\ kLock' = Free
      /\ cache' = [id \in RecordIds |-> [sig |-> <<>>, record |-> NoRecord]]
      /\ UNCHANGED <<kind, files, tmp, history, tick, lastTick, blurred, edits, acked>>
    BY DEF Restart
<1>3. \A a \in Actors : Pc(a)' = "idle" /\ job'[a] = Idle
    BY <1>2 DEF Pc, Idle
<1>4. \A a \in Actors : Handler(a)' /\ ~Changes(a)'
    BY <1>3 DEF Handler, Changes
<1>5. edits \in Nat
    BY <1>1 DEF KnowledgeTypes
<1>6. OwnEdits'
    BY <1>4 DEF OwnEdits
<1>7. Orderly
    BY <1>2, <1>3, <1>4, <1>5, <1>6 DEF Orderly
<1>8. (\A id \in RecordIds : CacheMoves(id)) /\ DOMAIN cache' = RecordIds /\ cache' = [id \in RecordIds |-> cache'[id]]
    BY <1>2 DEF CacheMoves
<1>9. \A a \in Actors : Relies(a)'
    BY <1>4 DEF Relies
<1>10. QED
    BY <1>2, <1>5, <1>7, <1>8, <1>9, QuietStep

\* The first half of a look-up sees the signature of the file.
LEMMA StatKeeps == ASSUME KnowledgeInv, NEW id \in RecordIds, Stat(id) PROVE KnowledgeInv'
<1>1. KnowledgeTypes /\ Versions /\ LockGuards /\ "worker" \in Actors
    BY DEF KnowledgeInv, Actors
<1>2. /\ job["worker"] = Idle /\ Exists(id)
      /\ job' = [job EXCEPT !["worker"] = [todo |-> <<"read">>, rows |-> <<>>, id |-> id, sig |-> Sig(files[id])]]
      /\ UNCHANGED <<kind, files, tmp, history, cache, kLock, tick, lastTick, blurred, edits, acked>>
    BY DEF Stat
<1>3. DOMAIN job' = Actors /\ (\A b \in Actors \ {"worker"} : job'[b] = job[b])
      /\ job'["worker"] = [todo |-> <<"read">>, rows |-> <<>>, id |-> id, sig |-> Sig(files[id])]
    BY <1>1, <1>2 DEF KnowledgeTypes
<1>4. Sig(files[id]) \in Nat \X Nat
    <2>1. files[id] \in Record
        BY <1>1, <1>2 DEF KnowledgeTypes, Exists
    <2>2. QED
        BY <2>1, Signatures
<1>5. Pc("worker")' = "read" /\ ~Changes("worker")'
    BY <1>3 DEF Pc, Changes
<1>6. job'["worker"] \in Reading
    BY <1>3, <1>4 DEF Reading, Signature
<1>7. edits \in Nat /\ edits' \in Nat /\ edits <= edits'
    BY <1>1, <1>2 DEF KnowledgeTypes
<1>8. \A b \in Actors \ {"worker"} : Handler(b)' /\ Pc(b)' = Pc(b) /\ (Changes(b)' <=> Changes(b)) /\ (Writing(b)' <=> Writing(b))
    BY <1>1, <1>2, <1>3, <1>7, OthersStay
<1>9. Handler("worker")'
    BY <1>5, <1>6 DEF Handler
<1>10. KnowledgeTypes'
    BY <1>1, <1>2, <1>3, <1>8, <1>9 DEF KnowledgeTypes
<1>11. ~Writing("worker")'
    BY <1>5 DEF Writing
<1>12. ASSUME NEW k \in RecordIds, NEW s \in Nat \X Nat, Coming(k, s)' PROVE Coming(k, s)
    BY <1>2, <1>3, <1>8, <1>11, <1>12 DEF Coming
<1>13. ASSUME NEW k \in RecordIds, NEW s, Unseen(k, s) PROVE Unseen(k, s)'
    <2>1. Exists(k)' => (Sig(files[k]))' # s
        BY <1>2, <1>13 DEF Unseen, Exists, Sig, GeneralSig, TermSig, DanceSig
    <2>2. ASSUME NEW b \in Actors, Pc(b)' = "read", job'[b].id = k PROVE job'[b].sig # s
        <3>1. CASE b = "worker"
            BY <1>2, <1>3, <1>13, <2>2, <3>1 DEF Unseen
        <3>2. CASE b # "worker"
            BY <1>3, <1>8, <1>13, <2>2, <3>2 DEF Unseen
        <3>3. QED
            BY <3>1, <3>2
    <2>3. cache'[k].sig # s
        BY <1>2, <1>13 DEF Unseen
    <2>4. QED
        BY <2>1, <2>2, <2>3 DEF Unseen
<1>14. NewSignatures'
    <2>1. ASSUME NEW k \in RecordIds, NEW s \in Nat \X Nat, Coming(k, s)'
          PROVE  Unseen(k, s)' /\ (tmp'[k] # NoRecord => (Sig(tmp[k]))' # s)
        <3>1. Unseen(k, s) /\ (tmp[k] # NoRecord => Sig(tmp[k]) # s)
            BY <1>1, <1>12, <2>1 DEF Versions, NewSignatures
        <3>2. (Sig(tmp[k]))' = Sig(tmp[k])
            BY <1>2 DEF Sig, GeneralSig, TermSig, DanceSig
        <3>3. QED
            BY <1>2, <1>13, <3>1, <3>2
    <2>2. QED
        BY <2>1 DEF NewSignatures
<1>15. WaitingUnseen'
    <2>1. ASSUME NEW k \in RecordIds \ blurred', tmp'[k] # NoRecord PROVE Unseen(k, Sig(tmp[k]))'
        <3>1. Unseen(k, Sig(tmp[k]))
            BY <1>1, <1>2, <2>1 DEF Versions, WaitingUnseen
        <3>2. (Sig(tmp[k]))' = Sig(tmp[k])
            BY <1>2 DEF Sig, GeneralSig, TermSig, DanceSig
        <3>3. PICK s : s = Sig(tmp[k])
            OBVIOUS
        <3>4. Unseen(k, s)'
            BY <1>13, <3>1, <3>3
        <3>5. QED
            BY <3>2, <3>3, <3>4 DEF Unseen
    <2>2. QED
        BY <2>1 DEF WaitingUnseen
<1>16. FreshIsSaved'
    <2>1. \A k \in RecordIds : CacheMoves(k)
        BY <1>2 DEF CacheMoves
    <2>2. QED
        BY <1>1, <1>2, <2>1, FreshStays DEF Versions
<1>17. OwnEdits'
    BY <1>1, <1>3, <1>5, <1>8 DEF Versions, OwnEdits
<1>18. ASSUME kind = "general", NEW b \in Actors PROVE Relies(b)'
    <2>1. CASE b = "worker"
        BY <1>5, <2>1 DEF Relies
    <2>2. CASE b # "worker"
        BY <1>1, <1>2, <1>3, <1>18, <2>2, ReliesStays DEF LockGuards
    <2>3. QED
        BY <2>1, <2>2
<1>19. LockGuards'
    BY <1>1, <1>2, <1>18, GuardedStays
<1>20. QED
    BY <1>10, <1>14, <1>15, <1>16, <1>17, <1>19 DEF KnowledgeInv, Versions

-----------------------------------------------------------------------------
\* A version that is written is one that nobody has seen; from then on it is
\* not one that comes.
LEMMA WriteKeeps == ASSUME KnowledgeInv, NEW a \in Actors, Write(a) PROVE KnowledgeInv'
<1> DEFINE o == job[a]
           v == NewVersion(a)
<1>1. KnowledgeTypes /\ Versions /\ LockGuards /\ "write" \in Operations
    BY DEF KnowledgeInv, Operations
<1>2. /\ Doing(a, "write") /\ tmp' = [tmp EXCEPT ![job[a].id] = NewVersion(a)]
      /\ lastTick' = [lastTick EXCEPT ![job[a].id] = tick]
      /\ blurred' = blurred \cup {i \in {job[a].id} : kind = "general" /\ lastTick[job[a].id] = tick}
      /\ tick' \in {tick, tick + 1} /\ Go(a, job[a])
      /\ UNCHANGED <<kind, files, history, cache, kLock, edits, acked>>
    BY DEF Write
<1>3. /\ Pc(a) = "write" /\ Changes(a) /\ o \in Change /\ o.op \in {"create", "update"} /\ o.id \in RecordIds
      /\ (Len(o.todo) = 1 <=> "write" \in LastSteps)
    BY <1>1, <1>2, DoingMeans DEF Belongs, Ops
<1>4. (o.op = "create" => o.read = NoRecord) /\ o.edit \in 1..edits /\ edits \in Nat /\ tick \in Nat
    BY <1>1, <1>3 DEF KnowledgeTypes, Handler
<1>5. GoesOn(a, o)
    <2>1. "write" \notin LastSteps
        BY DEF LastSteps
    <2>2. QED
        BY <1>1, <1>2, <1>3, <1>4, <2>1, GoMeans
<1>6. Pc(a)' = "rename"
    BY <1>3, <1>5 DEF GoesOn, After
<1>7. Orderly
    BY <1>1, <1>2, <1>3, <1>5, GoIsOrderly DEF Versions
<1>8. v \in Record /\ v.tick = tick /\ v.inode = o.edit /\ v.names = o.names
      /\ v.edits = {o.edit} \cup (IF o.read = NoRecord THEN {} ELSE o.read.edits)
    <2>1. o.read \in Record \cup {NoRecord} /\ o.names \in SUBSET Name /\ o.edit \in Nat
        BY <1>3 DEF Change
    <2>2. o.read.rev \in Nat /\ (o.read # NoRecord => o.read.edits \in SUBSET Nat)
        BY <2>1 DEF Record, NoRecord
    <2>3. v = [rev |-> o.read.rev + 1, names |-> o.names, tick |-> tick, inode |-> o.edit,
               edits |-> {o.edit} \cup (IF o.read = NoRecord THEN {} ELSE o.read.edits)]
        BY DEF NewVersion
    <2>4. o.read.rev + 1 \in Nat \ {0} /\ {o.edit} \cup (IF o.read = NoRecord THEN {} ELSE o.read.edits) \in SUBSET Nat
        BY <2>1, <2>2
    <2>5. QED
        BY <1>4, <2>1, <2>3, <2>4 DEF Record
<1>9. Sig(v) \in Nat \X Nat /\ v # NoRecord /\ Sig(v)[1] = tick /\ Sig(v)[2] = IF kind = "general" THEN 0 ELSE o.edit
    BY <1>8, Signatures
<1> HIDE DEF v
<1>10. tmp' = [tmp EXCEPT ![o.id] = v]
    BY <1>2 DEF v
<1>11. /\ tick' \in Nat /\ tick <= tick'
       /\ \A k \in RecordIds : /\ lastTick[k] \in Nat /\ lastTick[k] <= tick
                                /\ lastTick'[k] = IF k = o.id THEN tick ELSE lastTick[k]
    BY <1>1, <1>2, <1>4 DEF KnowledgeTypes
<1>a. lastTick' \in [RecordIds -> Nat] /\ \A k \in RecordIds : lastTick'[k] \in Nat /\ lastTick[k] <= lastTick'[k] /\ lastTick'[k] <= tick'
    <2>1. lastTick' \in [RecordIds -> Nat]
        BY <1>1, <1>2, <1>4 DEF KnowledgeTypes
    <2>2. ASSUME NEW k \in RecordIds PROVE lastTick[k] <= lastTick'[k] /\ lastTick'[k] <= tick'
        <3>1. lastTick[k] \in Nat /\ lastTick[k] <= tick /\ (lastTick'[k] = tick \/ lastTick'[k] = lastTick[k])
            BY <1>11
        <3>2. QED
            BY <1>4, <1>11, <3>1
    <2>3. QED
        BY <2>1, <2>2
<1>b. blurred \subseteq blurred' /\ blurred' \subseteq RecordIds /\ (kind # "general" => blurred' = {})
    BY <1>1, <1>2, <1>3 DEF KnowledgeTypes
<1>12. o.id \notin blurred' => Coming(o.id, Sig(v))
    <2>1. Writing(a)
        BY <1>3 DEF Writing
    <2>2. CASE kind = "general" /\ o.id \notin blurred'
        <3>1. lastTick[o.id] # tick
            BY <1>2, <2>2
        <3>2. lastTick[o.id] < tick
            BY <1>3, <1>4, <1>11, <3>1
        <3>3. QED
            BY <1>9, <2>2, <3>2 DEF Coming
    <2>3. CASE kind # "general"
        BY <1>9, <2>1, <2>3 DEF Coming
    <2>4. QED
        BY <2>2, <2>3
<1>13. ASSUME NEW k \in RecordIds, k = o.id, NEW s \in Nat \X Nat, Coming(k, s)' PROVE s # Sig(v)
    <2>1. CASE kind = "general"
        <3>1. lastTick'[k] = tick
            BY <1>11, <1>13
        <3>2. s[1] > lastTick'[k]
            BY <1>2, <1>13, <2>1 DEF Coming
        <3>3. QED
            BY <1>4, <1>9, <3>1, <3>2
    <2>2. CASE kind # "general"
        <3>1. ASSUME NEW b \in Actors, Writing(b)', job'[b].edit = o.edit PROVE FALSE
            <4>1. b = a
                BY <1>5, <1>7, <3>1 DEF Orderly, OwnEdits, Writing, GoesOn
            <4>2. QED
                BY <1>6, <3>1, <4>1 DEF Writing
        <3>2. ~(o.edit > edits')
            BY <1>2, <1>4
        <3>3. QED
            BY <1>2, <1>9, <1>13, <2>2, <3>1, <3>2 DEF Coming
    <2>3. QED
        BY <2>1, <2>2
<1>14. \A id \in RecordIds : CacheMoves(id)
    BY <1>2 DEF CacheMoves
<1>15. ASSUME NEW k \in RecordIds, NEW s \in Nat \X Nat, Unseen(k, s) PROVE Unseen(k, s)'
    <2>1. Exists(k)' => Sig(files'[k]) # s
        BY <1>2, <1>15 DEF Unseen, Exists
    <2>2. QED
        BY <1>2, <1>7, <1>14, <1>15, <2>1, StaysUnseen
<1>16. NewSignatures'
    <2>1. ASSUME NEW k \in RecordIds, NEW s \in Nat \X Nat, Coming(k, s)'
          PROVE  Unseen(k, s)' /\ (tmp'[k] # NoRecord => (Sig(tmp[k]))' # s)
        <3>1. Coming(k, s)
            BY <1>1, <1>2, <1>7, <1>a, <2>1, ComingShrinks
        <3>2. Unseen(k, s) /\ (tmp[k] # NoRecord => Sig(tmp[k]) # s)
            BY <1>1, <3>1 DEF Versions, NewSignatures
        <3>3. tmp'[k] = IF k = o.id THEN v ELSE tmp[k]
            BY <1>1, <1>10 DEF KnowledgeTypes
        <3>4. (Sig(tmp[k]))' = Sig(tmp'[k])
            BY <1>2 DEF Sig, GeneralSig, TermSig, DanceSig
        <3>5. CASE k = o.id
            BY <1>13, <1>15, <2>1, <3>2, <3>3, <3>4, <3>5
        <3>6. CASE k # o.id
            BY <1>15, <2>1, <3>2, <3>3, <3>4, <3>6
        <3>7. QED
            BY <3>5, <3>6
    <2>2. QED
        BY <2>1 DEF NewSignatures
<1>17. WaitingUnseen'
    <2>1. ASSUME NEW k \in RecordIds \ blurred', tmp'[k] # NoRecord PROVE Unseen(k, Sig(tmp[k]))'
        <3>1. tmp'[k] = IF k = o.id THEN v ELSE tmp[k]
            BY <1>1, <1>10 DEF KnowledgeTypes
        <3>2. (Sig(tmp[k]))' = Sig(tmp'[k])
            BY <1>2 DEF Sig, GeneralSig, TermSig, DanceSig
        <3>3. PICK s : s = Sig(tmp'[k])
            OBVIOUS
        <3>4. s \in Nat \X Nat /\ Unseen(k, s)
            <4>1. CASE k = o.id
                BY <1>1, <1>9, <1>12, <2>1, <3>1, <3>3, <4>1 DEF Versions, NewSignatures
            <4>2. CASE k # o.id
                <5>1. tmp[k] \in Record
                    BY <1>1, <2>1, <3>1, <4>2 DEF KnowledgeTypes
                <5>2. QED
                    BY <1>1, <1>b, <2>1, <3>1, <3>3, <4>2, <5>1, Signatures DEF Versions, WaitingUnseen
            <4>3. QED
                BY <4>1, <4>2
        <3>5. Unseen(k, s)'
            BY <1>15, <3>4
        <3>6. QED
            BY <3>2, <3>3, <3>5 DEF Unseen
    <2>2. QED
        BY <2>1 DEF WaitingUnseen
<1>18. Versions'
    BY <1>1, <1>2, <1>7, <1>b, <1>14, <1>16, <1>17, FreshStays DEF Versions, Orderly
<1>19. KnowledgeTypes'
    <2>1. tmp' \in [RecordIds -> Record \cup {NoRecord}]
        BY <1>1, <1>8, <1>10 DEF KnowledgeTypes
    <2>2. QED
        BY <1>1, <1>2, <1>7, <1>11, <1>a, <1>b, <2>1 DEF KnowledgeTypes, Orderly
<1>20. ASSUME kind = "general", NEW b \in Actors PROVE Relies(b)'
    <2>1. Relies(a) /\ Relies(b)
        BY <1>1, <1>20 DEF LockGuards
    <2>2. CASE b = a
        <3>1. /\ kLock = a
              /\ o.op = "create" => ~Exists(o.id)
              /\ o.op = "update" => Exists(o.id) /\ o.read = files[o.id]
              /\ \A k \in Listed \ {o.id} : k \in blurred \/ files[k].names \cap o.names = {}
            BY <1>3, <2>1 DEF Relies
        <3>2. tmp'[o.id] = v
            BY <1>1, <1>3, <1>10 DEF KnowledgeTypes
        <3>3. Listed' = Listed
            BY <1>2 DEF Listed, Exists
        <3>4. job'[a].id = o.id /\ job'[a].op = o.op /\ job'[a].read = o.read /\ job'[a].names = o.names /\ job'[a].edit = o.edit
            BY <1>5 DEF GoesOn
        <3>5. QED
            BY <1>2, <1>6, <1>8, <1>9, <1>b, <2>2, <3>1, <3>2, <3>3, <3>4 DEF Relies, Exists
    <2>3. CASE b # a
        <3>1. kLock = a
            BY <1>3, <2>1 DEF Relies
        <3>2. ~Changes(b) \/ Pc(b) = "lock"
            BY <2>1, <2>3, <3>1 DEF Relies
        <3>3. job'[b] = job[b]
            BY <1>5, <2>3 DEF GoesOn
        <3>4. QED
            BY <3>2, <3>3 DEF Relies, Changes, Pc
    <2>4. QED
        BY <2>2, <2>3
<1>21. LockGuards'
    BY <1>1, <1>2, <1>b, <1>20, GuardedStays
<1>22. QED
    BY <1>18, <1>19, <1>21 DEF KnowledgeInv

\* A file gets the version that waited for it, or is removed.
Replaces(id) ==
    /\ DOMAIN files' = RecordIds /\ \A k \in RecordIds \ {id} : files'[k] = files[k] /\ tmp'[k] = tmp[k]
    /\ DOMAIN tmp' = RecordIds
    /\ \/ tmp[id] # NoRecord /\ files'[id] = tmp[id] /\ tmp'[id] = NoRecord
       \/ files'[id] = NoRecord /\ tmp'[id] = tmp[id]

LEMMA VersionsReplaced ==
    ASSUME KnowledgeTypes, Versions, Orderly, kind' = kind, cache' = cache, lastTick' = lastTick, blurred' = blurred,
           NEW id \in RecordIds, Replaces(id)
    PROVE  Versions'
<1>1. \A k \in RecordIds : CacheMoves(k)
    BY DEF CacheMoves
<1>2. \A k \in RecordIds : lastTick'[k] \in Nat /\ lastTick[k] <= lastTick'[k]
    BY DEF KnowledgeTypes
<1>3. \A r : Sig(r)' = Sig(r)
    BY DEF Sig, GeneralSig, TermSig, DanceSig
<1>4. ASSUME NEW k \in RecordIds, NEW s \in Nat \X Nat, Unseen(k, s), tmp[k] # NoRecord /\ k = id => Sig(tmp[k]) # s \/ files'[k] = NoRecord
      PROVE  Unseen(k, s)'
    <2>1. files'[k] # NoRecord => Sig(files'[k]) # s
        BY <1>4 DEF Replaces, Unseen, Exists
    <2>2. Exists(k)' => Sig(files'[k]) # s
        BY <2>1 DEF Exists
    <2>3. QED
        BY <1>1, <1>4, <2>2, StaysUnseen
<1>5. NewSignatures'
    <2>1. ASSUME NEW k \in RecordIds, NEW s \in Nat \X Nat, Coming(k, s)'
          PROVE  Unseen(k, s)' /\ (tmp'[k] # NoRecord => (Sig(tmp[k]))' # s)
        <3>1. Coming(k, s)
            BY <1>2, <2>1, ComingShrinks
        <3>2. Unseen(k, s) /\ (tmp[k] # NoRecord => Sig(tmp[k]) # s)
            BY <3>1 DEF Versions, NewSignatures
        <3>3. tmp'[k] = NoRecord \/ tmp'[k] = tmp[k]
            BY DEF Replaces
        <3>4. (Sig(tmp[k]))' = Sig(tmp'[k])
            BY DEF Sig, GeneralSig, TermSig, DanceSig
        <3>5. QED
            BY <1>4, <3>2, <3>3, <3>4
    <2>2. QED
        BY <2>1 DEF NewSignatures
<1>6. WaitingUnseen'
    <2>1. ASSUME NEW k \in RecordIds \ blurred', tmp'[k] # NoRecord PROVE Unseen(k, Sig(tmp[k]))'
        <3>1. tmp'[k] = tmp[k] /\ (k = id => files'[k] = NoRecord)
            BY <2>1 DEF Replaces
        <3>2. tmp[k] \in Record
            BY <2>1, <3>1 DEF KnowledgeTypes
        <3>3. PICK s : s = Sig(tmp[k])
            OBVIOUS
        <3>4. s \in Nat \X Nat /\ Unseen(k, s)
            BY <2>1, <3>1, <3>2, <3>3, Signatures DEF Versions, WaitingUnseen
        <3>5. Unseen(k, s)'
            BY <1>4, <3>1, <3>4
        <3>6. (Sig(tmp[k]))' = s
            BY <3>1, <3>3 DEF Sig, GeneralSig, TermSig, DanceSig
        <3>7. QED
            BY <3>5, <3>6 DEF Unseen
    <2>2. QED
        BY <2>1 DEF WaitingUnseen
<1>7. FreshIsSaved'
    <2>1. ASSUME NEW k \in RecordIds \ blurred, Exists(k)', Fresh(k)' PROVE cache'[k].record = files'[k]
        <3>1. (Sig(files[k]))' = Sig(files'[k])
            BY DEF Sig, GeneralSig, TermSig, DanceSig
        <3>2. cache[k].record # NoRecord /\ cache[k].sig = Sig(files'[k]) /\ files'[k] # NoRecord
            BY <2>1, <3>1 DEF Fresh, Exists
        <3>3. CASE files'[k] = files[k]
            BY <3>2, <3>3 DEF Versions, FreshIsSaved, Listed, Fresh, Exists
        <3>4. CASE files'[k] # files[k]
            <4>1. k = id /\ tmp[k] # NoRecord /\ files'[k] = tmp[k]
                BY <3>2, <3>4 DEF Replaces
            <4>2. cache[k].sig # Sig(tmp[k])
                BY <4>1 DEF Versions, WaitingUnseen, Unseen
            <4>3. QED
                BY <3>2, <4>1, <4>2
        <3>5. QED
            BY <3>3, <3>4
    <2>2. QED
        BY <2>1 DEF FreshIsSaved, Listed
<1>8. QED
    BY <1>5, <1>6, <1>7 DEF Versions, Orderly

\* The end of a change of the general store: it is answered, the handler
\* releases the lock and goes on with the next row.
LEMMA FinishMeans ==
    ASSUME KnowledgeTypes, Versions, kind' = kind, NEW a \in Actors, NEW step \in {"rename", "unlink"},
           Doing(a, step), Finish(a)
    PROVE  /\ Orderly /\ acked' \subseteq Answers /\ kLock' \in Actors \cup {Free}
           /\ kind = "general" =>
                 /\ acked' = acked \cup {[edit |-> job[a].edit, op |-> job[a].op, id |-> job[a].id]}
                 /\ \A b \in Actors \ {a} : job'[b] = job[b]
                 /\ ~Changes(a)' \/ Pc(a)' = "lock"
<1>1. /\ Pc(a) = step /\ Changes(a) /\ job[a] \in Change /\ job[a].op \in Ops
      /\ (Len(job[a].todo) = 1 <=> step \in LastSteps) /\ job[a].id \in RecordIds
    BY DoingMeans DEF Operations
<1>2. kLock \in Actors \cup {Free} /\ acked \subseteq Answers /\ edits \in Nat
    BY DEF KnowledgeTypes
<1>3. CASE LastStep(a)
    <2>1. acked' = acked \cup {[edit |-> job[a].edit, op |-> job[a].op, id |-> job[a].id]} /\ End(a)
        BY <1>3 DEF Finish, Ack
    <2>2. Ended(a)
        BY <1>1, <2>1, EndMeans
    <2>3. Orderly
        BY <1>1, <2>2, EndIsOrderly DEF Versions
    <2>4. acked' \subseteq Answers
        BY <1>1, <1>2, <2>1 DEF Answers, Change
    <2>5. ASSUME kind = "general" PROVE ~Changes(a)' \/ Pc(a)' = "lock"
        <3>1. CASE job'[a] = Idle
            BY <3>1 DEF Pc, Idle, Changes
        <3>2. CASE Begun(job'[a], edits') /\ edits' = edits + 1
            BY <2>5, <3>2, BegunMeans
        <3>3. QED
            BY <2>2, <3>1, <3>2 DEF Ended
    <2>6. QED
        BY <1>2, <2>1, <2>2, <2>3, <2>4, <2>5 DEF Ended
<1>4. CASE ~LastStep(a)
    <2>1. Go(a, job[a]) /\ UNCHANGED <<acked, kLock, edits>>
        BY <1>4 DEF Finish
    <2>2. step \notin LastSteps /\ kind # "general"
        BY <1>1, <1>4 DEF LastStep, LastSteps
    <2>3. job[a].op = "create" => job[a].read = NoRecord
        BY <1>1 DEF KnowledgeTypes, Handler
    <2>4. GoesOn(a, job[a])
        BY <1>1, <2>1, <2>2, <2>3, GoMeans
    <2>5. Orderly
        BY <1>1, <2>1, <2>4, GoIsOrderly DEF Versions
    <2>6. QED
        BY <1>2, <2>1, <2>2, <2>5
<1>5. QED
    BY <1>3, <1>4

\* Nobody else is past the lock.
LEMMA OthersWait ==
    ASSUME LockGuards, kind = "general", NEW a \in Actors, Changes(a), Pc(a) # "lock",
           \A b \in Actors \ {a} : job'[b] = job[b], ~Changes(a)' \/ Pc(a)' = "lock"
    PROVE  \A b \in Actors : Relies(b)'
<1>1. kLock = a
    BY DEF LockGuards, Relies
<1>2. ASSUME NEW b \in Actors, b # a PROVE Relies(b)'
    <2>1. ~Changes(b) \/ Pc(b) = "lock"
        BY <1>1, <1>2 DEF LockGuards, Relies
    <2>2. job'[b] = job[b]
        BY <1>2
    <2>3. QED
        BY <2>1, <2>2 DEF Relies, Changes, Pc
<1>3. Relies(a)'
    BY DEF Relies
<1>4. QED
    BY <1>2, <1>3

LEMMA UnlinkKeeps == ASSUME KnowledgeInv, NEW a \in Actors, Unlink(a) PROVE KnowledgeInv'
<1> DEFINE o == job[a]
<1>1. KnowledgeTypes /\ Versions /\ LockGuards /\ "unlink" \in Operations
    BY DEF KnowledgeInv, Operations
<1>2. /\ Doing(a, "unlink") /\ files' = [files EXCEPT ![job[a].id] = NoRecord] /\ Finish(a)
      /\ UNCHANGED <<kind, tmp, history, cache, tick, lastTick, blurred>>
    BY DEF Unlink
<1>3. Pc(a) = "unlink" /\ Changes(a) /\ o.op = "delete" /\ o.id \in RecordIds
    BY <1>1, <1>2, DoingMeans DEF Belongs
<1>4. /\ Orderly /\ acked' \subseteq Answers /\ kLock' \in Actors \cup {Free}
      /\ kind = "general" =>
            /\ acked' = acked \cup {[edit |-> o.edit, op |-> o.op, id |-> o.id]}
            /\ \A b \in Actors \ {a} : job'[b] = job[b]
            /\ ~Changes(a)' \/ Pc(a)' = "lock"
    BY <1>1, <1>2, FinishMeans
<1>5. Replaces(o.id)
    BY <1>1, <1>2, <1>3 DEF Replaces, KnowledgeTypes
<1>6. Versions'
    BY <1>1, <1>2, <1>3, <1>4, <1>5, VersionsReplaced
<1>7. KnowledgeTypes'
    BY <1>1, <1>2, <1>3, <1>4 DEF KnowledgeTypes, Orderly
<1>8. ASSUME kind = "general" PROVE LockGuards'
    <2>1. \A b \in Actors : Relies(b)'
        BY <1>1, <1>3, <1>4, <1>8, OthersWait
    <2>2. files'[o.id] = NoRecord /\ \A k \in RecordIds \ {o.id} : files'[k] = files[k]
        BY <1>1, <1>2, <1>3 DEF KnowledgeTypes
    <2>3. \A k \in Listed' : k \in Listed /\ files'[k] = files[k]
        BY <2>2 DEF Listed, Exists
    <2>4. NamesUnique'
        BY <1>1, <1>2, <1>8, <2>3 DEF LockGuards, NamesUnique
    <2>5. ASSUME NEW e \in acked'
          PROVE  IF e.op = "delete"
                 THEN files'[e.id] = NoRecord \/ \E c \in acked' : c.op = "create" /\ c.id = e.id
                 ELSE \/ files'[e.id] # NoRecord /\ e.edit \in files'[e.id].edits
                      \/ \E d \in acked' : d.op = "delete" /\ d.id = e.id
        <3> DEFINE new == [edit |-> o.edit, op |-> o.op, id |-> o.id]
        <3>1. new \in acked' /\ new.op = "delete" /\ new.id = o.id /\ acked' = acked \cup {new}
            BY <1>3, <1>4, <1>8
        <3> HIDE DEF new
        <3>2. CASE e.id = o.id
            BY <2>2, <3>1, <3>2
        <3>3. CASE e.id # o.id
            <4>1. e \in acked /\ e.id \in RecordIds
                BY <1>1, <3>1, <3>3 DEF KnowledgeTypes, Answers
            <4>2. files'[e.id] = files[e.id]
                BY <2>2, <3>3, <4>1
            <4>3. QED
                BY <1>1, <1>8, <3>1, <4>1, <4>2 DEF LockGuards, AcknowledgedEditsStay, Exists
        <3>4. QED
            BY <3>2, <3>3
    <2>6. AcknowledgedEditsStay'
        BY <2>5 DEF AcknowledgedEditsStay, Exists
    <2>7. QED
        BY <2>1, <2>4, <2>6 DEF LockGuards
<1>9. QED
    BY <1>2, <1>6, <1>7, <1>8 DEF KnowledgeInv, LockGuards

LEMMA RenameKeeps == ASSUME KnowledgeInv, NEW a \in Actors, Rename(a) PROVE KnowledgeInv'
<1> DEFINE o == job[a]
<1>1. KnowledgeTypes /\ Versions /\ LockGuards /\ "rename" \in Operations
    BY DEF KnowledgeInv, Operations
<1>2. Doing(a, "rename") /\ UNCHANGED <<kind, history, cache, tick, lastTick, blurred>>
    BY DEF Rename
<1>3. Pc(a) = "rename" /\ Changes(a) /\ o.op \in {"create", "update"} /\ o.id \in RecordIds
    BY <1>1, <1>2, DoingMeans DEF Belongs, Ops
<1>4. CASE tmp[o.id] = NoRecord
    <2>1. End(a) /\ UNCHANGED <<files, tmp, acked>>
        BY <1>4 DEF Rename
    <2>2. Ended(a)
        BY <1>1, <1>3, <2>1, EndMeans
    <2>3. QED
        BY <1>1, <1>2, <1>3, <2>1, <2>2, CacheStays, EndKeeps
<1>5. CASE tmp[o.id] # NoRecord
    <2>1. files' = [files EXCEPT ![o.id] = tmp[o.id]] /\ tmp' = [tmp EXCEPT ![o.id] = NoRecord] /\ Finish(a)
        BY <1>5 DEF Rename
    <2>2. /\ Orderly /\ acked' \subseteq Answers /\ kLock' \in Actors \cup {Free}
          /\ kind = "general" =>
                /\ acked' = acked \cup {[edit |-> o.edit, op |-> o.op, id |-> o.id]}
                /\ \A b \in Actors \ {a} : job'[b] = job[b]
                /\ ~Changes(a)' \/ Pc(a)' = "lock"
        BY <1>1, <1>2, <2>1, FinishMeans
    <2>3. Replaces(o.id)
        BY <1>1, <1>3, <1>5, <2>1 DEF Replaces, KnowledgeTypes
    <2>4. Versions'
        BY <1>1, <1>2, <1>3, <2>2, <2>3, VersionsReplaced
    <2>5. KnowledgeTypes'
        BY <1>1, <1>2, <1>3, <1>5, <2>1, <2>2 DEF KnowledgeTypes, Orderly
    <2>6. ASSUME kind = "general" PROVE LockGuards'
        <3>1. \A b \in Actors : Relies(b)'
            BY <1>1, <1>3, <2>2, <2>6, OthersWait
        <3>2. files'[o.id] = tmp[o.id] /\ \A k \in RecordIds \ {o.id} : files'[k] = files[k]
            BY <1>1, <1>3, <2>1 DEF KnowledgeTypes
        <3>3. /\ o.op = "create" => ~Exists(o.id)
              /\ o.op = "update" => Exists(o.id) /\ o.read = files[o.id]
              /\ \A k \in Listed \ {o.id} : k \in blurred \/ files[k].names \cap o.names = {}
              /\ tmp[o.id].names = o.names
              /\ tmp[o.id].edits = {o.edit} \cup (IF o.read = NoRecord THEN {} ELSE o.read.edits)
            BY <1>1, <1>3, <2>6 DEF LockGuards, Relies
        <3>4. \A k \in Listed' : k # o.id => k \in Listed /\ files'[k] = files[k] /\ k \in Listed \ {o.id}
            BY <3>2 DEF Listed, Exists
        <3>5. ASSUME NEW i \in Listed' \ blurred, NEW k \in Listed' \ blurred, i # k PROVE files'[i].names \cap files'[k].names = {}
            <4>1. CASE i # o.id /\ k # o.id
                BY <1>1, <2>6, <3>4, <3>5, <4>1 DEF LockGuards, NamesUnique
            <4>2. CASE i = o.id
                BY <3>2, <3>3, <3>4, <3>5, <4>2
            <4>3. CASE k = o.id
                BY <3>2, <3>3, <3>4, <3>5, <4>3
            <4>4. QED
                BY <4>1, <4>2, <4>3
        <3>6. NamesUnique'
            BY <1>2, <3>5 DEF NamesUnique
        <3>7. ASSUME NEW e \in acked'
              PROVE  IF e.op = "delete"
                     THEN files'[e.id] = NoRecord \/ \E c \in acked' : c.op = "create" /\ c.id = e.id
                     ELSE \/ files'[e.id] # NoRecord /\ e.edit \in files'[e.id].edits
                          \/ \E d \in acked' : d.op = "delete" /\ d.id = e.id
            <4> DEFINE new == [edit |-> o.edit, op |-> o.op, id |-> o.id]
            <4>1. new \in acked' /\ new.op = o.op /\ new.id = o.id /\ new.edit = o.edit /\ acked' = acked \cup {new}
                BY <2>2, <2>6
            <4> HIDE DEF new
            <4>2. CASE e = new
                BY <1>3, <1>5, <3>2, <3>3, <4>1, <4>2
            <4>3. CASE e # new
                <5>1. e \in acked /\ e.id \in RecordIds
                    BY <1>1, <4>1, <4>3 DEF KnowledgeTypes, Answers
                <5>2. IF e.op = "delete"
                      THEN files[e.id] = NoRecord \/ \E c \in acked : c.op = "create" /\ c.id = e.id
                      ELSE \/ files[e.id] # NoRecord /\ e.edit \in files[e.id].edits
                           \/ \E d \in acked : d.op = "delete" /\ d.id = e.id
                    BY <1>1, <2>6, <5>1 DEF LockGuards, AcknowledgedEditsStay, Exists
                <5>3. CASE e.id # o.id
                    BY <3>2, <4>1, <5>1, <5>2, <5>3
                <5>4. CASE e.id = o.id /\ o.op = "create"
                    BY <3>3, <4>1, <5>1, <5>2, <5>4 DEF Exists
                <5>5. CASE e.id = o.id /\ o.op = "update"
                    <6>1. files[e.id] # NoRecord /\ files'[e.id] # NoRecord /\ files[e.id].edits \subseteq files'[e.id].edits
                        BY <1>5, <3>2, <3>3, <5>5 DEF Exists
                    <6>2. QED
                        BY <4>1, <5>2, <6>1
                <5>6. QED
                    BY <1>3, <5>3, <5>4, <5>5
            <4>4. QED
                BY <4>2, <4>3
        <3>8. AcknowledgedEditsStay'
            BY <3>7 DEF AcknowledgedEditsStay, Exists
        <3>9. QED
            BY <3>1, <3>6, <3>8 DEF LockGuards
    <2>7. QED
        BY <1>2, <2>4, <2>5, <2>6 DEF KnowledgeInv, LockGuards
<1>6. QED
    BY <1>4, <1>5

-----------------------------------------------------------------------------
LEMMA KnowledgeStarts == ASSUME KnowledgeInit PROVE KnowledgeInv
<1>1. PICK names \in [RecordIds -> {{}} \cup {{n} : n \in Name}] :
          /\ \A i, k \in RecordIds : i # k => names[i] \cap names[k] = {}
          /\ files = [id \in RecordIds |-> IF names[id] = {} THEN NoRecord
                                     ELSE [rev |-> 1, names |-> names[id], edits |-> {}, tick |-> 0, inode |-> 0]]
    BY DEF KnowledgeInit
<1>2. /\ kind \in Kinds /\ tmp = [id \in RecordIds |-> NoRecord]
      /\ cache = [id \in RecordIds |-> [sig |-> <<>>, record |-> NoRecord]]
      /\ acked = {} /\ kLock = Free /\ tick = 1 /\ lastTick = [id \in RecordIds |-> 0] /\ blurred = {}
      /\ edits = 0 /\ job = [a \in Actors |-> Idle]
    BY DEF KnowledgeInit, Kinds
<1>3. \A a \in Actors : Pc(a) = "idle" /\ job[a] = Idle
    BY <1>2 DEF Pc, Idle
<1>4. \A a \in Actors : Handler(a) /\ ~Changes(a)
    BY <1>3 DEF Handler, Changes
<1>5. ASSUME NEW id \in RecordIds PROVE \/ files[id] = NoRecord
                                        \/ /\ files[id] \in Record /\ files[id].names = names[id]
                                           /\ files[id].tick = 0 /\ files[id].inode = 0
    BY <1>1 DEF Record
<1>6. KnowledgeTypes
    <2>1. files \in [RecordIds -> Record \cup {NoRecord}]
        BY <1>1, <1>5
    <2>2. cache \in [RecordIds -> [sig : Signature, record : Record \cup {NoRecord}]]
        BY <1>2 DEF Signature
    <2>3. QED
        BY <1>2, <1>4, <2>1, <2>2 DEF KnowledgeTypes
<1>7. Versions
    <2>1. ASSUME NEW id \in RecordIds, NEW s \in Nat \X Nat, Coming(id, s) PROVE Unseen(id, s)
        <3>1. \A a \in Actors : ~Writing(a)
            BY <1>4 DEF Writing
        <3>2. Exists(id) => Sig(files[id]) # s
            BY <1>2, <1>5, <2>1, <3>1, Signatures DEF Coming, Exists
        <3>3. cache[id].sig # s
            BY <1>2, NoSignature
        <3>4. QED
            BY <1>3, <3>2, <3>3 DEF Unseen
    <2>2. QED
        BY <1>2, <1>4, <2>1 DEF Versions, NewSignatures, WaitingUnseen, FreshIsSaved, Fresh, Listed, OwnEdits
<1>8. LockGuards
    <2>1. NamesUnique
        BY <1>1, <1>5 DEF NamesUnique, Listed, Exists
    <2>2. QED
        BY <1>2, <1>4, <2>1 DEF LockGuards, Relies, AcknowledgedEditsStay
<1>9. QED
    BY <1>6, <1>7, <1>8 DEF KnowledgeInv

LEMMA KnowledgeStutters == ASSUME KnowledgeInv, UNCHANGED knowledgeVars PROVE KnowledgeInv'
<1>1. UNCHANGED <<kind, files, tmp, cache, kLock, tick, lastTick, blurred, job, edits, acked>>
    BY DEF knowledgeVars
<1>2. \A a \in Actors : Pc(a)' = Pc(a)
    BY <1>1 DEF Pc
<1>3. \A a \in Actors : Handler(a)' /\ (Changes(a)' <=> Changes(a))
    BY <1>1, <1>2, OthersStay DEF KnowledgeInv, KnowledgeTypes
<1>4. Orderly
    BY <1>1, <1>2, <1>3 DEF Orderly, KnowledgeInv, KnowledgeTypes, Versions, OwnEdits, Writing
<1>5. kind = "general" => \A b \in Actors : Relies(b)'
    BY <1>1, ReliesStays DEF KnowledgeInv, LockGuards
<1>6. kLock' \in Actors \cup {Free}
    BY <1>1 DEF KnowledgeInv, KnowledgeTypes
<1>7. KnowledgeTypes
    BY DEF KnowledgeInv
<1>8. QED
    BY <1>1, <1>4, <1>5, <1>6, <1>7, CacheStays, QuietStep

LEMMA KnowledgeKept == ASSUME KnowledgeInv, [KnowledgeNext]_knowledgeVars PROVE KnowledgeInv'
<1>1. ASSUME NEW a \in Actors, Lock(a) \/ NewId(a) \/ Get(a) \/ Conflicts(a) \/ Backup(a) PROVE KnowledgeInv'
    BY <1>1, LockKeeps, NewIdKeeps, GetKeeps, ConflictsKeeps, BackupKeeps
<1>2. ASSUME NEW a \in Actors, Write(a) \/ Rename(a) \/ Unlink(a) \/ Drop(a) PROVE KnowledgeInv'
    BY <1>2, WriteKeeps, RenameKeeps, UnlinkKeeps, DropKeeps
<1>3. ASSUME NEW id \in RecordIds, Stat(id) PROVE KnowledgeInv'
    BY <1>3, StatKeeps
<1>4. QED
    BY <1>1, <1>2, <1>3, ChangesKeep, CommitKeeps, ReadKeeps, RestartKeeps, KnowledgeStutters DEF KnowledgeNext

\* What the three stores keep true, at every step of every handler, look-up,
\* import and restart.
THEOREM KnowledgeCorrect == KnowledgeSpec => []KnowledgeInv
<1>1. KnowledgeInit => KnowledgeInv
    BY KnowledgeStarts
<1>2. KnowledgeInv /\ [KnowledgeNext]_knowledgeVars => KnowledgeInv'
    BY KnowledgeKept
<1>3. QED
    BY <1>1, <1>2, PTL DEF KnowledgeSpec

\* No two records of the general store ever answer to one name (_conflicts
\* under GeneralKnowledgeStore._lock), unless one of them was written twice
\* in one tick of the clock, so that the check could not see its new names.
THEOREM NoNameTwice == KnowledgeSpec => []NamesUnique
<1>1. KnowledgeInv => NamesUnique
    BY DEF KnowledgeInv, LockGuards, NamesUnique
<1>2. QED
    BY <1>1, KnowledgeCorrect, PTL

\* The general store loses no change it answered with success, and what the
\* other two serve from their caches is what their files hold (list).
THEOREM WhatWasSavedIsServed == KnowledgeSpec => []SavedIsServed
<1>1. KnowledgeInv => AcknowledgedEditsStay
    BY DEF KnowledgeInv, LockGuards, AcknowledgedEditsStay
<1>2. KnowledgeInv => CacheFresh
    BY DEF KnowledgeInv, KnowledgeTypes, Versions, FreshIsSaved, CacheFresh
<1>3. KnowledgeInv => SavedIsServed
    BY <1>1, <1>2 DEF SavedIsServed
<1>4. QED
    BY <1>3, KnowledgeCorrect, PTL

-----------------------------------------------------------------------------
(***************************************************************************)
(* The knowledge documents. DocumentsInv: no file says that a document     *)
(* that no tool created is the owner's, not the metadata, nor an archive,  *)
(* nor the page; a request on the event loop is about a document of the    *)
(* owner's, and past its write the file is as it wrote it; what was        *)
(* answered with success is no longer asked about; and as long as nothing  *)
(* crashed, a file the metadata does not have is one whose request is      *)
(* still running.                                                          *)
(***************************************************************************)
OwnersIds == DocIds \ seeded
DocVersions == [DocIds -> Nat]
WriteTodo == {<<"writeDoc", "saveMeta">>, <<"unlink", "saveMeta">>, <<"saveMeta">>}
IngestTodo == {<<"replace", "read", "embed", "saveVectors", "saveChunks">>, <<"read", "embed", "saveVectors", "saveChunks">>,
               <<"embed", "saveVectors", "saveChunks">>, <<"saveVectors", "saveChunks">>, <<"saveChunks">>}
WriteJobs == [todo : WriteTodo, doc : DocIds, version : Nat, read : DocVersions, kind : {"writeDoc", "unlink"}]
IngestJobs == [todo : IngestTodo, doc : {NoEdit}, version : Nat, read : DocVersions, kind : {"replace", "read"}]
LoopJobs == {Waiting} \cup WriteJobs \cup IngestJobs

DocumentTypes ==
    /\ docs \in DocVersions /\ saved \in DocVersions /\ seeded \subseteq DocIds /\ {requests, docCrashes} \subseteq Nat
    /\ DOMAIN docJob = DocActors /\ docJob["loop"] \in LoopJobs
    /\ DOMAIN page = {"editing", "offered"}

MetaOfOwner(m) == m = Torn \/ m \subseteq OwnersIds
ReadOnlyKept ==
    /\ ReadOnlyDocumentsStay
    /\ MetaOfOwner(meta)
    /\ archive # NoArchive =>
          archive.docs \in DocVersions /\ (\A d \in seeded : archive.docs[d] = 1) /\ MetaOfOwner(archive.meta)
    /\ page.offered \subseteq OwnersIds /\ page.editing \in OwnersIds \cup {NoEdit}

Saving == docJob["loop"] \in WriteJobs
WriteInv == Saving =>
    LET j == docJob["loop"]
    IN /\ j.doc \in OwnersIds /\ saved[j.doc] = 0 /\ j.version # 0
       /\ Head(j.todo) # "saveMeta" => Head(j.todo) = j.kind
       /\ Head(j.todo) = "saveMeta" => docs[j.doc] = IF j.kind = "unlink" THEN 0 ELSE j.version

EditableInv ==
    docCrashes = 0 /\ ~restored =>
        /\ meta # Torn
        /\ \A d \in OwnersIds : Doc(d) => d \in meta \/ (Saving /\ docJob["loop"].doc = d /\ docJob["loop"].kind = "writeDoc")

DocumentsInv == DocumentTypes /\ ReadOnlyKept /\ SavedDocumentsStay /\ WriteInv /\ EditableInv

LEMMA DocIdsAreNats == DocIds \subseteq Nat /\ 0 \notin DocIds
    BY DocumentsAssumption, FS_CardinalityType

\* What is left to do, and the first of it.
LEMMA FirstOfTwo == ASSUME NEW a, NEW b PROVE <<a, b>> # <<>> /\ Head(<<a, b>>) = a /\ Tail(<<a, b>>) = <<b>>
    OBVIOUS
LEMMA FirstOfThree ==
    ASSUME NEW a, NEW b, NEW c PROVE <<a, b, c>> # <<>> /\ Head(<<a, b, c>>) = a /\ Tail(<<a, b, c>>) = <<b, c>>
    OBVIOUS
LEMMA FirstOfFour ==
    ASSUME NEW a, NEW b, NEW c, NEW d
    PROVE  <<a, b, c, d>> # <<>> /\ Head(<<a, b, c, d>>) = a /\ Tail(<<a, b, c, d>>) = <<b, c, d>>
    OBVIOUS
LEMMA FirstOfFive ==
    ASSUME NEW a, NEW b, NEW c, NEW d, NEW e
    PROVE  <<a, b, c, d, e>> # <<>> /\ Head(<<a, b, c, d, e>>) = a /\ Tail(<<a, b, c, d, e>>) = <<b, c, d, e>>
    OBVIOUS

LEMMA InFrontOfFour ==
    ASSUME NEW S, NEW a \in S, NEW b \in S, NEW c \in S, NEW d \in S, NEW e \in S
    PROVE  <<a>> \o <<b, c, d, e>> = <<a, b, c, d, e>>
<1>1. PICK x : x = <<a>> \o <<b, c, d, e>>
    OBVIOUS
<1>2. <<a>> \in Seq(S) /\ <<b, c, d, e>> \in Seq(S) /\ <<a, b, c, d, e>> \in Seq(S)
    OBVIOUS
<1>3. x \in Seq(S) /\ Len(x) = 5
    BY <1>1, <1>2
<1>4. x[1] = a /\ x[2] = b /\ x[3] = c /\ x[4] = d /\ x[5] = e
    BY <1>1, <1>2
<1>5. \A i \in 1..5 : x[i] = <<a, b, c, d, e>>[i]
    BY <1>4
<1> QED
    BY <1>1, <1>2, <1>3, <1>5, SeqEqual

LEMMA WriteSteps ==
    ASSUME NEW t \in WriteTodo
    PROVE  /\ t # <<>> /\ Head(t) \in {"writeDoc", "unlink", "saveMeta"}
           /\ Head(t) # "saveMeta" => Tail(t) = <<"saveMeta">>
<1>1. CASE t = <<"writeDoc", "saveMeta">>
    BY <1>1, FirstOfTwo
<1>2. CASE t = <<"unlink", "saveMeta">>
    BY <1>2, FirstOfTwo
<1>3. CASE t = <<"saveMeta">>
    BY <1>3
<1> QED
    BY <1>1, <1>2, <1>3 DEF WriteTodo

LEMMA IngestSteps ==
    ASSUME NEW t \in IngestTodo
    PROVE  /\ t # <<>> /\ Head(t) \in {"replace", "read", "embed", "saveVectors", "saveChunks"}
           /\ Head(t) # "saveChunks" => Tail(t) \in IngestTodo
<1>1. CASE t = <<"replace", "read", "embed", "saveVectors", "saveChunks">>
    BY <1>1, FirstOfFive DEF IngestTodo
<1>2. CASE t = <<"read", "embed", "saveVectors", "saveChunks">>
    BY <1>2, FirstOfFour DEF IngestTodo
<1>3. CASE t = <<"embed", "saveVectors", "saveChunks">>
    BY <1>3, FirstOfThree DEF IngestTodo
<1>4. CASE t = <<"saveVectors", "saveChunks">>
    BY <1>4, FirstOfTwo DEF IngestTodo
<1>5. CASE t = <<"saveChunks">>
    BY <1>5
<1> QED
    BY <1>1, <1>2, <1>3, <1>4, <1>5 DEF IngestTodo

LEMMA LoopSteps ==
    ASSUME DocumentTypes, NEW s, At("loop", s)
    PROVE  IF s \in {"writeDoc", "unlink", "saveMeta"} THEN Saving ELSE ~Saving /\ docJob["loop"] \in IngestJobs
<1>1. docJob["loop"] \in WriteJobs \cup IngestJobs
    BY DEF At, DocumentTypes, LoopJobs, Waiting
<1>2. CASE docJob["loop"] \in WriteJobs
    BY <1>2, WriteSteps DEF At, WriteJobs, Saving
<1>3. CASE docJob["loop"] \in IngestJobs
    <2>1. ~Saving
        BY <1>3 DEF IngestJobs, WriteJobs, Saving
    <2> QED
        BY <2>1, <1>3, IngestSteps DEF At, IngestJobs
<1> QED
    BY <1>1, <1>2, <1>3

LEMMA WaitingIsNotSaving == Waiting \notin WriteJobs
<1>1. <<>> \notin WriteTodo
    BY WriteSteps
<1> QED
    BY <1>1 DEF Waiting, WriteJobs

\* What the page shows after a handler.
PageKept == DOMAIN page' = {"editing", "offered"} /\ page'.offered \subseteq OwnersIds /\ page'.editing \in OwnersIds \cup {NoEdit}

\* A step that is not about the owner's documents, whatever it does to an index.
LEMMA ElsewhereKeepsInv ==
    ASSUME DocumentsInv, UNCHANGED <<docs, meta, seeded, restored, archive, saved, docCrashes>>, PageKept, requests' \in Nat,
           DOMAIN docJob' = DocActors,
           \/ docJob'["loop"] = docJob["loop"]
           \/ ~Saving /\ docJob'["loop"] \in {Waiting} \cup IngestJobs
    PROVE  DocumentsInv'
<1>1. DocumentTypes'
    BY DEF DocumentsInv, DocumentTypes, LoopJobs, PageKept, DocVersions, WriteJobs, IngestJobs
<1>2. ReadOnlyKept' /\ SavedDocumentsStay'
    BY DEF DocumentsInv, ReadOnlyKept, ReadOnlyDocumentsStay, MetaOfOwner, PageKept, SavedDocumentsStay, OwnersIds, DocVersions
<1>3. docJob'["loop"] = docJob["loop"] \/ (~Saving /\ ~Saving')
    <2>1. \A j \in IngestJobs : j \notin WriteJobs
        BY DEF IngestJobs, WriteJobs
    <2> QED
        BY <2>1, WaitingIsNotSaving DEF Saving, WriteJobs, DocVersions
<1>4. WriteInv' /\ EditableInv'
    BY <1>3 DEF DocumentsInv, WriteInv, EditableInv, Saving, OwnersIds, Doc, WriteJobs, DocVersions
<1> QED
    BY <1>1, <1>2, <1>4 DEF DocumentsInv

LEMMA PageStays == ASSUME DocumentsInv, UNCHANGED page PROVE PageKept
    BY DEF DocumentsInv, DocumentTypes, ReadOnlyKept, PageKept

\* A step of an ingest, of the owner's route, /rag/reindex or the script.
LEMMA IngestKeepsInv ==
    ASSUME DocumentsInv, IndexUnchanged, NEW a \in DocActors,
           NEW s \in {"replace", "read", "embed", "saveVectors", "saveChunks"}, At(a, s),
           \/ docJob' = [docJob EXCEPT ![a] = Waiting]
           \/ s # "saveChunks" /\ Next1(a)
           \/ s # "saveChunks" /\ docJob' = [docJob EXCEPT ![a].todo = Tail(@), ![a].read = docs]
    PROVE  DocumentsInv'
<1>1. DOMAIN docJob = DocActors /\ docs \in DocVersions /\ DocumentTypes /\ requests' \in Nat /\ PageKept
    BY PageStays DEF DocumentsInv, DocumentTypes, IndexUnchanged
<1>2. DOMAIN docJob' = DocActors
    BY <1>1 DEF Next1
<1>3. CASE a # "loop"
    <2>1. docJob'["loop"] = docJob["loop"]
        BY <1>1, <1>3 DEF Next1, DocActors
    <2> QED
        BY <1>1, <1>2, <2>1, ElsewhereKeepsInv DEF IndexUnchanged
<1>4. CASE a = "loop"
    <2>1. ~Saving /\ docJob["loop"] \in IngestJobs
        BY <1>1, <1>4, LoopSteps
    <2>2. PICK j : j = docJob["loop"]
        OBVIOUS
    <2>3. s # "saveChunks" => Tail(j.todo) \in IngestTodo
        BY <1>4, <2>1, <2>2, IngestSteps DEF At, IngestJobs
    <2>4. \/ docJob'["loop"] = Waiting
          \/ s # "saveChunks" /\ docJob'["loop"] = [j EXCEPT !.todo = Tail(@)]
          \/ s # "saveChunks" /\ docJob'["loop"] = [j EXCEPT !.todo = Tail(@), !.read = docs]
        BY <1>1, <1>4, <2>2 DEF Next1
    <2>5. docJob'["loop"] \in {Waiting} \cup IngestJobs
        BY <1>1, <2>1, <2>2, <2>3, <2>4 DEF IngestJobs
    <2> QED
        BY <1>1, <1>2, <2>1, <2>5, ElsewhereKeepsInv DEF IndexUnchanged
<1> QED
    BY <1>3, <1>4

LEMMA IndexStepsKeepInv ==
    ASSUME DocumentsInv,
           \/ ReplacePipeline \/ FirstQuery \/ LoadChunks
           \/ \E a \in DocActors : ReadDocs(a) \/ EmbedDocs(a) \/ SaveVectors(a) \/ SaveChunks(a)
    PROVE  DocumentsInv'
<1>1. CASE ReplacePipeline
    <2>1. At("loop", "replace") /\ Next1("loop") /\ IndexUnchanged /\ "loop" \in DocActors
        BY <1>1 DEF ReplacePipeline, DocActors
    <2> QED
        BY <2>1, IngestKeepsInv
<1>2. CASE FirstQuery \/ LoadChunks
    <2>1. IndexUnchanged /\ DOMAIN docJob = DocActors /\ \E j : docJob' = [docJob EXCEPT !["chat"] = j]
        BY <1>2 DEF FirstQuery, LoadChunks, DocumentsInv, DocumentTypes
    <2>2. DOMAIN docJob' = DocActors /\ docJob'["loop"] = docJob["loop"] /\ requests' \in Nat /\ PageKept
        BY <2>1, PageStays DEF DocActors, DocumentsInv, DocumentTypes, IndexUnchanged
    <2> QED
        BY <2>1, <2>2, ElsewhereKeepsInv DEF IndexUnchanged
<1>3. CASE \E a \in DocActors : ReadDocs(a) \/ EmbedDocs(a) \/ SaveVectors(a) \/ SaveChunks(a)
    <2>1. PICK a \in DocActors : ReadDocs(a) \/ EmbedDocs(a) \/ SaveVectors(a) \/ SaveChunks(a)
        BY <1>3
    <2>2. CASE ReadDocs(a)
        <3>1. At(a, "read") /\ docJob' = [docJob EXCEPT ![a].todo = Tail(@), ![a].read = docs] /\ IndexUnchanged
            BY <2>2 DEF ReadDocs
        <3> QED
            BY <3>1, IngestKeepsInv
    <2>3. CASE EmbedDocs(a)
        <3>1. At(a, "embed") /\ (Next1(a) \/ docJob' = [docJob EXCEPT ![a] = Waiting]) /\ IndexUnchanged
            BY <2>3 DEF EmbedDocs
        <3> QED
            BY <3>1, IngestKeepsInv
    <2>4. CASE SaveVectors(a)
        <3>1. At(a, "saveVectors") /\ Next1(a) /\ IndexUnchanged
            BY <2>4 DEF SaveVectors
        <3> QED
            BY <3>1, IngestKeepsInv
    <2>5. CASE SaveChunks(a)
        <3>1. At(a, "saveChunks") /\ docJob' = [docJob EXCEPT ![a] = Waiting] /\ IndexUnchanged
            BY <2>5 DEF SaveChunks
        <3> QED
            BY <3>1, IngestKeepsInv
    <2> QED
        BY <2>1, <2>2, <2>3, <2>4, <2>5
<1> QED
    BY <1>1, <1>2, <1>3

\* The start of an ingest.
LEMMA IngestStartsKeepInv ==
    ASSUME DocumentsInv, ReindexKnowledge \/ RagReindex \/ IngestScript
    PROVE  DocumentsInv'
<1>1. PICK a \in {"loop", "script"}, steps \in {OwnerIngest, ServiceIngest} : StartJob(a, steps, NoEdit)
    BY DEF ReindexKnowledge, RagReindex, IngestScript
<1>2. UNCHANGED <<page, saved>> /\ PageUnchanged
    BY DEF ReindexKnowledge, RagReindex, IngestScript
<1>3. requests \in Nat /\ DOMAIN docJob = DocActors /\ PageKept
    BY <1>2, PageStays DEF DocumentsInv, DocumentTypes
<1>4. PICK j : j = [todo |-> steps, doc |-> NoEdit, version |-> requests + 2, read |-> Empty, kind |-> steps[1]]
    OBVIOUS
<1>5. docJob[a] = Waiting /\ requests' = requests + 1 /\ docJob' = [docJob EXCEPT ![a] = j]
    BY <1>1, <1>4 DEF StartJob
<1>6. DOMAIN docJob' = DocActors /\ requests' \in Nat
    BY <1>3, <1>5
<1>7. steps \in IngestTodo /\ steps[1] \in {"replace", "read"}
    <2>1. ServiceIngest = <<"replace", "read", "embed", "saveVectors", "saveChunks">>
        <3>1. PICK S : S = {"replace", "read", "embed", "saveVectors", "saveChunks"}
            OBVIOUS
        <3> QED
            BY <3>1, InFrontOfFour DEF ServiceIngest, OwnerIngest
    <2> QED
        BY <1>1, <2>1 DEF OwnerIngest, IngestTodo
<1>8. Empty \in DocVersions
    BY DEF Empty, DocVersions
<1>9. j \in IngestJobs
    BY <1>3, <1>4, <1>7, <1>8 DEF IngestJobs
<1>10. docJob'["loop"] = docJob["loop"] \/ (~Saving /\ docJob'["loop"] \in IngestJobs)
    BY <1>3, <1>5, <1>9, WaitingIsNotSaving DEF DocActors, Saving
<1> QED
    BY <1>2, <1>3, <1>6, <1>10, ElsewhereKeepsInv DEF PageUnchanged

\* The start of a write: of a document of the owner's that no answer vouches for any more.
LEMMA WriteStartsKeepInv ==
    ASSUME DocumentsInv, NEW k \in {"writeDoc", "unlink"}, NEW d \in OwnersIds, StartJob("loop", <<k, "saveMeta">>, d),
           saved' \in {saved, [saved EXCEPT ![d] = 0]}, saved'[d] = 0, PageKept,
           UNCHANGED <<docs, meta, seeded, restored, archive, docCrashes>>
    PROVE  DocumentsInv'
<1>1. DocumentTypes /\ d \in DocIds
    BY DEF DocumentsInv, OwnersIds
<1>2. PICK j : j = [todo |-> <<k, "saveMeta">>, doc |-> d, version |-> requests + 2, read |-> Empty, kind |-> k]
    OBVIOUS
<1>3. docJob["loop"] = Waiting /\ requests' = requests + 1 /\ docJob' = [docJob EXCEPT !["loop"] = j]
    BY <1>2 DEF StartJob
<1>4. j \in WriteJobs /\ j.version # 0 /\ j.doc = d /\ Head(j.todo) = j.kind /\ j.kind = k
    <2>1. Empty \in DocVersions
        BY DEF Empty, DocVersions
    <2>2. <<k, "saveMeta">> \in WriteTodo /\ Head(<<k, "saveMeta">>) = k
        BY FirstOfTwo DEF WriteTodo
    <2> QED
        BY <1>1, <1>2, <2>1, <2>2 DEF WriteJobs, DocumentTypes
<1>5. docJob'["loop"] = j /\ DOMAIN docJob' = DocActors
    BY <1>1, <1>3 DEF DocumentTypes, DocActors
<1>6. DocumentTypes'
    BY <1>1, <1>3, <1>4, <1>5 DEF DocumentTypes, LoopJobs, WriteJobs, IngestJobs, DocVersions, PageKept
<1>7. ReadOnlyKept'
    BY DEF DocumentsInv, ReadOnlyKept, ReadOnlyDocumentsStay, MetaOfOwner, PageKept, OwnersIds, DocVersions
<1>8. SavedDocumentsStay'
    BY <1>1 DEF DocumentsInv, SavedDocumentsStay, DocumentTypes, DocVersions
<1>9. WriteInv'
    <2>1. k # "saveMeta"
        OBVIOUS
    <2> QED
        BY <1>4, <1>5, <2>1 DEF WriteInv, OwnersIds
<1>10. EditableInv'
    <2>1. ~Saving
        BY <1>3, WaitingIsNotSaving DEF Saving
    <2> QED
        BY <2>1 DEF DocumentsInv, EditableInv, OwnersIds, Doc
<1> QED
    BY <1>6, <1>7, <1>8, <1>9, <1>10 DEF DocumentsInv

\* The name a new document gets is free.
LEMMA FreeNameIsFree ==
    ASSUME DocumentTypes, \E d \in DocIds : ~Doc(d)
    PROVE  FreeName \in DocIds /\ ~Doc(FreeName)
<1>1. PICK T : T = {d \in DocIds : ~Doc(d)}
    OBVIOUS
<1>2. T \subseteq Nat /\ T # {}
    BY <1>1, DocIdsAreNats
<1>3. \E x \in T : \A y \in T : x <= y
    BY <1>2, LeastElement
<1>4. FreeName \in T
    BY <1>1, <1>3 DEF FreeName, Min
<1> QED
    BY <1>1, <1>4

LEMMA SaveDocumentKeepsInv == ASSUME DocumentsInv, SaveDocument PROVE DocumentsInv'
<1>1. DocumentTypes /\ ReadOnlyKept /\ SavedDocumentsStay /\ page' = [page EXCEPT !.editing = NoEdit] /\ PageUnchanged
    BY DEF SaveDocument, DocumentsInv
<1>2. PageKept
    BY <1>1 DEF DocumentTypes, ReadOnlyKept, PageKept
<1>3. CASE page.editing = NoEdit
    <2>1. StartJob("loop", <<"writeDoc", "saveMeta">>, FreeName) /\ UNCHANGED saved /\ \E d \in DocIds : ~Doc(d)
        BY <1>3 DEF SaveDocument, CreateDocument
    <2>2. FreeName \in DocIds /\ docs[FreeName] = 0
        BY <1>1, <2>1, FreeNameIsFree DEF Doc
    <2>3. FreeName \in OwnersIds /\ saved[FreeName] = 0
        BY <1>1, <2>2 DEF ReadOnlyKept, ReadOnlyDocumentsStay, OwnersIds, SavedDocumentsStay
    <2> QED
        BY <1>1, <1>2, <2>1, <2>3, WriteStartsKeepInv DEF PageUnchanged
<1>4. CASE page.editing # NoEdit
    <2>1. PICK d : d = page.editing
        OBVIOUS
    <2>2. d \in OwnersIds /\ d \in DocIds
        BY <1>1, <1>4, <2>1 DEF ReadOnlyKept, OwnersIds
    <2>3. StartJob("loop", <<"writeDoc", "saveMeta">>, d) /\ saved' = [saved EXCEPT ![d] = 0]
        BY <1>4, <2>1 DEF SaveDocument, UpdateDocument
    <2>4. saved'[d] = 0
        BY <1>1, <2>2, <2>3 DEF DocumentTypes, DocVersions
    <2> QED
        BY <1>1, <1>2, <2>2, <2>3, <2>4, WriteStartsKeepInv DEF PageUnchanged
<1> QED
    BY <1>3, <1>4

LEMMA DeleteKeepsInv == ASSUME DocumentsInv, NEW d \in DocIds, DeleteOffered(d) PROVE DocumentsInv'
<1>1. StartJob("loop", <<"unlink", "saveMeta">>, d) /\ saved' = [saved EXCEPT ![d] = 0] /\ UNCHANGED page /\ PageUnchanged
    BY DEF DeleteOffered, DeleteDocument
<1>2. d \in OwnersIds /\ saved'[d] = 0
    BY <1>1 DEF DeleteOffered, DocumentsInv, ReadOnlyKept, DocumentTypes, DocVersions
<1> QED
    BY <1>1, <1>2, PageStays, WriteStartsKeepInv DEF PageUnchanged

\* What the page offers is what the metadata says.
LEMMA PageStepsKeepInv ==
    ASSUME DocumentsInv, LoadDocuments \/ CancelEdit \/ \E d \in DocIds : StartEdit(d)
    PROVE  DocumentsInv'
<1>1. PageUnchanged /\ UNCHANGED <<docJob, saved, requests>>
    BY DEF LoadDocuments, CancelEdit, StartEdit
<1>2. PageKept
    BY DEF LoadDocuments, CancelEdit, StartEdit, DocumentsInv, DocumentTypes, ReadOnlyKept, MetaOfOwner, PageKept
<1> QED
    BY <1>1, <1>2, ElsewhereKeepsInv DEF PageUnchanged, DocumentsInv, DocumentTypes

\* The file is written or removed; the request goes on to its metadata.
LEMMA FileStepsKeepInv == ASSUME DocumentsInv, WriteDoc \/ UnlinkDoc PROVE DocumentsInv'
<1>1. PICK j : j = docJob["loop"]
    OBVIOUS
<1>2. /\ Saving /\ j.todo # <<>> /\ Head(j.todo) = j.kind /\ j.kind \in {"writeDoc", "unlink"}
      /\ docs' = [docs EXCEPT ![j.doc] = IF j.kind = "unlink" THEN 0 ELSE j.version]
      /\ docJob' = [docJob EXCEPT !["loop"].todo = Tail(@)]
      /\ UNCHANGED <<meta, page, seeded, restored, archive, saved, requests, docCrashes>>
    <2>1. Saving
        BY LoopSteps DEF WriteDoc, UnlinkDoc, DocumentsInv
    <2>2. Head(j.todo) \in {"writeDoc", "unlink"} /\ j.todo # <<>>
        BY <1>1 DEF WriteDoc, UnlinkDoc, At
    <2>3. Head(j.todo) = j.kind
        BY <1>1, <2>1, <2>2 DEF DocumentsInv, WriteInv
    <2>4. CASE WriteDoc
        BY <1>1, <2>1, <2>2, <2>3, <2>4 DEF WriteDoc, At, Next1
    <2>5. CASE UnlinkDoc
        BY <1>1, <2>1, <2>2, <2>3, <2>5 DEF UnlinkDoc, At, Next1
    <2> QED
        BY <2>4, <2>5
<1>3. /\ DocumentTypes /\ ReadOnlyKept /\ SavedDocumentsStay /\ EditableInv
      /\ j \in WriteJobs /\ j.doc \in OwnersIds /\ j.doc \in DocIds /\ saved[j.doc] = 0 /\ j.version # 0 /\ j.version \in Nat
    BY <1>1, <1>2 DEF DocumentsInv, WriteInv, Saving, WriteJobs
<1>4. PICK k : k = [j EXCEPT !.todo = Tail(@)]
    OBVIOUS
<1>5. k \in WriteJobs /\ k.doc = j.doc /\ k.kind = j.kind /\ k.version = j.version /\ Head(k.todo) = "saveMeta"
    <2>1. Tail(j.todo) = <<"saveMeta">>
        BY <1>2, <1>3, WriteSteps DEF WriteJobs
    <2> QED
        <3>1. PICK u : u = <<"saveMeta">>
            OBVIOUS
        <3>2. u \in WriteTodo /\ Head(u) = "saveMeta"
            BY <3>1 DEF WriteTodo
        <3>3. k = [j EXCEPT !.todo = u]
            BY <1>4, <2>1, <3>1
        <3> QED
            BY <1>3, <3>2, <3>3 DEF WriteJobs
<1>6. docJob'["loop"] = k /\ DOMAIN docJob' = DocActors
    BY <1>1, <1>2, <1>3, <1>4 DEF DocumentTypes, DocActors
<1>7. docs' \in DocVersions
    BY <1>2, <1>3 DEF DocumentTypes, DocVersions
<1>8. DocumentTypes'
    BY <1>2, <1>3, <1>5, <1>6, <1>7 DEF DocumentTypes, LoopJobs, WriteJobs, IngestJobs, DocVersions
<1>9. ReadOnlyKept'
    <2>1. ReadOnlyDocumentsStay'
        BY <1>2, <1>3 DEF ReadOnlyKept, ReadOnlyDocumentsStay, OwnersIds, DocumentTypes, DocVersions
    <2> QED
        BY <1>2, <1>3, <2>1 DEF ReadOnlyKept, MetaOfOwner, OwnersIds, DocVersions
<1>10. SavedDocumentsStay'
    BY <1>2, <1>3 DEF SavedDocumentsStay, DocumentTypes, DocVersions
<1>11. WriteInv'
    BY <1>2, <1>3, <1>5, <1>6 DEF WriteInv, OwnersIds, DocumentTypes, DocVersions
<1>12. EditableInv'
    <2>1. Saving'
        BY <1>5, <1>6 DEF Saving, WriteJobs, DocVersions
    <2>2. ASSUME docCrashes = 0, ~restored
          PROVE  meta # Torn /\ \A d \in OwnersIds : docs[d] # 0 => d \in meta \/ (d = j.doc /\ j.kind = "writeDoc")
        BY <1>1, <1>2, <1>3, <2>2 DEF EditableInv, Doc
    <2>3. ASSUME NEW d \in OwnersIds, docs'[d] # 0 PROVE docs[d] # 0 \/ (d = j.doc /\ j.kind = "writeDoc")
        BY <1>2, <1>3, <2>3 DEF OwnersIds, DocumentTypes, DocVersions
    <2> QED
        BY <1>2, <1>5, <1>6, <2>1, <2>2, <2>3 DEF EditableInv, OwnersIds, Doc
<1> QED
    BY <1>8, <1>9, <1>10, <1>11, <1>12 DEF DocumentsInv

\* The metadata says what the file is.
LEMMA SaveMetaKeepsInv == ASSUME DocumentsInv, SaveMeta PROVE DocumentsInv'
<1>1. PICK j : j = docJob["loop"]
    OBVIOUS
<1>2. Saving
    BY LoopSteps DEF SaveMeta, DocumentsInv
<1>3. /\ Head(j.todo) = "saveMeta" /\ docJob' = [docJob EXCEPT !["loop"] = Waiting]
      /\ IF meta = Torn THEN UNCHANGED <<meta, saved>>
         ELSE /\ meta' = IF j.kind = "unlink" THEN meta \ {j.doc} ELSE meta \cup {j.doc}
              /\ saved' = [saved EXCEPT ![j.doc] = IF j.kind = "unlink" THEN 0 ELSE j.version]
      /\ UNCHANGED <<docs, page, seeded, restored, archive, requests, docCrashes>>
    BY <1>1 DEF SaveMeta, At
<1>4. /\ DocumentTypes /\ ReadOnlyKept /\ SavedDocumentsStay /\ EditableInv
      /\ j \in WriteJobs /\ j.doc \in OwnersIds /\ j.doc \in DocIds /\ j.version \in Nat /\ j.kind \in {"writeDoc", "unlink"}
      /\ docs[j.doc] = IF j.kind = "unlink" THEN 0 ELSE j.version
    BY <1>1, <1>2, <1>3 DEF DocumentsInv, WriteInv, Saving, WriteJobs
<1>5. docJob'["loop"] = Waiting /\ DOMAIN docJob' = DocActors
    BY <1>3, <1>4 DEF DocumentTypes, DocActors
<1>6. saved' \in DocVersions
    BY <1>3, <1>4 DEF DocumentTypes, DocVersions
<1>7. DocumentTypes'
    BY <1>3, <1>4, <1>5, <1>6 DEF DocumentTypes, LoopJobs, DocVersions
<1>8. ReadOnlyKept'
    <2>1. MetaOfOwner(meta)'
        BY <1>3, <1>4 DEF ReadOnlyKept, MetaOfOwner, OwnersIds
    <2> QED
        BY <1>3, <1>4, <2>1 DEF ReadOnlyKept, ReadOnlyDocumentsStay, MetaOfOwner, OwnersIds, DocVersions
<1>9. SavedDocumentsStay'
    BY <1>3, <1>4 DEF SavedDocumentsStay, DocumentTypes, DocVersions
<1>10. ~Saving'
    BY <1>5, WaitingIsNotSaving DEF Saving, WriteJobs, DocVersions
<1>11. WriteInv'
    BY <1>10 DEF WriteInv
<1>12. EditableInv'
    <2>1. ASSUME docCrashes = 0, ~restored
          PROVE  meta # Torn /\ \A d \in OwnersIds : docs[d] # 0 => d \in meta \/ (d = j.doc /\ j.kind = "writeDoc")
        BY <1>1, <1>4, <2>1 DEF EditableInv, Doc
    <2>2. ASSUME docCrashes = 0, ~restored PROVE meta' # Torn
        <3>1. meta' \subseteq DocIds
            BY <1>3, <1>4, <2>1, <2>2 DEF ReadOnlyKept, MetaOfOwner, OwnersIds
        <3> QED
            BY <3>1, DocIdsAreNats DEF Torn
    <2>3. ASSUME docCrashes = 0, ~restored, NEW d \in OwnersIds, docs[d] # 0 PROVE d \in meta'
        BY <1>3, <1>4, <2>1, <2>3
    <2> QED
        BY <1>3, <2>2, <2>3 DEF EditableInv, OwnersIds, Doc
<1> QED
    BY <1>7, <1>8, <1>9, <1>11, <1>12 DEF DocumentsInv

\* An archive says what the files said.
LEMMA ArchiveProperties ==
    ASSUME DocumentsInv
    PROVE  /\ Archive # NoArchive /\ Archive.docs = docs /\ Archive.meta = meta
           /\ docs \in DocVersions /\ (\A d \in seeded : docs[d] = 1) /\ MetaOfOwner(meta)
<1>1. Archive.docs = docs /\ Archive.meta = meta /\ "docs" \in DOMAIN Archive /\ "docs" \notin DOMAIN NoArchive
    BY DEF Archive, NoArchive
<1> QED
    BY <1>1 DEF DocumentsInv, DocumentTypes, ReadOnlyKept, ReadOnlyDocumentsStay

LEMMA MakeBackupKeepsInv == ASSUME DocumentsInv, MakeBackup PROVE DocumentsInv'
<1>1. archive' = Archive /\ UNCHANGED <<docs, meta, docJob, page, seeded, restored, saved, requests, docCrashes>>
    BY DEF MakeBackup
<1>2. DocumentTypes' /\ SavedDocumentsStay' /\ WriteInv' /\ EditableInv'
    BY <1>1 DEF DocumentsInv, DocumentTypes, LoopJobs, WriteJobs, IngestJobs, DocVersions, SavedDocumentsStay, WriteInv, Saving,
                OwnersIds, EditableInv, Doc
<1>3. ReadOnlyKept'
    BY <1>1, ArchiveProperties DEF DocumentsInv, ReadOnlyKept, ReadOnlyDocumentsStay, MetaOfOwner, OwnersIds, DocVersions
<1> QED
    BY <1>2, <1>3 DEF DocumentsInv

LEMMA RestoreKeepsInv == ASSUME DocumentsInv, Restore PROVE DocumentsInv'
<1>1. /\ docJob["loop"] = Waiting /\ archive # NoArchive /\ requests' = requests + 1
      /\ docs' = [d \in DocIds |-> IF archive.docs[d] # 0 THEN archive.docs[d] ELSE docs[d]]
      /\ meta' = archive.meta /\ restored' = TRUE /\ saved' = Empty /\ archive' = Archive
      /\ UNCHANGED <<docJob, page, seeded, docCrashes>>
    BY DEF Restore
<1>2. DocumentTypes /\ ReadOnlyKept
    BY DEF DocumentsInv
<1>3. archive.docs \in DocVersions /\ (\A d \in seeded : archive.docs[d] = 1) /\ MetaOfOwner(archive.meta)
    BY <1>1, <1>2 DEF ReadOnlyKept
<1>4. docs' \in DocVersions /\ saved' \in DocVersions
    BY <1>1, <1>2, <1>3 DEF DocumentTypes, DocVersions, Empty
<1>5. DocumentTypes'
    BY <1>1, <1>2, <1>4 DEF DocumentTypes, LoopJobs, WriteJobs, IngestJobs, DocVersions
<1>6. ReadOnlyKept'
    <2>1. \A d \in seeded : docs'[d] = 1
        BY <1>1, <1>2, <1>3 DEF DocumentTypes, DocVersions
    <2>2. archive' # NoArchive /\ archive'.docs = docs /\ archive'.meta = meta
        BY <1>1, ArchiveProperties
    <2>3. archive'.docs \in DocVersions /\ (\A d \in seeded : archive'.docs[d] = 1) /\ MetaOfOwner(archive'.meta)
        BY <2>2, ArchiveProperties
    <2> QED
        BY <1>1, <1>2, <1>3, <2>1, <2>3 DEF ReadOnlyKept, ReadOnlyDocumentsStay, MetaOfOwner, OwnersIds, DocVersions
<1>7. SavedDocumentsStay'
    BY <1>1 DEF SavedDocumentsStay, Empty
<1>8. WriteInv' /\ EditableInv'
    <2>1. ~Saving'
        BY <1>1, WaitingIsNotSaving DEF Saving, WriteJobs, DocVersions
    <2> QED
        BY <1>1, <2>1 DEF WriteInv, EditableInv
<1> QED
    BY <1>5, <1>6, <1>7, <1>8 DEF DocumentsInv

LEMMA ServerCrashKeepsInv == ASSUME DocumentsInv, ServerCrash PROVE DocumentsInv'
<1>1. /\ docCrashes < DocCrashes /\ docCrashes' = docCrashes + 1 /\ meta' \in {meta, Torn}
      /\ docJob' = [docJob EXCEPT !["loop"] = Waiting, !["chat"] = Waiting]
      /\ UNCHANGED <<docs, page, seeded, restored, archive, saved, requests>>
    BY DEF ServerCrash
<1>2. DocumentTypes /\ ReadOnlyKept /\ SavedDocumentsStay
    BY DEF DocumentsInv
<1>3. docJob'["loop"] = Waiting /\ DOMAIN docJob' = DocActors
    BY <1>1, <1>2 DEF DocumentTypes, DocActors
<1>4. DocumentTypes'
    BY <1>1, <1>2, <1>3 DEF DocumentTypes, LoopJobs, DocVersions
<1>5. ReadOnlyKept' /\ SavedDocumentsStay'
    BY <1>1, <1>2 DEF ReadOnlyKept, ReadOnlyDocumentsStay, MetaOfOwner, OwnersIds, DocVersions, SavedDocumentsStay
<1>6. ~Saving'
    BY <1>3, WaitingIsNotSaving DEF Saving, WriteJobs, DocVersions
<1>7. docCrashes \in Nat
    BY DEF DocumentsInv, DocumentTypes
<1>8. WriteInv' /\ EditableInv'
    BY <1>1, <1>6, <1>7 DEF WriteInv, EditableInv
<1> QED
    BY <1>4, <1>5, <1>8 DEF DocumentsInv

LEMMA DocumentsInvInit == DocumentsInit => DocumentsInv
<1> SUFFICES ASSUME DocumentsInit PROVE DocumentsInv
    OBVIOUS
<1>1. DocIds \subseteq Nat /\ 0 \notin DocIds
    BY DocIdsAreNats
<1>2. seeded \subseteq DocIds
    BY DocumentsAssumption DEF DocumentsInit
<1>3. docJob["loop"] = Waiting /\ DOMAIN docJob = DocActors
    BY DEF DocumentsInit, DocActors
<1>4. DocumentTypes
    BY <1>2, <1>3 DEF DocumentsInit, DocumentTypes, LoopJobs, DocVersions, Empty
<1>5. ReadOnlyKept /\ SavedDocumentsStay
    BY <1>2 DEF DocumentsInit, ReadOnlyKept, ReadOnlyDocumentsStay, MetaOfOwner, SavedDocumentsStay, Empty, NoArchive
<1>6. WriteInv /\ EditableInv
    BY <1>3, WaitingIsNotSaving DEF DocumentsInit, WriteInv, EditableInv, Saving, OwnersIds, Doc, Torn
<1> QED
    BY <1>4, <1>5, <1>6 DEF DocumentsInv

\* DocumentsInv holds in every behaviour of the routes, the page, the scripts and the restarts.
THEOREM DocumentsCorrect == DocumentsSpec => []DocumentsInv
<1>1. DocumentsInit => DocumentsInv
    BY DocumentsInvInit
<1>2. DocumentsInv /\ [DocumentsNext]_documentVars => DocumentsInv'
    <2> SUFFICES ASSUME DocumentsInv, [DocumentsNext]_documentVars PROVE DocumentsInv'
        OBVIOUS
    <2>1. CASE UNCHANGED documentVars
        BY <2>1, PageStays, ElsewhereKeepsInv DEF documentVars, DocumentsInv, DocumentTypes
    <2> QED
        BY <2>1, PageStepsKeepInv, DeleteKeepsInv, SaveDocumentKeepsInv, FileStepsKeepInv, SaveMetaKeepsInv,
           IngestStartsKeepInv, IndexStepsKeepInv, MakeBackupKeepsInv, RestoreKeepsInv, ServerCrashKeepsInv DEF DocumentsNext
<1>3. QED
    BY <1>1, <1>2, PTL DEF DocumentsSpec

(* A document that was saved stays as it was saved until a request is about *)
(* it, one that no tool created is never changed nor deleted, and without a *)
(* crash and a restore every document of the tool stays editable, however   *)
(* requests, ingests, backups and crashes interleave (create_document,      *)
(* update_document, delete_document, _save_meta; renderDocuments).          *)
THEOREM DocumentsSafe == DocumentsSpec => []DocumentsKept
<1>1. ASSUME DocumentsInv PROVE DocumentsKept
    <2>1. DocumentsStayEditable
        BY <1>1, WaitingIsNotSaving DEF DocumentsInv, EditableInv, DocumentsStayEditable, MayEdit, Saving, OwnersIds
    <2> QED
        BY <1>1, <2>1 DEF DocumentsInv, ReadOnlyKept, DocumentsKept
<1> QED
    BY <1>1, DocumentsCorrect, PTL

-----------------------------------------------------------------------------
(***************************************************************************)
(* The owner's pages. PagesInv: the fields of a form and editingId name    *)
(* the same record, the terminology tab has the file of the preview it     *)
(* shows, and a request under way was made of such a form or preview; a    *)
(* page without a list never loads a record.                               *)
(***************************************************************************)
PageThings == PageRecords \cup UploadFiles \cup {Nothing}
PageForms == [editing : PageThings, shows : PageThings, busy : BOOLEAN]
PageUploads == [picked : PageThings, file : PageThings, rows : PageThings, shown : BOOLEAN, busy : BOOLEAN]
CallKinds == {"save", "same", "verify", "edit", "meta", "delete", "toggle", "list", "preview", "commit"}
PageCalls == [kind : CallKinds, n : Nat, id : PageThings, source : PageThings, agreed : BOOLEAN,
              result : {"none", "ok", "refused"}, found : SUBSET PageRecords]

PagesTypeOK ==
    /\ script \in Lists \cup {"lesson", "example"}
    /\ server \subseteq PageRecords /\ listed \subseteq PageRecords
    /\ form \in PageForms /\ upload \in PageUploads
    /\ calls \subseteq PageCalls /\ sent \in Nat

\* What a request under way was made of.
CallInv(c) ==
    /\ c.kind = "save" => c.id = c.source \/ c.agreed
    /\ c.kind = "same" => c.source = Nothing
    /\ c.kind = "commit" /\ script = "terms" => c.id = c.source
    /\ c.kind \notin {"save", "same", "verify"} => script \in Lists
    /\ c.kind = "same" => script = "lesson"

PagesInv ==
    /\ PagesTypeOK
    /\ form.editing = form.shows
    /\ script = "terms" => upload.file = upload.rows
    /\ script \notin Lists => listed = {} /\ form.shows = Nothing
    /\ \A c \in calls : CallInv(c)
    /\ SavesGoHome /\ TermsReviewedFirst

\* What a handler leaves behind keeps the invariant when its requests and what it shows do.
LEMMA HandlerKeepsInv ==
    ASSUME PagesInv, UNCHANGED <<script, server, written, imported>>,
           NEW C \in SUBSET PageCalls, \A c \in C : CallInv(c), calls' \subseteq calls \cup C, sent' \in Nat,
           listed' \subseteq PageRecords, script \notin Lists => listed' = {},
           form' \in PageForms, form'.editing = form'.shows, script \notin Lists => form'.shows = Nothing,
           upload' \in PageUploads, script = "terms" => upload'.file = upload'.rows
    PROVE  PagesInv'
<1>1. PagesTypeOK'
    BY DEF PagesInv, PagesTypeOK
<1>2. ASSUME NEW c \in calls' PROVE CallInv(c)'
    <2>1. CallInv(c)
        BY <1>2 DEF PagesInv
    <2> QED
        BY <2>1 DEF CallInv
<1>3. SavesGoHome' /\ TermsReviewedFirst'
    BY DEF PagesInv, SavesGoHome, TermsReviewedFirst, ReviewedFirst
<1> QED
    BY <1>1, <1>2, <1>3 DEF PagesInv

\* A request.
LEMMA Asked ==
    ASSUME PagesInv, NEW k \in CallKinds, NEW id \in PageThings, NEW source \in PageThings
    PROVE  LET c == Ask(k, id, source)
           IN /\ {c} \in SUBSET PageCalls /\ c.kind = k /\ c.id = id /\ c.source = source
              /\ sent \in Nat /\ sent + 1 \in Nat
    BY DEF PagesInv, PagesTypeOK, Ask, PageCalls

LEMMA Blank == BlankForm \in PageForms /\ BlankForm.editing = Nothing /\ BlankForm.shows = Nothing
    BY DEF BlankForm, PageForms, PageThings

LEMMA NoneChosen == NoUpload \in PageUploads /\ NoUpload.file = NoUpload.rows
    BY DEF NoUpload, PageUploads, PageThings

\* What the tab shows before a handler runs.
LEMMA PageShows ==
    ASSUME PagesInv
    PROVE  /\ script \in Lists \cup {"lesson", "example"} /\ server \subseteq PageRecords /\ listed \subseteq PageRecords
           /\ form \in PageForms /\ form.editing = form.shows /\ form.shows \in PageThings /\ upload \in PageUploads
           /\ script = "terms" => upload.file = upload.rows
           /\ script \notin Lists => listed = {} /\ form.shows = Nothing
           /\ calls \subseteq PageCalls /\ \A c \in calls : CallInv(c)
           /\ sent \in Nat
           /\ "terms" \in Lists /\ "lesson" \notin Lists /\ "example" \notin Lists /\ Nothing \in PageThings
           /\ PageRecords \subseteq PageThings /\ UploadFiles \subseteq PageThings
    BY DEF PagesInv, PagesTypeOK, PageForms, Lists, PageThings

\* A button of the form comes back, or is disabled.
LEMMA ButtonOnly ==
    ASSUME NEW f \in PageForms, NEW b \in BOOLEAN
    PROVE  LET g == [f EXCEPT !.busy = b] IN g \in PageForms /\ g.editing = f.editing /\ g.shows = f.shows
    BY DEF PageForms

LEMMA SubmitKeepsInv ==
    ASSUME PagesInv, NEW k \in {"save", "same"}, NEW disables \in BOOLEAN, PressSave(k, disables),
           k = "same" => script = "lesson"
    PROVE  PagesInv'
<1>1. PICK c : c = Ask(k, form.editing, form.shows)
    OBVIOUS
<1>2. {c} \in SUBSET PageCalls /\ c.kind = k /\ c.id = form.editing /\ c.source = form.shows /\ sent + 1 \in Nat
    BY <1>1, PageShows, Asked DEF CallKinds
<1>3. CallInv(c)
    BY <1>2, PageShows DEF CallInv
<1>4. /\ calls' = calls \cup {c} /\ sent' = sent + 1 /\ form' = [form EXCEPT !.busy = disables]
      /\ UNCHANGED <<script, server, written, imported, upload, listed>>
    BY <1>1 DEF PressSave, Pressed, Send
<1>5. form' \in PageForms /\ form'.editing = form'.shows /\ form'.shows = form.shows
    BY <1>4, PageShows, ButtonOnly
<1> QED
    BY <1>2, <1>3, <1>4, <1>5, PageShows, HandlerKeepsInv

LEMMA SubmitsKeepInv ==
    ASSUME PagesInv,
           SubmitDocument \/ SubmitTerm \/ SubmitDance \/ SubmitRecord \/ SubmitLesson \/ SubmitExample
    PROVE  PagesInv'
    BY SubmitKeepsInv DEF SubmitDocument, SubmitTerm, SubmitDance, SubmitRecord, SubmitLesson, SubmitExample

LEMMA CancelKeepsInv == ASSUME PagesInv, PressCancel PROVE PagesInv'
<1>1. /\ form' = [BlankForm EXCEPT !.busy = form.busy]
      /\ UNCHANGED <<script, server, written, imported, upload, listed, calls, sent>>
    BY DEF PressCancel, Pressed
<1>2. form.busy \in BOOLEAN
    BY PageShows DEF PageForms
<1>3. form' \in PageForms /\ form'.editing = form'.shows /\ form'.shows = Nothing
    BY <1>1, <1>2, Blank, ButtonOnly
<1>4. {} \in SUBSET PageCalls /\ calls' \subseteq calls \cup {}
    BY <1>1
<1> QED
    BY <1>1, <1>3, <1>4, PageShows, HandlerKeepsInv

\* A button of the list, or the list itself: the request does not depend on the form.
LEMMA ListButtonsKeepInv ==
    ASSUME PagesInv, PressEdit \/ PressDelete \/ PressToggle \/ LoadList
    PROVE  PagesInv'
<1>1. PICK k \in {"edit", "delete", "toggle", "list"}, id \in PageThings :
        /\ calls' = calls \cup {Ask(k, id, Nothing)} /\ sent' = sent + 1
        /\ form' = form /\ upload' = upload /\ listed' \in {{}, listed}
        /\ UNCHANGED <<script, server, written, imported>> /\ script \in Lists
    <2>1. CASE PressEdit
        BY <2>1, PageShows DEF PressEdit, Pressed, Send, OnAnswer
    <2>2. CASE PressDelete
        BY <2>2, PageShows DEF PressDelete, Pressed, Send
    <2>3. CASE PressToggle
        BY <2>3, PageShows DEF PressToggle, Pressed, Send
    <2>4. CASE LoadList
        BY <2>4, PageShows DEF LoadList, Pressed, Send
    <2> QED
        BY <2>1, <2>2, <2>3, <2>4
<1>2. PICK c : c = Ask(k, id, Nothing)
    OBVIOUS
<1>3. {c} \in SUBSET PageCalls /\ c.kind = k /\ sent + 1 \in Nat
    BY <1>2, PageShows, Asked DEF CallKinds
<1>4. CallInv(c)
    BY <1>1, <1>3 DEF CallInv
<1> QED
    BY <1>1, <1>2, <1>3, <1>4, PageShows, HandlerKeepsInv

\* A file is chosen: for terms the old preview is put away with it.
LEMMA ChoosesKeepInv ==
    ASSUME PagesInv, ChooseTerms \/ ChooseDances \/ ChooseRecords
    PROVE  PagesInv'
<1>1. PICK f \in UploadFiles \cup {Nothing} :
        /\ \/ /\ script = "terms" /\ upload' = [NoUpload EXCEPT !.picked = f, !.busy = upload.busy]
           \/ /\ script = "dance" /\ upload' = [upload EXCEPT !.picked = f, !.file = f, !.shown = FALSE]
           \/ /\ script = "general" /\ upload' = [upload EXCEPT !.picked = f, !.file = f]
        /\ \/ f = Nothing /\ UNCHANGED <<calls, sent>>
           \/ calls' = calls \cup {Ask("preview", f, Nothing)} /\ sent' = sent + 1
        /\ UNCHANGED <<script, server, written, imported, form, listed>>
    BY DEF ChooseTerms, ChooseDances, ChooseRecords, Choose, Pressed, Send
<1>2. f \in PageThings /\ upload.busy \in BOOLEAN /\ script \in Lists
    BY <1>1, PageShows DEF PageUploads, Lists
<1>3. upload' \in PageUploads /\ (script = "terms" => upload'.file = upload'.rows)
    <2>1. CASE script = "terms" /\ upload' = [NoUpload EXCEPT !.picked = f, !.busy = upload.busy]
        BY <2>1, <1>2, NoneChosen DEF PageUploads
    <2>2. CASE script = "dance" /\ upload' = [upload EXCEPT !.picked = f, !.file = f, !.shown = FALSE]
        BY <2>2, <1>2, PageShows DEF PageUploads
    <2>3. CASE script = "general" /\ upload' = [upload EXCEPT !.picked = f, !.file = f]
        BY <2>3, <1>2, PageShows DEF PageUploads
    <2> QED
        BY <2>1, <2>2, <2>3, <1>1
<1>4. PICK c : c = Ask("preview", f, Nothing)
    OBVIOUS
<1>5. {c} \in SUBSET PageCalls /\ c.kind = "preview" /\ sent + 1 \in Nat
    BY <1>2, <1>4, PageShows, Asked DEF CallKinds
<1>6. CallInv(c)
    BY <1>2, <1>5 DEF CallInv
<1>7. calls' \subseteq calls \cup {c} /\ sent' \in Nat
    BY <1>1, <1>4, <1>5, PageShows
<1> QED
    BY <1>1, <1>2, <1>3, <1>5, <1>6, <1>7, PageShows, HandlerKeepsInv

LEMMA ImportsKeepInv ==
    ASSUME PagesInv, ImportTerms \/ ImportDances \/ ImportRecords
    PROVE  PagesInv'
<1>1. PICK disables \in BOOLEAN :
        /\ calls' = calls \cup {Ask("commit", upload.file, upload.rows)} /\ sent' = sent + 1
        /\ upload' = [upload EXCEPT !.busy = disables]
        /\ UNCHANGED <<script, server, written, imported, form, listed>> /\ script \in Lists
    BY DEF ImportTerms, ImportDances, ImportRecords, PressImport, Pressed, Send, Lists
<1>2. PICK c : c = Ask("commit", upload.file, upload.rows)
    OBVIOUS
<1>3. upload.file \in PageThings /\ upload.rows \in PageThings
    BY PageShows DEF PageUploads
<1>4. {c} \in SUBSET PageCalls /\ c.kind = "commit" /\ c.id = upload.file /\ c.source = upload.rows /\ sent + 1 \in Nat
    BY <1>2, <1>3, PageShows, Asked DEF CallKinds
<1>5. CallInv(c)
    BY <1>1, <1>4, PageShows DEF CallInv
<1>6. upload' \in PageUploads /\ upload'.file = upload.file /\ upload'.rows = upload.rows
    BY <1>1, PageShows DEF PageUploads
<1> QED
    BY <1>1, <1>2, <1>4, <1>5, <1>6, PageShows, HandlerKeepsInv

LEMMA PuttingAway ==
    ASSUME PagesInv
    PROVE  PutAway \in PageUploads /\ (script = "terms" => PutAway.file = PutAway.rows)
<1>1. upload \in PageUploads /\ upload.busy \in BOOLEAN /\ Nothing \in PageThings
    BY PageShows DEF PageUploads
<1>2. CASE script = "terms"
    BY <1>1, <1>2, NoneChosen DEF PutAway, PageUploads
<1>3. CASE script # "terms"
    BY <1>1, <1>3 DEF PutAway, PageUploads
<1> QED
    BY <1>2, <1>3

LEMMA CancelImportKeepsInv == ASSUME PagesInv, CancelImport PROVE PagesInv'
<1>1. /\ upload' = PutAway
      /\ UNCHANGED <<script, server, written, imported, form, listed, calls, sent>>
    BY DEF CancelImport, Pressed
<1>2. {} \in SUBSET PageCalls /\ calls' \subseteq calls \cup {}
    BY <1>1
<1> QED
    BY <1>1, <1>2, PuttingAway, PageShows, HandlerKeepsInv

\* The server answers: it accepts a save or an import only of a request that is right.
LEMMA ServeKeepsInv == ASSUME PagesInv, Serve PROVE PagesInv'
<1>0. PICK c \in calls :
        /\ \E outcome \in Results(c), found \in Findings(c) :
             /\ calls' = (calls \ {c}) \cup {[c EXCEPT !.result = outcome, !.found = found]}
             /\ server' \in IF outcome = "ok" THEN ServerAfter(c) ELSE {server}
             /\ written' = IF outcome = "ok" /\ c.kind = "save"
                           THEN written \cup {[id |-> c.id, shows |-> c.source, agreed |-> c.agreed]} ELSE written
             /\ imported' = IF outcome = "ok" /\ c.kind = "commit"
                            THEN imported \cup {[file |-> c.id, rows |-> c.source]} ELSE imported
        /\ UNCHANGED <<script, form, upload, listed, sent, clicks>>
    BY DEF Serve
<1>1. PICK outcome \in Results(c), found \in Findings(c) :
        /\ calls' = (calls \ {c}) \cup {[c EXCEPT !.result = outcome, !.found = found]}
        /\ server' \in IF outcome = "ok" THEN ServerAfter(c) ELSE {server}
        /\ written' = IF outcome = "ok" /\ c.kind = "save"
                      THEN written \cup {[id |-> c.id, shows |-> c.source, agreed |-> c.agreed]} ELSE written
        /\ imported' = IF outcome = "ok" /\ c.kind = "commit"
                       THEN imported \cup {[file |-> c.id, rows |-> c.source]} ELSE imported
    BY <1>0
<1>14. UNCHANGED <<script, form, upload, listed, sent, clicks>>
    BY <1>0
<1>2. c \in PageCalls /\ CallInv(c)
    BY PageShows
<1>3. outcome \in {"ok", "refused"}
    BY DEF Results
<1>4. found \subseteq PageRecords
    BY PageShows DEF Findings
<1>5. PICK d : d = [c EXCEPT !.result = outcome, !.found = found]
    OBVIOUS
<1>6. d \in PageCalls /\ d.kind = c.kind /\ d.id = c.id /\ d.source = c.source /\ d.agreed = c.agreed
    BY <1>2, <1>3, <1>4, <1>5 DEF PageCalls
<1>7. CallInv(d)
    BY <1>2, <1>6 DEF CallInv
<1>8. server' \subseteq PageRecords
    BY <1>1, <1>14, PageShows DEF ServerAfter
<1>9. PagesTypeOK'
    BY <1>1, <1>14, <1>5, <1>6, <1>8, PageShows DEF PagesTypeOK
<1>10. ASSUME NEW x \in calls' PROVE CallInv(x)'
    <2>1. CallInv(x)
        BY <1>1, <1>14, <1>5, <1>7, <1>10, PageShows
    <2> QED
        BY <2>1, <1>1, <1>14 DEF CallInv
<1>11. SavesGoHome'
    <2>1. CASE outcome = "ok" /\ c.kind = "save"
        <3>1. c.id = c.source \/ c.agreed
            BY <2>1, <1>2 DEF CallInv
        <3>2. written' = written \cup {[id |-> c.id, shows |-> c.source, agreed |-> c.agreed]}
            BY <2>1, <1>1, <1>14
        <3> QED
            BY <3>1, <3>2 DEF PagesInv, SavesGoHome
    <2>2. CASE ~(outcome = "ok" /\ c.kind = "save")
        BY <2>2, <1>1, <1>14 DEF PagesInv, SavesGoHome
    <2> QED
        BY <2>1, <2>2
<1>12. TermsReviewedFirst'
    <2>1. CASE outcome = "ok" /\ c.kind = "commit"
        <3>1. script = "terms" => c.id = c.source
            BY <2>1, <1>2 DEF CallInv
        <3>2. imported' = imported \cup {[file |-> c.id, rows |-> c.source]} /\ script' = script
            BY <2>1, <1>1, <1>14
        <3> QED
            BY <3>1, <3>2 DEF PagesInv, TermsReviewedFirst, ReviewedFirst
    <2>2. CASE ~(outcome = "ok" /\ c.kind = "commit")
        BY <2>2, <1>1, <1>14 DEF PagesInv, TermsReviewedFirst, ReviewedFirst
    <2> QED
        BY <2>1, <2>2
<1> QED
    BY <1>1, <1>14, <1>9, <1>10, <1>11, <1>12 DEF PagesInv

\* An answer that makes the page load its list again, and shows a form it may show.
LEMMA ReloadKeepsInv ==
    ASSUME PagesInv, NEW c \in calls, Reload(c), UNCHANGED <<script, server, written, imported>>,
           script \in Lists, form' \in {form, BlankForm, [BlankForm EXCEPT !.busy = form.busy]},
           upload' \in {upload, PutAway}
    PROVE  PagesInv'
<1>1. PICK d : d = Ask("list", Nothing, Nothing)
    OBVIOUS
<1>2. calls' = (calls \ {c}) \cup {d} /\ sent' = sent + 1 /\ listed' = {}
    BY <1>1 DEF Reload, Send
<1>3. {d} \in SUBSET PageCalls /\ d.kind = "list" /\ sent + 1 \in Nat
    BY <1>1, PageShows, Asked DEF CallKinds
<1>4. CallInv(d)
    BY <1>3 DEF CallInv
<1>5. form.busy \in BOOLEAN
    BY PageShows DEF PageForms
<1>6. form' \in PageForms /\ form'.editing = form'.shows
    BY <1>5, PageShows, Blank, ButtonOnly
<1>7. upload' \in PageUploads /\ (script = "terms" => upload'.file = upload'.rows)
    BY PageShows, PuttingAway
<1> QED
    BY <1>2, <1>3, <1>4, <1>6, <1>7, HandlerKeepsInv

LEMMA ReloadsKeepInv ==
    ASSUME PagesInv, DeleteAnswered \/ ToggleAnswered \/ ImportAnswered
    PROVE  PagesInv'
<1>1. CASE DeleteAnswered
    <2>1. PICK c \in calls :
            /\ Reload(c) /\ UNCHANGED <<script, server, written, imported, upload>> /\ c.kind = "delete"
            /\ form' \in {form, [BlankForm EXCEPT !.busy = form.busy]}
        BY <1>1 DEF DeleteAnswered, Answered
    <2>2. script \in Lists
        BY <2>1, PageShows DEF CallInv
    <2> QED
        BY <2>1, <2>2, ReloadKeepsInv
<1>2. CASE ToggleAnswered
    <2>1. PICK c \in calls : Reload(c) /\ UNCHANGED <<script, server, written, imported, form, upload>> /\ c.kind = "toggle"
        BY <1>2 DEF ToggleAnswered, Answered
    <2>2. script \in Lists
        BY <2>1, PageShows DEF CallInv
    <2> QED
        BY <2>1, <2>2, ReloadKeepsInv
<1>3. CASE ImportAnswered
    <2>1. PICK c \in calls :
            Reload(c) /\ UNCHANGED <<script, server, written, imported, form>> /\ upload' = PutAway /\ c.kind = "commit"
        BY <1>3 DEF ImportAnswered, Answered
    <2>2. script \in Lists
        BY <2>1, PageShows DEF CallInv
    <2> QED
        BY <2>1, <2>2, ReloadKeepsInv
<1> QED
    BY <1>1, <1>2, <1>3

\* An answer after which nothing more is asked.
LEMMA AnswerKeepsInv ==
    ASSUME PagesInv, UNCHANGED <<script, server, written, imported, sent>>, calls' \subseteq calls,
           listed' \subseteq PageRecords, script \notin Lists => listed' = {},
           form' \in PageForms, form'.editing = form'.shows, script \notin Lists => form'.shows = Nothing,
           upload' \in PageUploads, script = "terms" => upload'.file = upload'.rows
    PROVE  PagesInv'
<1>1. {} \in SUBSET PageCalls /\ calls' \subseteq calls \cup {} /\ sent' \in Nat
    BY PageShows
<1> QED
    BY <1>1, HandlerKeepsInv

LEMMA SaveAnsweredKeepsInv == ASSUME PagesInv, SaveAnswered PROVE PagesInv'
<1>1. PICK c \in calls :
        /\ UNCHANGED <<script, server, written, imported, upload>> /\ form' = BlankForm
        /\ \/ script \in Lists /\ Reload(c)
           \/ script \notin Lists /\ calls' = calls \ {c} /\ UNCHANGED <<listed, sent>>
    BY DEF SaveAnswered, Answered
<1>2. CASE script \in Lists /\ Reload(c)
    BY <1>1, <1>2, ReloadKeepsInv
<1>3. CASE script \notin Lists /\ calls' = calls \ {c} /\ UNCHANGED <<listed, sent>>
    BY <1>1, <1>3, PageShows, Blank, AnswerKeepsInv
<1> QED
    BY <1>1, <1>2, <1>3

\* The fields and editingId are filled together.
LEMMA FillKeepsInv ==
    ASSUME PagesInv, NEW c \in calls, Fill(c), script \in Lists,
           UNCHANGED <<script, server, written, imported, upload, listed>>
    PROVE  PagesInv'
<1>1. c.id \in PageThings /\ form \in PageForms
    BY PageShows DEF PageCalls
<1>2. form' \in PageForms /\ form'.editing = form'.shows
    BY <1>1 DEF Fill, PageForms
<1>3. calls' \subseteq calls /\ sent' = sent
    BY DEF Fill
<1> QED
    BY <1>2, <1>3, PageShows, AnswerKeepsInv

LEMMA EditAnsweredKeepsInv == ASSUME PagesInv, EditAnswered PROVE PagesInv'
<1>1. PICK c \in calls :
        /\ UNCHANGED <<script, server, written, imported, upload, listed>> /\ c.kind = "edit"
        /\ \/ Send(calls \ {c}, Ask("meta", c.id, Nothing)) /\ UNCHANGED form
           \/ Fill(c)
    BY DEF EditAnswered, Answered
<1>2. script \in Lists
    BY <1>1, PageShows DEF CallInv
<1>3. CASE Send(calls \ {c}, Ask("meta", c.id, Nothing)) /\ UNCHANGED form
    <2>1. PICK d : d = Ask("meta", c.id, Nothing)
        OBVIOUS
    <2>2. c.id \in PageThings
        BY PageShows DEF PageCalls
    <2>3. {d} \in SUBSET PageCalls /\ d.kind = "meta" /\ sent + 1 \in Nat
        BY <2>1, <2>2, PageShows, Asked DEF CallKinds
    <2>4. CallInv(d)
        BY <2>3, <1>2 DEF CallInv
    <2>5. calls' = (calls \ {c}) \cup {d} /\ sent' = sent + 1
        BY <2>1, <1>3 DEF Send
    <2> QED
        BY <2>3, <2>4, <2>5, <1>1, <1>2, <1>3, PageShows, HandlerKeepsInv
<1> QED
    BY <1>1, <1>2, <1>3, FillKeepsInv

LEMMA MetaAnsweredKeepsInv == ASSUME PagesInv, MetaAnswered PROVE PagesInv'
<1>1. PICK c \in calls : Fill(c) /\ UNCHANGED <<script, server, written, imported, upload, listed>> /\ c.kind = "meta"
    BY DEF MetaAnswered, Answered
<1>2. script \in Lists
    BY <1>1, PageShows DEF CallInv
<1> QED
    BY <1>1, <1>2, FillKeepsInv

LEMMA ListAnsweredKeepsInv == ASSUME PagesInv, ListAnswered PROVE PagesInv'
<1>1. PICK c \in calls :
        /\ listed' = c.found /\ calls' = calls \ {c} /\ c.kind = "list"
        /\ UNCHANGED <<script, server, written, imported, form, upload, sent>>
    BY DEF ListAnswered, Answered
<1>2. script \in Lists /\ c.found \subseteq PageRecords
    BY <1>1, PageShows DEF CallInv, PageCalls
<1> QED
    BY <1>1, <1>2, PageShows, AnswerKeepsInv

LEMMA PreviewsKeepInv ==
    ASSUME PagesInv, TermsPreviewed \/ DancesPreviewed \/ RecordsPreviewed
    PROVE  PagesInv'
<1>1. PICK c \in calls :
        /\ calls' = calls \ {c} /\ UNCHANGED <<script, server, written, imported, form, listed, sent>>
        /\ \/ script = "terms" /\ upload' = [upload EXCEPT !.file = c.id, !.rows = c.id, !.shown = TRUE, !.busy = FALSE]
           \/ script \in {"dance", "general"} /\ upload' = [upload EXCEPT !.rows = c.id, !.shown = TRUE]
    BY DEF TermsPreviewed, DancesPreviewed, RecordsPreviewed, Previewed, Answered, FileSent
<1>2. c.id \in PageThings /\ upload \in PageUploads
    BY PageShows DEF PageCalls
<1>3. upload' \in PageUploads /\ (script = "terms" => upload'.file = upload'.rows)
    BY <1>1, <1>2 DEF PageUploads
<1> QED
    BY <1>1, <1>3, PageShows, AnswerKeepsInv

\* A lesson is saved as a new record, or in place of one when the owner agrees.
LEMMA SameAnsweredKeepsInv == ASSUME PagesInv, SameAnswered PROVE PagesInv'
<1>1. PICK c \in calls :
        /\ c.kind = "same" /\ UNCHANGED <<script, server, written, imported, form, upload, listed>>
        /\ \/ Send(calls \ {c}, Ask("save", Nothing, c.source))
           \/ \E id \in c.found : Send(calls \ {c}, [Ask("save", id, c.source) EXCEPT !.agreed = TRUE])
           \/ calls' = calls \ {c} /\ UNCHANGED sent
    BY DEF SameAnswered, Answered
<1>2. c.source = Nothing /\ c.source \in PageThings /\ c.found \subseteq PageThings
    BY <1>1, PageShows DEF CallInv, PageCalls
<1>3. CASE calls' = calls \ {c} /\ UNCHANGED sent
    BY <1>1, <1>3, PageShows, AnswerKeepsInv
<1>4. CASE Send(calls \ {c}, Ask("save", Nothing, c.source))
    <2>1. PICK d : d = Ask("save", Nothing, c.source)
        OBVIOUS
    <2>2. {d} \in SUBSET PageCalls /\ d.kind = "save" /\ d.id = Nothing /\ d.source = Nothing /\ sent + 1 \in Nat
        BY <2>1, <1>2, PageShows, Asked DEF CallKinds
    <2>3. CallInv(d)
        BY <2>2 DEF CallInv
    <2>4. calls' = (calls \ {c}) \cup {d} /\ sent' = sent + 1
        BY <2>1, <1>4 DEF Send
    <2> QED
        BY <2>2, <2>3, <2>4, <1>1, PageShows, HandlerKeepsInv
<1>5. CASE \E id \in c.found : Send(calls \ {c}, [Ask("save", id, c.source) EXCEPT !.agreed = TRUE])
    <2>1. PICK id \in c.found : Send(calls \ {c}, [Ask("save", id, c.source) EXCEPT !.agreed = TRUE])
        BY <1>5
    <2>2. PICK a : a = Ask("save", id, c.source)
        OBVIOUS
    <2>3. a \in PageCalls /\ a.kind = "save" /\ sent + 1 \in Nat
        BY <2>1, <2>2, <1>2, PageShows, Asked DEF CallKinds
    <2>4. PICK d : d = [a EXCEPT !.agreed = TRUE]
        OBVIOUS
    <2>5. d \in PageCalls /\ d.kind = "save" /\ d.agreed
        BY <2>3, <2>4 DEF PageCalls
    <2>6. CallInv(d)
        BY <2>5 DEF CallInv
    <2>7. calls' = (calls \ {c}) \cup {d} /\ sent' = sent + 1
        BY <2>1, <2>2, <2>4 DEF Send
    <2>8. {d} \in SUBSET PageCalls /\ calls' \subseteq calls \cup {d}
        BY <2>5, <2>7
    <2> QED
        BY <2>3, <2>6, <2>7, <2>8, <1>1, PageShows, HandlerKeepsInv
<1> QED
    BY <1>1, <1>3, <1>4, <1>5

LEMMA LessonAnswersKeepInv == ASSUME PagesInv, LessonSaved \/ VerifyAnswered PROVE PagesInv'
<1>1. CASE LessonSaved
    <2>1. PICK c \in calls :
            /\ Send(calls \ {c}, Ask("verify", c.id, Nothing))
            /\ UNCHANGED <<script, server, written, imported, form, upload, listed>>
        BY <1>1 DEF LessonSaved, Answered
    <2>2. PICK d : d = Ask("verify", c.id, Nothing)
        OBVIOUS
    <2>3. c.id \in PageThings
        BY PageShows DEF PageCalls
    <2>4. {d} \in SUBSET PageCalls /\ d.kind = "verify" /\ sent + 1 \in Nat
        BY <2>2, <2>3, PageShows, Asked DEF CallKinds
    <2>5. CallInv(d)
        BY <2>4 DEF CallInv
    <2>6. calls' = (calls \ {c}) \cup {d} /\ sent' = sent + 1
        BY <2>1, <2>2 DEF Send
    <2> QED
        BY <2>1, <2>4, <2>5, <2>6, PageShows, HandlerKeepsInv
<1>2. CASE VerifyAnswered
    <2>1. PICK c \in calls :
            /\ form' \in {BlankForm, form} /\ calls' = calls \ {c}
            /\ UNCHANGED <<script, server, written, imported, upload, listed, sent>>
        BY <1>2 DEF VerifyAnswered, Answered
    <2> QED
        BY <2>1, PageShows, Blank, AnswerKeepsInv
<1> QED
    BY <1>1, <1>2

LEMMA FailedKeepsInv == ASSUME PagesInv, Failed PROVE PagesInv'
<1>1. PICK c \in calls :
        /\ form' \in {form, [form EXCEPT !.busy = FALSE]} /\ upload' \in {upload, [upload EXCEPT !.busy = FALSE]}
        /\ calls' = calls \ {c} /\ UNCHANGED <<script, server, listed, sent, written, imported>>
    BY DEF Failed
<1>2. form' \in PageForms /\ form'.editing = form.editing /\ form'.shows = form.shows
    BY <1>1, PageShows, ButtonOnly
<1>3. upload' \in PageUploads /\ upload'.file = upload.file /\ upload'.rows = upload.rows
    BY <1>1, PageShows DEF PageUploads
<1> QED
    BY <1>1, <1>2, <1>3, PageShows, AnswerKeepsInv

LEMMA PagesInvInit == PagesInit => PagesInv
    BY Blank, NoneChosen DEF PagesInit, PagesInv, PagesTypeOK, Lists, SavesGoHome, TermsReviewedFirst, ReviewedFirst

\* PagesInv holds in every behaviour of a page.
THEOREM PagesCorrect == PagesSpec => []PagesInv
<1>1. PagesInit => PagesInv
    BY PagesInvInit
<1>2. PagesInv /\ [PagesNext]_pagesVars => PagesInv'
    <2> SUFFICES ASSUME PagesInv, [PagesNext]_pagesVars PROVE PagesInv'
        OBVIOUS
    <2>1. CASE UNCHANGED pagesVars
        BY <2>1 DEF pagesVars, PagesInv, PagesTypeOK, CallInv, SavesGoHome, TermsReviewedFirst, ReviewedFirst
    <2> QED
        BY <2>1, SubmitsKeepInv, CancelKeepsInv, ListButtonsKeepInv, ChoosesKeepInv, ImportsKeepInv, CancelImportKeepsInv,
           ServeKeepsInv, SaveAnsweredKeepsInv, EditAnsweredKeepsInv, MetaAnsweredKeepsInv, ReloadsKeepInv,
           ListAnsweredKeepsInv, PreviewsKeepInv, SameAnsweredKeepsInv, LessonAnswersKeepInv, FailedKeepsInv DEF PagesNext
<1>3. QED
    BY <1>1, <1>2, PTL DEF PagesSpec

(* Whatever answers come in which order, a save goes to the record whose    *)
(* content the form holds, or to one the owner agreed to replace, and the   *)
(* terminology tab imports a file with the choices made on its own preview  *)
(* (startEdit and edit of the pages, previewFile of terminology.js).        *)
THEOREM PagesHonest == PagesSpec => []PagesSendWhatTheyShow
<1>1. PagesInv => PagesSendWhatTheyShow
    BY DEF PagesInv, PagesSendWhatTheyShow
<1> QED
    BY <1>1, PagesCorrect, PTL

-----------------------------------------------------------------------------
(***************************************************************************)
(* The evidence. What an engine answers, what is kept of it and what a     *)
(* second answer adds have no page twice, and they are arranged by a key   *)
(* that is the trust, so that what is cut off is trusted no more than what *)
(* is left.                                                                *)
(***************************************************************************)
FoundPages == UNION {ToSet(w) : w \in WebAnswers}
AllDifferent(q) == \A i, j \in DOMAIN q : i # j => q[i] # q[j]
DifferentPages == {q \in Seq(FoundPages) : AllDifferent(q)}
CachedPages == {NotLookedUp} \cup [at : Nat, pages : DifferentPages]
EvidenceInv ==
    /\ time \in Nat /\ cached \in [WebQueries -> CachedPages]
    /\ \A q \in WebQueries : cached[q].at <= time
    /\ BestEvidenceOnly

LEMMA AnswersAreDifferent ==
    /\ WebAnswers \subseteq DifferentPages /\ <<>> \in DifferentPages
    /\ \A one \in FoundPages : one.class \in PageClasses
<1>1. \A w \in WebAnswers : w \in Seq(FoundPages) /\ AllDifferent(w)
    BY EvidenceAssumption DEF AllDifferent, FoundPages
<1>2. <<>> \in Seq(FoundPages) /\ AllDifferent(<<>>)
    BY DEF AllDifferent
<1>3. \A one \in FoundPages : \E w \in WebAnswers : \E i \in DOMAIN w : one = w[i]
    BY DEF FoundPages, ToSet
<1> QED
    BY <1>1, <1>2, <1>3, EvidenceAssumption DEF DifferentPages

\* What is arranged is what stood at the places, none twice, and the keys never fall.
LEMMA ArrangedInOrder ==
    ASSUME NEW found \in DifferentPages, NEW keyed, keyed \subseteq Nat \X DOMAIN found,
           \A x, y \in keyed : x[2] = y[2] => x = y
    PROVE  /\ Arranged(found, keyed) \in DifferentPages
           /\ ToSet(Arranged(found, keyed)) = {found[x[2]] : x \in keyed}
           /\ \A k, l \in DOMAIN Arranged(found, keyed) : k < l =>
                \E x, y \in keyed : Arranged(found, keyed)[k] = found[x[2]] /\ Arranged(found, keyed)[l] = found[y[2]] /\ x[1] <= y[1]
<1>1. /\ Len(found) \in Nat /\ DOMAIN found = 1..Len(found) /\ \A i \in DOMAIN found : found[i] \in FoundPages
      /\ AllDifferent(found)
    BY LenProperties DEF DifferentPages
<1>2. IsFiniteSet(keyed)
    <2>1. PICK place : place = [x \in keyed |-> x[2]]
        OBVIOUS
    <2>2. place \in [keyed -> DOMAIN found] /\ \A x, y \in keyed : place[x] = place[y] => x = y
        BY <2>1
    <2>3. place \in Injection(keyed, DOMAIN found)
        BY <2>2, Fun_IsInj
    <2>4. IsFiniteSet(DOMAIN found)
        BY <1>1, FS_Interval
    <2> QED
        BY <2>3, <2>4, FS_Injection
<1>3. keyed \subseteq Nat \X Nat
    BY <1>1
<1>4. PICK order : order = Sorted(keyed)
    OBVIOUS
<1>5. PICK n : n = Cardinality(keyed)
    OBVIOUS
<1>6. /\ n \in Nat /\ order \in [1..n -> keyed]
      /\ \A x \in keyed : \E k \in 1..n : order[k] = x
      /\ \A k, l \in 1..n : k < l => order[k] # order[l] /\ NotAfter(order[k], order[l])
    BY <1>2, <1>3, <1>4, <1>5, SortedInOrder
<1>7. PICK q : q = Arranged(found, keyed)
    OBVIOUS
<1>8. q = [k \in 1..n |-> found[order[k][2]]]
    BY <1>4, <1>6, <1>7 DEF Arranged
<1>9. \A k \in 1..n : order[k] \in keyed /\ order[k][1] \in Nat /\ order[k][2] \in DOMAIN found /\ q[k] = found[order[k][2]] /\ q[k] \in FoundPages
    BY <1>1, <1>6, <1>8
<1>10. q \in Seq(FoundPages) /\ DOMAIN q = 1..n
    BY <1>6, <1>8, <1>9
<1>11. AllDifferent(q)
    <2> SUFFICES ASSUME NEW k \in 1..n, NEW l \in 1..n, k # l PROVE q[k] # q[l]
        BY <1>10 DEF AllDifferent
    <2>1. order[k] # order[l]
        BY <1>6
    <2>2. order[k][2] # order[l][2]
        BY <2>1, <1>9
    <2> QED
        BY <2>2, <1>1, <1>9 DEF AllDifferent
<1>12. ToSet(q) = {found[x[2]] : x \in keyed}
    <2>1. ToSet(q) = {q[k] : k \in 1..n}
        BY <1>10 DEF ToSet
    <2>2. \A k \in 1..n : q[k] \in {found[x[2]] : x \in keyed}
        BY <1>9
    <2>3. ASSUME NEW x \in keyed PROVE found[x[2]] \in ToSet(q)
        <3>1. PICK k \in 1..n : order[k] = x
            BY <1>6
        <3>2. q[k] = found[x[2]]
            BY <3>1, <1>9
        <3> QED
            BY <2>1, <3>2
    <2> QED
        BY <2>1, <2>2, <2>3
<1>13. ASSUME NEW k \in 1..n, NEW l \in 1..n, k < l PROVE order[k][1] <= order[l][1]
    <2>1. PICK a \in Nat, b \in Nat : a = order[k][1] /\ b = order[l][1]
        BY <1>9
    <2>2. NotAfter(order[k], order[l])
        BY <1>6, <1>13
    <2>3. a < b \/ a = b
        BY <2>1, <2>2 DEF NotAfter
    <2> QED
        BY <2>1, <2>3
<1> QED
    BY <1>7, <1>9, <1>10, <1>11, <1>12, <1>13 DEF DifferentPages

LEMMA DifferentAreAsMany ==
    ASSUME NEW q \in DifferentPages PROVE Cardinality(ToSet(q)) = Len(q)
<1>1. Len(q) \in Nat /\ DOMAIN q = 1..Len(q) /\ ToSet(q) = {q[i] : i \in 1..Len(q)} /\ AllDifferent(q)
    BY LenProperties DEF DifferentPages, ToSet
<1>2. PICK f : f = [i \in 1..Len(q) |-> q[i]]
    OBVIOUS
<1>3. f \in [1..Len(q) -> ToSet(q)] /\ \A i, j \in 1..Len(q) : f[i] = f[j] => i = j
    BY <1>1, <1>2 DEF AllDifferent
<1>4. \A one \in ToSet(q) : \E i \in 1..Len(q) : f[i] = one
    BY <1>1, <1>2
<1>5. f \in Bijection(1..Len(q), ToSet(q))
    BY <1>3, <1>4, Fun_IsInj, Fun_IsSurj DEF Bijection
<1>6. PICK n \in Nat : n = Len(q)
    BY <1>1
<1>7. IsFiniteSet(1..n) /\ Cardinality(1..n) = n
    BY FS_Interval
<1> QED
    BY <1>5, <1>6, <1>7, FS_Bijection DEF ExistsBijection

LEMMA CutIsPrefix ==
    ASSUME NEW q \in DifferentPages
    PROVE  /\ Cut(q) \in DifferentPages
           /\ \E m \in Nat : m <= Len(q) /\ DOMAIN Cut(q) = 1..m /\ \A i \in 1..m : Cut(q)[i] = q[i]
<1>1. Len(q) \in Nat /\ DOMAIN q = 1..Len(q) /\ AllDifferent(q) /\ MaxResults \in Nat
    BY LenProperties, EvidenceAssumption DEF DifferentPages
<1>2. PICK m \in Nat : m = IF Len(q) < MaxResults THEN Len(q) ELSE MaxResults
    BY <1>1
<1>3. m <= Len(q) /\ Cut(q) = SubSeq(q, 1, m)
    <2>1. m <= Len(q)
        <3>1. PICK l \in Nat, b \in Nat : l = Len(q) /\ b = MaxResults
            BY <1>1
        <3>2. m = IF l < b THEN l ELSE b
            BY <1>2, <3>1
        <3> QED
            BY <3>1, <3>2
    <2>2. Cut(q) = SubSeq(q, 1, m)
        BY <1>2 DEF Cut
    <2> QED
        BY <2>1, <2>2
<1>4. \A i \in 1..m : q[i] \in FoundPages
    BY <1>1, <1>3, LenProperties DEF DifferentPages
<1>5. Cut(q) \in Seq(FoundPages) /\ Len(Cut(q)) = m /\ \A i \in 1..m : Cut(q)[i] = q[i]
    BY <1>3, <1>4, SubSeqProperties
<1>6. DOMAIN Cut(q) = 1..m
    BY <1>5, LenProperties
<1>7. AllDifferent(Cut(q))
    BY <1>1, <1>3, <1>5, <1>6 DEF AllDifferent
<1> QED
    BY <1>3, <1>5, <1>6, <1>7 DEF DifferentPages

LEMMA TrustIsANumber ==
    ASSUME NEW subject \in PageTopics, NEW one, one.class \in PageClasses \ {"fiction"}
    PROVE  TrustKey(subject, one) \in Nat
<1>1. subject # "none" => \E i \in 1..5 : SourceOrder(subject)[i] = one.class
    <2>1. one.class \in {"health", "reference", "qa", "other", "community"}
        BY DEF PageClasses
    <2>2. PICK order : order = SourceOrder(subject)
        OBVIOUS
    <2>3. \/ order = <<"health", "reference", "qa", "other", "community">>
          \/ order = <<"health", "reference", "qa", "community", "other">>
          \/ order = <<"health", "qa", "reference", "other", "community">>
        BY <2>2 DEF SourceOrder, PageTopics
    <2>4. \E i \in 1..5 : order[i] = one.class
        BY <2>1, <2>3
    <2> QED
        BY <2>2, <2>4
<1>2. subject # "none" => Trust(subject, one) \in 1..5
    BY <1>1 DEF Trust
<1> QED
    BY <1>2 DEF TrustKey

\* What is shown of an answer is the best of it.
LEMMA ShownIsBest ==
    ASSUME NEW found \in DifferentPages, NEW subject \in PageTopics
    PROVE  /\ Cardinality(ToSet(Shown(found, subject))) = Len(Shown(found, subject))
           /\ \A one \in ToSet(Shown(found, subject)) : one.class # "fiction"
           /\ \A one \in ToSet(Shown(found, subject)), other \in ToSet(found) \ ToSet(Shown(found, subject)) :
                other.class # "fiction" => TrustKey(subject, one) <= TrustKey(subject, other)
<1>1. PICK keyed : keyed = {<<TrustKey(subject, found[i]), i>> : i \in {j \in DOMAIN found : found[j].class # "fiction"}}
    OBVIOUS
<1>2. PICK q : q = Ranked(found, subject)
    OBVIOUS
<1>3. q = Arranged(found, keyed)
    BY <1>1, <1>2 DEF Ranked
<1>4. \A i \in DOMAIN found : found[i] \in FoundPages
    BY LenProperties DEF DifferentPages
<1>5. \A i \in DOMAIN found : found[i].class # "fiction" => TrustKey(subject, found[i]) \in Nat
    BY <1>4, AnswersAreDifferent, TrustIsANumber
<1>6. /\ keyed \subseteq Nat \X DOMAIN found /\ \A x, y \in keyed : x[2] = y[2] => x = y
      /\ \A x \in keyed : x[1] = TrustKey(subject, found[x[2]]) /\ found[x[2]].class # "fiction"
      /\ \A i \in DOMAIN found : found[i].class # "fiction" => <<TrustKey(subject, found[i]), i>> \in keyed
    BY <1>1, <1>5
<1>7. /\ q \in DifferentPages /\ ToSet(q) = {found[x[2]] : x \in keyed}
      /\ \A k, l \in DOMAIN q : k < l => \E x, y \in keyed : q[k] = found[x[2]] /\ q[l] = found[y[2]] /\ x[1] <= y[1]
    BY <1>3, <1>6, ArrangedInOrder
<1>8. PICK best : best = Shown(found, subject)
    OBVIOUS
<1>9. best = Cut(q)
    BY <1>2, <1>8 DEF Shown
<1>10. PICK m \in Nat : m <= Len(q) /\ DOMAIN best = 1..m /\ \A i \in 1..m : best[i] = q[i]
    BY <1>7, <1>9, CutIsPrefix
<1>11. Len(q) \in Nat /\ DOMAIN q = 1..Len(q)
    BY <1>7, LenProperties DEF DifferentPages
<1>12. ToSet(best) = {q[i] : i \in 1..m} /\ ToSet(best) \subseteq ToSet(q)
    BY <1>10, <1>11 DEF ToSet
<1>13. \A one \in ToSet(best) : one.class # "fiction"
    BY <1>6, <1>7, <1>12
<1>14. ASSUME NEW one \in ToSet(best), NEW other \in ToSet(found) \ ToSet(best), other.class # "fiction"
       PROVE  TrustKey(subject, one) <= TrustKey(subject, other)
    <2>1. PICK i \in DOMAIN found : other = found[i]
        BY DEF ToSet
    <2>2. other \in ToSet(q)
        <3>1. PICK x : x = <<TrustKey(subject, found[i]), i>>
            OBVIOUS
        <3>2. x \in keyed /\ x[2] = i
            BY <1>6, <1>14, <2>1, <3>1
        <3> QED
            BY <1>7, <2>1, <3>2
    <2>3. PICK l \in 1..Len(q) : other = q[l]
        BY <1>11, <2>2 DEF ToSet
    <2>4. PICK k \in 1..m : one = q[k]
        BY <1>12
    <2>5. l \notin 1..m
        BY <1>12, <2>3
    <2>6. k < l /\ k \in DOMAIN q /\ l \in DOMAIN q
        BY <1>10, <1>11, <2>5
    <2>7. PICK x \in keyed, y \in keyed : one = found[x[2]] /\ other = found[y[2]] /\ x[1] <= y[1]
        BY <1>7, <2>3, <2>4, <2>6
    <2> QED
        BY <1>6, <2>7
<1>15. Cardinality(ToSet(best)) = Len(best)
    BY <1>7, <1>9, CutIsPrefix, DifferentAreAsMany
<1> QED
    BY <1>8, <1>13, <1>14, <1>15

\* Of a second answer nothing is added that the first one has.
LEMMA UnseenIsNew ==
    ASSUME NEW first \in DifferentPages, NEW second \in DifferentPages
    PROVE  first \o NewPages(second, first) \in DifferentPages
<1>1. PICK keyed : keyed = AsTheyCame({i \in DOMAIN second : \A j \in DOMAIN first : first[j].url # second[i].url})
    OBVIOUS
<1>2. /\ keyed \subseteq Nat \X DOMAIN second /\ \A x, y \in keyed : x[2] = y[2] => x = y
      /\ \A x \in keyed, j \in DOMAIN first : first[j].url # second[x[2]].url
    BY <1>1 DEF AsTheyCame
<1>3. PICK more : more = NewPages(second, first)
    OBVIOUS
<1>4. more = Arranged(second, keyed)
    BY <1>1, <1>3 DEF NewPages
<1>5. more \in DifferentPages /\ ToSet(more) = {second[x[2]] : x \in keyed}
    BY <1>2, <1>4, ArrangedInOrder
<1>6. PICK q : q = first \o more
    OBVIOUS
<1>7. /\ first \in Seq(FoundPages) /\ more \in Seq(FoundPages) /\ AllDifferent(first) /\ AllDifferent(more)
    BY <1>5 DEF DifferentPages
<1>8. PICK n \in Nat, m \in Nat : n = Len(first) /\ m = Len(more)
    BY <1>7, LenProperties
<1>9. DOMAIN first = 1..n /\ DOMAIN more = 1..m
    BY <1>7, <1>8, LenProperties
<1>10. /\ q \in Seq(FoundPages) /\ Len(q) = n + m
       /\ \A i \in 1..n + m : q[i] = IF i <= n THEN first[i] ELSE more[i - n]
    BY <1>6, <1>7, <1>8, ConcatProperties
<1>11. DOMAIN q = 1..n + m
    BY <1>10, LenProperties
<1>12. \A i \in 1..n, j \in 1..m : first[i] # more[j]
    <2> SUFFICES ASSUME NEW i \in 1..n, NEW j \in 1..m PROVE first[i] # more[j]
        OBVIOUS
    <2>1. more[j] \in ToSet(more)
        BY <1>9 DEF ToSet
    <2>2. PICK x \in keyed : more[j] = second[x[2]]
        BY <1>5, <2>1
    <2> QED
        BY <1>2, <1>9, <2>2
<1>13. AllDifferent(q)
    <2> SUFFICES ASSUME NEW i \in 1..n + m, NEW j \in 1..n + m, i < j PROVE q[i] # q[j]
        BY <1>11 DEF AllDifferent
    <2>1. CASE j <= n
        <3>1. i \in 1..n /\ j \in 1..n /\ i # j
            BY <2>1
        <3>2. first[i] # first[j]
            BY <3>1, <1>7, <1>9 DEF AllDifferent
        <3> QED
            BY <2>1, <3>1, <3>2, <1>10
    <2>2. CASE i > n
        <3>1. i - n \in 1..m /\ j - n \in 1..m /\ i - n # j - n
            BY <2>2
        <3>2. more[i - n] # more[j - n]
            BY <3>1, <1>7, <1>9 DEF AllDifferent
        <3> QED
            BY <2>2, <3>2, <1>10
    <2>3. CASE i <= n /\ j > n
        <3>1. i \in 1..n /\ j - n \in 1..m
            BY <2>3
        <3> QED
            BY <2>3, <3>1, <1>10, <1>12
    <2> QED
        BY <2>1, <2>2, <2>3
<1> QED
    BY <1>3, <1>6, <1>10, <1>13 DEF DifferentPages

LEMMA PartIsDifferent ==
    ASSUME NEW found \in DifferentPages, NEW places, places \subseteq DOMAIN found
    PROVE  Arranged(found, AsTheyCame(places)) \in DifferentPages
<1>1. AsTheyCame(places) \subseteq Nat \X DOMAIN found /\ \A x, y \in AsTheyCame(places) : x[2] = y[2] => x = y
    BY DEF AsTheyCame
<1> QED
    BY <1>1, ArrangedInOrder

\* What a search shows is the best of what it found; the rest of the evidence stays.
LEMMA SearchShows ==
    ASSUME EvidenceInv, NEW subject \in PageTopics, NEW found \in DifferentPages, NEW age \in Nat, age < CacheTime,
           shown' = [topic |-> subject, retrieved |-> ToSet(found), pages |-> Shown(found, subject), age |-> age], UNCHANGED pieces
    PROVE  BestEvidenceOnly'
<1>1. /\ shown'.topic = subject /\ shown'.retrieved = ToSet(found) /\ shown'.pages = Shown(found, subject) /\ shown'.age = age
    OBVIOUS
<1>2. EvidenceIsRecent' /\ GoodPiecesTaken'
    BY <1>1 DEF EvidenceIsRecent, EvidenceInv, BestEvidenceOnly, GoodPiecesTaken
<1>3. \A one, other : subject # "none" => TrustKey(subject, one) = Trust(subject, one) /\ TrustKey(subject, other) = Trust(subject, other)
    BY DEF TrustKey
<1>4. BestSourcesShown'
    BY <1>1, <1>3, ShownIsBest DEF BestSourcesShown
<1> QED
    BY <1>2, <1>4 DEF BestEvidenceOnly

LEMMA BraveKeeps == ASSUME EvidenceInv, NEW subject \in PageTopics, SearchBrave(subject) PROVE EvidenceInv'
<1>1. PICK sites \in IF SitesFirst(subject) THEN {OfPreferred(w, subject) : w \in WebAnswers} \cup {<<>>} ELSE {<<>>},
           open \in WebAnswers \cup {<<>>} :
        LET fromSites == Cut(sites)
            found == IF Len(fromSites) < MaxResults THEN fromSites \o NewPages(Cut(open), fromSites) ELSE fromSites
        IN shown' = [topic |-> subject, retrieved |-> ToSet(found), pages |-> Shown(found, subject), age |-> 0]
    BY DEF SearchBrave
<1>2. sites \in DifferentPages /\ open \in DifferentPages
    <2>1. \A w \in WebAnswers : OfPreferred(w, subject) \in DifferentPages
        BY AnswersAreDifferent, PartIsDifferent DEF OfPreferred
    <2> QED
        BY <2>1, AnswersAreDifferent
<1>3. PICK found : /\ found = IF Len(Cut(sites)) < MaxResults THEN Cut(sites) \o NewPages(Cut(open), Cut(sites)) ELSE Cut(sites)
                   /\ shown' = [topic |-> subject, retrieved |-> ToSet(found), pages |-> Shown(found, subject), age |-> 0]
    BY <1>1
<1>4. Cut(sites) \in DifferentPages /\ Cut(open) \in DifferentPages
    BY <1>2, CutIsPrefix
<1>5. Cut(sites) \o NewPages(Cut(open), Cut(sites)) \in DifferentPages
    BY <1>4, UnseenIsNew
<1>6. found \in DifferentPages
    BY <1>3, <1>4, <1>5
<1>7. UNCHANGED <<cached, time, pieces>>
    BY DEF SearchBrave
<1>8. 0 \in Nat /\ 0 < CacheTime
    BY EvidenceAssumption
<1>9. BestEvidenceOnly'
    BY <1>3, <1>6, <1>7, <1>8, SearchShows
<1> QED
    BY <1>7, <1>9 DEF EvidenceInv

LEMMA WikipediaKeeps == ASSUME EvidenceInv, NEW q \in WebQueries, NEW subject \in PageTopics, SearchWikipedia(q, subject) PROVE EvidenceInv'
<1>1. UNCHANGED <<time, pieces>> /\ time \in Nat /\ cached \in [WebQueries -> CachedPages] /\ cached[q] \in CachedPages
      /\ CacheTime \in Nat /\ 0 < CacheTime
    BY EvidenceAssumption DEF SearchWikipedia, EvidenceInv
<1>2. CASE StillFresh(q)
    <2>1. shown' = [topic |-> subject, retrieved |-> ToSet(cached[q].pages), pages |-> Shown(cached[q].pages, subject), age |-> time - cached[q].at]
          /\ UNCHANGED cached
        BY <1>2 DEF SearchWikipedia
    <2>2. cached[q] # NotLookedUp /\ time - cached[q].at < CacheTime /\ cached[q].at <= time
        BY <1>2 DEF StillFresh, EvidenceInv
    <2>3. cached[q].pages \in DifferentPages /\ cached[q].at \in Nat
        BY <1>1, <2>2 DEF CachedPages
    <2>4. time - cached[q].at \in Nat
        BY <1>1, <2>2, <2>3
    <2>5. BestEvidenceOnly'
        BY <1>1, <2>1, <2>2, <2>3, <2>4, SearchShows
    <2> QED
        BY <1>1, <2>1, <2>5 DEF EvidenceInv
<1>3. CASE ~StillFresh(q)
    <2>1. PICK w \in WebAnswers \cup {<<>>} :
            LET found == Arranged(w, AsTheyCame({i \in DOMAIN w : w[i].class = "reference"}))
            IN /\ cached' = [cached EXCEPT ![q] = [at |-> time, pages |-> found]]
               /\ shown' = [topic |-> subject, retrieved |-> ToSet(found), pages |-> Shown(found, subject), age |-> 0]
        BY <1>3 DEF SearchWikipedia
    <2>2. PICK found : /\ found = Arranged(w, AsTheyCame({i \in DOMAIN w : w[i].class = "reference"}))
                       /\ cached' = [cached EXCEPT ![q] = [at |-> time, pages |-> found]]
                       /\ shown' = [topic |-> subject, retrieved |-> ToSet(found), pages |-> Shown(found, subject), age |-> 0]
        BY <2>1
    <2>3. found \in DifferentPages
        BY <2>2, AnswersAreDifferent, PartIsDifferent
    <2>4. BestEvidenceOnly'
        BY <1>1, <2>2, <2>3, SearchShows
    <2>5. [at |-> time, pages |-> found] \in CachedPages
        BY <1>1, <2>3 DEF CachedPages
    <2>6. cached' \in [WebQueries -> CachedPages]
        BY <1>1, <2>2, <2>5
    <2>7. \A p \in WebQueries : cached'[p].at <= time
        <3> SUFFICES ASSUME NEW p \in WebQueries PROVE cached'[p].at <= time
            OBVIOUS
        <3>1. CASE p = q
            BY <1>1, <2>2, <3>1
        <3>2. CASE p # q
            BY <1>1, <2>2, <3>2 DEF EvidenceInv
        <3> QED
            BY <3>1, <3>2
    <2> QED
        BY <1>1, <2>4, <2>6, <2>7 DEF EvidenceInv
<1> QED
    BY <1>2, <1>3

\* What is taken of the TopK best pieces is good enough, and the good ones that are not taken are none of those.
LEMMA GoodAreTaken ==
    ASSUME NEW found \in IndexAnswers, NEW top \in Nearest(found), NEW strict \in BOOLEAN,
           NEW kept, kept = Relevant({p \in top : p.score >= MinScore}, strict)
    PROVE  /\ kept \subseteq GoodPieces(found, strict)
           /\ \A p \in GoodPieces(found, strict) \ kept : Cardinality(AsNear(p, found)) >= TopK
<1>1. IsFiniteSet(found) /\ (\A p \in found : p.score \in Int) /\ MinScore \in Int /\ Margin \in Nat /\ TopK \in Nat
    BY EvidenceAssumption
<1>2. /\ top \subseteq found /\ Cardinality(top) = (IF Cardinality(found) < TopK THEN Cardinality(found) ELSE TopK)
      /\ \A p \in top, q \in found \ top : q.score <= p.score
    BY DEF Nearest
<1>4. ASSUME NEW p \in kept PROVE p \in GoodPieces(found, strict)
    <2>1. p \in top /\ ~p.hidden /\ p.score >= MinScore /\ (strict => p.shares) /\ p \in found
        BY <1>2, <1>4 DEF Relevant, Visible
    <2>2. \A q \in top : q.score >= MinScore /\ ~q.hidden => p.score >= q.score - Margin
        BY <1>4 DEF Relevant, Visible, Close
    <2>3. ASSUME NEW q \in Visible(found) PROVE p.score >= q.score - Margin
        <3>1. q \in found /\ ~q.hidden /\ q.score \in Int /\ p.score \in Int
            BY <1>1, <2>1 DEF Visible
        <3>2. CASE q \in top /\ q.score >= MinScore
            BY <2>2, <3>1, <3>2
        <3>3. CASE q \in top /\ ~(q.score >= MinScore)
            BY <1>1, <2>1, <3>1, <3>3
        <3>4. CASE q \notin top
            <4>1. q.score <= p.score
                BY <1>2, <2>1, <3>1, <3>4
            <4> QED
                BY <1>1, <3>1, <4>1
        <3> QED
            BY <3>2, <3>3, <3>4
    <2> QED
        BY <2>1, <2>3 DEF GoodPieces, Visible, Close
<1>5. ASSUME NEW p \in GoodPieces(found, strict) \ kept PROVE Cardinality(AsNear(p, found)) >= TopK
    <2>1. p \in found /\ ~p.hidden /\ p.score >= MinScore /\ (strict => p.shares) /\ Close(p, Visible(found))
        BY <1>5 DEF GoodPieces, Visible
    <2>2. p \notin top
        <3>1. ASSUME p \in top PROVE p \in Relevant({q \in top : q.score >= MinScore}, strict)
            <4>1. \A q \in Visible({r \in top : r.score >= MinScore}) : q \in Visible(found)
                BY <1>2 DEF Visible
            <4>2. Close(p, Visible({q \in top : q.score >= MinScore}))
                BY <2>1, <4>1 DEF Close
            <4>3. p \in Visible({q \in top : q.score >= MinScore})
                BY <2>1, <3>1 DEF Visible
            <4> QED
                BY <2>1, <4>2, <4>3 DEF Relevant
        <3> QED
            BY <1>5, <3>1
    <2> DEFINE nearer == AsNear(p, found)
    <2>3. nearer \subseteq found /\ IsFiniteSet(nearer) /\ IsFiniteSet(top)
        BY <1>1, <1>2, FS_Subset DEF AsNear
    <2>4. top \subseteq nearer
        <3>1. ASSUME NEW q \in top PROVE q \in nearer
            <4>1. q \in found /\ p.score <= q.score /\ p.score \in Int /\ q.score \in Int /\ q # p
                BY <1>1, <1>2, <2>1, <2>2, <3>1
            <4> QED
                BY <4>1 DEF AsNear
        <3> QED
            BY <3>1
    <2>5. Cardinality(top) <= Cardinality(nearer) /\ Cardinality(nearer) \in Nat
        BY <2>3, <2>4, FS_Subset, FS_CardinalityType
    <2>6. Cardinality(top) # Cardinality(found)
        BY <1>1, <1>2, <2>1, <2>2, FS_Subset
    <2>7. Cardinality(top) = TopK
        BY <1>2, <2>6
    <2> QED
        BY <1>1, <2>5, <2>7
<1> QED
    BY <1>4, <1>5

LEMMA EvidenceBegins == EvidenceInit => EvidenceInv
<1> SUFFICES ASSUME EvidenceInit PROVE EvidenceInv
    OBVIOUS
<1>1. cached \in [WebQueries -> CachedPages] /\ time \in Nat /\ \A q \in WebQueries : cached[q].at <= time
    BY DEF EvidenceInit, CachedPages, NotLookedUp
<1>2. BestSourcesShown
    <2>1. shown.topic = "none" /\ shown.pages = <<>>
        BY DEF EvidenceInit, NothingShown
    <2>2. ToSet(<<>>) = {} /\ Len(<<>>) = 0
        BY DEF ToSet
    <2>3. Cardinality({}) = 0
        BY FS_EmptySet
    <2> QED
        BY <2>1, <2>2, <2>3 DEF BestSourcesShown
<1>3. EvidenceIsRecent
    BY EvidenceAssumption DEF EvidenceInit, NothingShown, EvidenceIsRecent
<1>4. GoodPiecesTaken
    <2>1. pieces.kept = {} /\ pieces.found = {} /\ pieces.strict = FALSE
        BY DEF EvidenceInit, NoPieces
    <2> QED
        BY <2>1 DEF GoodPiecesTaken, GoodPieces, Visible
<1> QED
    BY <1>1, <1>2, <1>3, <1>4 DEF EvidenceInv, BestEvidenceOnly

LEMMA EvidenceStep == EvidenceInv /\ [EvidenceNext]_evidenceVars => EvidenceInv'
<1> SUFFICES ASSUME EvidenceInv, [EvidenceNext]_evidenceVars PROVE EvidenceInv'
    OBVIOUS
<1>1. ASSUME UNCHANGED shown PROVE BestSourcesShown' /\ EvidenceIsRecent'
    BY <1>1 DEF EvidenceInv, BestEvidenceOnly, BestSourcesShown, EvidenceIsRecent
<1>2. ASSUME UNCHANGED pieces PROVE GoodPiecesTaken'
    BY <1>2 DEF EvidenceInv, BestEvidenceOnly, GoodPiecesTaken
<1>3. CASE UNCHANGED evidenceVars
    <2>1. UNCHANGED <<cached, time, shown, pieces>>
        BY <1>3 DEF evidenceVars
    <2> QED
        BY <1>1, <1>2, <2>1 DEF EvidenceInv, BestEvidenceOnly
<1>4. CASE TimePasses
    <2>1. UNCHANGED <<cached, shown, pieces>> /\ time' = time + 1
        BY <1>4 DEF TimePasses
    <2>2. time \in Nat /\ cached \in [WebQueries -> CachedPages]
        BY DEF EvidenceInv
    <2>3. ASSUME NEW q \in WebQueries PROVE cached[q].at <= time + 1
        <3>1. cached[q] \in CachedPages /\ cached[q].at <= time
            BY <2>2 DEF EvidenceInv
        <3>2. cached[q].at \in Int
            BY <3>1 DEF CachedPages, NotLookedUp
        <3> QED
            BY <2>2, <3>1, <3>2
    <2> QED
        BY <1>1, <1>2, <2>1, <2>2, <2>3 DEF EvidenceInv, BestEvidenceOnly
<1>5. ASSUME NEW strict \in BOOLEAN, QueryDocuments(strict) PROVE EvidenceInv'
    <2>1. PICK found \in IndexAnswers : \E top \in Nearest(found) :
              pieces' = [strict |-> strict, found |-> found, kept |-> Relevant({p \in top : p.score >= MinScore}, strict)]
        BY <1>5 DEF QueryDocuments
    <2>2. PICK top \in Nearest(found) :
              pieces' = [strict |-> strict, found |-> found, kept |-> Relevant({p \in top : p.score >= MinScore}, strict)]
        BY <2>1
    <2>a. GoodPiecesTaken'
        <3>1. pieces'.strict = strict /\ pieces'.found = found /\ pieces'.kept = Relevant({p \in top : p.score >= MinScore}, strict)
            BY <2>2
        <3> QED
            BY <3>1, GoodAreTaken DEF GoodPiecesTaken
    <2>3. UNCHANGED <<cached, time, shown>>
        BY <1>5 DEF QueryDocuments
    <2> QED
        BY <1>1, <2>a, <2>3 DEF EvidenceInv, BestEvidenceOnly
<1> QED
    BY <1>3, <1>4, <1>5, BraveKeeps, WikipediaKeeps DEF EvidenceNext

THEOREM EvidenceInvariant == EvidenceSpec => []EvidenceInv
    BY EvidenceBegins, EvidenceStep, PTL DEF EvidenceSpec

(* For every answer an engine may give, however old the cache: a page is   *)
(* shown only with every better one that was found, none twice and no      *)
(* fiction, nothing is older than the cache's time, and a piece of the     *)
(* documents that is good enough is taken unless TopK pieces, those of     *)
(* tooling files among them, are at least as near                          *)
(* (search_with_policy, WikipediaProvider.search, RagPipeline.query).      *)
THEOREM BestIsShown == EvidenceSpec => []BestEvidenceOnly
<1>1. EvidenceInv => BestEvidenceOnly
    BY DEF EvidenceInv
<1> QED
    BY EvidenceInvariant, <1>1, PTL

-----------------------------------------------------------------------------
(***************************************************************************)
(* The topics. Every look-up returns at most two entries of its store, of  *)
(* those that are switched on; so a turn has no more of a store than a     *)
(* follow-up can carry on.                                                 *)
(***************************************************************************)
Everything == Terms \cup Dances \cup Generals
MatchScores == {75, 80, 90, 95, 100}
Scored(matches) == IsFiniteSet(matches) /\ \A a \in matches : a.score \in MatchScores
FewOf(store, matches) ==
    Scored(matches) /\ Cardinality(matches) <= Limit /\ \A a \in matches : a.entry \in store \cap enabled
FewOfEach(entries) ==
    entries \in SUBSET Everything /\ \A store \in Stores : Cardinality(entries \cap store) <= Limit
LanguageStates == {NoLanguage} \cup {[wanted |-> m.language, lasting |-> m.lasting] : m \in TopicMessages}
TurnsUnderWay ==
    {[message |-> m, used |-> u, language |-> ResolveLanguage(m, l), inherited |-> l] :
        m \in TopicMessages, u \in {u \in SUBSET Everything : FewOfEach(u)}, l \in LanguageStates}
TopicsInv ==
    /\ enabled \subseteq Everything /\ FewOfEach(topic)
    /\ chat \in [Chats -> {NoTurnYet} \cup TurnsUnderWay]
    /\ language \in LanguageStates

LEMMA ImageOf ==
    ASSUME NEW f, IsFiniteSet(DOMAIN f)
    PROVE  /\ IsFiniteSet({f[x] : x \in DOMAIN f})
           /\ Cardinality({f[x] : x \in DOMAIN f}) <= Cardinality(DOMAIN f)
<1>1. PICK T : T = {f[x] : x \in DOMAIN f}
    OBVIOUS
<1>2. PICK g : g = [x \in DOMAIN f |-> f[x]]
    OBVIOUS
<1>3. g \in Surjection(DOMAIN f, T)
    BY <1>1, <1>2 DEF Surjection
<1> QED
    BY <1>1, <1>3, FS_Surjection

\* Some match has the highest score.
LEMMA HighestScore ==
    ASSUME NEW S, S # {}, Scored(S)
    PROVE  \E a \in S : \A b \in S : a.score >= b.score
<1>1. \A a \in S : a.score \in MatchScores
    BY DEF Scored
<1>2. CASE \E a \in S : a.score = 100
    BY <1>1, <1>2 DEF MatchScores
<1>3. CASE ~(\E a \in S : a.score = 100) /\ \E a \in S : a.score = 95
    BY <1>1, <1>3 DEF MatchScores
<1>4. CASE ~(\E a \in S : a.score \in {95, 100}) /\ \E a \in S : a.score = 90
    BY <1>1, <1>4 DEF MatchScores
<1>5. CASE ~(\E a \in S : a.score \in {90, 95, 100}) /\ \E a \in S : a.score = 80
    BY <1>1, <1>5 DEF MatchScores
<1>6. CASE ~(\E a \in S : a.score \in {80, 90, 95, 100}) /\ \E a \in S : a.score = 75
    BY <1>1, <1>6 DEF MatchScores
<1> QED
    BY <1>1, <1>2, <1>3, <1>4, <1>5, <1>6 DEF MatchScores

\* There are matches that no other match beats: none, one or two of them.
LEMMA BestExist ==
    ASSUME NEW S, Scored(S), NEW k \in 0..2, Cardinality(S) > k
    PROVE  \E s \in SUBSET S : Cardinality(s) = k /\ \A a \in s, b \in S \ s : a.score >= b.score
<1>1. IsFiniteSet(S) /\ Cardinality(S) \in Nat /\ \A a \in S : a.score \in MatchScores
    BY FS_CardinalityType DEF Scored
<1>2. Cardinality({}) = 0 /\ IsFiniteSet({})
    BY FS_EmptySet
<1>3. CASE k = 0
    BY <1>2, <1>3
<1>4. ASSUME k # 0 PROVE \E s \in SUBSET S : Cardinality(s) = k /\ \A a \in s, b \in S \ s : a.score >= b.score
    <2>1. S # {}
        BY <1>1, <1>2, <1>4
    <2>2. PICK a \in S : \A b \in S : a.score >= b.score
        BY <2>1, HighestScore
    <2>3. Cardinality({a}) = 1 /\ IsFiniteSet({a})
        BY FS_Singleton
    <2>4. CASE k = 1
        BY <2>2, <2>3, <2>4
    <2>5. CASE k = 2
        <3>1. IsFiniteSet(S \ {a}) /\ Cardinality(S \ {a}) = Cardinality(S) - 1
            BY <1>1, FS_RemoveElement
        <3>2. S \ {a} # {} /\ Scored(S \ {a})
            BY <1>1, <1>2, <2>5, <3>1 DEF Scored
        <3>3. PICK b \in S \ {a} : \A d \in S \ {a} : b.score >= d.score
            BY <3>2, HighestScore
        <3>4. Cardinality({a} \cup {b}) = 2
            <4>1. b \notin {a}
                BY <3>3
            <4>2. Cardinality({a} \cup {b}) = Cardinality({a}) + 1
                BY <2>3, <4>1, FS_AddElement
            <4> QED
                BY <2>3, <4>2
        <3>5. {a} \cup {b} \in SUBSET S
            BY <3>3
        <3>6. \A x \in {a} \cup {b}, y \in S \ ({a} \cup {b}) : x.score >= y.score
            BY <2>2, <3>3
        <3> QED
            BY <2>5, <3>4, <3>5, <3>6
    <2> QED
        BY <1>4, <2>4, <2>5
<1> QED
    BY <1>3, <1>4

LEMMA BestOf ==
    ASSUME NEW S, Scored(S), NEW k \in 0..2
    PROVE  /\ Best(S, k) \subseteq S /\ Scored(Best(S, k))
           /\ Cardinality(Best(S, k)) \in 0..k
           /\ Cardinality(S) <= k => Best(S, k) = S
           /\ k # 0 /\ S # {} => Best(S, k) # {}
<1>1. IsFiniteSet(S) /\ Cardinality(S) \in Nat /\ \A a \in S : a.score \in MatchScores
    BY FS_CardinalityType DEF Scored
<1>2. PICK B : B = Best(S, k)
    OBVIOUS
<1>3. CASE Cardinality(S) <= k
    <2>1. B = S
        BY <1>2, <1>3 DEF Best
    <2> QED
        BY <1>1, <1>2, <1>3, <2>1 DEF Scored
<1>4. CASE Cardinality(S) > k
    <2>1. B = CHOOSE s \in SUBSET S : Cardinality(s) = k /\ \A a \in s, b \in S \ s : a.score >= b.score
        <3>1. ~(Cardinality(S) <= k)
            BY <1>1, <1>4
        <3> QED
            BY <1>2, <3>1, Zenon DEF Best
    <2>2. \E s \in SUBSET S : Cardinality(s) = k /\ \A a \in s, b \in S \ s : a.score >= b.score
        BY <1>4, BestExist
    <2>3. B \in SUBSET S /\ Cardinality(B) = k
        BY <2>1, <2>2
    <2>4. IsFiniteSet(B)
        BY <1>1, <2>3, FS_Subset
    <2>5. k # 0 => B # {}
        BY <2>3, FS_EmptySet
    <2> QED
        BY <1>1, <1>2, <1>4, <2>3, <2>4, <2>5 DEF Scored
<1> QED
    BY <1>1, <1>3, <1>4

-----------------------------------------------------------------------------
(* The look-up *)

\* An entry has one piece of evidence at most, of a kind that tells how the message has it.
LEMMA EvidenceOf ==
    ASSUME NEW e, NEW m, NEW candidate
    PROVE  /\ \E x : Evidence(e, m, candidate) \subseteq {x}
           /\ \A a \in Evidence(e, m, candidate) :
                /\ a.entry = e /\ a.score \in MatchScores
                /\ a.how = "exact" => e = candidate
                /\ e \in m.mentions /\ e # candidate => a.how = "phrase"
                /\ a.how = "phrase" => e \in m.mentions
           /\ e = candidate => \E a \in Evidence(e, m, candidate) : a.how = "exact"
           /\ e # candidate /\ e \in m.mentions => \E a \in Evidence(e, m, candidate) : a.how = "phrase"
<1>1. CASE candidate = e
    <2>1. PICK x : x = [entry |-> e, how |-> "exact", score |-> 100]
        OBVIOUS
    <2>2. Evidence(e, m, candidate) = {x}
        BY <1>1, <2>1 DEF Evidence
    <2>3. x.entry = e /\ x.how = "exact" /\ x.score \in MatchScores
        BY <2>1 DEF MatchScores
    <2> QED
        BY <1>1, <2>2, <2>3
<1>2. CASE candidate # e /\ e \in m.mentions
    <2>1. PICK x : x = [entry |-> e, how |-> "phrase", score |-> IF candidate = NoName THEN 90 ELSE 75]
        OBVIOUS
    <2>2. Evidence(e, m, candidate) = {x}
        BY <1>2, <2>1 DEF Evidence
    <2>3. x.entry = e /\ x.how = "phrase" /\ x.score \in MatchScores
        BY <2>1 DEF MatchScores
    <2> QED
        BY <1>2, <2>2, <2>3
<1>3. CASE candidate # e /\ e \notin m.mentions /\ <<candidate, e>> \in Misspelt /\ candidate \notin CommonNames
    <2>1. PICK x : x = [entry |-> e, how |-> "fuzzy", score |-> 80]
        OBVIOUS
    <2>2. Evidence(e, m, candidate) = {x}
        BY <1>3, <2>1 DEF Evidence
    <2>3. x.entry = e /\ x.how = "fuzzy" /\ x.score \in MatchScores
        BY <2>1 DEF MatchScores
    <2> QED
        BY <1>3, <2>2, <2>3
<1>4. CASE candidate # e /\ e \notin m.mentions /\ ~(<<candidate, e>> \in Misspelt /\ candidate \notin CommonNames)
    <2>1. Evidence(e, m, candidate) = {}
        BY <1>4 DEF Evidence
    <2> QED
        BY <1>4, <2>1
<1> QED
    BY <1>1, <1>2, <1>3, <1>4

AllEvidence(entries, m, candidate) == UNION {Evidence(e, m, candidate) : e \in entries}
\* What is left when a name within the candidate, of which there is an exact match, is dropped.
AsIs(entries, m, candidate) ==
    {a \in AllEvidence(entries, m, candidate) :
        ~(/\ a.how = "phrase" /\ \E b \in AllEvidence(entries, m, candidate) : b.how = "exact"
          /\ <<a.entry, candidate>> \in Within)}
LEMMA MatchesOf ==
    ASSUME NEW entries, NEW m, NEW candidate
    PROVE  MatchRecords(entries, m, candidate) =
             {a \in AsIs(entries, m, candidate) :
                ~(a.how = "phrase" /\ \E b \in AsIs(entries, m, candidate) :
                                         b.how \in {"exact", "phrase"} /\ <<a.entry, b.entry>> \in Within)}
    BY DEF MatchRecords, AsIs, AllEvidence

LEMMA MatchesAreScored ==
    ASSUME NEW entries, IsFiniteSet(entries), NEW m, NEW candidate
    PROVE  /\ Scored(MatchRecords(entries, m, candidate))
           /\ \A a \in MatchRecords(entries, m, candidate) : a.entry \in entries /\ a \in Evidence(a.entry, m, candidate)
<1>1. PICK f : f = [e \in entries |-> Evidence(e, m, candidate)]
    OBVIOUS
<1>2. IsFiniteSet({f[e] : e \in DOMAIN f})
    BY <1>1, ImageOf
<1>3. \A T \in {f[e] : e \in DOMAIN f} : IsFiniteSet(T)
    <2> SUFFICES ASSUME NEW e \in entries PROVE IsFiniteSet(Evidence(e, m, candidate))
        BY <1>1
    <2>1. PICK x : Evidence(e, m, candidate) \subseteq {x}
        BY EvidenceOf
    <2>2. IsFiniteSet({x})
        BY FS_Singleton
    <2> QED
        BY <2>1, <2>2, FS_Subset
<1>4. IsFiniteSet(UNION {f[e] : e \in DOMAIN f})
    BY <1>2, <1>3, FS_UNION
<1>5. UNION {f[e] : e \in DOMAIN f} = AllEvidence(entries, m, candidate)
    BY <1>1 DEF AllEvidence
<1>6. PICK M : M = MatchRecords(entries, m, candidate)
    OBVIOUS
<1>7. M \subseteq AllEvidence(entries, m, candidate)
    BY <1>6, MatchesOf DEF AsIs
<1>8. IsFiniteSet(M)
    BY <1>4, <1>5, <1>7, FS_Subset
<1>9. \A a \in M : \E e \in entries : a \in Evidence(e, m, candidate)
    BY <1>7 DEF AllEvidence
<1>10. \A a \in M : a.score \in MatchScores /\ a.entry \in entries /\ a \in Evidence(a.entry, m, candidate)
    BY <1>9, EvidenceOf
<1> QED
    BY <1>6, <1>8, <1>10 DEF Scored

\* A name that is part of another one in the message is not found where that one is.
LEMMA PartsAreNotFound ==
    ASSUME NEW entries, NEW m, NEW candidate, NEW g \in entries \cap m.mentions,
           NEW a \in MatchRecords(entries, m, candidate), a.how = "phrase", <<a.entry, g>> \in Within
    PROVE  FALSE
<1>1. PICK all, asIs : all = AllEvidence(entries, m, candidate) /\ asIs = AsIs(entries, m, candidate)
    OBVIOUS
<1>2. PICK b \in Evidence(g, m, candidate) : b.how \in {"exact", "phrase"} /\ b.entry = g /\ (b.how = "exact" => g = candidate)
    BY EvidenceOf
<1>3. b \in all
    BY <1>1 DEF AllEvidence
<1>4. a \in asIs
    BY <1>1, MatchesOf
<1>5. b \notin asIs
    BY <1>1, <1>2, MatchesOf
<1>6. b.how = "phrase" /\ (\E x \in all : x.how = "exact") /\ <<g, candidate>> \in Within
    BY <1>1, <1>2, <1>3, <1>5 DEF AsIs
<1>7. <<a.entry, candidate>> \in Within
    BY <1>6, TopicsAssumption
<1> QED
    BY <1>1, <1>4, <1>6, <1>7 DEF AsIs

\* If nothing is matched exactly, and a name that contains another is in the message, one that contains it is found.
LEMMA LongerIsFound ==
    ASSUME NEW entries \in SUBSET Generals, NEW m, NEW candidate, candidate \notin entries, NEW g \in entries \cap m.mentions,
           NEW e, <<e, g>> \in Within
    PROVE  \E b \in MatchRecords(entries, m, candidate) : <<e, b.entry>> \in Within /\ b.how = "phrase"
<1>1. PICK longer : longer = {h \in entries \cap m.mentions : <<e, h>> \in Within}
    OBVIOUS
<1>2. PICK h \in longer : \A o \in longer : <<h, o>> \notin Within
    <2>1. longer \in SUBSET Generals /\ longer # {}
        BY <1>1
    <2> QED
        BY <2>1, TopicsAssumption
<1>3. h \in entries /\ h \in m.mentions /\ <<e, h>> \in Within /\ h # candidate
    BY <1>1, <1>2
<1>4. PICK b \in Evidence(h, m, candidate) : b.how = "phrase" /\ b.entry = h
    BY <1>3, EvidenceOf
<1>5. PICK all, asIs : all = AllEvidence(entries, m, candidate) /\ asIs = AsIs(entries, m, candidate)
    OBVIOUS
<1>6. \A x \in all : x.entry \in entries /\ x \in Evidence(x.entry, m, candidate) /\ x.how # "exact"
    BY <1>5, EvidenceOf DEF AllEvidence
<1>7. asIs = all
    BY <1>5, <1>6 DEF AsIs
<1>8. b \in all
    BY <1>3, <1>4, <1>5 DEF AllEvidence
<1>9. ASSUME NEW o \in all, o.how = "phrase", <<h, o.entry>> \in Within PROVE FALSE
    <2>1. o.entry \in m.mentions
        BY <1>6, <1>9, EvidenceOf
    <2>2. <<e, o.entry>> \in Within
        BY <1>3, <1>9, TopicsAssumption
    <2> QED
        BY <1>1, <1>2, <1>6, <1>9, <2>1, <2>2
<1>10. b \in MatchRecords(entries, m, candidate)
    <2>1. ~\E x \in asIs : x.how \in {"exact", "phrase"} /\ <<b.entry, x.entry>> \in Within
        BY <1>4, <1>6, <1>7, <1>9
    <2> QED
        BY <1>5, <1>7, <1>8, <2>1, MatchesOf
<1> QED
    BY <1>3, <1>4, <1>10

\* An exact match is never dropped.
LEMMA ExactIsFound ==
    ASSUME NEW entries, NEW m, NEW candidate \in entries
    PROVE  \E a \in MatchRecords(entries, m, candidate) : a.how = "exact" /\ a.entry = candidate
<1>1. PICK a \in Evidence(candidate, m, candidate) : a.how = "exact" /\ a.entry = candidate
    BY EvidenceOf
<1>2. a \in AllEvidence(entries, m, candidate)
    BY DEF AllEvidence
<1>3. a \in AsIs(entries, m, candidate)
    BY <1>1, <1>2 DEF AsIs
<1> QED
    BY <1>1, <1>3, MatchesOf

LEMMA FewerOf ==
    ASSUME NEW store, NEW S, FewOf(store, S), NEW T \in SUBSET S
    PROVE  FewOf(store, T)
<1>1. IsFiniteSet(S) /\ Cardinality(S) \in Nat
    BY FS_CardinalityType DEF FewOf, Scored
<1>2. IsFiniteSet(T) /\ Cardinality(T) <= Cardinality(S) /\ Cardinality(T) \in Nat
    BY <1>1, FS_Subset, FS_CardinalityType
<1>3. Cardinality(T) <= Limit
    BY <1>1, <1>2 DEF FewOf, Limit
<1> QED
    BY <1>2, <1>3 DEF FewOf, Scored

LEMMA BestAreFew ==
    ASSUME NEW store, NEW S, Scored(S), \A a \in S : a.entry \in store \cap enabled, NEW k \in 0..2
    PROVE  FewOf(store, Best(S, k))
<1>1. Best(S, k) \subseteq S /\ Scored(Best(S, k)) /\ Cardinality(Best(S, k)) \in 0..k
    BY BestOf
<1> QED
    BY <1>1 DEF FewOf, Limit

\* What two look-ups with two entries between them found.
LEMMA FewTogether ==
    ASSUME NEW store, NEW S, FewOf(store, S), NEW T, FewOf(store, T), Cardinality(S) + Cardinality(T) <= Limit
    PROVE  FewOf(store, S \cup T)
<1>1. /\ IsFiniteSet(S) /\ IsFiniteSet(T) /\ IsFiniteSet(S \cap T)
      /\ Cardinality(S) \in Nat /\ Cardinality(T) \in Nat /\ Cardinality(S \cap T) \in Nat
    <2>1. IsFiniteSet(S) /\ IsFiniteSet(T)
        BY DEF FewOf, Scored
    <2>2. IsFiniteSet(S \cap T)
        BY <2>1, FS_Subset
    <2> QED
        BY <2>1, <2>2, FS_CardinalityType
<1>2. IsFiniteSet(S \cup T) /\ Cardinality(S \cup T) = Cardinality(S) + Cardinality(T) - Cardinality(S \cap T)
    BY <1>1, FS_Union
<1>3. Cardinality(S \cup T) <= Limit
    BY <1>1, <1>2 DEF Limit
<1> QED
    BY <1>2, <1>3 DEF FewOf, Scored

LEMMA StoresAreFinite ==
    /\ \A store \in Stores : IsFiniteSet(store) /\ store \subseteq Everything
    /\ Everything = UNION Stores /\ IsFiniteSet(Everything)
<1>1. IsFiniteSet(Terms) /\ IsFiniteSet(Dances) /\ IsFiniteSet(Generals)
    BY TopicsAssumption
<1>2. IsFiniteSet(Terms \cup Dances)
    BY <1>1, FS_Union
<1>3. IsFiniteSet((Terms \cup Dances) \cup Generals)
    BY <1>1, <1>2, FS_Union
<1> QED
    BY <1>1, <1>3 DEF Stores, Everything

LEMMA CarriedAreFew ==
    ASSUME NEW previous, FewOfEach(previous), NEW store \in Stores
    PROVE  /\ FewOf(store, Carried(store, previous))
           /\ {a.entry : a \in Carried(store, previous)} = store \cap previous \cap enabled
<1>1. PICK D : D = store \cap previous \cap enabled
    OBVIOUS
<1>2. IsFiniteSet(previous \cap store) /\ IsFiniteSet(D) /\ Cardinality(D) <= 2 /\ Cardinality(D) \in Nat
    <2>1. IsFiniteSet(previous \cap store)
        BY StoresAreFinite, FS_Subset
    <2>2. IsFiniteSet(D) /\ Cardinality(D) <= Cardinality(previous \cap store)
        BY <1>1, <2>1, FS_Subset
    <2>3. Cardinality(previous \cap store) <= 2
        BY DEF FewOfEach, Limit
    <2>4. Cardinality(previous \cap store) \in Nat /\ Cardinality(D) \in Nat
        BY <2>1, <2>2, FS_CardinalityType
    <2> QED
        BY <2>1, <2>2, <2>3, <2>4
<1>3. PICK f : f = [e \in D |-> [entry |-> e, how |-> "carried", score |-> 100]]
    OBVIOUS
<1>4. DOMAIN f = D /\ \A e \in D : f[e].entry = e /\ f[e].score = 100
    BY <1>3
<1>5. Carried(store, previous) = {f[e] : e \in DOMAIN f}
    BY <1>1, <1>3 DEF Carried
<1>6. PICK C : C = Carried(store, previous)
    OBVIOUS
<1>7. IsFiniteSet(C) /\ Cardinality(C) <= Cardinality(D)
    BY <1>2, <1>4, <1>5, <1>6, ImageOf
<1>8. Cardinality(C) \in Nat
    BY <1>7, FS_CardinalityType
<1>9. Cardinality(C) <= Limit
    BY <1>2, <1>7, <1>8 DEF Limit
<1>10. \A a \in C : \E e \in D : a = f[e]
    BY <1>4, <1>5, <1>6
<1>11. \A a \in C : a.score \in MatchScores /\ a.entry \in D
    BY <1>4, <1>10 DEF MatchScores
<1>12. \A e \in D : f[e] \in C
    BY <1>4, <1>5, <1>6
<1>13. {a.entry : a \in C} = D
    BY <1>4, <1>11, <1>12
<1> QED
    BY <1>1, <1>6, <1>7, <1>9, <1>11, <1>13 DEF FewOf, Scored

LEMMA LookupsAreFew ==
    ASSUME NEW store \in Stores, NEW m, NEW candidate
    PROVE  /\ FewOf(store, Lookup(store, m, candidate))
           /\ Lookup(store, m, candidate) \subseteq MatchRecords(store \cap enabled, m, candidate)
<1>1. PICK M : M = MatchRecords(store \cap enabled, m, candidate)
    OBVIOUS
<1>2. IsFiniteSet(store \cap enabled)
    BY StoresAreFinite, FS_Subset
<1>3. Scored(M) /\ \A a \in M : a.entry \in store \cap enabled
    BY <1>1, <1>2, MatchesAreScored
<1>4. CASE store = Dances
    <2>1. PICK G : G = {a \in M : Guarded(a) => m.dancing \/ \E b \in M : ~Guarded(b)}
        OBVIOUS
    <2>2. Lookup(store, m, candidate) = Best(G, 2)
        BY <1>1, <1>4, <2>1 DEF Lookup, Limit
    <2>3. IsFiniteSet(G) /\ G \subseteq M
        BY <1>3, <2>1, FS_Subset DEF Scored
    <2>4. Scored(G) /\ \A a \in G : a.entry \in store \cap enabled
        BY <1>3, <2>3 DEF Scored
    <2>5. FewOf(store, Best(G, 2)) /\ Best(G, 2) \subseteq G
        BY <2>4, BestAreFew, BestOf
    <2> QED
        BY <1>1, <2>2, <2>3, <2>5
<1>5. CASE store # Dances
    <2>1. Lookup(store, m, candidate) \subseteq Best(M, 2)
        BY <1>1, <1>5 DEF Lookup, Limit
    <2>2. FewOf(store, Best(M, 2)) /\ Best(M, 2) \subseteq M
        BY <1>3, BestAreFew, BestOf
    <2> QED
        BY <1>1, <2>1, <2>2, FewerOf
<1> QED
    BY <1>4, <1>5

LEMMA GeneralLookupsAreFew ==
    ASSUME NEW m, NEW candidate, NEW semantic \in BOOLEAN
    PROVE  /\ FewOf(Generals, LookupGeneral(m, candidate, semantic))
           /\ \A a \in LookupGeneral(m, candidate, semantic) :
                a \in MatchRecords(Generals \cap enabled, m, candidate) \/ a.entry = m.means
           /\ ~semantic => LookupGeneral(m, candidate, semantic) \subseteq MatchRecords(Generals \cap enabled, m, candidate)
           /\ MatchRecords(Generals \cap enabled, m, candidate) # {} => LookupGeneral(m, candidate, semantic) # {}
           /\ Cardinality(MatchRecords(Generals \cap enabled, m, candidate)) <= Limit
                /\ (~semantic \/ \E a \in MatchRecords(Generals \cap enabled, m, candidate) : a.how = "exact")
                => LookupGeneral(m, candidate, semantic) = MatchRecords(Generals \cap enabled, m, candidate)
<1>1. PICK M : M = MatchRecords(Generals \cap enabled, m, candidate)
    OBVIOUS
<1>2. PICK meant : meant = {[entry |-> g, how |-> "semantic", score |-> 95] : g \in {m.means} \cap Generals \cap enabled}
    OBVIOUS
<1>3. PICK L : L = LookupGeneral(m, candidate, semantic)
    OBVIOUS
<1>4. Scored(M) /\ \A a \in M : a.entry \in Generals \cap enabled
    <2>1. IsFiniteSet(Generals \cap enabled)
        BY TopicsAssumption, FS_Subset
    <2> QED
        BY <1>1, <2>1, MatchesAreScored
<1>5. FewOf(Generals, meant) /\ Cardinality(meant) \in 0..1 /\ \A a \in meant : a.entry = m.means
    <2>1. PICK x : x = [entry |-> m.means, how |-> "semantic", score |-> 95]
        OBVIOUS
    <2>2. x.entry = m.means /\ x.score \in MatchScores
        BY <2>1 DEF MatchScores
    <2>3. meant = IF m.means \in Generals \cap enabled THEN {x} ELSE {}
        BY <1>2, <2>1
    <2>4. Cardinality({x}) = 1 /\ IsFiniteSet({x}) /\ Cardinality({}) = 0 /\ IsFiniteSet({})
        BY FS_Singleton, FS_EmptySet
    <2>5. CASE m.means \in Generals \cap enabled
        BY <2>2, <2>3, <2>4, <2>5 DEF FewOf, Scored, Limit
    <2>6. CASE m.means \notin Generals \cap enabled
        BY <2>3, <2>4, <2>6 DEF FewOf, Scored, Limit
    <2> QED
        BY <2>5, <2>6
<1>6. PICK k \in 1..2 : k = 2 - Cardinality(meant)
    BY <1>5
<1>7. /\ FewOf(Generals, Best(M, 2)) /\ FewOf(Generals, Best(M, k)) /\ Cardinality(Best(M, k)) \in 0..k
      /\ Best(M, 2) \subseteq M /\ Best(M, k) \subseteq M
      /\ Cardinality(M) <= 2 => Best(M, 2) = M
      /\ M # {} => Best(M, 2) # {} /\ Best(M, k) # {}
    <2>1. 2 \in 0..2 /\ k \in 0..2 /\ k # 0
        OBVIOUS
    <2>2. FewOf(Generals, Best(M, 2)) /\ FewOf(Generals, Best(M, k))
        BY <1>4, <2>1, BestAreFew
    <2> QED
        BY <1>4, <2>1, <2>2, BestOf
<1>8. FewOf(Generals, Best(M, k) \cup meant)
    <2>1. Cardinality(Best(M, k)) + Cardinality(meant) <= Limit
        BY <1>5, <1>6, <1>7 DEF Limit
    <2> QED
        BY <1>5, <1>7, <2>1, FewTogether
<1>9. CASE ~semantic \/ \E a \in M : a.how = "exact"
    <2>1. L = Best(M, 2)
        BY <1>1, <1>3, <1>9 DEF LookupGeneral, Limit
    <2> QED
        BY <1>1, <1>3, <1>7, <2>1 DEF Limit
<1>10. CASE ~(~semantic \/ \E a \in M : a.how = "exact")
    <2>1. L = IF M = {} \/ (m.closer /\ \A a \in M : a.entry # m.means) THEN Best(M, Limit - Cardinality(meant)) \cup meant ELSE Best(M, Limit)
        BY <1>1, <1>2, <1>3, <1>10 DEF LookupGeneral
    <2>2. L = Best(M, k) \cup meant \/ L = Best(M, 2)
        BY <1>6, <2>1 DEF Limit
    <2>3. L # {} \/ M = {}
        BY <1>7, <2>2
    <2> QED
        BY <1>1, <1>3, <1>5, <1>7, <1>8, <1>10, <2>2, <2>3
<1> QED
    BY <1>9, <1>10

-----------------------------------------------------------------------------
(* What a turn is given *)

LEMMA JoinedAreFew ==
    ASSUME NEW store, NEW carried, FewOf(store, carried), NEW found, FewOf(store, found)
    PROVE  FewOf(store, JoinCarried(carried, found)) /\ carried \subseteq JoinCarried(carried, found)
<1>1. PICK G : G = {a \in found : \A c \in carried : c.entry # a.entry}
    OBVIOUS
<1>2. Best(carried, Limit) = carried /\ Cardinality(carried) \in 0..2
    <2>1. IsFiniteSet(carried) /\ Cardinality(carried) <= 2
        BY DEF FewOf, Scored, Limit
    <2>2. Cardinality(carried) \in Nat
        BY <2>1, FS_CardinalityType
    <2> QED
        BY <2>1, <2>2 DEF Best, Limit
<1>3. PICK k \in 0..2 : k = Limit - Cardinality(carried)
    BY <1>2 DEF Limit
<1>4. FewOf(store, G)
    BY <1>1, FewerOf
<1>5. FewOf(store, Best(G, k)) /\ Cardinality(Best(G, k)) \in 0..k
    BY <1>4, BestAreFew, BestOf DEF FewOf
<1>6. Cardinality(carried) + Cardinality(Best(G, k)) <= Limit
    BY <1>2, <1>3, <1>5 DEF Limit
<1>7. JoinCarried(carried, found) = carried \cup Best(G, k)
    BY <1>1, <1>2, <1>3 DEF JoinCarried
<1> QED
    BY <1>5, <1>6, <1>7, FewTogether

LEMMA Routes ==
    ASSUME NEW m
    PROVE  /\ RouteOf(m) \in {"memory", "followup", "terminology", "knowledge", "casual", "general"}
           /\ UseTerminology(m) <=> RouteOf(m) \in {"terminology", "knowledge", "general"}
           /\ LookupMode(m) = "full" => RouteOf(m) \notin {"memory", "followup"}
           /\ LookupMode(m) \in {"none", "exact", "full"}
           /\ RouteOf(m) \in {"memory", "followup"} => LookupMode(m) = "none"
           /\ LookupMode(m) = "exact" => RouteOf(m) = "casual"
    BY DEF RouteOf, UseTerminology, LookupMode

LEMMA ReferencesAreFew ==
    ASSUME NEW store \in Stores, NEW m, NEW previous, FewOfEach(previous)
    PROVE  /\ FewOf(store, ReferenceMatches(store, m, previous))
           /\ RouteOf(m) = "followup" => Carried(store, previous) \subseteq ReferenceMatches(store, m, previous)
           /\ LookupMode(m) = "full" => \E candidate \in {m.asked, m.whole} :
                ReferenceMatches(store, m, previous) \subseteq MatchRecords(store \cap enabled, m, candidate)
<1>1. PICK R : R = ReferenceMatches(store, m, previous)
    OBVIOUS
<1>2. /\ RouteOf(m) \in {"memory", "followup", "terminology", "knowledge", "casual", "general"}
      /\ UseTerminology(m) <=> RouteOf(m) \in {"terminology", "knowledge", "general"}
      /\ LookupMode(m) \in {"none", "exact", "full"}
      /\ LookupMode(m) = "full" => RouteOf(m) \notin {"memory", "followup"}
      /\ RouteOf(m) \in {"memory", "followup"} => LookupMode(m) = "none"
      /\ LookupMode(m) = "exact" => RouteOf(m) = "casual"
    BY Routes
<1>3. \A candidate : /\ FewOf(store, Lookup(store, m, candidate))
                     /\ Lookup(store, m, candidate) \subseteq MatchRecords(store \cap enabled, m, candidate)
    BY LookupsAreFew
<1>4. CASE RouteOf(m) = "followup"
    <2>1. R = JoinCarried(Carried(store, previous), Lookup(store, m, NoName))
        BY <1>1, <1>2, <1>4 DEF ReferenceMatches
    <2>2. FewOf(store, Carried(store, previous))
        BY CarriedAreFew
    <2> QED
        BY <1>1, <1>2, <1>3, <1>4, <2>1, <2>2, JoinedAreFew
<1>5. CASE UseTerminology(m)
    <2>1. R = Lookup(store, m, m.asked)
        BY <1>1, <1>2, <1>5 DEF ReferenceMatches
    <2> QED
        BY <1>1, <1>2, <1>3, <1>5, <2>1
<1>6. CASE LookupMode(m) = "full" /\ ~UseTerminology(m)
    <2>1. R = Lookup(store, m, m.whole)
        BY <1>1, <1>2, <1>6 DEF ReferenceMatches
    <2> QED
        BY <1>1, <1>2, <1>3, <1>6, <2>1
<1>7. CASE LookupMode(m) = "exact" /\ ~UseTerminology(m)
    <2>1. R = Named(Lookup(store, m, m.whole))
        BY <1>1, <1>2, <1>7 DEF ReferenceMatches
    <2>2. R \subseteq Lookup(store, m, m.whole)
        BY <2>1 DEF Named
    <2>3. FewOf(store, R)
        BY <1>3, <2>2, FewerOf
    <2> QED
        BY <1>1, <1>2, <1>7, <2>3
<1>8. CASE LookupMode(m) = "none" /\ ~UseTerminology(m) /\ RouteOf(m) # "followup"
    <2>1. R = {}
        BY <1>1, <1>8 DEF ReferenceMatches
    <2>2. FewOf(store, {})
        BY FS_EmptySet DEF FewOf, Scored, Limit
    <2> QED
        BY <1>1, <1>8, <2>1, <2>2
<1> QED
    BY <1>2, <1>4, <1>5, <1>6, <1>7, <1>8

\* A message that is looked up in full has an exact match of what it asks for, or of the whole of it, only.
LEMMA ExactOfFull ==
    ASSUME NEW store \in Stores, NEW m, NEW previous, FewOfEach(previous), LookupMode(m) = "full",
           NEW a \in ReferenceMatches(store, m, previous), a.how = "exact"
    PROVE  a.entry \in {m.asked, m.whole}
<1>1. PICK candidate \in {m.asked, m.whole} : a \in MatchRecords(store \cap enabled, m, candidate)
    BY ReferencesAreFew
<1>2. IsFiniteSet(store \cap enabled)
    BY StoresAreFinite, FS_Subset
<1>3. a \in Evidence(a.entry, m, candidate)
    BY <1>1, <1>2, MatchesAreScored
<1> QED
    BY <1>3, EvidenceOf

LEMMA DancesAreFew ==
    ASSUME NEW m, NEW previous, FewOfEach(previous)
    PROVE  /\ FewOf(Dances, DanceMatches(m, previous))
           /\ RouteOf(m) = "followup" => Carried(Dances, previous) \subseteq DanceMatches(m, previous)
           /\ LookupMode(m) = "full" => \A a \in DanceMatches(m, previous) : a.how = "exact" => a.entry \in {m.asked, m.whole}
<1>1. Dances \in Stores
    BY DEF Stores
<1>2. CASE ReferenceMatches(Dances, m, previous) = {} /\ RouteOf(m) = "casual" /\ m.dancing
    <2>1. DanceMatches(m, previous) = Lookup(Dances, m, NoName)
        BY <1>2 DEF DanceMatches
    <2>2. FewOf(Dances, Lookup(Dances, m, NoName)) /\ Lookup(Dances, m, NoName) \subseteq MatchRecords(Dances \cap enabled, m, NoName)
        BY <1>1, LookupsAreFew
    <2>3. IsFiniteSet(Dances \cap enabled)
        BY TopicsAssumption, FS_Subset
    <2>4. \A a \in Lookup(Dances, m, NoName) : a.entry \in Dances /\ a \in Evidence(a.entry, m, NoName)
        BY <2>2, <2>3, MatchesAreScored
    <2>5. \A a \in Lookup(Dances, m, NoName) : a.how # "exact"
        BY <2>4, EvidenceOf, TopicsAssumption
    <2> QED
        BY <1>2, <2>1, <2>2, <2>5
<1>3. CASE ~(ReferenceMatches(Dances, m, previous) = {} /\ RouteOf(m) = "casual" /\ m.dancing)
    <2>1. DanceMatches(m, previous) = ReferenceMatches(Dances, m, previous)
        BY <1>3 DEF DanceMatches
    <2> QED
        <3>1. /\ FewOf(Dances, ReferenceMatches(Dances, m, previous))
              /\ RouteOf(m) = "followup" => Carried(Dances, previous) \subseteq ReferenceMatches(Dances, m, previous)
            BY <1>1, ReferencesAreFew
        <3>2. ASSUME LookupMode(m) = "full", NEW a \in ReferenceMatches(Dances, m, previous), a.how = "exact"
              PROVE  a.entry \in {m.asked, m.whole}
            BY <1>1, <3>2, ExactOfFull
        <3> QED
            BY <2>1, <3>1, <3>2
<1> QED
    BY <1>2, <1>3

Specialised(m, previous) == ReferenceMatches(Terms, m, previous) \cup DanceMatches(m, previous)

\* What was found is two entries of each store at most.
ThreeFew(matches) ==
    \E A, B, C : FewOf(Terms, A) /\ FewOf(Dances, B) /\ FewOf(Generals, C) /\ matches \subseteq A \cup B \cup C
LEMMA KnowledgeIsFew ==
    ASSUME NEW m, NEW previous, FewOfEach(previous)
    PROVE  /\ ThreeFew(Knowledge(m, previous))
           /\ RouteOf(m) = "followup" => previous \cap enabled \subseteq {a.entry : a \in Knowledge(m, previous)}
<1>1. PICK A : A = ReferenceMatches(Terms, m, previous)
    OBVIOUS
<1>2. PICK B : B = DanceMatches(m, previous)
    OBVIOUS
<1>3. Terms \in Stores /\ Dances \in Stores /\ Generals \in Stores
    BY DEF Stores
<1>4. FewOf(Terms, A) /\ FewOf(Dances, B) /\ FewOf(Generals, {})
    <2>1. FewOf(Generals, {})
        BY FS_EmptySet DEF FewOf, Scored, Limit
    <2> QED
        BY <1>1, <1>2, <1>3, <2>1, ReferencesAreFew, DancesAreFew
<1>5. \A store \in Stores : Best(Carried(store, previous), Limit) = Carried(store, previous) /\ FewOf(store, Carried(store, previous))
    <2> SUFFICES ASSUME NEW store \in Stores
                 PROVE  Best(Carried(store, previous), Limit) = Carried(store, previous) /\ FewOf(store, Carried(store, previous))
        OBVIOUS
    <2>1. FewOf(store, Carried(store, previous))
        BY CarriedAreFew
    <2> QED
        BY <2>1 DEF FewOf, Best
<1>6. \A candidate : \A semantic \in BOOLEAN : FewOf(Generals, LookupGeneral(m, candidate, semantic))
    BY GeneralLookupsAreFew
<1>7. PICK F : F = Found(m, previous)
    OBVIOUS
<1>8. /\ RouteOf(m) = "memory" => F = {}
      /\ RouteOf(m) = "followup" => F = (A \cup B) \cup Carried(Generals, previous)
      /\ RouteOf(m) \notin {"memory", "followup"} /\ LookupMode(m) = "exact"
            => F = IF A \cup B = {} THEN Named(LookupGeneral(m, m.whole, FALSE)) ELSE A \cup B
      /\ RouteOf(m) \notin {"memory", "followup"} /\ LookupMode(m) = "full" => F = Preferred(m, A \cup B)
      /\ RouteOf(m) \notin {"memory", "followup"} /\ LookupMode(m) = "none" => F = A \cup B
    <2>1. LookupMode(m) \in {"none", "exact", "full"} /\ (RouteOf(m) \in {"memory", "followup"} => LookupMode(m) = "none")
        BY Routes
    <2>2. CASE RouteOf(m) = "memory"
        BY <1>7, <2>2 DEF Found
    <2>3. CASE RouteOf(m) = "followup"
        BY <1>1, <1>2, <1>3, <1>5, <1>7, <2>1, <2>3 DEF Found
    <2>4. CASE RouteOf(m) \notin {"memory", "followup"} /\ LookupMode(m) = "exact"
        BY <1>1, <1>2, <1>7, <2>4 DEF Found
    <2>5. CASE RouteOf(m) \notin {"memory", "followup"} /\ LookupMode(m) = "full"
        BY <1>1, <1>2, <1>7, <2>5 DEF Found
    <2>6. CASE RouteOf(m) \notin {"memory", "followup"} /\ LookupMode(m) = "none"
        BY <1>1, <1>2, <1>7, <2>6 DEF Found
    <2> QED
        BY <2>2, <2>3, <2>4, <2>5, <2>6
<1>9. ThreeFew(F)
    <2>1. PICK C : FewOf(Generals, C) /\ F \subseteq A \cup B \cup C
        <3>1. CASE RouteOf(m) \in {"memory", "followup"}
            BY <1>3, <1>4, <1>5, <1>8, <3>1
        <3>2. CASE RouteOf(m) \notin {"memory", "followup"} /\ LookupMode(m) = "exact"
            <4>1. Named(LookupGeneral(m, m.whole, FALSE)) \subseteq LookupGeneral(m, m.whole, FALSE)
                BY DEF Named
            <4>2. FewOf(Generals, LookupGeneral(m, m.whole, FALSE))
                BY <1>6
            <4> QED
                BY <1>4, <1>8, <3>2, <4>1, <4>2
        <3>3. CASE RouteOf(m) \notin {"memory", "followup"} /\ LookupMode(m) = "full"
            <4>1. CASE A \cup B = {}
                <5>1. F = LookupGeneral(m, m.asked, TRUE)
                    BY <1>8, <3>3, <4>1 DEF Preferred
                <5> QED
                    BY <1>6, <5>1
            <4>2. CASE A \cup B # {} /\ \E a \in A \cup B : a.how = "exact"
                <5>1. F = A \cup B
                    BY <1>8, <3>3, <4>2 DEF Preferred
                <5> QED
                    BY <1>4, <5>1
            <4>3. CASE A \cup B # {} /\ ~\E a \in A \cup B : a.how = "exact"
                <5>1. F \subseteq (A \cup B) \cup Specific(m, A \cup B)
                    BY <1>8, <3>3, <4>3 DEF Preferred
                <5>2. Specific(m, A \cup B) \subseteq LookupGeneral(m, m.asked, FALSE)
                    BY DEF Specific
                <5>3. FewOf(Generals, LookupGeneral(m, m.asked, FALSE))
                    BY <1>6
                <5> QED
                    BY <5>1, <5>2, <5>3
            <4> QED
                BY <4>1, <4>2, <4>3
        <3>4. CASE RouteOf(m) \notin {"memory", "followup"} /\ LookupMode(m) = "none"
            BY <1>4, <1>8, <3>4
        <3> QED
            BY <3>1, <3>2, <3>3, <3>4, Routes
    <2> QED
        BY <1>4, <2>1 DEF ThreeFew
<1>10. ThreeFew(Knowledge(m, previous))
    <2>1. CASE F = {} /\ RouteOf(m) \notin {"memory", "followup"} /\ Elliptical(m)
        <3>1. Knowledge(m, previous) = UNION {Best(Carried(store, previous), Limit) : store \in Stores}
            BY <1>7, <2>1 DEF Knowledge
        <3>2. Knowledge(m, previous) \subseteq Carried(Terms, previous) \cup Carried(Dances, previous) \cup Carried(Generals, previous)
            BY <1>5, <3>1 DEF Stores
        <3> QED
            BY <1>3, <1>5, <3>2 DEF ThreeFew
    <2>2. CASE ~(F = {} /\ RouteOf(m) \notin {"memory", "followup"} /\ Elliptical(m))
        <3>1. Knowledge(m, previous) = F
            BY <1>7, <2>2 DEF Knowledge
        <3> QED
            BY <1>9, <3>1
    <2> QED
        BY <2>1, <2>2
<1>11. ASSUME RouteOf(m) = "followup" PROVE previous \cap enabled \subseteq {a.entry : a \in Knowledge(m, previous)}
    <2>1. Knowledge(m, previous) = F
        BY <1>7, <1>11 DEF Knowledge
    <2>2. Carried(Terms, previous) \subseteq F /\ Carried(Dances, previous) \subseteq F /\ Carried(Generals, previous) \subseteq F
        BY <1>1, <1>2, <1>3, <1>8, <1>11, ReferencesAreFew, DancesAreFew
    <2>3. \A store \in Stores : \A e \in store \cap previous \cap enabled : \E a \in Carried(store, previous) : a.entry = e
        BY CarriedAreFew
    <2>4. previous \subseteq Terms \cup Dances \cup Generals
        BY DEF FewOfEach, Everything
    <2> QED
        BY <1>3, <2>1, <2>2, <2>3, <2>4
<1> QED
    BY <1>10, <1>11

LEMMA NoLooserIsUsed ==
    ASSUME NEW m, NEW previous, FewOfEach(previous)
    PROVE  NoLooserEntry(m, {a.entry : a \in Knowledge(m, previous)})
<1>1. PICK used : used = {a.entry : a \in Knowledge(m, previous)}
    OBVIOUS
<1>2. PICK M : M = MatchRecords(Generals \cap enabled, m, m.asked)
    OBVIOUS
<1> SUFFICES ASSUME LookupMode(m) = "full", {m.asked, m.whole} \cap used = {}, Cardinality(M) <= Limit,
                    NEW e \in used \ {m.means}, NEW g \in Generals \cap enabled \cap m.mentions, <<e, g>> \in Within, e \in m.mentions
             PROVE  FALSE
    BY <1>1, <1>2 DEF NoLooserEntry
<1>3. PICK S : S = ReferenceMatches(Terms, m, previous) \cup DanceMatches(m, previous)
    OBVIOUS
<1>4. PICK F : F = Preferred(m, S)
    OBVIOUS
<1>5. Found(m, previous) = F /\ RouteOf(m) \notin {"memory", "followup"}
    <2>1. RouteOf(m) \notin {"memory", "followup"}
        BY Routes
    <2> QED
        BY <1>3, <1>4, <2>1 DEF Found
<1>6. PICK plain, strict : plain = LookupGeneral(m, m.asked, TRUE) /\ strict = LookupGeneral(m, m.asked, FALSE)
    OBVIOUS
<1>7. /\ \A a \in plain : a \in M \/ a.entry = m.means
      /\ M # {} => plain # {}
      /\ (\E a \in M : a.how = "exact") => plain = M
      /\ strict = M
    BY <1>2, <1>6, GeneralLookupsAreFew
<1>8. M # {}
    <2>1. CASE m.asked \in Generals \cap enabled
        BY <1>2, <2>1, ExactIsFound
    <2>2. CASE m.asked \notin Generals \cap enabled
        BY <1>2, <2>2, LongerIsFound
    <2> QED
        BY <2>1, <2>2
<1>9. PICK P : P = Specific(m, S)
    OBVIOUS
<1>10. P = {x \in M : x.how = "exact" \/ \E a \in S : <<a.entry, x.entry>> \in Within}
    BY <1>6, <1>7, <1>9 DEF Specific
<1>11. PICK L : L = Looser(S, P)
    OBVIOUS
<1>12. L = {a \in S : \E x \in P : <<a.entry, x.entry>> \in Within}
    BY <1>11 DEF Looser
<1>13. /\ S = {} => F = plain
       /\ S # {} /\ (\E a \in S : a.how = "exact") => F = S
       /\ S # {} /\ ~(\E a \in S : a.how = "exact") => F = (S \ L) \cup P
    <2>1. CASE S = {}
        BY <1>4, <1>6, <2>1 DEF Preferred
    <2>2. CASE S # {} /\ \E a \in S : a.how = "exact"
        BY <1>4, <2>2 DEF Preferred
    <2>3. CASE S # {} /\ ~(\E a \in S : a.how = "exact")
        BY <1>4, <1>9, <1>11, <2>3 DEF Preferred
    <2> QED
        BY <2>1, <2>2, <2>3
<1>14. F # {}
    BY <1>7, <1>8, <1>12, <1>13
<1>15. Knowledge(m, previous) = F
    BY <1>5, <1>14 DEF Knowledge
<1>16. \A a \in F : a.entry \in used
    BY <1>1, <1>15
<1>17. ~\E a \in S : a.how = "exact"
    <2> SUFFICES ASSUME NEW a \in S, a.how = "exact" PROVE FALSE
        OBVIOUS
    <2>1. a \in F
        BY <1>13
    <2>2. a.entry \in {m.asked, m.whole}
        BY <1>3, ExactOfFull, DancesAreFew DEF Stores
    <2> QED
        BY <1>16, <2>1, <2>2
<1>18. m.asked \notin Generals \cap enabled
    <2> SUFFICES ASSUME m.asked \in Generals \cap enabled PROVE FALSE
        OBVIOUS
    <2>1. PICK x \in M : x.how = "exact" /\ x.entry = m.asked
        BY <1>2, ExactIsFound
    <2>2. x \in F
        BY <1>7, <1>10, <1>13, <1>17, <2>1
    <2> QED
        BY <1>16, <2>1, <2>2
<1>19. PICK b \in M : <<e, b.entry>> \in Within
    BY <1>2, <1>18, LongerIsFound
<1>20. PICK a \in F : a.entry = e
    BY <1>1, <1>15
<1>21. a \notin M
    <2> SUFFICES ASSUME a \in M PROVE FALSE
        OBVIOUS
    <2>1. IsFiniteSet(Generals \cap enabled)
        BY TopicsAssumption, FS_Subset
    <2>2. a \in Evidence(e, m, m.asked)
        BY <1>2, <1>20, <2>1, MatchesAreScored
    <2>3. a.how = "phrase"
        BY <2>2, EvidenceOf
    <2>4. PICK entries : entries = Generals \cap enabled
        OBVIOUS
    <2>5. g \in entries \cap m.mentions /\ a \in MatchRecords(entries, m, m.asked)
        BY <1>2, <2>4
    <2> QED
        BY <1>20, <2>3, <2>5, PartsAreNotFound
<1>22. CASE S = {}
    BY <1>7, <1>13, <1>20, <1>21, <1>22
<1>23. CASE S # {}
    <2>1. a \in S \ L
        BY <1>10, <1>13, <1>17, <1>20, <1>21, <1>23
    <2>2. b \in P
        BY <1>10, <1>19, <1>20, <2>1
    <2> QED
        BY <1>12, <1>19, <1>20, <2>1, <2>2
<1> QED
    BY <1>22, <1>23

LEMMA UsedAreFew ==
    ASSUME NEW matches, ThreeFew(matches)
    PROVE  FewOfEach({a.entry : a \in matches}) /\ {a.entry : a \in matches} \subseteq enabled
<1>1. PICK A, B, C : FewOf(Terms, A) /\ FewOf(Dances, B) /\ FewOf(Generals, C) /\ matches \subseteq A \cup B \cup C
    BY DEF ThreeFew
<1>2. PICK used : used = {a.entry : a \in matches}
    OBVIOUS
<1>3. \A a \in A : a.entry \in Terms \cap enabled
    BY <1>1 DEF FewOf
<1>4. \A a \in B : a.entry \in Dances \cap enabled
    BY <1>1 DEF FewOf
<1>5. \A a \in C : a.entry \in Generals \cap enabled
    BY <1>1 DEF FewOf
<1>6. used \subseteq enabled /\ used \subseteq Everything
    BY <1>1, <1>2, <1>3, <1>4, <1>5 DEF Everything
<1>7. ASSUME NEW store, NEW S, FewOf(store, S), \A e \in used \cap store : \E a \in S : a.entry = e
      PROVE  Cardinality(used \cap store) <= Limit
    <2>1. PICK f : f = [a \in S |-> a.entry]
        OBVIOUS
    <2>2. PICK T : T = {f[a] : a \in DOMAIN f}
        OBVIOUS
    <2>3. DOMAIN f = S /\ \A a \in S : f[a] = a.entry
        BY <2>1
    <2>4. IsFiniteSet(S) /\ Cardinality(S) <= 2
        BY <1>7 DEF FewOf, Scored, Limit
    <2>5. IsFiniteSet(T) /\ Cardinality(T) <= Cardinality(S)
        BY <2>2, <2>3, <2>4, ImageOf
    <2>6. used \cap store \subseteq T
        BY <1>7, <2>2, <2>3
    <2>7. IsFiniteSet(used \cap store) /\ Cardinality(used \cap store) <= Cardinality(T)
        BY <2>5, <2>6, FS_Subset
    <2>8. Cardinality(used \cap store) \in Nat /\ Cardinality(T) \in Nat /\ Cardinality(S) \in Nat
        BY <2>4, <2>5, <2>7, FS_CardinalityType
    <2> QED
        BY <2>4, <2>5, <2>7, <2>8 DEF Limit
<1>8. /\ \A e \in used \cap Terms : \E a \in A : a.entry = e
      /\ \A e \in used \cap Dances : \E a \in B : a.entry = e
      /\ \A e \in used \cap Generals : \E a \in C : a.entry = e
    BY <1>1, <1>2, <1>3, <1>4, <1>5, TopicsAssumption
<1>9. \A store \in Stores : Cardinality(used \cap store) <= Limit
    BY <1>1, <1>7, <1>8 DEF Stores
<1> QED
    BY <1>2, <1>6, <1>9 DEF FewOfEach

LEMMA LanguagesKnown ==
    ASSUME NEW m \in TopicMessages, NEW l \in LanguageStates
    PROVE  ResolveLanguage(m, l) \in LanguageStates
<1>1. CASE m.language # NoLanguage
    BY <1>1 DEF ResolveLanguage, LanguageStates
<1>2. CASE m.language = NoLanguage /\ l # NoLanguage
    BY <1>2 DEF ResolveLanguage, LanguageStates
<1>3. CASE m.language = NoLanguage /\ l = NoLanguage
    BY <1>3 DEF ResolveLanguage, LanguageStates
<1> QED
    BY <1>1, <1>2, <1>3

LEMMA TopicsBegin == TopicsInit => TopicsInv
<1> SUFFICES ASSUME TopicsInit PROVE TopicsInv
    OBVIOUS
<1>1. FewOfEach({})
    <2>1. \A store : {} \cap store = {}
        OBVIOUS
    <2>2. Cardinality({}) = 0
        BY FS_EmptySet
    <2> QED
        BY <2>1, <2>2 DEF FewOfEach, Limit
<1> QED
    BY <1>1 DEF TopicsInit, TopicsInv, Everything, LanguageStates

\* What begins a turn finds two of each store, and what is recorded is what was found then.
LEMMA BegunTurn ==
    ASSUME TopicsInv, NEW c \in Chats, NEW m \in TopicMessages, BeginTurn(c, m)
    PROVE  /\ TopicsInv'
           /\ chat' = [chat EXCEPT ![c] = [message |-> m, used |-> {a.entry : a \in Knowledge(m, topic)},
                                           language |-> ResolveLanguage(m, language), inherited |-> language]]
           /\ {a.entry : a \in Knowledge(m, topic)} \subseteq enabled
           /\ RouteOf(m) = "followup" => topic \cap enabled \subseteq {a.entry : a \in Knowledge(m, topic)}
<1>1. PICK used : used = {a.entry : a \in Knowledge(m, topic)}
    OBVIOUS
<1>2. FewOfEach(topic) /\ language \in LanguageStates
    BY DEF TopicsInv
<1>3. FewOfEach(used) /\ used \subseteq enabled
    BY <1>1, <1>2, KnowledgeIsFew, UsedAreFew
<1>4. RouteOf(m) = "followup" => topic \cap enabled \subseteq used
    BY <1>1, <1>2, KnowledgeIsFew
<1>5. PICK t : t = [message |-> m, used |-> used, language |-> ResolveLanguage(m, language), inherited |-> language]
    OBVIOUS
<1>6. t \in TurnsUnderWay
    <2>1. used \in {u \in SUBSET Everything : FewOfEach(u)}
        BY <1>3 DEF FewOfEach
    <2> QED
        BY <1>2, <1>5, <2>1 DEF TurnsUnderWay
<1>7. chat' = [chat EXCEPT ![c] = t] /\ UNCHANGED <<enabled, topic, language>>
    BY <1>1, <1>5 DEF BeginTurn
<1>8. chat' \in [Chats -> {NoTurnYet} \cup TurnsUnderWay]
    BY <1>6, <1>7 DEF TopicsInv
<1>9. TopicsInv'
    BY <1>7, <1>8 DEF TopicsInv, FewOfEach
<1> QED
    BY <1>1, <1>3, <1>4, <1>5, <1>7, <1>9

LEMMA TopicsStep ==
    ASSUME TopicsInv, [TopicsNext]_topicVars
    PROVE  TopicsInv'
<1>1. ASSUME NEW c \in Chats, NEW m \in TopicMessages, BeginTurn(c, m) PROVE TopicsInv'
    BY <1>1, BegunTurn
<1>2. ASSUME NEW c \in Chats, RecordTurn(c) PROVE TopicsInv'
    <2>1. chat[c] \in TurnsUnderWay
        BY <1>2 DEF RecordTurn, TopicsInv
    <2>2. PICK m \in TopicMessages, u \in {u \in SUBSET Everything : FewOfEach(u)}, l \in LanguageStates :
            chat[c] = [message |-> m, used |-> u, language |-> ResolveLanguage(m, l), inherited |-> l]
        BY <2>1 DEF TurnsUnderWay
    <2>3. chat[c].used = u /\ FewOfEach(u) /\ chat[c].language \in LanguageStates
        BY <2>2, LanguagesKnown
    <2>4. topic' = u \/ topic' = topic \/ topic' = {}
        BY <1>2, <2>3 DEF RecordTurn
    <2>5. FewOfEach({})
        BY FS_EmptySet DEF FewOfEach, Limit
    <2>6. FewOfEach(topic')
        BY <2>3, <2>4, <2>5 DEF TopicsInv
    <2>7. chat' \in [Chats -> {NoTurnYet} \cup TurnsUnderWay] /\ language' \in LanguageStates /\ enabled' = enabled
        BY <1>2, <2>3 DEF RecordTurn, TopicsInv
    <2> QED
        BY <2>6, <2>7 DEF TopicsInv, FewOfEach
<1>3. ASSUME NEW c \in Chats, RefuseTurn(c) PROVE TopicsInv'
    BY <1>3 DEF RefuseTurn, TopicsInv, FewOfEach
<1>4. ASSUME NEW entry \in UNION Stores, Switch(entry) PROVE TopicsInv'
    <2>1. enabled' \subseteq Everything
        BY <1>4, StoresAreFinite DEF Switch, TopicsInv
    <2> QED
        BY <1>4, <2>1 DEF Switch, TopicsInv, FewOfEach
<1>5. CASE UNCHANGED topicVars
    BY <1>5 DEF topicVars, TopicsInv, FewOfEach
<1> QED
    BY <1>1, <1>2, <1>3, <1>4, <1>5 DEF TopicsNext

\* A turn that begins is one that was looked up just now.
LEMMA TurnsBeginRight ==
    ASSUME TopicsInv, [TopicsNext]_topicVars, NEW c \in Chats, Begins(c)
    PROVE  /\ chat'[c].used \subseteq enabled
           /\ RouteOf(chat'[c].message) = "followup" => topic \cap enabled \subseteq chat'[c].used
           /\ NoLooserEntry(chat'[c].message, chat'[c].used)
<1>1. PICK m \in TopicMessages : BeginTurn(c, m)
    <2>1. ~(UNCHANGED topicVars) /\ ~\E entry \in UNION Stores : Switch(entry)
        BY DEF Begins, topicVars, Switch
    <2>2. PICK d \in Chats : RecordTurn(d) \/ RefuseTurn(d) \/ \E m \in TopicMessages : BeginTurn(d, m)
        BY <2>1 DEF TopicsNext
    <2>3. ~RecordTurn(d) /\ ~RefuseTurn(d)
        BY DEF Begins, RecordTurn, RefuseTurn, TopicsInv
    <2>4. d = c
        BY <2>2, <2>3 DEF Begins, BeginTurn, TopicsInv
    <2> QED
        BY <2>2, <2>3, <2>4
<1>2. PICK used : used = {a.entry : a \in Knowledge(m, topic)}
    OBVIOUS
<1>3. /\ chat' = [chat EXCEPT ![c] = [message |-> m, used |-> used, language |-> ResolveLanguage(m, language), inherited |-> language]]
      /\ used \subseteq enabled
      /\ RouteOf(m) = "followup" => topic \cap enabled \subseteq used
    BY <1>1, <1>2, BegunTurn
<1>4. chat'[c].message = m /\ chat'[c].used = used
    BY <1>3 DEF TopicsInv
<1>5. NoLooserEntry(m, used)
    BY <1>2, NoLooserIsUsed DEF TopicsInv
<1> QED
    BY <1>3, <1>4, <1>5

\* What the user chose goes on until a message of his ends it.
LEMMA ChoicesEndRight ==
    ASSUME TopicsInv, [TopicsNext]_topicVars, NEW c \in Chats,
           language # NoLanguage, language' # language, chat[c] # NoTurnYet, chat'[c] = NoTurnYet
    PROVE  \/ ~language.lasting /\ RouteOf(chat[c].message) \notin {"followup", "memory"}
           \/ chat[c].message.language # NoLanguage
           \/ chat[c].inherited # language
<1>1. PICK d \in Chats : RecordTurn(d)
    BY DEF TopicsNext, topicVars, Switch, BeginTurn, RefuseTurn
<1>2. d = c
    BY <1>1 DEF RecordTurn, TopicsInv
<1>3. PICK m \in TopicMessages, u \in {u \in SUBSET Everything : FewOfEach(u)}, l \in LanguageStates :
        chat[c] = [message |-> m, used |-> u, language |-> ResolveLanguage(m, l), inherited |-> l]
    BY DEF TopicsInv, TurnsUnderWay
<1>4. language' = ResolveLanguage(m, l) /\ chat[c].message = m /\ chat[c].inherited = l
    BY <1>1, <1>2, <1>3 DEF RecordTurn
<1>5. m.language = NoLanguage /\ l = language => ResolveLanguage(m, l) = IF l.lasting \/ RouteOf(m) \in {"followup", "memory"} THEN l ELSE NoLanguage
    BY DEF ResolveLanguage
<1> QED
    BY <1>4, <1>5

THEOREM TopicsCorrect == TopicsSpec => []TopicsInv
    BY TopicsBegin, TopicsStep, PTL DEF TopicsSpec

(* For every content of the stores, every message, and any number of       *)
(* overlapping turns: a turn is given what the owner has switched on only, *)
(* a follow-up keeps the whole topic, a looser name never stands where the *)
(* specific one is in the message, and a language choice lasts until a     *)
(* message ends it (build_turn_knowledge, resolve_turn_language).          *)
THEOREM TurnsGoOn == TopicsSpec => TurnsFollowOn
<1>1. TopicsInv /\ [TopicsNext]_topicVars => [\A c \in Chats : Begins(c) => chat'[c].used \subseteq enabled]_topicVars
    BY TurnsBeginRight
<1>2. TopicsInv /\ [TopicsNext]_topicVars
      => [\A c \in Chats : Begins(c) /\ RouteOf(chat'[c].message) = "followup" => topic \cap enabled \subseteq chat'[c].used]_topicVars
    BY TurnsBeginRight
<1>3. TopicsInv /\ [TopicsNext]_topicVars => [\A c \in Chats : Begins(c) => NoLooserEntry(chat'[c].message, chat'[c].used)]_topicVars
    BY TurnsBeginRight
<1>4. TopicsInv /\ [TopicsNext]_topicVars
      => [\A c \in Chats : /\ language # NoLanguage /\ language' # language
                           /\ chat[c] # NoTurnYet /\ chat'[c] = NoTurnYet
                           => \/ ~language.lasting /\ RouteOf(chat[c].message) \notin {"followup", "memory"}
                              \/ chat[c].message.language # NoLanguage
                              \/ chat[c].inherited # language]_topicVars
    BY ChoicesEndRight
<1> QED
    BY TopicsCorrect, <1>1, <1>2, <1>3, <1>4, PTL DEF TopicsSpec, TurnsFollowOn, OnlyLiveEntries, FollowUpKeepsTopic, SpecificWins, ChoiceLasts
=============================================================================
