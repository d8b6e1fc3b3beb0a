--------------------------- MODULE DatasetCuration ---------------------------
(***************************************************************************)
(* The production dataset as files: conversations enter as lessons taught  *)
(* on the web page or by an import, are audited, repaired and reviewed one *)
(* by one or in bulk, and are copied to and back from a snapshot. The      *)
(* lessons run in the web server, every other operation is a command in a  *)
(* terminal, which may die between two of its file operations.             *)
(***************************************************************************)
EXTENDS Naturals, FiniteSetsExt

CONSTANTS
    Numbers,    \* the numbers of record ids (bound), from 1
    Texts,      \* what a conversation says
    StrongTexts,\* those the voice audit recommends as they are; a repaired one always
    CarriedNumbers, \* the ids that imported records bring with them
    Lessons,    \* lessons that the web server may handle at the same time
    MaxCommands,\* bound: commands begun
    NoFile

ASSUME CurationAssumption ==
    /\ Numbers \subseteq Nat \ {0} /\ CarriedNumbers \subseteq Numbers /\ StrongTexts \subseteq Texts
    /\ MaxCommands \in Nat

VARIABLES
    files,      \* <<directory, number>> -> the record's file
    torn,       \* files whose write did not end: nobody can read what they were to hold
    audit,      \* the voice audit's recommendation of each id
    candidates, \* the ids file of a bulk review
    command,    \* the command in the terminal
    commands,   \* how many have been begun
    lesson,     \* lessons in the web server
    snapshot,   \* the snapshot of one name: its directory, its files and, when it has one, its manifest
    decided,    \* history: the last finished review of an id since the candidates were listed
    collided    \* history: ids that were given to a second record

curationVars == <<files, torn, audit, candidates, command, commands, lesson, snapshot, decided, collided>>

Dirs == {"drafts", "approved", "rejected"}
Statuses == {"draft", "needs_edit", "approved", "rejected"}
DirOf(status) == IF status \in {"approved", "rejected"} THEN status ELSE "drafts"
Paths == Dirs \X Numbers
ASSUME NoFileAssumption == NoFile \notin Paths /\ NoFile \notin [text : Texts, status : Statuses, repaired : BOOLEAN]
Present(ps) == {p \in ps : files[p] # NoFile}
Idle == [kind |-> "idle", ids |-> {}, to |-> "draft", old |-> NoFile]
Listening == [pc |-> "idle", number |-> 0, text |-> NoFile]

CurationInit ==
    /\ files \in {[p \in Paths |-> IF p = <<"drafts", 1>> THEN r ELSE NoFile] :
                    r \in {NoFile} \cup [text : Texts, status : {"draft"}, repaired : {FALSE}]}
    /\ torn = {}
    /\ audit = [n \in Numbers |-> "none"]
    /\ candidates = {}
    /\ command = Idle /\ commands = 0
    /\ lesson = [w \in Lessons |-> Listening]
    /\ snapshot = [taken |-> FALSE, files |-> {}, manifest |-> NoFile]
    /\ decided = [n \in Numbers |-> "none"]
    /\ collided = {}

-----------------------------------------------------------------------------
(* The store.                                                              *)
GenerateId == Max({0} \cup {p[2] : p \in Present(Paths)}) + 1
\* The first of drafts, approved and rejected that has the id.
FindPath(n) ==
    CHOOSE p \in Present(Dirs \X {n}) :
        /\ <<"drafts", n>> \in Present(Paths) => p[1] = "drafts"
        /\ p[1] = "rejected" => <<"approved", n>> \notin Present(Paths)
Exists(n) == Present(Dirs \X {n}) # {}
\* Listing reads every file, and fails at one that is torn; so does loading a record whose file is.
Listable == torn = {}
Loadable(n) == Exists(n) /\ FindPath(n) \notin torn
\* Every write empties the file first: a process that dies before it has written leaves it torn.
WriteEnds(path) == torn' = torn \ {path}
WriteDies(path) == torn' = torn \cup {path}
SaveNew(n, text, status) ==
    /\ files[<<DirOf(status), n>>] = NoFile
    /\ files' = [files EXCEPT ![<<DirOf(status), n>>] = [text |-> text, status |-> status, repaired |-> FALSE]]
    /\ WriteEnds(<<DirOf(status), n>>) \/ WriteDies(<<DirOf(status), n>>)
    /\ collided' = IF Exists(n) THEN collided \cup {n} ELSE collided
\* A move writes the new file; the old one is unlinked in a step of its own, unless it is the same:
\* then the only file there is was written over.
NewFile(n, to) == <<DirOf(to), n>>

\* Mutant of Move: the old file is removed first.
MoveUnlinkingFirst(n, to) ==
    /\ files' = [files EXCEPT ![FindPath(n)] = NoFile]
    /\ UNCHANGED torn
    /\ command' = [command EXCEPT !.kind = IF @ = "idle" THEN "review" ELSE @, !.to = to, !.old = FindPath(n), !.ids = @ \ {n}]

Move(n, to) ==
    /\ files' = [files EXCEPT ![NewFile(n, to)] = [files[FindPath(n)] EXCEPT !.status = to]]
    /\ \/ /\ WriteEnds(NewFile(n, to))
          /\ command' = [command EXCEPT !.kind = IF @ = "idle" THEN "review" ELSE @, !.to = to, !.old = FindPath(n), !.ids = @ \ {n}]
       \/ WriteDies(NewFile(n, to)) /\ command' = Idle

-----------------------------------------------------------------------------
(* A lesson of the web page: a number, a look for the same conversation    *)
(* (which compares with every record there is, and takes long), the file.  *)
TakeNumber(w, text) ==
    /\ lesson[w].pc = "idle" /\ GenerateId \in Numbers
    /\ lesson' = [lesson EXCEPT ![w] = [pc |-> "compare", number |-> GenerateId, text |-> text]]
    /\ UNCHANGED <<files, torn, audit, candidates, command, snapshot, decided, collided, commands>>
CompareLesson(w) ==
    /\ lesson[w].pc = "compare"
    /\ lesson' = [lesson EXCEPT ![w] =
         IF ~Listable \/ \E p \in Present(Paths) : files[p].text = lesson[w].text THEN Listening ELSE [@ EXCEPT !.pc = "save"]]
    /\ UNCHANGED <<files, torn, audit, candidates, command, snapshot, decided, collided, commands>>
SaveLesson(w) ==
    /\ lesson[w].pc = "save"
    /\ lesson' = [lesson EXCEPT ![w] = Listening]
    /\ \/ SaveNew(lesson[w].number, lesson[w].text, "draft")
       \/ files[<<"drafts", lesson[w].number>>] # NoFile /\ UNCHANGED <<files, torn, collided>>
    /\ UNCHANGED <<audit, candidates, command, snapshot, decided, commands>>

-----------------------------------------------------------------------------
(* The commands.                                                           *)
Begin == command = Idle /\ commands < MaxCommands /\ commands' = commands + 1
\* A record of an import has its own id and status, or gets the next id and a default.
ImportRecord(text, n, status) ==
    /\ Begin
    /\ (n = GenerateId /\ status = "draft") \/ n \in CarriedNumbers
    /\ n \in Numbers
    /\ SaveNew(n, text, status)
    /\ UNCHANGED <<audit, candidates, command, lesson, snapshot, decided>>

Transition(n, to) ==
    /\ Begin /\ Loadable(n)
    /\ Move(n, to)
    /\ decided' = [decided EXCEPT ![n] = "none"]
    /\ UNCHANGED <<audit, candidates, lesson, snapshot, collided>>

\* The old file goes, and with it the review is done: of one record, or of the next of a bulk review.
RemoveOld(p, old) == p # old \/ p = <<DirOf(command.to), old[2]>>
FinishMove ==
    /\ command.old # NoFile
    /\ LET n == command.old[2] IN
       /\ files' = [p \in Paths |-> IF RemoveOld(p, command.old) THEN files[p] ELSE NoFile]
       /\ torn' = {p \in torn : RemoveOld(p, command.old)}
       /\ decided' = [decided EXCEPT ![n] = IF command.kind = "review" THEN command.to ELSE @]
    /\ command' = IF command.kind = "review" \/ command.ids = {} THEN Idle ELSE [command EXCEPT !.old = NoFile]
    /\ UNCHANGED <<audit, candidates, lesson, snapshot, collided, commands>>

\* A repair changes what the record says, in place and whatever its status.
EditMessage(n) ==
    /\ Loadable(n) /\ ~files[FindPath(n)].repaired
    /\ files' = [files EXCEPT ![FindPath(n)].repaired = TRUE]
    /\ WriteEnds(FindPath(n)) \/ WriteDies(FindPath(n))
ApplyRepair(n) ==
    /\ Begin /\ EditMessage(n)
    /\ UNCHANGED <<audit, candidates, command, lesson, snapshot, decided, collided>>

RunAudit ==
    /\ Begin /\ Listable
    /\ audit' = [n \in Numbers |->
         IF \E p \in Present(Dirs \X {n}) : files[p].status = "draft"
         THEN IF \E p \in Present(Dirs \X {n}) : files[p].status = "draft" /\ (files[p].text \in StrongTexts \/ files[p].repaired)
              THEN "STRONG" ELSE "NEEDS_EDIT"
         ELSE "none"]
    /\ UNCHANGED <<files, torn, candidates, command, lesson, snapshot, decided, collided>>

\* What the bulk review asks of a record, before listing it and again before changing it.
MatchesFilters(n) == audit[n] = "STRONG"

\* Mutant of HasStatus: the status is not asked for again.
HasStatusAny(n) == TRUE

HasStatus(n) == files[FindPath(n)].status = "draft"
\* The candidates, as the owner left them in the file.
ListCandidates(kept) ==
    /\ Begin /\ Listable
    /\ LET matched == {n \in Numbers : Exists(n) /\ HasStatus(n) /\ MatchesFilters(n)}
       IN  matched # {} /\ kept \subseteq matched
    /\ candidates' = kept
    /\ decided' = [n \in Numbers |-> "none"]
    /\ UNCHANGED <<files, torn, audit, command, lesson, snapshot, collided>>
ApplyBulk(to) ==
    /\ Begin /\ candidates # {}
    /\ command' = [kind |-> "bulk", ids |-> candidates, to |-> to, old |-> NoFile]
    /\ UNCHANGED <<files, torn, audit, candidates, lesson, snapshot, decided, collided>>
BulkOne(n) ==
    /\ command.kind = "bulk" /\ command.old = NoFile /\ n = Min(command.ids)
    /\ IF Loadable(n) /\ HasStatus(n) /\ MatchesFilters(n)
       THEN Move(n, command.to)
       ELSE /\ command' = IF command.ids = {n} \/ (Exists(n) /\ ~Loadable(n)) THEN Idle ELSE [command EXCEPT !.ids = @ \ {n}]
            /\ UNCHANGED <<files, torn>>
    /\ UNCHANGED <<audit, candidates, lesson, snapshot, decided, collided, commands>>

-----------------------------------------------------------------------------
(* Snapshots: a directory copied, the manifest last.                       *)
\* Mutant of MayCreate: a name is used twice.
MayCreateAnyway == TRUE

MayCreate == ~snapshot.taken
BeginSnapshot ==
    /\ Begin /\ MayCreate
    /\ command' = [Idle EXCEPT !.kind = "snapshot", !.ids = Dirs]
    /\ UNCHANGED <<files, torn, audit, candidates, lesson, snapshot, decided, collided>>
CopyDirectory(d) ==
    /\ command.kind = "snapshot" /\ d \in command.ids
    /\ d = "approved" => "drafts" \notin command.ids
    /\ d = "rejected" => command.ids = {d}
    /\ IF torn \cap ({d} \X Numbers) = {}
       THEN /\ snapshot' = [snapshot EXCEPT !.taken = TRUE,
                               !.files = {f \in @ : f[1][1] # d} \cup {<<p, files[p]>> : p \in Present({d} \X Numbers)}]
            /\ command' = [command EXCEPT !.ids = @ \ {d}]
       ELSE snapshot' = [snapshot EXCEPT !.taken = TRUE] /\ command' = Idle
    /\ UNCHANGED <<files, torn, audit, candidates, lesson, decided, collided, commands>>
WriteManifest ==
    /\ command.kind = "snapshot" /\ command.ids = {}
    /\ snapshot' = [snapshot EXCEPT !.manifest = snapshot.files]
    /\ command' = Idle
    /\ UNCHANGED <<files, torn, audit, candidates, lesson, decided, collided, commands>>
\* Every live file is deleted, then the manifest's files are copied back.
DeleteLive ==
    /\ Begin /\ snapshot.manifest # NoFile
    /\ files' = [p \in Paths |-> NoFile] /\ torn' = {}
    /\ command' = [Idle EXCEPT !.kind = "restore", !.ids = {f[1] : f \in snapshot.manifest}]
    /\ decided' = [n \in Numbers |-> "none"]
    /\ UNCHANGED <<audit, candidates, lesson, snapshot, collided>>
CopyBack(p) ==
    /\ command.kind = "restore" /\ p \in command.ids
    /\ files' = [files EXCEPT ![p] = (CHOOSE f \in snapshot.files : f[1] = p)[2]]
    /\ collided' = IF Exists(p[2]) THEN collided \cup {p[2]} ELSE collided
    /\ \/ WriteEnds(p) /\ command' = IF command.ids = {p} THEN Idle ELSE [command EXCEPT !.ids = @ \ {p}]
       \/ WriteDies(p) /\ command' = Idle
    /\ UNCHANGED <<audit, candidates, lesson, snapshot, decided, commands>>

\* What the verify command reports: every listed file is there as it was copied, each id once.
VerifySnapshot ==
    /\ snapshot.manifest # NoFile /\ snapshot.manifest \subseteq snapshot.files
    /\ \A f, g \in snapshot.manifest : f[1][2] = g[1][2] => f = g

CommandDies ==
    /\ command # Idle
    /\ command' = Idle
    /\ UNCHANGED <<files, torn, audit, candidates, lesson, snapshot, decided, collided, commands>>

CurationNext ==
    \/ \E w \in Lessons : (\E t \in Texts : TakeNumber(w, t)) \/ CompareLesson(w) \/ SaveLesson(w)
    \/ \E t \in Texts, n \in Numbers, s \in Statuses : ImportRecord(t, n, s)
    \/ \E n \in Numbers : (\E s \in Statuses : Transition(n, s)) \/ ApplyRepair(n) \/ BulkOne(n)
    \/ FinishMove \/ RunAudit
    \/ \E kept \in SUBSET Numbers : ListCandidates(kept)
    \/ \E s \in {"approved", "rejected", "needs_edit"} : ApplyBulk(s)
    \/ BeginSnapshot \/ (\E d \in Dirs : CopyDirectory(d)) \/ WriteManifest
    \/ DeleteLive \/ (\E p \in Paths : CopyBack(p))
    \/ CommandDies

CurationSpec == CurationInit /\ [][CurationNext]_curationVars
-----------------------------------------------------------------------------
(* Except by a restore, no step loses what a record says: a move that dies *)
(* half way leaves two files, never none, and a new record never replaces  *)
(* one, as long as no id is given to two records. Only a process that dies *)
(* while it writes over the very file it has read leaves nothing that can  *)
(* be read: a repair, or a move within one directory (store.py:108-121).   *)
Kept(n) ==
    \A p \in Present(Dirs \X {n}) \ torn :
        \E d \in Dirs : <<d, n>> \notin torn' /\ files'[<<d, n>>] # NoFile /\ files'[<<d, n>>].text = files[p].text
TornInPlace(n) == Exists(n) /\ torn' \ torn = {FindPath(n)}
KeptUntilRestored ==
    [][\/ "restore" \in {command.kind, command'.kind}
       \/ \A n \in Numbers : n \notin collided => Kept(n) \/ TornInPlace(n)]_curationVars

(* A bulk review never changes what somebody has decided about a record    *)
(* since the candidates were listed (cmd_apply, dataset_bulk_review.py):   *)
(* it asks again for the status it was listed with, of the file that every *)
(* other command works on too.                                             *)
BulkRespectsReviews ==
    [][command.kind = "bulk" /\ command.old = NoFile /\ command'.old # NoFile =>
         command'.old[2] \in collided \/ decided[command'.old[2]] \in {"none", "draft"}]_curationVars

(* A snapshot that has its manifest never changes, and verifies unless it  *)
(* was taken while a record had two files: the manifest is written last    *)
(* and a name is used once (create_snapshot, dataset_snapshot.py).         *)
SnapshotIntact ==
    [][snapshot.manifest # NoFile =>
         /\ snapshot' = snapshot
         /\ VerifySnapshot \/ \E f, g \in snapshot.files : f # g /\ f[1][2] = g[1][2]]_curationVars
=============================================================================
