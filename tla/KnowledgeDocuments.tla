-------------------------- MODULE KnowledgeDocuments --------------------------
(***************************************************************************)
(* The knowledge documents, their metadata file, and the index built from  *)
(* them: two files on disk and the copy the chat service keeps in memory.  *)
(* The owner's routes and /rag/reindex run on the event loop, one at a     *)
(* time; the first chat turn that needs documents loads the index in a     *)
(* worker thread; scripts/ingest_knowledge.py, the backup and the restore  *)
(* are other processes. A document is a version number, an index is the    *)
(* documents it was built from.                                            *)
(***************************************************************************)
EXTENDS Naturals, Sequences, FiniteSets, FiniteSetsExt

CONSTANTS
    DocIds,     \* file names, in the order a slug tries them: faq.md, faq_2.md, ...
    MaxWrites,  \* bound on the requests to the routes and runs of the scripts
    DocCrashes  \* bound on the crashes of the server

ASSUME DocumentsAssumption ==
    IsFiniteSet(DocIds) /\ DocIds = 1 .. Cardinality(DocIds) /\ 1 \in DocIds /\ {MaxWrites, DocCrashes} \subseteq Nat

VARIABLES
    docs,       \* the version of each document on disk, or 0
    meta,       \* .metadata.json: the documents it says the owner created, or Torn
    vectorFile, \* the index file: the documents it was built from, or NoFile
    chunkFile,  \* the metadata of its chunks, written after it
    chatIndex,  \* RupsaaService._rag_pipeline: [vectors, chunks], or NoPipeline
    docJob,     \* what each process or thread is doing
    page,       \* the Rupsaa Knowledge page: the document being edited and the ones it offers to edit
    seeded,     \* documents that no tool created
    generalDir, \* has this server a directory knowledge/general?
    restored,   \* has an archive been restored?
    archive,    \* the last archive of backup_knowledge.sh, or NoArchive
    saved,      \* per document, the version last answered with success and not touched since, or 0
    requests, docCrashes

documentVars == <<docs, meta, vectorFile, chunkFile, chatIndex, docJob, page, seeded, generalDir, restored,
                  archive, saved, requests, docCrashes>>

NoFile == <<>>
NoArchive == [dirs |-> {}]
Torn == {0}
NoPipeline == [vectors |-> NoFile]
Empty == [d \in DocIds |-> 0]
NoEdit == 0
DocActors == {"loop", "chat", "script"}
Waiting == [todo |-> <<>>]
Doc(d) == docs[d] # 0
Next1(a) == docJob' = [docJob EXCEPT ![a].todo = Tail(@)]
At(a, step) == docJob[a].todo # <<>> /\ Head(docJob[a].todo) = step

DocumentsInit ==
    /\ seeded \in SUBSET {1} /\ generalDir \in BOOLEAN /\ restored = FALSE
    /\ docs = [d \in DocIds |-> IF d \in seeded THEN 1 ELSE 0]
    /\ meta = {}
    /\ vectorFile = NoFile /\ chunkFile = NoFile
    /\ chatIndex = NoPipeline
    /\ docJob = [a \in DocActors |-> Waiting]
    /\ page = [editing |-> NoEdit, offered |-> {}]
    /\ archive = NoArchive
    /\ saved = Empty
    /\ requests = 0 /\ docCrashes = 0

StartJob(a, steps, d) ==
    /\ docJob[a] = Waiting
    /\ requests < MaxWrites
    /\ requests' = requests + 1
    /\ docJob' = [docJob EXCEPT ![a] = [todo |-> steps, doc |-> d, version |-> requests + 2, read |-> Empty, kind |-> steps[1]]]

(***************************************************************************)
(* The routes of the documents. create takes the first free name of the    *)
(* slug; update refuses what the metadata does not call the owner's.       *)
(***************************************************************************)
\* Mutant of FreeName: documents of the tool do not count as taken.
FreeNameUnchecked == Min({d \in DocIds : ~Doc(d) \/ d \in meta})

FreeName == Min({d \in DocIds : ~Doc(d)})
CreateDocument ==
    /\ \E d \in DocIds : ~Doc(d)
    /\ StartJob("loop", <<"writeDoc", "saveMeta">>, FreeName)
    /\ UNCHANGED saved
MayEdit(d) == meta # Torn /\ d \in meta /\ Doc(d)
UpdateDocument(d) ==
    /\ MayEdit(d)
    /\ StartJob("loop", <<"writeDoc", "saveMeta">>, d)
    /\ saved' = [saved EXCEPT ![d] = 0]
DeleteDocument(d) ==
    /\ Doc(d)
    /\ StartJob("loop", <<"unlink", "saveMeta">>, d)
    /\ saved' = [saved EXCEPT ![d] = 0]

WriteDoc ==
    /\ At("loop", "writeDoc")
    /\ docs' = [docs EXCEPT ![docJob["loop"].doc] = docJob["loop"].version]
    /\ Next1("loop")
    /\ UNCHANGED <<meta, vectorFile, chunkFile, chatIndex, page, seeded, generalDir, restored, archive, saved, requests, docCrashes>>

UnlinkDoc ==
    /\ At("loop", "unlink")
    /\ docs' = [docs EXCEPT ![docJob["loop"].doc] = 0]
    /\ Next1("loop")
    /\ UNCHANGED <<meta, vectorFile, chunkFile, chatIndex, page, seeded, generalDir, restored, archive, saved, requests, docCrashes>>

\* Mutant of SaveMeta: a new document gets no metadata entry.
SaveMetaUnsaved ==
    /\ At("loop", "saveMeta")
    /\ saved' = [saved EXCEPT ![docJob["loop"].doc] = docs[docJob["loop"].doc]]
    /\ docJob' = [docJob EXCEPT !["loop"] = Waiting]
    /\ UNCHANGED <<docs, meta, vectorFile, chunkFile, chatIndex, page, seeded, generalDir, restored, archive, requests, docCrashes>>

\* Reads the metadata, which fails when it is torn, and writes it back with the entry of the document.
SaveMeta ==
    /\ At("loop", "saveMeta")
    /\ LET d == docJob["loop"].doc
       IN IF meta = Torn THEN UNCHANGED <<meta, saved>>
          ELSE /\ meta' = IF docJob["loop"].kind = "unlink" THEN meta \ {d} ELSE meta \cup {d}
               /\ saved' = [saved EXCEPT ![d] = IF docJob["loop"].kind = "unlink" THEN 0 ELSE docJob["loop"].version]
    /\ docJob' = [docJob EXCEPT !["loop"] = Waiting]
    /\ UNCHANGED <<docs, vectorFile, chunkFile, chatIndex, page, seeded, generalDir, restored, archive, requests, docCrashes>>

(***************************************************************************)
(* The Rupsaa Knowledge page. It offers Edit and Delete for the documents  *)
(* that were the owner's when it last loaded the list.                     *)
(***************************************************************************)
PageUnchanged == UNCHANGED <<docs, meta, vectorFile, chunkFile, chatIndex, seeded, generalDir, restored, archive, docCrashes>>

\* Mutant of LoadDocuments: the page offers every document.
LoadDocumentsAll ==
    /\ page' = [page EXCEPT !.offered = {d \in DocIds : Doc(d)}]
    /\ PageUnchanged /\ UNCHANGED <<docJob, saved, requests>>

LoadDocuments ==
    /\ meta # Torn
    /\ page' = [page EXCEPT !.offered = {d \in meta : Doc(d)}]
    /\ PageUnchanged /\ UNCHANGED <<docJob, saved, requests>>
StartEdit(d) ==
    /\ d \in page.offered /\ Doc(d)
    /\ page' = [page EXCEPT !.editing = d]
    /\ PageUnchanged /\ UNCHANGED <<docJob, saved, requests>>
CancelEdit ==
    /\ page' = [page EXCEPT !.editing = NoEdit]
    /\ PageUnchanged /\ UNCHANGED <<docJob, saved, requests>>
SaveDocument ==
    /\ IF page.editing = NoEdit THEN CreateDocument ELSE UpdateDocument(page.editing)
    /\ page' = [page EXCEPT !.editing = NoEdit]
    /\ PageUnchanged
DeleteOffered(d) ==
    /\ d \in page.offered
    /\ DeleteDocument(d)
    /\ UNCHANGED page
    /\ PageUnchanged

(***************************************************************************)
(* Ingest: read every document, embed the chunks, save the vectors, then   *)
(* the chunks. The owner's route and the script use a pipeline of their    *)
(* own; service.reindex first replaces the one of the chat.                *)
(***************************************************************************)
OwnerIngest == <<"read", "embed", "saveVectors", "saveChunks">>
ServiceIngest == <<"replace">> \o OwnerIngest
OnDisk == IF vectorFile = NoFile \/ chunkFile = NoFile THEN [vectors |-> Empty, chunks |-> Empty]
          ELSE [vectors |-> vectorFile, chunks |-> chunkFile]

ReindexKnowledge == StartJob("loop", OwnerIngest, NoEdit) /\ UNCHANGED <<page, saved>> /\ PageUnchanged
RagReindex == StartJob("loop", ServiceIngest, NoEdit) /\ UNCHANGED <<page, saved>> /\ PageUnchanged
IngestScript == StartJob("script", OwnerIngest, NoEdit) /\ UNCHANGED <<page, saved>> /\ PageUnchanged

IndexUnchanged == UNCHANGED <<docs, meta, page, seeded, generalDir, restored, archive, saved, requests, docCrashes>>
ReplacePipeline ==
    /\ At("loop", "replace")
    /\ chatIndex' = OnDisk
    /\ Next1("loop")
    /\ IndexUnchanged /\ UNCHANGED <<vectorFile, chunkFile>>
ForChat(a) == docJob[a].kind = "replace"
\* self.store becomes a new, empty store before anything is embedded.
ReadDocs(a) ==
    /\ At(a, "read")
    /\ docJob' = [docJob EXCEPT ![a].todo = Tail(@), ![a].read = docs]
    /\ chatIndex' = IF ForChat(a) THEN [vectors |-> Empty, chunks |-> Empty] ELSE chatIndex
    /\ IndexUnchanged /\ UNCHANGED <<vectorFile, chunkFile>>
EmbedDocs(a) ==
    /\ At(a, "embed")
    /\ \/ /\ Next1(a)
          /\ chatIndex' = IF ForChat(a) THEN [vectors |-> docJob[a].read, chunks |-> docJob[a].read] ELSE chatIndex
       \/ docJob' = [docJob EXCEPT ![a] = Waiting] /\ UNCHANGED chatIndex    \* the embedding model fails
    /\ IndexUnchanged /\ UNCHANGED <<vectorFile, chunkFile>>
SaveVectors(a) ==
    /\ At(a, "saveVectors")
    /\ vectorFile' = docJob[a].read
    /\ Next1(a)
    /\ IndexUnchanged /\ UNCHANGED <<chunkFile, chatIndex>>
SaveChunks(a) ==
    /\ At(a, "saveChunks")
    /\ chunkFile' = docJob[a].read
    /\ docJob' = [docJob EXCEPT ![a] = Waiting]
    /\ IndexUnchanged /\ UNCHANGED <<vectorFile, chatIndex>>

\* The first turn that searches the documents: _rag_pipeline is None, so load the files and keep the result.
FirstQuery ==
    /\ docJob["chat"] = Waiting
    /\ chatIndex = NoPipeline
    /\ docJob' = [docJob EXCEPT !["chat"] = [todo |-> <<"loadChunks">>, loaded |-> OnDisk]]
    /\ IndexUnchanged /\ UNCHANGED <<vectorFile, chunkFile, chatIndex>>
LoadChunks ==
    /\ At("chat", "loadChunks")
    /\ chatIndex' = IF docJob["chat"].loaded.vectors = Empty THEN docJob["chat"].loaded
                    ELSE [vectors |-> docJob["chat"].loaded.vectors, chunks |-> OnDisk.chunks]
    /\ docJob' = [docJob EXCEPT !["chat"] = Waiting]
    /\ IndexUnchanged /\ UNCHANGED <<vectorFile, chunkFile>>

(***************************************************************************)
(* The backup takes what the owner edits; the restore accepts an archive   *)
(* of directories it knows, writes it over what is there and deletes       *)
(* nothing. Either takes a moment of its own.                              *)
(***************************************************************************)
BackupDirs == {"documents", "terminology", "dance", "general", "drafts"}
RestoreDirs == {"documents", "terminology", "dance", "drafts"}
Archive == [dirs |-> IF generalDir THEN BackupDirs ELSE BackupDirs \ {"general"}, docs |-> docs, meta |-> meta]
MakeBackup ==
    /\ docJob["loop"] = Waiting
    /\ archive' = Archive
    /\ UNCHANGED <<docs, meta, vectorFile, chunkFile, chatIndex, docJob, page, seeded, generalDir, restored, saved, requests, docCrashes>>
Restore ==
    /\ docJob["loop"] = Waiting
    /\ archive # NoArchive /\ archive.dirs \subseteq RestoreDirs
    /\ requests < MaxWrites
    /\ requests' = requests + 1
    /\ docs' = [d \in DocIds |-> IF archive.docs[d] # 0 THEN archive.docs[d] ELSE docs[d]]
    /\ meta' = archive.meta
    /\ restored' = TRUE
    /\ saved' = Empty
    /\ archive' = Archive       \* the safety backup of the current state
    /\ UNCHANGED <<vectorFile, chunkFile, chatIndex, docJob, page, seeded, generalDir, docCrashes>>

\* The server dies: a metadata file that was being written is torn, memory is empty.
ServerCrash ==
    /\ docCrashes < DocCrashes
    /\ docCrashes' = docCrashes + 1
    /\ meta' \in IF At("loop", "saveMeta") THEN {meta, Torn} ELSE {meta}
    /\ chatIndex' = NoPipeline
    /\ docJob' = [docJob EXCEPT !["loop"] = Waiting, !["chat"] = Waiting]
    /\ UNCHANGED <<docs, vectorFile, chunkFile, page, seeded, generalDir, restored, archive, saved, requests>>

DocumentsNext ==
    \/ \E d \in DocIds : StartEdit(d) \/ DeleteOffered(d)
    \/ SaveDocument \/ LoadDocuments \/ CancelEdit
    \/ WriteDoc \/ UnlinkDoc \/ SaveMeta
    \/ ReindexKnowledge \/ RagReindex \/ IngestScript
    \/ ReplacePipeline
    \/ \E a \in DocActors : ReadDocs(a) \/ EmbedDocs(a) \/ SaveVectors(a) \/ SaveChunks(a)
    \/ FirstQuery \/ LoadChunks
    \/ MakeBackup \/ Restore
    \/ ServerCrash

DocumentsSpec == DocumentsInit /\ [][DocumentsNext]_documentVars
-----------------------------------------------------------------------------
(* A document whose save was answered with success stays on disk as it was *)
(* saved until a request is about it: no other title takes its file, and   *)
(* no crash does (create_document, update_document).                       *)
SavedDocumentsStay == \A d \in DocIds : saved[d] # 0 => docs[d] = saved[d]

(* A document that was there before the tool is never changed nor deleted  *)
(* from the page: the server refuses to edit it, but would delete it; the  *)
(* page does not offer to (update_document, renderDocuments).              *)
ReadOnlyDocumentsStay == \A d \in seeded : docs[d] = 1

(* Without a crash and a restore, every document that was created with the *)
(* tool can still be edited with it.                                       *)
DocumentsStayEditable ==
    docCrashes = 0 /\ ~restored /\ docJob["loop"] = Waiting =>
        \A d \in DocIds \ seeded : Doc(d) => MayEdit(d)

(* The documents are those the owner saved, and his to edit.               *)
DocumentsKept == SavedDocumentsStay /\ ReadOnlyDocumentsStay /\ DocumentsStayEditable

(* A reindex takes effect in the chat: when the index on disk is that of   *)
(* the documents, the chat does not answer from another one.               *)
ReindexReachesChat ==
    /\ \A a \in DocActors : docJob[a] = Waiting
    /\ vectorFile = docs /\ chunkFile = docs
    => chatIndex \in {NoPipeline, [vectors |-> docs, chunks |-> docs]}
=============================================================================
