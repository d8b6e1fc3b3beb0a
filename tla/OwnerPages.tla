------------------------------ MODULE OwnerPages ------------------------------
(***************************************************************************)
(* The owner's pages: the forms, lists and bulk imports of the knowledge   *)
(* page (web/knowledge.js, terminology.js, dance.js, general.js) and the   *)
(* two forms of the teach page (teach_knowledge.js, teach.js).  Each       *)
(* script is event handlers over the variables of its page; between an     *)
(* await and its answer other handlers run, and answers come in any order  *)
(* or not at all.  script says which of them runs.  Contents are reduced   *)
(* to whose they are: of the fields of a form, the record they were filled *)
(* from; of the rows of a preview, the file they were made from.           *)
(***************************************************************************)
EXTENDS Naturals, FiniteSets

CONSTANTS
    PageRecords,    \* ids of records
    UploadFiles,    \* files the owner may choose for an import
    MaxClicks       \* bound on what the owner does

ASSUME OwnerPagesAssumption ==
    IsFiniteSet(PageRecords) /\ IsFiniteSet(UploadFiles) /\ MaxClicks \in Nat /\ "nothing" \notin PageRecords \cup UploadFiles

VARIABLES
    script,     \* the script of the tab
    server,     \* the records the server has
    form,       \* [editing, shows, busy]: editingId, whose content the fields hold, save button disabled
    upload,     \* [picked, file, rows, shown, busy]: the input's file, previewFile or importFile, the table,
                \* preview visible, commit disabled
    listed,     \* the rows of the list, with their buttons
    calls,      \* requests without an answer, with what the server made of them
    sent,      \* requests sent
    clicks,     \* bound
    written,    \* history: the saves the server accepted
    imported    \* history: the imports the server accepted: [file, rows]
pagesVars == <<script, server, form, upload, listed, calls, sent, clicks, written, imported>>

Nothing == "nothing"
Lists == {"documents", "terms", "dance", "general"}
BlankForm == [editing |-> Nothing, shows |-> Nothing, busy |-> FALSE]
NoUpload == [picked |-> Nothing, file |-> Nothing, rows |-> Nothing, shown |-> FALSE, busy |-> FALSE]

PagesInit ==
  /\ script \in Lists \cup {"lesson", "example"}
  /\ server \in SUBSET PageRecords
  /\ form = BlankForm /\ upload = NoUpload
  /\ listed = IF script \in Lists THEN server ELSE {}
  /\ calls = {} /\ sent = 0 /\ clicks = 0 /\ written = {} /\ imported = {}

(* A request: the record or file it is about, and where the content sent   *)
(* with it came from.                                                      *)
Ask(kind, id, source) ==
  [kind |-> kind, n |-> sent + 1, id |-> id, source |-> source, agreed |-> FALSE, result |-> "none", found |-> {}]
Send(others, call) == calls' = others \cup {call} /\ sent' = sent + 1
Pressed == clicks < MaxClicks /\ clicks' = clicks + 1 /\ UNCHANGED <<script, server, written, imported>>

-------------------------------------------------------------------------------
(* The forms: what Save reads and sends, and whether it disables itself.   *)

PressSave(kind, disables) ==
  /\ Pressed /\ ~form.busy
  /\ Send(calls, Ask(kind, form.editing, form.shows))
  /\ form' = [form EXCEPT !.busy = disables]
  /\ UNCHANGED <<upload, listed>>
SubmitDocument == script = "documents" /\ PressSave("save", TRUE)
SubmitTerm == script = "terms" /\ PressSave("save", TRUE)
SubmitDance == script = "dance" /\ PressSave("save", FALSE)
SubmitRecord == script = "general" /\ PressSave("save", FALSE)
SubmitLesson == script = "lesson" /\ PressSave("same", FALSE)       \* is there one of this title?
SubmitExample == script = "example" /\ PressSave("save", TRUE)

\* Cancel or Clear.
PressCancel ==
  /\ Pressed
  /\ form' = [BlankForm EXCEPT !.busy = form.busy]
  /\ UNCHANGED <<upload, listed, calls, sent>>

(* The lists, with their buttons. Edit asks for the record first; the form *)
(* changes when it comes.                                                  *)
\* Mutant of OnAnswer: editingId is set when Edit is pressed, before the answer.
AtOnce(id) == [form EXCEPT !.editing = id]

OnAnswer(id) == form
PressEdit == \E id \in listed :
  /\ Pressed
  /\ Send(calls, Ask("edit", id, Nothing)) /\ form' = OnAnswer(id)
  /\ UNCHANGED <<upload, listed>>

PressDelete == \E id \in listed :       \* and confirm
  /\ Pressed
  /\ Send(calls, Ask("delete", id, Nothing))
  /\ UNCHANGED <<form, upload, listed>>

PressToggle == \E id \in listed :
  /\ Pressed /\ script = "general"
  /\ Send(calls, Ask("toggle", id, Nothing))
  /\ UNCHANGED <<form, upload, listed>>

\* A search, Refresh or the tab: the list is empty until the answer comes.
LoadList ==
  /\ Pressed /\ script \in Lists
  /\ listed' = {} /\ Send(calls, Ask("list", Nothing, Nothing))
  /\ UNCHANGED <<form, upload>>

(* The imports. Choosing a file asks for its preview; a wrong kind or size *)
(* is as if none were chosen.                                              *)
Choose(chosen(_)) == \E f \in UploadFiles \cup {Nothing} :
  /\ Pressed
  /\ upload' = chosen(f)
  /\ IF f = Nothing THEN UNCHANGED <<calls, sent>> ELSE Send(calls, Ask("preview", f, Nothing))
  /\ UNCHANGED <<form, listed>>
ChooseTerms == script = "terms" /\ Choose(LAMBDA f : [NoUpload EXCEPT !.picked = f, !.busy = upload.busy])
ChooseDances == script = "dance" /\ Choose(LAMBDA f : [upload EXCEPT !.picked = f, !.file = f, !.shown = FALSE])
ChooseRecords == script = "general" /\ Choose(LAMBDA f : [upload EXCEPT !.picked = f, !.file = f])

PressImport(disables) ==
  /\ Pressed /\ upload.shown /\ ~upload.busy /\ upload.file # Nothing
  /\ Send(calls, Ask("commit", upload.file, upload.rows))
  /\ upload' = [upload EXCEPT !.busy = disables]
  /\ UNCHANGED <<form, listed>>
ImportTerms == script = "terms" /\ PressImport(TRUE)
ImportDances == script = "dance" /\ PressImport(FALSE)
ImportRecords == script = "general" /\ PressImport(FALSE)

PutAway == IF script = "terms" THEN [NoUpload EXCEPT !.busy = upload.busy]
                               ELSE [upload EXCEPT !.picked = Nothing, !.file = Nothing, !.shown = FALSE]
CancelImport ==
  /\ Pressed /\ upload.shown
  /\ upload' = PutAway
  /\ UNCHANGED <<form, listed, calls, sent>>

-------------------------------------------------------------------------------
(* What the server makes of a request.                                     *)

Results(c) == CASE c.kind \in {"edit", "delete", "toggle"} -> {IF c.id \in server THEN "ok" ELSE "refused"}
                 [] c.kind = "save" -> IF c.id \in server \cup {Nothing} THEN {"ok", "refused"} ELSE {"refused"}
                 [] c.kind \in {"list", "meta", "same"} -> {"ok"}
                 [] OTHER -> {"ok", "refused"}
Findings(c) == CASE c.kind = "list" -> {server}
                 [] c.kind = "same" -> {{}} \cup {{id} : id \in server}
                 [] OTHER -> {{}}
\* A new record gets an id of its own; an example goes to the dataset.
ServerAfter(c) == CASE c.kind = "delete" -> {server \ {c.id}}
                    [] c.kind = "save" /\ c.id = Nothing /\ script # "example" -> {server \cup {id} : id \in PageRecords \ server}
                    [] OTHER -> {server}
Serve == \E c \in calls :
  /\ c.result = "none"
  /\ \E outcome \in Results(c), found \in Findings(c) :
       /\ calls' = (calls \ {c}) \cup {[c EXCEPT !.result = outcome, !.found = found]}
       /\ server' \in IF outcome = "ok" THEN ServerAfter(c) ELSE {server}
       /\ written' = IF outcome = "ok" /\ c.kind = "save"
                     THEN written \cup {[id |-> c.id, shows |-> c.source, agreed |-> c.agreed]} ELSE written
       /\ imported' = IF outcome = "ok" /\ c.kind = "commit" THEN imported \cup {[file |-> c.id, rows |-> c.source]} ELSE imported
  /\ UNCHANGED <<script, form, upload, listed, sent, clicks>>

-------------------------------------------------------------------------------
(* The answers.                                                            *)

Answered(kind, c) == c \in calls /\ c.kind = kind /\ c.result = "ok" /\ UNCHANGED <<script, server, clicks, written, imported>>
Reload(c) == listed' = {} /\ Send(calls \ {c}, Ask("list", Nothing, Nothing))

SaveAnswered == \E c \in calls :
  /\ Answered("save", c) /\ script # "lesson"
  /\ form' = BlankForm
  /\ IF script \in Lists THEN Reload(c) ELSE calls' = calls \ {c} /\ UNCHANGED <<listed, sent>>
  /\ UNCHANGED upload

\* The fields and editingId change together; a document waits for its title first.
Fill(c) == form' = [form EXCEPT !.editing = c.id, !.shows = c.id] /\ calls' = calls \ {c} /\ UNCHANGED sent
EditAnswered == \E c \in calls :
  /\ Answered("edit", c)
  /\ IF script = "documents" THEN Send(calls \ {c}, Ask("meta", c.id, Nothing)) /\ UNCHANGED form ELSE Fill(c)
  /\ UNCHANGED <<upload, listed>>
MetaAnswered == \E c \in calls : Answered("meta", c) /\ Fill(c) /\ UNCHANGED <<upload, listed>>

DeleteAnswered == \E c \in calls :
  /\ Answered("delete", c) /\ Reload(c)
  /\ form' = IF form.editing = c.id /\ script # "documents" THEN [BlankForm EXCEPT !.busy = form.busy] ELSE form
  /\ UNCHANGED upload

ToggleAnswered == \E c \in calls : Answered("toggle", c) /\ Reload(c) /\ UNCHANGED <<form, upload>>

ListAnswered == \E c \in calls :
  /\ Answered("list", c)
  /\ listed' = c.found /\ calls' = calls \ {c}
  /\ UNCHANGED <<form, upload, sent>>

Previewed(c, shown) == Answered("preview", c) /\ upload' = shown /\ calls' = calls \ {c} /\ UNCHANGED <<form, listed, sent>>

\* Mutant of FileSent: Import sends the file that is chosen by then.
FileByNow(c) == upload.picked

FileSent(c) == c.id
TermsPreviewed == script = "terms" /\ \E c \in calls :
  Previewed(c, [upload EXCEPT !.file = FileSent(c), !.rows = c.id, !.shown = TRUE, !.busy = FALSE])
DancesPreviewed == script = "dance" /\ \E c \in calls : Previewed(c, [upload EXCEPT !.rows = c.id, !.shown = TRUE])
RecordsPreviewed == script = "general" /\ \E c \in calls : Previewed(c, [upload EXCEPT !.rows = c.id, !.shown = TRUE])

ImportAnswered == \E c \in calls : Answered("commit", c) /\ upload' = PutAway /\ Reload(c) /\ UNCHANGED form

\* A lesson: a record of the same title is updated, if the owner agrees.
SameAnswered == \E c \in calls :
  /\ Answered("same", c)
  /\ \/ c.found = {} /\ Send(calls \ {c}, Ask("save", Nothing, c.source))
     \/ \E id \in c.found : Send(calls \ {c}, [Ask("save", id, c.source) EXCEPT !.agreed = TRUE])
     \/ c.found # {} /\ calls' = calls \ {c} /\ UNCHANGED sent
  /\ UNCHANGED <<form, upload, listed>>

\* A saved lesson is looked up; the form is cleared when it is found.
LessonSaved == \E c \in calls :
  /\ Answered("save", c) /\ script = "lesson"
  /\ Send(calls \ {c}, Ask("verify", c.id, Nothing))
  /\ UNCHANGED <<form, upload, listed>>
VerifyAnswered == \E c \in calls :
  /\ Answered("verify", c)
  /\ form' \in {BlankForm, form} /\ calls' = calls \ {c}
  /\ UNCHANGED <<upload, listed, sent>>

\* Refused, or the network failed before or after the server had the request: only the buttons come back.
Failed == \E c \in calls :
  /\ form' = IF c.kind = "save" THEN [form EXCEPT !.busy = FALSE] ELSE form
  /\ upload' = IF c.kind = "commit" THEN [upload EXCEPT !.busy = FALSE] ELSE upload
  /\ calls' = calls \ {c}
  /\ UNCHANGED <<script, server, listed, sent, clicks, written, imported>>

PagesNext ==
  \/ SubmitDocument \/ SubmitTerm \/ SubmitDance \/ SubmitRecord \/ SubmitLesson \/ SubmitExample
  \/ PressCancel \/ PressEdit \/ PressDelete \/ PressToggle \/ LoadList
  \/ ChooseTerms \/ ChooseDances \/ ChooseRecords \/ ImportTerms \/ ImportDances \/ ImportRecords \/ CancelImport
  \/ Serve
  \/ SaveAnswered \/ EditAnswered \/ MetaAnswered \/ DeleteAnswered \/ ToggleAnswered \/ ListAnswered
  \/ TermsPreviewed \/ DancesPreviewed \/ RecordsPreviewed \/ ImportAnswered
  \/ SameAnswered \/ LessonSaved \/ VerifyAnswered \/ Failed
PagesSpec == PagesInit /\ [][PagesNext]_pagesVars

-------------------------------------------------------------------------------
(* A save goes to the record whose content the form holds, whatever        *)
(* answers came in between: the fields and editingId change together       *)
(* (startEdit, edit, resetForm).  Only a lesson the owner confirmed        *)
(* replaces a record that was not loaded.                                  *)
SavesGoHome == \A w \in written : w.id = w.shows \/ w.agreed

(* A file is imported with the choices made on its own preview, and not    *)
(* before that preview was shown (knowledge.html: nothing is saved until   *)
(* you review the preview).                                                *)
ReviewedFirst == \A i \in imported : i.file = i.rows
(* The terminology tab keeps it: previewFile is set with the answer.       *)
TermsReviewedFirst == script = "terms" => ReviewedFirst

(* What a page sends is what it shows.                                     *)
PagesSendWhatTheyShow == SavesGoHome /\ TermsReviewedFirst
==============================================================================
