---------------------------- MODULE LibraryNotes ----------------------------
(***************************************************************************)
(* Two more clients of the local library: the investigation notebook,      *)
(* whose pins refer to retained evidence by a fingerprint, and the editor  *)
(* of researcher names.  Each keeps one file of the library and replaces   *)
(* the whole document under compare-and-swap.  A task between two awaits   *)
(* is one action.  Deadlines, cancellation, lost, late and replayed        *)
(* requests, other windows and the evidence that scrolls out of the        *)
(* retained window are the environment.  A behaviour follows the user of   *)
(* one client; what the other one writes is another window's replacement.  *)
(* One pinned record and one named item stand for all; file and folder     *)
(* names and size limits are left out.                                     *)
(***************************************************************************)
EXTENDS LocalLibrary

CONSTANTS Names, Notes,   \* researcher names and notes
          Versions,       \* what the pinned record may be
          Broken,         \* the content of a document that does not validate
          MaxPins,        \* bound: pin identifiers that are given out
          MaxSends        \* bound: the replacements each client sends

VARIABLES
    client,     \* the client whose user the behaviour follows
    notebook,   \* createStore of the notebook: library, uncertain, the active operation
    page,       \* mount of the notebook: file, pins, draft, flags, verification
    naming,     \* createStore of the names: library, the operation that keeps it busy
    editor,     \* the open name editor
    evidence,   \* the retained record, or Gone
    requests    \* replacements in flight

notesVars == <<client, store, notebook, page, naming, editor, evidence, requests>>

Gone == "gone"
Unnamed == "unnamed"
NoLibrary == [kind |-> "none"]
Loaded(library) == library # NoLibrary

NamesBody(name) == [kind |-> "names", name |-> name]
NotebookBody(next, pins) == [kind |-> "notebook", next |-> next, pins |-> pins]
EmptyNotebook == NotebookBody(1, << >>)
NoDraft == [id |-> None]

\* validate: the pins of a notebook have identifiers below the next one.
Pinned == [ref : Versions, note : Notes]
PinMaps(next) == UNION {[D -> Pinned] : D \in SUBSET ((1..MaxPins) \cap (1..next - 1))}
Notebooks == UNION {{NotebookBody(next, pins) : pins \in PinMaps(next)} : next \in 1..MaxPins + 1}

\* A file's body is any; a notebook that validates, or a name, can be written.
ASSUME BodiesAssumption ==
    /\ MaxPins \in Nat /\ MaxSends \in Nat /\ Notes # {} /\ Gone \notin Versions
    /\ Notebooks \union {NamesBody(name) : name \in Names \union {Unnamed}} \subseteq Bodies
    /\ \A body \in Notebooks : body.pins # Broken
    /\ \A body \in Bodies :
          /\ body.kind = "notebook" => body \in Notebooks \/ body.pins = Broken
          /\ body.kind = "names" => \E name \in Names \union {Unnamed, Broken} : body = NamesBody(name)

Idle == [at |-> "idle"]
NotVerifying == [kind |-> "none"]
NoEditor == [open |-> FALSE]

NotesInit ==
    /\ InitStore
    /\ client \in {"notebook", "names"}
    /\ notebook = [library |-> NoLibrary, uncertain |-> FALSE, op |-> Idle, sent |-> 0]
    /\ page = [file |-> None, base |-> NoFile, doc |-> NoBody, selected |-> None, draft |-> NoDraft,
               dirty |-> FALSE, stale |-> FALSE, verifying |-> NotVerifying, armed |-> "none"]
    /\ naming = [library |-> NoLibrary, op |-> Idle, sent |-> 0]
    /\ editor = NoEditor
    /\ evidence \in Versions
    /\ requests = {}

-----------------------------------------------------------------------------
\* Both clients accept the receipt of exactly the library they submitted.
Receipt(w, answer) ==
    /\ answer.kind = "document"
    /\ answer.body.generation \in {w.expected, w.expected + 1}
    /\ Contents(answer.body) = w.contents

-----------------------------------------------------------------------------
\* The notebook's store runs one operation at a time.

\* A read that fails changes nothing; a write that fails or is given up may
\* still be carried out, and forbids another one until the library is read.
Cancelled(nb) == [nb EXCEPT !.op = Idle, !.uncertain = @ \/ nb.op.at = "saving"]

CanWrite == Loaded(notebook.library) /\ ~notebook.uncertain

Load(p) ==
    /\ notebook' = [notebook EXCEPT !.op = [at |-> "loading", answer |-> NoAnswer]]
    /\ page' = p
    /\ UNCHANGED <<client, store, naming, editor, evidence, requests>>

\* persist: replace the library with the file's new body, or without the file.
Persist(p, i, files) ==
    LET w == [client |-> "notebook", n |-> notebook.sent + 1, file |-> i,
              seen |-> File(notebook.library, i), expected |-> notebook.library.generation,
              contents |-> [folders |-> notebook.library.folders, files |-> files]] IN
    /\ CanWrite /\ notebook.sent < MaxSends
    /\ notebook' = [notebook EXCEPT !.op = [at |-> "saving", answer |-> NoAnswer, request |-> w],
                                    !.sent = @ + 1]
    /\ page' = p
    /\ requests' = requests \union {w}
    /\ UNCHANGED <<client, store, naming, editor, evidence>>

\* Every interaction ends a verification and a delete confirmation.
Change(p) == [p EXCEPT !.verifying = NotVerifying, !.armed = "none"]

candidates(library) == {i \in DOMAIN library.files : library.files[i].body.kind = "notebook"}
readNotebook(file) ==
    IF file.body.kind = "notebook" /\ file.body.pins # Broken THEN file.body ELSE NoBody

Adopt(p, library, i) ==
    [Change(p) EXCEPT !.file = i, !.base = File(library, i), !.doc = readNotebook(File(library, i)),
                      !.selected = None, !.draft = NoDraft, !.dirty = FALSE, !.stale = FALSE]

Pins(doc) == IF doc = NoBody THEN << >> ELSE doc.pins
ChoosePin(p, id) ==
    [Change(p) EXCEPT !.selected = id,
        !.draft = IF id \in DOMAIN Pins(p.doc)
                  THEN [id |-> id, ref |-> Pins(p.doc)[id].ref, note |-> Pins(p.doc)[id].note]
                  ELSE NoDraft]

Busy == notebook.op.at # "idle" \/ page.verifying.kind # "none"
Pinning(next) == page' = next /\ UNCHANGED <<client, store, notebook, naming, editor, evidence, requests>>

\* Mutant: reloading does not look at unsaved edits.
Bug_Reload_Dirty == ~Busy /\ Load(Change(page))

\* The reload button, or showing the dialog; a dirty draft is never reloaded over.
Reload == ~Busy /\ ~page.dirty /\ Load(Change(page))

LibraryLoaded ==
    /\ notebook.op.at = "loading" /\ notebook.op.answer.kind = "document"
    /\ LET body == notebook.op.answer.body IN
       /\ notebook' = [notebook EXCEPT !.library = body, !.uncertain = FALSE, !.op = Idle]
       /\ page' = Adopt(page, body, IF page.file \in candidates(body) THEN page.file ELSE None)
    /\ UNCHANGED <<client, store, naming, editor, evidence, requests>>

NotebookSaved ==
    LET op == notebook.op IN
    /\ op.at = "saving" /\ Receipt(op.request, op.answer)
    /\ notebook' = [notebook EXCEPT !.library = op.answer.body, !.uncertain = FALSE, !.op = Idle]
    /\ LET kept == op.request.file \in DOMAIN op.request.contents.files
           p == Adopt(page, op.answer.body, IF kept THEN op.request.file ELSE None) IN
       page' = IF kept /\ page.selected \in DOMAIN Pins(p.doc) THEN ChoosePin(p, page.selected) ELSE p
    /\ UNCHANGED <<client, store, naming, editor, evidence, requests>>

\* An error, a refused receipt or the deadline.
OperationFails ==
    /\ notebook.op.at # "idle"
    /\ notebook' = Cancelled(notebook)
    /\ UNCHANGED <<client, store, page, naming, editor, evidence, requests>>

\* The cancel button, closing the dialog, leaving the page.
CancelOrHide ==
    /\ Busy \/ page.armed # "none"
    /\ notebook' = Cancelled(notebook)
    /\ page' = Change(page)
    /\ UNCHANGED <<client, store, naming, editor, evidence, requests>>

CreateNotebook ==
    /\ ~Busy /\ ~page.dirty /\ CanWrite
    /\ LET i == NextId(DOMAIN notebook.library.files) IN
       /\ i \in FileIds
       /\ Persist(Change(page), i, With(Contents(notebook.library).files, i,
                                         [folder |-> 1, body |-> EmptyNotebook]))

SelectNotebook(i) ==
    /\ ~Busy /\ ~page.dirty /\ Loaded(notebook.library)
    /\ i \in candidates(notebook.library) /\ i # page.file
    /\ Pinning(Adopt(page, notebook.library, i))

SelectPin(id) ==
    /\ ~Busy /\ ~page.dirty /\ id \in DOMAIN Pins(page.doc)
    /\ Pinning(ChoosePin(page, id))

EditNote(note) ==
    /\ ~Busy /\ page.draft # NoDraft /\ note # page.draft.note
    /\ Pinning([Change(page) EXCEPT !.dirty = TRUE, !.draft.note = note])

Discard ==
    /\ page.draft # NoDraft /\ (Busy => page.verifying.kind # "none")
    /\ Pinning([ChoosePin(page, page.selected) EXCEPT !.dirty = FALSE])

-----------------------------------------------------------------------------
\* Evidence is verified across an asynchronous digest, and compared again when
\* the digest is there, in the task that uses it.
Verify(kind) == Pinning([Change(page) EXCEPT !.verifying = [kind |-> kind, token |-> evidence]])

\* Mutant: the record is not compared again after the digest.
Bug_Verified_NoRecheck(ref) == page.verifying.token = ref

Verified(ref) == page.verifying.token = ref /\ evidence = ref

UpToDate == ~Busy /\ ~page.dirty /\ ~page.stale

AddPin ==
    /\ UpToDate /\ page.doc # NoBody /\ CanWrite
    /\ Cardinality(DOMAIN page.doc.pins) < MaxPins /\ page.doc.next <= MaxPins
    /\ evidence # Gone
    /\ Verify("add")

AddVerified ==
    /\ page.verifying.kind = "add"
    /\ Pinning(IF Verified(page.verifying.token)
               THEN \* a fresh draft of the verified record
                    [page EXCEPT !.verifying = NotVerifying, !.selected = None, !.dirty = TRUE,
                        !.draft = [id |-> page.doc.next, ref |-> page.verifying.token,
                                   note |-> CHOOSE note \in Notes : TRUE]]
               ELSE [page EXCEPT !.verifying = NotVerifying])

IsNewPin == page.draft.id \notin DOMAIN page.doc.pins
WithPin(doc, draft) ==
    NotebookBody(IF draft.id \in DOMAIN doc.pins THEN doc.next ELSE doc.next + 1,
                 With(doc.pins, draft.id, [ref |-> draft.ref, note |-> draft.note]))

PersistBody(p, body) ==
    Persist(p, p.file, [Contents(notebook.library).files EXCEPT ![p.file].body = body])

SavePin ==
    /\ ~Busy /\ page.dirty /\ ~page.stale /\ CanWrite
    /\ IF page.file \notin DOMAIN notebook.library.files \/ File(notebook.library, page.file) # page.base
       THEN Pinning([page EXCEPT !.stale = TRUE])
       ELSE IF IsNewPin THEN Verify("save")
       ELSE PersistBody([Change(page) EXCEPT !.selected = page.draft.id], WithPin(page.doc, page.draft))

SaveVerified ==
    /\ page.verifying.kind = "save"
    /\ LET p == [page EXCEPT !.verifying = NotVerifying] IN
       IF Verified(page.draft.ref)
       THEN PersistBody([p EXCEPT !.selected = page.draft.id], WithPin(page.doc, page.draft))
       ELSE Pinning(p)

OpenPin == UpToDate /\ page.draft # NoDraft /\ Verify("open")

\* Verified evidence is shown and the dialog closes.
OpenVerified == page.verifying.kind = "open" /\ Verified(page.draft.ref) /\ Pinning(Change(page))
OpenRefused ==
    /\ page.verifying.kind = "open" /\ ~Verified(page.draft.ref)
    /\ Pinning([page EXCEPT !.verifying = NotVerifying])

DeletePin ==
    /\ UpToDate /\ page.selected \in DOMAIN Pins(page.doc) /\ CanWrite
    /\ IF page.armed # "pin" THEN Pinning([page EXCEPT !.armed = "pin"])
       ELSE PersistBody(Change(page), [page.doc EXCEPT !.pins = Without(@, page.selected)])

DeleteNotebook ==
    /\ UpToDate /\ page.doc # NoBody /\ CanWrite
    /\ IF page.armed # "book" THEN Pinning([page EXCEPT !.armed = "book"])
       ELSE Persist(Change(page), page.file, Without(Contents(notebook.library).files, page.file))

-----------------------------------------------------------------------------
\* Names.  The one names file of a library, if it has at most one.
NamesFiles(library) == {i \in DOMAIN library.files : library.files[i].body.kind = "names"}
Ready(library) ==
    /\ Cardinality(NamesFiles(library)) <= 1
    /\ \A i \in NamesFiles(library) : library.files[i].body.name # Broken
NameIn(library) ==
    IF NamesFiles(library) = {} THEN Unnamed
    ELSE library.files[CHOOSE i \in NamesFiles(library) : TRUE].body.name
ShownName(library) ==
    IF Loaded(library) /\ Ready(library) THEN NameIn(library) ELSE Unnamed

NamingOnly(next, shown) ==
    naming' = next /\ editor' = shown /\ UNCHANGED <<client, store, notebook, page, evidence, requests>>

LoadNames ==
    /\ naming.op.at = "idle"
    /\ NamingOnly([naming EXCEPT !.op = [at |-> "loading", answer |-> NoAnswer]], editor)

NamesLoaded ==
    /\ naming.op.at = "loading" /\ naming.op.answer.kind = "document"
    /\ NamingOnly([naming EXCEPT !.library = naming.op.answer.body, !.op = Idle], editor)

\* Mutant: a document the Analyst admitted is taken in the middle of a rename.
Bug_Observe_Busy(document) ==
    /\ Loaded(naming.library) => document.generation > naming.library.generation
    /\ NamingOnly([naming EXCEPT !.library = document], editor)

\* The Analyst workspace admitted a document that some earlier read returned.
Observe(document) ==
    /\ naming.op.at = "idle"
    /\ Loaded(naming.library) => document.generation > naming.library.generation
    /\ NamingOnly([naming EXCEPT !.library = document], editor)

\* Opening an editor closes the one that was open; a rename it started goes on.
Disowned == IF naming.op.at \in {"reading", "posting"} THEN [naming EXCEPT !.op.owned = FALSE] ELSE naming

BeginRename ==
    LET base == ShownName(naming.library) IN
    NamingOnly(Disowned, [open |-> TRUE, base |-> base, input |-> base])

CloseEditor == editor.open /\ NamingOnly(Disowned, NoEditor)

EditorSaving == naming.op.at \in {"reading", "posting"} /\ naming.op.owned

EditName(name) ==
    /\ editor.open /\ ~EditorSaving /\ name # editor.input
    /\ NamingOnly(naming, [editor EXCEPT !.input = name])

SubmitName ==
    /\ editor.open /\ naming.op.at = "idle"
    /\ NamingOnly([naming EXCEPT !.op = [at |-> "reading", answer |-> NoAnswer, owned |-> TRUE,
                                         name |-> editor.input, base |-> editor.base]], editor)

\* The rename ends; the editor that started it closes, or stays with a message.
RenameEnds(library, base) ==
    NamingOnly([naming EXCEPT !.library = library, !.op = Idle],
               IF naming.op.owned THEN [editor EXCEPT !.base = base] ELSE editor)
RenameSucceeds(library) ==
    NamingOnly([naming EXCEPT !.library = library, !.op = Idle], IF naming.op.owned THEN NoEditor ELSE editor)

Renamed(library, name) ==
    LET i == IF NamesFiles(library) = {} THEN NextId(DOMAIN library.files)
             ELSE CHOOSE j \in NamesFiles(library) : TRUE
        folder == IF NamesFiles(library) = {} THEN 1 ELSE library.files[i].folder IN
    With(Contents(library).files, i, [folder |-> folder, body |-> NamesBody(name)])

\* Mutant: a name changed elsewhere is replaced without asking.
Bug_NameConflicts_Ignored(library) == FALSE

\* The name is not the one the editor was opened on.
NameConflicts(library) == NameIn(library) # naming.op.base

PostRename(library) ==
    LET w == [client |-> "names", n |-> naming.sent + 1,
              name |-> naming.op.name, base |-> naming.op.base, expected |-> library.generation,
              contents |-> [folders |-> library.folders, files |-> Renamed(library, naming.op.name)]] IN
    /\ DOMAIN w.contents.files \subseteq FileIds /\ naming.sent < MaxSends
    /\ naming' = [library |-> library, sent |-> naming.sent + 1,
                  op |-> [at |-> "posting", answer |-> NoAnswer, owned |-> naming.op.owned,
                          request |-> w]]
    /\ requests' = requests \union {w}
    /\ UNCHANGED <<client, store, notebook, page, editor, evidence>>

\* Every rename rereads the library and compares three names.
RenameRead ==
    /\ naming.op.at = "reading" /\ naming.op.answer.kind = "document"
    /\ LET library == naming.op.answer.body IN
       IF ~Ready(library) THEN RenameEnds(library, editor.base)
       ELSE IF NameIn(library) = naming.op.name THEN RenameSucceeds(library)
       ELSE IF NameConflicts(library) THEN RenameEnds(library, NameIn(library))
       ELSE PostRename(library)

RenameSaved ==
    /\ naming.op.at = "posting" /\ Receipt(naming.op.request, naming.op.answer)
    /\ RenameSucceeds(naming.op.answer.body)

\* An error, a refusal, a receipt of another library or the deadline.
NamesFail ==
    /\ naming.op.at # "idle"
    /\ NamingOnly([naming EXCEPT !.op = Idle], editor)

-----------------------------------------------------------------------------
\* A request may be handled after its caller gave up, or never; a replayed one
\* finds its generation gone.
StoreAnswers(w) ==
    /\ HasRoom(w)
    /\ IF Refused(w) THEN UNCHANGED store ELSE Replace(w)
    /\ requests' = requests \ {w}
    /\ \E replayed \in BOOLEAN :
          LET answer == IF Refused(w) \/ replayed THEN Refusal ELSE Answer(store'[Len(store')]) IN
          /\ notebook' = IF notebook.op.at = "saving" /\ notebook.op.request = w
                         THEN [notebook EXCEPT !.op.answer = answer] ELSE notebook
          /\ naming' = IF naming.op.at = "posting" /\ naming.op.request = w
                       THEN [naming EXCEPT !.op.answer = answer] ELSE naming
    /\ UNCHANGED <<client, page, editor, evidence>>

AnswerNotebook ==
    /\ notebook.op.at = "loading" /\ notebook.op.answer = NoAnswer
    /\ notebook' = [notebook EXCEPT !.op.answer = Answer(Current)]
    /\ UNCHANGED <<client, store, page, naming, editor, evidence, requests>>

AnswerNames ==
    /\ naming.op.at \in {"loading", "reading"} /\ naming.op.answer = NoAnswer
    /\ naming' = [naming EXCEPT !.op.answer = Answer(Current)]
    /\ UNCHANGED <<client, store, notebook, page, editor, evidence, requests>>

AnotherWindow(contents) ==
    /\ OtherWindowSaves(contents)
    /\ UNCHANGED <<client, notebook, page, naming, editor, evidence, requests>>

EvidenceChanges ==
    /\ client = "notebook"
    /\ evidence' \in (Versions \union {Gone}) \ {evidence}
    /\ UNCHANGED <<client, store, notebook, page, naming, editor, requests>>

Notebook ==
    \/ Reload \/ LibraryLoaded \/ NotebookSaved \/ OperationFails \/ CancelOrHide
    \/ CreateNotebook \/ Discard \/ AddPin \/ AddVerified \/ SavePin \/ SaveVerified
    \/ OpenPin \/ OpenVerified \/ OpenRefused \/ DeletePin \/ DeleteNotebook
    \/ \E i \in FileIds : SelectNotebook(i)
    \/ \E id \in 1..MaxPins : SelectPin(id)
    \/ \E note \in Notes : EditNote(note)

Naming ==
    \/ LoadNames \/ NamesLoaded \/ BeginRename \/ CloseEditor \/ SubmitName
    \/ RenameRead \/ RenameSaved \/ NamesFail
    \/ \E name \in Names \union {Unnamed} : EditName(name)
    \/ \E g \in DOMAIN store : Observe(store[g])

NotesEnvironment ==
    \/ \E w \in requests : StoreAnswers(w)
    \/ AnswerNotebook \/ AnswerNames \/ EvidenceChanges
    \/ \E contents \in OtherContents : AnotherWindow(contents)

NotesNext ==
    \/ client = "notebook" /\ Notebook
    \/ client = "names" /\ Naming
    \/ NotesEnvironment

NotesSpec == NotesInit /\ [][NotesNext]_notesVars

-----------------------------------------------------------------------------
\* The variables have their types, and the documents their generations.
NotesTypeOK ==
    /\ \A g \in DOMAIN store : store[g] \in Documents /\ store[g].generation = g - 1
    /\ client \in {"notebook", "names"}
    /\ notebook.op.at \in {"idle", "loading", "saving"} /\ notebook.sent \in 0..MaxSends
    /\ Loaded(notebook.library) => notebook.library \in Documents
    /\ page.file \in FileIds \union {None} /\ page.selected \in 0..MaxPins
    /\ page.draft = NoDraft \/ page.draft \in [id : 1..MaxPins, ref : Versions, note : Notes]
    /\ page.verifying.kind \in {"none", "add", "save", "open"}
    /\ naming.op.at \in {"idle", "loading", "reading", "posting"} /\ naming.sent \in 0..MaxSends
    /\ Loaded(naming.library) => naming.library \in Documents
    /\ evidence \in Versions \union {Gone}

\* What a client replaces is what its user saw: the notebook's file as it was
\* when its draft was made, and the name the editor was opened on or reported
\* as changed elsewhere, in the only names file; nothing else is touched.
SeenIn(w, old) ==
    LET changed == Differing(Contents(old).files, w.contents.files) IN
    CASE w.client = "notebook" -> changed \subseteq {w.file} /\ File(old, w.file) = w.seen
      [] w.client = "names" -> /\ Ready(old) /\ NameIn(old) = w.base
                               /\ NamesFiles(old) # {} => changed \subseteq NamesFiles(old)
                               /\ NamesFiles(old) = {} => changed \cap DOMAIN old.files = {}
NotesOverwritesOnlySeen ==
    [][\A w \in requests : StoreAnswers(w) /\ store' # store => SeenIn(w, Current)]_notesVars

\* The names shown never go back to an older library, whatever order documents
\* read by the Analyst, a load and a rename are taken in.
NamesAdvance ==
    [][Loaded(naming.library) =>
          Loaded(naming'.library) /\ naming'.library.generation >= naming.library.generation]_notesVars

\* A pin is written only while the retained record still is what it refers to.
NewPins(w) ==
    IF w.file \notin DOMAIN w.contents.files THEN {}
    ELSE LET pins == Pins(readNotebook(w.contents.files[w.file]))
             seen == Pins(readNotebook(w.seen)) IN
         {pins[id] : id \in DOMAIN pins \ DOMAIN seen}
PinsVerified ==
    [][notebook'.sent # notebook.sent =>
          \A pin \in NewPins(notebook'.op.request) : pin.ref = evidence]_notesVars

\* An unsaved pin or note goes only when its user discards or changes it, or
\* once a notebook of the library holds it.
Stored(draft) ==
    \E g \in DOMAIN store : \E i \in candidates(store[g]) :
        /\ draft.id \in DOMAIN Pins(readNotebook(store[g].files[i]))
        /\ store[g].files[i].body.pins[draft.id] = [ref |-> draft.ref, note |-> draft.note]
NotesDraftKept ==
    [][page.dirty /\ page'.draft # page.draft =>
          Discard \/ (\E note \in Notes : EditNote(note)) \/ Stored(page.draft)]_notesVars
=============================================================================
