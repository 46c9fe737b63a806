-------------------------- MODULE AnalystWorkspace --------------------------
(***************************************************************************)
(* The Analyst workspace of the research UI: one window that edits a file  *)
(* and a folder of the local library, saves whole-library replacements     *)
(* whose outcome may stay unknown, and reloads while other windows write.  *)
(* A JavaScript task between two awaits is one action; the store, lost and *)
(* replayed requests, the 15 s deadlines and other windows are actions of  *)
(* the environment.  Functions of the page's state object are operators on *)
(* the record u; rendering, which re-reads the forms, ends every task.     *)
(***************************************************************************)
EXTENDS LocalLibrary

CONSTANT MaxSaves         \* bound: the replacements this window sends

ASSUME SavesAssumption == MaxSaves \in Nat

VARIABLES
    state,        \* the page's state: admitted document, flags, selection, forms, pending save
    saving,       \* replaceLocalAnalyst: where it awaits, for which operation, the answer
    refreshing,   \* refreshLocalAnalyst: where it awaits, its guards, the answer
    sent,         \* replacements this window has sent
    wire,         \* replacements in flight; a transport may deliver one twice
    confirmed     \* history: the last save reported as saved

vars == <<store, state, saving, refreshing, sent, wire, confirmed>>

NoFolder == "none"

ASSUME NoFolderAssumption == NoFolder \notin FolderNames

Folder(document, d) == IF d \in DOMAIN document.folders THEN document.folders[d] ELSE NoFolder

EmptyWorkspace == [generation |-> 0, folders |-> [d \in {1} |-> Root], files |-> [i \in {} |-> NoFile]]

NotModified == [kind |-> "304"]

NothingPending == [n |-> 0]
NoOperation == [kind |-> "none"]
IdleSave == [at |-> "idle"]
IdleRefresh == [at |-> "idle"]

Init ==
    /\ InitStore
    /\ state = [localAnalyst |-> EmptyWorkspace, loaded |-> FALSE, needsReload |-> FALSE,
                etag |-> FALSE,
                folder |-> 1, file |-> None,
                fileDraft |-> [dirty |-> FALSE, id |-> None, fields |-> FileInput(NoFile), base |-> NoFile],
                folderDraft |-> [dirty |-> FALSE, id |-> 1, name |-> Root, base |-> Root],
                deleteFile |-> None, deleteFolder |-> None, pending |-> NothingPending]
    /\ saving = IdleSave
    /\ refreshing = IdleRefresh
    /\ sent = 0
    /\ wire = {}
    /\ confirmed = NothingPending

-----------------------------------------------------------------------------
\* Mutant: rendering refills a form with unsaved edits too.
Bug_Render_Refills(u) ==
    LET file == File(u.localAnalyst, u.file) IN
    [u EXCEPT !.fileDraft = IF file = NoFile THEN @ ELSE [@ EXCEPT !.fields = FileInput(file), !.base = file],
              !.folderDraft = [@ EXCEPT !.id = u.folder, !.name = Folder(u.localAnalyst, u.folder)]]

\* A clean form, or the form of another item, takes the selected item and its
\* base from the admitted document; a dirty form keeps its fields.
Render(u) ==
    LET file == File(u.localAnalyst, u.file)
        folder == Folder(u.localAnalyst, u.folder) IN
    [u EXCEPT
        !.fileDraft = IF file = NoFile \/ (@.dirty /\ @.id = u.file) THEN @
                      ELSE [@ EXCEPT !.id = u.file, !.fields = FileInput(file), !.base = file],
        !.folderDraft = IF @.dirty /\ @.id = u.folder THEN @
                        ELSE [@ EXCEPT !.id = u.folder, !.name = folder, !.base = folder]]

\* A document conflicts with a draft made on another version of its item.  A
\* document that confirms a save may instead hold exactly the draft.
HoldsFile(u, body, trusted) ==
    trusted /\ u.fileDraft.dirty /\ u.fileDraft.fields = FileInput(File(body, u.file))
HoldsFolder(u, body, trusted) ==
    trusted /\ u.folderDraft.dirty /\ u.folderDraft.name = Folder(body, u.folder)
Conflicts(u, body, trusted) ==
    \/ /\ u.fileDraft.dirty /\ ~HoldsFile(u, body, trusted)
       /\ File(body, u.file) # u.fileDraft.base
    \/ /\ u.folderDraft.dirty /\ ~HoldsFolder(u, body, trusted)
       /\ Folder(body, u.folder) # u.folderDraft.base
Older(u, body) == body.generation < u.localAnalyst.generation
Admits(u, body, trusted) == ~Older(u, body) /\ ~Conflicts(u, body, trusted)

Admitted(u, body, trusted) ==
    [u EXCEPT !.localAnalyst = body, !.loaded = TRUE, !.needsReload = FALSE, !.etag = TRUE,
              !.fileDraft.dirty = @ /\ ~HoldsFile(u, body, trusted),
              !.folderDraft.dirty = @ /\ ~HoldsFolder(u, body, trusted),
              !.folder = IF @ \in DOMAIN body.folders THEN @ ELSE 1,
              !.file = IF @ \in DOMAIN body.files THEN @ ELSE None]

NotAdmitted(u, body) ==
    [u EXCEPT !.needsReload = @ \/ ~Older(u, body), !.etag = FALSE]

admitAnalystWorkspace(u, body, trusted) ==
    IF Admits(u, body, trusted) THEN Admitted(u, body, trusted) ELSE NotAdmitted(u, body)

\* Mutant: any newer generation is taken for the save.
Bug_Verifies_AnyNewer(p, body) == body.generation > p.expected

\* Mutant: a document that is not older is taken for the save, written or not.
Bug_Verifies_NotOlder(p, body) == body.generation >= p.expected

\* What a document read later says about the pending save.
Verifies(p, body) ==
    /\ Contents(body) = p.contents
    /\ body.generation > p.expected \/ p.contents = p.baseContents
Original(p, body) == body.generation = p.expected /\ Contents(body) = p.baseContents

reconcileAnalystSave(u, body) ==
    LET p == u.pending
        settled == [u EXCEPT !.pending = NothingPending] IN
    IF body.generation < p.expected THEN [u EXCEPT !.etag = FALSE]
    ELSE CASE Verifies(p, body) -> admitAnalystWorkspace(settled, body, TRUE)
      [] Original(p, body) /\ ~Verifies(p, body) -> admitAnalystWorkspace(settled, body, FALSE)
      [] OTHER -> [settled EXCEPT !.needsReload = TRUE, !.etag = FALSE]

ReportsSaved(u, body) == Verifies(u.pending, body) /\ Admits(u, body, TRUE)

-----------------------------------------------------------------------------
\* Saving.  The operation says what its own code does after a confirmed save.
Settled(u, op) ==
    CASE op.kind = "createFolder" -> [u EXCEPT !.folder = op.id, !.file = None]
      [] op.kind = "createFile" -> [u EXCEPT !.file = op.id, !.fileDraft.dirty = FALSE]
      [] op.kind = "saveFolder" -> [u EXCEPT !.folderDraft.dirty = FALSE]
      [] op.kind = "saveFile" -> [u EXCEPT !.folder = op.folder, !.fileDraft.dirty = FALSE]
      [] op.kind = "deleteFile" -> [u EXCEPT !.file = None, !.deleteFile = None, !.fileDraft.dirty = FALSE]
      [] op.kind = "deleteFolder" -> [u EXCEPT !.folder = 1, !.deleteFolder = None, !.folderDraft.dirty = FALSE]

CanReplace == state.loaded /\ ~state.needsReload /\ state.pending = NothingPending

replaceLocalAnalyst(contents, op) ==
    LET p == [n |-> sent + 1, expected |-> state.localAnalyst.generation, contents |-> contents,
              baseContents |-> Contents(state.localAnalyst)] IN
    /\ saving.at = "idle" /\ CanReplace
    /\ sent < MaxSaves /\ sent' = sent + 1
    /\ state' = Render([state EXCEPT !.pending = p])
    /\ saving' = [at |-> "posting", operation |-> op, answer |-> NoAnswer]
    /\ refreshing' = IF refreshing.at = "idle" THEN refreshing ELSE [refreshing EXCEPT !.stale = TRUE]
    /\ wire' = wire \union {[n |-> p.n, expected |-> p.expected, contents |-> contents,
                             operation |-> op]}
    /\ UNCHANGED <<store, confirmed>>

Acknowledged ==
    /\ saving.answer.kind = "document"
    /\ LET p == state.pending IN
       /\ saving.answer.body.generation =
              IF p.contents = p.baseContents THEN p.expected ELSE p.expected + 1
       /\ Contents(saving.answer.body) = p.contents

SaveAcknowledged ==
    LET body == saving.answer.body
        u == [state EXCEPT !.pending = NothingPending]
        v == admitAnalystWorkspace(u, body, TRUE) IN
    /\ saving.at = "posting" /\ Acknowledged
    /\ IF Admits(u, body, TRUE)
       THEN /\ state' = Render(Settled(v, saving.operation))
            /\ confirmed' = state.pending
       ELSE state' = Render(v) /\ UNCHANGED confirmed
    /\ saving' = IdleSave
    /\ UNCHANGED <<store, refreshing, sent, wire>>

\* An error, an unexpected acknowledgement or the deadline: the saved
\* generation is read once, and nothing is written again.
SaveUncertain ==
    /\ saving.at = "posting"
    /\ state' = [state EXCEPT !.etag = FALSE]
    /\ saving' = [saving EXCEPT !.at = "recovering", !.answer = NoAnswer]
    /\ UNCHANGED <<store, refreshing, sent, wire, confirmed>>

SaveRecovered ==
    LET body == saving.answer.body
        v == reconcileAnalystSave(state, body) IN
    /\ saving.at = "recovering" /\ saving.answer.kind = "document"
    /\ IF ReportsSaved(state, body)
       THEN state' = Render(Settled(v, saving.operation)) /\ confirmed' = state.pending
       ELSE state' = Render(v) /\ UNCHANGED confirmed
    /\ saving' = IdleSave
    /\ UNCHANGED <<store, refreshing, sent, wire>>

RecoveryFails ==
    /\ saving.at = "recovering"
    /\ state' = Render(state)
    /\ saving' = IdleSave
    /\ UNCHANGED <<store, refreshing, sent, wire, confirmed>>

-----------------------------------------------------------------------------
\* Refreshing, by a screen, the reload button, a run or a notebook's write.
refreshLocalAnalyst(force) ==
    /\ refreshing.at = "idle" /\ saving.at = "idle"
    /\ refreshing' = [at |-> "loading", stale |-> FALSE, answer |-> NoAnswer,
                      conditional |-> /\ ~force /\ state.pending = NothingPending
                                      /\ ~state.needsReload /\ state.etag]
    /\ UNCHANGED <<store, state, saving, sent, wire, confirmed>>

Leaves(next) == refreshing' = IF refreshing.stale THEN IdleRefresh ELSE next
RunnerAwaited == [refreshing EXCEPT !.at = "runner", !.answer = NoAnswer]

RefreshAnswered ==
    LET body == refreshing.answer.body IN
    /\ refreshing.at = "loading" /\ refreshing.answer # NoAnswer
    /\ IF refreshing.stale \/ refreshing.answer = NotModified
       THEN state' = Render(state) /\ UNCHANGED confirmed
       ELSE IF state.pending # NothingPending
       THEN /\ state' = Render(reconcileAnalystSave(state, body))
            /\ confirmed' = IF ReportsSaved(state, body) THEN state.pending ELSE confirmed
       ELSE state' = Render(admitAnalystWorkspace(state, body, FALSE)) /\ UNCHANGED confirmed
    /\ Leaves(RunnerAwaited)
    /\ UNCHANGED <<store, saving, sent, wire>>

RefreshFails ==
    /\ refreshing.at = "loading"
    /\ state' = IF refreshing.stale THEN Render(state)
                ELSE Render([state EXCEPT !.etag = FALSE])
    /\ Leaves(RunnerAwaited)
    /\ UNCHANGED <<store, saving, sent, wire, confirmed>>

\* The runner's state does not touch the library; its await keeps the refresh open.
RunnerAnswered ==
    /\ refreshing.at = "runner"
    /\ refreshing' = IdleRefresh
    /\ state' = Render(state)
    /\ UNCHANGED <<store, saving, sent, wire, confirmed>>

-----------------------------------------------------------------------------
\* The user.  Fields are disabled while a save is awaited.
Only(u) == state' = u /\ UNCHANGED <<store, saving, refreshing, sent, wire, confirmed>>

EditFile(fields) ==
    /\ saving.at = "idle" /\ state.file # None
    /\ fields # state.fileDraft.fields
    /\ fields.folder \in DOMAIN state.localAnalyst.folders \union {state.fileDraft.fields.folder}
    /\ Only([state EXCEPT !.fileDraft.dirty = TRUE, !.fileDraft.fields = fields, !.deleteFile = None])

EditFolder(name) ==
    /\ saving.at = "idle" /\ state.folder # 1
    /\ name # state.folderDraft.name
    /\ Only([state EXCEPT !.folderDraft.dirty = TRUE, !.folderDraft.name = name, !.deleteFolder = None])

DiscardFile ==
    /\ saving.at = "idle" /\ state.fileDraft.dirty
    /\ Only(Render([state EXCEPT !.fileDraft.dirty = FALSE, !.deleteFile = None, !.deleteFolder = None]))
DiscardFolder ==
    /\ saving.at = "idle" /\ state.folderDraft.dirty
    /\ Only(Render([state EXCEPT !.folderDraft.dirty = FALSE, !.deleteFile = None, !.deleteFolder = None]))

analystMayLeaveDraft ==
    /\ saving.at = "idle" /\ CanReplace
    /\ ~state.fileDraft.dirty /\ ~state.folderDraft.dirty

SelectFolder(d) ==
    /\ analystMayLeaveDraft /\ d \in DOMAIN state.localAnalyst.folders
    /\ ~(d = state.folder /\ state.file = None)
    /\ Only(Render([state EXCEPT !.folder = d, !.file = None, !.deleteFolder = None]))

SelectFile(i) ==
    /\ analystMayLeaveDraft /\ i \in DOMAIN state.localAnalyst.files /\ i # state.file
    /\ Only(Render([state EXCEPT !.file = i, !.folder = state.localAnalyst.files[i].folder,
                                 !.deleteFile = None]))

\* Every operation carries what the user saw of its item, a history for the properties.
Saved == Contents(state.localAnalyst)

CreateFolder ==
    LET d == NextId(DOMAIN state.localAnalyst.folders) IN
    /\ analystMayLeaveDraft /\ d \in FolderIds
    /\ replaceLocalAnalyst([Saved EXCEPT !.folders = With(@, d, NewFolder)],
                           [kind |-> "createFolder", id |-> d, seen |-> NoFolder])

CreateFile(body) ==
    LET i == NextId(DOMAIN state.localAnalyst.files) IN
    /\ analystMayLeaveDraft /\ i \in FileIds
    /\ replaceLocalAnalyst([Saved EXCEPT !.files = With(@, i, [folder |-> state.folder, body |-> body])],
                           [kind |-> "createFile", id |-> i, seen |-> NoFile])

\* A draft is saved over the version it was made on, or not at all.
OwnerMismatch == Only([state EXCEPT !.needsReload = TRUE])

SaveFolder ==
    /\ saving.at = "idle" /\ CanReplace /\ state.folderDraft.dirty /\ state.folder # 1
    /\ IF Folder(state.localAnalyst, state.folder) # state.folderDraft.base THEN OwnerMismatch
       ELSE replaceLocalAnalyst([Saved EXCEPT !.folders[state.folder] = state.folderDraft.name],
                [kind |-> "saveFolder", id |-> state.folder, seen |-> state.folderDraft.base])

SaveFile ==
    LET fields == state.fileDraft.fields IN
    /\ saving.at = "idle" /\ CanReplace /\ state.fileDraft.dirty /\ state.file # None
    /\ IF state.fileDraft.id # state.file \/ File(state.localAnalyst, state.file) # state.fileDraft.base
       THEN OwnerMismatch
       ELSE /\ state.folderDraft.dirty => fields.folder = state.folder
            /\ replaceLocalAnalyst([Saved EXCEPT !.files[state.file] = fields],
                [kind |-> "saveFile", id |-> state.file, seen |-> state.fileDraft.base, folder |-> fields.folder])

DeleteFile ==
    /\ analystMayLeaveDraft /\ state.file # None
    /\ IF state.deleteFile # state.file THEN Only(Render([state EXCEPT !.deleteFile = state.file]))
       ELSE replaceLocalAnalyst([Saved EXCEPT !.files = Without(@, state.file)],
                [kind |-> "deleteFile", id |-> state.file, seen |-> File(state.localAnalyst, state.file)])

DeleteFolder ==
    /\ analystMayLeaveDraft /\ state.folder # 1
    /\ \A i \in DOMAIN state.localAnalyst.files : state.localAnalyst.files[i].folder # state.folder
    /\ IF state.deleteFolder # state.folder
       THEN Only(Render([state EXCEPT !.deleteFolder = state.folder]))
       ELSE replaceLocalAnalyst([Saved EXCEPT !.folders = Without(@, state.folder)],
                [kind |-> "deleteFolder", id |-> state.folder, seen |-> Folder(state.localAnalyst, state.folder)])

-----------------------------------------------------------------------------
\* The store and the transport.  A request may be handled after its caller gave
\* up, or never.  A replayed one finds its generation gone, so its caller may be
\* told of a refusal although the first delivery committed.
StoreHandles(w) ==
    /\ HasRoom(w)
    /\ IF Refused(w) THEN UNCHANGED store ELSE Replace(w)
    /\ wire' = wire \ {w}
    /\ \E replayed \in BOOLEAN : saving' =
          IF saving.at # "posting" \/ state.pending.n # w.n THEN saving
          ELSE [saving EXCEPT !.answer = IF Refused(w) \/ replayed THEN Refusal
                                         ELSE Answer(store'[Len(store')])]
    /\ UNCHANGED <<state, refreshing, sent, confirmed>>

AnswerRecovery ==
    /\ saving.at = "recovering" /\ saving.answer = NoAnswer
    /\ saving' = [saving EXCEPT !.answer = Answer(Current)]
    /\ UNCHANGED <<store, state, refreshing, sent, wire, confirmed>>

AnswerRefresh ==
    /\ refreshing.at = "loading" /\ refreshing.answer = NoAnswer
    /\ \/ refreshing' = [refreshing EXCEPT !.answer = Answer(Current)]
       \/ /\ refreshing.conditional /\ Current.generation = state.localAnalyst.generation
          /\ refreshing' = [refreshing EXCEPT !.answer = NotModified]
    /\ UNCHANGED <<store, state, saving, sent, wire, confirmed>>

OtherWindow(contents) ==
    /\ OtherWindowSaves(contents)
    /\ UNCHANGED <<state, saving, refreshing, sent, wire, confirmed>>

User ==
    \/ \E fields \in UNION {Edits[i] : i \in FileIds} : EditFile(fields)
    \/ \E name \in FolderNames : EditFolder(name)
    \/ \E body \in Bodies : CreateFile(body)
    \/ \E d \in FolderIds : SelectFolder(d)
    \/ \E i \in FileIds : SelectFile(i)
    \/ DiscardFile \/ DiscardFolder
    \/ CreateFolder \/ SaveFolder \/ SaveFile \/ DeleteFile \/ DeleteFolder
    \/ \E force \in BOOLEAN : refreshLocalAnalyst(force)

Page == SaveAcknowledged \/ SaveUncertain \/ SaveRecovered \/ RecoveryFails
        \/ RefreshAnswered \/ RefreshFails \/ RunnerAnswered

Environment ==
    \/ \E w \in wire : StoreHandles(w)
    \/ AnswerRecovery \/ AnswerRefresh
    \/ \E contents \in OtherContents : OtherWindow(contents)

Next == User \/ Page \/ Environment

Spec == Init /\ [][Next]_vars

-----------------------------------------------------------------------------
Requests == [folders : FolderMaps, files : UNION {[D -> Inputs] : D \in SUBSET FileIds}]
Draft(fields, base) == [dirty : BOOLEAN, id : FileIds \union {None}, fields : fields, base : base]

\* The variables have their types, and the documents their generations.
TypeOK ==
    /\ \A g \in DOMAIN store : store[g] \in Documents /\ store[g].generation = g - 1
    /\ state.localAnalyst \in Documents
    /\ state.fileDraft \in Draft(Inputs \union {FileInput(NoFile)}, Files \union {NoFile})
    /\ state.folder \in FolderIds /\ state.file \in FileIds \union {None}
    /\ state.pending = NothingPending \/ state.pending.n = sent
    /\ saving.at \in {"idle", "posting", "recovering"}
    /\ refreshing.at \in {"idle", "loading", "runner"}
    /\ sent \in 0..MaxSaves
    /\ \A w \in wire : w.n \in 1..sent /\ w.contents \in Requests

\* What this window reports as saved was the library's contents at a later
\* generation than the one it replaced, or was already there.
SavedIsStored ==
    confirmed # NothingPending =>
        \E g \in DOMAIN store :
            /\ Contents(store[g]) = confirmed.contents
            /\ g - 1 > confirmed.expected \/ (g - 1 = confirmed.expected /\ confirmed.contents = confirmed.baseContents)

\* What the page holds is well typed, and every save it reported is stored: some version
\* after the one it was made from has its contents.
Consistent == TypeOK /\ SavedIsStored

\* A replacement by this window changes only its operation's item, and only the
\* version of it the user saw.
OnlyItsItem(w, old, new) ==
    LET op == w.operation
        files == Differing(Contents(old).files, Contents(new).files)
        folders == Differing(old.folders, new.folders) IN
    IF op.kind \in {"createFile", "saveFile", "deleteFile"}
    THEN folders = {} /\ files \subseteq {op.id} /\ File(old, op.id) = op.seen
    ELSE files = {} /\ folders \subseteq {op.id} /\ Folder(old, op.id) = op.seen
OverwritesOnlySeen ==
    [][\A w \in wire : StoreHandles(w) /\ store' # store => OnlyItsItem(w, Current, store'[Len(store')])]_vars

\* A dirty draft goes only when the user discards it or the library came to hold it.
StoredFile(i, fields) ==
    \E g \in DOMAIN store : i \in DOMAIN store[g].files /\ FileInput(store[g].files[i]) = fields
StoredFolder(d, name) ==
    \E g \in DOMAIN store : d \in DOMAIN store[g].folders /\ store[g].folders[d] = name
DraftKept ==
    [][/\ state.fileDraft.dirty /\ state'.fileDraft # state.fileDraft =>
              \/ DiscardFile
              \/ StoredFile(state.fileDraft.id, state.fileDraft.fields)
              \/ \E fields \in UNION {Edits[i] : i \in FileIds} : EditFile(fields)
       /\ state.folderDraft.dirty /\ state'.folderDraft # state.folderDraft =>
              \/ DiscardFolder
              \/ StoredFolder(state.folderDraft.id, state.folderDraft.name)
              \/ \E name \in FolderNames : EditFolder(name)]_vars

\* Once a later save of this window was confirmed at a new generation, a request
\* it had given up on can no longer change the library.
NoLateOverwrite ==
    [][\A w \in wire :
          w.n < confirmed.n /\ confirmed.contents # confirmed.baseContents /\ StoreHandles(w)
              => store' = store]_vars
=============================================================================
