------------------------- MODULE LocalLibrary_proofs -------------------------
(***************************************************************************)
(* Theorems about the clients of the local library, for any folders,       *)
(* files, edits and saves.  First the Analyst workspace: what is reported  *)
(* as saved is stored, a replacement writes over nothing its user did not  *)
(* see, a request that was given up on cannot undo a later save, and an    *)
(* unsaved edit goes only by its user or into the library.  Then, on the   *)
(* same lemmas about documents and requests, the investigation notebook    *)
(* and the evidence names.                                                 *)
(***************************************************************************)
EXTENDS AnalystWorkspace, LibraryNotes, SequenceTheorems, WellFoundedInduction, TLAPS

----------------------------------------------------------------------------
(* The inductive invariant *)

FolderLabels == FolderNames \union {Root}
Pendings == [n : Nat, expected : Nat, contents : Requests, baseContents : Requests]
States ==
    [localAnalyst : Documents, loaded : BOOLEAN, needsReload : BOOLEAN, etag : BOOLEAN,
     folder : FolderIds, file : FileIds \union {None},
     fileDraft : Draft(Inputs \union {FileInput(NoFile)}, Files \union {NoFile}),
     folderDraft : [dirty : BOOLEAN, id : FolderIds, name : FolderLabels, base : FolderLabels],
     deleteFile : FileIds \union {None}, deleteFolder : FolderIds \union {None},
     pending : Pendings \union {NothingPending}]

FolderOperations ==
    [kind : {"createFolder", "saveFolder", "deleteFolder"}, id : FolderIds,
     seen : FolderLabels \union {NoFolder}]
FileOperations ==
    [kind : {"createFile", "deleteFile"}, id : FileIds, seen : Files \union {NoFile}]
    \union [kind : {"saveFile"}, id : FileIds, seen : Files \union {NoFile}, folder : FolderIds]
Operations == FolderOperations \union FileOperations
Answers == [kind : {"document"}, body : Documents]
Savings ==
    {IdleSave}
    \union [at : {"posting", "recovering"}, operation : Operations,
            answer : {NoAnswer, Refusal} \union Answers]
Refreshings ==
    {IdleRefresh}
    \union [at : {"loading", "runner"}, stale : BOOLEAN, conditional : BOOLEAN,
            answer : {NoAnswer, NotModified} \union Answers]
Sendings == [n : Nat, expected : Nat, contents : Requests, operation : Operations]

\* The library's documents are numbered and valid, and one that was read is one of them.
StoreInv ==
    /\ store \in Seq(Documents) /\ Len(store) >= 1
    /\ \A g \in 1 .. Len(store) : store[g].generation = g - 1 /\ WellFormed(store[g])
Held(d) == d.generation + 1 \in 1 .. Len(store) /\ d = store[d.generation + 1]
HeldAnswer(answer) == answer.kind = "document" => Held(answer.body)

\* The page: the admitted document, the selection in it, and the drafts.
Sound(u) ==
    /\ u \in States
    /\ WellFormed(u.localAnalyst)
    /\ IF u.loaded THEN Held(u.localAnalyst) ELSE u.localAnalyst.generation = 0
    /\ u.folder \in DOMAIN u.localAnalyst.folders
    /\ u.file \in DOMAIN u.localAnalyst.files \union {None}
    /\ u.fileDraft.dirty => u.fileDraft.fields \in Inputs

\* What an operation does after its save was confirmed fits what it saved.
Fits(op, contents) ==
    /\ op.kind = "createFolder" => op.id \in DOMAIN contents.folders
    /\ op.kind = "createFile" => op.id \in DOMAIN contents.files
    /\ op.kind = "saveFile" => \E i \in DOMAIN contents.files : contents.files[i].folder = op.folder

PendingInv ==
    state.pending # NothingPending =>
        /\ state.pending.n = sent /\ sent >= 1
        /\ state.pending.expected <= state.localAnalyst.generation

\* The save that is awaited is the pending one, and no refresh can settle it meanwhile.
SavingInv ==
    /\ saving \in Savings
    /\ saving.at # "idle" =>
          /\ state.pending # NothingPending /\ Fits(saving.operation, state.pending.contents)
          /\ HeldAnswer(saving.answer)
          /\ refreshing.at = "idle" \/ refreshing.stale

RefreshInv ==
    /\ refreshing \in Refreshings
    /\ refreshing.at # "idle" => HeldAnswer(refreshing.answer)

\* A replacement changes only its operation's item, and only the version of it the user saw.
OnlyItem(op, old, contents) ==
    LET files == Differing(Contents(old).files, contents.files)
        folders == Differing(old.folders, contents.folders) IN
    IF op \in FileOperations
    THEN folders = {} /\ files \subseteq {op.id} /\ File(old, op.id) = op.seen
    ELSE files = {} /\ folders \subseteq {op.id} /\ Folder(old, op.id) = op.seen

\* What is in flight was made on a document of the library, and on none that is later than
\* the one that is pending or admitted now.
WireInv ==
    /\ wire \subseteq Sendings
    /\ \A w \in wire :
          /\ w.n \in 1 .. sent
          /\ w.expected <= state.localAnalyst.generation
          /\ OnlyItem(w.operation, store[w.expected + 1], w.contents)
          /\ state.pending # NothingPending => w.expected <= state.pending.expected
          /\ w.n < confirmed.n => w.expected <= confirmed.expected

ConfirmedInv ==
    confirmed # NothingPending => confirmed \in Pendings /\ confirmed.n \in 1 .. sent /\ SavedIsStored

IInv ==
    /\ StoreInv /\ Sound(state) /\ PendingInv /\ SavingInv /\ RefreshInv /\ WireInv
    /\ sent \in 0 .. MaxSaves
    /\ ConfirmedInv

----------------------------------------------------------------------------
(* Documents and requests *)

LEMMA FolderMap ==
    ASSUME NEW D \in SUBSET FolderIds, 1 \in D, NEW f \in [D -> FolderLabels]
    PROVE  f \in FolderMaps
BY DEF FolderMaps, FolderLabels

LEMMA FolderMapIs ==
    ASSUME NEW f \in FolderMaps
    PROVE  1 \in DOMAIN f /\ DOMAIN f \subseteq FolderIds /\ f \in [DOMAIN f -> FolderLabels]
BY DEF FolderMaps, FolderLabels

LEMMA FileMap ==
    ASSUME NEW D \in SUBSET FileIds, NEW f \in [D -> Files] PROVE f \in FileMaps
BY DEF FileMaps

LEMMA FileMapIs ==
    ASSUME NEW f \in FileMaps PROVE DOMAIN f \subseteq FileIds /\ f \in [DOMAIN f -> Files]
BY DEF FileMaps

InputMaps == UNION {[D -> Inputs] : D \in SUBSET FileIds}

LEMMA InputMap ==
    ASSUME NEW D \in SUBSET FileIds, NEW f \in [D -> Inputs] PROVE f \in InputMaps
BY DEF InputMaps

LEMMA InputMapIs ==
    ASSUME NEW f \in InputMaps PROVE DOMAIN f \subseteq FileIds /\ f \in [DOMAIN f -> Inputs]
BY DEF InputMaps

LEMMA RequestIs == \A c : c \in Requests <=> c \in [folders : FolderMaps, files : InputMaps]
BY DEF Requests, InputMaps

LEMMA ContentsIs ==
    ASSUME NEW d \in Documents
    PROVE  /\ Contents(d) \in Requests
           /\ Contents(d).folders = d.folders /\ DOMAIN Contents(d).files = DOMAIN d.files
           /\ \A i \in DOMAIN d.files : Contents(d).files[i] = FileInput(d.files[i])
<1> DEFINE files == [i \in DOMAIN d.files |-> FileInput(d.files[i])]
<1>1. d.folders \in FolderMaps /\ d.files \in FileMaps  BY DEF Documents
<1>2. DOMAIN d.files \subseteq FileIds /\ \A i \in DOMAIN d.files : d.files[i] \in Files
  BY <1>1, FileMapIs
<1>3. \A i \in DOMAIN d.files : FileInput(d.files[i]) \in Inputs
  BY <1>2 DEF FileInput, Files, Inputs
<1>4. files \in InputMaps  BY <1>2, <1>3, InputMap
<1>5. Contents(d) = [folders |-> d.folders, files |-> files]  BY DEF Contents
<1>6. Contents(d) \in Requests  BY <1>1, <1>4, <1>5, RequestIs
<1> QED  BY <1>5, <1>6

LEMMA FileIs ==
    ASSUME NEW d \in Documents, NEW i PROVE File(d, i) \in Files \union {NoFile}
BY FileMapIs DEF File, Documents

LEMMA FolderIs ==
    ASSUME NEW d \in Documents, NEW i
    PROVE  Folder(d, i) \in FolderLabels \union {NoFolder} /\ (i \in DOMAIN d.folders => Folder(d, i) \in FolderLabels)
BY FolderMapIs DEF Folder, Documents

\* Both see of a document only what its contents hold.
LEMMA SameContents ==
    ASSUME NEW c \in Documents, NEW d \in Documents, Contents(c) = Contents(d)
    PROVE  c.folders = d.folders /\ DOMAIN c.files = DOMAIN d.files
BY ContentsIs

LEMMA EmptyIs == EmptyWorkspace \in Documents /\ WellFormed(EmptyWorkspace) /\ EmptyWorkspace.generation = 0
                 /\ DOMAIN EmptyWorkspace.folders = {1} /\ DOMAIN EmptyWorkspace.files = {}
<1> DEFINE folders == [d \in {1} |-> Root]
           files == [i \in {} |-> NoFile]
<1>1. folders \in FolderMaps
  <2>1. {1} \in SUBSET FolderIds /\ 1 \in {1} /\ folders \in [{1} -> FolderLabels]
    BY LibraryAssumption DEF FolderLabels
  <2> HIDE DEF folders
  <2> QED  BY <2>1, FolderMap
<1>2. files \in FileMaps
  <2>1. {} \in SUBSET FileIds /\ files \in [{} -> Files]  OBVIOUS
  <2> HIDE DEF files
  <2> QED  BY <2>1, FileMap
<1>3. 0 \in 0 .. MaxGeneration  BY LibraryAssumption
<1>4. EmptyWorkspace = [generation |-> 0, folders |-> folders, files |-> files]  BY DEF EmptyWorkspace
<1>5. folders[1] = Root /\ DOMAIN folders = {1} /\ DOMAIN files = {}  OBVIOUS
<1> HIDE DEF folders, files
<1>6. EmptyWorkspace \in Documents  BY <1>1, <1>2, <1>3, <1>4 DEF Documents
<1> QED  BY <1>4, <1>5, <1>6 DEF WellFormed

----------------------------------------------------------------------------
(* The store *)

\* The store only gets longer.
Grows == Len(store') >= Len(store) /\ \A g \in 1 .. Len(store) : store'[g] = store[g]

LEMMA CurrentIs ==
    ASSUME StoreInv
    PROVE  /\ Current \in Documents /\ WellFormed(Current) /\ Held(Current)
           /\ Current.generation = Len(store) - 1 /\ Len(store) \in Nat
<1>1. Len(store) \in 1 .. Len(store) /\ Len(store) \in Nat  BY DEF StoreInv
<1>2. Current \in Documents  BY <1>1 DEF StoreInv, Current
<1>3. Current.generation = Len(store) - 1 /\ WellFormed(Current)  BY <1>1 DEF StoreInv, Current
<1> QED  BY <1>1, <1>2, <1>3 DEF Held, Current

LEMMA HeldIs ==
    ASSUME StoreInv, NEW d, Held(d)
    PROVE  d \in Documents /\ WellFormed(d) /\ d.generation \in Nat /\ d.generation <= Len(store) - 1
<1>1. PICK g \in 1 .. Len(store) : d = store[g]  BY DEF Held
<1>2. d \in Documents /\ WellFormed(d) /\ d.generation = g - 1  BY <1>1 DEF StoreInv
<1> QED  BY <1>1, <1>2 DEF StoreInv

LEMMA StillHeld ==
    ASSUME StoreInv, Grows, Len(store') \in Nat, NEW d, Held(d) PROVE Held(d)'
<1>1. d.generation + 1 \in 1 .. Len(store) /\ d = store[d.generation + 1] /\ Len(store) \in Nat
  BY DEF Held, StoreInv
<1>2. d.generation + 1 \in 1 .. Len(store') /\ store'[d.generation + 1] = store[d.generation + 1]
  BY <1>1 DEF Grows
<1> QED  BY <1>1, <1>2 DEF Held

LEMMA CandidateIs ==
    ASSUME StoreInv, NEW w, w.contents \in Requests, ~ Refused(w), Len(store) <= MaxGeneration
    PROVE  /\ Candidate(w) \in Documents /\ WellFormed(Candidate(w))
           /\ Candidate(w).generation = Len(store) /\ Contents(Candidate(w)) = w.contents
<1> DEFINE c == w.contents
           created(i) == IF i \in DOMAIN Current.files THEN Current.files[i].created ELSE Current.generation + 1
           file(i) == [created |-> created(i), folder |-> c.files[i].folder, body |-> c.files[i].body]
           files == [i \in DOMAIN c.files |-> file(i)]
<1>1. /\ Current \in Documents /\ Current.generation = Len(store) - 1 /\ Len(store) \in Nat
      /\ Len(store) \in 0 .. MaxGeneration
  BY CurrentIs, LibraryAssumption
<1>2. c \in [folders : FolderMaps, files : InputMaps]  BY RequestIs
<1>3. DOMAIN c.files \subseteq FileIds /\ c.files \in [DOMAIN c.files -> Inputs]  BY <1>2, InputMapIs
<1>4. ASSUME NEW i PROVE created(i) \in 0 .. MaxGeneration
  <2>1. Current.files \in FileMaps  BY <1>1 DEF Documents
  <2>2. i \in DOMAIN Current.files => Current.files[i] \in Files  BY <2>1, FileMapIs
  <2>3. Current.generation + 1 = Len(store)  BY <1>1
  <2> QED  BY <1>1, <2>2, <2>3 DEF Files
<1>5. ASSUME NEW i \in DOMAIN c.files
      PROVE  file(i) \in Files /\ FileInput(file(i)) = c.files[i]
  <2>1. c.files[i] \in Inputs  BY <1>3
  <2>2. created(i) \in 0 .. MaxGeneration  BY <1>4
  <2> HIDE DEF created
  <2>3. file(i) \in Files  BY <2>1, <2>2 DEF Files, Inputs
  <2>4. FileInput(file(i)) = c.files[i]  BY <2>1 DEF FileInput, Inputs
  <2> QED  BY <2>3, <2>4
<1>6. Candidate(w) = [generation |-> Len(store), folders |-> c.folders, files |-> files]
  BY <1>1 DEF Candidate
<1> HIDE DEF file
<1>7. files \in FileMaps
  <2>1. files \in [DOMAIN c.files -> Files]  BY <1>5
  <2> HIDE DEF files
  <2> QED  BY <1>3, <2>1, FileMap
<1>8. Candidate(w) \in Documents  BY <1>1, <1>2, <1>6, <1>7 DEF Documents
<1>9. Contents(Candidate(w)) = w.contents
  <2>1. \A i \in DOMAIN c.files : FileInput(files[i]) = c.files[i]  BY <1>5
  <2>2. DOMAIN files = DOMAIN c.files  OBVIOUS
  <2> HIDE DEF files
  <2>3. [i \in DOMAIN files |-> FileInput(files[i])] = c.files  BY <1>3, <2>1, <2>2
  <2>4. Contents(Candidate(w)) = [folders |-> c.folders, files |-> [i \in DOMAIN files |-> FileInput(files[i])]]
    BY <1>6 DEF Contents
  <2> QED  BY <1>2, <2>3, <2>4
<1>10. WellFormed(Candidate(w))
  <2>1. WellFormed(c)  BY DEF Refused
  <2>2. \A i \in DOMAIN c.files : files[i].folder = c.files[i].folder  BY DEF file
  <2>3. DOMAIN files = DOMAIN c.files  OBVIOUS
  <2> HIDE DEF files
  <2> QED  BY <1>6, <2>1, <2>2, <2>3 DEF WellFormed
<1> QED  BY <1>6, <1>8, <1>9, <1>10

LEMMA ReplaceStep ==
    ASSUME StoreInv, NEW w, w.contents \in Requests, Replace(w), HasRoom(w)
    PROVE  /\ StoreInv' /\ Grows /\ Len(store') \in Nat
           /\ w.expected = Current.generation
           /\ Contents(Current') = w.contents
<1>1. /\ ~ Refused(w) /\ w.expected = Current.generation
      /\ store' = IF w.contents = Contents(Current) THEN store ELSE Append(store, Candidate(w))
  BY DEF Replace, Refused
<1>2. Len(store) \in Nat  BY DEF StoreInv
<1>3. CASE w.contents = Contents(Current)
  <2>1. store' = store  BY <1>1, <1>3
  <2> QED  BY <1>1, <1>2, <1>3, <2>1 DEF StoreInv, Grows, Current, WellFormed
<1>4. CASE w.contents # Contents(Current)
  <2> DEFINE c == Candidate(w)
  <2>1. Len(store) <= MaxGeneration  BY <1>1, <1>4 DEF HasRoom
  <2>2. c \in Documents /\ WellFormed(c) /\ c.generation = Len(store) /\ Contents(c) = w.contents
    BY <1>1, <2>1, CandidateIs
  <2>3. store' = Append(store, c)  BY <1>1, <1>4
  <2> HIDE DEF c
  <2>4. /\ store' \in Seq(Documents) /\ Len(store') = Len(store) + 1 /\ store'[Len(store) + 1] = c
        /\ \A g \in 1 .. Len(store) : store'[g] = store[g]
    BY <2>2, <2>3 DEF StoreInv
  <2>5. Grows /\ Len(store') \in Nat /\ Current' = c  BY <1>2, <2>4 DEF Grows, Current
  <2>6. ASSUME NEW g \in 1 .. Len(store')
        PROVE  store'[g].generation = g - 1 /\ WellFormed(store'[g])
    <3>1. g \in 1 .. Len(store) \/ g = Len(store) + 1  BY <1>2, <2>4
    <3>2. CASE g \in 1 .. Len(store)  BY <2>4, <3>2 DEF StoreInv
    <3>3. CASE g = Len(store) + 1  BY <1>2, <2>2, <2>4, <3>3
    <3> QED  BY <3>1, <3>2, <3>3
  <2>7. StoreInv'  BY <1>2, <2>4, <2>6 DEF StoreInv, WellFormed
  <2> QED  BY <1>1, <2>2, <2>5, <2>7
<1> QED  BY <1>3, <1>4

----------------------------------------------------------------------------
(* Replacements of one item *)

FilesOnly(c, r, i) == r \in Requests /\ r.folders = c.folders /\ Differing(c.files, r.files) \subseteq {i}
FoldersOnly(c, r, d) == r \in Requests /\ r.files = c.files /\ Differing(c.folders, r.folders) \subseteq {d}

LEMMA SameDiffering == \A f : Differing(f, f) = {}
BY DEF Differing

LEMMA FilesChange ==
    ASSUME NEW c \in Requests, NEW i, NEW files \in InputMaps,
           \A j : j # i => (j \in DOMAIN files <=> j \in DOMAIN c.files),
           \A j \in DOMAIN files : j # i => files[j] = c.files[j],
           NEW r, r = [c EXCEPT !.files = files]
    PROVE  FilesOnly(c, r, i)
<1>1. c \in [folders : FolderMaps, files : InputMaps]  BY RequestIs
<1>2. r \in [folders : FolderMaps, files : InputMaps] /\ r.folders = c.folders /\ r.files = files
  BY <1>1
<1>3. r \in Requests  BY <1>2, RequestIs
<1>4. Differing(c.files, files) \subseteq {i}  BY DEF Differing
<1> QED  BY <1>2, <1>3, <1>4 DEF FilesOnly

LEMMA FoldersChange ==
    ASSUME NEW c \in Requests, NEW d, NEW folders \in FolderMaps,
           \A j : j # d => (j \in DOMAIN folders <=> j \in DOMAIN c.folders),
           \A j \in DOMAIN folders : j # d => folders[j] = c.folders[j],
           NEW r, r = [c EXCEPT !.folders = folders]
    PROVE  FoldersOnly(c, r, d)
<1>1. c \in [folders : FolderMaps, files : InputMaps]  BY RequestIs
<1>2. r \in [folders : FolderMaps, files : InputMaps] /\ r.files = c.files /\ r.folders = folders
  BY <1>1
<1>3. r \in Requests  BY <1>2, RequestIs
<1>4. Differing(c.folders, folders) \subseteq {d}  BY DEF Differing
<1> QED  BY <1>2, <1>3, <1>4 DEF FoldersOnly

LEMMA FileWritten ==
    ASSUME NEW c \in Requests, NEW i \in FileIds, NEW f \in Inputs
    PROVE  /\ FilesOnly(c, [c EXCEPT !.files = With(@, i, f)], i)
           /\ FilesOnly(c, [c EXCEPT !.files[i] = f], i)
<1>1. c \in [folders : FolderMaps, files : InputMaps]  BY RequestIs
<1>2. DOMAIN c.files \subseteq FileIds /\ c.files \in [DOMAIN c.files -> Inputs]  BY <1>1, InputMapIs
<1>3. ASSUME NEW files, NEW D \in SUBSET FileIds, files \in [D -> Inputs],
             \A j : j # i => (j \in D <=> j \in DOMAIN c.files),
             \A j \in D : j # i => files[j] = c.files[j],
             NEW r, r = [c EXCEPT !.files = files]
      PROVE  FilesOnly(c, r, i)
  <2>1. files \in InputMaps /\ DOMAIN files = D  BY <1>3, InputMap
  <2> QED  BY <1>3, <2>1, FilesChange
<1>4. FilesOnly(c, [c EXCEPT !.files = With(@, i, f)], i)
  <2> DEFINE files == With(c.files, i, f)
             D == DOMAIN c.files \union {i}
  <2>1. D \in SUBSET FileIds /\ files \in [D -> Inputs] /\ \A j \in D : j # i => files[j] = c.files[j]
    BY <1>2 DEF With
  <2>2. \A j : j # i => (j \in D <=> j \in DOMAIN c.files)  OBVIOUS
  <2> HIDE DEF files, D
  <2>3. FilesOnly(c, [c EXCEPT !.files = files], i)  BY <1>3, <2>1, <2>2
  <2> QED  BY <1>1, <2>3 DEF files
<1>5. FilesOnly(c, [c EXCEPT !.files[i] = f], i)
  <2> DEFINE files == [c.files EXCEPT ![i] = f]
             D == DOMAIN c.files
  <2>1. D \in SUBSET FileIds /\ files \in [D -> Inputs] /\ \A j \in D : j # i => files[j] = c.files[j]
    BY <1>2
  <2>2. \A j : j # i => (j \in D <=> j \in DOMAIN c.files)  OBVIOUS
  <2>3. [c EXCEPT !.files[i] = f] = [c EXCEPT !.files = files]  OBVIOUS
  <2> HIDE DEF files, D
  <2>4. FilesOnly(c, [c EXCEPT !.files = files], i)  BY <1>3, <2>1, <2>2
  <2> QED  BY <2>3, <2>4
<1> QED  BY <1>4, <1>5

LEMMA FileRemoved ==
    ASSUME NEW c \in Requests, NEW i
    PROVE  FilesOnly(c, [c EXCEPT !.files = Without(@, i)], i)
<1> DEFINE files == Without(c.files, i)
           D == DOMAIN c.files \ {i}
<1>1. c \in [folders : FolderMaps, files : InputMaps]  BY RequestIs
<1>2. DOMAIN c.files \subseteq FileIds /\ c.files \in [DOMAIN c.files -> Inputs]  BY <1>1, InputMapIs
<1>3. D \in SUBSET FileIds /\ files \in [D -> Inputs] /\ \A j \in D : j # i => files[j] = c.files[j]
  BY <1>2 DEF Without
<1>4. \A j : j # i => (j \in D <=> j \in DOMAIN c.files)  OBVIOUS
<1> HIDE DEF files, D
<1>5. files \in InputMaps /\ DOMAIN files = D  BY <1>3, InputMap
<1>6. FilesOnly(c, [c EXCEPT !.files = files], i)  BY <1>3, <1>4, <1>5, FilesChange
<1> QED  BY <1>1, <1>6 DEF files

LEMMA FolderWritten ==
    ASSUME NEW c \in Requests, NEW d \in FolderIds \ {1}, NEW name \in FolderLabels
    PROVE  /\ FoldersOnly(c, [c EXCEPT !.folders = With(@, d, name)], d)
           /\ FoldersOnly(c, [c EXCEPT !.folders = Without(@, d)], d)
           /\ FoldersOnly(c, [c EXCEPT !.folders[d] = name], d)
<1>1. c \in [folders : FolderMaps, files : InputMaps]  BY RequestIs
<1>2. /\ 1 \in DOMAIN c.folders /\ DOMAIN c.folders \subseteq FolderIds
      /\ c.folders \in [DOMAIN c.folders -> FolderLabels]
  BY <1>1, FolderMapIs
<1>3. ASSUME NEW folders, NEW D \in SUBSET FolderIds, 1 \in D, folders \in [D -> FolderLabels],
             \A j : j # d => (j \in D <=> j \in DOMAIN c.folders),
             \A j \in D : j # d => folders[j] = c.folders[j],
             NEW r, r = [c EXCEPT !.folders = folders]
      PROVE  FoldersOnly(c, r, d)
  <2>1. folders \in FolderMaps /\ DOMAIN folders = D  BY <1>3, FolderMap
  <2> QED  BY <1>3, <2>1, FoldersChange
<1>4. FoldersOnly(c, [c EXCEPT !.folders = With(@, d, name)], d)
  <2> DEFINE folders == With(c.folders, d, name)
             D == DOMAIN c.folders \union {d}
  <2>1. /\ D \in SUBSET FolderIds /\ 1 \in D /\ folders \in [D -> FolderLabels]
        /\ \A j \in D : j # d => folders[j] = c.folders[j]
    BY <1>2 DEF With
  <2>2. \A j : j # d => (j \in D <=> j \in DOMAIN c.folders)  OBVIOUS
  <2> HIDE DEF folders, D
  <2>3. FoldersOnly(c, [c EXCEPT !.folders = folders], d)  BY <1>3, <2>1, <2>2
  <2> QED  BY <1>1, <2>3 DEF folders
<1>5. FoldersOnly(c, [c EXCEPT !.folders = Without(@, d)], d)
  <2> DEFINE folders == Without(c.folders, d)
             D == DOMAIN c.folders \ {d}
  <2>1. /\ D \in SUBSET FolderIds /\ 1 \in D /\ folders \in [D -> FolderLabels]
        /\ \A j \in D : j # d => folders[j] = c.folders[j]
    BY <1>2 DEF Without
  <2>2. \A j : j # d => (j \in D <=> j \in DOMAIN c.folders)  OBVIOUS
  <2> HIDE DEF folders, D
  <2>3. FoldersOnly(c, [c EXCEPT !.folders = folders], d)  BY <1>3, <2>1, <2>2
  <2> QED  BY <1>1, <2>3 DEF folders
<1>6. FoldersOnly(c, [c EXCEPT !.folders[d] = name], d)
  <2> DEFINE folders == [c.folders EXCEPT ![d] = name]
             D == DOMAIN c.folders
  <2>1. /\ D \in SUBSET FolderIds /\ 1 \in D /\ folders \in [D -> FolderLabels]
        /\ \A j \in D : j # d => folders[j] = c.folders[j]
    BY <1>2
  <2>2. \A j : j # d => (j \in D <=> j \in DOMAIN c.folders)  OBVIOUS
  <2>3. [c EXCEPT !.folders[d] = name] = [c EXCEPT !.folders = folders]  OBVIOUS
  <2> HIDE DEF folders, D
  <2>4. FoldersOnly(c, [c EXCEPT !.folders = folders], d)  BY <1>3, <2>1, <2>2
  <2> QED  BY <2>3, <2>4
<1> QED  BY <1>4, <1>5, <1>6

\* What another window replaces the library with is a valid request.
LEMMA OtherRequest == ASSUME StoreInv, NEW c \in OtherContents PROVE c \in Requests
<1> DEFINE now == Contents(Current)
<1>1. now \in Requests /\ now \in [folders : FolderMaps, files : InputMaps]
  BY CurrentIs, ContentsIs, RequestIs
<1>2. \A i \in FileIds : Edits[i] \subseteq Inputs  BY LibraryAssumption DEF Inputs
<1>3. FolderNames \subseteq FolderLabels  BY DEF FolderLabels
<1>4. DOMAIN now.folders \subseteq FolderIds  BY <1>1, FolderMapIs
<1>5. FolderIds # {1} => NewFolder \in FolderLabels  BY LibraryAssumption DEF FolderLabels
<1>6. Root \in FolderLabels  BY DEF FolderLabels
<1>7. \/ \E i \in FileIds : \E f \in Edits[i] : c = [now EXCEPT !.files = With(@, i, f)]
      \/ \E i \in FileIds : c = [now EXCEPT !.files = Without(@, i)]
      \/ \E d \in DOMAIN now.folders \ {1}, n \in FolderNames : c = [now EXCEPT !.folders = With(@, d, n)]
      \/ \E d \in FolderIds \ {1} : c = [now EXCEPT !.folders = With(@, d, NewFolder)]
      \/ \E d \in FolderIds \ {1} : c = [now EXCEPT !.folders = Without(@, d)]
  <2>1. c \in OneChange(now)  BY DEF OtherContents
  <2> HIDE DEF now
  <2> DEFINE A == UNION {{[now EXCEPT !.files = With(now.files, i, f)] : f \in Edits[i]} : i \in FileIds}
             B == {[now EXCEPT !.files = Without(now.files, i)] : i \in FileIds}
             C == {[now EXCEPT !.folders = With(now.folders, d, n)] :
                      d \in DOMAIN now.folders \ {1}, n \in FolderNames}
             D == {[now EXCEPT !.folders = With(now.folders, d, NewFolder)] : d \in FolderIds \ {1}}
             E == {[now EXCEPT !.folders = Without(now.folders, d)] : d \in FolderIds \ {1}}
  <2>2. c \in A \union B \union C \union D \union E  BY <2>1 DEF OneChange
  <2>3. c \in A => \E i \in FileIds : \E f \in Edits[i] : c = [now EXCEPT !.files = With(@, i, f)]  OBVIOUS
  <2>4. c \in B => \E i \in FileIds : c = [now EXCEPT !.files = Without(@, i)]  OBVIOUS
  <2>5. c \in C => \E d \in DOMAIN now.folders \ {1}, n \in FolderNames :
                     c = [now EXCEPT !.folders = With(@, d, n)]
    OBVIOUS
  <2>6. c \in D => \E d \in FolderIds \ {1} : c = [now EXCEPT !.folders = With(@, d, NewFolder)]  OBVIOUS
  <2>7. c \in E => \E d \in FolderIds \ {1} : c = [now EXCEPT !.folders = Without(@, d)]  OBVIOUS
  <2> HIDE DEF A, B, C, D, E
  <2> QED  BY <2>2, <2>3, <2>4, <2>5, <2>6, <2>7
<1> HIDE DEF now
<1>8. ASSUME NEW i \in FileIds, NEW f \in Edits[i], c = [now EXCEPT !.files = With(@, i, f)] PROVE c \in Requests
  <2>1. f \in Inputs  BY <1>2
  <2>2. FilesOnly(now, c, i)  BY <1>1, <1>8, <2>1, FileWritten
  <2> QED  BY <2>2 DEF FilesOnly
<1>9. ASSUME NEW i \in FileIds, c = [now EXCEPT !.files = Without(@, i)] PROVE c \in Requests
  <2>1. FilesOnly(now, c, i)  BY <1>1, <1>9, FileRemoved
  <2> QED  BY <2>1 DEF FilesOnly
<1>10. ASSUME NEW d \in FolderIds \ {1}, NEW n \in FolderLabels,
              \/ c = [now EXCEPT !.folders = With(@, d, n)]
              \/ c = [now EXCEPT !.folders = Without(@, d)]
       PROVE  c \in Requests
  <2>1. FoldersOnly(now, c, d)  BY <1>1, <1>10, FolderWritten
  <2> QED  BY <2>1 DEF FoldersOnly
<1> QED  BY <1>3, <1>4, <1>5, <1>6, <1>7, <1>8, <1>9, <1>10

----------------------------------------------------------------------------
(* Identifiers *)

\* The identifier after the last one is new.
LEMMA NextIdIsNew == ASSUME NEW S \in SUBSET (1 .. MaxId) PROVE NextId(S) \notin S
<1>1. CASE S = {}  BY <1>1
<1>2. CASE S # {}
  <2> DEFINE Above == {n \in Nat : \A y \in S : y <= n}
             R == OpToRel(<, Nat)
  <2>1. Above # {} /\ Above \subseteq Nat  BY LibraryAssumption
  <2>2. PICK m \in Above : \A y \in Above : ~ (<<y, m>> \in R)
    <3> HIDE DEF Above
    <3> QED  BY <2>1, NatLessThanWellFounded, WFMin
  <2>3. \A y \in Above : ~ (y < m)  BY <2>2 DEF OpToRel
  <2>4. m \in S
    <3> SUFFICES ASSUME m \notin S PROVE FALSE  OBVIOUS
    <3>1. \A y \in S : y \in Nat /\ y >= 1 /\ y <= m /\ y # m  BY DEF Above
    <3>2. \E z \in S : z \in Nat /\ z >= 1 /\ z <= m  BY <1>2, <3>1
    <3> HIDE DEF Above
    <3>3. m \in Nat  BY <2>1, <2>2
    <3>4. m - 1 \in Nat /\ m - 1 < m  BY <3>2, <3>3
    <3>5. \A y \in S : y <= m - 1  BY <3>1, <3>3
    <3>6. m - 1 \in Above  BY <3>4, <3>5 DEF Above
    <3> QED  BY <2>3, <3>4, <3>6
  <2>5. \E x \in S : \A y \in S : x >= y  BY <2>4
  <2>6. Max(S) = CHOOSE x \in S : \A y \in S : x >= y  BY DEF Max
  <2>7. Max(S) \in S /\ \A y \in S : Max(S) >= y  BY <2>5, <2>6
  <2>8. NextId(S) = Max(S) + 1  BY <1>2 DEF NextId
  <2>9. Max(S) + 1 \notin S
    <3> DEFINE k == Max(S)
    <3>1. k \in S /\ \A y \in S : k >= y  BY <2>7
    <3> HIDE DEF k
    <3>2. k + 1 \notin S  BY <3>1
    <3> QED  BY <3>2 DEF k
  <2> QED  BY <2>8, <2>9
<1> QED  BY <1>1, <1>2

----------------------------------------------------------------------------
(* The page *)

FileDrafts == Draft(Inputs \union {FileInput(NoFile)}, Files \union {NoFile})
FolderDrafts == [dirty : BOOLEAN, id : FolderIds, name : FolderLabels, base : FolderLabels]

\* The page goes on: what it admitted is not older, and no save becomes pending.
Follows(u, v) ==
    /\ Sound(v)
    /\ v.localAnalyst.generation >= u.localAnalyst.generation
    /\ v.pending = u.pending \/ v.pending = NothingPending

LEMMA StateIs ==
    ASSUME NEW u, Sound(u)
    PROVE  /\ u.localAnalyst \in Documents /\ u.localAnalyst.generation \in Nat
           /\ u.loaded \in BOOLEAN /\ u.needsReload \in BOOLEAN /\ u.etag \in BOOLEAN
           /\ u.folder \in FolderIds /\ u.file \in FileIds \union {None}
           /\ u.fileDraft \in FileDrafts /\ u.folderDraft \in FolderDrafts
           /\ u.deleteFile \in FileIds \union {None} /\ u.deleteFolder \in FolderIds \union {None}
           /\ u.pending \in Pendings \union {NothingPending}
<1>1. u \in States  BY DEF Sound
<1>2. u.localAnalyst \in Documents  BY <1>1 DEF States
<1>3. u.localAnalyst.generation \in Nat  BY <1>2, LibraryAssumption DEF Documents
<1> QED  BY <1>1, <1>2, <1>3 DEF States, FileDrafts, FolderDrafts

LEMMA SameDocument ==
    ASSUME NEW u, Sound(u), NEW v \in States,
           v.localAnalyst = u.localAnalyst, v.loaded = u.loaded,
           v.folder \in DOMAIN u.localAnalyst.folders,
           v.file \in DOMAIN u.localAnalyst.files \union {None},
           v.fileDraft.dirty => v.fileDraft.fields \in Inputs
    PROVE  Sound(v)
BY DEF Sound

LEMMA DraftsChange ==
    ASSUME NEW u, Sound(u), NEW f \in FileDrafts, NEW g \in FolderDrafts, f.dirty => f.fields \in Inputs
    PROVE  Follows(u, [u EXCEPT !.fileDraft = f, !.folderDraft = g])
<1> DEFINE v == [u EXCEPT !.fileDraft = f, !.folderDraft = g]
<1>1. u \in States  BY DEF Sound
<1>2. v \in States  BY <1>1 DEF States, FileDrafts, FolderDrafts
<1>3. /\ v.localAnalyst = u.localAnalyst /\ v.loaded = u.loaded /\ v.folder = u.folder
      /\ v.file = u.file /\ v.pending = u.pending /\ v.fileDraft = f
  BY <1>1 DEF States
<1> HIDE DEF v
<1>4. Sound(v)  BY <1>2, <1>3, SameDocument DEF Sound
<1>5. v.localAnalyst.generation >= u.localAnalyst.generation  BY <1>3, StateIs
<1> QED  BY <1>3, <1>4, <1>5 DEF Follows, v

LEMMA RenderFollows == ASSUME NEW u, Sound(u) PROVE Follows(u, Render(u))
<1> DEFINE file == File(u.localAnalyst, u.file)
           folder == Folder(u.localAnalyst, u.folder)
           f == IF file = NoFile \/ (u.fileDraft.dirty /\ u.fileDraft.id = u.file) THEN u.fileDraft
                ELSE [u.fileDraft EXCEPT !.id = u.file, !.fields = FileInput(file), !.base = file]
           g == IF u.folderDraft.dirty /\ u.folderDraft.id = u.folder THEN u.folderDraft
                ELSE [u.folderDraft EXCEPT !.id = u.folder, !.name = folder, !.base = folder]
<1>1. Render(u) = [u EXCEPT !.fileDraft = f, !.folderDraft = g]  BY DEF Render
<1>2. /\ u.fileDraft \in FileDrafts /\ u.folderDraft \in FolderDrafts
      /\ u.folder \in FolderIds /\ u.file \in FileIds \union {None}
      /\ u.localAnalyst \in Documents
  BY StateIs
<1>3. u.fileDraft.dirty => u.fileDraft.fields \in Inputs  BY DEF Sound
<1>4. file \in Files \union {NoFile}  BY <1>2, FileIs
<1>5. folder \in FolderLabels  BY <1>2, FolderIs DEF Sound
<1> HIDE DEF file, folder
<1>6. file # NoFile => FileInput(file) \in Inputs  BY <1>4 DEF Files, FileInput, Inputs
<1>7. f \in FileDrafts /\ (f.dirty => f.fields \in Inputs)
  BY <1>2, <1>3, <1>4, <1>6 DEF FileDrafts, Draft
<1>8. g \in FolderDrafts  BY <1>2, <1>5 DEF FolderDrafts
<1> HIDE DEF f, g
<1>9. Follows(u, [u EXCEPT !.fileDraft = f, !.folderDraft = g])  BY <1>7, <1>8, DraftsChange
<1> QED  BY <1>1, <1>9

LEMMA FollowsTwice ==
    ASSUME NEW u, Sound(u), NEW v, Follows(u, v), NEW w, Follows(v, w) PROVE Follows(u, w)
<1>1. u.localAnalyst.generation \in Nat  BY StateIs
<1>2. v.localAnalyst.generation \in Nat  BY StateIs DEF Follows
<1>3. w.localAnalyst.generation \in Nat  BY StateIs DEF Follows
<1> QED  BY <1>1, <1>2, <1>3 DEF Follows

LEMMA FollowsItself == ASSUME NEW u, Sound(u) PROVE Follows(u, u)
BY StateIs DEF Follows

LEMMA RenderKeeps ==
    ASSUME NEW u, Sound(u)
    PROVE  Render(u).pending = u.pending /\ Render(u).localAnalyst = u.localAnalyst
BY DEF Render, Sound, States

\* A rendered page follows what is rendered.
LEMMA Rendered == ASSUME NEW u, Sound(u), NEW v, Follows(u, v) PROVE Follows(u, Render(v))
BY RenderFollows, FollowsTwice DEF Follows

LEMMA AdmittedFollows ==
    ASSUME StoreInv, NEW u, Sound(u), NEW body, Held(body), NEW trusted \in BOOLEAN, ~ Older(u, body)
    PROVE  /\ Follows(u, Admitted(u, body, trusted))
           /\ Admitted(u, body, trusted).localAnalyst = body
           /\ Admitted(u, body, trusted).loaded
           /\ Admitted(u, body, trusted).pending = u.pending
<1> DEFINE fd == u.fileDraft.dirty /\ ~ HoldsFile(u, body, trusted)
           gd == u.folderDraft.dirty /\ ~ HoldsFolder(u, body, trusted)
           f == [u.fileDraft EXCEPT !.dirty = fd]
           g == [u.folderDraft EXCEPT !.dirty = gd]
           folder == IF u.folder \in DOMAIN body.folders THEN u.folder ELSE 1
           file == IF u.file \in DOMAIN body.files THEN u.file ELSE None
           v == [u EXCEPT !.localAnalyst = body, !.loaded = TRUE, !.needsReload = FALSE, !.etag = TRUE,
                          !.fileDraft = f, !.folderDraft = g, !.folder = folder, !.file = file]
<1>1. Admitted(u, body, trusted) = v  BY DEF Admitted
<1>2. u \in States /\ u.fileDraft \in FileDrafts /\ u.folderDraft \in FolderDrafts
      /\ u.file \in FileIds \union {None} /\ u.localAnalyst.generation \in Nat
  BY StateIs DEF Sound
<1>3. body \in Documents /\ WellFormed(body) /\ body.generation \in Nat  BY HeldIs
<1>4. fd \in BOOLEAN /\ gd \in BOOLEAN  OBVIOUS
<1>5. fd => u.fileDraft.fields \in Inputs
  <2>1. fd => u.fileDraft.dirty  OBVIOUS
  <2> HIDE DEF fd
  <2> QED  BY <2>1 DEF Sound
<1> HIDE DEF fd, gd
<1>6. f \in FileDrafts /\ (f.dirty => f.fields \in Inputs)  BY <1>2, <1>4, <1>5 DEF FileDrafts, Draft
<1>7. g \in FolderDrafts  BY <1>2, <1>4 DEF FolderDrafts
<1>8. folder \in FolderIds /\ folder \in DOMAIN body.folders /\ file \in DOMAIN body.files \union {None}
      /\ file \in FileIds \union {None}
  <2>1. 1 \in DOMAIN body.folders /\ DOMAIN body.folders \subseteq FolderIds  BY <1>3, FolderMapIs DEF Documents
  <2> QED  BY <1>2, <2>1
<1> HIDE DEF f, g, folder, file
<1>9. v \in States  BY <1>2, <1>3, <1>6, <1>7, <1>8 DEF States, FileDrafts, FolderDrafts
<1>10. /\ v.localAnalyst = body /\ v.loaded = TRUE /\ v.folder = folder /\ v.file = file
       /\ v.fileDraft = f /\ v.pending = u.pending
  BY <1>2 DEF States
<1> HIDE DEF v
<1>11. Sound(v)  BY <1>3, <1>6, <1>8, <1>9, <1>10 DEF Sound
<1>12. v.localAnalyst.generation >= u.localAnalyst.generation  BY <1>2, <1>3, <1>10 DEF Older
<1> QED  BY <1>1, <1>10, <1>11, <1>12 DEF Follows

\* A page that only changes its flags goes on.
LEMMA FlagsChange ==
    ASSUME NEW u, Sound(u), NEW v \in States,
           v.localAnalyst = u.localAnalyst, v.loaded = u.loaded, v.folder = u.folder, v.file = u.file,
           v.fileDraft = u.fileDraft, v.pending = u.pending \/ v.pending = NothingPending
    PROVE  Follows(u, v)
<1>1. Sound(v)  BY SameDocument DEF Sound
<1>2. v.localAnalyst.generation >= u.localAnalyst.generation  BY StateIs
<1> QED  BY <1>1, <1>2 DEF Follows

LEMMA AdmitFollows ==
    ASSUME StoreInv, NEW u, Sound(u), NEW body, Held(body), NEW trusted \in BOOLEAN
    PROVE  /\ Follows(u, admitAnalystWorkspace(u, body, trusted))
           /\ admitAnalystWorkspace(u, body, trusted).pending = u.pending
           /\ Admits(u, body, trusted) =>
                 /\ admitAnalystWorkspace(u, body, trusted).localAnalyst = body
                 /\ admitAnalystWorkspace(u, body, trusted).loaded
<1>1. CASE Admits(u, body, trusted)
  <2>1. ~ Older(u, body) /\ admitAnalystWorkspace(u, body, trusted) = Admitted(u, body, trusted)
    BY <1>1 DEF Admits, admitAnalystWorkspace
  <2> QED  BY <2>1, AdmittedFollows
<1>2. CASE ~ Admits(u, body, trusted)
  <2> DEFINE reload == u.needsReload \/ ~ Older(u, body)
  <2>1. reload \in BOOLEAN  OBVIOUS
  <2>2. u \in States  BY DEF Sound
  <2>3. admitAnalystWorkspace(u, body, trusted) = [u EXCEPT !.needsReload = reload, !.etag = FALSE]
    BY <1>2 DEF admitAnalystWorkspace, NotAdmitted
  <2> HIDE DEF reload
  <2> DEFINE v == [u EXCEPT !.needsReload = reload, !.etag = FALSE]
  <2>4. /\ v \in States /\ v.localAnalyst = u.localAnalyst /\ v.loaded = u.loaded /\ v.folder = u.folder
        /\ v.file = u.file /\ v.fileDraft = u.fileDraft /\ v.pending = u.pending
    BY <2>1, <2>2 DEF States
  <2> HIDE DEF v
  <2>5. Follows(u, v) /\ v.pending = u.pending  BY <2>4, FlagsChange
  <2> QED  BY <1>2, <2>3, <2>5 DEF v
<1> QED  BY <1>1, <1>2

\* What is admitted does not depend on whether a save is pending.
LEMMA PendingDropped ==
    ASSUME NEW u, Sound(u), NEW v, v = [u EXCEPT !.pending = NothingPending]
    PROVE  /\ Follows(u, v) /\ Sound(v) /\ v.pending = NothingPending
           /\ \A body : Admits(v, body, TRUE) <=> Admits(u, body, TRUE)
<1>1. u \in States  BY DEF Sound
<1>2. /\ v \in States /\ v.localAnalyst = u.localAnalyst /\ v.loaded = u.loaded
      /\ v.folder = u.folder /\ v.file = u.file /\ v.fileDraft = u.fileDraft
      /\ v.folderDraft = u.folderDraft /\ v.pending = NothingPending
  BY <1>1 DEF States
<1>3. Follows(u, v)  BY <1>2, FlagsChange
<1>4. \A body : Admits(v, body, TRUE) <=> Admits(u, body, TRUE)
  BY <1>2 DEF Admits, Older, Conflicts, HoldsFile, HoldsFolder
<1> QED  BY <1>2, <1>3, <1>4 DEF Follows

LEMMA ReconcileFollows ==
    ASSUME StoreInv, NEW u, Sound(u), NEW body, Held(body)
    PROVE  /\ Follows(u, reconcileAnalystSave(u, body))
           /\ ReportsSaved(u, body) /\ ~ body.generation < u.pending.expected =>
                 /\ reconcileAnalystSave(u, body).localAnalyst = body
                 /\ reconcileAnalystSave(u, body).loaded
                 /\ reconcileAnalystSave(u, body).pending = NothingPending
<1> DEFINE p == u.pending
           settled == [u EXCEPT !.pending = NothingPending]
           v == reconcileAnalystSave(u, body)
<1>1. u \in States  BY DEF Sound
<1>2. /\ Follows(u, settled) /\ Sound(settled) /\ settled.pending = NothingPending
      /\ Admits(settled, body, TRUE) <=> Admits(u, body, TRUE)
  BY PendingDropped
<1>3. CASE body.generation < p.expected
  <2>1. reconcileAnalystSave(u, body) = [u EXCEPT !.etag = FALSE]  BY <1>3 DEF reconcileAnalystSave
  <2>2. /\ v \in States /\ v.localAnalyst = u.localAnalyst /\ v.loaded = u.loaded /\ v.folder = u.folder
        /\ v.file = u.file /\ v.fileDraft = u.fileDraft /\ v.pending = u.pending
    BY <1>1, <2>1 DEF States
  <2> HIDE DEF v
  <2>3. Follows(u, v)  BY <2>2, FlagsChange
  <2> QED  BY <1>3, <2>3 DEF v
<1>4. CASE ~ body.generation < p.expected /\ Verifies(p, body)
  <2>1. v = admitAnalystWorkspace(settled, body, TRUE)  BY <1>4 DEF reconcileAnalystSave
  <2> HIDE DEF v, settled
  <2>2. /\ Follows(settled, v) /\ v.pending = NothingPending
        /\ Admits(settled, body, TRUE) => v.localAnalyst = body /\ v.loaded
    BY <1>2, <2>1, AdmitFollows
  <2>3. Follows(u, v)  BY <1>2, <2>2, FollowsTwice
  <2>4. ReportsSaved(u, body) => Admits(u, body, TRUE)  BY DEF ReportsSaved
  <2> QED  BY <1>2, <2>2, <2>3, <2>4 DEF v
<1>5. CASE ~ body.generation < p.expected /\ ~ Verifies(p, body) /\ Original(p, body)
  <2>1. v = admitAnalystWorkspace(settled, body, FALSE)  BY <1>5 DEF reconcileAnalystSave
  <2> HIDE DEF v, settled
  <2>2. Follows(settled, v)  BY <1>2, <2>1, AdmitFollows
  <2>3. Follows(u, v)  BY <1>2, <2>2, FollowsTwice
  <2> QED  BY <1>5, <2>3 DEF v, ReportsSaved
<1>6. CASE ~ body.generation < p.expected /\ ~ Verifies(p, body) /\ ~ Original(p, body)
  <2>1. v = [settled EXCEPT !.needsReload = TRUE, !.etag = FALSE]  BY <1>6 DEF reconcileAnalystSave
  <2>2. /\ v \in States /\ v.localAnalyst = u.localAnalyst /\ v.loaded = u.loaded /\ v.folder = u.folder
        /\ v.file = u.file /\ v.fileDraft = u.fileDraft /\ v.pending = NothingPending
    BY <1>1, <2>1 DEF States
  <2> HIDE DEF v, settled
  <2>3. Follows(u, v)  BY <2>2, FlagsChange
  <2> QED  BY <1>6, <2>3 DEF v, ReportsSaved
<1> QED  BY <1>3, <1>4, <1>5, <1>6

LEMMA OperationIs ==
    ASSUME NEW op \in Operations
    PROVE  /\ op \in FolderOperations \/ op \in FileOperations
           /\ op.kind \in {"createFolder", "saveFolder", "deleteFolder", "createFile", "saveFile", "deleteFile"}
           /\ op \in FileOperations <=> op.kind \in {"createFile", "saveFile", "deleteFile"}
BY DEF Operations, FolderOperations, FileOperations

\* What is done after a confirmed save selects what the library now holds.
LEMMA SettledFollows ==
    ASSUME NEW u, Sound(u), u.loaded, NEW op \in Operations, NEW contents, Fits(op, contents),
           Contents(u.localAnalyst) = contents
    PROVE  Follows(u, Settled(u, op))
<1> DEFINE d == u.localAnalyst
           v == Settled(u, op)
           clean == [u.fileDraft EXCEPT !.dirty = FALSE]
           cleanFolder == [u.folderDraft EXCEPT !.dirty = FALSE]
<1>1. u \in States /\ d \in Documents /\ WellFormed(d) /\ d.generation \in Nat  BY StateIs DEF Sound
<1>2. /\ 1 \in DOMAIN d.folders /\ DOMAIN d.folders \subseteq FolderIds /\ DOMAIN d.files \subseteq FileIds
      /\ contents.folders = d.folders /\ DOMAIN contents.files = DOMAIN d.files
      /\ \A i \in DOMAIN d.files : contents.files[i] = FileInput(d.files[i])
  BY <1>1, FolderMapIs, FileMapIs, ContentsIs DEF Documents
<1>3. u.folder \in DOMAIN d.folders /\ u.file \in DOMAIN d.files \union {None}  BY DEF Sound
<1>4. /\ u.fileDraft \in FileDrafts /\ u.folderDraft \in FolderDrafts
      /\ u.fileDraft.dirty => u.fileDraft.fields \in Inputs
  BY StateIs DEF Sound
<1>5. clean \in FileDrafts /\ ~ clean.dirty  BY <1>4 DEF FileDrafts, Draft
<1>6. cleanFolder \in FolderDrafts  BY <1>4 DEF FolderDrafts
<1>7. SUFFICES /\ v \in States /\ v.localAnalyst = d /\ v.loaded = u.loaded
               /\ v.folder \in DOMAIN d.folders /\ v.file \in DOMAIN d.files \union {None}
               /\ v.fileDraft = u.fileDraft \/ ~ v.fileDraft.dirty
               /\ v.pending = u.pending
  <2> HIDE DEF v
  <2>1. Sound(v)  BY <1>4, <1>7, SameDocument
  <2>2. v.localAnalyst.generation >= d.generation  BY <1>1, <1>7
  <2>3. Follows(u, v)  BY <1>7, <2>1, <2>2 DEF Follows
  <2> QED  BY <2>3 DEF v
<1>8. CASE op.kind = "createFolder"
  <2>1. v = [u EXCEPT !.folder = op.id, !.file = None]  BY <1>8 DEF Settled
  <2>2. op.id \in DOMAIN d.folders  BY <1>2, <1>8 DEF Fits
  <2> QED  BY <1>1, <1>2, <2>1, <2>2 DEF States
<1>9. CASE op.kind = "createFile"
  <2>1. v = [u EXCEPT !.file = op.id, !.fileDraft = clean]  BY <1>9 DEF Settled
  <2>2. op.id \in DOMAIN d.files  BY <1>2, <1>9 DEF Fits
  <2> HIDE DEF clean
  <2> QED  BY <1>1, <1>2, <1>3, <1>5, <2>1, <2>2 DEF States, FileDrafts
<1>10. CASE op.kind = "saveFolder"
  <2>1. v = [u EXCEPT !.folderDraft = cleanFolder]  BY <1>10 DEF Settled
  <2> HIDE DEF cleanFolder
  <2> QED  BY <1>1, <1>3, <1>6, <2>1 DEF States, FolderDrafts
<1>11. CASE op.kind = "saveFile"
  <2>1. v = [u EXCEPT !.folder = op.folder, !.fileDraft = clean]  BY <1>11 DEF Settled
  <2>2. PICK i \in DOMAIN d.files : contents.files[i].folder = op.folder  BY <1>2, <1>11 DEF Fits
  <2>3. op.folder = d.files[i].folder
    <3>1. contents.files[i] = FileInput(d.files[i])  BY <1>2
    <3>2. FileInput(d.files[i]).folder = d.files[i].folder  BY DEF FileInput
    <3> QED  BY <2>2, <3>1, <3>2
  <2>4. op.folder \in DOMAIN d.folders  BY <1>1, <2>3 DEF WellFormed
  <2> HIDE DEF clean
  <2> QED  BY <1>1, <1>2, <1>3, <1>5, <2>1, <2>4 DEF States, FileDrafts
<1>12. CASE op.kind = "deleteFile"
  <2>1. v = [u EXCEPT !.file = None, !.deleteFile = None, !.fileDraft = clean]  BY <1>12 DEF Settled
  <2> HIDE DEF clean
  <2> QED  BY <1>1, <1>3, <1>5, <2>1 DEF States, FileDrafts
<1>13. CASE op.kind = "deleteFolder"
  <2>1. v = [u EXCEPT !.folder = 1, !.deleteFolder = None, !.folderDraft = cleanFolder]
    BY <1>13 DEF Settled
  <2> HIDE DEF cleanFolder
  <2> QED  BY <1>1, <1>2, <1>3, <1>6, <2>1 DEF States, FolderDrafts
<1> QED  BY <1>8, <1>9, <1>10, <1>11, <1>12, <1>13, OperationIs

----------------------------------------------------------------------------
(* The steps of the page *)

\* What was saved is stored: the page has read a document that holds it.
LEMMA ReadIsStored ==
    ASSUME StoreInv, NEW p, NEW body, Held(body), Contents(body) = p.contents,
           \/ body.generation > p.expected
           \/ body.generation = p.expected /\ p.contents = p.baseContents
    PROVE  \E g \in DOMAIN store :
              /\ Contents(store[g]) = p.contents
              /\ g - 1 > p.expected \/ (g - 1 = p.expected /\ p.contents = p.baseContents)
<1> DEFINE g == body.generation + 1
<1>1. DOMAIN store = 1 .. Len(store)  BY DEF StoreInv
<1>2. body.generation \in Nat  BY HeldIs
<1>3. g \in DOMAIN store /\ body = store[g]  BY <1>1 DEF Held
<1>4. g - 1 = body.generation  BY <1>2
<1> HIDE DEF g
<1> QED  BY <1>3, <1>4

\* A step of the page keeps the pending save or settles it; it reports it only if it is stored.
LEMMA PageStep ==
    ASSUME IInv, UNCHANGED <<store, sent, wire>>, Follows(state, state'), SavingInv', RefreshInv',
           \/ confirmed' = confirmed
           \/ confirmed' = state.pending /\ state.pending # NothingPending /\ SavedIsStored'
    PROVE  IInv'
<1>1. StoreInv'  BY DEF IInv, StoreInv
<1>2. Sound(state)'  BY DEF Follows, Sound, Held
<1>3. /\ state.localAnalyst.generation \in Nat /\ state'.localAnalyst.generation \in Nat
      /\ state'.localAnalyst.generation >= state.localAnalyst.generation
      /\ state'.pending = state.pending \/ state'.pending = NothingPending
      /\ state.pending \in Pendings \union {NothingPending}
      /\ state'.pending \in Pendings \union {NothingPending}
      /\ sent \in 0 .. MaxSaves
  BY StateIs DEF Follows, IInv
<1>4. PendingInv'
  <2>1. state'.pending # NothingPending =>
           /\ state'.pending = state.pending /\ state.pending.n = sent /\ sent >= 1
           /\ state.pending.expected <= state.localAnalyst.generation /\ state.pending.expected \in Nat
    BY <1>3 DEF IInv, PendingInv, Pendings
  <2>2. state'.pending # NothingPending => state'.pending.expected <= state'.localAnalyst.generation
    BY <1>3, <2>1
  <2> QED  BY <2>1, <2>2 DEF PendingInv
<1>5. WireInv'
  <2>1. wire' \subseteq Sendings  BY DEF IInv, WireInv
  <2> SUFFICES ASSUME NEW w \in wire
               PROVE  /\ w.n \in 1 .. sent
                      /\ w.expected <= state'.localAnalyst.generation
                      /\ OnlyItem(w.operation, store[w.expected + 1], w.contents)
                      /\ state'.pending # NothingPending => w.expected <= state'.pending.expected
                      /\ w.n < confirmed'.n => w.expected <= confirmed'.expected
    BY <2>1 DEF WireInv
  <2>2. /\ w.n \in 1 .. sent /\ w.expected <= state.localAnalyst.generation
        /\ OnlyItem(w.operation, store[w.expected + 1], w.contents)
        /\ state.pending # NothingPending => w.expected <= state.pending.expected
        /\ w.n < confirmed.n => w.expected <= confirmed.expected
        /\ w.expected \in Nat
    BY DEF IInv, WireInv, Sendings
  <2>3. w.expected <= state'.localAnalyst.generation  BY <1>3, <2>2
  <2> QED  BY <1>3, <2>2, <2>3
<1>6. ConfirmedInv'
  <2>1. CASE confirmed' = confirmed
    <3>1. SavedIsStored => SavedIsStored'  BY <2>1 DEF SavedIsStored
    <3> QED  BY <2>1, <3>1 DEF IInv, ConfirmedInv
  <2>2. CASE confirmed' = state.pending /\ state.pending # NothingPending /\ SavedIsStored'
    <3>1. state.pending.n \in 1 .. sent  BY <1>3, <2>2 DEF IInv, PendingInv
    <3> QED  BY <1>3, <2>2, <3>1 DEF ConfirmedInv
  <2> QED  BY <2>1, <2>2
<1> QED  BY <1>1, <1>2, <1>4, <1>5, <1>6 DEF IInv

LEMMA SavingIs ==
    ASSUME IInv
    PROVE  /\ saving = IdleSave <=> saving.at = "idle"
           /\ saving.at # "idle" =>
                 /\ saving.at \in {"posting", "recovering"} /\ saving.operation \in Operations
                 /\ saving.answer \in {NoAnswer, Refusal} \union Answers
                 /\ saving.answer.kind = "document" => saving.answer \in Answers /\ Held(saving.answer.body)
<1>1. saving \in Savings  BY DEF IInv, SavingInv
<1>2. saving = IdleSave <=> saving.at = "idle"  BY <1>1 DEF Savings, IdleSave
<1>3. ASSUME saving.at # "idle"
      PROVE  /\ saving.at \in {"posting", "recovering"} /\ saving.operation \in Operations
             /\ saving.answer \in {NoAnswer, Refusal} \union Answers
             /\ HeldAnswer(saving.answer)
  BY <1>1, <1>2, <1>3 DEF Savings, IInv, SavingInv
<1>4. ASSUME saving.at # "idle", saving.answer.kind = "document"
      PROVE  saving.answer \in Answers /\ Held(saving.answer.body)
  BY <1>3, <1>4 DEF HeldAnswer, NoAnswer, Refusal
<1> QED  BY <1>2, <1>3, <1>4

LEMMA IdleSaving == ASSUME saving' = IdleSave PROVE SavingInv'
BY DEF SavingInv, Savings, IdleSave

LEMMA SavedStep ==
    ASSUME IInv, SaveAcknowledged PROVE IInv'
<1> DEFINE body == saving.answer.body
           p == state.pending
           u == [state EXCEPT !.pending = NothingPending]
           v == admitAnalystWorkspace(u, body, TRUE)
<1>1. /\ saving.at = "posting" /\ Acknowledged /\ saving' = IdleSave
      /\ UNCHANGED <<store, refreshing, sent, wire>>
  BY DEF SaveAcknowledged
<1>2. saving.operation \in Operations /\ Held(body)
  BY <1>1, SavingIs DEF Acknowledged
<1>3. p # NothingPending /\ p \in Pendings /\ Fits(saving.operation, p.contents)
  BY <1>1, StateIs DEF IInv, SavingInv
<1>4. Sound(state) /\ StoreInv  BY DEF IInv
<1>5. Follows(state, u) /\ Sound(u) /\ (Admits(u, body, TRUE) <=> Admits(state, body, TRUE))
  BY <1>4, PendingDropped
<1>6. Contents(body) = p.contents
      /\ body.generation = IF p.contents = p.baseContents THEN p.expected ELSE p.expected + 1
  BY <1>1 DEF Acknowledged
<1>7. /\ Follows(u, v) /\ Sound(v)
      /\ Admits(u, body, TRUE) => v.localAnalyst = body /\ v.loaded
  <2> HIDE DEF u, body
  <2> QED  BY <1>2, <1>4, <1>5, AdmitFollows DEF Follows
<1>8. Follows(state, v)
  <2> HIDE DEF u, v
  <2> QED  BY <1>4, <1>5, <1>7, FollowsTwice
<1>9. SavingInv'  BY <1>1, IdleSaving
<1>10. RefreshInv'  BY <1>1 DEF IInv, RefreshInv, HeldAnswer, Held
<1>11. CASE Admits(u, body, TRUE)
  <2>1. state' = Render(Settled(v, saving.operation)) /\ confirmed' = p  BY <1>11 DEF SaveAcknowledged
  <2> HIDE DEF u, v, body
  <2>2. Follows(v, Settled(v, saving.operation))
    BY <1>2, <1>3, <1>6, <1>7, <1>11, SettledFollows
  <2>3. Follows(state, Settled(v, saving.operation))  BY <1>4, <1>8, <2>2, FollowsTwice
  <2>4. Follows(state, state')  BY <1>4, <2>1, <2>3, Rendered
  <2>5. body.generation \in Nat /\ p.expected \in Nat  BY <1>2, <1>3, <1>4, HeldIs DEF Pendings
  <2>6. SavedIsStored'
    <3> HIDE DEF p
    <3>1. body.generation > p.expected \/ (body.generation = p.expected /\ p.contents = p.baseContents)
      BY <1>6, <2>5
    <3>2. \E g \in DOMAIN store :
             /\ Contents(store[g]) = p.contents
             /\ g - 1 > p.expected \/ (g - 1 = p.expected /\ p.contents = p.baseContents)
      BY <1>2, <1>4, <1>6, <3>1, ReadIsStored
    <3> QED  BY <1>1, <2>1, <3>2 DEF SavedIsStored
  <2> QED  BY <1>1, <1>3, <1>9, <1>10, <2>1, <2>4, <2>6, PageStep
<1>12. CASE ~ Admits(u, body, TRUE)
  <2>1. state' = Render(v) /\ confirmed' = confirmed  BY <1>12 DEF SaveAcknowledged
  <2> HIDE DEF v
  <2>2. Follows(state, state')  BY <1>4, <1>8, <2>1, Rendered
  <2> QED  BY <1>1, <1>9, <1>10, <2>1, <2>2, PageStep
<1> QED  BY <1>11, <1>12

LEMMA UncertainStep == ASSUME IInv, SaveUncertain PROVE IInv'
<1>1. /\ saving.at = "posting" /\ state' = [state EXCEPT !.etag = FALSE]
      /\ saving' = [saving EXCEPT !.at = "recovering", !.answer = NoAnswer]
      /\ UNCHANGED <<store, refreshing, sent, wire, confirmed>>
  BY DEF SaveUncertain
<1>2. Sound(state) /\ state \in States  BY DEF IInv, Sound
<1>3. /\ state' \in States /\ state'.localAnalyst = state.localAnalyst /\ state'.loaded = state.loaded
      /\ state'.folder = state.folder /\ state'.file = state.file
      /\ state'.fileDraft = state.fileDraft /\ state'.pending = state.pending
  BY <1>1, <1>2 DEF States
<1>4. Follows(state, state')  BY <1>2, <1>3, FlagsChange
<1>5. saving' \in Savings /\ saving'.operation = saving.operation /\ saving'.answer = NoAnswer
  <2>1. saving \in Savings /\ saving # IdleSave  BY <1>1, SavingIs DEF IInv, SavingInv
  <2>2. saving \in [at : {"posting", "recovering"}, operation : Operations,
                    answer : {NoAnswer, Refusal} \union Answers]
    BY <2>1 DEF Savings
  <2> QED  BY <1>1, <2>2 DEF Savings
<1>6. SavingInv'  BY <1>1, <1>3, <1>5 DEF IInv, SavingInv, HeldAnswer, NoAnswer
<1>7. RefreshInv'  BY <1>1 DEF IInv, RefreshInv, HeldAnswer, Held
<1> QED  BY <1>1, <1>4, <1>6, <1>7, PageStep

\* A document that confirms the pending save was read after what the save was made on.
LEMMA ReportedIs ==
    ASSUME IInv, state.pending # NothingPending, NEW body, Held(body), ReportsSaved(state, body)
    PROVE  /\ ~ body.generation < state.pending.expected
           /\ Contents(body) = state.pending.contents
           /\ \/ body.generation > state.pending.expected
              \/ body.generation = state.pending.expected
                 /\ state.pending.contents = state.pending.baseContents
<1> DEFINE p == state.pending
<1>1. p \in Pendings  BY StateIs DEF IInv
<1>2. p.expected \in Nat /\ body.generation \in Nat /\ state.localAnalyst.generation \in Nat
  BY <1>1, HeldIs, StateIs DEF IInv, Pendings
<1>3. p.expected <= state.localAnalyst.generation  BY DEF IInv, PendingInv
<1>4. /\ Contents(body) = p.contents
      /\ body.generation > p.expected \/ p.contents = p.baseContents
      /\ ~ body.generation < state.localAnalyst.generation
  BY DEF ReportsSaved, Verifies, Admits, Older
<1> HIDE DEF p
<1>5. body.generation >= p.expected  BY <1>2, <1>3, <1>4
<1> QED  BY <1>2, <1>4, <1>5 DEF p

LEMMA ReportedIsStored ==
    ASSUME IInv, state.pending # NothingPending, NEW body, Held(body), ReportsSaved(state, body),
           store' = store, confirmed' = state.pending
    PROVE  SavedIsStored'
<1> DEFINE p == state.pending
<1>1. /\ Contents(body) = p.contents
      /\ body.generation > p.expected \/ (body.generation = p.expected /\ p.contents = p.baseContents)
  BY ReportedIs
<1>2. StoreInv  BY DEF IInv
<1>3. confirmed' = p  OBVIOUS
<1> HIDE DEF p
<1>4. \E g \in DOMAIN store :
          /\ Contents(store[g]) = p.contents
          /\ g - 1 > p.expected \/ (g - 1 = p.expected /\ p.contents = p.baseContents)
  BY <1>1, <1>2, ReadIsStored
<1> QED  BY <1>3, <1>4 DEF SavedIsStored

LEMMA RecoveredStep == ASSUME IInv, SaveRecovered PROVE IInv'
<1> DEFINE body == saving.answer.body
           v == reconcileAnalystSave(state, body)
<1>1. /\ saving.at = "recovering" /\ saving.answer.kind = "document" /\ saving' = IdleSave
      /\ UNCHANGED <<store, refreshing, sent, wire>>
  BY DEF SaveRecovered
<1>2. saving.operation \in Operations /\ Held(body)  BY <1>1, SavingIs
<1>3. state.pending # NothingPending /\ Fits(saving.operation, state.pending.contents)
  BY <1>1 DEF IInv, SavingInv
<1>4. Sound(state) /\ StoreInv  BY DEF IInv
<1>5. Follows(state, v)  BY <1>2, <1>4, ReconcileFollows
<1>6. SavingInv'  BY <1>1, IdleSaving
<1>7. RefreshInv'  BY <1>1 DEF IInv, RefreshInv, HeldAnswer, Held
<1>8. CASE ReportsSaved(state, body)
  <2>1. state' = Render(Settled(v, saving.operation)) /\ confirmed' = state.pending
    BY <1>8 DEF SaveRecovered
  <2>2. ~ body.generation < state.pending.expected /\ Contents(body) = state.pending.contents
    BY <1>2, <1>3, <1>8, ReportedIs
  <2>3. v.localAnalyst = body /\ v.loaded  BY <1>2, <1>4, <1>8, <2>2, ReconcileFollows
  <2>4. SavedIsStored'  BY <1>1, <1>2, <1>3, <1>8, <2>1, ReportedIsStored
  <2> HIDE DEF v, body
  <2>5. Follows(v, Settled(v, saving.operation))
    BY <1>2, <1>3, <1>5, <2>2, <2>3, SettledFollows DEF Follows
  <2>6. Follows(state, Settled(v, saving.operation))  BY <1>4, <1>5, <2>5, FollowsTwice
  <2>7. Follows(state, state')  BY <1>4, <2>1, <2>6, Rendered
  <2> QED  BY <1>1, <1>3, <1>6, <1>7, <2>1, <2>4, <2>7, PageStep
<1>9. CASE ~ ReportsSaved(state, body)
  <2>1. state' = Render(v) /\ confirmed' = confirmed  BY <1>9 DEF SaveRecovered
  <2> HIDE DEF v
  <2>2. Follows(state, state')  BY <1>4, <1>5, <2>1, Rendered
  <2> QED  BY <1>1, <1>6, <1>7, <2>1, <2>2, PageStep
<1> QED  BY <1>8, <1>9

LEMMA RecoveryFailsStep == ASSUME IInv, RecoveryFails PROVE IInv'
<1>1. state' = Render(state) /\ saving' = IdleSave /\ UNCHANGED <<store, refreshing, sent, wire, confirmed>>
  BY DEF RecoveryFails
<1>2. Follows(state, state')  BY <1>1, RenderFollows DEF IInv
<1>3. SavingInv'  BY <1>1, IdleSaving
<1>4. RefreshInv'  BY <1>1 DEF IInv, RefreshInv, HeldAnswer, Held
<1> QED  BY <1>1, <1>2, <1>3, <1>4, PageStep

LEMMA SavingKept ==
    ASSUME IInv, UNCHANGED <<store, saving>>,
           \/ saving.at = "idle"
           \/ state'.pending = state.pending /\ (refreshing'.at = "idle" \/ refreshing'.stale)
    PROVE  SavingInv'
<1>1. CASE saving.at = "idle"
  <2>1. saving' = IdleSave  BY <1>1, SavingIs
  <2> QED  BY <2>1, IdleSaving
<1>2. CASE saving.at # "idle"
  <2>1. SavingInv /\ HeldAnswer(saving.answer)  BY <1>2 DEF IInv, SavingInv
  <2>2. HeldAnswer(saving.answer)'  BY <2>1 DEF HeldAnswer, Held
  <2> QED  BY <1>2, <2>1, <2>2 DEF SavingInv
<1> QED  BY <1>1, <1>2

LEMMA RefreshingIs ==
    ASSUME IInv, refreshing.at # "idle"
    PROVE  /\ refreshing.at \in {"loading", "runner"} /\ refreshing.stale \in BOOLEAN
           /\ refreshing.conditional \in BOOLEAN
           /\ refreshing.answer \in {NoAnswer, NotModified} \union Answers
           /\ HeldAnswer(refreshing.answer)
           /\ saving.at # "idle" => refreshing.stale
<1>1. refreshing \in Refreshings /\ refreshing # IdleRefresh  BY DEF IInv, RefreshInv, IdleRefresh
<1>2. refreshing \in [at : {"loading", "runner"}, stale : BOOLEAN, conditional : BOOLEAN,
                      answer : {NoAnswer, NotModified} \union Answers]
  BY <1>1 DEF Refreshings
<1>3. HeldAnswer(refreshing.answer) /\ (saving.at # "idle" => refreshing.stale)
  BY DEF IInv, RefreshInv, SavingInv
<1> QED  BY <1>2, <1>3

LEMMA IdleRefreshing == ASSUME refreshing' = IdleRefresh PROVE RefreshInv'
BY DEF RefreshInv, Refreshings, IdleRefresh

LEMMA LeavesIs ==
    ASSUME IInv, refreshing.at = "loading", Leaves(RunnerAwaited)
    PROVE  RefreshInv' /\ (refreshing.stale => refreshing'.at = "idle")
<1>1. CASE refreshing.stale
  <2>1. refreshing' = IdleRefresh  BY <1>1 DEF Leaves
  <2> QED  BY <2>1, IdleRefreshing DEF IdleRefresh
<1>2. CASE ~ refreshing.stale
  <2>1. refreshing' = [refreshing EXCEPT !.at = "runner", !.answer = NoAnswer]
    BY <1>2 DEF Leaves, RunnerAwaited
  <2>2. refreshing \in Refreshings /\ refreshing # IdleRefresh  BY DEF IInv, RefreshInv, IdleRefresh
  <2>3. refreshing \in [at : {"loading", "runner"}, stale : BOOLEAN, conditional : BOOLEAN,
                        answer : {NoAnswer, NotModified} \union Answers]
    BY <2>2 DEF Refreshings
  <2>4. refreshing' \in Refreshings /\ refreshing'.answer = NoAnswer  BY <2>1, <2>3 DEF Refreshings
  <2>5. HeldAnswer(refreshing.answer)'  BY <2>4 DEF HeldAnswer, NoAnswer
  <2> QED  BY <1>2, <2>4, <2>5 DEF RefreshInv
<1> QED  BY <1>1, <1>2

LEMMA RefreshAnsweredStep == ASSUME IInv, RefreshAnswered PROVE IInv'
<1> DEFINE body == refreshing.answer.body
<1>1. /\ refreshing.at = "loading" /\ refreshing.answer # NoAnswer /\ Leaves(RunnerAwaited)
      /\ UNCHANGED <<store, saving, sent, wire>>
  BY DEF RefreshAnswered
<1>2. RefreshInv' /\ (refreshing.stale => refreshing'.at = "idle")  BY <1>1, LeavesIs
<1>3. saving.at = "idle" \/ refreshing.stale  BY <1>1, RefreshingIs
<1>4. Sound(state) /\ StoreInv  BY DEF IInv
<1>5. CASE refreshing.stale \/ refreshing.answer = NotModified
  <2>1. state' = Render(state) /\ confirmed' = confirmed  BY <1>5 DEF RefreshAnswered
  <2>2. Follows(state, state') /\ state'.pending = state.pending
    BY <1>4, <2>1, RenderFollows, RenderKeeps
  <2>3. SavingInv'  BY <1>1, <1>2, <1>3, <2>2, SavingKept
  <2> QED  BY <1>1, <1>2, <2>1, <2>2, <2>3, PageStep
<1>6. CASE ~ (refreshing.stale \/ refreshing.answer = NotModified)
  <2>1. SavingInv'  BY <1>1, <1>3, <1>6, SavingKept
  <2>2. Held(body)
    <3>1. refreshing.answer \in Answers /\ HeldAnswer(refreshing.answer)  BY <1>1, <1>6, RefreshingIs
    <3> QED  BY <3>1 DEF Answers, HeldAnswer
  <2>3. CASE state.pending # NothingPending
    <3> DEFINE v == reconcileAnalystSave(state, body)
    <3>1. /\ state' = Render(v)
          /\ confirmed' = IF ReportsSaved(state, body) THEN state.pending ELSE confirmed
      BY <1>6, <2>3 DEF RefreshAnswered
    <3>2. Follows(state, v)  BY <1>4, <2>2, ReconcileFollows
    <3>3. Follows(state, state')
      <4> HIDE DEF v
      <4> QED  BY <1>4, <3>1, <3>2, Rendered
    <3>4. ReportsSaved(state, body) => SavedIsStored'
      <4> SUFFICES ASSUME ReportsSaved(state, body) PROVE SavedIsStored'  OBVIOUS
      <4>1. confirmed' = state.pending  BY <3>1
      <4> HIDE DEF body
      <4> QED  BY <1>1, <2>2, <2>3, <4>1, ReportedIsStored
    <3>5. confirmed' = confirmed \/ (confirmed' = state.pending /\ state.pending # NothingPending /\ SavedIsStored')
      BY <2>3, <3>1, <3>4
    <3> QED  BY <1>1, <1>2, <2>1, <3>3, <3>5, PageStep
  <2>4. CASE state.pending = NothingPending
    <3> DEFINE v == admitAnalystWorkspace(state, body, FALSE)
    <3>1. state' = Render(v) /\ confirmed' = confirmed  BY <1>6, <2>4 DEF RefreshAnswered
    <3>2. Follows(state, v)  BY <1>4, <2>2, AdmitFollows
    <3>3. Follows(state, state')
      <4> HIDE DEF v
      <4> QED  BY <1>4, <3>1, <3>2, Rendered
    <3> QED  BY <1>1, <1>2, <2>1, <3>1, <3>3, PageStep
  <2> QED  BY <2>3, <2>4
<1> QED  BY <1>5, <1>6

LEMMA RefreshFailsStep == ASSUME IInv, RefreshFails PROVE IInv'
<1> DEFINE u == IF refreshing.stale THEN state ELSE [state EXCEPT !.etag = FALSE]
<1>1. /\ refreshing.at = "loading" /\ Leaves(RunnerAwaited)
      /\ UNCHANGED <<store, saving, sent, wire, confirmed>> /\ state' = Render(u)
  BY DEF RefreshFails
<1>2. RefreshInv' /\ (refreshing.stale => refreshing'.at = "idle")  BY <1>1, LeavesIs
<1>3. saving.at = "idle" \/ refreshing.stale  BY <1>1, RefreshingIs
<1>4. Sound(state) /\ state \in States  BY DEF IInv, Sound
<1>5. /\ u \in States /\ u.localAnalyst = state.localAnalyst /\ u.loaded = state.loaded
      /\ u.folder = state.folder /\ u.file = state.file /\ u.fileDraft = state.fileDraft
      /\ u.pending = state.pending
  BY <1>4 DEF States
<1> HIDE DEF u
<1>6. Follows(state, u)  BY <1>4, <1>5, FlagsChange
<1>7. Follows(state, state') /\ state'.pending = state.pending
  BY <1>1, <1>4, <1>5, <1>6, Rendered, RenderKeeps DEF Follows
<1>8. SavingInv'  BY <1>1, <1>2, <1>3, <1>7, SavingKept
<1> QED  BY <1>1, <1>2, <1>7, <1>8, PageStep

LEMMA RunnerAnsweredStep == ASSUME IInv, RunnerAnswered PROVE IInv'
<1>1. /\ refreshing' = IdleRefresh /\ state' = Render(state)
      /\ UNCHANGED <<store, saving, sent, wire, confirmed>>
  BY DEF RunnerAnswered
<1>2. Follows(state, state') /\ state'.pending = state.pending
  BY <1>1, RenderFollows, RenderKeeps DEF IInv
<1>3. RefreshInv'  BY <1>1, IdleRefreshing
<1>4. SavingInv'  BY <1>1, <1>2, SavingKept DEF IdleRefresh
<1> QED  BY <1>1, <1>2, <1>3, <1>4, PageStep

LEMMA RefreshStep == ASSUME IInv, NEW force \in BOOLEAN, refreshLocalAnalyst(force) PROVE IInv'
<1> DEFINE conditional == /\ ~ force /\ state.pending = NothingPending
                          /\ ~ state.needsReload /\ state.etag
<1>1. /\ saving.at = "idle" /\ UNCHANGED <<store, state, saving, sent, wire, confirmed>>
      /\ refreshing' = [at |-> "loading", stale |-> FALSE, answer |-> NoAnswer, conditional |-> conditional]
  BY DEF refreshLocalAnalyst
<1>2. conditional \in BOOLEAN  OBVIOUS
<1> HIDE DEF conditional
<1>3. refreshing' \in Refreshings /\ refreshing'.answer = NoAnswer  BY <1>1, <1>2 DEF Refreshings
<1>4. RefreshInv'  BY <1>3 DEF RefreshInv, HeldAnswer, NoAnswer
<1>5. SavingInv'  BY <1>1, SavingKept
<1>6. Follows(state, state')  BY <1>1, FollowsItself DEF IInv
<1> QED  BY <1>1, <1>4, <1>5, <1>6, PageStep

----------------------------------------------------------------------------
(* The steps of the user *)

LEMMA FormsChange ==
    ASSUME NEW u, Sound(u), NEW v \in States,
           v.localAnalyst = u.localAnalyst, v.loaded = u.loaded, v.pending = u.pending,
           v.folder \in DOMAIN u.localAnalyst.folders,
           v.file \in DOMAIN u.localAnalyst.files \union {None},
           v.fileDraft.dirty => v.fileDraft.fields \in Inputs
    PROVE  Follows(u, v)
<1>1. Sound(v)  BY SameDocument
<1>2. v.localAnalyst.generation >= u.localAnalyst.generation  BY StateIs
<1> QED  BY <1>1, <1>2 DEF Follows

LEMMA OnlyStep ==
    ASSUME IInv, saving.at = "idle", NEW u, Only(u), Follows(state, u)
    PROVE  IInv'
<1>1. UNCHANGED <<store, saving, refreshing, sent, wire, confirmed>> /\ Follows(state, state')
  BY DEF Only
<1>2. SavingInv'  BY <1>1, SavingKept
<1>3. RefreshInv'  BY <1>1 DEF IInv, RefreshInv, HeldAnswer, Held
<1> QED  BY <1>1, <1>2, <1>3, PageStep

LEMMA FormStep ==
    ASSUME IInv, saving.at = "idle", NEW u \in States, Only(u) \/ Only(Render(u)),
           u.localAnalyst = state.localAnalyst, u.loaded = state.loaded, u.pending = state.pending,
           u.folder \in DOMAIN state.localAnalyst.folders,
           u.file \in DOMAIN state.localAnalyst.files \union {None},
           u.fileDraft.dirty => u.fileDraft.fields \in Inputs
    PROVE  IInv'
<1>1. Follows(state, u) /\ Sound(state)  BY FormsChange DEF IInv
<1>2. Follows(state, Render(u))  BY <1>1, Rendered
<1> QED  BY <1>1, <1>2, OnlyStep

LEMMA PageIs ==
    ASSUME IInv
    PROVE  /\ state \in States /\ Sound(state)
           /\ state.fileDraft \in FileDrafts /\ state.folderDraft \in FolderDrafts
           /\ state.fileDraft.dirty => state.fileDraft.fields \in Inputs
           /\ state.localAnalyst \in Documents /\ WellFormed(state.localAnalyst)
           /\ state.folder \in DOMAIN state.localAnalyst.folders /\ state.folder \in FolderIds
           /\ state.file \in DOMAIN state.localAnalyst.files \union {None}
           /\ state.file \in FileIds \union {None}
           /\ DOMAIN state.localAnalyst.folders \subseteq FolderIds
           /\ DOMAIN state.localAnalyst.files \subseteq FileIds
           /\ 1 \in DOMAIN state.localAnalyst.folders
<1>1. Sound(state)  BY DEF IInv
<1>2. state.localAnalyst \in Documents /\ state.fileDraft \in FileDrafts
      /\ state.folderDraft \in FolderDrafts /\ state.folder \in FolderIds /\ state.file \in FileIds \union {None}
  BY <1>1, StateIs
<1>3. DOMAIN state.localAnalyst.folders \subseteq FolderIds /\ DOMAIN state.localAnalyst.files \subseteq FileIds
      /\ 1 \in DOMAIN state.localAnalyst.folders
  BY <1>2, FolderMapIs, FileMapIs DEF Documents
<1> QED  BY <1>1, <1>2, <1>3 DEF Sound

LEMMA EditsAreInputs == UNION {Edits[i] : i \in FileIds} \subseteq Inputs
BY LibraryAssumption DEF Inputs

LEMMA EditFileStep ==
    ASSUME IInv, NEW fields \in UNION {Edits[i] : i \in FileIds}, EditFile(fields) PROVE IInv'
<1> DEFINE f == [state.fileDraft EXCEPT !.dirty = TRUE, !.fields = fields]
           u == [state EXCEPT !.fileDraft = f, !.deleteFile = None]
<1>1. /\ saving.at = "idle"
      /\ Only([state EXCEPT !.fileDraft.dirty = TRUE, !.fileDraft.fields = fields, !.deleteFile = None])
  BY DEF EditFile
<1>2. fields \in Inputs  BY EditsAreInputs
<1>3. f \in FileDrafts /\ f.fields = fields  BY <1>2, PageIs DEF FileDrafts, Draft
<1>4. [state EXCEPT !.fileDraft.dirty = TRUE, !.fileDraft.fields = fields, !.deleteFile = None] = u
  OBVIOUS
<1> HIDE DEF f
<1>5. /\ u \in States /\ u.localAnalyst = state.localAnalyst /\ u.loaded = state.loaded
      /\ u.pending = state.pending /\ u.folder = state.folder /\ u.file = state.file /\ u.fileDraft = f
  BY <1>3, PageIs DEF States, FileDrafts
<1>6. Only(u)  BY <1>1, <1>4
<1> HIDE DEF u
<1> QED  BY <1>1, <1>2, <1>3, <1>5, <1>6, PageIs, FormStep

LEMMA EditFolderStep == ASSUME IInv, NEW name \in FolderNames, EditFolder(name) PROVE IInv'
<1> DEFINE g == [state.folderDraft EXCEPT !.dirty = TRUE, !.name = name]
           u == [state EXCEPT !.folderDraft = g, !.deleteFolder = None]
<1>1. /\ saving.at = "idle"
      /\ Only([state EXCEPT !.folderDraft.dirty = TRUE, !.folderDraft.name = name, !.deleteFolder = None])
  BY DEF EditFolder
<1>2. g \in FolderDrafts  BY PageIs DEF FolderDrafts, FolderLabels
<1>3. [state EXCEPT !.folderDraft.dirty = TRUE, !.folderDraft.name = name, !.deleteFolder = None] = u
  OBVIOUS
<1> HIDE DEF g
<1>4. /\ u \in States /\ u.localAnalyst = state.localAnalyst /\ u.loaded = state.loaded
      /\ u.pending = state.pending /\ u.folder = state.folder /\ u.file = state.file
      /\ u.fileDraft = state.fileDraft
  BY <1>2, PageIs DEF States, FolderDrafts
<1>5. Only(u)  BY <1>1, <1>3
<1> HIDE DEF u
<1> QED  BY <1>1, <1>4, <1>5, PageIs, FormStep

LEMMA DiscardFileStep == ASSUME IInv, DiscardFile PROVE IInv'
<1> DEFINE f == [state.fileDraft EXCEPT !.dirty = FALSE]
           u == [state EXCEPT !.fileDraft = f, !.deleteFile = None, !.deleteFolder = None]
<1>1. saving.at = "idle" /\ Only(Render(u))  BY DEF DiscardFile
<1>2. f \in FileDrafts /\ ~ f.dirty  BY PageIs DEF FileDrafts, Draft
<1> HIDE DEF f
<1>3. /\ u \in States /\ u.localAnalyst = state.localAnalyst /\ u.loaded = state.loaded
      /\ u.pending = state.pending /\ u.folder = state.folder /\ u.file = state.file /\ u.fileDraft = f
  BY <1>2, PageIs DEF States, FileDrafts
<1> HIDE DEF u
<1> QED  BY <1>1, <1>2, <1>3, PageIs, FormStep

LEMMA DiscardFolderStep == ASSUME IInv, DiscardFolder PROVE IInv'
<1> DEFINE g == [state.folderDraft EXCEPT !.dirty = FALSE]
           u == [state EXCEPT !.folderDraft = g, !.deleteFile = None, !.deleteFolder = None]
<1>1. saving.at = "idle" /\ Only(Render(u))  BY DEF DiscardFolder
<1>2. g \in FolderDrafts  BY PageIs DEF FolderDrafts
<1> HIDE DEF g
<1>3. /\ u \in States /\ u.localAnalyst = state.localAnalyst /\ u.loaded = state.loaded
      /\ u.pending = state.pending /\ u.folder = state.folder /\ u.file = state.file
      /\ u.fileDraft = state.fileDraft
  BY <1>2, PageIs DEF States, FolderDrafts
<1> HIDE DEF u
<1> QED  BY <1>1, <1>3, PageIs, FormStep

LEMMA SelectFolderStep == ASSUME IInv, NEW d \in FolderIds, SelectFolder(d) PROVE IInv'
<1> DEFINE u == [state EXCEPT !.folder = d, !.file = None, !.deleteFolder = None]
<1>1. saving.at = "idle" /\ Only(Render(u)) /\ d \in DOMAIN state.localAnalyst.folders
  BY DEF SelectFolder, analystMayLeaveDraft
<1>2. /\ u \in States /\ u.localAnalyst = state.localAnalyst /\ u.loaded = state.loaded
      /\ u.pending = state.pending /\ u.folder = d /\ u.file = None /\ u.fileDraft = state.fileDraft
  BY PageIs DEF States
<1> HIDE DEF u
<1> QED  BY <1>1, <1>2, PageIs, FormStep

LEMMA SelectFileStep == ASSUME IInv, NEW i \in FileIds, SelectFile(i) PROVE IInv'
<1> DEFINE d == state.localAnalyst.files[i].folder
           u == [state EXCEPT !.file = i, !.folder = d, !.deleteFile = None]
<1>1. saving.at = "idle" /\ Only(Render(u)) /\ i \in DOMAIN state.localAnalyst.files
  BY DEF SelectFile, analystMayLeaveDraft
<1>2. d \in DOMAIN state.localAnalyst.folders /\ d \in FolderIds  BY <1>1, PageIs DEF WellFormed
<1> HIDE DEF d
<1>3. /\ u \in States /\ u.localAnalyst = state.localAnalyst /\ u.loaded = state.loaded
      /\ u.pending = state.pending /\ u.folder = d /\ u.file = i /\ u.fileDraft = state.fileDraft
  BY <1>2, PageIs DEF States
<1> HIDE DEF u
<1> QED  BY <1>1, <1>2, <1>3, PageIs, FormStep

LEMMA OnlyItemFile ==
    ASSUME NEW d \in Documents, NEW c, NEW op \in FileOperations,
           FilesOnly(Contents(d), c, op.id), File(d, op.id) = op.seen
    PROVE  c \in Requests /\ OnlyItem(op, d, c)
<1>1. c \in Requests /\ c.folders = d.folders /\ Differing(Contents(d).files, c.files) \subseteq {op.id}
  BY ContentsIs DEF FilesOnly
<1>2. Differing(d.folders, c.folders) = {}  BY <1>1, SameDiffering
<1> QED  BY <1>1, <1>2 DEF OnlyItem

LEMMA OnlyItemFolder ==
    ASSUME NEW d \in Documents, NEW c, NEW op \in FolderOperations,
           FoldersOnly(Contents(d), c, op.id), Folder(d, op.id) = op.seen
    PROVE  c \in Requests /\ OnlyItem(op, d, c)
<1>1. /\ c \in Requests /\ c.files = Contents(d).files
      /\ Differing(d.folders, c.folders) \subseteq {op.id}
  BY ContentsIs DEF FoldersOnly
<1>2. Differing(Contents(d).files, c.files) = {}  BY <1>1, SameDiffering
<1>3. op \notin FileOperations  BY DEF FolderOperations, FileOperations
<1> QED  BY <1>1, <1>2, <1>3 DEF OnlyItem

\* A replacement is made on the admitted document, which every earlier one is not later than.
LEMMA SendStep ==
    ASSUME IInv, NEW contents \in Requests, NEW op \in Operations, Fits(op, contents),
           OnlyItem(op, state.localAnalyst, contents), replaceLocalAnalyst(contents, op)
    PROVE  IInv'
<1> DEFINE p == [n |-> sent + 1, expected |-> state.localAnalyst.generation, contents |-> contents,
                 baseContents |-> Contents(state.localAnalyst)]
           u == [state EXCEPT !.pending = p]
           new == [n |-> p.n, expected |-> p.expected, contents |-> contents, operation |-> op]
<1>1. /\ saving.at = "idle" /\ state.loaded /\ sent < MaxSaves /\ sent' = sent + 1
      /\ state' = Render(u)
      /\ saving' = [at |-> "posting", operation |-> op, answer |-> NoAnswer]
      /\ refreshing' = IF refreshing.at = "idle" THEN refreshing ELSE [refreshing EXCEPT !.stale = TRUE]
      /\ wire' = wire \union {new}
      /\ UNCHANGED <<store, confirmed>>
  BY DEF replaceLocalAnalyst, CanReplace
<1>2. /\ state \in States /\ Sound(state) /\ state.localAnalyst \in Documents
      /\ state.localAnalyst.generation \in Nat /\ sent \in 0 .. MaxSaves /\ sent \in Nat
  BY PageIs, StateIs DEF IInv
<1>3. p \in Pendings /\ p # NothingPending /\ new \in Sendings
  <2>1. Contents(state.localAnalyst) \in Requests  BY <1>2, ContentsIs
  <2>2. p \in Pendings /\ new \in Sendings  BY <1>2, <2>1 DEF Pendings, Sendings
  <2>3. p.n # 0  BY <1>2
  <2>4. NothingPending.n = 0  BY DEF NothingPending
  <2> QED  BY <2>2, <2>3, <2>4
<1>4. /\ p.n = sent' /\ p.expected = state.localAnalyst.generation /\ p.contents = contents
      /\ new.n = sent' /\ new.expected = p.expected /\ new.contents = contents /\ new.operation = op
  BY <1>1
<1> HIDE DEF p, new
<1>5. Sound(u) /\ u.pending = p /\ u.localAnalyst = state.localAnalyst
  <2>1. /\ u \in States /\ u.localAnalyst = state.localAnalyst /\ u.loaded = state.loaded
        /\ u.folder = state.folder /\ u.file = state.file /\ u.fileDraft = state.fileDraft
        /\ u.pending = p
    BY <1>2, <1>3 DEF States
  <2> HIDE DEF u
  <2> QED  BY <1>2, <2>1, PageIs, SameDocument
<1> HIDE DEF u
<1>6. Sound(state') /\ state'.pending = p /\ state'.localAnalyst = state.localAnalyst
  BY <1>1, <1>5, RenderFollows, RenderKeeps DEF Follows
<1>7. StoreInv'  BY <1>1 DEF IInv, StoreInv
<1>8. Sound(state)'  BY <1>1, <1>6 DEF Sound, Held
<1>9. sent' \in 0 .. MaxSaves /\ sent' >= 1  BY <1>1, <1>2, SavesAssumption
<1>10. PendingInv'  BY <1>2, <1>4, <1>6, <1>9 DEF PendingInv
<1>11. SavingInv'
  <2>1. saving' \in Savings /\ saving'.operation = op /\ saving'.answer = NoAnswer
    BY <1>1 DEF Savings
  <2>2. refreshing'.at = "idle" \/ refreshing'.stale
    <3>1. CASE refreshing.at = "idle"  BY <1>1, <3>1
    <3>2. CASE refreshing.at # "idle"
      <4>1. refreshing \in Refreshings /\ refreshing # IdleRefresh
        BY <3>2 DEF IInv, RefreshInv, IdleRefresh
      <4>2. refreshing' = [refreshing EXCEPT !.stale = TRUE]  BY <1>1, <3>2
      <4> QED  BY <4>1, <4>2 DEF Refreshings
    <3> QED  BY <3>1, <3>2
  <2> QED  BY <1>3, <1>4, <1>6, <2>1, <2>2 DEF SavingInv, HeldAnswer, NoAnswer
<1>12. RefreshInv'
  <2>1. CASE refreshing.at = "idle"
    <3>1. refreshing' = refreshing  BY <1>1, <2>1
    <3> QED  BY <2>1, <3>1 DEF IInv, RefreshInv
  <2>2. CASE refreshing.at # "idle"
    <3>1. refreshing \in Refreshings /\ refreshing # IdleRefresh /\ HeldAnswer(refreshing.answer)
      BY <2>2 DEF IInv, RefreshInv, IdleRefresh
    <3>2. refreshing' = [refreshing EXCEPT !.stale = TRUE]  BY <1>1, <2>2
    <3>3. refreshing' \in Refreshings /\ refreshing'.answer = refreshing.answer
      BY <3>1, <3>2 DEF Refreshings
    <3> QED  BY <1>1, <3>1, <3>3 DEF RefreshInv, HeldAnswer, Held
  <2> QED  BY <2>1, <2>2
<1>13. WireInv'
  <2>1. wire \subseteq Sendings  BY DEF IInv, WireInv
  <2>2. ASSUME NEW w \in wire
        PROVE  /\ w.n \in 1 .. sent' /\ w.expected <= state.localAnalyst.generation
               /\ OnlyItem(w.operation, store[w.expected + 1], w.contents)
               /\ w.n < confirmed.n => w.expected <= confirmed.expected
    <3>1. w.n \in 1 .. sent /\ w.expected <= state.localAnalyst.generation
          /\ OnlyItem(w.operation, store[w.expected + 1], w.contents)
          /\ (w.n < confirmed.n => w.expected <= confirmed.expected)
      BY DEF IInv, WireInv
    <3> QED  BY <1>1, <1>2, <3>1
  <2>3. /\ new.n \in 1 .. sent' /\ new.expected <= state.localAnalyst.generation
        /\ OnlyItem(new.operation, store[new.expected + 1], new.contents)
        /\ new.n < confirmed.n => new.expected <= confirmed.expected
    <3>1. state.localAnalyst = store[new.expected + 1]  BY <1>1, <1>2, <1>4 DEF Sound, Held
    <3>2. ~ (new.n < confirmed.n)
      <4>1. confirmed.n = 0 \/ confirmed.n \in 1 .. sent
        BY DEF IInv, ConfirmedInv, NothingPending
      <4> QED  BY <1>1, <1>2, <1>4, <4>1
    <3>3. new.n \in 1 .. sent' /\ new.expected <= state.localAnalyst.generation
      BY <1>1, <1>2, <1>4, <1>9
    <3> QED  BY <1>4, <3>1, <3>2, <3>3
  <2>4. \A w \in wire' :
          /\ w.n \in 1 .. sent' /\ w.expected <= state.localAnalyst.generation
          /\ OnlyItem(w.operation, store[w.expected + 1], w.contents)
          /\ w.n < confirmed.n => w.expected <= confirmed.expected
    BY <1>1, <2>2, <2>3
  <2>5. wire' \subseteq Sendings  BY <1>1, <1>3, <2>1
  <2> QED  BY <1>1, <1>4, <1>6, <2>4, <2>5 DEF WireInv
<1>14. ConfirmedInv'
  <2>1. SavedIsStored => SavedIsStored'  BY <1>1 DEF SavedIsStored
  <2>2. \A k \in 1 .. sent : k \in 1 .. sent'  BY <1>1, <1>2
  <2> QED  BY <1>1, <2>1, <2>2 DEF IInv, ConfirmedInv
<1> QED  BY <1>7, <1>8, <1>9, <1>10, <1>11, <1>12, <1>13, <1>14 DEF IInv

LEMMA CreateFolderStep == ASSUME IInv, CreateFolder PROVE IInv'
<1> DEFINE old == state.localAnalyst
           d == NextId(DOMAIN old.folders)
           c == [Saved EXCEPT !.folders = With(@, d, NewFolder)]
           op == [kind |-> "createFolder", id |-> d, seen |-> NoFolder]
<1>1. d \in FolderIds /\ replaceLocalAnalyst(c, op)  BY DEF CreateFolder
<1>2. d \notin DOMAIN old.folders
  <2>1. DOMAIN old.folders \in SUBSET (1 .. MaxId)  BY PageIs, LibraryAssumption
  <2> QED  BY <2>1, NextIdIsNew
<1>3. d \in FolderIds \ {1} /\ NewFolder \in FolderLabels
  BY <1>1, <1>2, PageIs, LibraryAssumption DEF FolderLabels
<1> HIDE DEF d
<1>4. Saved \in Requests /\ Saved = Contents(old)  BY PageIs, ContentsIs DEF Saved
<1>5. FoldersOnly(Saved, c, d)  BY <1>3, <1>4, FolderWritten
<1>6. op \in FolderOperations /\ op.id = d /\ op.seen = NoFolder /\ op.kind = "createFolder"
  BY <1>1 DEF FolderOperations
<1>7. Folder(old, d) = NoFolder  BY <1>2 DEF Folder
<1>8. d \in DOMAIN c.folders
  <2>1. c.folders = With(Saved.folders, d, NewFolder)  BY <1>4, RequestIs
  <2> QED  BY <2>1 DEF With
<1> HIDE DEF c, op
<1>9. c \in Requests /\ OnlyItem(op, old, c)  BY <1>4, <1>5, <1>6, <1>7, PageIs, OnlyItemFolder
<1>10. Fits(op, c) /\ op \in Operations  BY <1>6, <1>8 DEF Fits, Operations
<1> QED  BY <1>1, <1>9, <1>10, SendStep

LEMMA CreateFileStep == ASSUME IInv, NEW body \in Bodies, CreateFile(body) PROVE IInv'
<1> DEFINE old == state.localAnalyst
           i == NextId(DOMAIN old.files)
           f == [folder |-> state.folder, body |-> body]
           c == [Saved EXCEPT !.files = With(@, i, f)]
           op == [kind |-> "createFile", id |-> i, seen |-> NoFile]
<1>1. i \in FileIds /\ replaceLocalAnalyst(c, op)  BY DEF CreateFile
<1>2. i \notin DOMAIN old.files
  <2>1. DOMAIN old.files \in SUBSET (1 .. MaxId)  BY PageIs, LibraryAssumption
  <2> QED  BY <2>1, NextIdIsNew
<1>3. f \in Inputs  BY PageIs DEF Inputs
<1> HIDE DEF i, f
<1>4. Saved \in Requests /\ Saved = Contents(old)  BY PageIs, ContentsIs DEF Saved
<1>5. FilesOnly(Saved, c, i)  BY <1>1, <1>3, <1>4, FileWritten
<1>6. op \in FileOperations /\ op.id = i /\ op.seen = NoFile /\ op.kind = "createFile"
  BY <1>1 DEF FileOperations
<1>7. File(old, i) = NoFile  BY <1>2 DEF File
<1>8. i \in DOMAIN c.files
  <2>1. c.files = With(Saved.files, i, f)  BY <1>4, RequestIs
  <2> QED  BY <2>1 DEF With
<1> HIDE DEF c, op
<1>9. c \in Requests /\ OnlyItem(op, old, c)  BY <1>4, <1>5, <1>6, <1>7, PageIs, OnlyItemFile
<1>10. Fits(op, c) /\ op \in Operations  BY <1>6, <1>8 DEF Fits, Operations
<1> QED  BY <1>1, <1>9, <1>10, SendStep

LEMMA MismatchStep == ASSUME IInv, saving.at = "idle", OwnerMismatch PROVE IInv'
<1> DEFINE u == [state EXCEPT !.needsReload = TRUE]
<1>1. Only(u)  BY DEF OwnerMismatch
<1>2. /\ u \in States /\ u.localAnalyst = state.localAnalyst /\ u.loaded = state.loaded
      /\ u.pending = state.pending /\ u.folder = state.folder /\ u.file = state.file
      /\ u.fileDraft = state.fileDraft
  BY PageIs DEF States
<1> HIDE DEF u
<1> QED  BY <1>1, <1>2, PageIs, FormStep

LEMMA SaveFolderStep == ASSUME IInv, SaveFolder PROVE IInv'
<1> DEFINE old == state.localAnalyst
           d == state.folder
           name == state.folderDraft.name
           base == state.folderDraft.base
           c == [Saved EXCEPT !.folders[d] = name]
           op == [kind |-> "saveFolder", id |-> d, seen |-> base]
<1>1. saving.at = "idle" /\ d # 1  BY DEF SaveFolder
<1>2. CASE Folder(old, d) # base  BY <1>1, <1>2, MismatchStep DEF SaveFolder
<1>3. CASE Folder(old, d) = base
  <2>1. replaceLocalAnalyst(c, op)  BY <1>3 DEF SaveFolder
  <2>2. d \in FolderIds \ {1} /\ name \in FolderLabels /\ base \in FolderLabels
    BY <1>1, PageIs DEF FolderDrafts
  <2>3. Saved \in Requests /\ Saved = Contents(old)  BY PageIs, ContentsIs DEF Saved
  <2> HIDE DEF d, name, base
  <2>4. FoldersOnly(Saved, c, d)  BY <2>2, <2>3, FolderWritten
  <2>5. op \in FolderOperations /\ op.id = d /\ op.seen = base /\ op.kind = "saveFolder"
    BY <2>2 DEF FolderOperations
  <2> HIDE DEF c, op
  <2>6. c \in Requests /\ OnlyItem(op, old, c)  BY <1>3, <2>3, <2>4, <2>5, PageIs, OnlyItemFolder
  <2>7. Fits(op, c) /\ op \in Operations  BY <2>5 DEF Fits, Operations
  <2> QED  BY <2>1, <2>6, <2>7, SendStep
<1> QED  BY <1>2, <1>3

LEMMA SaveFileStep == ASSUME IInv, SaveFile PROVE IInv'
<1> DEFINE old == state.localAnalyst
           i == state.file
           fields == state.fileDraft.fields
           base == state.fileDraft.base
           c == [Saved EXCEPT !.files[i] = fields]
           op == [kind |-> "saveFile", id |-> i, seen |-> base, folder |-> fields.folder]
           mismatch == state.fileDraft.id # i \/ File(old, i) # base
<1>1. saving.at = "idle" /\ i # None /\ state.fileDraft.dirty  BY DEF SaveFile
<1>2. CASE mismatch  BY <1>1, <1>2, MismatchStep DEF SaveFile
<1>3. CASE ~ mismatch
  <2>1. replaceLocalAnalyst(c, op) /\ File(old, i) = base  BY <1>3 DEF SaveFile
  <2>2. /\ i \in FileIds /\ i \in DOMAIN old.files /\ fields \in Inputs
        /\ base \in Files \union {NoFile}
    BY <1>1, PageIs DEF FileDrafts, Draft
  <2>3. Saved \in Requests /\ Saved = Contents(old) /\ DOMAIN Saved.files = DOMAIN old.files
    BY PageIs, ContentsIs DEF Saved
  <2> HIDE DEF i, fields, base, mismatch
  <2>4. FilesOnly(Saved, c, i)  BY <2>2, <2>3, FileWritten
  <2>5. fields.folder \in FolderIds  BY <2>2 DEF Inputs
  <2>6. op \in FileOperations /\ op.id = i /\ op.seen = base /\ op.kind = "saveFile"
        /\ op.folder = fields.folder
    BY <2>2, <2>5 DEF FileOperations
  <2>7. i \in DOMAIN c.files /\ c.files[i] = fields
    <3>1. Saved \in [folders : FolderMaps, files : InputMaps]  BY <2>3, RequestIs
    <3>2. Saved.files \in [DOMAIN Saved.files -> Inputs]  BY <3>1, InputMapIs
    <3>3. c.files = [Saved.files EXCEPT ![i] = fields]  BY <3>1
    <3> QED  BY <2>2, <2>3, <3>2, <3>3
  <2> HIDE DEF c, op
  <2>8. c \in Requests /\ OnlyItem(op, old, c)  BY <2>1, <2>3, <2>4, <2>6, PageIs, OnlyItemFile
  <2>9. Fits(op, c) /\ op \in Operations  BY <2>6, <2>7 DEF Fits, Operations
  <2> QED  BY <2>1, <2>8, <2>9, SendStep
<1> QED  BY <1>2, <1>3

LEMMA DeleteFileStep == ASSUME IInv, DeleteFile PROVE IInv'
<1> DEFINE old == state.localAnalyst
           i == state.file
           c == [Saved EXCEPT !.files = Without(@, i)]
           op == [kind |-> "deleteFile", id |-> i, seen |-> File(old, i)]
<1>1. saving.at = "idle" /\ i # None  BY DEF DeleteFile, analystMayLeaveDraft
<1>2. CASE state.deleteFile # i
  <2> DEFINE u == [state EXCEPT !.deleteFile = i]
  <2>1. Only(Render(u))  BY <1>2 DEF DeleteFile
  <2>2. /\ u \in States /\ u.localAnalyst = old /\ u.loaded = state.loaded
        /\ u.pending = state.pending /\ u.folder = state.folder /\ u.file = state.file
        /\ u.fileDraft = state.fileDraft
    BY PageIs DEF States
  <2> HIDE DEF u
  <2> QED  BY <1>1, <2>1, <2>2, PageIs, FormStep
<1>3. CASE state.deleteFile = i
  <2>1. replaceLocalAnalyst(c, op)  BY <1>3 DEF DeleteFile
  <2>2. i \in FileIds  BY <1>1, PageIs
  <2>3. Saved \in Requests /\ Saved = Contents(old)  BY PageIs, ContentsIs DEF Saved
  <2>4. File(old, i) \in Files \union {NoFile}  BY PageIs, FileIs
  <2> HIDE DEF i
  <2>5. FilesOnly(Saved, c, i)  BY <2>2, <2>3, FileRemoved
  <2>6. op \in FileOperations /\ op.id = i /\ op.seen = File(old, i) /\ op.kind = "deleteFile"
    BY <2>2, <2>4 DEF FileOperations
  <2> HIDE DEF c, op
  <2>7. c \in Requests /\ OnlyItem(op, old, c)  BY <2>3, <2>5, <2>6, PageIs, OnlyItemFile
  <2>8. Fits(op, c) /\ op \in Operations  BY <2>6 DEF Fits, Operations
  <2> QED  BY <2>1, <2>7, <2>8, SendStep
<1> QED  BY <1>2, <1>3

LEMMA DeleteFolderStep == ASSUME IInv, DeleteFolder PROVE IInv'
<1> DEFINE old == state.localAnalyst
           d == state.folder
           c == [Saved EXCEPT !.folders = Without(@, d)]
           op == [kind |-> "deleteFolder", id |-> d, seen |-> Folder(old, d)]
<1>1. saving.at = "idle" /\ d # 1  BY DEF DeleteFolder, analystMayLeaveDraft
<1>2. CASE state.deleteFolder # d
  <2> DEFINE u == [state EXCEPT !.deleteFolder = d]
  <2>1. Only(Render(u))  BY <1>2 DEF DeleteFolder
  <2>2. /\ u \in States /\ u.localAnalyst = old /\ u.loaded = state.loaded
        /\ u.pending = state.pending /\ u.folder = state.folder /\ u.file = state.file
        /\ u.fileDraft = state.fileDraft
    BY PageIs DEF States
  <2> HIDE DEF u
  <2> QED  BY <1>1, <2>1, <2>2, PageIs, FormStep
<1>3. CASE state.deleteFolder = d
  <2>1. replaceLocalAnalyst(c, op)  BY <1>3 DEF DeleteFolder
  <2>2. d \in FolderIds \ {1}  BY <1>1, PageIs
  <2>3. Saved \in Requests /\ Saved = Contents(old)  BY PageIs, ContentsIs DEF Saved
  <2>4. Folder(old, d) \in FolderLabels \union {NoFolder}  BY PageIs, FolderIs
  <2> HIDE DEF d
  <2>5. FoldersOnly(Saved, c, d)
    <3>1. Root \in FolderLabels  BY DEF FolderLabels
    <3> QED  BY <2>2, <2>3, <3>1, FolderWritten
  <2>6. op \in FolderOperations /\ op.id = d /\ op.seen = Folder(old, d) /\ op.kind = "deleteFolder"
    BY <2>2, <2>4 DEF FolderOperations
  <2> HIDE DEF c, op
  <2>7. c \in Requests /\ OnlyItem(op, old, c)  BY <2>3, <2>5, <2>6, PageIs, OnlyItemFolder
  <2>8. Fits(op, c) /\ op \in Operations  BY <2>6 DEF Fits, Operations
  <2> QED  BY <2>1, <2>7, <2>8, SendStep
<1> QED  BY <1>2, <1>3

----------------------------------------------------------------------------
(* The steps of the store and the transport *)

\* When the library goes on, what was read, sent and reported stays what it was.
LEMMA StoreStep ==
    ASSUME IInv, StoreInv', Grows, Len(store') \in Nat, wire' \subseteq wire,
           UNCHANGED <<state, sent, confirmed>>, SavingInv', RefreshInv'
    PROVE  IInv'
<1>1. StoreInv /\ Sound(state) /\ state.localAnalyst.generation \in Nat /\ Len(store) \in Nat
  BY StateIs DEF IInv, StoreInv
<1>2. Sound(state)'
  <2>1. state.loaded => Held(state.localAnalyst)'  BY <1>1, StillHeld DEF Sound
  <2> QED  BY <1>1, <2>1 DEF Sound
<1>3. state.localAnalyst.generation <= Len(store) - 1
  <2>1. CASE state.loaded  BY <1>1, <2>1, HeldIs DEF Sound
  <2>2. CASE ~ state.loaded  BY <1>1, <2>2 DEF Sound, StoreInv
  <2> QED  BY <2>1, <2>2
<1>4. PendingInv'  BY DEF IInv, PendingInv
<1>5. WireInv'
  <2> SUFFICES ASSUME NEW w \in wire
               PROVE  OnlyItem(w.operation, store'[w.expected + 1], w.contents)
    BY DEF IInv, WireInv
  <2>1. /\ w.expected <= state.localAnalyst.generation /\ w.expected \in Nat
        /\ OnlyItem(w.operation, store[w.expected + 1], w.contents)
    BY DEF IInv, WireInv, Sendings
  <2>2. w.expected + 1 \in 1 .. Len(store)  BY <1>1, <1>3, <2>1
  <2>3. store'[w.expected + 1] = store[w.expected + 1]  BY <2>2 DEF Grows
  <2> QED  BY <2>1, <2>3
<1>6. ConfirmedInv'
  <2>1. DOMAIN store = 1 .. Len(store)  BY DEF IInv, StoreInv
  <2>2. DOMAIN store' = 1 .. Len(store')  BY DEF StoreInv
  <2>3. \A g \in DOMAIN store : g \in DOMAIN store' /\ store'[g] = store[g]
    BY <1>1, <2>1, <2>2 DEF Grows
  <2>4. SavedIsStored => SavedIsStored'  BY <2>3 DEF SavedIsStored
  <2> QED  BY <2>4 DEF IInv, ConfirmedInv
<1> QED  BY <1>1, <1>2, <1>4, <1>5, <1>6 DEF IInv

\* An answer that was read is still one of the library's documents.
LEMMA StillRead ==
    ASSUME StoreInv, Grows, Len(store') \in Nat, NEW answer, HeldAnswer(answer)
    PROVE  HeldAnswer(answer)'
BY StillHeld DEF HeldAnswer

LEMMA RefreshStays ==
    ASSUME IInv, Grows, Len(store') \in Nat, refreshing' = refreshing PROVE RefreshInv'
<1>1. refreshing.at # "idle" => HeldAnswer(refreshing.answer)'
  BY StillRead DEF IInv, RefreshInv
<1> QED  BY <1>1 DEF IInv, RefreshInv, HeldAnswer

LEMMA SavingStays ==
    ASSUME IInv, Grows, Len(store') \in Nat, UNCHANGED <<state, refreshing>>,
           \/ saving' = saving
           \/ /\ saving.at # "idle" /\ saving' = [saving EXCEPT !.answer = saving'.answer]
              /\ saving'.answer \in {NoAnswer, Refusal} \union Answers /\ HeldAnswer(saving.answer)'
    PROVE  SavingInv'
<1>1. CASE saving' = saving
  <2>1. saving.at # "idle" => HeldAnswer(saving.answer)'
    BY <1>1, StillRead DEF IInv, SavingInv
  <2> QED  BY <1>1, <2>1 DEF IInv, SavingInv, HeldAnswer
<1>2. ASSUME saving.at # "idle", saving' = [saving EXCEPT !.answer = saving'.answer],
             saving'.answer \in {NoAnswer, Refusal} \union Answers, HeldAnswer(saving.answer)'
      PROVE  SavingInv'
  <2>1. saving \in Savings /\ saving # IdleSave  BY <1>2, SavingIs DEF IInv, SavingInv
  <2>2. saving \in [at : {"posting", "recovering"}, operation : Operations,
                    answer : {NoAnswer, Refusal} \union Answers]
    BY <2>1 DEF Savings
  <2>3. saving' \in Savings /\ saving'.operation = saving.operation /\ saving'.at = saving.at
    BY <1>2, <2>2 DEF Savings
  <2> QED  BY <1>2, <2>3 DEF IInv, SavingInv
<1> QED  BY <1>1, <1>2

LEMMA GrowsItself == ASSUME IInv, store' = store PROVE StoreInv' /\ Grows /\ Len(store') \in Nat
BY DEF IInv, StoreInv, Grows

LEMMA ReadCurrent ==
    ASSUME StoreInv PROVE Answer(Current) \in Answers /\ HeldAnswer(Answer(Current))
BY CurrentIs DEF Answer, Answers, HeldAnswer

LEMMA StoreHandlesStep == ASSUME IInv, NEW w \in wire, StoreHandles(w) PROVE IInv'
<1>1. /\ HasRoom(w) /\ IF Refused(w) THEN store' = store ELSE Replace(w)
      /\ wire' \subseteq wire /\ UNCHANGED <<state, refreshing, sent, confirmed>>
  BY DEF StoreHandles
<1>2. w.contents \in Requests /\ StoreInv  BY DEF IInv, WireInv, Sendings
<1>3. StoreInv' /\ Grows /\ Len(store') \in Nat
  BY <1>1, <1>2, ReplaceStep, GrowsItself
<1>4. RefreshInv'  BY <1>1, <1>3, RefreshStays
<1>5. SavingInv'
  <2>1. PICK replayed \in BOOLEAN : saving' =
          IF saving.at # "posting" \/ state.pending.n # w.n THEN saving
          ELSE [saving EXCEPT !.answer = IF Refused(w) \/ replayed THEN Refusal ELSE Answer(Current')]
    BY DEF StoreHandles, Current
  <2>2. CASE saving.at # "posting" \/ state.pending.n # w.n
    <3>1. saving' = saving  BY <2>1, <2>2
    <3> QED  BY <1>1, <1>3, <3>1, SavingStays
  <2>3. CASE saving.at = "posting" /\ ~ (state.pending.n # w.n)
    <3>1. saving' = [saving EXCEPT !.answer = Refusal] \/ saving' = [saving EXCEPT !.answer = Answer(Current)']
      BY <2>1, <2>3
    <3>2. saving \in Savings /\ saving # IdleSave  BY <2>3, SavingIs DEF IInv, SavingInv
    <3>3. saving \in [at : {"posting", "recovering"}, operation : Operations,
                      answer : {NoAnswer, Refusal} \union Answers]
      BY <3>2 DEF Savings
    <3>4. CASE saving' = [saving EXCEPT !.answer = Refusal]
      <4>1. saving'.answer = Refusal  BY <3>3, <3>4
      <4>2. HeldAnswer(saving.answer)'  BY <4>1 DEF HeldAnswer, Refusal
      <4> QED  BY <1>1, <1>3, <2>3, <3>4, <4>1, <4>2, SavingStays
    <3>5. CASE saving' = [saving EXCEPT !.answer = Answer(Current)']
      <4>1. (Answer(Current) \in Answers /\ HeldAnswer(Answer(Current)))'  BY <1>3, ReadCurrent, PTL
      <4>2. saving'.answer = Answer(Current)'  BY <3>3, <3>5
      <4>3. HeldAnswer(saving.answer)'  BY <4>1, <4>2 DEF HeldAnswer
      <4> QED  BY <1>1, <1>3, <2>3, <3>5, <4>1, <4>2, <4>3, SavingStays
    <3> QED  BY <3>1, <3>4, <3>5
  <2> QED  BY <2>2, <2>3
<1> QED  BY <1>1, <1>3, <1>4, <1>5, StoreStep

LEMMA AnswerRecoveryStep == ASSUME IInv, AnswerRecovery PROVE IInv'
<1>1. /\ saving.at = "recovering" /\ saving' = [saving EXCEPT !.answer = Answer(Current)]
      /\ UNCHANGED <<store, state, refreshing, sent, wire, confirmed>>
  BY DEF AnswerRecovery
<1>2. StoreInv' /\ Grows /\ Len(store') \in Nat  BY <1>1, GrowsItself
<1>3. Answer(Current) \in Answers /\ HeldAnswer(Answer(Current))  BY ReadCurrent DEF IInv
<1>4. SavingInv'
  <2>1. saving \in Savings /\ saving # IdleSave  BY <1>1, SavingIs DEF IInv, SavingInv
  <2>2. saving \in [at : {"posting", "recovering"}, operation : Operations,
                    answer : {NoAnswer, Refusal} \union Answers]
    BY <2>1 DEF Savings
  <2>3. saving'.answer = Answer(Current)  BY <1>1, <2>2
  <2>4. HeldAnswer(saving.answer)'  BY <1>1, <1>3, <2>3 DEF HeldAnswer, Held
  <2> QED  BY <1>1, <1>2, <1>3, <2>3, <2>4, SavingStays
<1>5. RefreshInv'  BY <1>1, <1>2, RefreshStays
<1> QED  BY <1>1, <1>2, <1>4, <1>5, StoreStep

LEMMA AnswerRefreshStep == ASSUME IInv, AnswerRefresh PROVE IInv'
<1>1. /\ refreshing.at = "loading" /\ refreshing.answer = NoAnswer
      /\ UNCHANGED <<store, state, saving, sent, wire, confirmed>>
  BY DEF AnswerRefresh
<1>2. PICK answer \in {NotModified, Answer(Current)} : refreshing' = [refreshing EXCEPT !.answer = answer]
  BY DEF AnswerRefresh
<1>3. answer \in {NoAnswer, NotModified} \union Answers /\ HeldAnswer(answer)
  <2>1. HeldAnswer(NotModified)  BY DEF HeldAnswer, NotModified
  <2> QED  BY <1>2, <2>1, ReadCurrent DEF IInv
<1>4. refreshing \in Refreshings /\ refreshing # IdleRefresh  BY <1>1 DEF IInv, RefreshInv, IdleRefresh
<1>5. refreshing \in [at : {"loading", "runner"}, stale : BOOLEAN, conditional : BOOLEAN,
                      answer : {NoAnswer, NotModified} \union Answers]
  BY <1>4 DEF Refreshings
<1>6. /\ refreshing' \in Refreshings /\ refreshing'.answer = answer
      /\ refreshing'.stale = refreshing.stale /\ refreshing'.at = refreshing.at
  BY <1>2, <1>3, <1>5 DEF Refreshings
<1>7. RefreshInv'  BY <1>1, <1>3, <1>6 DEF RefreshInv, HeldAnswer, Held
<1>8. SavingInv'  BY <1>1, <1>6, SavingKept DEF IInv, SavingInv
<1>9. Follows(state, state')  BY <1>1, FollowsItself DEF IInv
<1> QED  BY <1>1, <1>7, <1>8, <1>9, PageStep

LEMMA OtherWindowStep == ASSUME IInv, NEW c \in OtherContents, OtherWindow(c) PROVE IInv'
<1> DEFINE w == [expected |-> Current.generation, contents |-> c]
<1>1. /\ Len(store) <= MaxGeneration /\ Replace(w)
      /\ UNCHANGED <<state, saving, refreshing, sent, wire, confirmed>>
  BY DEF OtherWindow, OtherWindowSaves
<1>2. w.contents \in Requests /\ StoreInv  BY OtherRequest DEF IInv
<1>3. HasRoom(w)  BY <1>1 DEF HasRoom
<1> HIDE DEF w
<1>4. StoreInv' /\ Grows /\ Len(store') \in Nat  BY <1>1, <1>2, <1>3, ReplaceStep
<1>5. RefreshInv'  BY <1>1, <1>4, RefreshStays
<1>6. SavingInv'  BY <1>1, <1>4, SavingStays
<1> QED  BY <1>1, <1>4, <1>5, <1>6, StoreStep

----------------------------------------------------------------------------
(* The invariant *)

LEMMA InitInv == ASSUME Init PROVE IInv
<1>1. PICK document \in Found : store = <<document>>  BY DEF Init, InitStore
<1>2. document \in Documents /\ document.generation = 0 /\ WellFormed(document)
  BY FoundAssumption
<1>3. StoreInv
  <2>1. store \in Seq(Documents) /\ Len(store) = 1 /\ store[1] = document  BY <1>1, <1>2
  <2>2. \A g \in 1 .. Len(store) : g = 1  BY <2>1
  <2>3. \A g \in 1 .. Len(store) : store[g].generation = g - 1 /\ WellFormed(store[g])
    BY <1>2, <2>1, <2>2
  <2> QED  BY <2>1, <2>3 DEF StoreInv
<1> DEFINE fd == [dirty |-> FALSE, id |-> None, fields |-> FileInput(NoFile), base |-> NoFile]
           gd == [dirty |-> FALSE, id |-> 1, name |-> Root, base |-> Root]
<1>4. /\ state = [localAnalyst |-> EmptyWorkspace, loaded |-> FALSE, needsReload |-> FALSE, etag |-> FALSE,
                  folder |-> 1, file |-> None, fileDraft |-> fd, folderDraft |-> gd,
                  deleteFile |-> None, deleteFolder |-> None, pending |-> NothingPending]
      /\ saving = IdleSave /\ refreshing = IdleRefresh /\ sent = 0 /\ wire = {}
      /\ confirmed = NothingPending
  BY DEF Init
<1>5. fd \in FileDrafts /\ ~ fd.dirty  BY DEF FileDrafts, Draft
<1>6. gd \in FolderDrafts  BY LibraryAssumption DEF FolderDrafts, FolderLabels
<1> HIDE DEF fd, gd
<1>7. state \in States
  BY <1>4, <1>5, <1>6, EmptyIs, LibraryAssumption DEF States, FileDrafts, FolderDrafts
<1>8. Sound(state)  BY <1>4, <1>5, <1>7, EmptyIs DEF Sound
<1>9. PendingInv /\ ConfirmedInv  BY <1>4 DEF PendingInv, ConfirmedInv
<1>10. SavingInv /\ RefreshInv
  BY <1>4 DEF SavingInv, RefreshInv, Savings, Refreshings, IdleSave, IdleRefresh
<1>11. WireInv  BY <1>4 DEF WireInv
<1>12. sent \in 0 .. MaxSaves  BY <1>4, SavesAssumption
<1> QED  BY <1>3, <1>8, <1>9, <1>10, <1>11, <1>12 DEF IInv

LEMMA StutterStep == ASSUME IInv, UNCHANGED vars PROVE IInv'
<1>1. UNCHANGED <<store, state, saving, refreshing, sent, wire, confirmed>>  BY DEF vars
<1>2. Follows(state, state')  BY <1>1, FollowsItself DEF IInv
<1>3. SavingInv'  BY <1>1 DEF IInv, SavingInv, HeldAnswer, Held
<1>4. RefreshInv'  BY <1>1 DEF IInv, RefreshInv, HeldAnswer, Held
<1> QED  BY <1>1, <1>2, <1>3, <1>4, PageStep

LEMMA NextInv == ASSUME IInv, [Next]_vars PROVE IInv'
<1>1. CASE User
  <2>1. CASE \E fields \in UNION {Edits[i] : i \in FileIds} : EditFile(fields)  BY <2>1, EditFileStep
  <2>2. CASE \E name \in FolderNames : EditFolder(name)  BY <2>2, EditFolderStep
  <2>3. CASE \E body \in Bodies : CreateFile(body)  BY <2>3, CreateFileStep
  <2>4. CASE \E d \in FolderIds : SelectFolder(d)  BY <2>4, SelectFolderStep
  <2>5. CASE \E i \in FileIds : SelectFile(i)  BY <2>5, SelectFileStep
  <2>6. CASE DiscardFile  BY <2>6, DiscardFileStep
  <2>7. CASE DiscardFolder  BY <2>7, DiscardFolderStep
  <2>8. CASE CreateFolder  BY <2>8, CreateFolderStep
  <2>9. CASE SaveFolder  BY <2>9, SaveFolderStep
  <2>10. CASE SaveFile  BY <2>10, SaveFileStep
  <2>11. CASE DeleteFile  BY <2>11, DeleteFileStep
  <2>12. CASE DeleteFolder  BY <2>12, DeleteFolderStep
  <2>13. CASE \E force \in BOOLEAN : refreshLocalAnalyst(force)  BY <2>13, RefreshStep
  <2> QED  BY <1>1, <2>1, <2>2, <2>3, <2>4, <2>5, <2>6, <2>7, <2>8, <2>9, <2>10, <2>11, <2>12, <2>13 DEF User
<1>2. CASE Page
  BY <1>2, SavedStep, UncertainStep, RecoveredStep, RecoveryFailsStep, RefreshAnsweredStep,
     RefreshFailsStep, RunnerAnsweredStep
     DEF Page
<1>3. CASE Environment
  BY <1>3, StoreHandlesStep, AnswerRecoveryStep, AnswerRefreshStep, OtherWindowStep DEF Environment
<1>4. CASE UNCHANGED vars  BY <1>4, StutterStep
<1> QED  BY <1>1, <1>2, <1>3, <1>4 DEF Next

\* Every behaviour keeps the inductive invariant.
THEOREM InvCorrect == Spec => []IInv
BY InitInv, NextInv, PTL DEF Spec

LEMMA InvConsistent == ASSUME IInv PROVE Consistent
<1>1. \A g \in DOMAIN store : store[g] \in Documents /\ store[g].generation = g - 1
  <2>1. DOMAIN store = 1 .. Len(store)  BY DEF IInv, StoreInv
  <2> QED  BY <2>1 DEF IInv, StoreInv
<1>2. state.localAnalyst \in Documents /\ state.folder \in FolderIds /\ state.file \in FileIds \union {None}
      /\ state.fileDraft \in Draft(Inputs \union {FileInput(NoFile)}, Files \union {NoFile})
  BY PageIs DEF FileDrafts
<1>3. state.pending = NothingPending \/ state.pending.n = sent  BY DEF IInv, PendingInv
<1>4. saving.at \in {"idle", "posting", "recovering"}  BY SavingIs
<1>5. refreshing.at \in {"idle", "loading", "runner"}  BY RefreshingIs
<1>6. sent \in 0 .. MaxSaves  BY DEF IInv
<1>7. \A w \in wire : w.n \in 1 .. sent /\ w.contents \in Requests  BY DEF IInv, WireInv, Sendings
<1>8. TypeOK  BY <1>1, <1>2, <1>3, <1>4, <1>5, <1>6, <1>7 DEF TypeOK
<1>9. SavedIsStored  BY DEF IInv, ConfirmedInv, SavedIsStored
<1> QED  BY <1>8, <1>9 DEF Consistent

\* The page's state is well typed, and what it reported as saved is in the library at a
\* generation after the one it replaced (replaceLocalAnalyst, reconcileAnalystSave).
THEOREM ConsistentCorrect == Spec => []Consistent
BY InvCorrect, InvConsistent, PTL

LEMMA OnlySeenStep ==
    ASSUME IInv, NEW w \in wire, StoreHandles(w), store' # store
    PROVE  OnlyItsItem(w, Current, store'[Len(store')])
<1> DEFINE new == store'[Len(store')]
           op == w.operation
<1>1. w \in Sendings /\ StoreInv /\ OnlyItem(op, store[w.expected + 1], w.contents)
  BY DEF IInv, WireInv
<1>2. Replace(w) /\ HasRoom(w)  BY DEF StoreHandles
<1>3. StoreInv' /\ w.expected = Current.generation /\ Contents(new) = w.contents
  BY <1>1, <1>2, ReplaceStep DEF Sendings, Current
<1>4. Current = store[w.expected + 1]  BY <1>1, <1>3, CurrentIs DEF Held
<1>5. OnlyItem(op, Current, w.contents)  BY <1>1, <1>4
<1>6. new \in Documents
  <2>1. Len(store') \in 1 .. Len(store') /\ store' \in Seq(Documents)  BY <1>3 DEF StoreInv
  <2> QED  BY <2>1
<1> HIDE DEF new
<1>7. new.folders = w.contents.folders  BY <1>3, <1>6, ContentsIs
<1>8. op \in Operations  BY <1>1 DEF Sendings
<1>9. op \in FileOperations <=> op.kind \in {"createFile", "saveFile", "deleteFile"}
  BY <1>8, OperationIs
<1>10. OnlyItsItem(w, Current, new)  BY <1>3, <1>5, <1>7, <1>9 DEF OnlyItem, OnlyItsItem
<1> QED  BY <1>10 DEF new

\* A replacement sent by this window, however late or often it is delivered, changes only
\* its operation's file or folder, and only the version of it that the user saw.
THEOREM OverwritesOnlySeenCorrect == Spec => OverwritesOnlySeen
<1>1. IInv => \A w \in wire : StoreHandles(w) /\ store' # store => OnlyItsItem(w, Current, store'[Len(store')])
  BY OnlySeenStep
<1> QED  BY <1>1, InvCorrect, PTL DEF Spec, OverwritesOnlySeen

LEMMA NoLateStep ==
    ASSUME IInv, NEW w \in wire, w.n < confirmed.n, confirmed.contents # confirmed.baseContents,
           StoreHandles(w)
    PROVE  store' = store
<1>1. w.expected <= confirmed.expected /\ w.expected \in Nat /\ w.n \in 1 .. sent
  BY DEF IInv, WireInv, Sendings
<1>2. confirmed # NothingPending
  <2>1. SUFFICES ASSUME confirmed = NothingPending PROVE FALSE  OBVIOUS
  <2>2. w.n < 0 /\ w.n \in Nat  BY <1>1, <2>1 DEF NothingPending, IInv
  <2> QED  BY <2>2
<1>3. confirmed \in Pendings /\ SavedIsStored  BY <1>2 DEF IInv, ConfirmedInv
<1>4. confirmed.expected \in Nat  BY <1>3 DEF Pendings
<1>5. PICK g \in DOMAIN store : g - 1 > confirmed.expected  BY <1>2, <1>3 DEF SavedIsStored
<1>6. g \in 1 .. Len(store) /\ Len(store) \in Nat /\ Current.generation = Len(store) - 1
  BY <1>5, CurrentIs DEF IInv, StoreInv
<1>7. w.expected # Current.generation  BY <1>1, <1>4, <1>5, <1>6
<1> QED  BY <1>7 DEF StoreHandles, Refused

\* Once a later save was reported as saved, a replacement this window had given up on cannot
\* undo it.
THEOREM NoLateOverwriteCorrect == Spec => NoLateOverwrite
<1>1. IInv => \A w \in wire :
         w.n < confirmed.n /\ confirmed.contents # confirmed.baseContents /\ StoreHandles(w) => store' = store
  BY NoLateStep
<1> QED  BY <1>1, InvCorrect, PTL DEF Spec, NoLateOverwrite

----------------------------------------------------------------------------
(* Unsaved edits *)

\* A dirty form is the selected item's, made on a version of it that there was.
Kept(u) ==
    /\ u.fileDraft.dirty => u.file # None /\ u.fileDraft.id = u.file /\ u.fileDraft.base # NoFile
    /\ u.folderDraft.dirty => u.folderDraft.id = u.folder /\ u.folderDraft.base # NoFolder

\* So are the forms of a page that was rendered, dirty or not.
Shows(u) ==
    /\ u.fileDraft.dirty => u.file # None
    /\ u.file # None => u.fileDraft.id = u.file /\ u.fileDraft.base # NoFile
    /\ u.folderDraft.id = u.folder /\ u.folderDraft.base # NoFolder

\* What an operation does after its save was confirmed loses no edit: it saved the draft it
\* clears, and an operation that selects another item began with clean forms.
Saves(u, op, contents) ==
    /\ u.fileDraft.dirty \/ u.folderDraft.dirty => op.kind \in {"saveFile", "saveFolder"}
    /\ op.kind = "saveFile" /\ u.fileDraft.dirty =>
          /\ u.fileDraft.id \in DOMAIN contents.files
          /\ contents.files[u.fileDraft.id] = u.fileDraft.fields
    /\ op.kind = "saveFile" /\ u.folderDraft.dirty => op.folder = u.folder
    /\ op.kind = "saveFolder" /\ u.folderDraft.dirty =>
          /\ u.folderDraft.id \in DOMAIN contents.folders
          /\ contents.folders[u.folderDraft.id] = u.folderDraft.name

DraftInv ==
    /\ Shows(state)
    /\ saving.at # "idle" => Saves(state, saving.operation, state.pending.contents)

\* A dirty form goes on as it is, or is clean and its edit is in the library.
Passes(u, v) ==
    /\ IF u.fileDraft.dirty
       THEN \/ v.fileDraft = u.fileDraft /\ v.file = u.file
            \/ ~ v.fileDraft.dirty /\ StoredFile(u.fileDraft.id, u.fileDraft.fields)
       ELSE ~ v.fileDraft.dirty
    /\ IF u.folderDraft.dirty
       THEN \/ v.folderDraft = u.folderDraft /\ v.folder = u.folder
            \/ ~ v.folderDraft.dirty /\ StoredFolder(u.folderDraft.id, u.folderDraft.name)
       ELSE ~ v.folderDraft.dirty

LEMMA PassesKeeps == ASSUME NEW u, Kept(u), NEW v, Passes(u, v) PROVE Kept(v)
BY DEF Kept, Passes

LEMMA PassesTwice ==
    ASSUME NEW u, NEW v, Passes(u, v), NEW w, Passes(v, w) PROVE Passes(u, w)
<1>1. CASE u.fileDraft.dirty /\ u.folderDraft.dirty  BY <1>1 DEF Passes
<1>2. CASE u.fileDraft.dirty /\ ~ u.folderDraft.dirty  BY <1>2 DEF Passes
<1>3. CASE ~ u.fileDraft.dirty /\ u.folderDraft.dirty  BY <1>3 DEF Passes
<1>4. CASE ~ u.fileDraft.dirty /\ ~ u.folderDraft.dirty  BY <1>4 DEF Passes
<1> QED  BY <1>1, <1>2, <1>3, <1>4

LEMMA SameForms ==
    ASSUME NEW u, NEW v, v.fileDraft = u.fileDraft, v.folderDraft = u.folderDraft,
           v.file = u.file, v.folder = u.folder
    PROVE  Passes(u, v)
BY DEF Passes

LEMMA ShownIsKept == ASSUME NEW u, Shows(u) PROVE Kept(u)
BY DEF Shows, Kept

\* Files and folders that are there are told from those that are not.
LEMMA NoItem ==
    /\ NoFile \notin Files /\ FileInput(NoFile) \notin Inputs /\ None \notin FileIds
    /\ NoFolder \notin FolderLabels
<1>1. 0 \notin FolderIds /\ 0 \notin FileIds  BY LibraryAssumption
<1>2. NoFolder # Root  BY DEF NoFolder, Root
<1> QED  BY <1>1, <1>2, NoFolderAssumption DEF NoFile, Files, FileInput, Inputs, None, FolderLabels

LEMMA ItemsAre ==
    ASSUME NEW d \in Documents
    PROVE  /\ \A i : IF i \in DOMAIN d.files THEN File(d, i) \in Files /\ File(d, i) = d.files[i]
                     ELSE File(d, i) = NoFile
           /\ \A i : IF i \in DOMAIN d.folders THEN Folder(d, i) \in FolderLabels /\ Folder(d, i) = d.folders[i]
                     ELSE Folder(d, i) = NoFolder
<1>1. d.files \in FileMaps /\ d.folders \in FolderMaps  BY DEF Documents
<1> QED  BY <1>1, FileMapIs, FolderMapIs DEF File, Folder

LEMMA RenderPasses ==
    ASSUME NEW u, Sound(u), Kept(u)
    PROVE  Passes(u, Render(u)) /\ Shows(Render(u))
<1> DEFINE file == File(u.localAnalyst, u.file)
           folder == Folder(u.localAnalyst, u.folder)
           f == IF file = NoFile \/ (u.fileDraft.dirty /\ u.fileDraft.id = u.file) THEN u.fileDraft
                ELSE [u.fileDraft EXCEPT !.id = u.file, !.fields = FileInput(file), !.base = file]
           g == IF u.folderDraft.dirty /\ u.folderDraft.id = u.folder THEN u.folderDraft
                ELSE [u.folderDraft EXCEPT !.id = u.folder, !.name = folder, !.base = folder]
           v == [u EXCEPT !.fileDraft = f, !.folderDraft = g]
<1>1. Render(u) = v  BY DEF Render
<1>2. /\ u \in States /\ u.fileDraft \in FileDrafts /\ u.folderDraft \in FolderDrafts
      /\ u.localAnalyst \in Documents
  BY StateIs DEF Sound
<1>3. /\ u.file # None => file # NoFile
      /\ folder # NoFolder
  <2>1. u.file \in DOMAIN u.localAnalyst.files \union {None} /\ u.folder \in DOMAIN u.localAnalyst.folders
    BY DEF Sound
  <2> QED  BY <1>2, <2>1, ItemsAre, NoItem
<1> HIDE DEF file, folder
<1>4. /\ u.fileDraft.dirty => f = u.fileDraft
      /\ f.dirty = u.fileDraft.dirty
      /\ u.file # None => f.id = u.file /\ f.base # NoFile
  BY <1>2, <1>3 DEF Kept, FileDrafts, Draft
<1>5. /\ u.folderDraft.dirty => g = u.folderDraft
      /\ g.dirty = u.folderDraft.dirty
      /\ g.id = u.folder /\ g.base # NoFolder
  BY <1>2, <1>3 DEF Kept, FolderDrafts
<1> HIDE DEF f, g
<1>6. v.fileDraft = f /\ v.folderDraft = g /\ v.file = u.file /\ v.folder = u.folder
  BY <1>2 DEF States
<1> HIDE DEF v
<1>7. Passes(u, v)  BY <1>4, <1>5, <1>6 DEF Passes
<1>8. Shows(v)  BY <1>4, <1>5, <1>6 DEF Shows, Kept
<1> QED  BY <1>1, <1>7, <1>8

\* What the library holds is stored.
LEMMA HeldIsStored ==
    ASSUME StoreInv, NEW body, Held(body)
    PROVE  /\ \A i \in DOMAIN body.files : StoredFile(i, FileInput(File(body, i)))
           /\ \A d \in DOMAIN body.folders : StoredFolder(d, Folder(body, d))
<1> DEFINE g == body.generation + 1
<1>1. g \in DOMAIN store /\ body = store[g]  BY DEF StoreInv, Held
<1> HIDE DEF g
<1> QED  BY <1>1 DEF StoredFile, StoredFolder, File, Folder

\* A document that conflicts with an edit is not admitted, so an edit stays until it is stored.
LEMMA AdmittedPasses ==
    ASSUME StoreInv, NEW u, Sound(u), Kept(u), NEW body, Held(body), NEW trusted \in BOOLEAN,
           ~ Conflicts(u, body, trusted)
    PROVE  Passes(u, Admitted(u, body, trusted))
<1> DEFINE fd == u.fileDraft.dirty /\ ~ HoldsFile(u, body, trusted)
           gd == u.folderDraft.dirty /\ ~ HoldsFolder(u, body, trusted)
           f == [u.fileDraft EXCEPT !.dirty = fd]
           g == [u.folderDraft EXCEPT !.dirty = gd]
           folder == IF u.folder \in DOMAIN body.folders THEN u.folder ELSE 1
           file == IF u.file \in DOMAIN body.files THEN u.file ELSE None
           v == [u EXCEPT !.localAnalyst = body, !.loaded = TRUE, !.needsReload = FALSE, !.etag = TRUE,
                          !.fileDraft = f, !.folderDraft = g, !.folder = folder, !.file = file]
<1>1. Admitted(u, body, trusted) = v  BY DEF Admitted
<1>2. /\ u \in States /\ u.fileDraft \in FileDrafts /\ u.folderDraft \in FolderDrafts
      /\ body \in Documents
  BY StateIs, HeldIs DEF Sound
<1>3. ASSUME u.fileDraft.dirty
      PROVE  \/ f = u.fileDraft /\ file = u.file
             \/ f.dirty = FALSE /\ StoredFile(u.fileDraft.id, u.fileDraft.fields)
  <2>1. u.fileDraft.fields \in Inputs /\ u.fileDraft.id = u.file /\ u.fileDraft.base # NoFile
    BY <1>3 DEF Sound, Kept
  <2>2. CASE HoldsFile(u, body, trusted)
    <3>1. u.fileDraft.fields = FileInput(File(body, u.file))  BY <2>2 DEF HoldsFile
    <3>2. u.file \in DOMAIN body.files  BY <1>2, <2>1, <3>1, ItemsAre, NoItem
    <3>3. StoredFile(u.fileDraft.id, u.fileDraft.fields)  BY <2>1, <3>1, <3>2, HeldIsStored
    <3>4. f.dirty = FALSE  BY <1>2, <2>2 DEF FileDrafts, Draft
    <3> HIDE DEF f
    <3> QED  BY <3>3, <3>4
  <2>3. CASE ~ HoldsFile(u, body, trusted)
    <3>1. File(body, u.file) = u.fileDraft.base  BY <1>3, <2>3 DEF Conflicts
    <3>2. u.file \in DOMAIN body.files  BY <1>2, <2>1, <3>1, ItemsAre
    <3>3. fd = u.fileDraft.dirty  BY <1>2, <1>3, <2>3 DEF FileDrafts, Draft
    <3> HIDE DEF fd
    <3>4. f = u.fileDraft  BY <1>2, <3>3 DEF FileDrafts, Draft
    <3>5. file = u.file  BY <3>2
    <3> HIDE DEF f, file
    <3> QED  BY <3>4, <3>5
  <2> QED  BY <2>2, <2>3
<1>4. ~ u.fileDraft.dirty => ~ f.dirty  BY <1>2 DEF FileDrafts, Draft
<1>5. ASSUME u.folderDraft.dirty
      PROVE  \/ g = u.folderDraft /\ folder = u.folder
             \/ g.dirty = FALSE /\ StoredFolder(u.folderDraft.id, u.folderDraft.name)
  <2>1. /\ u.folderDraft.name # NoFolder /\ u.folderDraft.id = u.folder
        /\ u.folderDraft.base # NoFolder
    BY <1>2, <1>5, NoItem DEF FolderDrafts, Kept
  <2>2. CASE HoldsFolder(u, body, trusted)
    <3>1. u.folderDraft.name = Folder(body, u.folder)  BY <2>2 DEF HoldsFolder
    <3>2. u.folder \in DOMAIN body.folders  BY <1>2, <2>1, <3>1, ItemsAre
    <3>3. StoredFolder(u.folderDraft.id, u.folderDraft.name)  BY <2>1, <3>1, <3>2, HeldIsStored
    <3>4. g.dirty = FALSE  BY <1>2, <2>2 DEF FolderDrafts
    <3> HIDE DEF g
    <3> QED  BY <3>3, <3>4
  <2>3. CASE ~ HoldsFolder(u, body, trusted)
    <3>1. Folder(body, u.folder) = u.folderDraft.base  BY <1>5, <2>3 DEF Conflicts
    <3>2. u.folder \in DOMAIN body.folders  BY <1>2, <2>1, <3>1, ItemsAre
    <3>3. gd = u.folderDraft.dirty  BY <1>2, <1>5, <2>3 DEF FolderDrafts
    <3> HIDE DEF gd
    <3>4. g = u.folderDraft  BY <1>2, <3>3 DEF FolderDrafts
    <3>5. folder = u.folder  BY <3>2
    <3> HIDE DEF g, folder
    <3> QED  BY <3>4, <3>5
  <2> QED  BY <2>2, <2>3
<1>6. ~ u.folderDraft.dirty => ~ g.dirty  BY <1>2 DEF FolderDrafts
<1> HIDE DEF f, g, folder, file
<1>7. v.fileDraft = f /\ v.folderDraft = g /\ v.file = file /\ v.folder = folder
  BY <1>2 DEF States
<1> HIDE DEF v
<1>8. Passes(u, v)
  <2>1. CASE u.fileDraft.dirty /\ u.folderDraft.dirty  BY <1>3, <1>5, <1>7, <2>1 DEF Passes
  <2>2. CASE u.fileDraft.dirty /\ ~ u.folderDraft.dirty  BY <1>3, <1>6, <1>7, <2>2 DEF Passes
  <2>3. CASE ~ u.fileDraft.dirty /\ u.folderDraft.dirty  BY <1>4, <1>5, <1>7, <2>3 DEF Passes
  <2>4. CASE ~ u.fileDraft.dirty /\ ~ u.folderDraft.dirty  BY <1>4, <1>6, <1>7, <2>4 DEF Passes
  <2> QED  BY <2>1, <2>2, <2>3, <2>4
<1> QED  BY <1>1, <1>8

LEMMA AdmitPasses ==
    ASSUME StoreInv, NEW u, Sound(u), Kept(u), NEW body, Held(body), NEW trusted \in BOOLEAN
    PROVE  Passes(u, admitAnalystWorkspace(u, body, trusted))
<1>1. CASE Admits(u, body, trusted)
  BY <1>1, AdmittedPasses DEF admitAnalystWorkspace, Admits
<1>2. CASE ~ Admits(u, body, trusted)
  <2> DEFINE v == NotAdmitted(u, body)
  <2>1. admitAnalystWorkspace(u, body, trusted) = v  BY <1>2 DEF admitAnalystWorkspace
  <2>2. u \in States  BY DEF Sound
  <2>3. v.fileDraft = u.fileDraft /\ v.folderDraft = u.folderDraft /\ v.file = u.file /\ v.folder = u.folder
    BY <2>2 DEF NotAdmitted, States
  <2> HIDE DEF v
  <2> QED  BY <2>1, <2>3, SameForms
<1> QED  BY <1>1, <1>2

LEMMA ReconcilePasses ==
    ASSUME StoreInv, NEW u, Sound(u), Kept(u), NEW body, Held(body)
    PROVE  Passes(u, reconcileAnalystSave(u, body))
<1> DEFINE p == u.pending
           settled == [u EXCEPT !.pending = NothingPending]
           v == reconcileAnalystSave(u, body)
<1>1. u \in States  BY DEF Sound
<1>2. /\ settled.fileDraft = u.fileDraft /\ settled.folderDraft = u.folderDraft
      /\ settled.file = u.file /\ settled.folder = u.folder
  BY <1>1 DEF States
<1>3. Sound(settled)  BY PendingDropped
<1> HIDE DEF settled
<1>4. Passes(u, settled) /\ Kept(settled)  BY <1>2, SameForms, PassesKeeps
<1>5. CASE body.generation < p.expected
  <2>1. v = [u EXCEPT !.etag = FALSE]  BY <1>5 DEF reconcileAnalystSave
  <2>2. v.fileDraft = u.fileDraft /\ v.folderDraft = u.folderDraft /\ v.file = u.file /\ v.folder = u.folder
    BY <1>1, <2>1 DEF States
  <2> HIDE DEF v
  <2>3. Passes(u, v)  BY <2>2, SameForms
  <2> QED  BY <2>3 DEF v
<1>6. CASE ~ body.generation < p.expected /\ (Verifies(p, body) \/ Original(p, body))
  <2>1. PICK trusted \in BOOLEAN : v = admitAnalystWorkspace(settled, body, trusted)
    BY <1>6 DEF reconcileAnalystSave, settled
  <2> HIDE DEF v
  <2>2. Passes(settled, v)  BY <1>3, <1>4, <2>1, AdmitPasses
  <2>3. Passes(u, v)  BY <1>4, <2>2, PassesTwice
  <2> QED  BY <2>3 DEF v
<1>7. CASE ~ body.generation < p.expected /\ ~ Verifies(p, body) /\ ~ Original(p, body)
  <2>1. v = [settled EXCEPT !.needsReload = TRUE, !.etag = FALSE]
    BY <1>7 DEF reconcileAnalystSave, settled
  <2>2. settled \in States  BY <1>3 DEF Sound
  <2>3. /\ v.fileDraft = settled.fileDraft /\ v.folderDraft = settled.folderDraft
        /\ v.file = settled.file /\ v.folder = settled.folder
    BY <2>1, <2>2 DEF States
  <2> HIDE DEF v
  <2>4. Passes(u, v)  BY <1>2, <2>3, SameForms
  <2> QED  BY <2>4 DEF v
<1> QED  BY <1>5, <1>6, <1>7

LEMMA SavesPasses ==
    ASSUME NEW u, NEW v, Passes(u, v), NEW op, NEW contents, Saves(u, op, contents)
    PROVE  Saves(v, op, contents)
BY DEF Passes, Saves

\* What an operation clears after its save was confirmed is stored.
LEMMA SettledPasses ==
    ASSUME StoreInv, NEW body, Held(body), NEW u, Sound(u), NEW op \in Operations,
           Saves(u, op, Contents(body))
    PROVE  Passes(u, Settled(u, op))
<1> DEFINE v == Settled(u, op)
           clean == [u.fileDraft EXCEPT !.dirty = FALSE]
           cleanFolder == [u.folderDraft EXCEPT !.dirty = FALSE]
<1>1. u \in States /\ u.fileDraft \in FileDrafts /\ u.folderDraft \in FolderDrafts /\ body \in Documents
  BY StateIs, HeldIs DEF Sound
<1>2. clean.dirty = FALSE /\ cleanFolder.dirty = FALSE
  BY <1>1 DEF FileDrafts, FolderDrafts, Draft
<1>3. /\ \A i \in DOMAIN Contents(body).files : StoredFile(i, Contents(body).files[i])
      /\ \A d \in DOMAIN Contents(body).folders : StoredFolder(d, Contents(body).folders[d])
  BY <1>1, ContentsIs, ItemsAre, HeldIsStored
<1>4. CASE op.kind \in {"createFolder", "createFile", "deleteFile", "deleteFolder"}
  <2>1. ~ u.fileDraft.dirty /\ ~ u.folderDraft.dirty  BY <1>4 DEF Saves
  <2>2. ~ v.fileDraft.dirty /\ ~ v.folderDraft.dirty
    <3>1. /\ v.fileDraft = u.fileDraft \/ v.fileDraft = clean
          /\ v.folderDraft = u.folderDraft \/ v.folderDraft = cleanFolder
      <4>1. CASE op.kind = "createFolder"
        BY <1>1, <4>1 DEF Settled, States
      <4>2. CASE op.kind = "createFile"
        <5>1. v = [u EXCEPT !.file = op.id, !.fileDraft = clean]  BY <4>2 DEF Settled
        <5> HIDE DEF clean
        <5> QED  BY <1>1, <5>1 DEF States
      <4>3. CASE op.kind = "deleteFile"
        <5>1. v = [u EXCEPT !.file = None, !.deleteFile = None, !.fileDraft = clean]
          BY <4>3 DEF Settled
        <5> HIDE DEF clean
        <5> QED  BY <1>1, <5>1 DEF States
      <4>4. CASE op.kind = "deleteFolder"
        <5>1. v = [u EXCEPT !.folder = 1, !.deleteFolder = None, !.folderDraft = cleanFolder]
          BY <4>4 DEF Settled
        <5> HIDE DEF cleanFolder
        <5> QED  BY <1>1, <5>1 DEF States
      <4> QED  BY <1>4, <4>1, <4>2, <4>3, <4>4
    <3> HIDE DEF v, clean, cleanFolder
    <3> QED  BY <1>2, <2>1, <3>1
  <2> HIDE DEF v
  <2>3. Passes(u, v)  BY <2>1, <2>2 DEF Passes
  <2> QED  BY <2>3 DEF v
<1>5. CASE op.kind = "saveFolder"
  <2>1. v = [u EXCEPT !.folderDraft = cleanFolder]  BY <1>5 DEF Settled
  <2> HIDE DEF cleanFolder
  <2>2. v.fileDraft = u.fileDraft /\ v.file = u.file /\ v.folderDraft = cleanFolder
    BY <1>1, <2>1 DEF States
  <2>3. u.folderDraft.dirty => StoredFolder(u.folderDraft.id, u.folderDraft.name)
    BY <1>3, <1>5 DEF Saves
  <2> HIDE DEF v
  <2>4. Passes(u, v)  BY <1>2, <2>2, <2>3 DEF Passes
  <2> QED  BY <2>4 DEF v
<1>6. CASE op.kind = "saveFile"
  <2>1. v = [u EXCEPT !.folder = op.folder, !.fileDraft = clean]  BY <1>6 DEF Settled
  <2> HIDE DEF clean
  <2>2. v.folderDraft = u.folderDraft /\ v.folder = op.folder /\ v.fileDraft = clean
    BY <1>1, <2>1 DEF States
  <2>3. /\ u.fileDraft.dirty => StoredFile(u.fileDraft.id, u.fileDraft.fields)
        /\ u.folderDraft.dirty => op.folder = u.folder
    BY <1>3, <1>6 DEF Saves
  <2> HIDE DEF v
  <2>4. Passes(u, v)  BY <1>2, <2>2, <2>3 DEF Passes
  <2> QED  BY <2>4 DEF v
<1> QED  BY <1>4, <1>5, <1>6, OperationIs

----------------------------------------------------------------------------
(* The steps, and the edits they keep *)

\* An edit goes only when its user drops it, changes it, or the library holds it.
FileGoes ==
    state.fileDraft.dirty /\ state'.fileDraft # state.fileDraft =>
        \/ DiscardFile
        \/ StoredFile(state.fileDraft.id, state.fileDraft.fields)
        \/ \E fields \in UNION {Edits[i] : i \in FileIds} : EditFile(fields)
FolderGoes ==
    state.folderDraft.dirty /\ state'.folderDraft # state.folderDraft =>
        \/ DiscardFolder
        \/ StoredFolder(state.folderDraft.id, state.folderDraft.name)
        \/ \E name \in FolderNames : EditFolder(name)
DraftStep == DraftInv' /\ FileGoes /\ FolderGoes

LEMMA PassStep ==
    ASSUME Shows(state'), Passes(state, state'),
           saving'.at # "idle" => Saves(state', saving'.operation, state'.pending.contents)
    PROVE  DraftStep
<1>1. DraftInv'  BY DEF DraftInv, Shows, Saves
<1>2. FileGoes  BY DEF FileGoes, Passes
<1>3. FolderGoes  BY DEF FolderGoes, Passes
<1> QED  BY <1>1, <1>2, <1>3 DEF DraftStep

LEMMA FormsStay ==
    ASSUME DraftInv, state'.fileDraft = state.fileDraft, state'.folderDraft = state.folderDraft,
           state'.file = state.file, state'.folder = state.folder, state'.pending = state.pending,
           saving'.at = "idle" \/ (saving.at # "idle" /\ saving'.operation = saving.operation)
    PROVE  DraftStep
<1>1. Shows(state')  BY DEF DraftInv, Shows
<1>2. Passes(state, state')  BY SameForms
<1>3. saving'.at # "idle" => Saves(state', saving'.operation, state'.pending.contents)
  BY <1>2, SavesPasses DEF DraftInv
<1> QED  BY <1>1, <1>2, <1>3, PassStep

LEMMA RenderStep ==
    ASSUME DraftInv, NEW u, Sound(u), Passes(state, u), state' = Render(u),
           saving'.at # "idle" => Saves(u, saving'.operation, u.pending.contents)
    PROVE  DraftStep
<1>1. Kept(u)  BY ShownIsKept, PassesKeeps DEF DraftInv
<1>2. Passes(u, state') /\ Shows(state')  BY <1>1, RenderPasses
<1>3. Passes(state, state')  BY <1>2, PassesTwice
<1>4. state'.pending = u.pending  BY RenderKeeps
<1>5. saving'.at # "idle" => Saves(state', saving'.operation, state'.pending.contents)
  BY <1>2, <1>4, SavesPasses
<1> QED  BY <1>2, <1>3, <1>5, PassStep

\* No save begins with a step of the page, and none loses an edit by what it admitted.
LEMMA AwaitedStep ==
    ASSUME DraftInv, NEW u, Sound(u), Passes(state, u), state' = Render(u),
           saving'.at = "idle" \/ (saving' = saving /\ u.pending = state.pending)
    PROVE  DraftStep
<1>1. saving'.at # "idle" => Saves(u, saving'.operation, u.pending.contents)
  BY SavesPasses DEF DraftInv
<1> QED  BY <1>1, RenderStep

LEMMA Forms == ASSUME IInv, DraftInv PROVE Sound(state) /\ Kept(state) /\ StoreInv /\ Passes(state, state)
BY ShownIsKept, SameForms DEF IInv, DraftInv

LEMMA SavedKeeps == ASSUME IInv, DraftInv, SaveAcknowledged PROVE DraftStep
<1> DEFINE body == saving.answer.body
           op == saving.operation
           p == state.pending
           u == [state EXCEPT !.pending = NothingPending]
           v == admitAnalystWorkspace(u, body, TRUE)
<1>1. saving.at = "posting" /\ Acknowledged /\ saving' = IdleSave  BY DEF SaveAcknowledged
<1>2. op \in Operations /\ Held(body) /\ Contents(body) = p.contents
  BY <1>1, SavingIs DEF Acknowledged
<1>3. Fits(op, p.contents)  BY <1>1 DEF IInv, SavingInv
<1>4. Sound(u) /\ Passes(state, u) /\ Kept(u)
  <2>1. Sound(u)  BY Forms, PendingDropped
  <2>2. /\ u.fileDraft = state.fileDraft /\ u.folderDraft = state.folderDraft
        /\ u.file = state.file /\ u.folder = state.folder
    BY Forms DEF Sound, States
  <2> HIDE DEF u
  <2>3. Passes(state, u)  BY <2>2, SameForms
  <2> QED  BY <2>1, <2>3, Forms, PassesKeeps
<1> HIDE DEF u
<1>5. /\ Sound(v) /\ Passes(u, v)
      /\ Admits(u, body, TRUE) => v.localAnalyst = body /\ v.loaded
  <2> HIDE DEF body
  <2> QED  BY <1>2, <1>4, Forms, AdmitFollows, AdmitPasses DEF Follows
<1>6. Passes(state, v)
  <2> HIDE DEF v
  <2> QED  BY <1>4, <1>5, PassesTwice
<1>7. saving'.at = "idle"  BY <1>1 DEF IdleSave
<1>8. CASE Admits(u, body, TRUE)
  <2> DEFINE w == Settled(v, op)
  <2>1. state' = Render(w)  BY <1>8 DEF SaveAcknowledged, u
  <2>2. Saves(state, op, Contents(body))  BY <1>1, <1>2 DEF DraftInv
  <2> HIDE DEF v, body, op, p
  <2>3. Saves(v, op, Contents(body))  BY <1>6, <2>2, SavesPasses
  <2>4. Passes(v, w)  BY <1>2, <1>5, <2>3, Forms, SettledPasses
  <2>5. Sound(w)  BY <1>2, <1>3, <1>5, <1>8, SettledFollows DEF Follows
  <2> HIDE DEF w
  <2>6. Passes(state, w)  BY <1>6, <2>4, PassesTwice
  <2> QED  BY <1>7, <2>1, <2>5, <2>6, AwaitedStep
<1>9. CASE ~ Admits(u, body, TRUE)
  <2>1. state' = Render(v)  BY <1>9 DEF SaveAcknowledged, u
  <2> HIDE DEF v
  <2> QED  BY <1>5, <1>6, <1>7, <2>1, AwaitedStep
<1> QED  BY <1>8, <1>9

LEMMA UncertainKeeps == ASSUME IInv, DraftInv, SaveUncertain PROVE DraftStep
<1>1. /\ saving.at = "posting" /\ state' = [state EXCEPT !.etag = FALSE]
      /\ saving' = [saving EXCEPT !.at = "recovering", !.answer = NoAnswer]
  BY DEF SaveUncertain
<1>2. saving'.operation = saving.operation
  <2>1. saving \in Savings /\ saving # IdleSave  BY <1>1, SavingIs DEF IInv, SavingInv
  <2>2. saving \in [at : {"posting", "recovering"}, operation : Operations,
                    answer : {NoAnswer, Refusal} \union Answers]
    BY <2>1 DEF Savings
  <2> QED  BY <1>1, <2>2
<1>3. /\ state'.fileDraft = state.fileDraft /\ state'.folderDraft = state.folderDraft
      /\ state'.file = state.file /\ state'.folder = state.folder /\ state'.pending = state.pending
  BY <1>1, PageIs DEF States
<1> QED  BY <1>1, <1>2, <1>3, FormsStay

LEMMA RecoveredKeeps == ASSUME IInv, DraftInv, SaveRecovered PROVE DraftStep
<1> DEFINE body == saving.answer.body
           op == saving.operation
           v == reconcileAnalystSave(state, body)
<1>1. saving.at = "recovering" /\ saving.answer.kind = "document" /\ saving' = IdleSave
  BY DEF SaveRecovered
<1>2. op \in Operations /\ Held(body)  BY <1>1, SavingIs
<1>3. state.pending # NothingPending /\ Fits(op, state.pending.contents)
  BY <1>1 DEF IInv, SavingInv
<1>4. Sound(v) /\ Passes(state, v)
  <2> HIDE DEF body
  <2> QED  BY <1>2, Forms, ReconcileFollows, ReconcilePasses DEF Follows
<1>5. saving'.at = "idle"  BY <1>1 DEF IdleSave
<1>6. CASE ReportsSaved(state, body)
  <2> DEFINE w == Settled(v, op)
  <2>1. state' = Render(w)  BY <1>6 DEF SaveRecovered
  <2>2. ~ body.generation < state.pending.expected /\ Contents(body) = state.pending.contents
    BY <1>2, <1>3, <1>6, ReportedIs
  <2>3. v.localAnalyst = body /\ v.loaded  BY <1>2, <1>6, <2>2, Forms, ReconcileFollows
  <2>4. Saves(state, op, Contents(body))  BY <1>1, <2>2 DEF DraftInv
  <2> HIDE DEF v, body, op
  <2>5. Saves(v, op, Contents(body))  BY <1>4, <2>4, SavesPasses
  <2>6. Passes(v, w)  BY <1>2, <1>4, <2>5, Forms, SettledPasses
  <2>7. Sound(w)  BY <1>2, <1>3, <1>4, <2>2, <2>3, SettledFollows DEF Follows
  <2> HIDE DEF w
  <2>8. Passes(state, w)  BY <1>4, <2>6, PassesTwice
  <2> QED  BY <1>5, <2>1, <2>7, <2>8, AwaitedStep
<1>7. CASE ~ ReportsSaved(state, body)
  <2>1. state' = Render(v)  BY <1>7 DEF SaveRecovered
  <2> HIDE DEF v
  <2> QED  BY <1>4, <1>5, <2>1, AwaitedStep
<1> QED  BY <1>6, <1>7

LEMMA RecoveryFailsKeeps == ASSUME IInv, DraftInv, RecoveryFails PROVE DraftStep
<1>1. state' = Render(state) /\ saving'.at = "idle"  BY DEF RecoveryFails, IdleSave
<1> QED  BY <1>1, Forms, AwaitedStep

LEMMA RefreshAnsweredKeeps == ASSUME IInv, DraftInv, RefreshAnswered PROVE DraftStep
<1> DEFINE body == refreshing.answer.body
<1>1. refreshing.at = "loading" /\ refreshing.answer # NoAnswer /\ saving' = saving
  BY DEF RefreshAnswered
<1>2. CASE refreshing.stale \/ refreshing.answer = NotModified
  <2>1. state' = Render(state)  BY <1>2 DEF RefreshAnswered
  <2> QED  BY <1>1, <2>1, Forms, AwaitedStep
<1>3. CASE ~ (refreshing.stale \/ refreshing.answer = NotModified)
  <2>1. saving'.at = "idle"  BY <1>1, <1>3, RefreshingIs
  <2>2. Held(body)
    <3>1. refreshing.answer \in Answers /\ HeldAnswer(refreshing.answer)  BY <1>1, <1>3, RefreshingIs
    <3> QED  BY <3>1 DEF Answers, HeldAnswer
  <2>3. PICK v : state' = Render(v) /\ Sound(v) /\ Passes(state, v)
    <3>1. CASE state.pending # NothingPending
      <4>1. state' = Render(reconcileAnalystSave(state, body))  BY <1>3, <3>1 DEF RefreshAnswered
      <4> HIDE DEF body
      <4> QED  BY <2>2, <4>1, Forms, ReconcileFollows, ReconcilePasses DEF Follows
    <3>2. CASE state.pending = NothingPending
      <4>1. state' = Render(admitAnalystWorkspace(state, body, FALSE))
        BY <1>3, <3>2 DEF RefreshAnswered
      <4> HIDE DEF body
      <4> QED  BY <2>2, <4>1, Forms, AdmitFollows, AdmitPasses DEF Follows
    <3> QED  BY <3>1, <3>2
  <2> QED  BY <2>1, <2>3, AwaitedStep
<1> QED  BY <1>2, <1>3

LEMMA RefreshFailsKeeps == ASSUME IInv, DraftInv, RefreshFails PROVE DraftStep
<1> DEFINE u == IF refreshing.stale THEN state ELSE [state EXCEPT !.etag = FALSE]
<1>1. saving' = saving /\ state' = Render(u)  BY DEF RefreshFails
<1>2. /\ u \in States /\ u.localAnalyst = state.localAnalyst /\ u.loaded = state.loaded
      /\ u.folder = state.folder /\ u.file = state.file /\ u.fileDraft = state.fileDraft
      /\ u.folderDraft = state.folderDraft /\ u.pending = state.pending
  BY PageIs DEF States
<1> HIDE DEF u
<1>3. Sound(u)  BY <1>2, PageIs, FlagsChange DEF Follows
<1>4. Passes(state, u)  BY <1>2, SameForms
<1> QED  BY <1>1, <1>2, <1>3, <1>4, AwaitedStep

LEMMA RunnerAnsweredKeeps == ASSUME IInv, DraftInv, RunnerAnswered PROVE DraftStep
<1>1. state' = Render(state) /\ saving' = saving  BY DEF RunnerAnswered
<1> QED  BY <1>1, Forms, AwaitedStep

LEMMA EditFileKeeps ==
    ASSUME IInv, DraftInv, NEW fields \in UNION {Edits[i] : i \in FileIds}, EditFile(fields)
    PROVE  DraftStep
<1> DEFINE f == [state.fileDraft EXCEPT !.dirty = TRUE, !.fields = fields]
           u == [state EXCEPT !.fileDraft = f, !.deleteFile = None]
<1>1. saving.at = "idle" /\ state.file # None /\ state' = u /\ saving' = saving  BY DEF EditFile, Only
<1>2. f.id = state.fileDraft.id /\ f.base = state.fileDraft.base  BY PageIs DEF FileDrafts, Draft
<1> HIDE DEF f
<1>3. u.fileDraft = f /\ u.folderDraft = state.folderDraft /\ u.file = state.file /\ u.folder = state.folder
  BY PageIs DEF States
<1> HIDE DEF u
<1>4. DraftInv'  BY <1>1, <1>2, <1>3 DEF DraftInv, Shows
<1>5. FileGoes  BY DEF FileGoes
<1>6. FolderGoes  BY <1>1, <1>3 DEF FolderGoes
<1> QED  BY <1>4, <1>5, <1>6 DEF DraftStep

LEMMA EditFolderKeeps ==
    ASSUME IInv, DraftInv, NEW name \in FolderNames, EditFolder(name) PROVE DraftStep
<1> DEFINE g == [state.folderDraft EXCEPT !.dirty = TRUE, !.name = name]
           u == [state EXCEPT !.folderDraft = g, !.deleteFolder = None]
<1>1. saving.at = "idle" /\ state' = u /\ saving' = saving  BY DEF EditFolder, Only
<1>2. g.id = state.folderDraft.id /\ g.base = state.folderDraft.base  BY PageIs DEF FolderDrafts
<1> HIDE DEF g
<1>3. u.folderDraft = g /\ u.fileDraft = state.fileDraft /\ u.file = state.file /\ u.folder = state.folder
  BY PageIs DEF States
<1> HIDE DEF u
<1>4. DraftInv'  BY <1>1, <1>2, <1>3 DEF DraftInv, Shows
<1>5. FileGoes  BY <1>1, <1>3 DEF FileGoes
<1>6. FolderGoes  BY DEF FolderGoes
<1> QED  BY <1>4, <1>5, <1>6 DEF DraftStep

LEMMA DiscardFileKeeps == ASSUME IInv, DraftInv, DiscardFile PROVE DraftStep
<1> DEFINE f == [state.fileDraft EXCEPT !.dirty = FALSE]
           u == [state EXCEPT !.fileDraft = f, !.deleteFile = None, !.deleteFolder = None]
<1>1. saving.at = "idle" /\ state' = Render(u) /\ saving' = saving  BY DEF DiscardFile, Only
<1>2. f \in FileDrafts /\ ~ f.dirty  BY PageIs DEF FileDrafts, Draft
<1> HIDE DEF f
<1>3. /\ u \in States /\ u.localAnalyst = state.localAnalyst /\ u.loaded = state.loaded
      /\ u.folder = state.folder /\ u.file = state.file /\ u.fileDraft = f
      /\ u.folderDraft = state.folderDraft
  BY <1>2, PageIs DEF States, FileDrafts
<1> HIDE DEF u
<1>4. Sound(u) /\ Kept(u)  BY <1>2, <1>3, PageIs, SameDocument, Forms DEF Kept
<1>5. Passes(u, state') /\ Shows(state')  BY <1>1, <1>4, RenderPasses
<1>6. DraftInv'  BY <1>1, <1>5 DEF DraftInv, Shows
<1>7. FileGoes  BY DEF FileGoes
<1>8. FolderGoes  BY <1>3, <1>5 DEF FolderGoes, Passes
<1> QED  BY <1>6, <1>7, <1>8 DEF DraftStep

LEMMA DiscardFolderKeeps == ASSUME IInv, DraftInv, DiscardFolder PROVE DraftStep
<1> DEFINE g == [state.folderDraft EXCEPT !.dirty = FALSE]
           u == [state EXCEPT !.folderDraft = g, !.deleteFile = None, !.deleteFolder = None]
<1>1. saving.at = "idle" /\ state' = Render(u) /\ saving' = saving  BY DEF DiscardFolder, Only
<1>2. g \in FolderDrafts /\ ~ g.dirty  BY PageIs DEF FolderDrafts
<1> HIDE DEF g
<1>3. /\ u \in States /\ u.localAnalyst = state.localAnalyst /\ u.loaded = state.loaded
      /\ u.folder = state.folder /\ u.file = state.file /\ u.fileDraft = state.fileDraft
      /\ u.folderDraft = g
  BY <1>2, PageIs DEF States, FolderDrafts
<1> HIDE DEF u
<1>4. Sound(u) /\ Kept(u)  BY <1>2, <1>3, PageIs, SameDocument, Forms DEF Kept
<1>5. Passes(u, state') /\ Shows(state')  BY <1>1, <1>4, RenderPasses
<1>6. DraftInv'  BY <1>1, <1>5 DEF DraftInv, Shows
<1>7. FileGoes  BY <1>3, <1>5 DEF FileGoes, Passes
<1>8. FolderGoes  BY DEF FolderGoes
<1> QED  BY <1>6, <1>7, <1>8 DEF DraftStep

\* With clean forms the page may select another item and send any operation.
LEMMA CleanPasses ==
    ASSUME NEW u, analystMayLeaveDraft, u.fileDraft = state.fileDraft, u.folderDraft = state.folderDraft
    PROVE  Passes(state, u)
BY DEF analystMayLeaveDraft, Passes

LEMMA CleanSaves == ASSUME analystMayLeaveDraft, NEW op, NEW contents PROVE Saves(state, op, contents)
BY DEF analystMayLeaveDraft, Saves

LEMMA SelectFolderKeeps == ASSUME IInv, DraftInv, NEW d \in FolderIds, SelectFolder(d) PROVE DraftStep
<1> DEFINE u == [state EXCEPT !.folder = d, !.file = None, !.deleteFolder = None]
<1>1. analystMayLeaveDraft /\ d \in DOMAIN state.localAnalyst.folders /\ state' = Render(u) /\ saving' = saving
  BY DEF SelectFolder, Only
<1>2. /\ u \in States /\ u.localAnalyst = state.localAnalyst /\ u.loaded = state.loaded
      /\ u.folder = d /\ u.file = None /\ u.fileDraft = state.fileDraft
      /\ u.folderDraft = state.folderDraft /\ u.pending = state.pending
  BY PageIs DEF States
<1> HIDE DEF u
<1>3. Sound(u) /\ Passes(state, u)  BY <1>1, <1>2, PageIs, SameDocument, CleanPasses
<1> QED  BY <1>1, <1>2, <1>3, AwaitedStep

LEMMA SelectFileKeeps == ASSUME IInv, DraftInv, NEW i \in FileIds, SelectFile(i) PROVE DraftStep
<1> DEFINE d == state.localAnalyst.files[i].folder
           u == [state EXCEPT !.file = i, !.folder = d, !.deleteFile = None]
<1>1. analystMayLeaveDraft /\ i \in DOMAIN state.localAnalyst.files /\ state' = Render(u) /\ saving' = saving
  BY DEF SelectFile, Only
<1>2. d \in DOMAIN state.localAnalyst.folders /\ d \in FolderIds  BY <1>1, PageIs DEF WellFormed
<1> HIDE DEF d
<1>3. /\ u \in States /\ u.localAnalyst = state.localAnalyst /\ u.loaded = state.loaded
      /\ u.folder = d /\ u.file = i /\ u.fileDraft = state.fileDraft
      /\ u.folderDraft = state.folderDraft /\ u.pending = state.pending
  BY <1>2, PageIs DEF States
<1> HIDE DEF u
<1>4. Sound(u) /\ Passes(state, u)  BY <1>1, <1>2, <1>3, PageIs, SameDocument, CleanPasses
<1> QED  BY <1>1, <1>3, <1>4, AwaitedStep

LEMMA SendKeeps ==
    ASSUME IInv, IInv', DraftInv, NEW contents, NEW op, replaceLocalAnalyst(contents, op),
           Saves(state, op, contents)
    PROVE  DraftStep
<1> DEFINE p == [n |-> sent + 1, expected |-> state.localAnalyst.generation, contents |-> contents,
                 baseContents |-> Contents(state.localAnalyst)]
           u == [state EXCEPT !.pending = p]
           new == [n |-> p.n, expected |-> p.expected, contents |-> contents, operation |-> op]
<1>1. /\ state' = Render(u) /\ saving' = [at |-> "posting", operation |-> op, answer |-> NoAnswer]
      /\ new \in wire'
  BY DEF replaceLocalAnalyst
<1>2. contents \in Requests
  <2>1. new \in Sendings  BY <1>1 DEF IInv, WireInv
  <2> QED  BY <2>1 DEF Sendings
<1>3. p \in Pendings /\ p.contents = contents
  <2>1. state.localAnalyst.generation \in Nat /\ sent + 1 \in Nat  BY PageIs, StateIs DEF IInv
  <2>2. Contents(state.localAnalyst) \in Requests  BY PageIs, ContentsIs
  <2> QED  BY <1>2, <2>1, <2>2 DEF Pendings
<1> HIDE DEF p, new
<1>4. /\ u \in States /\ u.localAnalyst = state.localAnalyst /\ u.loaded = state.loaded
      /\ u.folder = state.folder /\ u.file = state.file /\ u.fileDraft = state.fileDraft
      /\ u.folderDraft = state.folderDraft /\ u.pending = p
  BY <1>3, PageIs DEF States
<1> HIDE DEF u
<1>5. Sound(u) /\ Passes(state, u)  BY <1>4, PageIs, SameDocument, SameForms
<1>6. Saves(u, saving'.operation, u.pending.contents)
  <2>1. Saves(u, op, contents)  BY <1>5, SavesPasses
  <2> QED  BY <1>1, <1>3, <1>4, <2>1
<1> QED  BY <1>1, <1>5, <1>6, RenderStep

LEMMA MismatchKeeps == ASSUME IInv, DraftInv, saving.at = "idle", OwnerMismatch PROVE DraftStep
<1>1. state' = [state EXCEPT !.needsReload = TRUE] /\ saving' = saving  BY DEF OwnerMismatch, Only
<1>2. /\ state'.fileDraft = state.fileDraft /\ state'.folderDraft = state.folderDraft
      /\ state'.file = state.file /\ state'.folder = state.folder /\ state'.pending = state.pending
  BY <1>1, PageIs DEF States
<1> QED  BY <1>1, <1>2, FormsStay

LEMMA SaveFolderKeeps == ASSUME IInv, IInv', DraftInv, SaveFolder PROVE DraftStep
<1> DEFINE d == state.folder
           name == state.folderDraft.name
           base == state.folderDraft.base
           c == [Saved EXCEPT !.folders[d] = name]
           op == [kind |-> "saveFolder", id |-> d, seen |-> base]
<1>1. CASE Folder(state.localAnalyst, d) # base  BY <1>1, MismatchKeeps DEF SaveFolder
<1>2. CASE Folder(state.localAnalyst, d) = base
  <2>1. replaceLocalAnalyst(c, op)  BY <1>2 DEF SaveFolder
  <2>2. state.folderDraft.id = d  BY DEF DraftInv, Shows
  <2>3. d \in DOMAIN c.folders /\ c.folders[d] = name
    <3>1. Saved \in Requests /\ Saved.folders = state.localAnalyst.folders
      BY PageIs, ContentsIs DEF Saved
    <3>2. Saved \in [folders : FolderMaps, files : InputMaps]  BY <3>1, RequestIs
    <3>3. c.folders = [Saved.folders EXCEPT ![d] = name]  BY <3>2
    <3>4. d \in DOMAIN Saved.folders  BY <3>1, PageIs
    <3> QED  BY <3>3, <3>4
  <2>4. Saves(state, op, c)
    <3> HIDE DEF c
    <3> QED  BY <2>2, <2>3 DEF Saves
  <2> QED  BY <2>1, <2>4, SendKeeps
<1> QED  BY <1>1, <1>2

LEMMA SaveFileKeeps == ASSUME IInv, IInv', DraftInv, SaveFile PROVE DraftStep
<1> DEFINE i == state.file
           fields == state.fileDraft.fields
           base == state.fileDraft.base
           c == [Saved EXCEPT !.files[i] = fields]
           op == [kind |-> "saveFile", id |-> i, seen |-> base, folder |-> fields.folder]
           mismatch == state.fileDraft.id # i \/ File(state.localAnalyst, i) # base
<1>1. CASE mismatch  BY <1>1, MismatchKeeps DEF SaveFile
<1>2. CASE ~ mismatch
  <2>1. /\ replaceLocalAnalyst(c, op) /\ i # None
        /\ state.folderDraft.dirty => fields.folder = state.folder
    BY <1>2 DEF SaveFile
  <2>2. i \in DOMAIN c.files /\ c.files[i] = fields
    <3>1. Saved \in Requests /\ DOMAIN Saved.files = DOMAIN state.localAnalyst.files
      BY PageIs, ContentsIs DEF Saved
    <3>2. Saved \in [folders : FolderMaps, files : InputMaps]  BY <3>1, RequestIs
    <3>3. c.files = [Saved.files EXCEPT ![i] = fields]  BY <3>2
    <3>4. i \in DOMAIN Saved.files  BY <2>1, <3>1, PageIs
    <3> QED  BY <3>3, <3>4
  <2>3. Saves(state, op, c)
    <3> HIDE DEF c
    <3> QED  BY <1>2, <2>1, <2>2 DEF Saves
  <2> QED  BY <2>1, <2>3, SendKeeps
<1> QED  BY <1>1, <1>2

\* Asking whether to delete renders the page again.
LEMMA AskKeeps ==
    ASSUME IInv, DraftInv, NEW u, Only(Render(u)),
           u = [state EXCEPT !.deleteFile = state.file] \/ u = [state EXCEPT !.deleteFolder = state.folder]
    PROVE  DraftStep
<1>1. state' = Render(u) /\ saving' = saving  BY DEF Only
<1>2. /\ u \in States /\ u.localAnalyst = state.localAnalyst /\ u.loaded = state.loaded
      /\ u.folder = state.folder /\ u.file = state.file /\ u.fileDraft = state.fileDraft
      /\ u.folderDraft = state.folderDraft /\ u.pending = state.pending
  BY PageIs DEF States
<1>3. Sound(u) /\ Passes(state, u)  BY <1>2, PageIs, SameDocument, SameForms
<1> QED  BY <1>1, <1>2, <1>3, AwaitedStep

LEMMA CreateKeeps ==
    ASSUME IInv, IInv', DraftInv, CreateFolder \/ \E body \in Bodies : CreateFile(body)
    PROVE  DraftStep
<1>1. analystMayLeaveDraft /\ \E c, op : replaceLocalAnalyst(c, op)  BY DEF CreateFolder, CreateFile
<1> QED  BY <1>1, CleanSaves, SendKeeps

LEMMA DeleteKeeps == ASSUME IInv, IInv', DraftInv, DeleteFile \/ DeleteFolder PROVE DraftStep
<1>1. analystMayLeaveDraft
      /\ \/ Only(Render([state EXCEPT !.deleteFile = state.file]))
         \/ Only(Render([state EXCEPT !.deleteFolder = state.folder]))
         \/ \E c, op : replaceLocalAnalyst(c, op)
  BY DEF DeleteFile, DeleteFolder
<1> QED  BY <1>1, CleanSaves, SendKeeps, AskKeeps

LEMMA StoreHandlesKeeps == ASSUME IInv, DraftInv, NEW w \in wire, StoreHandles(w) PROVE DraftStep
<1>1. state' = state  BY DEF StoreHandles
<1>2. saving' = saving \/ (saving.at # "idle" /\ \E answer : saving' = [saving EXCEPT !.answer = answer])
  BY DEF StoreHandles
<1>3. saving'.at = "idle" \/ (saving.at # "idle" /\ saving'.operation = saving.operation)
  <2>1. CASE saving' = saving  BY <2>1
  <2>2. ASSUME saving.at # "idle", NEW answer, saving' = [saving EXCEPT !.answer = answer]
        PROVE  saving'.operation = saving.operation
    <3>1. saving \in Savings /\ saving # IdleSave  BY <2>2, SavingIs DEF IInv, SavingInv
    <3>2. saving \in [at : {"posting", "recovering"}, operation : Operations,
                      answer : {NoAnswer, Refusal} \union Answers]
      BY <3>1 DEF Savings
    <3> QED  BY <2>2, <3>2
  <2> QED  BY <1>2, <2>1, <2>2
<1> QED  BY <1>1, <1>3, FormsStay

LEMMA AnswerRecoveryKeeps == ASSUME IInv, DraftInv, AnswerRecovery PROVE DraftStep
<1>1. /\ saving.at = "recovering" /\ saving' = [saving EXCEPT !.answer = Answer(Current)]
      /\ state' = state
  BY DEF AnswerRecovery
<1>2. saving \in Savings /\ saving # IdleSave  BY <1>1, SavingIs DEF IInv, SavingInv
<1>3. saving \in [at : {"posting", "recovering"}, operation : Operations,
                  answer : {NoAnswer, Refusal} \union Answers]
  BY <1>2 DEF Savings
<1>4. saving'.operation = saving.operation  BY <1>1, <1>3
<1> QED  BY <1>1, <1>4, FormsStay

LEMMA UnchangedKeeps == ASSUME DraftInv, UNCHANGED <<state, saving>> PROVE DraftStep
BY FormsStay

LEMMA InitDrafts == ASSUME Init PROVE DraftInv
<1>1. /\ state.file = None /\ state.folder = 1 /\ saving.at = "idle"
      /\ ~ state.fileDraft.dirty /\ state.folderDraft.id = 1 /\ state.folderDraft.base = Root
  BY DEF Init, IdleSave
<1>2. Root # NoFolder  BY DEF Root, NoFolder
<1> QED  BY <1>1, <1>2 DEF DraftInv, Shows

LEMMA NextKeeps == ASSUME IInv, DraftInv, [Next]_vars PROVE DraftStep
<1>1. IInv'  BY NextInv
<1>2. CASE User
  <2>1. CASE \E fields \in UNION {Edits[i] : i \in FileIds} : EditFile(fields)  BY <2>1, EditFileKeeps
  <2>2. CASE \E name \in FolderNames : EditFolder(name)  BY <2>2, EditFolderKeeps
  <2>3. CASE CreateFolder \/ \E body \in Bodies : CreateFile(body)  BY <1>1, <2>3, CreateKeeps
  <2>4. CASE \E d \in FolderIds : SelectFolder(d)  BY <2>4, SelectFolderKeeps
  <2>5. CASE \E i \in FileIds : SelectFile(i)  BY <2>5, SelectFileKeeps
  <2>6. CASE DiscardFile  BY <2>6, DiscardFileKeeps
  <2>7. CASE DiscardFolder  BY <2>7, DiscardFolderKeeps
  <2>8. CASE SaveFolder  BY <1>1, <2>8, SaveFolderKeeps
  <2>9. CASE SaveFile  BY <1>1, <2>9, SaveFileKeeps
  <2>10. CASE DeleteFile \/ DeleteFolder  BY <1>1, <2>10, DeleteKeeps
  <2>11. CASE \E force \in BOOLEAN : refreshLocalAnalyst(force)
    BY <2>11, UnchangedKeeps DEF refreshLocalAnalyst
  <2> QED  BY <1>2, <2>1, <2>2, <2>3, <2>4, <2>5, <2>6, <2>7, <2>8, <2>9, <2>10, <2>11 DEF User
<1>3. CASE Page
  BY <1>3, SavedKeeps, UncertainKeeps, RecoveredKeeps, RecoveryFailsKeeps, RefreshAnsweredKeeps,
     RefreshFailsKeeps, RunnerAnsweredKeeps
     DEF Page
<1>4. CASE Environment
  <2>1. CASE \E w \in wire : StoreHandles(w)  BY <2>1, StoreHandlesKeeps
  <2>2. CASE AnswerRecovery  BY <2>2, AnswerRecoveryKeeps
  <2>3. CASE AnswerRefresh  BY <2>3, UnchangedKeeps DEF AnswerRefresh
  <2>4. CASE \E contents \in OtherContents : OtherWindow(contents)
    BY <2>4, UnchangedKeeps DEF OtherWindow
  <2> QED  BY <1>4, <2>1, <2>2, <2>3, <2>4 DEF Environment
<1>5. CASE UNCHANGED vars  BY <1>5, UnchangedKeeps DEF vars
<1> QED  BY <1>2, <1>3, <1>4, <1>5 DEF Next

\* The page's forms are the selected items', and a save that is awaited holds the draft it
\* will clear, so every behaviour keeps this too.
THEOREM DraftInvCorrect == Spec => []DraftInv
<1>1. IInv /\ DraftInv /\ [Next]_vars => DraftInv'  BY NextKeeps DEF DraftStep
<1> QED  BY <1>1, InitDrafts, InvCorrect, PTL DEF Spec

\* No refresh, late answer, other window's write, recovery or save of another item loses an
\* unsaved edit: a dirty form changes only by its user, or when some version of the library
\* holds what it held (admitAnalystWorkspace, reconcileAnalystSave, replaceLocalAnalyst).
THEOREM DraftKeptCorrect == Spec => DraftKept
<1>1. IInv /\ DraftInv /\ [Next]_vars => FileGoes /\ FolderGoes  BY NextKeeps DEF DraftStep
<1> QED  BY <1>1, InvCorrect, DraftInvCorrect, PTL DEF Spec, DraftKept, FileGoes, FolderGoes

----------------------------------------------------------------------------
(* The notebook and the names, two more clients of the library.            *)

\* The types of the two clients' stores, of the page and of the editor.
ShownNames == Names \union {Unnamed}
NotesAnswers == {NoAnswer, Refusal} \union [kind : {"document"}, body : Documents]
NotebookRequests ==
    [client : {"notebook"}, n : Nat, file : FileIds, seen : Files \union {NoFile},
     expected : Nat, contents : Requests]
NamesRequests ==
    [client : {"names"}, n : Nat, name : ShownNames, base : ShownNames, expected : Nat,
     contents : Requests]
NotebookLoadings == [at : {"loading"}, answer : NotesAnswers]
NotebookSavings == [at : {"saving"}, answer : NotesAnswers, request : NotebookRequests]
NotebookOps == {Idle} \union NotebookLoadings \union NotebookSavings
NamesReadings == [at : {"reading"}, answer : NotesAnswers, owned : BOOLEAN, name : ShownNames, base : ShownNames]
NamesPostings == [at : {"posting"}, answer : NotesAnswers, owned : BOOLEAN, request : NamesRequests]
NamesOps == {Idle} \union NotebookLoadings \union NamesReadings \union NamesPostings
Drafts == [id : 1 .. MaxPins, ref : Versions, note : Notes]
Verifyings == {NotVerifying} \union [kind : {"add", "save", "open"}, token : Versions \union {Gone}]
Pages ==
    [file : FileIds \union {None}, base : Files \union {NoFile}, doc : Notebooks \union {NoBody},
     selected : 0 .. MaxPins, draft : Drafts \union {NoDraft}, dirty : BOOLEAN, stale : BOOLEAN,
     verifying : Verifyings, armed : {"none", "pin", "book"}]
Notebook_ == [library : Documents \union {NoLibrary}, uncertain : BOOLEAN, op : NotebookOps, sent : 0 .. MaxSends]
Naming_ == [library : Documents \union {NoLibrary}, op : NamesOps, sent : 0 .. MaxSends]
Editors == {NoEditor} \union [open : {TRUE}, base : ShownNames, input : ShownNames]

Known(library) == Loaded(library) => Held(library)

\* The page shows the notebook of the library it has, and a draft is of one of its pins or a new one.
ShowsNotebook(p, library) ==
    /\ p.base = IF Loaded(library) THEN File(library, p.file) ELSE NoFile
    /\ p.doc = readNotebook(p.base)
    /\ p.draft # NoDraft => p.doc # NoBody /\ (p.draft.id \in DOMAIN p.doc.pins \/ p.draft.id = p.doc.next)
    /\ p.dirty => p.draft # NoDraft

\* Evidence is verified for a new pin while nothing else is under way.
VerifiesAlone(p, op) ==
    /\ p.verifying.kind # "none" => op.at = "idle"
    /\ p.verifying.kind = "add" =>
          ~ p.dirty /\ p.doc # NoBody /\ p.doc.next <= MaxPins /\ p.verifying.token # Gone
    /\ p.verifying.kind = "save" => p.dirty

\* What was written holds the unsaved pin or note, which no reload is under way to replace.
Holds(contents, i, draft) ==
    /\ i \in DOMAIN contents.files /\ contents.files[i].body \in Notebooks
    /\ draft.id \in DOMAIN contents.files[i].body.pins
    /\ contents.files[i].body.pins[draft.id] = [ref |-> draft.ref, note |-> draft.note]
DraftGoes(p, op) ==
    p.dirty => /\ op.at # "loading"
               /\ op.at = "saving" => Holds(op.request.contents, op.request.file, p.draft)

NotebookInv ==
    /\ notebook \in Notebook_ /\ Known(notebook.library)
    /\ notebook.op.at # "idle" => HeldAnswer(notebook.op.answer)
    /\ page \in Pages /\ ShowsNotebook(page, notebook.library)
    /\ VerifiesAlone(page, notebook.op) /\ DraftGoes(page, notebook.op)
    /\ evidence \in Versions \union {Gone}

\* A document that was read is not older than the one the names are taken from.
NamingInv ==
    /\ naming \in Naming_ /\ Known(naming.library) /\ editor \in Editors
    /\ naming.op.at \in {"reading", "posting"} => (naming.op.owned => editor.open)
    /\ naming.op.at # "idle" => HeldAnswer(naming.op.answer)
    /\ naming.op.at \in {"loading", "reading"} /\ naming.op.answer.kind = "document" /\ Loaded(naming.library) =>
          naming.op.answer.body.generation >= naming.library.generation
    /\ naming.op.at = "posting" =>
          Loaded(naming.library) /\ naming.op.request.expected = naming.library.generation

\* A request changes of the document it was made on what its user saw there.
FlightInv ==
    /\ requests \subseteq NotebookRequests \union NamesRequests
    /\ \A w \in requests : w.expected + 1 \in 1 .. Len(store) /\ SeenIn(w, store[w.expected + 1])

NotesInv == StoreInv /\ NotebookInv /\ NamingInv /\ FlightInv /\ client \in {"notebook", "names"}

\* What one step does: it keeps the invariant and takes the three action properties one step.
NamesStep ==
    Loaded(naming.library) =>
        Loaded(naming'.library) /\ naming'.library.generation >= naming.library.generation
PinsStep ==
    notebook'.sent # notebook.sent => \A pin \in NewPins(notebook'.op.request) : pin.ref = evidence
UnsavedStep ==
    page.dirty /\ page'.draft # page.draft =>
        Discard \/ (\E note \in Notes : EditNote(note)) \/ Stored(page.draft)
NotesStep == NotesInv' /\ NamesStep /\ PinsStep /\ UnsavedStep

\* What the notebook assumes of the bodies of files.
LEMMA BodiesAre ==
    /\ MaxPins \in Nat /\ MaxSends \in Nat /\ Notes # {} /\ Gone \notin Versions
    /\ Notebooks \subseteq Bodies /\ \A name \in ShownNames : NamesBody(name) \in Bodies
    /\ \A body \in Notebooks : body.pins # Broken
    /\ \A body \in Bodies :
          /\ body.kind = "notebook" => body \in Notebooks \/ body.pins = Broken
          /\ body.kind = "names" => \E name \in Names \union {Unnamed, Broken} : body = NamesBody(name)
BY BodiesAssumption DEF ShownNames

LEMMA PinMapIs ==
    ASSUME NEW next, NEW pins
    PROVE  pins \in PinMaps(next) <=>
              \E D \in SUBSET ((1 .. MaxPins) \cap (1 .. next - 1)) : pins \in [D -> Pinned]
BY DEF PinMaps

\* A notebook's pins have identifiers below the next one.
LEMMA NotebookIs ==
    ASSUME NEW doc
    PROVE  doc \in Notebooks <=>
              \E next \in 1 .. MaxPins + 1 : \E pins \in PinMaps(next) : doc = NotebookBody(next, pins)
BY DEF Notebooks

LEMMA NotebookHas ==
    ASSUME NEW doc \in Notebooks
    PROVE  /\ doc = NotebookBody(doc.next, doc.pins) /\ doc.kind = "notebook" /\ doc.pins # Broken
           /\ doc.next \in 1 .. MaxPins + 1 /\ doc.next \in Nat /\ doc \in Bodies
           /\ DOMAIN doc.pins \subseteq 1 .. MaxPins /\ \A id \in DOMAIN doc.pins : id < doc.next
           /\ doc.pins \in [DOMAIN doc.pins -> Pinned] /\ doc # NoBody
<1>0. PICK next \in 1 .. MaxPins + 1 : \E pins \in PinMaps(next) : doc = NotebookBody(next, pins)
  BY NotebookIs
<1>1. PICK pins \in PinMaps(next) : doc = NotebookBody(next, pins)  BY <1>0
<1>2. doc = [kind |-> "notebook", next |-> next, pins |-> pins]  BY <1>1 DEF NotebookBody
<1>3. doc.next = next /\ doc.pins = pins /\ doc.kind = "notebook"  BY <1>2
<1>4. PICK D \in SUBSET ((1 .. MaxPins) \cap (1 .. next - 1)) : pins \in [D -> Pinned]
  BY <1>1, PinMapIs
<1>5. DOMAIN pins = D  BY <1>4
<1>6. \A id \in D : id \in 1 .. MaxPins /\ id < next  BY <1>4, BodiesAre
<1>7. doc \in Bodies /\ doc.pins # Broken /\ MaxPins \in Nat  BY BodiesAre
<1>8. doc # NoBody  BY <1>3 DEF NoBody
<1>9. next \in Nat  BY <1>1, <1>7
<1> QED  BY <1>1, <1>3, <1>4, <1>5, <1>6, <1>7, <1>8, <1>9

\* A map of pins below the next identifier makes a notebook.
LEMMA NotebookMade ==
    ASSUME NEW next \in 1 .. MaxPins + 1, NEW D \in SUBSET (1 .. MaxPins),
           \A id \in D : id < next, NEW pins \in [D -> Pinned]
    PROVE  NotebookBody(next, pins) \in Notebooks
<1>1. D \in SUBSET ((1 .. MaxPins) \cap (1 .. next - 1))  BY BodiesAre
<1>2. pins \in PinMaps(next)  BY <1>1, PinMapIs
<1> QED  BY <1>2, NotebookIs

LEMMA EmptyNotebookIs ==
    EmptyNotebook \in Notebooks /\ DOMAIN EmptyNotebook.pins = {}
<1>1. << >> \in [{} -> Pinned] /\ DOMAIN << >> = {}  OBVIOUS
<1>2. 1 \in 1 .. MaxPins + 1 /\ {} \in SUBSET (1 .. MaxPins) /\ \A id \in {} : id < 1  BY BodiesAre
<1>3. NotebookBody(1, << >>) \in Notebooks  BY <1>1, <1>2, NotebookMade
<1> QED  BY <1>1, <1>3 DEF EmptyNotebook, NotebookBody

\* The pin that is written: a new one takes the next identifier.
LEMMA WithPinIs ==
    ASSUME NEW doc \in Notebooks, NEW draft \in Drafts,
           draft.id \in DOMAIN doc.pins \/ draft.id = doc.next
    PROVE  LET new == WithPin(doc, draft) IN
           /\ new \in Notebooks /\ DOMAIN new.pins = DOMAIN doc.pins \union {draft.id}
           /\ new.pins[draft.id] = [ref |-> draft.ref, note |-> draft.note]
<1> DEFINE pin == [ref |-> draft.ref, note |-> draft.note]
           pins == [j \in DOMAIN doc.pins \union {draft.id} |-> IF j = draft.id THEN pin ELSE doc.pins[j]]
           next == IF draft.id \in DOMAIN doc.pins THEN doc.next ELSE doc.next + 1
           D == DOMAIN doc.pins \union {draft.id}
<1>1. WithPin(doc, draft) = NotebookBody(next, pins)  BY DEF WithPin, With
<1>2. draft.id \in 1 .. MaxPins /\ pin \in Pinned  BY DEF Drafts, Pinned
<1>3. /\ doc.next \in 1 .. MaxPins + 1 /\ DOMAIN doc.pins \subseteq 1 .. MaxPins
      /\ \A id \in DOMAIN doc.pins : id < doc.next
      /\ doc.pins \in [DOMAIN doc.pins -> Pinned] /\ MaxPins \in Nat
  BY NotebookHas, BodiesAre
<1>4. next \in 1 .. MaxPins + 1 /\ D \in SUBSET (1 .. MaxPins) /\ \A id \in D : id < next
  <2>1. CASE draft.id \in DOMAIN doc.pins  BY <1>3, <2>1
  <2>2. CASE draft.id \notin DOMAIN doc.pins
    <3>1. draft.id = doc.next /\ next = doc.next + 1  BY <2>2
    <3>2. \A id \in D : id \in Nat /\ id <= doc.next  BY <1>3, <3>1
    <3> HIDE DEF D, next
    <3>3. next \in 1 .. MaxPins + 1 /\ \A id \in D : id < next  BY <1>2, <1>3, <3>1, <3>2
    <3>4. D \in SUBSET (1 .. MaxPins)  BY <1>2, <1>3 DEF D
    <3> QED  BY <3>3, <3>4
  <2> QED  BY <2>1, <2>2
<1>5. pins \in [D -> Pinned] /\ DOMAIN pins = D /\ pins[draft.id] = pin  BY <1>2, <1>3
<1> HIDE DEF pins, next, D, pin
<1>6. NotebookBody(next, pins) \in Notebooks  BY <1>4, <1>5, NotebookMade
<1>7. NotebookBody(next, pins).pins = pins  BY DEF NotebookBody
<1> QED  BY <1>1, <1>5, <1>6, <1>7 DEF pin, D

LEMMA WithoutPinIs ==
    ASSUME NEW doc \in Notebooks, NEW id
    PROVE  LET new == [doc EXCEPT !.pins = Without(doc.pins, id)] IN
           new \in Notebooks /\ DOMAIN new.pins \subseteq DOMAIN doc.pins
<1> DEFINE D == DOMAIN doc.pins \ {id}
           pins == [j \in D |-> doc.pins[j]]
<1>1. /\ doc = NotebookBody(doc.next, doc.pins)
      /\ doc.next \in 1 .. MaxPins + 1 /\ DOMAIN doc.pins \subseteq 1 .. MaxPins
      /\ \A i \in DOMAIN doc.pins : i < doc.next
      /\ doc.pins \in [DOMAIN doc.pins -> Pinned]
  BY NotebookHas
<1>2. pins \in [D -> Pinned] /\ DOMAIN pins = D /\ D \in SUBSET (1 .. MaxPins) /\ \A i \in D : i < doc.next
  BY <1>1
<1>3. [doc EXCEPT !.pins = Without(doc.pins, id)] = NotebookBody(doc.next, pins)
  BY <1>1 DEF NotebookBody, Without
<1> HIDE DEF pins
<1>4. NotebookBody(doc.next, pins) \in Notebooks /\ NotebookBody(doc.next, pins).pins = pins
  BY <1>1, <1>2, NotebookMade DEF NotebookBody
<1> QED  BY <1>2, <1>3, <1>4

\* What a file holds, if it is a notebook that validates.
LEMMA ReadIs ==
    ASSUME NEW file \in Files \union {NoFile}
    PROVE  LET doc == readNotebook(file) IN
           /\ doc \in Notebooks \union {NoBody}
           /\ doc # NoBody => doc \in Notebooks /\ file.body = doc /\ file # NoFile
<1>1. CASE file.body.kind = "notebook" /\ file.body.pins # Broken
  <2>1. file # NoFile  BY <1>1 DEF NoFile, NoBody
  <2>2. file.body \in Bodies  BY <2>1 DEF Files
  <2>3. file.body \in Notebooks  BY <1>1, <2>2, BodiesAre
  <2> QED  BY <1>1, <2>1, <2>3 DEF readNotebook
<1>2. CASE ~ (file.body.kind = "notebook" /\ file.body.pins # Broken)  BY <1>2 DEF readNotebook
<1> QED  BY <1>1, <1>2

LEMMA ReadBack ==
    ASSUME NEW file, file.body \in Notebooks
    PROVE  readNotebook(file) = file.body
BY NotebookHas DEF readNotebook

LEMMA NotesFileIs ==
    ASSUME NEW d \in Documents, NEW i
    PROVE  /\ File(d, i) \in Files \union {NoFile}
           /\ File(d, i) # NoFile => i \in DOMAIN d.files /\ i \in FileIds /\ File(d, i) = d.files[i]
BY FileMapIs DEF File, Documents

----------------------------------------------------------------------------
(* The notebook's page *)

LEMMA PageHas ==
    ASSUME NEW p \in Pages
    PROVE  /\ p.file \in FileIds \union {None} /\ p.base \in Files \union {NoFile}
           /\ p.doc \in Notebooks \union {NoBody} /\ p.selected \in 0 .. MaxPins
           /\ p.draft \in Drafts \union {NoDraft} /\ p.dirty \in BOOLEAN /\ p.stale \in BOOLEAN
           /\ p.verifying \in Verifyings /\ p.armed \in {"none", "pin", "book"}
BY DEF Pages

LEMMA ChangeIs ==
    ASSUME NEW p \in Pages
    PROVE  LET q == Change(p) IN
           /\ q \in Pages /\ q.file = p.file /\ q.base = p.base /\ q.doc = p.doc /\ q.selected = p.selected
           /\ q.draft = p.draft /\ q.dirty = p.dirty /\ q.stale = p.stale
           /\ q.verifying = NotVerifying /\ q.armed = "none"
<1>1. NotVerifying \in Verifyings  BY DEF Verifyings
<1> QED  BY <1>1 DEF Change, Pages

\* A page that verifies nothing agrees with any operation.
LEMMA NotVerifyingIs == NotVerifying.kind = "none" /\ NoDraft.id = None /\ Idle.at = "idle"
BY DEF NotVerifying, NoDraft, Idle

LEMMA SamePage ==
    ASSUME NEW p, NEW q, NEW library, ShowsNotebook(p, library),
           q.file = p.file, q.base = p.base, q.doc = p.doc, q.draft = p.draft, q.dirty = p.dirty
    PROVE  ShowsNotebook(q, library)
BY DEF ShowsNotebook

\* A page whose draft was left behind, on a file of a library.
LEMMA AdoptIs ==
    ASSUME NEW p \in Pages, NEW library \in Documents, Loaded(library),
           NEW i \in FileIds \union {None}
    PROVE  LET q == Adopt(p, library, i) IN
           /\ q \in Pages /\ ShowsNotebook(q, library) /\ ~ q.dirty /\ q.draft = NoDraft
           /\ q.verifying = NotVerifying /\ q.file = i /\ q.base = File(library, i)
           /\ q.doc = readNotebook(q.base)
<1> DEFINE c == Change(p)
           base == File(library, i)
           doc == readNotebook(base)
           q == [c EXCEPT !.file = i, !.base = base, !.doc = doc, !.selected = None, !.draft = NoDraft,
                          !.dirty = FALSE, !.stale = FALSE]
<1>1. c \in Pages /\ c.verifying = NotVerifying  BY ChangeIs
<1>2. base \in Files \union {NoFile}  BY NotesFileIs
<1>3. doc \in Notebooks \union {NoBody}  BY <1>2, ReadIs
<1>4. None \in 0 .. MaxPins  BY BodiesAre DEF None
<1>5. Adopt(p, library, i) = q  BY DEF Adopt
<1> HIDE DEF c, base, doc
<1>6. q \in Pages  BY <1>1, <1>2, <1>3, <1>4 DEF Pages
<1>7. /\ q.file = i /\ q.base = base /\ q.doc = doc /\ q.draft = NoDraft /\ ~ q.dirty
      /\ q.verifying = NotVerifying
  BY <1>1 DEF Pages
<1> HIDE DEF q
<1>8. ShowsNotebook(q, library)  BY <1>7 DEF ShowsNotebook, base, doc
<1> QED  BY <1>5, <1>6, <1>7, <1>8 DEF base, doc

LEMMA PinsHas ==
    ASSUME NEW doc \in Notebooks \union {NoBody}, NEW id \in DOMAIN Pins(doc)
    PROVE  /\ doc # NoBody /\ doc \in Notebooks /\ Pins(doc) = doc.pins
           /\ id \in 1 .. MaxPins /\ id < doc.next /\ doc.pins[id] \in Pinned
<1>1. doc # NoBody
  <2>1. DOMAIN << >> = {}  OBVIOUS
  <2> QED  BY <2>1 DEF Pins
<1>2. doc \in Notebooks /\ Pins(doc) = doc.pins  BY <1>1 DEF Pins
<1>3. DOMAIN doc.pins \subseteq 1 .. MaxPins /\ doc.pins \in [DOMAIN doc.pins -> Pinned]
      /\ \A j \in DOMAIN doc.pins : j < doc.next
  BY <1>2, NotebookHas
<1> QED  BY <1>1, <1>2, <1>3

\* A pin of the notebook, or none, becomes the draft.
LEMMA ChoosePinIs ==
    ASSUME NEW p \in Pages, NEW library, ShowsNotebook(p, library), NEW id \in 0 .. MaxPins
    PROVE  LET q == ChoosePin(p, id) IN
           /\ q \in Pages /\ q.file = p.file /\ q.base = p.base /\ q.doc = p.doc
           /\ q.verifying = NotVerifying /\ q.dirty = p.dirty
           /\ q.draft # NoDraft => p.doc # NoBody /\ q.draft.id \in DOMAIN p.doc.pins
           /\ ~ p.dirty => ShowsNotebook(q, library)
<1> DEFINE c == Change(p)
           pins == Pins(p.doc)
           draft == IF id \in DOMAIN pins THEN [id |-> id, ref |-> pins[id].ref, note |-> pins[id].note]
                    ELSE NoDraft
           q == [c EXCEPT !.selected = id, !.draft = draft]
<1>1. c \in Pages /\ c.file = p.file /\ c.base = p.base /\ c.doc = p.doc /\ c.dirty = p.dirty
      /\ c.verifying = NotVerifying
  BY ChangeIs
<1>2. draft \in Drafts \union {NoDraft} /\ (draft # NoDraft => p.doc # NoBody /\ draft.id \in DOMAIN p.doc.pins)
  <2>1. p.doc \in Notebooks \union {NoBody}  BY PageHas
  <2>2. CASE id \in DOMAIN pins
    <3>1. /\ p.doc # NoBody /\ pins = p.doc.pins /\ id \in 1 .. MaxPins /\ pins[id] \in Pinned
      BY <2>1, <2>2, PinsHas
    <3>2. draft \in Drafts /\ draft.id = id  BY <2>2, <3>1 DEF Drafts, Pinned
    <3> QED  BY <2>2, <3>1, <3>2
  <2>3. CASE id \notin DOMAIN pins  BY <2>3
  <2> QED  BY <2>2, <2>3
<1>3. ChoosePin(p, id) = q  BY DEF ChoosePin
<1> HIDE DEF c, draft
<1>4. q \in Pages  BY <1>1, <1>2 DEF Pages
<1>5. /\ q.file = p.file /\ q.base = p.base /\ q.doc = p.doc /\ q.draft = draft /\ q.dirty = p.dirty
      /\ q.verifying = NotVerifying
  BY <1>1 DEF Pages
<1> HIDE DEF q
<1>6. ~ p.dirty => ShowsNotebook(q, library)  BY <1>2, <1>5 DEF ShowsNotebook
<1> QED  BY <1>2, <1>3, <1>4, <1>5, <1>6

----------------------------------------------------------------------------
(* What one client's step leaves alone *)

LEMMA SameStore ==
    ASSUME StoreInv, store' = store
    PROVE  StoreInv' /\ \A d : Held(d) => Held(d)'
BY DEF StoreInv, Held, WellFormed

LEMMA NamesStay ==
    ASSUME NamingInv, UNCHANGED <<naming, editor>>, \A d : Held(d) => Held(d)'
    PROVE  NamingInv' /\ NamesStep
<1>1. NamingInv'  BY DEF NamingInv, Known, HeldAnswer
<1>2. NamesStep
  <2>1. Loaded(naming.library) => naming.library.generation \in Nat
    <3>1. Loaded(naming.library) => naming.library \in Documents
      BY DEF NamingInv, Naming_, Loaded
    <3> QED  BY <3>1 DEF Documents
  <2> QED  BY <2>1 DEF NamesStep
<1> QED  BY <1>1, <1>2

LEMMA NotebookStays ==
    ASSUME NotebookInv, UNCHANGED <<notebook, page>>, \A d : Held(d) => Held(d)',
           evidence' \in Versions \union {Gone}
    PROVE  NotebookInv' /\ PinsStep /\ UnsavedStep
<1>1. NotebookInv'  BY DEF NotebookInv, Known, HeldAnswer, ShowsNotebook, VerifiesAlone, DraftGoes
<1> QED  BY <1>1 DEF PinsStep, UnsavedStep

LEMMA FlightStays ==
    ASSUME FlightInv, requests' \subseteq requests,
           store' = store \/ (Grows /\ Len(store') \in Nat /\ StoreInv)
    PROVE  FlightInv'
<1>1. CASE store' = store  BY <1>1 DEF FlightInv
<1>2. CASE Grows /\ Len(store') \in Nat /\ StoreInv
  <2>1. ASSUME NEW w \in requests
        PROVE  w.expected + 1 \in 1 .. Len(store') /\ store'[w.expected + 1] = store[w.expected + 1]
    <3>1. w.expected + 1 \in 1 .. Len(store) /\ Len(store) \in Nat  BY <1>2 DEF FlightInv, StoreInv
    <3> QED  BY <1>2, <3>1 DEF Grows
  <2> QED  BY <2>1 DEF FlightInv
<1> QED  BY <1>1, <1>2

\* What a page may become while its client's store and the library stay.
PageGoes(q) ==
    /\ q \in Pages /\ ShowsNotebook(q, notebook.library)
    /\ VerifiesAlone(q, notebook.op) /\ DraftGoes(q, notebook.op)
    /\ page.dirty /\ q.draft # page.draft => Discard \/ \E note \in Notes : EditNote(note)

\* A step of the notebook's store and page.
LEMMA NotebookOnly ==
    ASSUME NotesInv, UNCHANGED <<client, store, naming, editor, evidence, requests>>, NotebookInv',
           notebook'.sent = notebook.sent, UnsavedStep
    PROVE  NotesStep
<1>1. StoreInv' /\ \A d : Held(d) => Held(d)'  BY SameStore DEF NotesInv
<1>2. NamingInv' /\ NamesStep  BY <1>1, NamesStay DEF NotesInv
<1>3. FlightInv'  BY FlightStays DEF NotesInv
<1>4. PinsStep  BY DEF PinsStep
<1> QED  BY <1>1, <1>2, <1>3, <1>4 DEF NotesStep, NotesInv

LEMMA PinningStep ==
    ASSUME NotesInv, NEW q, PageGoes(q), Pinning(q)
    PROVE  NotesStep
<1>1. page' = q /\ UNCHANGED <<client, store, notebook, naming, editor, evidence, requests>>
  BY DEF Pinning
<1>2. \A d : Held(d) => Held(d)'  BY <1>1, SameStore DEF NotesInv
<1>3. NotebookInv'
  BY <1>1, <1>2 DEF NotesInv, NotebookInv, PageGoes, Known, HeldAnswer, ShowsNotebook, VerifiesAlone, DraftGoes
<1>4. UnsavedStep  BY <1>1 DEF PageGoes, UnsavedStep
<1> QED  BY <1>1, <1>3, <1>4, NotebookOnly

\* A step of the names' store and editor.
LEMMA NamingStep ==
    ASSUME NotesInv, UNCHANGED <<client, store, notebook, page, evidence>>, NamingInv', NamesStep, FlightInv'
    PROVE  NotesStep
<1>1. StoreInv' /\ \A d : Held(d) => Held(d)'  BY SameStore DEF NotesInv
<1>2. NotebookInv' /\ PinsStep /\ UnsavedStep
  <2>1. evidence' \in Versions \union {Gone}  BY DEF NotesInv, NotebookInv
  <2> QED  BY <1>1, <2>1, NotebookStays DEF NotesInv
<1> QED  BY <1>1, <1>2 DEF NotesStep, NotesInv

----------------------------------------------------------------------------
(* The page's own steps *)

LEMMA PageNow ==
    ASSUME NotesInv
    PROVE  /\ page \in Pages /\ ShowsNotebook(page, notebook.library)
           /\ VerifiesAlone(page, notebook.op) /\ DraftGoes(page, notebook.op)
           /\ evidence \in Versions \union {Gone}
BY DEF NotesInv, NotebookInv

LEMMA QuietStep ==
    ASSUME NotesInv, NEW q \in Pages, ShowsNotebook(q, notebook.library), q.verifying.kind = "none",
           q.dirty => notebook.op.at = "idle",
           page.dirty /\ q.draft # page.draft => Discard \/ \E note \in Notes : EditNote(note)
    PROVE  PageGoes(q)
BY DEF PageGoes, VerifiesAlone, DraftGoes

LEMMA VerifyStep ==
    ASSUME NotesInv, NEW kind \in {"add", "save", "open"}, Verify(kind), notebook.op.at = "idle",
           kind = "add" => ~ page.dirty /\ page.doc # NoBody /\ page.doc.next <= MaxPins /\ evidence # Gone,
           kind = "save" => page.dirty
    PROVE  NotesStep
<1> DEFINE c == Change(page)
           v == [kind |-> kind, token |-> evidence]
           q == [c EXCEPT !.verifying = v]
<1>1. /\ c \in Pages /\ c.file = page.file /\ c.base = page.base /\ c.doc = page.doc
      /\ c.draft = page.draft /\ c.dirty = page.dirty
  BY PageNow, ChangeIs
<1>2. v \in Verifyings /\ v.kind = kind /\ v.token = evidence  BY PageNow DEF Verifyings
<1>3. Pinning(q)  BY DEF Verify
<1> HIDE DEF c, v
<1>4. /\ q \in Pages /\ q.file = page.file /\ q.base = page.base /\ q.doc = page.doc
      /\ q.draft = page.draft /\ q.dirty = page.dirty /\ q.verifying = v
  BY <1>1, <1>2 DEF Pages
<1> HIDE DEF q
<1>5. ShowsNotebook(q, notebook.library)  BY <1>4, PageNow, SamePage
<1>6. VerifiesAlone(q, notebook.op) /\ DraftGoes(q, notebook.op)
  BY <1>2, <1>4 DEF VerifiesAlone, DraftGoes
<1>7. PageGoes(q)  BY <1>4, <1>5, <1>6 DEF PageGoes
<1> QED  BY <1>3, <1>7, PinningStep

LEMMA SelectNotebookKeeps ==
    ASSUME NotesInv, NEW i \in FileIds, SelectNotebook(i)
    PROVE  NotesStep
<1> DEFINE q == Adopt(page, notebook.library, i)
<1>1. Pinning(q) /\ ~ page.dirty /\ Loaded(notebook.library)  BY DEF SelectNotebook
<1>2. notebook.library \in Documents  BY <1>1 DEF NotesInv, NotebookInv, Notebook_, Loaded
<1>3. q \in Pages /\ ShowsNotebook(q, notebook.library) /\ ~ q.dirty /\ q.verifying = NotVerifying
  BY <1>1, <1>2, AdoptIs, PageNow
<1> HIDE DEF q
<1> QED  BY <1>1, <1>3, NotVerifyingIs, QuietStep, PinningStep

LEMMA SelectPinKeeps ==
    ASSUME NotesInv, NEW id \in 1 .. MaxPins, SelectPin(id)
    PROVE  NotesStep
<1> DEFINE q == ChoosePin(page, id)
<1>1. Pinning(q) /\ ~ page.dirty  BY DEF SelectPin
<1>2. id \in 0 .. MaxPins  BY BodiesAre
<1>3. q \in Pages /\ ShowsNotebook(q, notebook.library) /\ ~ q.dirty /\ q.verifying = NotVerifying
  BY <1>1, <1>2, ChoosePinIs, PageNow
<1> HIDE DEF q
<1> QED  BY <1>1, <1>3, NotVerifyingIs, QuietStep, PinningStep

LEMMA DraftIs ==
    ASSUME NEW p \in Pages, p.draft # NoDraft
    PROVE  p.draft \in Drafts /\ p.draft.id \in 1 .. MaxPins /\ p.draft.ref \in Versions /\ p.draft.note \in Notes
<1>1. p.draft \in Drafts  BY PageHas
<1> QED  BY <1>1 DEF Drafts

LEMMA EditNoteKeeps ==
    ASSUME NotesInv, NEW note \in Notes, EditNote(note)
    PROVE  NotesStep
<1> DEFINE c == Change(page)
           draft == [c.draft EXCEPT !.note = note]
           q == [c EXCEPT !.dirty = TRUE, !.draft = draft]
<1>1. notebook.op.at = "idle" /\ page.draft # NoDraft  BY DEF EditNote, Busy
<1>2. /\ c \in Pages /\ c.file = page.file /\ c.base = page.base /\ c.doc = page.doc
      /\ c.draft = page.draft /\ c.verifying = NotVerifying
  BY PageNow, ChangeIs
<1>3. c.draft \in Drafts  BY <1>1, <1>2, DraftIs
<1>4. draft \in Drafts /\ draft.id = page.draft.id  BY <1>2, <1>3 DEF Drafts
<1>5. [c EXCEPT !.dirty = TRUE, !.draft.note = note] = q  BY <1>2 DEF Pages
<1>6. Pinning(q)  BY <1>5 DEF EditNote
<1>7. draft # NoDraft
  <2>1. draft.id # 0 /\ NoDraft.id = 0  BY <1>4 DEF Drafts, NoDraft, None
  <2> QED  BY <2>1
<1> HIDE DEF c, draft
<1>8. /\ q \in Pages /\ q.file = page.file /\ q.base = page.base /\ q.doc = page.doc
      /\ q.draft = draft /\ q.dirty /\ q.verifying = NotVerifying
  BY <1>2, <1>4 DEF Pages
<1> HIDE DEF q
<1>9. ShowsNotebook(q, notebook.library)  BY <1>1, <1>4, <1>7, <1>8, PageNow DEF ShowsNotebook
<1> QED  BY <1>1, <1>6, <1>8, <1>9, NotVerifyingIs, QuietStep, PinningStep

LEMMA DiscardKeeps ==
    ASSUME NotesInv, Discard
    PROVE  NotesStep
<1> DEFINE c == ChoosePin(page, page.selected)
           q == [c EXCEPT !.dirty = FALSE]
<1>1. Pinning(q)  BY DEF Discard
<1>2. page.selected \in 0 .. MaxPins  BY PageNow, PageHas
<1>3. /\ c \in Pages /\ c.file = page.file /\ c.base = page.base /\ c.doc = page.doc
      /\ c.verifying = NotVerifying
      /\ c.draft # NoDraft => page.doc # NoBody /\ c.draft.id \in DOMAIN page.doc.pins
  BY <1>2, ChoosePinIs, PageNow
<1> HIDE DEF c
<1>4. /\ q \in Pages /\ q.file = page.file /\ q.base = page.base /\ q.doc = page.doc
      /\ q.draft = c.draft /\ ~ q.dirty /\ q.verifying = NotVerifying
  BY <1>3 DEF Pages
<1> HIDE DEF q
<1>5. ShowsNotebook(q, notebook.library)  BY <1>3, <1>4, PageNow DEF ShowsNotebook
<1> QED  BY <1>1, <1>4, <1>5, NotVerifyingIs, QuietStep, PinningStep

\* A verification that ends without a write.
LEMMA VerifiedStep ==
    ASSUME NotesInv, NEW q, Pinning(q), page.verifying.kind # "none",
           q = [page EXCEPT !.verifying = NotVerifying]
    PROVE  NotesStep
<1>1. notebook.op.at = "idle"  BY PageNow DEF VerifiesAlone
<1>2. NotVerifying \in Verifyings  BY DEF Verifyings
<1>3. /\ q \in Pages /\ q.file = page.file /\ q.base = page.base /\ q.doc = page.doc
      /\ q.draft = page.draft /\ q.dirty = page.dirty /\ q.verifying = NotVerifying
  BY <1>2, PageNow DEF Pages
<1>4. ShowsNotebook(q, notebook.library)  BY <1>3, PageNow, SamePage
<1> QED  BY <1>1, <1>3, <1>4, NotVerifyingIs, QuietStep, PinningStep

LEMMA AddPinKeeps ==
    ASSUME NotesInv, AddPin PROVE NotesStep
BY VerifyStep DEF AddPin, UpToDate, Busy

LEMMA AddVerifiedKeeps ==
    ASSUME NotesInv, AddVerified
    PROVE  NotesStep
<1>1. /\ page.verifying.kind = "add" /\ notebook.op.at = "idle" /\ ~ page.dirty
      /\ page.doc # NoBody /\ page.doc.next <= MaxPins /\ page.verifying.token # Gone
  BY PageNow DEF AddVerified, VerifiesAlone
<1>2. CASE ~ Verified(page.verifying.token)
  <2>1. Pinning([page EXCEPT !.verifying = NotVerifying])  BY <1>2 DEF AddVerified
  <2> QED  BY <1>1, <2>1, VerifiedStep
<1>3. CASE Verified(page.verifying.token)
  <2> DEFINE draft == [id |-> page.doc.next, ref |-> page.verifying.token, note |-> CHOOSE note \in Notes : TRUE]
             q == [page EXCEPT !.verifying = NotVerifying, !.selected = None, !.dirty = TRUE, !.draft = draft]
  <2>1. Pinning(q)  BY <1>3 DEF AddVerified
  <2>2. page.doc.next \in 1 .. MaxPins
    <3>1. page.doc \in Notebooks  BY <1>1, PageNow, PageHas
    <3>2. page.doc.next \in Nat /\ page.doc.next >= 1  BY <3>1, NotebookHas, BodiesAre
    <3> QED  BY <1>1, <3>2, BodiesAre
  <2>3. page.verifying.token \in Versions
    <3>1. page.verifying \in Verifyings /\ page.verifying # NotVerifying
      BY <1>1, PageNow, PageHas, NotVerifyingIs
    <3>2. page.verifying.token \in Versions \union {Gone}  BY <3>1 DEF Verifyings
    <3> QED  BY <1>1, <3>2
  <2>4. draft \in Drafts /\ draft.id = page.doc.next
    <3>1. (CHOOSE note \in Notes : TRUE) \in Notes  BY BodiesAre
    <3> QED  BY <2>2, <2>3, <3>1 DEF Drafts
  <2>5. NotVerifying \in Verifyings /\ None \in 0 .. MaxPins
    BY BodiesAre DEF Verifyings, None
  <2> HIDE DEF draft
  <2>6. /\ q \in Pages /\ q.file = page.file /\ q.base = page.base /\ q.doc = page.doc
        /\ q.draft = draft /\ q.dirty /\ q.verifying = NotVerifying
    BY <2>4, <2>5, PageNow DEF Pages
  <2>7. draft # NoDraft
    <3>1. draft.id # 0 /\ NoDraft.id = 0  BY <2>2, <2>4 DEF NoDraft, None
    <3> QED  BY <3>1
  <2> HIDE DEF q
  <2>8. ShowsNotebook(q, notebook.library)  BY <1>1, <2>4, <2>6, <2>7, PageNow DEF ShowsNotebook
  <2> QED  BY <1>1, <2>1, <2>6, <2>8, NotVerifyingIs, QuietStep, PinningStep
<1> QED  BY <1>2, <1>3

LEMMA OpenPinKeeps ==
    ASSUME NotesInv, OpenPin PROVE NotesStep
BY VerifyStep DEF OpenPin, UpToDate, Busy

LEMMA OpenEndsKeeps ==
    ASSUME NotesInv, OpenVerified \/ OpenRefused
    PROVE  NotesStep
<1>1. CASE OpenVerified
  <2> DEFINE q == Change(page)
  <2>1. Pinning(q) /\ notebook.op.at = "idle"  BY <1>1, PageNow DEF OpenVerified, VerifiesAlone
  <2>2. /\ q \in Pages /\ q.file = page.file /\ q.base = page.base /\ q.doc = page.doc
        /\ q.draft = page.draft /\ q.dirty = page.dirty /\ q.verifying = NotVerifying
    BY PageNow, ChangeIs
  <2> HIDE DEF q
  <2>3. ShowsNotebook(q, notebook.library)  BY <2>2, PageNow, SamePage
  <2> QED  BY <2>1, <2>2, <2>3, NotVerifyingIs, QuietStep, PinningStep
<1>2. CASE OpenRefused  BY <1>2, VerifiedStep DEF OpenRefused
<1> QED  BY <1>1, <1>2

\* The page is marked: a notebook changed elsewhere, or a delete to confirm.
LEMMA MarkStep ==
    ASSUME NotesInv, NEW q, Pinning(q),
           \/ q = [page EXCEPT !.stale = TRUE]
           \/ q = [page EXCEPT !.armed = "pin"]
           \/ q = [page EXCEPT !.armed = "book"]
    PROVE  NotesStep
<1>1. /\ q \in Pages /\ q.file = page.file /\ q.base = page.base /\ q.doc = page.doc
      /\ q.draft = page.draft /\ q.dirty = page.dirty /\ q.verifying = page.verifying
  BY PageNow DEF Pages
<1>2. ShowsNotebook(q, notebook.library)  BY <1>1, PageNow, SamePage
<1>3. VerifiesAlone(q, notebook.op) /\ DraftGoes(q, notebook.op)
  BY <1>1, PageNow DEF VerifiesAlone, DraftGoes
<1>4. PageGoes(q)  BY <1>1, <1>2, <1>3 DEF PageGoes
<1> QED  BY <1>4, PinningStep

----------------------------------------------------------------------------
(* Requests *)

\* A library with one file replaced: what a request holds of it.
Made(library, i, files) ==
    /\ [folders |-> library.folders, files |-> files] \in Requests
    /\ Differing(Contents(library).files, files) \subseteq {i}

LEMMA FilesOnlyMade ==
    ASSUME NEW library \in Documents, NEW i, NEW files, FilesOnly(Contents(library), [Contents(library) EXCEPT !.files = files], i)
    PROVE  Made(library, i, files)
<1> DEFINE c == Contents(library)
           r == [c EXCEPT !.files = files]
<1>1. c \in [folders : FolderMaps, files : InputMaps] /\ c.folders = library.folders
  BY ContentsIs, RequestIs
<1>2. r = [folders |-> library.folders, files |-> files] /\ r.files = files  BY <1>1
<1>3. r \in Requests /\ Differing(c.files, r.files) \subseteq {i}  BY DEF FilesOnly
<1> QED  BY <1>2, <1>3 DEF Made

LEMMA MadeIs ==
    ASSUME NEW library \in Documents, NEW i \in FileIds, NEW f \in Inputs
    PROVE  /\ Made(library, i, With(Contents(library).files, i, f))
           /\ Made(library, i, Without(Contents(library).files, i))
           /\ Made(library, i, [Contents(library).files EXCEPT ![i] = f])
<1> DEFINE c == Contents(library)
<1>1. c \in Requests /\ c \in [folders : FolderMaps, files : InputMaps]  BY ContentsIs, RequestIs
<1>2. /\ FilesOnly(c, [c EXCEPT !.files = With(@, i, f)], i)
      /\ FilesOnly(c, [c EXCEPT !.files[i] = f], i)
      /\ FilesOnly(c, [c EXCEPT !.files = Without(@, i)], i)
  BY <1>1, FileWritten, FileRemoved
<1>3. [c EXCEPT !.files[i] = f] = [c EXCEPT !.files = [c.files EXCEPT ![i] = f]]  BY <1>1
<1>4. FilesOnly(c, [c EXCEPT !.files = With(c.files, i, f)], i)  BY <1>1, <1>2
<1>5. FilesOnly(c, [c EXCEPT !.files = Without(c.files, i)], i)  BY <1>1, <1>2
<1>6. FilesOnly(c, [c EXCEPT !.files = [c.files EXCEPT ![i] = f]], i)  BY <1>2, <1>3
<1> HIDE DEF c
<1> QED  BY <1>4, <1>5, <1>6, FilesOnlyMade DEF c

LEMMA LibraryNow ==
    ASSUME NotesInv, NEW library, Held(library)
    PROVE  /\ library \in Documents /\ library.generation \in Nat
           /\ library.generation + 1 \in 1 .. Len(store) /\ store[library.generation + 1] = library
           /\ Loaded(library)
<1>1. library \in Documents /\ library.generation \in Nat  BY HeldIs DEF NotesInv
<1>2. library # NoLibrary
  <2>1. DOMAIN library = {"generation", "folders", "files"}  BY <1>1 DEF Documents
  <2>2. DOMAIN NoLibrary = {"kind"}  BY DEF NoLibrary
  <2>3. "kind" \notin {"generation", "folders", "files"}  OBVIOUS
  <2> QED  BY <2>1, <2>2, <2>3
<1> QED  BY <1>1, <1>2 DEF Held, Loaded

\* A request that is sent on a document of the library.
LEMMA SentStep ==
    ASSUME NotesInv, NEW library, Held(library), NEW w, w \in NotebookRequests \union NamesRequests,
           w.expected = library.generation, SeenIn(w, library), requests' = requests \union {w}, store' = store
    PROVE  FlightInv'
<1>1. w.expected + 1 \in 1 .. Len(store) /\ SeenIn(w, store[w.expected + 1])  BY LibraryNow
<1> QED  BY <1>1 DEF NotesInv, FlightInv

LEMMA PersistStep ==
    ASSUME NotesInv, NEW p \in Pages, NEW i \in FileIds, NEW files, Persist(p, i, files),
           ShowsNotebook(p, notebook.library), p.verifying = NotVerifying, p.draft = page.draft,
           Made(notebook.library, i, files),
           p.dirty => Holds([folders |-> notebook.library.folders, files |-> files], i, p.draft),
           \A w : /\ w.file = i /\ w.seen = File(notebook.library, i)
                  /\ w.contents = [folders |-> notebook.library.folders, files |-> files]
                  => \A pin \in NewPins(w) : pin.ref = evidence
    PROVE  NotesStep
<1> DEFINE library == notebook.library
           c == [folders |-> library.folders, files |-> files]
           w == [client |-> "notebook", n |-> notebook.sent + 1, file |-> i, seen |-> File(library, i),
                 expected |-> library.generation, contents |-> c]
           op == [at |-> "saving", answer |-> NoAnswer, request |-> w]
<1>1. /\ Loaded(library) /\ notebook.sent < MaxSends
      /\ notebook' = [notebook EXCEPT !.op = op, !.sent = @ + 1]
      /\ page' = p /\ requests' = requests \union {w}
      /\ UNCHANGED <<client, store, naming, editor, evidence>>
  BY DEF Persist, CanWrite
<1>2. notebook \in Notebook_ /\ Held(library)  BY <1>1 DEF NotesInv, NotebookInv, Known
<1>3. library \in Documents /\ library.generation \in Nat  BY <1>2, LibraryNow
<1>4. w \in NotebookRequests /\ w.contents = c /\ w.file = i /\ w.seen = File(library, i)
      /\ w.expected = library.generation /\ w.client = "notebook"
  <2>1. c \in Requests  BY DEF Made
  <2>2. File(library, i) \in Files \union {NoFile}  BY <1>3, NotesFileIs
  <2>3. notebook.sent + 1 \in Nat  BY <1>2 DEF Notebook_
  <2> HIDE DEF c
  <2> QED  BY <1>3, <2>1, <2>2, <2>3 DEF NotebookRequests
<1>5. c.files = files  OBVIOUS
<1> HIDE DEF w, c
<1>6. op \in NotebookSavings /\ op.at = "saving" /\ op.answer = NoAnswer /\ op.request = w
  BY <1>4 DEF NotebookSavings, NotesAnswers
<1> HIDE DEF op
<1>7. notebook' \in Notebook_ /\ notebook'.library = library /\ notebook'.op = op /\ notebook'.sent = notebook.sent + 1
  <2>1. notebook.sent \in 0 .. MaxSends /\ notebook.sent + 1 \in 0 .. MaxSends
    BY <1>1, <1>2, BodiesAre DEF Notebook_
  <2>2. op \in NotebookOps  BY <1>6 DEF NotebookOps
  <2> QED  BY <1>1, <1>2, <2>1, <2>2 DEF Notebook_
<1>8. StoreInv' /\ \A d : Held(d) => Held(d)'  BY <1>1, SameStore DEF NotesInv
<1>9. NotebookInv'
  <2>1. Known(notebook.library)'  BY <1>1, <1>2, <1>7 DEF Known, Held
  <2>2. op.answer.kind # "document"  BY <1>6 DEF NoAnswer
  <2>3. ShowsNotebook(page, notebook.library)' /\ page' \in Pages  BY <1>1, <1>7
  <2>4. VerifiesAlone(page, notebook.op)'  BY <1>1, NotVerifyingIs DEF VerifiesAlone
  <2>5. DraftGoes(page, notebook.op)'  BY <1>1, <1>4, <1>6, <1>7 DEF DraftGoes, c
  <2>6. evidence' \in Versions \union {Gone}  BY <1>1, PageNow
  <2> QED  BY <1>7, <2>1, <2>2, <2>3, <2>4, <2>5, <2>6 DEF NotebookInv, HeldAnswer
<1>10. NamingInv' /\ NamesStep  BY <1>1, <1>8, NamesStay DEF NotesInv
<1>11. FlightInv'
  <2>1. SeenIn(w, library)
    <3>1. Differing(Contents(library).files, w.contents.files) \subseteq {w.file}
      BY <1>4, <1>5 DEF Made
    <3> QED  BY <1>4, <3>1 DEF SeenIn
  <2> QED  BY <1>1, <1>2, <1>4, <2>1, SentStep
<1>12. PinsStep  BY <1>4, <1>6, <1>7 DEF PinsStep, c
<1>13. UnsavedStep  BY <1>1 DEF UnsavedStep
<1> QED  BY <1>1, <1>8, <1>9, <1>10, <1>11, <1>12, <1>13 DEF NotesStep, NotesInv

----------------------------------------------------------------------------
(* The writes of the notebook *)

LEMMA WriteIs ==
    ASSUME NotesInv, CanWrite
    PROVE  /\ notebook.library \in Documents /\ Held(notebook.library)
           /\ page.base = File(notebook.library, page.file) /\ page.doc = readNotebook(page.base)
BY LibraryNow, PageNow DEF CanWrite, NotesInv, NotebookInv, Known, ShowsNotebook

LEMMA CreateNotebookKeeps ==
    ASSUME NotesInv, CreateNotebook
    PROVE  NotesStep
<1> DEFINE library == notebook.library
           i == NextId(DOMAIN library.files)
           f == [folder |-> 1, body |-> EmptyNotebook]
           files == With(Contents(library).files, i, f)
           p == Change(page)
<1>1. CanWrite /\ ~ page.dirty /\ i \in FileIds /\ Persist(p, i, With(Contents(library).files, i, f))
  BY DEF CreateNotebook
<1>2. Persist(p, i, files)  BY <1>1
<1>3. library \in Documents /\ Held(library)  BY <1>1, WriteIs
<1>4. EmptyNotebook \in Notebooks /\ DOMAIN EmptyNotebook.pins = {} /\ EmptyNotebook \in Bodies
      /\ EmptyNotebook # NoBody
  BY EmptyNotebookIs, NotebookHas
<1>5. f \in Inputs  BY <1>4, LibraryAssumption DEF Inputs
<1>6. files[i] = f  BY DEF With
<1>7. /\ p \in Pages /\ p.file = page.file /\ p.base = page.base /\ p.doc = page.doc /\ p.draft = page.draft
      /\ p.dirty = page.dirty /\ p.verifying = NotVerifying
  BY PageNow, ChangeIs
<1>8. f.body = EmptyNotebook  OBVIOUS
<1> HIDE DEF i, f, p
<1>9. Made(library, i, files)  BY <1>1, <1>3, <1>5, MadeIs
<1> HIDE DEF files
<1>10. ShowsNotebook(p, library)  BY <1>7, PageNow, SamePage
<1>11. ASSUME NEW w, w.file = i, w.contents = [folders |-> library.folders, files |-> files]
       PROVE  NewPins(w) = {}
  <2>1. w.contents.files[w.file] = f  BY <1>6, <1>11
  <2>2. readNotebook(f) = EmptyNotebook  BY <1>4, <1>8, ReadBack
  <2>3. DOMAIN Pins(readNotebook(w.contents.files[w.file])) = {}  BY <1>4, <2>1, <2>2 DEF Pins
  <2> QED  BY <2>3 DEF NewPins
<1> HIDE DEF library
<1> QED  BY <1>1, <1>2, <1>7, <1>9, <1>10, <1>11, PersistStep DEF library

\* The body of the shown notebook's file is replaced.
LEMMA PersistBodyStep ==
    ASSUME NotesInv, NEW p \in Pages, NEW body \in Notebooks, PersistBody(p, body),
           p.file = page.file, p.base = page.base, p.doc = page.doc, p.draft = page.draft, p.dirty = page.dirty,
           p.verifying = NotVerifying, page.doc # NoBody,
           \A id \in DOMAIN body.pins \ DOMAIN page.doc.pins : body.pins[id].ref = evidence,
           page.dirty => /\ page.draft.id \in DOMAIN body.pins
                         /\ body.pins[page.draft.id] = [ref |-> page.draft.ref, note |-> page.draft.note]
    PROVE  NotesStep
<1> DEFINE library == notebook.library
           i == page.file
           old == Contents(library).files
           f == [FileInput(library.files[i]) EXCEPT !.body = body]
           files == [old EXCEPT ![i] = f]
<1>1. CanWrite  BY DEF PersistBody, Persist
<1>2. /\ library \in Documents /\ Held(library) /\ page.base = File(library, i)
      /\ page.doc = readNotebook(page.base)
  BY <1>1, WriteIs
<1>3. page.base # NoFile  BY <1>2, ReadIs, PageNow, PageHas
<1>4. i \in FileIds /\ i \in DOMAIN library.files  BY <1>2, <1>3, NotesFileIs
<1>5. library.files[i] \in Files /\ i \in DOMAIN old /\ old[i] = FileInput(library.files[i])
  BY <1>2, <1>4, FileMapIs, ContentsIs DEF Documents
<1>6. f \in Inputs /\ f.body = body
  <2>1. body \in Bodies  BY NotebookHas
  <2>2. FileInput(library.files[i]) \in Inputs  BY <1>5 DEF FileInput, Files, Inputs
  <2> QED  BY <2>1, <2>2 DEF Inputs
<1>7. Persist(p, i, files)
  <2>1. Contents(library).files = old  OBVIOUS
  <2>2. [old EXCEPT ![i].body = body] = files  BY <1>5
  <2>3. Persist(p, p.file, [Contents(library).files EXCEPT ![p.file].body = body])
    BY DEF PersistBody
  <2> HIDE DEF library, files, old
  <2> QED  BY <2>1, <2>2, <2>3
<1>8. i \in DOMAIN files /\ files[i] = f  BY <1>5
<1> HIDE DEF f
<1>9. Made(library, i, files)  BY <1>2, <1>4, <1>6, MadeIs
<1> HIDE DEF files, old
<1>10. ShowsNotebook(p, library)  BY PageNow, SamePage
<1>11. ASSUME NEW w, w.file = i, w.contents = [folders |-> library.folders, files |-> files],
              w.seen = File(library, i)
       PROVE  \A pin \in NewPins(w) : pin.ref = evidence
  <2>1. Pins(readNotebook(w.contents.files[w.file])) = body.pins
    <3>1. w.contents.files[w.file] = f  BY <1>8, <1>11
    <3>2. readNotebook(f) = body  BY <1>6, ReadBack
    <3> QED  BY <3>1, <3>2, NotebookHas DEF Pins
  <2>2. Pins(readNotebook(w.seen)) = page.doc.pins  BY <1>2, <1>11 DEF Pins
  <2> QED  BY <2>1, <2>2 DEF NewPins
<1>12. page.dirty => Holds([folders |-> library.folders, files |-> files], i, page.draft)
  BY <1>6, <1>8 DEF Holds
<1> HIDE DEF library, i
<1> QED  BY <1>4, <1>7, <1>9, <1>10, <1>11, <1>12, PersistStep DEF library, i

\* The verified pin, or the changed note, is written.
LEMMA SavedDraft ==
    ASSUME NotesInv, page.dirty, NEW p \in Pages, PersistBody(p, WithPin(page.doc, page.draft)),
           p.file = page.file, p.base = page.base, p.doc = page.doc, p.draft = page.draft, p.dirty = page.dirty,
           p.verifying = NotVerifying,
           page.draft.id \notin DOMAIN page.doc.pins => page.draft.ref = evidence
    PROVE  NotesStep
<1> DEFINE body == WithPin(page.doc, page.draft)
<1>1. /\ page.draft # NoDraft /\ page.doc # NoBody
      /\ page.draft.id \in DOMAIN page.doc.pins \/ page.draft.id = page.doc.next
  BY PageNow DEF ShowsNotebook
<1>2. page.doc \in Notebooks /\ page.draft \in Drafts  BY <1>1, PageNow, PageHas
<1>3. /\ body \in Notebooks /\ DOMAIN body.pins = DOMAIN page.doc.pins \union {page.draft.id}
      /\ body.pins[page.draft.id] = [ref |-> page.draft.ref, note |-> page.draft.note]
  BY <1>1, <1>2, WithPinIs
<1> HIDE DEF body
<1>4. \A id \in DOMAIN body.pins \ DOMAIN page.doc.pins : body.pins[id].ref = evidence  BY <1>3
<1> QED  BY <1>1, <1>3, <1>4, PersistBodyStep DEF body

\* The saved pin stays selected.
LEMMA Selected ==
    ASSUME NEW c \in Pages, c.draft # NoDraft, NEW q, q = [c EXCEPT !.selected = c.draft.id]
    PROVE  /\ q \in Pages /\ q.file = c.file /\ q.base = c.base /\ q.doc = c.doc /\ q.draft = c.draft
           /\ q.dirty = c.dirty /\ q.verifying = c.verifying
<1>1. c.draft.id \in 0 .. MaxPins  BY DraftIs
<1> QED  BY <1>1 DEF Pages

LEMMA SavePinKeeps ==
    ASSUME NotesInv, SavePin
    PROVE  NotesStep
<1>1. notebook.op.at = "idle" /\ page.dirty  BY DEF SavePin, Busy
<1>2. CASE Pinning([page EXCEPT !.stale = TRUE])  BY <1>2, MarkStep
<1>3. CASE Verify("save")  BY <1>1, <1>3, VerifyStep
<1>4. CASE /\ ~ IsNewPin
           /\ PersistBody([Change(page) EXCEPT !.selected = page.draft.id], WithPin(page.doc, page.draft))
  <2> DEFINE c == Change(page)
             p == [c EXCEPT !.selected = page.draft.id]
  <2>1. /\ c \in Pages /\ c.file = page.file /\ c.base = page.base /\ c.doc = page.doc
        /\ c.draft = page.draft /\ c.dirty = page.dirty /\ c.verifying = NotVerifying
    BY PageNow, ChangeIs
  <2>2. page.draft # NoDraft  BY <1>1, PageNow DEF ShowsNotebook
  <2>3. PersistBody(p, WithPin(page.doc, page.draft)) /\ page.draft.id \in DOMAIN page.doc.pins
    BY <1>4 DEF IsNewPin
  <2> HIDE DEF c
  <2>4. /\ p \in Pages /\ p.file = page.file /\ p.base = page.base /\ p.doc = page.doc
        /\ p.draft = page.draft /\ p.dirty = page.dirty /\ p.verifying = NotVerifying
    BY <2>1, <2>2, Selected
  <2> HIDE DEF p
  <2> QED  BY <1>1, <2>3, <2>4, SavedDraft
<1> QED  BY <1>2, <1>3, <1>4 DEF SavePin

LEMMA SaveVerifiedKeeps ==
    ASSUME NotesInv, SaveVerified
    PROVE  NotesStep
<1> DEFINE c == [page EXCEPT !.verifying = NotVerifying]
           p == [c EXCEPT !.selected = page.draft.id]
<1>1. page.verifying.kind = "save" /\ page.dirty  BY PageNow DEF SaveVerified, VerifiesAlone
<1>2. CASE ~ Verified(page.draft.ref)
  <2>1. Pinning(c)  BY <1>2 DEF SaveVerified
  <2> QED  BY <1>1, <2>1, VerifiedStep
<1>3. CASE Verified(page.draft.ref)
  <2>1. PersistBody(p, WithPin(page.doc, page.draft)) /\ evidence = page.draft.ref
    BY <1>3 DEF SaveVerified, Verified
  <2>2. page.draft # NoDraft  BY <1>1, PageNow DEF ShowsNotebook
  <2>3. NotVerifying \in Verifyings  BY DEF Verifyings
  <2>4. /\ c \in Pages /\ c.file = page.file /\ c.base = page.base /\ c.doc = page.doc
        /\ c.draft = page.draft /\ c.dirty = page.dirty /\ c.verifying = NotVerifying
    BY <2>3, PageNow DEF Pages
  <2> HIDE DEF c
  <2>5. /\ p \in Pages /\ p.file = page.file /\ p.base = page.base /\ p.doc = page.doc
        /\ p.draft = page.draft /\ p.dirty = page.dirty /\ p.verifying = NotVerifying
    BY <2>2, <2>4, Selected
  <2> HIDE DEF p
  <2> QED  BY <1>1, <2>1, <2>5, SavedDraft
<1> QED  BY <1>2, <1>3

LEMMA DeletePinKeeps ==
    ASSUME NotesInv, DeletePin
    PROVE  NotesStep
<1> DEFINE body == [page.doc EXCEPT !.pins = Without(page.doc.pins, page.selected)]
           p == Change(page)
<1>1. ~ page.dirty /\ page.selected \in DOMAIN Pins(page.doc)  BY DEF DeletePin, UpToDate
<1>2. CASE Pinning([page EXCEPT !.armed = "pin"])  BY <1>2, MarkStep
<1>3. CASE PersistBody(Change(page), [page.doc EXCEPT !.pins = Without(@, page.selected)])
  <2>1. page.doc \in Notebooks /\ page.doc # NoBody  BY <1>1, PageNow, PageHas, PinsHas
  <2>2. body \in Notebooks /\ DOMAIN body.pins \subseteq DOMAIN page.doc.pins
    BY <2>1, WithoutPinIs
  <2>3. PersistBody(p, body)  BY <1>3
  <2>4. /\ p \in Pages /\ p.file = page.file /\ p.base = page.base /\ p.doc = page.doc
        /\ p.draft = page.draft /\ p.dirty = page.dirty /\ p.verifying = NotVerifying
    BY PageNow, ChangeIs
  <2> HIDE DEF body, p
  <2> QED  BY <1>1, <2>1, <2>2, <2>3, <2>4, PersistBodyStep
<1> QED  BY <1>2, <1>3 DEF DeletePin

LEMMA DeleteNotebookKeeps ==
    ASSUME NotesInv, DeleteNotebook
    PROVE  NotesStep
<1> DEFINE library == notebook.library
           i == page.file
           files == Without(Contents(library).files, i)
           p == Change(page)
<1>1. ~ page.dirty /\ page.doc # NoBody /\ CanWrite  BY DEF DeleteNotebook, UpToDate
<1>2. CASE Pinning([page EXCEPT !.armed = "book"])  BY <1>2, MarkStep
<1>3. CASE Persist(p, i, Without(Contents(library).files, i))
  <2>1. Persist(p, i, files)  BY <1>3
  <2>2. /\ library \in Documents /\ page.base = File(library, i) /\ page.doc = readNotebook(page.base)
    BY <1>1, WriteIs
  <2>3. page.base # NoFile  BY <1>1, <2>2, ReadIs, PageNow, PageHas
  <2>4. i \in FileIds /\ i \in DOMAIN library.files  BY <2>2, <2>3, NotesFileIs
  <2>5. i \notin DOMAIN files  BY DEF Without
  <2>6. Made(library, i, files)
    <3>1. PICK f : f \in Inputs
      <4>1. FileInput(library.files[i]) \in Inputs
        BY <2>2, <2>4, FileMapIs DEF FileInput, Files, Inputs, Documents
      <4> QED  BY <4>1
    <3> QED  BY <2>2, <2>4, <3>1, MadeIs
  <2>7. /\ p \in Pages /\ p.file = page.file /\ p.base = page.base /\ p.doc = page.doc
        /\ p.draft = page.draft /\ p.dirty = page.dirty /\ p.verifying = NotVerifying
    BY PageNow, ChangeIs
  <2> HIDE DEF files, p
  <2>8. ShowsNotebook(p, library)  BY <2>7, PageNow, SamePage
  <2>9. \A w : w.file = i /\ w.contents = [folders |-> library.folders, files |-> files]
               => \A pin \in NewPins(w) : pin.ref = evidence
    BY <2>5 DEF NewPins
  <2> HIDE DEF library, i
  <2> QED  BY <1>1, <2>1, <2>4, <2>6, <2>7, <2>8, <2>9, PersistStep DEF library, i
<1> QED  BY <1>2, <1>3 DEF DeleteNotebook

----------------------------------------------------------------------------
(* The operations of the notebook's store *)

LEMMA NotebookNow ==
    ASSUME NotesInv
    PROVE  /\ notebook \in Notebook_ /\ Known(notebook.library) /\ notebook.op \in NotebookOps
           /\ notebook.library \in Documents \union {NoLibrary} /\ notebook.uncertain \in BOOLEAN
           /\ notebook.sent \in 0 .. MaxSends
           /\ notebook.op.at # "idle" => HeldAnswer(notebook.op.answer)
BY DEF NotesInv, NotebookInv, Notebook_

LEMMA NotebookOpIs ==
    ASSUME NEW op \in NotebookOps
    PROVE  /\ op.at \in {"idle", "loading", "saving"}
           /\ op.at = "loading" => op \in NotebookLoadings
           /\ op.at = "saving" => op \in NotebookSavings
BY DEF NotebookOps, NotebookLoadings, NotebookSavings, Idle

LEMMA OperationStep ==
    ASSUME NotesInv, UNCHANGED <<client, store, naming, editor, evidence, requests>>,
           notebook' \in Notebook_, notebook'.sent = notebook.sent, Known(notebook'.library),
           notebook'.op.at # "idle" => HeldAnswer(notebook'.op.answer),
           page' \in Pages, ShowsNotebook(page', notebook'.library), VerifiesAlone(page', notebook'.op),
           DraftGoes(page', notebook'.op), UnsavedStep
    PROVE  NotesStep
<1>1. \A d : Held(d) => d.generation + 1 \in 1 .. Len(store') /\ d = store'[d.generation + 1]
  BY DEF Held
<1>2. NotebookInv'
  BY <1>1, PageNow DEF NotebookInv, Known, HeldAnswer, Held, ShowsNotebook, VerifiesAlone, DraftGoes
<1> QED  BY <1>2, NotebookOnly

LEMMA ReloadKeeps ==
    ASSUME NotesInv, Reload
    PROVE  NotesStep
<1> DEFINE op == [at |-> "loading", answer |-> NoAnswer]
           q == Change(page)
<1>1. /\ ~ page.dirty /\ notebook' = [notebook EXCEPT !.op = op] /\ page' = q
      /\ UNCHANGED <<client, store, naming, editor, evidence, requests>>
  BY DEF Reload, Load
<1>2. op \in NotebookOps /\ op.at = "loading" /\ op.answer.kind # "document"
  BY DEF NotebookOps, NotebookLoadings, NotesAnswers, NoAnswer
<1>3. /\ q \in Pages /\ q.file = page.file /\ q.base = page.base /\ q.doc = page.doc
      /\ q.draft = page.draft /\ q.dirty = page.dirty /\ q.verifying = NotVerifying
  BY PageNow, ChangeIs
<1> HIDE DEF op, q
<1>4. /\ notebook' \in Notebook_ /\ notebook'.sent = notebook.sent /\ notebook'.library = notebook.library
      /\ notebook'.op = op
  BY <1>1, <1>2, NotebookNow DEF Notebook_
<1>5. ShowsNotebook(q, notebook.library)  BY <1>3, PageNow, SamePage
<1>6. VerifiesAlone(q, op) /\ DraftGoes(q, op)
  BY <1>1, <1>3, NotVerifyingIs DEF VerifiesAlone, DraftGoes
<1>7. UnsavedStep  BY <1>1 DEF UnsavedStep
<1> QED  BY <1>1, <1>2, <1>3, <1>4, <1>5, <1>6, <1>7, NotebookNow, OperationStep DEF HeldAnswer

LEMMA CancelledIs ==
    ASSUME NotesInv
    PROVE  LET nb == Cancelled(notebook) IN
           /\ nb \in Notebook_ /\ nb.sent = notebook.sent /\ nb.library = notebook.library /\ nb.op = Idle
<1> DEFINE uncertain == notebook.uncertain \/ notebook.op.at = "saving"
           nb == [notebook EXCEPT !.op = Idle, !.uncertain = uncertain]
<1>1. Idle \in NotebookOps  BY DEF NotebookOps
<1>2. uncertain \in BOOLEAN  OBVIOUS
<1>3. Cancelled(notebook) = nb  BY NotebookNow DEF Cancelled, Notebook_
<1> HIDE DEF uncertain
<1>4. nb \in Notebook_ /\ nb.sent = notebook.sent /\ nb.library = notebook.library /\ nb.op = Idle
  BY <1>1, <1>2, NotebookNow DEF Notebook_
<1> QED  BY <1>3, <1>4

\* An operation that ends without a document: the draft is kept for another attempt.
LEMMA EndsKeeps ==
    ASSUME NotesInv, OperationFails \/ CancelOrHide
    PROVE  NotesStep
<1> DEFINE nb == Cancelled(notebook)
<1>1. /\ notebook' = nb /\ (page' = page \/ page' = Change(page))
      /\ UNCHANGED <<client, store, naming, editor, evidence, requests>>
  BY DEF OperationFails, CancelOrHide
<1>2. nb \in Notebook_ /\ nb.sent = notebook.sent /\ nb.library = notebook.library /\ nb.op = Idle
  BY CancelledIs
<1> HIDE DEF nb
<1>3. /\ page' \in Pages /\ page'.file = page.file /\ page'.base = page.base /\ page'.doc = page.doc
      /\ page'.draft = page.draft /\ page'.dirty = page.dirty
      /\ (page'.verifying = page.verifying \/ page'.verifying = NotVerifying)
  BY <1>1, PageNow, ChangeIs
<1>4. ShowsNotebook(page', notebook.library)  BY <1>3, PageNow, SamePage
<1>5. VerifiesAlone(page', Idle) /\ DraftGoes(page', Idle)
  BY <1>3, PageNow, NotVerifyingIs DEF VerifiesAlone, DraftGoes
<1>6. UnsavedStep  BY <1>3 DEF UnsavedStep
<1> QED  BY <1>1, <1>2, <1>3, <1>4, <1>5, <1>6, NotebookNow, NotVerifyingIs, OperationStep

\* A document that was read or written is taken, and the operation ends.
LEMMA TakenIs ==
    ASSUME NotesInv, NEW body, Held(body)
    PROVE  LET nb == [notebook EXCEPT !.library = body, !.uncertain = FALSE, !.op = Idle] IN
           /\ nb \in Notebook_ /\ nb.sent = notebook.sent /\ nb.library = body /\ nb.op = Idle
<1>1. Idle \in NotebookOps /\ body \in Documents  BY LibraryNow DEF NotebookOps
<1> QED  BY <1>1, NotebookNow DEF Notebook_

LEMMA LibraryLoadedKeeps ==
    ASSUME NotesInv, LibraryLoaded
    PROVE  NotesStep
<1> DEFINE body == notebook.op.answer.body
           i == IF page.file \in candidates(body) THEN page.file ELSE None
           q == Adopt(page, body, i)
           nb == [notebook EXCEPT !.library = body, !.uncertain = FALSE, !.op = Idle]
<1>1. /\ notebook.op.at = "loading" /\ notebook.op.answer.kind = "document"
      /\ notebook' = nb /\ page' = q
      /\ UNCHANGED <<client, store, naming, editor, evidence, requests>>
  BY DEF LibraryLoaded
<1>2. Held(body) /\ ~ page.dirty  BY <1>1, NotebookNow, PageNow DEF HeldAnswer, DraftGoes
<1>3. body \in Documents /\ Loaded(body)  BY <1>2, LibraryNow
<1>4. i \in FileIds \union {None}  BY PageNow, PageHas
<1> HIDE DEF body, i
<1>5. nb \in Notebook_ /\ nb.sent = notebook.sent /\ nb.library = body /\ nb.op = Idle
  BY <1>2, TakenIs
<1> HIDE DEF nb
<1>6. q \in Pages /\ ShowsNotebook(q, body) /\ ~ q.dirty /\ q.verifying = NotVerifying
  BY <1>3, <1>4, AdoptIs, PageNow
<1> HIDE DEF q
<1>7. VerifiesAlone(q, Idle) /\ DraftGoes(q, Idle)
  BY <1>6, NotVerifyingIs DEF VerifiesAlone, DraftGoes
<1>8. UnsavedStep  BY <1>2 DEF UnsavedStep
<1> QED  BY <1>1, <1>2, <1>5, <1>6, <1>7, <1>8, NotVerifyingIs, OperationStep DEF Known

\* The library of a receipt holds the draft that was written.
LEMMA ReceiptStored ==
    ASSUME NotesInv, NEW body, Held(body), NEW c, Contents(body) = c, NEW i,
           NEW draft, Holds(c, i, draft)
    PROVE  Stored(draft)
<1>1. body \in Documents /\ body.generation + 1 \in 1 .. Len(store) /\ store[body.generation + 1] = body
  BY LibraryNow
<1>2. c = Contents(body) /\ i \in DOMAIN body.files /\ c.files[i] = FileInput(body.files[i])
  BY <1>1, ContentsIs DEF Holds
<1>3. c.files[i].body = body.files[i].body  BY <1>2 DEF FileInput
<1>4. body.files[i].body \in Notebooks  BY <1>2, <1>3 DEF Holds
<1>5. i \in candidates(body) /\ readNotebook(body.files[i]) = body.files[i].body
      /\ Pins(readNotebook(body.files[i])) = body.files[i].body.pins
  BY <1>2, <1>4, NotebookHas, ReadBack DEF candidates, Pins
<1>6. /\ draft.id \in DOMAIN body.files[i].body.pins
      /\ body.files[i].body.pins[draft.id] = [ref |-> draft.ref, note |-> draft.note]
  BY <1>2, <1>3 DEF Holds
<1>7. body.generation + 1 \in DOMAIN store  BY <1>1 DEF NotesInv, StoreInv
<1> QED  BY <1>1, <1>5, <1>6, <1>7 DEF Stored

LEMMA NotebookSavedKeeps ==
    ASSUME NotesInv, NotebookSaved
    PROVE  NotesStep
<1> DEFINE op == notebook.op
           body == op.answer.body
           kept == op.request.file \in DOMAIN op.request.contents.files
           i == IF kept THEN op.request.file ELSE None
           p == Adopt(page, body, i)
           nb == [notebook EXCEPT !.library = body, !.uncertain = FALSE, !.op = Idle]
<1>1. /\ op.at = "saving" /\ Receipt(op.request, op.answer)
      /\ notebook' = nb /\ (page' = p \/ page' = ChoosePin(p, page.selected))
      /\ UNCHANGED <<client, store, naming, editor, evidence, requests>>
  BY DEF NotebookSaved
<1>2. Held(body) /\ Contents(body) = op.request.contents
  BY <1>1, NotebookNow DEF HeldAnswer, Receipt
<1>3. body \in Documents /\ Loaded(body)  BY <1>2, LibraryNow
<1>4. i \in FileIds \union {None}
  <2>1. op \in NotebookSavings  BY <1>1, NotebookNow, NotebookOpIs
  <2>2. op.request.file \in FileIds  BY <2>1 DEF NotebookSavings, NotebookRequests
  <2> QED  BY <2>2
<1>5. UnsavedStep
  <2>1. CASE ~ page.dirty  BY <2>1 DEF UnsavedStep
  <2>2. CASE page.dirty
    <3>1. Holds(op.request.contents, op.request.file, page.draft)
      BY <1>1, <2>2, PageNow DEF DraftGoes
    <3>2. Stored(page.draft)  BY <1>2, <3>1, ReceiptStored
    <3> QED  BY <3>2 DEF UnsavedStep
  <2> QED  BY <2>1, <2>2
<1> HIDE DEF i
<1>6. nb \in Notebook_ /\ nb.sent = notebook.sent /\ nb.library = body /\ nb.op = Idle
  BY <1>2, TakenIs
<1>7. p \in Pages /\ ShowsNotebook(p, body) /\ ~ p.dirty /\ p.verifying = NotVerifying
  BY <1>3, <1>4, AdoptIs, PageNow
<1> HIDE DEF p, nb, body
<1>8. page.selected \in 0 .. MaxPins  BY PageNow, PageHas
<1>9. page' \in Pages /\ ShowsNotebook(page', body) /\ ~ page'.dirty /\ page'.verifying = NotVerifying
  BY <1>1, <1>7, <1>8, ChoosePinIs
<1>10. VerifiesAlone(page', Idle) /\ DraftGoes(page', Idle)
  BY <1>9, NotVerifyingIs DEF VerifiesAlone, DraftGoes
<1> QED  BY <1>1, <1>2, <1>5, <1>6, <1>9, <1>10, NotVerifyingIs, OperationStep DEF Known

----------------------------------------------------------------------------
(* The names *)

LEMMA NamingNow ==
    ASSUME NotesInv
    PROVE  /\ naming \in Naming_ /\ Known(naming.library) /\ editor \in Editors /\ naming.op \in NamesOps
           /\ naming.library \in Documents \union {NoLibrary} /\ naming.sent \in 0 .. MaxSends
           /\ naming.op.at \in {"reading", "posting"} => (naming.op.owned => editor.open)
           /\ naming.op.at # "idle" => HeldAnswer(naming.op.answer)
           /\ naming.op.at \in {"loading", "reading"} /\ naming.op.answer.kind = "document" /\ Loaded(naming.library) =>
                 naming.op.answer.body.generation >= naming.library.generation
           /\ naming.op.at = "posting" =>
                 Loaded(naming.library) /\ naming.op.request.expected = naming.library.generation
BY DEF NotesInv, NamingInv, Naming_

LEMMA NamesOpIs ==
    ASSUME NEW op \in NamesOps
    PROVE  /\ op.at \in {"idle", "loading", "reading", "posting"}
           /\ op.at = "loading" => op \in NotebookLoadings
           /\ op.at = "reading" => op \in NamesReadings
           /\ op.at = "posting" => op \in NamesPostings
BY DEF NamesOps, NotebookLoadings, NamesReadings, NamesPostings, Idle

LEMMA SameNames ==
    ASSUME NotesInv, naming'.library = naming.library
    PROVE  NamesStep
<1>1. Loaded(naming.library) => naming.library.generation \in Nat
  BY NamingNow, LibraryNow DEF Known
<1> QED  BY <1>1 DEF NamesStep

\* A step that sends nothing.
LEMMA NamingOnlyStep ==
    ASSUME NotesInv, NEW next, NEW shown, NamingOnly(next, shown), next \in Naming_, shown \in Editors,
           Known(next.library),
           next.op.at # "idle" => HeldAnswer(next.op.answer),
           next.op.at \in {"reading", "posting"} => (next.op.owned => shown.open),
           next.op.at \in {"loading", "reading"} /\ next.op.answer.kind = "document" /\ Loaded(next.library) =>
                 next.op.answer.body.generation >= next.library.generation,
           next.op.at = "posting" => Loaded(next.library) /\ next.op.request.expected = next.library.generation,
           Loaded(naming.library) =>
                 Loaded(next.library) /\ next.library.generation >= naming.library.generation
    PROVE  NotesStep
<1>1. naming' = next /\ editor' = shown /\ UNCHANGED <<client, store, notebook, page, evidence, requests>>
  BY DEF NamingOnly
<1>2. \A d : Held(d) => d.generation + 1 \in 1 .. Len(store') /\ d = store'[d.generation + 1]
  BY <1>1 DEF Held
<1>3. NamingInv'  BY <1>1, <1>2 DEF NamingInv, Known, HeldAnswer, Held
<1>4. NamesStep  BY <1>1 DEF NamesStep
<1>5. FlightInv'  BY <1>1, FlightStays DEF NotesInv
<1> QED  BY <1>1, <1>3, <1>4, <1>5, NamingStep

\* Another operation, or none, on the library the names are taken from.
LEMMA NamesOperation ==
    ASSUME NotesInv, NEW op \in NamesOps, NEW shown \in Editors, NamingOnly([naming EXCEPT !.op = op], shown),
           op.at \in {"loading", "reading"} => op.answer = NoAnswer,
           op.at \in {"reading", "posting"} => (op.owned => shown.open),
           op.at # "posting"
    PROVE  NotesStep
<1> DEFINE next == [naming EXCEPT !.op = op]
<1>1. next \in Naming_ /\ next.library = naming.library /\ next.op = op  BY NamingNow DEF Naming_
<1>2. NamingOnly(next, shown)  OBVIOUS
<1> HIDE DEF next
<1>3. op.at # "idle" => op.answer.kind # "document"
  <2>1. NoAnswer.kind # "document"  BY DEF NoAnswer
  <2> QED  BY <2>1, NamesOpIs
<1>4. Loaded(naming.library) => naming.library.generation >= naming.library.generation
  <2>1. Loaded(naming.library) => naming.library.generation \in Nat
    BY NamingNow, LibraryNow DEF Known
  <2> QED  BY <2>1
<1> QED  BY <1>1, <1>2, <1>3, <1>4, NamingNow, NamingOnlyStep DEF HeldAnswer

LEMMA LoadNamesKeeps ==
    ASSUME NotesInv, LoadNames
    PROVE  NotesStep
<1> DEFINE op == [at |-> "loading", answer |-> NoAnswer]
<1>1. NamingOnly([naming EXCEPT !.op = op], editor)  BY DEF LoadNames
<1>2. op \in NamesOps /\ op.at = "loading" /\ op.answer = NoAnswer
  BY DEF NamesOps, NotebookLoadings, NotesAnswers
<1> HIDE DEF op
<1> QED  BY <1>1, <1>2, NamingNow, NamesOperation

LEMMA NamesFailKeeps ==
    ASSUME NotesInv, NamesFail
    PROVE  NotesStep
<1>1. NamingOnly([naming EXCEPT !.op = Idle], editor)  BY DEF NamesFail
<1>2. Idle \in NamesOps /\ Idle.at = "idle"  BY NotVerifyingIs DEF NamesOps
<1> QED  BY <1>1, <1>2, NamingNow, NamesOperation

\* The names are taken from a document that is not older, and the operation ends.
LEMMA NamesTaken ==
    ASSUME NotesInv, NEW body, Held(body), NEW shown \in Editors,
           NamingOnly([naming EXCEPT !.library = body, !.op = Idle], shown),
           Loaded(naming.library) => body.generation >= naming.library.generation
    PROVE  NotesStep
<1> DEFINE next == [naming EXCEPT !.library = body, !.op = Idle]
<1>1. Idle \in NamesOps /\ Idle.at = "idle"  BY NotVerifyingIs DEF NamesOps
<1>2. body \in Documents /\ Loaded(body)  BY LibraryNow
<1>3. next \in Naming_ /\ next.library = body /\ next.op = Idle
  BY <1>1, <1>2, NamingNow DEF Naming_
<1>4. NamingOnly(next, shown)  OBVIOUS
<1> HIDE DEF next
<1> QED  BY <1>1, <1>2, <1>3, <1>4, NamingOnlyStep DEF Known

LEMMA NamesLoadedKeeps ==
    ASSUME NotesInv, NamesLoaded
    PROVE  NotesStep
<1>1. /\ naming.op.at = "loading" /\ naming.op.answer.kind = "document"
      /\ NamingOnly([naming EXCEPT !.library = naming.op.answer.body, !.op = Idle], editor)
  BY DEF NamesLoaded
<1>2. Held(naming.op.answer.body)  BY <1>1, NamingNow DEF HeldAnswer
<1> QED  BY <1>1, <1>2, NamingNow, NamesTaken

LEMMA ObserveKeeps ==
    ASSUME NotesInv, NEW g \in DOMAIN store, Observe(store[g])
    PROVE  NotesStep
<1> DEFINE next == [naming EXCEPT !.library = store[g]]
<1>1. /\ naming.op.at = "idle" /\ NamingOnly(next, editor)
      /\ Loaded(naming.library) => store[g].generation > naming.library.generation
  BY DEF Observe
<1>2. Held(store[g])
  <2>1. g \in 1 .. Len(store) /\ Len(store) \in Nat  BY DEF NotesInv, StoreInv
  <2>2. store[g].generation = g - 1  BY <2>1 DEF NotesInv, StoreInv
  <2> QED  BY <2>1, <2>2 DEF Held
<1>3. store[g] \in Documents /\ Loaded(store[g]) /\ store[g].generation \in Nat
  BY <1>2, LibraryNow
<1>4. next \in Naming_ /\ next.library = store[g] /\ next.op = naming.op
  BY <1>3, NamingNow DEF Naming_
<1> HIDE DEF next
<1>5. Loaded(naming.library) => store[g].generation >= naming.library.generation
  <2>1. Loaded(naming.library) => naming.library.generation \in Nat
    BY NamingNow, LibraryNow DEF Known
  <2> QED  BY <1>1, <1>3, <2>1
<1> QED  BY <1>1, <1>2, <1>3, <1>4, <1>5, NamingNow, NamingOnlyStep DEF Known

----------------------------------------------------------------------------
(* The editor *)

\* A rename whose editor was closed is no one's.
LEMMA DisownedStep ==
    ASSUME NotesInv, NEW shown \in Editors, NamingOnly(Disowned, shown)
    PROVE  NotesStep
<1>1. CASE naming.op.at \in {"reading", "posting"}
  <2> DEFINE op == [naming.op EXCEPT !.owned = FALSE]
             next == [naming EXCEPT !.op = op]
  <2>1. /\ op \in NamesOps /\ op.at = naming.op.at /\ op.answer = naming.op.answer /\ op.owned = FALSE
        /\ op.at = "posting" => op.request = naming.op.request
    <3>1. CASE naming.op.at = "reading"
      <4>1. naming.op \in NamesReadings  BY <3>1, NamingNow, NamesOpIs
      <4>2. op \in NamesReadings /\ op.at = "reading" /\ op.answer = naming.op.answer /\ op.owned = FALSE
        BY <4>1 DEF NamesReadings
      <4> QED  BY <3>1, <4>2 DEF NamesOps
    <3>2. CASE naming.op.at = "posting"
      <4>1. naming.op \in NamesPostings  BY <3>2, NamingNow, NamesOpIs
      <4>2. /\ op \in NamesPostings /\ op.at = "posting" /\ op.answer = naming.op.answer /\ op.owned = FALSE
            /\ op.request = naming.op.request
        BY <4>1 DEF NamesPostings
      <4> QED  BY <3>2, <4>2 DEF NamesOps
    <3> QED  BY <1>1, <3>1, <3>2
  <2>2. Disowned = next  BY <1>1, NamingNow DEF Disowned, Naming_
  <2> HIDE DEF op
  <2>3. next \in Naming_ /\ next.library = naming.library /\ next.op = op
    BY <2>1, NamingNow DEF Naming_
  <2> HIDE DEF next
  <2>4. Loaded(naming.library) => naming.library.generation >= naming.library.generation
    <3>1. Loaded(naming.library) => naming.library.generation \in Nat
      BY NamingNow, LibraryNow DEF Known
    <3> QED  BY <3>1
  <2> QED  BY <1>1, <2>1, <2>2, <2>3, <2>4, NamingNow, NamingOnlyStep
<1>2. CASE naming.op.at \notin {"reading", "posting"}
  <2>1. NamingOnly(naming, shown)  BY <1>2 DEF Disowned
  <2>2. Loaded(naming.library) => naming.library.generation >= naming.library.generation
    <3>1. Loaded(naming.library) => naming.library.generation \in Nat
      BY NamingNow, LibraryNow DEF Known
    <3> QED  BY <3>1
  <2> QED  BY <1>2, <2>1, <2>2, NamingNow, NamingOnlyStep
<1> QED  BY <1>1, <1>2

\* The one name of a library whose names can be shown.
LEMMA NameIs ==
    ASSUME NEW library \in Documents, Ready(library)
    PROVE  NameIn(library) \in ShownNames
<1>1. CASE NamesFiles(library) = {}  BY <1>1 DEF NameIn, ShownNames
<1>2. CASE NamesFiles(library) # {}
  <2> DEFINE i == CHOOSE j \in NamesFiles(library) : TRUE
  <2>1. i \in NamesFiles(library)  BY <1>2
  <2>2. NameIn(library) = library.files[i].body.name  BY <1>2 DEF NameIn
  <2> HIDE DEF i
  <2>3. i \in DOMAIN library.files /\ library.files[i].body.kind = "names"  BY <2>1 DEF NamesFiles
  <2>4. library.files[i].body \in Bodies
    <3>1. library.files \in FileMaps  BY DEF Documents
    <3>2. library.files[i] \in Files  BY <2>3, <3>1, FileMapIs
    <3> QED  BY <3>2 DEF Files
  <2>5. PICK name \in Names \union {Unnamed, Broken} : library.files[i].body = NamesBody(name)
    BY <2>3, <2>4, BodiesAre
  <2>6. NameIn(library) = name  BY <2>2, <2>5 DEF NamesBody
  <2>7. name # Broken  BY <2>1, <2>2, <2>6 DEF Ready
  <2> QED  BY <2>5, <2>6, <2>7 DEF ShownNames
<1> QED  BY <1>1, <1>2

LEMMA BeginRenameKeeps ==
    ASSUME NotesInv, BeginRename
    PROVE  NotesStep
<1> DEFINE base == ShownName(naming.library)
           shown == [open |-> TRUE, base |-> base, input |-> base]
<1>1. NamingOnly(Disowned, shown)  BY DEF BeginRename
<1>2. base \in ShownNames
  <2>1. CASE Loaded(naming.library) /\ Ready(naming.library)
    <3>1. naming.library \in Documents  BY <2>1, NamingNow DEF Loaded
    <3> QED  BY <2>1, <3>1, NameIs DEF ShownName
  <2>2. CASE ~ (Loaded(naming.library) /\ Ready(naming.library))
    BY <2>2 DEF ShownName, ShownNames
  <2> QED  BY <2>1, <2>2
<1> HIDE DEF base
<1>3. shown \in Editors  BY <1>2 DEF Editors
<1> QED  BY <1>1, <1>3, DisownedStep

LEMMA CloseEditorKeeps ==
    ASSUME NotesInv, CloseEditor PROVE NotesStep
<1>1. NoEditor \in Editors  BY DEF Editors
<1> QED  BY <1>1, DisownedStep DEF CloseEditor

LEMMA EditorIs ==
    ASSUME NotesInv, editor.open
    PROVE  editor \in [open : {TRUE}, base : ShownNames, input : ShownNames]
<1>1. NoEditor.open = FALSE  BY DEF NoEditor
<1>2. editor # NoEditor  BY <1>1
<1> QED  BY <1>2, NamingNow DEF Editors

LEMMA EditNameKeeps ==
    ASSUME NotesInv, NEW name \in ShownNames, EditName(name)
    PROVE  NotesStep
<1> DEFINE shown == [editor EXCEPT !.input = name]
<1>1. editor.open /\ NamingOnly(naming, shown)  BY DEF EditName
<1>2. shown \in Editors /\ shown.open  BY <1>1, EditorIs DEF Editors
<1> HIDE DEF shown
<1>3. Loaded(naming.library) => naming.library.generation >= naming.library.generation
  <2>1. Loaded(naming.library) => naming.library.generation \in Nat
    BY NamingNow, LibraryNow DEF Known
  <2> QED  BY <2>1
<1> QED  BY <1>1, <1>2, <1>3, NamingNow, NamingOnlyStep

LEMMA SubmitNameKeeps ==
    ASSUME NotesInv, SubmitName
    PROVE  NotesStep
<1> DEFINE op == [at |-> "reading", answer |-> NoAnswer, owned |-> TRUE, name |-> editor.input, base |-> editor.base]
<1>1. editor.open /\ NamingOnly([naming EXCEPT !.op = op], editor)  BY DEF SubmitName
<1>2. op.at = "reading" /\ op.answer = NoAnswer  OBVIOUS
<1>3. op \in NamesOps
  <2>1. editor.input \in ShownNames /\ editor.base \in ShownNames  BY <1>1, EditorIs
  <2>2. op \in NamesReadings  BY <2>1 DEF NamesReadings, NotesAnswers
  <2> QED  BY <2>2 DEF NamesOps
<1> HIDE DEF op
<1> QED  BY <1>1, <1>2, <1>3, NamingNow, NamesOperation

----------------------------------------------------------------------------
(* A rename *)

\* The library a rename read or wrote is taken; its editor, if it is still there, shows why.
LEMMA RenameEndsStep ==
    ASSUME NotesInv, naming.op.at \in {"reading", "posting"}, NEW library, Held(library), NEW base,
           naming.op.owned => base \in ShownNames,
           RenameEnds(library, base) \/ RenameSucceeds(library),
           Loaded(naming.library) => library.generation >= naming.library.generation
    PROVE  NotesStep
<1>1. NoEditor \in Editors /\ editor \in Editors  BY NamingNow DEF Editors
<1>2. naming.op.owned => [editor EXCEPT !.base = base] \in Editors
  <2> SUFFICES ASSUME naming.op.owned PROVE [editor EXCEPT !.base = base] \in Editors  OBVIOUS
  <2>1. editor.open /\ base \in ShownNames  BY NamingNow
  <2>2. editor \in [open : {TRUE}, base : ShownNames, input : ShownNames]  BY <2>1, EditorIs
  <2> QED  BY <2>1, <2>2 DEF Editors
<1>3. \E shown \in Editors : NamingOnly([naming EXCEPT !.library = library, !.op = Idle], shown)
  BY <1>1, <1>2 DEF RenameEnds, RenameSucceeds
<1> QED  BY <1>3, NamesTaken

LEMMA PostRenameStep ==
    ASSUME NotesInv, naming.op.at = "reading", NEW library, Held(library),
           Ready(library), ~ NameConflicts(library), PostRename(library),
           Loaded(naming.library) => library.generation >= naming.library.generation
    PROVE  NotesStep
<1> DEFINE name == naming.op.name
           only == NamesFiles(library)
           i == IF only = {} THEN NextId(DOMAIN library.files) ELSE CHOOSE j \in only : TRUE
           folder == IF only = {} THEN 1 ELSE library.files[i].folder
           f == [folder |-> folder, body |-> NamesBody(name)]
           files == With(Contents(library).files, i, f)
           c == [folders |-> library.folders, files |-> files]
           w == [client |-> "names", n |-> naming.sent + 1, name |-> name, base |-> naming.op.base,
                 expected |-> library.generation, contents |-> c]
           op == [at |-> "posting", answer |-> NoAnswer, owned |-> naming.op.owned, request |-> w]
<1>1. Renamed(library, name) = files  BY DEF Renamed
<1>2. /\ DOMAIN files \subseteq FileIds /\ naming.sent < MaxSends
      /\ naming' = [library |-> library, sent |-> naming.sent + 1, op |-> op]
      /\ requests' = requests \union {w}
      /\ UNCHANGED <<client, store, notebook, page, editor, evidence>>
  <2> HIDE DEF files
  <2> QED  BY <1>1 DEF PostRename
<1>3. library \in Documents /\ Loaded(library) /\ library.generation \in Nat  BY LibraryNow
<1>4. /\ naming.op \in NamesReadings /\ name \in ShownNames /\ naming.op.base \in ShownNames
      /\ naming.op.owned \in BOOLEAN
  <2>1. naming.op \in NamesReadings  BY NamingNow, NamesOpIs
  <2> QED  BY <2>1 DEF NamesReadings
<1>5. library.files \in FileMaps /\ DOMAIN library.files \subseteq FileIds
      /\ \A j \in DOMAIN library.files : library.files[j].folder \in FolderIds
  <2>1. library.files \in FileMaps  BY <1>3 DEF Documents
  <2>2. \A j \in DOMAIN library.files : library.files[j] \in Files  BY <2>1, FileMapIs
  <2> QED  BY <2>1, <2>2, FileMapIs DEF Files
<1>6. only \subseteq DOMAIN library.files /\ (only # {} => i \in only)  BY DEF NamesFiles
<1>7. only = {} => i \notin DOMAIN library.files
  <2>1. DOMAIN library.files \in SUBSET (1 .. MaxId)  BY <1>5, LibraryAssumption
  <2>2. NextId(DOMAIN library.files) \notin DOMAIN library.files  BY <2>1, NextIdIsNew
  <2>3. only = {} => i = NextId(DOMAIN library.files)  OBVIOUS
  <2> QED  BY <2>2, <2>3
<1>8. folder \in FolderIds  BY <1>5, <1>6, LibraryAssumption
<1> HIDE DEF folder
<1>9. f \in Inputs
  <2>1. NamesBody(name) \in Bodies  BY <1>4, BodiesAre
  <2> QED  BY <1>8, <2>1 DEF Inputs
<1>10. i \in FileIds
  <2>1. i \in DOMAIN files  BY DEF With
  <2> QED  BY <1>2, <2>1
<1> HIDE DEF i, f
<1>11. Made(library, i, files)  BY <1>3, <1>9, <1>10, MadeIs
<1> HIDE DEF files, name
<1>12. w \in NamesRequests
  <2>1. naming.sent + 1 \in Nat  BY NamingNow, BodiesAre
  <2>2. c \in Requests  BY <1>11 DEF Made
  <2> HIDE DEF c
  <2> QED  BY <1>3, <1>4, <2>1, <2>2 DEF NamesRequests
<1>13. w.client = "names" /\ w.base = naming.op.base /\ w.expected = library.generation /\ w.contents.files = files
  OBVIOUS
<1> HIDE DEF w
<1>14. SeenIn(w, library)
  <2>1. Differing(Contents(library).files, w.contents.files) \subseteq {i}
    BY <1>11, <1>13 DEF Made
  <2>2. NameIn(library) = w.base  BY <1>13 DEF NameConflicts
  <2>3. \A S : S \subseteq {i} => (only # {} => S \subseteq only) /\ (only = {} => S \cap DOMAIN library.files = {})
    BY <1>6, <1>7
  <2> HIDE DEF only
  <2>4. only = NamesFiles(library)  BY DEF only
  <2> QED  BY <1>13, <2>1, <2>2, <2>3, <2>4 DEF SeenIn
<1>15. FlightInv'  BY <1>2, <1>12, <1>13, <1>14, SentStep
<1>16. op \in NamesOps /\ op.at = "posting" /\ op.answer.kind # "document" /\ op.owned = naming.op.owned /\ op.request = w
  <2>1. op \in NamesPostings  BY <1>4, <1>12 DEF NamesPostings, NotesAnswers
  <2>2. op \in NamesOps  BY <2>1 DEF NamesOps
  <2> QED  BY <2>2 DEF NoAnswer
<1> HIDE DEF op
<1>17. naming' \in Naming_ /\ naming'.library = library /\ naming'.op = op
  <2>1. naming.sent + 1 \in 0 .. MaxSends  BY <1>2, NamingNow, BodiesAre
  <2> QED  BY <1>2, <1>3, <1>16, <2>1 DEF Naming_
<1>18. NamingInv'
  <2>1. Known(naming.library)'  BY <1>2, <1>17 DEF Known, Held
  <2>2. op.owned => editor.open  BY <1>16, NamingNow
  <2> QED  BY <1>2, <1>3, <1>13, <1>16, <1>17, <2>1, <2>2, NamingNow DEF NamingInv, HeldAnswer
<1>19. NamesStep  BY <1>3, <1>17 DEF NamesStep
<1> QED  BY <1>2, <1>15, <1>18, <1>19, NamingStep

LEMMA RenameReadKeeps ==
    ASSUME NotesInv, RenameRead
    PROVE  NotesStep
<1> DEFINE library == naming.op.answer.body
<1>1. naming.op.at = "reading" /\ naming.op.answer.kind = "document"  BY DEF RenameRead
<1>2. Held(library) /\ (Loaded(naming.library) => library.generation >= naming.library.generation)
  BY <1>1, NamingNow DEF HeldAnswer
<1>3. library \in Documents  BY <1>2, LibraryNow
<1>4. CASE ~ Ready(library)
  <2>1. RenameEnds(library, editor.base)  BY <1>4 DEF RenameRead
  <2>2. naming.op.owned => editor.base \in ShownNames  BY <1>1, NamingNow, EditorIs
  <2> HIDE DEF library
  <2> QED  BY <1>1, <1>2, <2>1, <2>2, RenameEndsStep
<1>5. CASE Ready(library)
  <2>1. NameIn(library) \in ShownNames  BY <1>3, <1>5, NameIs
  <2>2. \/ RenameSucceeds(library)
        \/ RenameEnds(library, NameIn(library))
        \/ ~ NameConflicts(library) /\ PostRename(library)
    BY <1>5 DEF RenameRead
  <2> HIDE DEF library
  <2> QED  BY <1>1, <1>2, <1>5, <2>1, <2>2, RenameEndsStep, PostRenameStep
<1> QED  BY <1>4, <1>5

LEMMA RenameSavedKeeps ==
    ASSUME NotesInv, RenameSaved
    PROVE  NotesStep
<1> DEFINE library == naming.op.answer.body
<1>1. /\ naming.op.at = "posting" /\ Receipt(naming.op.request, naming.op.answer)
      /\ RenameSucceeds(library)
  BY DEF RenameSaved
<1>2. Held(library)  BY <1>1, NamingNow DEF HeldAnswer, Receipt
<1>3. Loaded(naming.library) /\ library.generation >= naming.library.generation
  <2>1. Loaded(naming.library) /\ naming.op.request.expected = naming.library.generation
    BY <1>1, NamingNow
  <2>2. naming.library.generation \in Nat  BY <2>1, NamingNow, LibraryNow DEF Known
  <2>3. library.generation \in {naming.library.generation, naming.library.generation + 1}
    BY <1>1, <2>1 DEF Receipt
  <2> QED  BY <2>1, <2>2, <2>3
<1> HIDE DEF library
<1>4. naming.op.owned => Unnamed \in ShownNames  BY DEF ShownNames
<1> QED  BY <1>1, <1>2, <1>3, <1>4, RenameEndsStep

----------------------------------------------------------------------------
(* The store, the other windows and the evidence *)

\* What the current document is after a step.
LEMMA CurrentThen ==
    ASSUME StoreInv'
    PROVE  /\ Current' \in Documents /\ Current' = store'[Len(store')] /\ Current'.generation = Len(store') - 1
           /\ Held(Current)' /\ Len(store') \in Nat
<1>1. Len(store') \in 1 .. Len(store') /\ Len(store') \in Nat  BY DEF StoreInv
<1>2. Current' = store'[Len(store')]  BY DEF Current
<1>3. Current' \in Documents /\ Current'.generation = Len(store') - 1  BY <1>1, <1>2 DEF StoreInv
<1>4. Current'.generation + 1 = Len(store')  BY <1>1, <1>3
<1> QED  BY <1>1, <1>2, <1>3, <1>4 DEF Held

\* An answer reaches the operation that awaits it.
LEMMA NotebookAnswered ==
    ASSUME NotesInv, \A d : Held(d) => Held(d)', NEW answer \in NotesAnswers,
           answer.kind = "document" =>
               answer.body.generation + 1 \in 1 .. Len(store') /\ answer.body = store'[answer.body.generation + 1],
           notebook.op.at \in {"loading", "saving"}, notebook' = [notebook EXCEPT !.op.answer = answer],
           UNCHANGED <<page, evidence>>
    PROVE  NotebookInv' /\ PinsStep /\ UnsavedStep
<1> DEFINE op == [notebook.op EXCEPT !.answer = answer]
<1>1. op \in NotebookOps /\ op.at = notebook.op.at /\ op.answer = answer
      /\ (op.at = "saving" => op.request = notebook.op.request)
  <2>1. CASE notebook.op.at = "loading"
    <3>1. notebook.op \in NotebookLoadings  BY <2>1, NotebookNow, NotebookOpIs
    <3>2. op \in NotebookLoadings /\ op.at = "loading" /\ op.answer = answer
      BY <3>1 DEF NotebookLoadings
    <3> QED  BY <2>1, <3>2 DEF NotebookOps
  <2>2. CASE notebook.op.at = "saving"
    <3>1. notebook.op \in NotebookSavings  BY <2>2, NotebookNow, NotebookOpIs
    <3>2. op \in NotebookSavings /\ op.at = "saving" /\ op.answer = answer /\ op.request = notebook.op.request
      BY <3>1 DEF NotebookSavings
    <3> QED  BY <2>2, <3>2 DEF NotebookOps
  <2> QED  BY <2>1, <2>2
<1>2. notebook' = [notebook EXCEPT !.op = op]  BY NotebookNow DEF Notebook_
<1> HIDE DEF op
<1>3. /\ notebook' \in Notebook_ /\ notebook'.library = notebook.library /\ notebook'.sent = notebook.sent
      /\ notebook'.op = op
  BY <1>1, <1>2, NotebookNow DEF Notebook_
<1>4. Known(notebook.library)'  BY <1>3, NotebookNow DEF Known, Held
<1>5. ShowsNotebook(page, notebook.library)' /\ page' \in Pages /\ evidence' \in Versions \union {Gone}
  BY <1>3, PageNow
<1>6. VerifiesAlone(page, notebook.op)' /\ DraftGoes(page, notebook.op)'
  BY <1>1, <1>3, PageNow DEF VerifiesAlone, DraftGoes
<1>7. NotebookInv'  BY <1>1, <1>3, <1>4, <1>5, <1>6 DEF NotebookInv, HeldAnswer, Held
<1>8. PinsStep /\ UnsavedStep  BY <1>3 DEF PinsStep, UnsavedStep
<1> QED  BY <1>7, <1>8

LEMMA NamesAnswered ==
    ASSUME NotesInv, \A d : Held(d) => Held(d)', NEW answer \in NotesAnswers,
           answer.kind = "document" =>
               answer.body.generation + 1 \in 1 .. Len(store') /\ answer.body = store'[answer.body.generation + 1],
           naming.op.at \in {"loading", "reading", "posting"}, naming' = [naming EXCEPT !.op.answer = answer],
           naming.op.at \in {"loading", "reading"} /\ answer.kind = "document" /\ Loaded(naming.library) =>
               answer.body.generation >= naming.library.generation,
           UNCHANGED editor
    PROVE  NamingInv' /\ NamesStep
<1> DEFINE op == [naming.op EXCEPT !.answer = answer]
<1>1. op \in NamesOps /\ op.at = naming.op.at /\ op.answer = answer
      /\ (op.at \in {"reading", "posting"} => op.owned = naming.op.owned)
      /\ (op.at = "posting" => op.request = naming.op.request)
  <2>1. CASE naming.op.at = "loading"
    <3>1. naming.op \in NotebookLoadings  BY <2>1, NamingNow, NamesOpIs
    <3>2. op \in NotebookLoadings /\ op.at = "loading" /\ op.answer = answer
      BY <3>1 DEF NotebookLoadings
    <3> QED  BY <2>1, <3>2 DEF NamesOps
  <2>2. CASE naming.op.at = "reading"
    <3>1. naming.op \in NamesReadings  BY <2>2, NamingNow, NamesOpIs
    <3>2. op \in NamesReadings /\ op.at = "reading" /\ op.answer = answer /\ op.owned = naming.op.owned
      BY <3>1 DEF NamesReadings
    <3> QED  BY <2>2, <3>2 DEF NamesOps
  <2>3. CASE naming.op.at = "posting"
    <3>1. naming.op \in NamesPostings  BY <2>3, NamingNow, NamesOpIs
    <3>2. /\ op \in NamesPostings /\ op.at = "posting" /\ op.answer = answer
          /\ op.owned = naming.op.owned /\ op.request = naming.op.request
      BY <3>1 DEF NamesPostings
    <3> QED  BY <2>3, <3>2 DEF NamesOps
  <2> QED  BY <2>1, <2>2, <2>3
<1>2. naming' = [naming EXCEPT !.op = op]  BY NamingNow DEF Naming_
<1> HIDE DEF op
<1>3. naming' \in Naming_ /\ naming'.library = naming.library /\ naming'.op = op
  BY <1>1, <1>2, NamingNow DEF Naming_
<1>4. Known(naming.library)'  BY <1>3, NamingNow DEF Known, Held
<1>5. NamingInv'  BY <1>1, <1>3, <1>4, NamingNow DEF NamingInv, HeldAnswer, Held
<1> QED  BY <1>3, <1>5, SameNames

LEMMA AnswersKeep ==
    ASSUME NotesInv, AnswerNotebook \/ AnswerNames
    PROVE  NotesStep
<1> DEFINE answer == Answer(Current)
<1>1. /\ Current \in Documents /\ Current.generation = Len(store) - 1 /\ Held(Current) /\ Len(store) \in Nat
      /\ Current = Current
  BY CurrentIs DEF NotesInv
<1>2. answer \in NotesAnswers /\ answer.kind = "document" /\ answer.body = Current
  BY <1>1 DEF Answer, NotesAnswers
<1> HIDE DEF answer
<1>3. CASE AnswerNotebook
  <2>1. /\ notebook.op.at = "loading" /\ notebook' = [notebook EXCEPT !.op.answer = answer]
        /\ UNCHANGED <<client, store, page, naming, editor, evidence, requests>>
    BY <1>3 DEF AnswerNotebook, answer
  <2>2. StoreInv' /\ \A d : Held(d) => Held(d)'  BY <2>1, SameStore DEF NotesInv
  <2>3. NotebookInv' /\ PinsStep /\ UnsavedStep
    BY <1>1, <1>2, <2>1, <2>2, NotebookAnswered DEF Held
  <2>4. NamingInv' /\ NamesStep  BY <2>1, <2>2, NamesStay DEF NotesInv
  <2>5. FlightInv'  BY <2>1, FlightStays DEF NotesInv
  <2> QED  BY <2>1, <2>2, <2>3, <2>4, <2>5 DEF NotesStep, NotesInv
<1>4. CASE AnswerNames
  <2>1. /\ naming.op.at \in {"loading", "reading"} /\ naming' = [naming EXCEPT !.op.answer = answer]
        /\ UNCHANGED <<client, store, notebook, page, editor, evidence, requests>>
    BY <1>4 DEF AnswerNames, answer
  <2>2. \A d : Held(d) => Held(d)'  BY <2>1, SameStore DEF NotesInv
  <2>3. Loaded(naming.library) => Current.generation >= naming.library.generation
    <3>1. Loaded(naming.library) => /\ naming.library.generation \in Nat
                                      /\ naming.library.generation <= Len(store) - 1
      BY NamingNow, HeldIs DEF Known, NotesInv
    <3> QED  BY <1>1, <3>1
  <2>4. NamingInv' /\ NamesStep  BY <1>1, <1>2, <2>1, <2>2, <2>3, NamesAnswered DEF Held
  <2>5. FlightInv'  BY <2>1, FlightStays DEF NotesInv
  <2> QED  BY <2>1, <2>4, <2>5, NamingStep
<1> QED  BY <1>3, <1>4

LEMMA RequestHas ==
    ASSUME NotesInv, NEW w \in requests
    PROVE  w.contents \in Requests /\ w.expected \in Nat
<1>1. w \in NotebookRequests \union NamesRequests  BY DEF NotesInv, FlightInv
<1> QED  BY <1>1 DEF NotebookRequests, NamesRequests

\* The store answers a request, or its answer comes too late.
LEMMA NotesHandled ==
    ASSUME NotesInv, NEW w \in requests, StoreAnswers(w)
    PROVE  NotesStep
<1>1. /\ HasRoom(w) /\ (IF Refused(w) THEN UNCHANGED store ELSE Replace(w)) /\ requests' = requests \ {w}
      /\ UNCHANGED <<client, page, editor, evidence>>
  BY DEF StoreAnswers
<1>2. StoreInv' /\ (store' = store \/ (Grows /\ Len(store') \in Nat)) /\ \A d : Held(d) => Held(d)'
  <2>1. CASE Refused(w)  BY <1>1, <2>1, SameStore DEF NotesInv
  <2>2. CASE ~ Refused(w)
    <3>1. StoreInv' /\ Grows /\ Len(store') \in Nat
      BY <1>1, <2>2, RequestHas, ReplaceStep DEF NotesInv
    <3>2. \A d : Held(d) => Held(d)'  BY <3>1, StillHeld DEF NotesInv
    <3> QED  BY <3>1, <3>2
  <2> QED  BY <2>1, <2>2
<1>3. PICK answer \in {Refusal, Answer(Current')} :
          /\ notebook' = IF notebook.op.at = "saving" /\ notebook.op.request = w
                         THEN [notebook EXCEPT !.op.answer = answer] ELSE notebook
          /\ naming' = IF naming.op.at = "posting" /\ naming.op.request = w
                       THEN [naming EXCEPT !.op.answer = answer] ELSE naming
  BY <1>2, CurrentThen DEF StoreAnswers
<1>4. answer \in NotesAnswers
      /\ (answer.kind = "document" =>
             answer.body.generation + 1 \in 1 .. Len(store') /\ answer.body = store'[answer.body.generation + 1])
  <2>1. CASE answer = Refusal  BY <2>1 DEF Refusal, NotesAnswers
  <2>2. CASE answer = Answer(Current')
    <3>1. Current' \in Documents /\ Held(Current)'  BY <1>2, CurrentThen
    <3>2. answer \in NotesAnswers /\ answer.body = Current'
      BY <2>2, <3>1 DEF Answer, NotesAnswers
    <3> QED  BY <3>1, <3>2 DEF Held
  <2> QED  BY <2>1, <2>2
<1>5. NotebookInv' /\ PinsStep /\ UnsavedStep
  <2>1. CASE notebook' = notebook  BY <1>1, <1>2, <2>1, PageNow, NotebookStays DEF NotesInv
  <2>2. CASE notebook.op.at = "saving" /\ notebook' = [notebook EXCEPT !.op.answer = answer]
    BY <1>1, <1>2, <1>4, <2>2, NotebookAnswered
  <2> QED  BY <1>3, <2>1, <2>2
<1>6. NamingInv' /\ NamesStep
  <2>1. CASE naming' = naming  BY <1>1, <1>2, <2>1, NamesStay DEF NotesInv
  <2>2. CASE naming.op.at = "posting" /\ naming' = [naming EXCEPT !.op.answer = answer]
    BY <1>1, <1>2, <1>4, <2>2, NamesAnswered
  <2> QED  BY <1>3, <2>1, <2>2
<1>7. FlightInv'  BY <1>1, <1>2, FlightStays DEF NotesInv
<1> QED  BY <1>1, <1>2, <1>5, <1>6, <1>7 DEF NotesStep, NotesInv

LEMMA NotesElsewhere ==
    ASSUME NotesInv, NEW c \in OtherContents, AnotherWindow(c)
    PROVE  NotesStep
<1> DEFINE w == [expected |-> Current.generation, contents |-> c]
<1>1. /\ c \in OtherContents /\ OtherWindowSaves(c)
      /\ UNCHANGED <<client, notebook, page, naming, editor, evidence, requests>>
  BY DEF AnotherWindow
<1>2. Replace(w) /\ Len(store) <= MaxGeneration  BY <1>1 DEF OtherWindowSaves
<1>3. w.contents \in Requests  BY <1>1, OtherRequest DEF NotesInv
<1> HIDE DEF w
<1>4. HasRoom(w)  BY <1>2 DEF HasRoom
<1>5. StoreInv' /\ Grows /\ Len(store') \in Nat  BY <1>2, <1>3, <1>4, ReplaceStep DEF NotesInv
<1>6. \A d : Held(d) => Held(d)'  BY <1>5, StillHeld DEF NotesInv
<1>7. NotebookInv' /\ PinsStep /\ UnsavedStep  BY <1>1, <1>6, PageNow, NotebookStays DEF NotesInv
<1>8. NamingInv' /\ NamesStep  BY <1>1, <1>6, NamesStay DEF NotesInv
<1>9. FlightInv'  BY <1>1, <1>5, FlightStays DEF NotesInv
<1> QED  BY <1>1, <1>5, <1>7, <1>8, <1>9 DEF NotesStep, NotesInv

LEMMA EvidenceKeeps ==
    ASSUME NotesInv, UNCHANGED <<client, store, notebook, page, naming, editor, requests>>,
           evidence' \in Versions \union {Gone}
    PROVE  NotesStep
<1>1. StoreInv' /\ \A d : Held(d) => Held(d)'  BY SameStore DEF NotesInv
<1>2. NotebookInv' /\ PinsStep /\ UnsavedStep  BY <1>1, NotebookStays DEF NotesInv
<1>3. NamingInv' /\ NamesStep  BY <1>1, NamesStay DEF NotesInv
<1>4. FlightInv'  BY FlightStays DEF NotesInv
<1> QED  BY <1>1, <1>2, <1>3, <1>4 DEF NotesStep, NotesInv

----------------------------------------------------------------------------
(* Every behaviour of the two clients *)

LEMMA NotesInitInv ==
    ASSUME NotesInit
    PROVE  NotesInv
<1>1. PICK document \in Found : store = <<document>>  BY DEF NotesInit, InitStore
<1>2. document \in Documents /\ document.generation = 0 /\ WellFormed(document)
  BY <1>1, FoundAssumption
<1>3. StoreInv
  <2>1. store \in Seq(Documents) /\ Len(store) = 1 /\ store[1] = document  BY <1>1, <1>2
  <2>2. \A g \in 1 .. Len(store) : g = 1  BY <2>1
  <2> QED  BY <1>2, <2>1, <2>2 DEF StoreInv
<1>4. Idle \in NotebookOps /\ Idle \in NamesOps /\ NoEditor \in Editors /\ NotVerifying \in Verifyings
  BY DEF NotebookOps, NamesOps, Editors, Verifyings
<1>5. 0 \in 0 .. MaxSends /\ None \in 0 .. MaxPins /\ None \in FileIds \union {None}
  BY BodiesAre DEF None
<1>6. ~ Loaded(NoLibrary)  BY DEF Loaded
<1>7. NotebookInv
  <2>1. notebook \in Notebook_ /\ notebook.library = NoLibrary /\ notebook.op = Idle
    BY <1>4, <1>5 DEF NotesInit, Notebook_
  <2>2. page \in Pages /\ page.base = NoFile /\ page.doc = NoBody /\ page.draft = NoDraft /\ ~ page.dirty
        /\ page.verifying = NotVerifying
    BY <1>4, <1>5 DEF NotesInit, Pages
  <2>3. readNotebook(NoFile) = NoBody  BY DEF readNotebook, NoFile, NoBody
  <2>4. ShowsNotebook(page, notebook.library)  BY <1>6, <2>1, <2>2, <2>3 DEF ShowsNotebook
  <2>5. evidence \in Versions \union {Gone}  BY DEF NotesInit
  <2> QED
    BY <1>6, <2>1, <2>2, <2>4, <2>5, NotVerifyingIs DEF NotebookInv, Known, VerifiesAlone, DraftGoes
<1>8. NamingInv
  <2>1. naming \in Naming_ /\ naming.library = NoLibrary /\ naming.op = Idle /\ editor = NoEditor
    BY <1>4, <1>5 DEF NotesInit, Naming_
  <2> QED  BY <1>4, <1>6, <2>1, NotVerifyingIs DEF NamingInv, Known
<1>9. FlightInv /\ client \in {"notebook", "names"}  BY DEF NotesInit, FlightInv
<1> QED  BY <1>3, <1>7, <1>8, <1>9 DEF NotesInv

LEMMA NotesNextInv ==
    ASSUME NotesInv, [NotesNext]_notesVars
    PROVE  NotesStep
<1>1. CASE Notebook
  <2>1. CASE Reload \/ LibraryLoaded \/ NotebookSaved \/ OperationFails \/ CancelOrHide
    BY <2>1, ReloadKeeps, LibraryLoadedKeeps, NotebookSavedKeeps, EndsKeeps
  <2>2. CASE CreateNotebook \/ SavePin \/ SaveVerified \/ DeletePin \/ DeleteNotebook
    BY <2>2, CreateNotebookKeeps, SavePinKeeps, SaveVerifiedKeeps, DeletePinKeeps, DeleteNotebookKeeps
  <2>3. CASE Discard \/ AddPin \/ AddVerified \/ OpenPin \/ OpenVerified \/ OpenRefused
    BY <2>3, DiscardKeeps, AddPinKeeps, AddVerifiedKeeps, OpenPinKeeps, OpenEndsKeeps
  <2>4. CASE \E i \in FileIds : SelectNotebook(i)  BY <2>4, SelectNotebookKeeps
  <2>5. CASE \E id \in 1 .. MaxPins : SelectPin(id)  BY <2>5, SelectPinKeeps
  <2>6. CASE \E note \in Notes : EditNote(note)  BY <2>6, EditNoteKeeps
  <2> QED  BY <1>1, <2>1, <2>2, <2>3, <2>4, <2>5, <2>6 DEF Notebook
<1>2. CASE Naming
  <2>1. CASE LoadNames \/ NamesLoaded \/ BeginRename \/ CloseEditor \/ SubmitName
    BY <2>1, LoadNamesKeeps, NamesLoadedKeeps, BeginRenameKeeps, CloseEditorKeeps, SubmitNameKeeps
  <2>2. CASE RenameRead \/ RenameSaved \/ NamesFail
    BY <2>2, RenameReadKeeps, RenameSavedKeeps, NamesFailKeeps
  <2>3. CASE \E name \in Names \union {Unnamed} : EditName(name)
    BY <2>3, EditNameKeeps DEF ShownNames
  <2>4. CASE \E g \in DOMAIN store : Observe(store[g])  BY <2>4, ObserveKeeps
  <2> QED  BY <1>2, <2>1, <2>2, <2>3, <2>4 DEF Naming
<1>3. CASE NotesEnvironment
  <2>1. CASE \E w \in requests : StoreAnswers(w)  BY <2>1, NotesHandled
  <2>2. CASE AnswerNotebook \/ AnswerNames  BY <2>2, AnswersKeep
  <2>3. CASE EvidenceChanges  BY <2>3, EvidenceKeeps DEF EvidenceChanges
  <2>4. CASE \E c \in OtherContents : AnotherWindow(c)  BY <2>4, NotesElsewhere
  <2> QED  BY <1>3, <2>1, <2>2, <2>3, <2>4 DEF NotesEnvironment
<1>4. CASE UNCHANGED notesVars  BY <1>4, PageNow, EvidenceKeeps DEF notesVars
<1> QED  BY <1>1, <1>2, <1>3, <1>4 DEF NotesNext

\* Whatever the two clients, the other windows and late answers do, each client knows a document
\* of the library, its page shows that document's notebook, and what is in flight was made on a
\* document of the library whose notebook or name its user saw (investigation_notebook.js,
\* evidence_names.js).
THEOREM NotesInvCorrect == NotesSpec => []NotesInv
<1>1. NotesInit => NotesInv  BY NotesInitInv
<1>2. NotesInv /\ [NotesNext]_notesVars => NotesInv'  BY NotesNextInv DEF NotesStep
<1> QED  BY <1>1, <1>2, PTL DEF NotesSpec

\* The documents of the library, the stores of the two clients, the page and the editor have
\* their types.
THEOREM NotesTypeOKCorrect == NotesSpec => []NotesTypeOK
<1>1. NotesInv => NotesTypeOK
  <2> SUFFICES ASSUME NotesInv PROVE NotesTypeOK  OBVIOUS
  <2>1. \A g \in DOMAIN store : store[g] \in Documents /\ store[g].generation = g - 1
    BY DEF NotesInv, StoreInv
  <2>2. /\ notebook.op.at \in {"idle", "loading", "saving"} /\ notebook.sent \in 0 .. MaxSends
        /\ Loaded(notebook.library) => notebook.library \in Documents
    BY NotebookNow, NotebookOpIs DEF Loaded
  <2>3. page.file \in FileIds \union {None} /\ page.selected \in 0 .. MaxPins  BY PageNow, PageHas
  <2>4. page.draft = NoDraft \/ page.draft \in [id : 1 .. MaxPins, ref : Versions, note : Notes]
    BY PageNow, PageHas DEF Drafts
  <2>5. page.verifying.kind \in {"none", "add", "save", "open"}
    <3>1. page.verifying \in Verifyings  BY PageNow, PageHas
    <3> QED  BY <3>1, NotVerifyingIs DEF Verifyings
  <2>6. /\ naming.op.at \in {"idle", "loading", "reading", "posting"} /\ naming.sent \in 0 .. MaxSends
        /\ Loaded(naming.library) => naming.library \in Documents
    BY NamingNow, NamesOpIs DEF Loaded
  <2>7. evidence \in Versions \union {Gone} /\ client \in {"notebook", "names"}
    BY PageNow DEF NotesInv
  <2> QED  BY <2>1, <2>2, <2>3, <2>4, <2>5, <2>6, <2>7 DEF NotesTypeOK
<1> QED  BY <1>1, NotesInvCorrect, PTL

\* Neither client overwrites what its user did not see: a replacement that the store carries out
\* changes the notebook the draft was made on, still as it was then, or the one name the editor
\* was opened on, and nothing else, however late it arrives (persist, persistNames, Store::replace).
THEOREM NotesOverwritesOnlySeenCorrect == NotesSpec => NotesOverwritesOnlySeen
<1>1. ASSUME NotesInv, NEW w \in requests, StoreAnswers(w), store' # store
      PROVE  SeenIn(w, Current)
  <2>1. w.expected = Current.generation  BY <1>1 DEF StoreAnswers, Refused
  <2>2. Current.generation = Len(store) - 1 /\ Len(store) \in Nat  BY <1>1, CurrentIs DEF NotesInv
  <2>3. w.expected + 1 = Len(store)  BY <2>1, <2>2
  <2>4. store[w.expected + 1] = Current  BY <2>3 DEF Current
  <2> QED  BY <1>1, <2>4 DEF NotesInv, FlightInv
<1>2. NotesInv /\ [NotesNext]_notesVars =>
          [\A w \in requests : StoreAnswers(w) /\ store' # store => SeenIn(w, Current)]_notesVars
  BY <1>1
<1> QED  BY <1>2, NotesInvCorrect, PTL DEF NotesSpec, NotesOverwritesOnlySeen

\* The names shown never go back to an older library, in whatever order documents read by the
\* Analyst, a load and a rename are taken (observe, load, rename in evidence_names.js).
THEOREM NamesAdvanceCorrect == NotesSpec => NamesAdvance
<1>1. NotesInv /\ [NotesNext]_notesVars => NamesStep  BY NotesNextInv DEF NotesStep
<1> QED  BY <1>1, NotesInvCorrect, PTL DEF NotesSpec, NamesAdvance, NamesStep

\* A pin is sent to the library only while the retained record is what the pin refers to, though
\* its digest was awaited (verified, savePin in investigation_notebook.js).
THEOREM PinsVerifiedCorrect == NotesSpec => PinsVerified
<1>1. NotesInv /\ [NotesNext]_notesVars => PinsStep  BY NotesNextInv DEF NotesStep
<1> QED  BY <1>1, NotesInvCorrect, PTL DEF NotesSpec, PinsVerified, PinsStep

\* An unsaved pin or note goes only when its user discards or changes it, or when some version of
\* the library holds it: no load, late answer, failure or other window's write loses it.
THEOREM NotesDraftKeptCorrect == NotesSpec => NotesDraftKept
<1>1. NotesInv /\ [NotesNext]_notesVars => UnsavedStep  BY NotesNextInv DEF NotesStep
<1> QED  BY <1>1, NotesInvCorrect, PTL DEF NotesSpec, NotesDraftKept, UnsavedStep
=============================================================================
