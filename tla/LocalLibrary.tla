---------------------------- MODULE LocalLibrary ----------------------------
(***************************************************************************)
(* The local library behind the Analyst workspace, the investigation       *)
(* notebook and the evidence names: one document of folders and files that *)
(* every window replaces as a whole under compare-and-swap on its          *)
(* generation (Store::replace and Store::load of the Origin Trace backend).*)
(* A folder is its name, a file the folder it lies in and a body that      *)
(* stands for its other editable fields.  The time stamp the store gives a *)
(* new file is the generation that created it.                             *)
(***************************************************************************)
EXTENDS Naturals, Sequences, FiniteSets, FiniteSetsExt, TLC

CONSTANTS MaxId,          \* the largest identifier
          FolderIds,      \* folder identifiers, 1 is the root
          FileIds,        \* file identifiers
          FolderNames,    \* names a folder can be given
          Bodies,         \* contents a file can be given
          Edits,          \* the folder and body an edit gives a file, for each file
          NewFolder,      \* the name a created folder gets first
          MaxGeneration,  \* bound: the last generation that is written
          Found           \* the documents a session may find; generations count from there

ASSUME LibraryAssumption ==
    /\ MaxId \in Nat /\ FolderIds \union FileIds \subseteq 1..MaxId /\ 1 \in FolderIds
    /\ FolderIds # {1} => NewFolder \in FolderNames
    /\ MaxGeneration \in Nat
    /\ Edits \in [FileIds -> SUBSET [folder : FolderIds, body : Bodies]]

VARIABLE store            \* the documents of generation 0, 1, ... ; the last is current

Root == "root"

\* No identifier, no body and no file.
None == 0
NoBody == [kind |-> "none"]
NoFile == [created |-> 0, folder |-> 0, body |-> NoBody]

Inputs == [folder : FolderIds, body : Bodies]
Files == [created : 0..MaxGeneration, folder : FolderIds, body : Bodies]

FolderMaps == UNION {[D -> FolderNames \union {Root}] : D \in {S \in SUBSET FolderIds : 1 \in S}}
FileMaps == UNION {[D -> Files] : D \in SUBSET FileIds}
Documents == [generation : 0..MaxGeneration, folders : FolderMaps, files : FileMaps]

\* What a client submits and compares: a file without its time stamps.
FileInput(file) == [folder |-> file.folder, body |-> file.body]
Contents(document) ==
    [folders |-> document.folders,
     files |-> [i \in DOMAIN document.files |-> FileInput(document.files[i])]]

Current == store[Len(store)]

File(document, i) == IF i \in DOMAIN document.files THEN document.files[i] ELSE NoFile

\* Where two maps differ.
Differing(f, g) == {i \in DOMAIN f \union DOMAIN g : i \notin DOMAIN f \/ i \notin DOMAIN g \/ f[i] # g[i]}

\* What a client's request is answered with.
NoAnswer == [kind |-> "none"]
Answer(document) == [kind |-> "document", body |-> document]
Refusal == [kind |-> "error"]

\* A map with one item put in or taken out, and the identifier after the last one.
With(f, i, value) == [j \in DOMAIN f \union {i} |-> IF j = i THEN value ELSE f[j]]
Without(f, i) == [j \in DOMAIN f \ {i} |-> f[j]]
NextId(S) == IF S = {} THEN 1 ELSE Max(S) + 1

-----------------------------------------------------------------------------
WellFormed(contents) ==
    /\ contents.folders[1] = Root
    /\ \A i \in DOMAIN contents.files : contents.files[i].folder \in DOMAIN contents.folders

\* A session begins with a document that was once accepted.
ASSUME FoundAssumption == \A d \in Found : d \in Documents /\ d.generation = 0 /\ WellFormed(d)

\* The document that replaces the current one; a file keeps the generation that made it.
Candidate(request) ==
    [generation |-> Current.generation + 1,
     folders |-> request.contents.folders,
     files |-> [i \in DOMAIN request.contents.files |->
         [created |-> IF i \in DOMAIN Current.files THEN Current.files[i].created
                      ELSE Current.generation + 1,
          folder |-> request.contents.files[i].folder,
          body |-> request.contents.files[i].body]]]

\* Mutant: a request for an older generation is still carried out.
Bug_Refused_OlderAccepted(request) ==
    \/ request.expected > Current.generation
    \/ ~WellFormed(request.contents)

\* A request made on another generation, or an invalid document, is refused.
Refused(request) ==
    \/ request.expected # Current.generation
    \/ ~WellFormed(request.contents)

\* The store replaces its document, or finds it equal and keeps it.
Replace(request) ==
    /\ ~Refused(request)
    /\ store' = IF request.contents = Contents(Current) THEN store
                ELSE Append(store, Candidate(request))

\* A bound: the requests the instance has room for.
HasRoom(request) ==
    Refused(request) \/ request.contents = Contents(Current) \/ Len(store) <= MaxGeneration

\* The contents with one file or one folder written, created or deleted.
OneChange(now) ==
    (UNION {{[now EXCEPT !.files = With(now.files, i, f)] : f \in Edits[i]} : i \in FileIds})
    \union {[now EXCEPT !.files = Without(now.files, i)] : i \in FileIds}
    \union {[now EXCEPT !.folders = With(now.folders, d, n)] :
                d \in DOMAIN now.folders \ {1}, n \in FolderNames}
    \union {[now EXCEPT !.folders = With(now.folders, d, NewFolder)] : d \in FolderIds \ {1}}
    \union {[now EXCEPT !.folders = Without(now.folders, d)] : d \in FolderIds \ {1}}

\* A whole-document replacement by another window, of one item.
OtherContents ==
    LET now == Contents(Current) IN {c \in OneChange(now) : WellFormed(c) /\ c # now}

OtherWindowSaves(contents) ==
    /\ Len(store) <= MaxGeneration
    /\ Replace([expected |-> Current.generation, contents |-> contents])

InitStore == \E document \in Found : store = <<document>>
=============================================================================
