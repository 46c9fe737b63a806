--------------------------- MODULE MCLibraryNotes ---------------------------
(* Small instance of LibraryNotes for TLC. *)
EXTENDS LibraryNotes

CONSTANTS A, n1, n2, e1, e2

\* A library with one empty notebook.
MCFound == {[generation |-> 0, folders |-> (1 :> Root),
             files |-> (1 :> [created |-> 0, folder |-> 1, body |-> EmptyNotebook])]}

MCBodies == Notebooks \union {NamesBody(name) : name \in {A, Unnamed, Broken}}

\* Another window replaces the notebook or the names.
MCEdits == (1 :> {[folder |-> 1, body |-> NotebookBody(2, 1 :> [ref |-> e1, note |-> n1])]})
        @@ (2 :> {[folder |-> 1, body |-> NamesBody(A)], [folder |-> 1, body |-> NamesBody(Broken)]})
=============================================================================
