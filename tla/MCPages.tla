------------------------------ MODULE MCPages ------------------------------
(* The pages over what the rig stores: programs, their library, sessions    *)
(* and one session; and a controller's faceplate, its rows apart from the   *)
(* age of its reading. An initial state picks one part; the others stand    *)
(* still.                                                                   *)
EXTENDS ProgramEditor, ProgramLibrary, SessionsPage, SessionDetail, Faceplate

VARIABLE part

pagesVars == <<part, editorVars, libraryVars, pageVars, detailVars, faceVars>>

\* Where a part that stands still could be one thing or another, it is this.
Resting ==
    /\ part # "editor" => library = <<Text(Empty, "yaml")>>
    /\ part # "library" => shelf = [n \in Programs |-> 0] /\ onDisk = NoProgram
    /\ part # "sessions" => ~stored[2].open
    /\ part # "detail" => ended = {} /\ id = CHOOSE i \in Ids : TRUE

PagesInit ==
    /\ part \in {"editor", "library", "sessions", "detail", "rows", "age"}
    /\ EditorInit /\ LibraryInit /\ SessionsInit /\ DetailInit /\ FaceInit
    /\ Resting

PagesNext ==
    /\ part' = part
    /\ IF part = "editor" THEN EditorNext ELSE UNCHANGED editorVars
    /\ IF part = "library" THEN LibraryNext ELSE UNCHANGED libraryVars
    /\ IF part = "sessions" THEN SessionsNext ELSE UNCHANGED pageVars
    /\ IF part = "detail" THEN DetailNext ELSE UNCHANGED detailVars
    /\ CASE part = "rows" -> FaceNext /\ UNCHANGED ageVars
         [] part = "age" -> FaceNext /\ UNCHANGED rowVars
         [] OTHER -> UNCHANGED faceVars

PagesSpec == PagesInit /\ [][PagesNext]_pagesVars
=============================================================================
