--------------------------- MODULE ProgramEditor ---------------------------
(***************************************************************************)
(* The page of one program (dashboard/src/pages/Programs.tsx): the text    *)
(* and the tree of steps, two editable views of one document, the rig's    *)
(* check of the tree, and saving, which adds a version.                    *)
(*                                                                         *)
(* A document is a model value; a text is a document written in a format,  *)
(* or Broken, which parses as no program. The callbacks of the browser run *)
(* one at a time; the effects that follow a change of state run with it.   *)
(* The library of the rig is what its routes do to it.                     *)
(*                                                                         *)
(* Bound: MaxSaves versions of a program.                                  *)
(***************************************************************************)
EXTENDS Integers, Sequences, FiniteSets

CONSTANTS Docs,         \* program documents, Empty among them
          Empty,        \* the tree before anything was loaded
          Formats,      \* yaml, toml, json
          NotInToml,    \* documents toml cannot write
          MaxSaves,     \* versions of a program
          None

ASSUME EditorBounds == /\ Empty \in Docs /\ NotInToml \subseteq Docs
                       /\ MaxSaves \in Nat \ {0}

VARIABLES library,   \* the rig's: every version of the program, newest last
          onRig,     \* the version the page has fetched, or 0
          rowFetch,  \* a fetch of the newest version is under way
          format,    \* the editor's format
          text,      \* what the text box holds
          tree,      \* what the builder holds
          broken,    \* parseError is set
          saved,     \* the text the page takes for stored
          typed,     \* typed.current: typed text that is not parsed yet, or None
          pause,     \* the parse timer: what it will parse and in which format, or None
          verdict,   \* the tree the check shown is of, or None
          checks,    \* requests to check a tree: the document and whether it still counts
          waiting,   \* the check's own pause is running
          jobs       \* requests under way: [op, text]

editorVars == <<library, onRig, rowFetch, format, text, tree, broken, saved, typed,
                pause, verdict, checks, waiting, jobs>>
paneVars == <<format, text, tree, broken, typed, pause>>
checkVars == <<verdict, checks, waiting>>

Text(d, f) == [doc |-> d, fmt |-> f]
Broken(f) == [doc |-> None, fmt |-> f]
Texts == [doc : Docs \cup {None}, fmt : Formats]
busy == jobs # {}

EditorInit ==
  /\ \E d \in Docs, f \in Formats : library = <<Text(d, f)>>
  /\ onRig = 0 /\ rowFetch = TRUE
  /\ format = "yaml" /\ text = None /\ saved = None
  /\ tree = Empty /\ broken = FALSE
  /\ typed = None /\ pause = None
  /\ verdict = None /\ checks = {} /\ waiting = FALSE
  /\ jobs = {}

-----------------------------------------------------------------------------
(* The text and the tree.                                                  *)

\* parseProgram, with parseText and asProgram: the document, or None for a text
\* that is not one, in the format it is read in.
Parsed(t, f) == IF t.fmt = f THEN t.doc ELSE None

\* dumpText: the document in a format, or None when the format cannot say it.
Dumped(d, f) == IF f = "toml" /\ d \in NotInToml THEN None ELSE Text(d, f)

\* The check effect: a new tree, or one read anew, starts its pause, and what an
\* earlier request answers no longer counts.
Recheck ==
  /\ waiting' = TRUE
  /\ checks' = {[c EXCEPT !.live = FALSE] : c \in checks}
  /\ UNCHANGED verdict

\* The parse effect runs when the text or the format changed: it forgets its
\* timer, and arms one for what typed.current holds now.
RearmParse == pause' = IF typed' = None THEN None ELSE [body |-> typed', fmt |-> format']

\* loadText: parsed at once; a text that does not parse leaves the tree.
LoadText(t) ==
  /\ format' = t.fmt /\ text' = t
  /\ broken' = (Parsed(t, t.fmt) = None)
  /\ tree' = IF Parsed(t, t.fmt) = None THEN tree ELSE t.doc
  /\ UNCHANGED typed
  /\ IF t # text THEN RearmParse ELSE UNCHANGED pause
  /\ Recheck

\* onText: remembered, and parsed when the pause is over.
Types(d) ==
  /\ onRig # 0 /\ Text(d, format) # text
  /\ text' = Text(d, format) /\ typed' = Text(d, format)
  /\ UNCHANGED <<format, tree, broken>>
  /\ RearmParse
  /\ UNCHANGED <<library, onRig, rowFetch, saved, checkVars, jobs>>

\* The parse timer: nothing, should something else have been typed since.
Parses ==
  /\ pause # None
  /\ pause' = None
  /\ IF typed # pause.body THEN UNCHANGED <<typed, broken, tree, checkVars>>
     ELSE LET d == Parsed(pause.body, pause.fmt)
          IN /\ typed' = None
             /\ broken' = (d = None)
             /\ IF d = None THEN UNCHANGED <<tree, checkVars>> ELSE tree' = d /\ Recheck
  /\ UNCHANGED <<library, onRig, rowFetch, format, text, saved, jobs>>

\* onTree: an edit in the builder; the text follows, if the format can say it.
EditsTree(d) ==
  /\ onRig # 0 /\ d # tree
  /\ tree' = d /\ typed' = None /\ broken' = FALSE
  /\ UNCHANGED format
  /\ text' = IF Dumped(d, format) = None THEN text ELSE Dumped(d, format)
  /\ IF text' # text THEN RearmParse ELSE UNCHANGED pause
  /\ Recheck
  /\ UNCHANGED <<library, onRig, rowFetch, saved, jobs>>

\* switchFormat: the text is written anew from the tree.
SwitchesFormat(f) ==
  /\ onRig # 0 /\ f # format /\ ~broken
  /\ Dumped(tree, f) # None
  /\ format' = f /\ text' = Dumped(tree, f) /\ typed' = None
  /\ RearmParse
  /\ UNCHANGED <<tree, broken>>
  /\ UNCHANGED <<library, onRig, rowFetch, saved, checkVars, jobs>>

\* A row of the versions table, loaded into the editor.
LoadsVersion(v) ==
  /\ onRig # 0 /\ v \in 1..Len(library)
  /\ LoadText(library[v])
  /\ UNCHANGED <<library, onRig, rowFetch, saved, jobs>>

-----------------------------------------------------------------------------
(* The rig's check of the tree.                                            *)

\* The check's pause is over: the tree as it is now is asked about.
AsksCheck ==
  /\ waiting
  /\ waiting' = FALSE
  /\ checks' = checks \cup {[doc |-> tree, live |-> TRUE]}
  /\ UNCHANGED <<library, onRig, rowFetch, paneVars, saved, verdict, jobs>>

\* Every answer shown as it comes.
AnsweredAnyway(c) == c.doc

\* An answer, or a failure; each, in the end, is a verdict on the tree asked about.
\* One that came too late is dropped.
Answered(c) == IF c.live THEN c.doc ELSE verdict
CheckLands(c) ==
  /\ c \in checks
  /\ checks' = checks \ {c}
  /\ verdict' = Answered(c)
  /\ UNCHANGED <<library, onRig, rowFetch, paneVars, saved, waiting, jobs>>

\* `checking`: the chip says so.
checking == waiting \/ \E c \in checks : c.live

-----------------------------------------------------------------------------
(* What is asked of the library.                                           *)

\* The row arrives; when it is another than before, the load effect puts it in
\* the editor, over whatever is there.
RowArrives ==
  /\ rowFetch /\ library # <<>>
  /\ rowFetch' = FALSE
  /\ onRig' = Len(library)
  /\ IF onRig' = onRig THEN UNCHANGED <<paneVars, checkVars, saved>>
     ELSE LoadText(library[Len(library)]) /\ saved' = library[Len(library)]
  /\ UNCHANGED <<library, jobs>>

\* Update's and Save as's guards; the label may differ whatever the text.
MaySave == ~busy /\ ~broken

\* act: Update, with the text as it is at the click.
Saves ==
  /\ onRig # 0 /\ MaySave
  /\ jobs' = {[op |-> "save", body |-> text]}
  /\ UNCHANGED <<library, onRig, rowFetch, paneVars, saved, checkVars>>

\* The answer to it: a version more, which is fetched; the rig stores no text that does
\* not parse.
SavedAs(job) == job.body
SaveAnswered(job) ==
  /\ job \in jobs /\ job.op = "save"
  /\ jobs' = jobs \ {job}
  /\ \/ /\ Len(library) < MaxSaves /\ job.body.doc # None
        /\ library' = Append(library, job.body)
        /\ saved' = SavedAs(job)
        /\ rowFetch' = TRUE
     \/ UNCHANGED <<library, saved, rowFetch>>
  /\ UNCHANGED <<onRig, paneVars, checkVars>>

\* Another dashboard saves a version: this page does not learn of it before it asks.
AnotherSaves(d) ==
  /\ library # <<>> /\ Len(library) < MaxSaves
  /\ library' = Append(library, Text(d, "yaml"))
  /\ UNCHANGED <<onRig, rowFetch, paneVars, saved, checkVars, jobs>>

EditorNext ==
  \/ \E d \in Docs \cup {None} : Types(d)
  \/ \E d \in Docs : EditsTree(d) \/ AnotherSaves(d)
  \/ \E f \in Formats : SwitchesFormat(f)
  \/ \E v \in 1..MaxSaves : LoadsVersion(v)
  \/ Parses \/ AsksCheck \/ RowArrives \/ Saves
  \/ \E c \in checks : CheckLands(c)
  \/ \E job \in jobs : SaveAnswered(job)

EditorSpec == EditorInit /\ [][EditorNext]_editorVars

\* Timers fire and requests are answered.
EditorFairness ==
  /\ WF_editorVars(Parses) /\ WF_editorVars(AsksCheck)
  /\ WF_editorVars(\E c \in checks : c.live /\ CheckLands(c))

-----------------------------------------------------------------------------
(* Properties.                                                             *)

EditorTypeOK ==
  /\ library \in Seq(Texts) /\ onRig \in 0..Len(library)
  /\ tree \in Docs /\ text \in Texts \cup {None}
  /\ {rowFetch, broken, waiting} \subseteq BOOLEAN

\* Once the chip no longer says "checking", the verdict shown is on the tree
\* shown, in whatever order the answers of earlier checks came.
VerdictIsOfTheTree == verdict # None /\ ~checking => verdict = tree

\* A page without the chip "unsaved" shows a text the rig has, although the text
\* may be edited while it is being saved, and versions loaded over it.
CleanIsStored == onRig # 0 /\ text = saved => \E v \in DOMAIN library : library[v] = text

\* "Either side may be edited: the other follows": with nothing typed left to
\* parse and no error shown, the text says the tree, where the format can.
SidesAgree ==
  onRig # 0 /\ pause = None /\ ~broken /\ Dumped(tree, format) # None
    => text.doc = tree

\* A tree that is left alone is checked in the end.
TreeIsChecked == onRig # 0 => \A d \in Docs : (tree = d /\ checking) ~> (verdict = d \/ tree # d)
=============================================================================
