--------------------------- MODULE ProgramLibrary ---------------------------
(***************************************************************************)
(* The library of programs (dashboard/src/pages/Programs.tsx, Programs and *)
(* ProgramRow) on the fetch hook every page is built on (react/src/hooks/  *)
(* useQuery.ts): a fetch runs when something it depends on changes or a    *)
(* refresh is asked for, and the one before it no longer counts.           *)
(*                                                                         *)
(* The rig's programs are a set of names with the number of their versions.*)
(*                                                                         *)
(* Bounds: MaxFetches under way at a time, MaxUploads of a program.        *)
(***************************************************************************)
EXTENDS Integers, FiniteSets

CONSTANTS Programs, MaxUploads, MaxFetches, NoProgram

ASSUME LibraryBounds == /\ MaxUploads \in Nat \ {0} /\ MaxFetches \in Nat \ {0}
                        /\ NoProgram \notin Programs

VARIABLES shelf,     \* the rig's programs: name -> how many versions, 0 if there is none
          onDisk,    \* a program file in the runner's directory that is not imported yet
          fetches,   \* of the list: number -> [seen, missed, live]: what the rig said, or unread,
                     \* and the own changes made after it said so
          list,      \* data: what the page shows, or unread
          toRun,     \* the name the run dialog asks about
          toDelete,  \* the name the delete dialog asks about
          busyList,  \* busy
          acts,      \* requests of act() under way
          picked,    \* a file is being read, to be uploaded
          runs,      \* the program the rig runs, or NoProgram
          knownRuns, \* programmer.data.running, polled
          ownUnseen  \* own changes the list shown does not have yet

libraryVars == <<shelf, onDisk, fetches, list, toRun, toDelete, busyList, acts, picked,
                 runs, knownRuns, ownUnseen>>
shelfVars == <<shelf, onDisk, runs>>
dialogVars == <<toRun, toDelete, busyList, acts, picked>>

Shelves == [Programs -> 0..MaxUploads]
Unread == [n \in {} |-> 0]
Fetch == [seen |-> Unread, missed |-> {}, live |-> TRUE]
loading == \E i \in DOMAIN fetches : fetches[i].live

LibraryInit ==
  /\ shelf \in [Programs -> 0..1] /\ onDisk \in Programs \cup {NoProgram}
  /\ fetches = [i \in {1} |-> Fetch]
  /\ list = Unread
  /\ toRun = NoProgram /\ toDelete = NoProgram /\ busyList = FALSE /\ acts = {} /\ picked = NoProgram
  /\ runs = NoProgram /\ knownRuns = FALSE /\ ownUnseen = {}

-----------------------------------------------------------------------------
(* useQuery.                                                               *)

\* The fetch before lands as if it still counted.
NotAborted(f) == f

\* The effect: the fetch before is aborted, whatever it answers later.
Aborted(f) == [f EXCEPT !.live = FALSE]
Refreshed(fs) ==
  \E i \in 1..MaxFetches \ DOMAIN fs :
    fetches' = [j \in DOMAIN fs \cup {i} |-> IF j = i THEN Fetch ELSE Aborted(fs[j])]

\* The fetcher: files in the runner's directory are imported, then the rig is asked.
FetchReads(i) ==
  /\ fetches[i].seen = Unread
  /\ shelf' = IF onDisk = NoProgram \/ shelf[onDisk] = MaxUploads THEN shelf
              ELSE [shelf EXCEPT ![onDisk] = @ + 1]
  /\ onDisk' = NoProgram
  /\ fetches' = [fetches EXCEPT ![i].seen = shelf']
  /\ UNCHANGED <<list, dialogVars, runs, knownRuns, ownUnseen>>

\* The answer: dropped when aborted, like the failure; equal data is kept as it is.
FetchLands(i) ==
  /\ fetches[i].seen # Unread
  /\ fetches' = [j \in DOMAIN fetches \ {i} |-> fetches[j]]
  /\ IF fetches[i].live THEN list' = fetches[i].seen /\ ownUnseen' = fetches[i].missed
     ELSE UNCHANGED <<list, ownUnseen>>
  /\ UNCHANGED <<shelfVars, dialogVars, knownRuns>>

\* "Reload files".
Rescans ==
  /\ ~loading
  /\ Refreshed(fetches)
  /\ UNCHANGED <<shelfVars, list, dialogVars, knownRuns, ownUnseen>>

-----------------------------------------------------------------------------
(* The rows, the dialogs and what they ask of the rig.                     *)

Listed(n) == n \in DOMAIN list /\ list[n] > 0

\* The row's buttons: their guards.
PicksRun(n) ==
  /\ Listed(n) /\ ~knownRuns /\ ~busyList /\ toDelete = NoProgram /\ toRun = NoProgram
  /\ toRun' = n
  /\ UNCHANGED <<shelfVars, fetches, list, toDelete, busyList, acts, picked, knownRuns, ownUnseen>>
PicksDelete(n) ==
  /\ Listed(n) /\ ~busyList /\ toRun = NoProgram /\ toDelete = NoProgram
  /\ toDelete' = n
  /\ UNCHANGED <<shelfVars, fetches, list, toRun, busyList, acts, picked, knownRuns, ownUnseen>>

\* Confirm: Cancel, unless busy.
Cancels ==
  /\ ~busyList /\ (toRun # NoProgram \/ toDelete # NoProgram)
  /\ toRun' = NoProgram /\ toDelete' = NoProgram
  /\ UNCHANGED <<shelfVars, fetches, list, busyList, acts, picked, knownRuns, ownUnseen>>

\* act: busy until the operation is over.
Act(op, n) == busyList' = TRUE /\ acts' = acts \cup {[op |-> op, name |-> n]}

ConfirmsRun ==
  /\ toRun # NoProgram /\ ~busyList
  /\ Act("run", toRun)
  /\ UNCHANGED <<shelfVars, fetches, list, toRun, toDelete, picked, knownRuns, ownUnseen>>
ConfirmsRemoval ==
  /\ toDelete # NoProgram /\ ~busyList
  /\ Act("delete", toDelete)
  /\ UNCHANGED <<shelfVars, fetches, list, toRun, toDelete, picked, knownRuns, ownUnseen>>

\* upload: a file of a known format is picked and read...
PicksFile(n) ==
  /\ ~busyList /\ picked = NoProgram /\ toRun = NoProgram /\ toDelete = NoProgram
  /\ picked' = n
  /\ UNCHANGED <<shelfVars, fetches, list, toRun, toDelete, busyList, acts, knownRuns, ownUnseen>>
\* ... and sent, whatever has been started meanwhile.
Uploads ==
  /\ picked # NoProgram
  /\ picked' = NoProgram
  /\ Act("upload", picked)
  /\ UNCHANGED <<shelfVars, fetches, list, toRun, toDelete, knownRuns, ownUnseen>>

\* The rig carries it out, and answers; or refuses.
Carried(a) ==
  CASE a.op = "run" -> /\ shelf[a.name] > 0 /\ runs = NoProgram
                       /\ runs' = a.name /\ UNCHANGED shelf
    [] a.op = "delete" -> shelf' = [shelf EXCEPT ![a.name] = 0] /\ UNCHANGED runs
    [] a.op = "upload" -> /\ shelf[a.name] < MaxUploads
                          /\ shelf' = [shelf EXCEPT ![a.name] = @ + 1] /\ UNCHANGED runs

\* A change every fetch that has read before it misses.
Missed(fs, n) == [j \in DOMAIN fs |-> IF fs[j].seen = Unread THEN fs[j]
                                     ELSE [fs[j] EXCEPT !.missed = @ \cup {n}]]

\* The end of act, and what follows it: the dialog closes, and what changed is fetched
\* anew; a refusal is shown, and the rest is the same.
ActEnds(a) ==
  /\ a \in acts
  /\ acts' = acts \ {a} /\ busyList' = FALSE
  /\ toRun' = IF a.op = "run" THEN NoProgram ELSE toRun
  /\ toDelete' = IF a.op = "delete" THEN NoProgram ELSE toDelete
  /\ \/ /\ a.op = "run" /\ (Carried(a) \/ UNCHANGED <<shelf, runs>>)
        /\ UNCHANGED <<fetches, ownUnseen>>
     \/ /\ a.op # "run" /\ Carried(a)
        /\ ownUnseen' = ownUnseen \cup {a.name}
        /\ Refreshed(Missed(fetches, a.name))
     \/ /\ a.op # "run" /\ UNCHANGED <<shelf, runs, ownUnseen>>
        /\ Refreshed(fetches)
  /\ UNCHANGED <<onDisk, list, picked, knownRuns>>

\* The programmer is polled; a program ends.
ProgrammerPolled == knownRuns' = (runs # NoProgram)
                    /\ UNCHANGED <<shelfVars, fetches, list, dialogVars, ownUnseen>>
ProgramEnds == runs # NoProgram /\ runs' = NoProgram
               /\ UNCHANGED <<shelf, onDisk, fetches, list, dialogVars, knownRuns, ownUnseen>>

LibraryNext ==
  \/ \E i \in DOMAIN fetches : FetchReads(i) \/ FetchLands(i)
  \/ \E n \in Programs : PicksRun(n) \/ PicksDelete(n) \/ PicksFile(n)
  \/ \E a \in acts : ActEnds(a)
  \/ Rescans \/ Cancels \/ ConfirmsRun \/ ConfirmsRemoval \/ Uploads
  \/ ProgrammerPolled \/ ProgramEnds

LibrarySpec == LibraryInit /\ [][LibraryNext]_libraryVars

-----------------------------------------------------------------------------
(* Properties.                                                             *)

\* Once the list is not loading it shows every change this page has made: a fetch
\* that asked the rig before the change neither lands last nor stands for it.
OwnChangesShow == ~loading => ownUnseen = {}
=============================================================================
