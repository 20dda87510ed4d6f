--------------------------- MODULE DashboardEditor ---------------------------
(***************************************************************************)
(* The dashboards page (dashboard/src/pages/Dashboards.tsx): the document  *)
(* the route names, loaded, edited, saved, renamed, deleted, imported.     *)
(* Undo and redo (EditHistory) go from one revision of it to another.      *)
(*                                                                         *)
(* A document is the dashboard it was made for and a revision of its       *)
(* widgets. NoName stands for the generated overview, which follows the    *)
(* rig: its revision is the shape the rig has at the moment.               *)
(*                                                                         *)
(* Bounds: MaxRev revisions, MaxJobs requests and MaxLoads loads at a time. *)
(***************************************************************************)
EXTENDS Integers, Sequences, FiniteSets

CONSTANTS Boards,   \* names of dashboards
          NoName,   \* no name: the generated overview
          NoDoc,    \* no document
          MaxRev, MaxJobs, MaxLoads

ASSUME BoardBounds == /\ NoName \notin Boards /\ "bare" \notin Boards \cup {NoName}
                      /\ MaxRev \in Nat /\ MaxJobs \in Nat /\ MaxLoads \in Nat

VARIABLES kept,      \* the rig's: name -> the newest version, or NoDoc
          route,     \* where the page is: a name, NoName, or Bare
          home,      \* the dashboard a bare route shows, or NoName
          present,   \* the document shown
          baseline,  \* the document as the rig has it: what "unsaved" compares with
          imports,   \* documents waiting to be shown under their name
          loads,     \* fetches under way: [name, imported, live]
          jobsD,     \* saves, renames, deletions under way: [op, as, body, from]
          strayed    \* an answer came for a page that had been left

shelfOfRoute == <<loads, imports>>
routeVars == <<route, home, shelfOfRoute>>
boardVars == <<kept, routeVars, present, baseline, jobsD, strayed>>

\* Which document the route asks for.
Bare == "bare"
Asked(to, homeOf) == IF to = Bare THEN homeOf ELSE to
wanted == Asked(route, home)

Doc(n, r) == [of |-> n, rev |-> r]
BoardDocs == [of : Boards \cup {NoName}, rev : 0..MaxRev]
Overviews == {Doc(NoName, r) : r \in 0..MaxRev}
NoImports == [n \in Boards |-> NoDoc]

\* sameDocument: positions included.
dirty2 == present # NoDoc /\ present # baseline

DashboardTypeOK ==
  /\ kept \in [Boards -> BoardDocs \cup {NoDoc}]
  /\ route \in Boards \cup {NoName, Bare} /\ home \in Boards \cup {NoName}
  /\ {present, baseline} \subseteq BoardDocs \cup {NoDoc}
  /\ imports \in [Boards -> BoardDocs \cup {NoDoc}]

-----------------------------------------------------------------------------
(* What the route names.                                                   *)

\* The load before lands as if its name were still wanted.
NotCancelled(l) == l

\* The effect of a new name: the load before it is cancelled; a document imported
\* under the name is taken off the shelf; the overview is generated at once.
Cancelled(l) == [name |-> NoName, imported |-> NoDoc, live |-> FALSE]
NowWanted(n, shelf) ==
  IF n = wanted THEN imports' = shelf /\ UNCHANGED <<loads, present, baseline>>
  ELSE IF n = NoName
  THEN /\ present' \in Overviews /\ baseline' = present'
       /\ loads' = {Cancelled(l) : l \in loads} /\ imports' = shelf
  ELSE /\ loads' = {Cancelled(l) : l \in loads} \cup
                    {[name |-> n, imported |-> shelf[n], live |-> TRUE]}
       /\ imports' = [shelf EXCEPT ![n] = NoDoc]
       /\ UNCHANGED <<present, baseline>>
\* onOpen: the route moves; the effect runs when another document is wanted by it.
Goes(to, homeOf, shelf) ==
  route' = to /\ home' = homeOf /\ NowWanted(Asked(to, homeOf), shelf)

\* A link or the switcher: who has unsaved changes is asked, and says so.
Leaves(to) ==
  /\ to # route
  /\ Asked(to, home) = NoName \/ Cardinality(loads) < MaxLoads
  /\ Goes(to, home, imports)
  /\ UNCHANGED <<kept, jobsD, strayed>>

\* Set or unset as home. Nobody is asked: the page is not left, even when it is the bare
\* route that showed the home it no longer is.
MayToggleHome == wanted # NoName
TogglesHome ==
  /\ MayToggleHome
  /\ Goes(route, IF home = wanted THEN NoName ELSE wanted, imports)
  /\ UNCHANGED <<kept, jobsD, strayed>>

\* The row arrives, unless another was asked for: an imported document is shown
\* against it; with none stored, the import alone, or the error.
LoadLands(l) ==
  /\ l \in loads
  /\ loads' = loads \ {l}
  /\ IF ~l.live THEN UNCHANGED <<present, baseline>>
     ELSE /\ present' = IF l.imported # NoDoc THEN l.imported ELSE kept[l.name]
          /\ baseline' = kept[l.name]
  /\ UNCHANGED <<kept, route, home, imports, jobsD, strayed>>

\* The rig changes: the overview follows, until it is edited.
RigMoves ==
  /\ wanted = NoName /\ ~dirty2
  /\ present' \in Overviews /\ baseline' = present'
  /\ UNCHANGED <<kept, routeVars, jobsD, strayed>>

\* patch: a widget is added, laid out, configured, duplicated or removed; or a step
\* undone or redone: the history starts over with each document.
Patches(r) ==
  /\ present # NoDoc
  /\ present' = Doc(present.of, r)
  /\ UNCHANGED <<kept, routeVars, baseline, jobsD, strayed>>

\* Revert to saved.
MayRevert == dirty2
Reverts ==
  /\ MayRevert
  /\ IF wanted = NoName THEN present' \in Overviews /\ baseline' = present'
     ELSE baseline # NoDoc /\ present' = baseline /\ UNCHANGED baseline
  /\ UNCHANGED <<kept, routeVars, jobsD, strayed>>

-----------------------------------------------------------------------------
(* What is asked of the rig. Each request keeps the page it was asked from. *)

Job(op, as, body) ==
  [op |-> op, as |-> as, body |-> body, from |-> wanted, wasHome |-> home = wanted]
\* documentFor: the document as it is at the click, under a name.
Under(n) == Doc(n, present.rev)

\* What the bar and its menu offer. A generated overview is saved under a name.
MaySaveBoard == jobsD = {} /\ present # NoDoc /\ (dirty2 \/ wanted = NoName)
MaySaveAs == present # NoDoc
MayRename == wanted # NoName /\ baseline # NoDoc
MayRemove == wanted # NoName /\ baseline # NoDoc

Saves2 ==
  /\ MaySaveBoard /\ wanted # NoName
  /\ jobsD' = {Job("save", wanted, Under(wanted))}
  /\ UNCHANGED <<kept, routeVars, present, baseline, strayed>>

\* Save as and Rename: Enter in their dialog asks whether busy or not.
SavesAs(n) ==
  /\ Cardinality(jobsD) < MaxJobs /\ MaySaveAs
  /\ jobsD' = jobsD \cup {Job("save", n, Under(n))}
  /\ UNCHANGED <<kept, routeVars, present, baseline, strayed>>
Renames(n) ==
  /\ Cardinality(jobsD) < MaxJobs /\ MayRename /\ n # wanted
  /\ jobsD' = jobsD \cup {Job("rename", n, IF dirty2 THEN Under(n) ELSE NoDoc)}
  /\ UNCHANGED <<kept, routeVars, present, baseline, strayed>>
Removes ==
  /\ jobsD = {} /\ MayRemove
  /\ jobsD' = {Job("delete", wanted, NoDoc)}
  /\ UNCHANGED <<kept, routeVars, present, baseline, strayed>>

\* The rig refuses, or cannot be reached: the page stays as it is.
Refused(j) ==
  /\ j \in jobsD
  /\ jobsD' = jobsD \ {j}
  /\ UNCHANGED <<kept, routeVars, present, baseline, strayed>>

\* save: what the rig stored is the new baseline and the document; under another name
\* than the one it was asked from, the route follows.
SaveLands(j) ==
  /\ j \in jobsD /\ j.op = "save"
  /\ jobsD' = jobsD \ {j}
  /\ kept' = [kept EXCEPT ![j.as] = j.body]
  /\ LET to == IF j.as # j.from THEN j.as ELSE route
     IN /\ route' = to /\ home' = home
        /\ IF Asked(to, home) = wanted THEN UNCHANGED shelfOfRoute
           ELSE /\ loads' = {Cancelled(l) : l \in loads} \cup
                            {[name |-> to, imported |-> imports[to], live |-> TRUE]}
                /\ imports' = [imports EXCEPT ![to] = NoDoc]
  /\ present' = j.body /\ baseline' = j.body
  /\ strayed' = (strayed \/ wanted # j.from)

\* rename: the working copy as it was when asked, if it was unsaved, goes under the new name.
RenameLands(j) ==
  /\ j \in jobsD /\ j.op = "rename"
  /\ kept[j.from] # NoDoc /\ kept[j.as] = NoDoc
  /\ jobsD' = jobsD \ {j}
  /\ kept' = [kept EXCEPT ![j.as] = Doc(j.as, kept[j.from].rev), ![j.from] = NoDoc]
  /\ Goes(j.as, IF j.wasHome THEN j.as ELSE home, [imports EXCEPT ![j.as] = j.body])
  /\ strayed' = (strayed \/ wanted # j.from)

\* remove: the page goes to the generated overview.
RemoveLands(j) ==
  /\ j \in jobsD /\ j.op = "delete"
  /\ jobsD' = jobsD \ {j}
  /\ kept' = [kept EXCEPT ![j.as] = NoDoc]
  /\ route' = NoName /\ home' = (IF j.wasHome THEN NoName ELSE home)
  /\ IF wanted # NoName THEN NowWanted(NoName, imports)
     ELSE present' = NoDoc /\ baseline' = NoDoc /\ UNCHANGED shelfOfRoute
  /\ strayed' = (strayed \/ wanted # j.from)

\* importFile: shown at once under the name that is open, else opened under its own.
Imports(n, r) ==
  /\ Cardinality(loads) < MaxLoads
  /\ IF n = wanted
       THEN present' = Doc(n, r) /\ UNCHANGED <<routeVars, baseline>>
       ELSE Goes(n, home, [imports EXCEPT ![n] = Doc(n, r)])
  /\ UNCHANGED <<kept, jobsD, strayed>>

DashboardInit ==
  /\ kept = [n \in Boards |-> Doc(n, 0)]
  /\ route = NoName /\ home = NoName
  /\ present = Doc(NoName, 0) /\ baseline = Doc(NoName, 0)
  /\ imports = NoImports /\ loads = {} /\ jobsD = {} /\ strayed = FALSE

DashboardNext ==
  \/ RigMoves \/ Reverts \/ Saves2 \/ Removes \/ TogglesHome
  \/ \E to \in Boards \cup {NoName, Bare} : Leaves(to)
  \/ \E r \in 0..MaxRev : Patches(r)
  \/ \E n \in Boards : SavesAs(n) \/ Renames(n) \/ Imports(n, MaxRev)
  \/ \E l \in loads : LoadLands(l)
  \/ \E j \in jobsD : Refused(j) \/ SaveLands(j) \/ RenameLands(j) \/ RemoveLands(j)

DashboardSpec == DashboardInit /\ [][DashboardNext]_boardVars

-----------------------------------------------------------------------------
(* Properties.                                                             *)

\* The route's document is the one shown once it has arrived, however loads overtake
\* each other, unless an answer came for a page that had been left.
Arrived == present # NoDoc /\ \A l \in loads : ~l.live
ShownIsWanted == Arrived => present.of = wanted
RouteShowsItsOwn == strayed \/ ShownIsWanted

\* "This dashboard has unsaved changes. Leave and discard them?": where no such question
\* is asked, unsaved changes stay.
UnsavedIsAsked == [][TogglesHome => ~dirty2 \/ present' = present]_boardVars
=============================================================================
