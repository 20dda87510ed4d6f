--------------------------- MODULE SessionDetail ---------------------------
(***************************************************************************)
(* One session in full: the drill-in of the Sessions page                  *)
(* (dashboard/src/pages/Sessions.tsx) over the hooks that fetch it         *)
(* (react/src/hooks/useSession.ts) and the panel that shows it and edits   *)
(* its name (react/src/panels/SessionPanel.tsx).                           *)
(*                                                                         *)
(* The shell of the session comes with useQuery, which keeps the data it   *)
(* has until new data lands. A chart fetches its series when it is first   *)
(* on screen, from a cache shared by all charts and never emptied.         *)
(*                                                                         *)
(* Bounds: Points a series grows to, Titles a session may be given.        *)
(***************************************************************************)
EXTENDS Naturals, FiniteSets

CONSTANTS Ids, Charts, Titles, MaxPoints,
          Buffers,    \* those of Ids that are buffers: they have no name, and are kept
          Untitled    \* the empty name

ASSUME DetailBounds == MaxPoints \in Nat /\ Untitled \notin Titles /\ 0 \notin Ids

VARIABLES names,      \* the runner's: id -> name
          points,     \* id -> samples recorded of its signal
          ended,      \* the sessions that are closed
          id,         \* the session of the route
          shell,      \* detail.data: [id, name], of id 0 before any has landed
          shellRead,  \* what the fetch that counts has read: [id, name]; id 0: nothing yet
          draftName,  \* the name typed
          typedFor,   \* history: the session whose name was being typed
          saving,     \* the rename under way: [id, name, keeps]; id 0 for none
          cache,      \* seriesCache: id -> none, asked, or held with its points
          inFlight,   \* requests of a series that have not been answered: id -> how many
          charts      \* a chart: [id, state], its state hidden, loading, failed or held

detailVars == <<names, points, ended, id, shell, shellRead, draftName, typedFor, saving,
                cache, inFlight, charts>>
recordVars == <<names, points, ended>>
shellVars == <<id, shell, shellRead>>
nameVars == <<draftName, typedFor, saving>>
seriesVars == <<cache, inFlight, charts>>

NoShell == [id |-> 0, name |-> Untitled]
NoSave == [id |-> 0, name |-> Untitled, keeps |-> FALSE]

Being(what) == [is |-> what, n |-> 0]
Holding(n) == [is |-> "held", n |-> n]

DetailInit ==
    /\ names \in [Ids -> {Untitled}] /\ points = [i \in Ids |-> 0] /\ ended \in SUBSET Ids
    /\ id \in Ids /\ shell = NoShell /\ shellRead = NoShell
    /\ draftName = Untitled /\ typedFor = 0 /\ saving = NoSave
    /\ cache = [i \in Ids |-> Being("none")] /\ inFlight = [i \in Ids |-> 0]
    /\ charts = [c \in Charts |-> [id |-> 0, state |-> Being("hidden")]]

-----------------------------------------------------------------------------
(* The runner, external: an open session grows, and ends.                  *)
Grows == \E i \in Ids \ ended :
    /\ points[i] < MaxPoints
    /\ points' = [points EXCEPT ![i] = @ + 1]
    /\ UNCHANGED <<names, ended, shellVars, nameVars, seriesVars>>

EndsSession == \E i \in Ids \ ended :
    /\ ended' = ended \cup {i}
    /\ UNCHANGED <<names, points, shellVars, nameVars, seriesVars>>

-----------------------------------------------------------------------------
(* The shell.                                                              *)
FollowsLink == \E i \in Ids \ {id} :
    /\ id' = i /\ shellRead' = NoShell
    /\ UNCHANGED <<recordVars, shell, nameVars, seriesVars>>

ShellRead ==
    /\ shellRead = NoShell
    /\ shellRead' = [id |-> id, name |-> names[id]]
    /\ UNCHANGED <<recordVars, id, shell, nameVars, seriesVars>>

(* The effect on the draft: another session, or another saved name.        *)
ResetsDraft(to) == to # shell

(* The charts of a session shown before are unmounted with its rows.       *)
ShellLands ==
    /\ shellRead.id = id /\ shellRead # shell
    /\ shell' = shellRead
    /\ IF ResetsDraft(shellRead) THEN draftName' = shellRead.name /\ typedFor' = 0
       ELSE UNCHANGED <<draftName, typedFor>>
    /\ charts' = IF shell.id = id THEN charts
                 ELSE [c \in Charts |-> [id |-> id, state |-> Being("hidden")]]
    /\ UNCHANGED <<recordVars, id, shellRead, saving, cache, inFlight>>

-----------------------------------------------------------------------------
(* The name. It is saved under the session of the route.                   *)
TypesName == \E n \in Titles \cup {Untitled} :
    /\ shell.id # 0 /\ saving = NoSave
    /\ draftName' = n /\ typedFor' = shell.id
    /\ UNCHANGED <<recordVars, shellVars, saving, seriesVars>>

EscapesName ==
    /\ shell.id # 0 /\ saving = NoSave
    /\ draftName' = shell.name /\ typedFor' = 0
    /\ UNCHANGED <<recordVars, shellVars, saving, seriesVars>>

Dirty == draftName # Untitled /\ (shell.id \in Buffers \/ draftName # shell.name)

SavesName ==
    /\ shell.id # 0 /\ saving = NoSave /\ Dirty
    /\ saving' = [id |-> id, name |-> draftName, keeps |-> shell.id \in Buffers]
    /\ UNCHANGED <<recordVars, shellVars, draftName, typedFor, seriesVars>>

\* A session is renamed, and the shell is asked for again. A buffer is kept under the
\* name as a session of its own, which the page goes on to.
RenameAnswered == \E ok \in BOOLEAN :
    /\ saving # NoSave /\ saving' = NoSave
    /\ \/ /\ ~ok /\ UNCHANGED <<names, id, shellRead>>
       \/ /\ ok /\ ~saving.keeps
          /\ names' = [names EXCEPT ![saving.id] = saving.name]
          /\ shellRead' = NoShell /\ id' = id
       \/ /\ ok /\ saving.keeps
          /\ \E kept \in Ids \ Buffers :
               names' = [names EXCEPT ![kept] = saving.name] /\ id' = kept
          /\ shellRead' = NoShell
    /\ UNCHANGED <<points, ended, shell, draftName, typedFor, seriesVars>>

-----------------------------------------------------------------------------
(* The series. fetchSeries: the promise held, or a new request.            *)
ChartShown(c) ==
    /\ charts[c].state.is = "hidden" /\ charts[c].id # 0
    /\ LET i == charts[c].id
       IN /\ charts' = [charts EXCEPT ![c].state =
                          IF cache[i].is = "held" THEN cache[i] ELSE Being("loading")]
          /\ IF cache[i].is = "none"
             THEN cache' = [cache EXCEPT ![i] = Being("asked")] /\ inFlight' = [inFlight EXCEPT ![i] = @ + 1]
             ELSE UNCHANGED <<cache, inFlight>>
    /\ UNCHANGED <<recordVars, shellVars, nameVars>>

\* "by unit" to "each signal", or back: one chart unmounts, another mounts.
ChartRemounts(c) ==
    /\ charts[c].state.is # "hidden"
    /\ charts' = [charts EXCEPT ![c].state = Being("hidden")]
    /\ UNCHANGED <<recordVars, shellVars, nameVars, cache, inFlight>>

\* The promise that failed stays in the cache.
HeldAnyway(answer) == answer

\* What is held after an answer: a failed fetch must not poison the cache.
HeldAfter(answer) == IF answer.is = "failed" THEN Being("none") ELSE answer

SeriesAnswered(i) == \E answer \in {Holding(points[i]), Being("failed")} :
    /\ inFlight[i] > 0
    /\ inFlight' = [inFlight EXCEPT ![i] = @ - 1]
    /\ cache' = [cache EXCEPT ![i] = HeldAfter(answer)]
    /\ charts' = [c \in Charts |-> IF charts[c] = [id |-> i, state |-> Being("loading")]
                                   THEN [charts[c] EXCEPT !.state = answer] ELSE charts[c]]
    /\ UNCHANGED <<recordVars, shellVars, nameVars>>

DetailNext ==
    \/ Grows \/ EndsSession \/ FollowsLink \/ ShellRead \/ ShellLands
    \/ TypesName \/ EscapesName \/ SavesName \/ RenameAnswered
    \/ \E c \in Charts : ChartShown(c) \/ ChartRemounts(c)
    \/ \E i \in Ids : SeriesAnswered(i)

DetailSpec == DetailInit /\ [][DetailNext]_detailVars

-----------------------------------------------------------------------------
(* Charts of one session that have loaded show the same points, although   *)
(* an open session grows between their mounts; one request serves them.    *)
ChartsAgree ==
    /\ \A i \in Ids : inFlight[i] <= 1
    /\ \A c, d \in Charts : charts[c].id = charts[d].id
                            /\ charts[c].state.is = "held" /\ charts[d].state.is = "held"
                            => charts[c].state = charts[d].state

(* After a failure the next mount asks again: nothing loading is without a *)
(* request that will be answered.                                          *)
LoadingIsAsked ==
    \A c \in Charts : charts[c].state.is = "loading" => inFlight[charts[c].id] > 0

(* The name in the box is that of the session shown, or was typed for it.  *)
DraftIsOfTheShown == draftName # shell.name => typedFor = shell.id

(* "a session's recorded data never changes once written, so nothing here  *)
(* can go stale" (useSession.ts): what is held of a session that has ended *)
(* is all it recorded.                                                     *)
CacheIsCurrent ==
    \A i \in ended : cache[i].is = "held" => cache[i].n = points[i]

(* A rename is of the session whose name the box showed.                   *)
RenamesTheShown == [][saving' # saving /\ saving' # NoSave => saving'.id = typedFor]_detailVars
=============================================================================
