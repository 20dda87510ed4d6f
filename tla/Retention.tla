----------------------------- MODULE Retention -----------------------------
(***************************************************************************)
(* Who starts and stops recordings in a runner: the API's routes           *)
(* (interfaces/server/routes/recording.py), the housekeeping thread that   *)
(* rotates recordings and keeps a scratch session open while nobody        *)
(* records (runtime/retention.py), and the shutdown (runner/serving.py).   *)
(* They are the callers of Recording; what they do to the rig is there.    *)
(*                                                                         *)
(* Time is left out: a recording may be due for rotation at any sweep.  So *)
(* is a store that fails, which is Recording's subject.                    *)
(* Trimming and deleting sessions touch neither the slot nor a recorder.   *)
(***************************************************************************)
EXTENDS Recording

CONSTANTS
    Users,          \* requests the API serves at once
    Sweeper,        \* the retention thread
    Main            \* the thread that shuts the runner down

ASSUME RetentionAssumption ==
    /\ Callers = Users \cup {Sweeper, Main}
    /\ Sweeper \notin Users /\ Main \notin Users /\ Sweeper # Main
    /\ Kinds = {"session", "scratch"}
    /\ Emitters = {} /\ ~StoreMayFail

VARIABLES
    at,             \* where each caller is in the routes, a sweep or the shutdown
    starting,       \* the routes' _starting lock: a user, or None
    sweeping,       \* Retention._lock: a caller, or None
    rotating,       \* the recorder a sweep has read for rotation
    stopped,        \* Retention._stopped, with the hook taken off
    by              \* of each session, who opened it

ownVars == <<starting, sweeping, rotating, stopped, by>>
allVars == <<vars, at, ownVars>>

Places == {"idle", "start", "check", "starting", "ending", "reopen", "ensure",
           "opening", "rotate", "expired", "rotating", "joining", "stopping", "over"}

\* Every variable has its type.
RetentionTypeOK ==
    /\ TypeOK
    /\ at \in [Callers -> Places]
    /\ starting \in Users \cup {None}
    /\ sweeping \in Callers \cup {None}
    /\ rotating \in Recorders \cup {None}
    /\ stopped \in BOOLEAN
    /\ by \in [Recorders -> Callers \cup {None}]

RetentionInit ==
    /\ Init
    /\ at = [c \in Callers |-> "idle"]
    /\ starting = None
    /\ sweeping = None
    /\ rotating = None
    /\ stopped = FALSE
    /\ by = [r \in Recorders |-> None]

Place(c, where) == at' = [at EXCEPT ![c] = where]
Serving == at[Main] = "idle"

\* Rig.recording: the recorder of a session someone started.
Recorded == attached # None /\ kind[attached] = "session"

-----------------------------------------------------------------------------
(* POST /recording and POST /recording/end                                 *)

Request(u) ==
    /\ Serving
    /\ at[u] = "idle"
    /\ Place(u, "start")
    /\ UNCHANGED <<vars, ownVars>>

\* One start at a time.
TakeStarting(u) ==
    /\ at[u] = "start"
    /\ starting = None
    /\ starting' = u
    /\ Place(u, "check")
    /\ UNCHANGED <<vars, sweeping, rotating, stopped, by>>

\* Defect: a POST does not look for a recording that is open.
StartRouteAnyway(u) ==
    /\ at[u] = "check"
    /\ Place(u, "starting") /\ Call(u, "session")
    /\ UNCHANGED ownVars

\* 409 while a recording is open; a scratch session is replaced.
StartRoute(u) ==
    /\ at[u] = "check"
    /\ IF Recorded
       THEN Place(u, "idle") /\ starting' = None /\ UNCHANGED vars
       ELSE Place(u, "starting") /\ Call(u, "session") /\ UNCHANGED starting
    /\ UNCHANGED <<sweeping, rotating, stopped, by>>

Started(u) ==
    /\ at[u] = "starting"
    /\ step[u] = "idle"
    /\ Place(u, "idle")
    /\ starting' = None
    /\ UNCHANGED <<vars, sweeping, rotating, stopped, by>>

\* 409 while nothing is recorded.
EndRoute(u) ==
    /\ Serving
    /\ at[u] = "idle"
    /\ Recorded
    /\ Place(u, "ending")
    /\ Call(u, None)
    /\ UNCHANGED ownVars

\* The session is closed: stop_recording calls the hook, Retention._reopen.
Hook(u) ==
    /\ step[u] = "notify"
    /\ Notify(u)
    /\ Place(u, IF stopped THEN at[u] ELSE "reopen")
    /\ UNCHANGED ownVars

\* There was nothing to close, or closing raised.
EndedNothing(u) ==
    /\ at[u] = "ending"
    /\ step[u] = "idle"
    /\ Place(u, "idle")
    /\ UNCHANGED <<vars, ownVars>>

\* Defect: the hook does not wait for a sweep.
ReopenUnlocked(u) ==
    /\ at[u] = "reopen"
    /\ sweeping' = u
    /\ Place(u, "ensure")
    /\ UNCHANGED <<vars, starting, rotating, stopped, by>>

Reopen(u) ==
    /\ at[u] = "reopen"
    /\ sweeping = None
    /\ sweeping' = u
    /\ Place(u, "ensure")
    /\ UNCHANGED <<vars, starting, rotating, stopped, by>>

-----------------------------------------------------------------------------
(* A sweep                                                                 *)

Sweep ==
    /\ at[Sweeper] = "idle"
    /\ ~stopped
    /\ sweeping = None
    /\ sweeping' = Sweeper
    /\ Place(Sweeper, "rotate")
    /\ UNCHANGED <<vars, starting, rotating, stopped, by>>

\* Reads the slot without the rig lock; the recording may be due for rotation.
FindExpired ==
    /\ at[Sweeper] = "rotate"
    /\ \/ /\ Recorded
          /\ rotating' = attached
          /\ Place(Sweeper, "expired")
       \/ /\ Place(Sweeper, "ensure")
          /\ UNCHANGED rotating
    /\ UNCHANGED <<vars, starting, sweeping, stopped, by>>

Rotate ==
    /\ at[Sweeper] = "expired"
    /\ Call(Sweeper, "session")
    /\ Place(Sweeper, "rotating")
    /\ UNCHANGED ownVars

Rotated ==
    /\ at[Sweeper] = "rotating"
    /\ step[Sweeper] = "idle"
    /\ rotating' = None
    /\ Place(Sweeper, "ensure")
    /\ UNCHANGED <<vars, starting, sweeping, stopped, by>>

\* Nothing attached: open a scratch session.  Again read without the rig lock.
EnsureScratch(c) ==
    /\ at[c] = "ensure"
    /\ IF stopped \/ attached # None
       THEN Place(c, "idle") /\ sweeping' = None /\ UNCHANGED vars
       ELSE Place(c, "opening") /\ Call(c, "scratch") /\ UNCHANGED sweeping
    /\ UNCHANGED <<starting, rotating, stopped, by>>

Opened(c) ==
    /\ at[c] = "opening"
    /\ step[c] = "idle"
    /\ Place(c, "idle")
    /\ sweeping' = None
    /\ UNCHANGED <<vars, starting, rotating, stopped, by>>

-----------------------------------------------------------------------------
(* Shutdown: the server has answered its last request                      *)

Shutdown ==
    /\ Serving
    /\ \A u \in Users : at[u] = "idle"
    /\ stopped' = TRUE
    /\ Place(Main, "joining")
    /\ UNCHANGED <<vars, starting, sweeping, rotating, by>>

\* Retention.stop joins the sweeper; then rig.stop closes what is recorded.
StopRecording ==
    /\ at[Main] = "joining"
    /\ at[Sweeper] = "idle"
    /\ Call(Main, None)
    /\ Place(Main, "stopping")
    /\ UNCHANGED ownVars

Stopped ==
    /\ at[Main] = "stopping"
    /\ step[Main] = "idle"
    /\ Place(Main, "over")
    /\ UNCHANGED <<vars, ownVars>>

-----------------------------------------------------------------------------
Route(u) ==
    \/ TakeStarting(u) \/ StartRoute(u) \/ Started(u)
    \/ Hook(u) \/ EndedNothing(u) \/ Reopen(u)

Housekeep ==
    \/ Sweep \/ FindExpired \/ Rotate \/ Rotated
    \/ \E c \in Users \cup {Sweeper} : EnsureScratch(c) \/ Opened(c)

ShutDown == StopRecording \/ Stopped \/ Hook(Main)

RigStep ==
    /\ \/ /\ \/ \E s \in Sources : Read(s) \/ Deliver(s)
             \/ \E r \in Recorders : RecorderStep(r)
          /\ UNCHANGED by
       \/ \E c \in Callers :
             /\ CallerStep(c)
             /\ by' = IF opened' # opened THEN [by EXCEPT ![opened'] = c] ELSE by
    /\ UNCHANGED <<at, starting, sweeping, rotating, stopped>>

RetentionNext ==
    \/ RigStep
    \/ \E u \in Users : Request(u) \/ EndRoute(u) \/ Route(u)
    \/ Housekeep
    \/ Shutdown \/ ShutDown

RetentionSpec == RetentionInit /\ [][RetentionNext]_allVars

\* Threads run; a thread that wants one of the locks has it in the end if it is
\* free again and again; the sweeper's timer fires.
RetentionFairness ==
    /\ Fairness
    /\ \A u \in Users :
          /\ SF_allVars(TakeStarting(u)) /\ SF_allVars(Reopen(u))
          /\ WF_allVars(StartRoute(u) \/ Started(u) \/ Hook(u) \/ EndedNothing(u))
    /\ SF_allVars(Sweep)
    /\ WF_allVars(FindExpired \/ Rotate \/ Rotated)
    /\ \A c \in Users \cup {Sweeper} : WF_allVars(EnsureScratch(c) \/ Opened(c))
    /\ WF_allVars(ShutDown)

RetentionFair == RetentionSpec /\ RetentionFairness

-----------------------------------------------------------------------------
(* Properties                                                              *)

\* Three locks, taken in one order: _starting or Retention._lock, then the
\* rig's.  Each is held by whoever is inside, and by nobody else.
LocksHeld ==
    /\ \A u \in Users :
          starting = u <=> at[u] \in {"check", "starting"}
    /\ \A c \in Callers :
          sweeping = c <=> at[c] \in {"ensure", "opening", "rotate", "expired", "rotating"}

\* Once the runner has shut down nothing is attached, every session is ended,
\* and no sweep or hook opens the scratch session again.
ShutMeansClosed ==
    at[Main] = "over" =>
       /\ attached = None
       /\ \A r \in Recorders : session[r] # "open"

\* A POST never cuts off what another POST opened: the 409 check and the open
\* are one step, though a sweep may open and close sessions in between.
StartsSpareStarts ==
    [][\A u \in Users : attached \in Recorders /\ starting = u /\ step[u] = "lock" /\ step'[u] # "lock"
          => by[attached] \notin Users \/ kind[attached] = "scratch"]_allVars

\* A scratch session never replaces a scratch session: the sweeper and the
\* hooks of the requests open one at a time, and look first.
OneScratch ==
    [][\A c \in Callers : attached \in Recorders /\ at[c] = "opening" /\ step[c] = "lock" /\ step'[c] # "lock"
          => kind[attached] # "scratch"]_allVars

\* Every call a recording is started and stopped with is a call of Recording:
\* what holds of every behaviour of Recording holds of the runner.
RunsRecording == Spec

\* A request is answered, whatever the sweeper and the other requests do.
RequestsAnswered == \A u \in Users : at[u] # "idle" ~> at[u] = "idle"

\* While the runner serves, a rig with nothing attached records again before
\* long, if there are sessions left to open.
ScratchComesBack ==
    attached = None ~> attached # None \/ stopped \/ opened = MaxSessions

\* The invariant of the runner, part by part.  Each caller has its places, and
\* asks the rig for what its place is about.
PlaceInv ==
    /\ \A u \in Users : at[u] \in {"idle", "start", "check", "starting", "ending",
                                   "reopen", "ensure", "opening"}
    /\ at[Sweeper] \in {"idle", "rotate", "expired", "rotating", "ensure", "opening"}
    /\ at[Main] \in {"idle", "joining", "stopping", "over"}
    /\ \A c \in Callers : step[c] # "idle" =>
          \/ at[c] \in {"starting", "rotating"} /\ wanted[c] = "session"
          \/ at[c] = "opening" /\ wanted[c] = "scratch"
          \/ at[c] \in {"ending", "stopping"} /\ wanted[c] = None

\* A session was opened by a caller, for what it wanted; only a stop notifies.
OpenedInv ==
    /\ \A r \in Recorders : session[r] # "none" => kind[r] \in Kinds
    /\ \A c \in Callers : step[c] = "declare" =>
          by[opened] = c /\ kind[opened] = wanted[c]
    /\ \A c \in Callers : step[c] = "notify" => wanted[c] = None

\* What is attached while a caller waits for the rig lock.
SlotInv ==
    \A c \in Callers, r \in Recorders : step[c] = "lock" /\ attached = r =>
       /\ at[c] = "starting" => by[r] \notin Users \/ kind[r] = "scratch"
       /\ at[c] = "opening" => kind[r] = "session"

\* The shutdown comes after the requests, and closes after the sweeps.
ShutInv ==
    /\ stopped <=> at[Main] # "idle"
    /\ stopped => \A u \in Users : at[u] = "idle"
    /\ at[Main] \in {"stopping", "over"} => at[Sweeper] = "idle"
    /\ at[Main] \in {"stopping", "over"} /\ step[Main] # "lock" => attached = None

\* Nothing fails, so that an open session has a recorder in use.
HealthyInv ==
    \A r \in Recorders : ~failed[r] /\ (session[r] = "open" => InUse(r))

RetentionInv ==
    RetentionTypeOK /\ LocksHeld /\ PlaceInv /\ OpenedInv /\ SlotInv /\ ShutInv /\ HealthyInv

\* retention.py: a sweep "reopens the scratch session if nothing is being
\* recorded": a scratch session never replaces a recording.
ScratchReplacesNothing ==
    [][\A c \in Callers : at[c] = "opening" /\ step[c] = "lock" /\ step'[c] # "lock"
          => ~Recorded]_allVars

\* retention.py: a sweep "rotates a recording ... into a continuation": what
\* the continuation replaces is the recording it continues.
RotationContinues ==
    [][at[Sweeper] = "rotating" /\ step[Sweeper] = "lock" /\ step'[Sweeper] # "lock"
          => attached = rotating]_allVars
=============================================================================
