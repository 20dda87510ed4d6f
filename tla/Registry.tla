------------------------------ MODULE Registry ------------------------------
(***************************************************************************)
(* The daemon's registry of runners (daemon/internal/registry/registry.go) *)
(* over the process backend: what GET /api/runners lists and the proxy     *)
(* routes by.  Registry.mu guards the entries only; the backend is called  *)
(* outside it, so a start and a stop are several steps each.               *)
(***************************************************************************)
EXTENDS ProcessBackend

VARIABLES
    entries,    \* Registry.entries: the names that are listed
    place,      \* where each caller is: idle, start, enter, leave
    wanted      \* the name it starts or stops

registryVars == <<entries, place, wanted>>
allVars == <<backendVars, registryVars>>

RegistryTypeOK ==
    /\ TypeOK
    /\ entries \in SUBSET Names
    /\ place \in [Callers -> {"idle", "start", "enter", "leave"}]
    /\ wanted \in [Callers -> Names \cup {None}]

RegistryInit ==
    /\ Init
    /\ entries = {}
    /\ place = [c \in Callers |-> "idle"]
    /\ wanted = [c \in Callers |-> None]

Proceed(c, there, n) ==
    /\ place' = [place EXCEPT ![c] = there]
    /\ wanted' = [wanted EXCEPT ![c] = n]

-----------------------------------------------------------------------------
(* Registry.Start                                                          *)

\* "already registered", or on to the backend.
CheckFree(c, n) ==
    /\ place[c] = "idle"
    /\ n \notin entries
    /\ Proceed(c, "start", n)
    /\ UNCHANGED <<backendVars, entries>>

StartRunner(c) ==
    /\ place[c] = "start"
    /\ Start(wanted[c])
    /\ Proceed(c, "enter", wanted[c])
    /\ UNCHANGED entries

\* The backend has one of that name, or the command does not start.
StartRefused(c) ==
    /\ place[c] = "start"
    /\ Proceed(c, "idle", None)
    /\ UNCHANGED <<backendVars, entries>>

Enter(c) ==
    /\ place[c] = "enter"
    /\ entries' = entries \cup {wanted[c]}
    /\ Proceed(c, "idle", None)
    /\ UNCHANGED backendVars

-----------------------------------------------------------------------------
(* Registry.Stop and Restart                                               *)

StopRunner(c, n) ==
    /\ place[c] = "idle"
    /\ Stop(c, n)
    /\ Proceed(c, "leave", n)
    /\ UNCHANGED entries

Leave(c) ==
    /\ place[c] = "leave"
    /\ target[c] = None
    /\ entries' = entries \ {wanted[c]}
    /\ Proceed(c, "idle", None)
    /\ UNCHANGED backendVars

RestartRunner(n) ==
    /\ Restart(n)
    /\ UNCHANGED registryVars

RegistryStep(c) == StartRunner(c) \/ StartRefused(c) \/ Enter(c) \/ Leave(c)

RegistryNext ==
    \/ \E c \in Callers : RegistryStep(c) \/ \E n \in Names : CheckFree(c, n) \/ StopRunner(c, n)
    \/ \E n \in Names : RestartRunner(n)
    \/ Running /\ UNCHANGED registryVars

RegistrySpec == RegistryInit /\ [][RegistryNext]_allVars

\* Goroutines run; nobody has to start or stop anything.
RegistryFairSpec == RegistrySpec /\ Fairness

-----------------------------------------------------------------------------
(* Properties                                                              *)

\* While starts and stops come one after the other: between them, what is
\* listed is what there is.
ListedIsRun ==
    (\A c \in Callers : place[c] = "idle") => entries = {n \in Names : runners[n] # None}

\* A name is free for another runner only when its process has gone: two never
\* run the same rig, and a probe is answered by the process it is for.
OneOfAName ==
    \A p, q \in Processes : Live(p) /\ Live(q) /\ nameOf[owner[p]] = nameOf[owner[q]] => p = q

\* registry.go: it is "the daemon's live view of what's running", whoever
\* starts and stops at the same time.
LiveView == ListedIsRun
=============================================================================
