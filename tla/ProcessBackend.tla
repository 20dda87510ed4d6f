--------------------------- MODULE ProcessBackend ---------------------------
(***************************************************************************)
(* The daemon's supervisor of runner processes                             *)
(* (daemon/internal/backend/process.go): Start, Stop and Restart of a name *)
(* by any number of callers, one supervise goroutine for each started      *)
(* runner, a probe for each process, and the timers that kill what does    *)
(* not go on SIGTERM.                                                      *)
(*                                                                         *)
(* Time is left out: a backoff may be over at any moment, a stop timeout   *)
(* may come at any moment after SIGTERM.  ProcessBackend.mu is held within *)
(* a step.  A process may exit by itself, on SIGTERM, or only when killed. *)
(***************************************************************************)
EXTENDS Naturals

CONSTANTS
    Callers,        \* goroutines that call the backend
    Names,          \* what runners are named
    Policies,       \* the restart policies of the manifests
    MaxRunners,     \* bound: runners started
    MaxProcesses,   \* bound: processes spawned
    None            \* no runner, no process

ASSUME BackendAssumption ==
    /\ MaxRunners \in Nat /\ MaxProcesses \in Nat
    /\ Policies \subseteq {"always", "on-failure", "never"}
    /\ None \notin Nat

Runners == 1..MaxRunners
Processes == 1..MaxProcesses

VARIABLES
    runners,            \* ProcessBackend.runners
    started,            \* runners so far
    nameOf,             \* of each runner, its name
    policy,             \* runnerProc.policy
    cmd,                \* runnerProc.cmd: its current process
    alive,              \* runnerProc.alive
    status,             \* runnerProc.status
    restartRequested,   \* runnerProc.restartRequested
    stopping,           \* runnerProc.stopping
    supervising,        \* runnerProc.supervising
    wake,               \* runnerProc.wake holds a token
    supervisor,         \* what its supervise goroutine does next; ended is done closed
    spawned,            \* processes so far
    owner,              \* of each process, its runner
    process,            \* none, up, leaving (got SIGTERM), exited, reaped
    code,               \* how it exited
    probe,              \* of each process: asking, answered, done
    timers,             \* processes Restart has set a kill timer for
    target,             \* of each caller, the runner it stops
    armed               \* the process it will kill if that takes too long

mapVars == <<runners, started, nameOf, policy>>
runnerVars == <<cmd, alive, status, restartRequested, stopping, supervising, wake>>
processVars == <<spawned, owner, process, code>>
callVars == <<target, armed>>
backendVars == <<mapVars, runnerVars, supervisor, processVars, probe, timers, callVars>>

Statuses == {"starting", "running", "restarting", "stopped", "failed"}
Codes == {"clean", "crash", "config"}

TypeOK ==
    /\ runners \in [Names -> Runners \cup {None}]
    /\ started \in 0..MaxRunners
    /\ nameOf \in [Runners -> Names \cup {None}]
    /\ policy \in [Runners -> Policies \cup {"none"}]
    /\ cmd \in [Runners -> Processes \cup {None}]
    /\ alive \in [Runners -> BOOLEAN]
    /\ status \in [Runners -> Statuses]
    /\ restartRequested \in [Runners -> BOOLEAN]
    /\ stopping \in [Runners -> BOOLEAN]
    /\ supervising \in [Runners -> BOOLEAN]
    /\ wake \in [Runners -> BOOLEAN]
    /\ supervisor \in [Runners -> {"none", "wait", "reaped", "backoff", "resume", "ended"}]
    /\ spawned \in 0..MaxProcesses
    /\ owner \in [Processes -> Runners \cup {None}]
    /\ process \in [Processes -> {"none", "up", "leaving", "exited", "reaped"}]
    /\ code \in [Processes -> Codes]
    /\ probe \in [Processes -> {"asking", "answered", "done"}]
    /\ timers \in SUBSET Processes
    /\ target \in [Callers -> Runners \cup {None}]
    /\ armed \in [Callers -> Processes \cup {None}]

Init ==
    /\ runners = [n \in Names |-> None]
    /\ started = 0
    /\ nameOf = [r \in Runners |-> None]
    /\ policy = [r \in Runners |-> "none"]
    /\ cmd = [r \in Runners |-> None]
    /\ alive = [r \in Runners |-> FALSE]
    /\ status = [r \in Runners |-> "stopped"]
    /\ restartRequested = [r \in Runners |-> FALSE]
    /\ stopping = [r \in Runners |-> FALSE]
    /\ supervising = [r \in Runners |-> FALSE]
    /\ wake = [r \in Runners |-> FALSE]
    /\ supervisor = [r \in Runners |-> "none"]
    /\ spawned = 0
    /\ owner = [p \in Processes |-> None]
    /\ process = [p \in Processes |-> "none"]
    /\ code = [p \in Processes |-> "clean"]
    /\ probe = [p \in Processes |-> "asking"]
    /\ timers = {}
    /\ target = [c \in Callers |-> None]
    /\ armed = [c \in Callers |-> None]

-----------------------------------------------------------------------------
(* Processes                                                               *)

InState(p, there) == process' = [process EXCEPT ![p] = there]

\* spawn, when the command starts: a new process, not yet answering.
Spawned(r) ==
    /\ spawned < MaxProcesses
    /\ spawned' = spawned + 1
    /\ owner' = [owner EXCEPT ![spawned'] = r]
    /\ InState(spawned', "up")
    /\ cmd' = [cmd EXCEPT ![r] = spawned']
    /\ alive' = [alive EXCEPT ![r] = TRUE]
    /\ status' = [status EXCEPT ![r] = "starting"]
    /\ supervising' = [supervising EXCEPT ![r] = TRUE]
    /\ supervisor' = [supervisor EXCEPT ![r] = "wait"]
    /\ UNCHANGED code

\* spawn, when it does not: nobody supervises the runner any more.
SpawnFailed(r) ==
    /\ status' = [status EXCEPT ![r] = "failed"]
    /\ supervising' = [supervising EXCEPT ![r] = FALSE]
    /\ supervisor' = [supervisor EXCEPT ![r] = "ended"]
    /\ UNCHANGED <<cmd, spawned, owner, process, code>>

\* SIGTERM: a process that has exited does not notice.
Signalled(p) == InState(p, IF process[p] = "up" THEN "leaving" ELSE process[p])

Live(p) == process[p] \in {"up", "leaving"}

Exit(p) ==
    /\ Live(p)
    /\ InState(p, "exited")
    /\ \E how \in Codes : code' = [code EXCEPT ![p] = how]
    /\ UNCHANGED <<mapVars, runnerVars, supervisor, spawned, owner, probe, timers, callVars>>

\* killIfStill: unless p has been replaced, or its exit has been seen.
Killed(p) ==
    LET r == owner[p] IN
    IF alive[r] /\ cmd[r] = p /\ Live(p)
    THEN InState(p, "exited") /\ code' = [code EXCEPT ![p] = "crash"]
    ELSE UNCHANGED <<process, code>>

\* What Restart left behind.
Timer(p) ==
    /\ p \in timers
    /\ timers' = timers \ {p}
    /\ Killed(p)
    /\ UNCHANGED <<mapVars, runnerVars, supervisor, spawned, owner, probe, callVars>>

-----------------------------------------------------------------------------
(* probe                                                                   *)

\* It asks an endpoint, not a process: another runner of the name may answer.
Answers(p) ==
    /\ process[p] # "none"
    /\ probe[p] = "asking"
    /\ cmd[owner[p]] = p /\ alive[owner[p]]
    /\ \E q \in Processes : Live(q) /\ nameOf[owner[q]] = nameOf[owner[p]]
    /\ probe' = [probe EXCEPT ![p] = "answered"]
    /\ UNCHANGED <<mapVars, runnerVars, supervisor, processVars, timers, callVars>>

Mark(p) ==
    /\ probe[p] = "answered"
    /\ probe' = [probe EXCEPT ![p] = "done"]
    /\ LET r == owner[p] IN
       status' = [status EXCEPT ![r] = IF cmd[r] = p /\ alive[r] /\ @ = "starting"
                                       THEN "running" ELSE @]
    /\ UNCHANGED <<mapVars, cmd, alive, restartRequested, stopping, supervising, wake, supervisor,
                   processVars, timers, callVars>>

-----------------------------------------------------------------------------
(* supervise                                                               *)

\* cmd.Wait returns; the lock is not taken yet.
Reap(r) ==
    /\ supervisor[r] = "wait"
    /\ process[cmd[r]] = "exited"
    /\ InState(cmd[r], "reaped")
    /\ supervisor' = [supervisor EXCEPT ![r] = "reaped"]
    /\ UNCHANGED <<mapVars, runnerVars, spawned, owner, code, probe, timers, callVars>>

\* What the policy says of an exit nobody asked for.
Again(r) ==
    /\ code[cmd[r]] # "config"
    /\ policy[r] = "always" \/ (policy[r] = "on-failure" /\ code[cmd[r]] = "crash")

Died(r) ==
    /\ supervisor[r] = "reaped"
    /\ UNCHANGED <<mapVars, stopping, wake, probe, timers, callVars>>

SeeStopped(r) ==
    /\ Died(r)
    /\ stopping[r]
    /\ alive' = [alive EXCEPT ![r] = FALSE]
    /\ status' = [status EXCEPT ![r] = "stopped"]
    /\ supervisor' = [supervisor EXCEPT ![r] = "ended"]
    /\ UNCHANGED <<cmd, restartRequested, supervising, processVars>>

\* Up again at once, whatever the exit code.
SeeRestart(r) ==
    /\ Died(r)
    /\ ~stopping[r] /\ restartRequested[r]
    /\ restartRequested' = [restartRequested EXCEPT ![r] = FALSE]
    /\ Spawned(r) \/ (SpawnFailed(r) /\ alive' = [alive EXCEPT ![r] = FALSE])

SeeEnded(r) ==
    /\ Died(r)
    /\ ~stopping[r] /\ ~restartRequested[r] /\ ~Again(r)
    /\ alive' = [alive EXCEPT ![r] = FALSE]
    /\ status' = [status EXCEPT ![r] = IF code[cmd[r]] = "clean" THEN "stopped" ELSE "failed"]
    /\ supervising' = [supervising EXCEPT ![r] = FALSE]
    /\ supervisor' = [supervisor EXCEPT ![r] = "ended"]
    /\ UNCHANGED <<cmd, restartRequested, processVars>>

SeeCrash(r) ==
    /\ Died(r)
    /\ ~stopping[r] /\ ~restartRequested[r] /\ Again(r)
    /\ alive' = [alive EXCEPT ![r] = FALSE]
    /\ status' = [status EXCEPT ![r] = "restarting"]
    /\ supervisor' = [supervisor EXCEPT ![r] = "backoff"]
    /\ UNCHANGED <<cmd, restartRequested, supervising, processVars>>

\* The backoff is over, or a token cuts it short.
BackoffOver(r) ==
    /\ supervisor[r] = "backoff"
    /\ supervisor' = [supervisor EXCEPT ![r] = "resume"]
    /\ UNCHANGED <<mapVars, runnerVars, processVars, probe, timers, callVars>>

BackoffCut(r) ==
    /\ supervisor[r] = "backoff"
    /\ wake[r]
    /\ wake' = [wake EXCEPT ![r] = FALSE]
    /\ supervisor' = [supervisor EXCEPT ![r] = "resume"]
    /\ UNCHANGED <<mapVars, cmd, alive, status, restartRequested, stopping, supervising,
                   processVars, probe, timers, callVars>>

\* Defect: a runner that was stopped in its backoff is spawned again.
ResumeAnyway(r) ==
    /\ supervisor[r] = "resume"
    /\ restartRequested' = [restartRequested EXCEPT ![r] = FALSE]
    /\ Spawned(r) \/ (SpawnFailed(r) /\ UNCHANGED alive)
    /\ UNCHANGED <<mapVars, stopping, wake, probe, timers, callVars>>

Resume(r) ==
    /\ supervisor[r] = "resume"
    /\ IF stopping[r]
       THEN /\ status' = [status EXCEPT ![r] = "stopped"]
            /\ supervisor' = [supervisor EXCEPT ![r] = "ended"]
            /\ UNCHANGED <<cmd, alive, restartRequested, supervising, processVars>>
       ELSE /\ restartRequested' = [restartRequested EXCEPT ![r] = FALSE]
            /\ Spawned(r) \/ (SpawnFailed(r) /\ UNCHANGED alive)
    /\ UNCHANGED <<mapVars, stopping, wake, probe, timers, callVars>>

-----------------------------------------------------------------------------
(* Start, Stop and Restart                                                 *)

Start(n) ==
    /\ runners[n] = None
    /\ started < MaxRunners
    /\ started' = started + 1
    /\ runners' = [runners EXCEPT ![n] = started']
    /\ nameOf' = [nameOf EXCEPT ![started'] = n]
    /\ \E how \in Policies : policy' = [policy EXCEPT ![started'] = how]
    /\ Spawned(started')
    /\ UNCHANGED <<restartRequested, stopping, wake, probe, timers, callVars>>

\* Deregisters the runner and asks it to go.
Stop(c, n) ==
    LET r == runners[n] IN
    /\ target[c] = None
    /\ r # None
    /\ target' = [target EXCEPT ![c] = r]
    /\ armed' = [armed EXCEPT ![c] = cmd[r]]
    /\ runners' = [runners EXCEPT ![n] = None]
    /\ stopping' = [stopping EXCEPT ![r] = TRUE]
    /\ IF alive[r] THEN Signalled(cmd[r]) ELSE UNCHANGED process
    /\ wake' = [wake EXCEPT ![r] = TRUE]
    /\ UNCHANGED <<started, nameOf, policy, cmd, alive, status, restartRequested, supervising,
                   supervisor, spawned, owner, code, probe, timers>>

\* Defect: SIGTERM is all a process gets.
StopTimeoutOnly(c) ==
    /\ target[c] # None /\ armed[c] # None
    /\ supervisor[target[c]] # "ended"
    /\ armed' = [armed EXCEPT ![c] = None]
    /\ UNCHANGED <<mapVars, runnerVars, supervisor, processVars, probe, timers, target>>

\* Still there after stopTimeout.
StopTimeout(c) ==
    /\ target[c] # None /\ armed[c] # None
    /\ supervisor[target[c]] # "ended"
    /\ armed' = [armed EXCEPT ![c] = None]
    /\ Killed(armed[c])
    /\ UNCHANGED <<mapVars, runnerVars, supervisor, spawned, owner, probe, timers, target>>

\* done is closed.
StopReturns(c) ==
    /\ target[c] # None
    /\ supervisor[target[c]] = "ended"
    /\ target' = [target EXCEPT ![c] = None]
    /\ armed' = [armed EXCEPT ![c] = None]
    /\ UNCHANGED <<mapVars, runnerVars, supervisor, processVars, probe, timers>>

\* Defect: a new process, whatever there is.
RestartAtOnce(n) ==
    LET r == runners[n] IN
    /\ r # None
    /\ \/ Spawned(r)
       \/ /\ status' = [status EXCEPT ![r] = "failed"]
          /\ UNCHANGED <<cmd, alive, supervising, supervisor, processVars>>
    /\ UNCHANGED <<mapVars, restartRequested, stopping, wake, probe, timers, callVars>>

\* One that has stopped or failed starts again.
RestartEnded(n) ==
    LET r == runners[n] IN
    /\ r # None
    /\ ~supervising[r]
    /\ \/ Spawned(r)
       \/ /\ status' = [status EXCEPT ![r] = "failed"]
          /\ UNCHANGED <<cmd, alive, supervising, supervisor, processVars>>
    /\ UNCHANGED <<mapVars, restartRequested, stopping, wake, probe, timers, callVars>>

\* SIGTERM, and supervise restarts it.  Once Wait has returned there is nothing
\* to signal: the call fails and the request stands.
RestartLive(n) ==
    LET r == runners[n] IN
    /\ r # None
    /\ supervising[r] /\ alive[r]
    /\ restartRequested' = [restartRequested EXCEPT ![r] = TRUE]
    /\ Signalled(cmd[r])
    /\ timers' = IF process[cmd[r]] = "reaped" THEN timers ELSE timers \cup {cmd[r]}
    /\ UNCHANGED <<mapVars, cmd, alive, status, stopping, supervising, wake, supervisor, spawned,
                   owner, code, probe, callVars>>

\* One in backoff restarts now.
RestartWaiting(n) ==
    LET r == runners[n] IN
    /\ r # None
    /\ supervising[r] /\ ~alive[r]
    /\ restartRequested' = [restartRequested EXCEPT ![r] = TRUE]
    /\ wake' = [wake EXCEPT ![r] = TRUE]
    /\ UNCHANGED <<mapVars, cmd, alive, status, stopping, supervising, supervisor, processVars,
                   probe, timers, callVars>>

Restart(n) == RestartEnded(n) \/ RestartLive(n) \/ RestartWaiting(n)

-----------------------------------------------------------------------------
ProcessStep(p) == Exit(p) \/ Timer(p) \/ Answers(p) \/ Mark(p)

Supervise(r) ==
    \/ Reap(r) \/ SeeStopped(r) \/ SeeRestart(r) \/ SeeEnded(r) \/ SeeCrash(r)
    \/ BackoffOver(r) \/ BackoffCut(r) \/ Resume(r)

StopStep(c) == StopTimeout(c) \/ StopReturns(c)

Running ==
    \/ \E p \in Processes : ProcessStep(p)
    \/ \E r \in Runners : Supervise(r)
    \/ \E c \in Callers : StopStep(c)

Next ==
    \/ Running
    \/ \E n \in Names : Start(n) \/ Restart(n) \/ \E c \in Callers : Stop(c, n)

Spec == Init /\ [][Next]_backendVars

\* Goroutines run, backoffs end and timers fire.  A process may never exit.
Fairness ==
    /\ \A p \in Processes : WF_backendVars(Timer(p))
    /\ \A r \in Runners : WF_backendVars(Supervise(r))
    /\ \A c \in Callers : WF_backendVars(StopStep(c))

FairSpec == Spec /\ Fairness

-----------------------------------------------------------------------------
(* Properties                                                              *)

\* A runner has one process at a time: its last.  Nobody spawns another while
\* that one is there, and nobody spawns two.
OneProcess ==
    \A p \in Processes : process[p] \in {"up", "leaving", "exited"} =>
       /\ cmd[owner[p]] = p
       /\ alive[owner[p]] /\ supervising[owner[p]]
       /\ supervisor[owner[p]] = "wait"

\* A runner that somebody stops gets no new process, though it was waiting out
\* its backoff or had been asked to restart.
NoneAfterStop ==
    [][\A r \in Runners : stopping[r] => cmd'[r] = cmd[r]]_backendVars

\* When Stop returns nothing is left behind: the process is gone and supervise
\* has finished.
StopLeavesNothing ==
    [][\A c \in Callers : target[c] # None /\ target'[c] = None =>
         /\ supervisor[target[c]] = "ended"
         /\ \A p \in Processes : owner[p] = target[c] => process[p] = "reaped"]_backendVars

\* A timeout that comes late finds the process it was meant for or none: no
\* process is killed that was not asked to go.
KillsWhatWasAsked ==
    [][\/ timers' \subseteq timers /\ timers' # timers
       \/ \E c \in Callers : target'[c] = target[c] /\ armed'[c] # armed[c]
       => \A p \in Processes : process'[p] # process[p] => process[p] = "leaving"]_backendVars

\* A runner is shown as running only when the process it has now has been seen
\* to answer.
RunningAnswered ==
    \A r \in Runners : status[r] = "running" => alive[r] /\ probe[cmd[r]] = "done"

\* Stop comes back, whatever the process does.
StopsEnd == \A c \in Callers : target[c] # None ~> target[c] = None

\* A restart that was asked for happens, whatever the process does and whatever
\* it exits with, unless the runner is stopped or does not start.
RestartHonoured ==
    \A r \in Runners : \A p \in Processes :
       restartRequested[r] /\ cmd[r] = p ~> cmd[r] # p \/ stopping[r] \/ status[r] = "failed"

\* process.go: "Stop or Restart cut the wait short", nothing else does.
BackoffWaited ==
    [][\A r \in Runners : wake[r] /\ ~wake'[r] => restartRequested[r] \/ stopping[r]]_backendVars
=============================================================================
