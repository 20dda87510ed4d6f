------------------------ MODULE ProcessBackendProofs ------------------------
(***************************************************************************)
(* Proofs about the process backend, for any number of callers, names,     *)
(* runners and processes.  What each supervisor is at says what there may  *)
(* be of its runner's process (Phase); a process that has not been reaped  *)
(* is the last of a runner whose supervisor waits for it.                  *)
(***************************************************************************)
EXTENDS Registry, TLAPS

\* Processes and runners are numbered as they come.
Counted ==
    /\ \A p \in Processes :
          IF p <= spawned THEN owner[p] \in 1..started /\ process[p] # "none"
          ELSE owner[p] = None /\ process[p] = "none"
    /\ \A r \in Runners : supervisor[r] = "none" <=> r > started

\* What the map holds has started, under that name, and is not being stopped.
Registered ==
    \A n \in Names : runners[n] # None =>
       runners[n] \in 1..started /\ ~stopping[runners[n]] /\ nameOf[runners[n]] = n

\* What there is of a runner at each point of its supervisor.
Phase(r) ==
    /\ supervisor[r] = "none" => ~alive[r] /\ ~supervising[r] /\ ~stopping[r]
    /\ supervisor[r] = "wait" =>
          /\ alive[r] /\ supervising[r]
          /\ cmd[r] \in 1..spawned /\ owner[cmd[r]] = r
          /\ process[cmd[r]] \in {"up", "leaving", "exited"}
    /\ supervisor[r] = "reaped" =>
          alive[r] /\ supervising[r] /\ cmd[r] \in 1..spawned /\ process[cmd[r]] = "reaped"
    /\ supervisor[r] \in {"backoff", "resume"} => ~alive[r] /\ supervising[r]
    /\ supervisor[r] = "ended" => ~alive[r] /\ (supervising[r] => stopping[r])

Phases == \A r \in Runners : Phase(r)

BInv == TypeOK /\ Counted /\ Registered /\ Phases /\ OneProcess

\* It holds when the daemon starts.
LEMMA BInvInit == Init => BInv
<1> SUFFICES ASSUME Init PROVE BInv
  OBVIOUS
<1>0. MaxRunners \in Nat /\ MaxProcesses \in Nat /\ None \notin Nat
  BY BackendAssumption
<1>1. TypeOK
  BY <1>0 DEF Init, TypeOK, Statuses, Codes, Runners, Processes
<1>2. Counted
  BY <1>0 DEF Init, Counted, Runners, Processes
<1>3. Registered
  BY DEF Init, Registered
<1>4. Phases
  BY DEF Init, Phases, Phase
<1>5. OneProcess
  BY DEF Init, OneProcess
<1> QED BY <1>1, <1>2, <1>3, <1>4, <1>5 DEF BInv

\* While its supervisor does not wait for one, a runner has no process.
LEMMA NoneUnlessWaited ==
    ASSUME BInv, NEW r \in Runners, supervisor[r] # "wait"
    PROVE  \A p \in Processes : owner[p] = r => process[p] = "reaped"
  <1>1. SUFFICES ASSUME NEW p \in Processes, owner[p] = r PROVE process[p] = "reaped"
    OBVIOUS
  <1>2. process[p] \notin {"up", "leaving", "exited"}
    BY <1>1 DEF BInv, OneProcess
  <1>3. process[p] # "none"
    BY <1>1, BackendAssumption DEF BInv, Counted, Runners, Processes
  <1> QED BY <1>2, <1>3 DEF BInv, TypeOK

\* A process that starts is the only one of its runner, of which none was left.
LEMMA SpawnKeeps ==
    ASSUME BInv, NEW r \in Runners, Spawned(r), supervisor[r] # "wait", ~stopping[r],
           started' \in Nat, r <= started', started <= started',
           \A s \in Runners : s > started /\ s <= started' => s = r,
           UNCHANGED stopping,
           \A n \in Names : runners'[n] # runners[n] => runners'[n] = r /\ nameOf'[r] = n,
           \A s \in 1..started : nameOf'[s] = nameOf[s]
    PROVE  Counted' /\ Registered' /\ Phases' /\ OneProcess'
  <1>0. /\ MaxRunners \in Nat /\ MaxProcesses \in Nat /\ None \notin Nat
        /\ spawned \in 0..MaxProcesses /\ started \in 0..MaxRunners
    BY BackendAssumption DEF BInv, TypeOK
  <1> DEFINE q == spawned + 1
  <1>1. /\ q \in Processes /\ q \in Nat /\ spawned' = q
        /\ owner' = [owner EXCEPT ![q] = r]
        /\ process' = [process EXCEPT ![q] = "up"]
        /\ cmd' = [cmd EXCEPT ![r] = q]
        /\ alive' = [alive EXCEPT ![r] = TRUE]
        /\ supervising' = [supervising EXCEPT ![r] = TRUE]
        /\ supervisor' = [supervisor EXCEPT ![r] = "wait"]
    BY <1>0 DEF Spawned, InState, Processes
  <1>2. /\ owner'[q] = r /\ process'[q] = "up" /\ cmd'[r] = q /\ alive'[r] /\ supervising'[r]
        /\ supervisor'[r] = "wait"
        /\ \A p \in Processes : p # q => owner'[p] = owner[p] /\ process'[p] = process[p]
        /\ \A s \in Runners : s # r => /\ cmd'[s] = cmd[s] /\ alive'[s] = alive[s]
                                       /\ supervising'[s] = supervising[s]
                                       /\ supervisor'[s] = supervisor[s]
    BY <1>1 DEF BInv, TypeOK
  <1> HIDE DEF q
  <1>3. Counted'
    <2>1. ASSUME NEW p \in Processes
          PROVE  IF p <= spawned' THEN owner'[p] \in 1..started' /\ process'[p] # "none"
                 ELSE owner'[p] = None /\ process'[p] = "none"
      <3>1. CASE p = q
        BY <3>1, <1>0, <1>1, <1>2 DEF Runners
      <3>2. CASE p # q
        <4>1. p \in Nat /\ (p <= spawned' <=> p <= spawned)
          BY <3>2, <1>0, <1>1 DEF Processes, q
        <4>2. owner'[p] = owner[p] /\ process'[p] = process[p]
          BY <3>2, <1>2
        <4> QED BY <4>1, <4>2, <1>0 DEF BInv, Counted
      <3> QED BY <3>1, <3>2
    <2>2. ASSUME NEW s \in Runners PROVE supervisor'[s] = "none" <=> s > started'
      <3>1. CASE s = r
        BY <3>1, <1>0, <1>2 DEF Runners
      <3>2. CASE s # r
        BY <3>2, <1>0, <1>2 DEF BInv, Counted, Runners
      <3> QED BY <3>1, <3>2
    <2> QED BY <2>1, <2>2 DEF Counted
  <1>4. Registered'
    <2>1. ASSUME NEW n \in Names, runners'[n] # None
          PROVE  runners'[n] \in 1..started' /\ ~stopping'[runners'[n]] /\ nameOf'[runners'[n]] = n
      <3>1. CASE runners'[n] = runners[n]
        BY <2>1, <3>1, <1>0 DEF BInv, Registered
      <3>2. CASE runners'[n] # runners[n]
        BY <3>2, <1>0 DEF Runners
      <3> QED BY <3>1, <3>2
    <2> QED BY <2>1 DEF Registered
  <1>5. Phases'
    <2>1. ASSUME NEW s \in Runners PROVE Phase(s)'
      <3>1. CASE s = r
        BY <3>1, <1>0, <1>1, <1>2 DEF Phase, q
      <3>2. CASE s # r
        <4>1. Phase(s)
          BY DEF BInv, Phases
        <4>2. \A p \in 1..spawned : p \in Processes /\ p # q /\ p \in 1..spawned'
          BY <1>0, <1>1 DEF Processes, q
        <4> QED BY <4>1, <4>2, <3>2, <1>2 DEF Phase
      <3> QED BY <3>1, <3>2
    <2> QED BY <2>1 DEF Phases
  <1>6. OneProcess'
    <2>1. ASSUME NEW p \in Processes, process'[p] \in {"up", "leaving", "exited"}
          PROVE  /\ cmd'[owner'[p]] = p
                 /\ alive'[owner'[p]] /\ supervising'[owner'[p]] /\ supervisor'[owner'[p]] = "wait"
      <3>1. CASE p = q
        BY <3>1, <1>2
      <3>2. CASE p # q
        <4>1. /\ owner'[p] = owner[p] /\ process[p] \in {"up", "leaving", "exited"}
          BY <2>1, <3>2, <1>2
        <4>2. owner[p] # r
          BY <4>1, NoneUnlessWaited
        <4>3. owner[p] \in Runners
          BY <4>1, <1>0 DEF BInv, Counted, Runners, Processes
        <4> QED BY <4>1, <4>2, <4>3, <1>2 DEF BInv, OneProcess
      <3> QED BY <3>1, <3>2
    <2> QED BY <2>1 DEF OneProcess
  <1> QED BY <1>3, <1>4, <1>5, <1>6

\* The type of what a spawn changes.
LEMMA SpawnTyped ==
    ASSUME TypeOK, NEW r \in Runners, Spawned(r)
    PROVE  /\ spawned' \in 0..MaxProcesses
           /\ owner' \in [Processes -> Runners \cup {None}]
           /\ process' \in [Processes -> {"none", "up", "leaving", "exited", "reaped"}]
           /\ cmd' \in [Runners -> Processes \cup {None}]
           /\ alive' \in [Runners -> BOOLEAN]
           /\ status' \in [Runners -> Statuses]
           /\ supervising' \in [Runners -> BOOLEAN]
           /\ supervisor' \in [Runners -> {"none", "wait", "reaped", "backoff", "resume", "ended"}]
           /\ code' \in [Processes -> Codes]
  <1>1. spawned + 1 \in Processes /\ spawned + 1 \in 0..MaxProcesses
    BY BackendAssumption DEF TypeOK, Spawned, Processes
  <1> QED BY <1>1 DEF TypeOK, Spawned, InState, Statuses

\* Processes that are told to go, and go.
GoesOnly == \A p \in Processes : process'[p] # process[p] =>
                process[p] \in {"up", "leaving"} /\ process'[p] \in {"leaving", "exited"}

\* Signals and exits leave every supervisor where it was.
LEMMA GoingKeeps ==
    ASSUME BInv, GoesOnly,
           UNCHANGED <<started, spawned, owner, cmd, alive, supervising, supervisor>>,
           \A r \in Runners : stopping'[r] = stopping[r] \/ (stopping'[r] /\ supervisor[r] # "none")
    PROVE  Counted' /\ Phases' /\ OneProcess'
  <1>1. Counted'
    BY DEF BInv, Counted, GoesOnly
  <1>2. ASSUME NEW r \in Runners PROVE Phase(r)'
    <2>1. Phase(r)
      BY DEF BInv, Phases
    <2>2. \A p \in 1..spawned : p \in Processes
      BY BackendAssumption DEF BInv, TypeOK, Processes
    <2> QED BY <2>1, <2>2 DEF Phase, GoesOnly
  <1>3. OneProcess'
    BY DEF BInv, OneProcess, GoesOnly
  <1> QED BY <1>1, <1>2, <1>3 DEF Phases

\* Nothing of what the invariant speaks of.
LEMMA QuietKeeps ==
    ASSUME BInv, UNCHANGED <<started, spawned, owner, process, cmd, alive, supervising, supervisor,
                             stopping, runners, nameOf>>
    PROVE  Counted' /\ Registered' /\ Phases' /\ OneProcess'
  BY DEF BInv, Counted, Registered, Phases, Phase, OneProcess

\* What killIfStill does to a process.
LEMMA KilledGoes ==
    ASSUME TypeOK, NEW p \in Processes, Killed(p)
    PROVE  /\ GoesOnly
           /\ process' \in [Processes -> {"none", "up", "leaving", "exited", "reaped"}]
           /\ code' \in [Processes -> Codes]
  BY DEF TypeOK, Killed, Live, InState, GoesOnly, Codes

\* What SIGTERM does to one.
LEMMA SignalledGoes ==
    ASSUME TypeOK, NEW p \in Processes, Signalled(p)
    PROVE  /\ GoesOnly
           /\ process' \in [Processes -> {"none", "up", "leaving", "exited", "reaped"}]
  BY DEF TypeOK, Signalled, InState, GoesOnly

\* A process exits, a timer fires, a probe is answered and noted.
LEMMA ProcessStepKeeps ==
    ASSUME BInv, NEW p \in Processes, ProcessStep(p)
    PROVE  BInv'
  <1>1. CASE Exit(p)
    <2>1. TypeOK'
      BY <1>1 DEF Exit, BInv, TypeOK, InState, Codes, mapVars, runnerVars, callVars
    <2>2. GoesOnly
      BY <1>1 DEF Exit, BInv, TypeOK, InState, Live, GoesOnly
    <2>3. Registered'
      BY <1>1 DEF Exit, BInv, Registered, mapVars, runnerVars
    <2> QED BY <1>1, <2>1, <2>2, <2>3, GoingKeeps DEF BInv, Exit, mapVars, runnerVars
  <1>2. CASE Timer(p)
    <2>1. TypeOK'
      BY <1>2, KilledGoes DEF Timer, BInv, TypeOK, mapVars, runnerVars, callVars
    <2>2. GoesOnly
      BY <1>2, KilledGoes DEF Timer, BInv
    <2>3. Registered'
      BY <1>2 DEF Timer, BInv, Registered, mapVars, runnerVars
    <2> QED BY <1>2, <2>1, <2>2, <2>3, GoingKeeps DEF BInv, Timer, mapVars, runnerVars
  <1>3. CASE Answers(p)
    <2>1. TypeOK'
      BY <1>3 DEF Answers, BInv, TypeOK, mapVars, runnerVars, processVars, callVars
    <2> QED BY <1>3, <2>1, QuietKeeps DEF BInv, Answers, mapVars, runnerVars, processVars
  <1>4. CASE Mark(p)
    <2>1. TypeOK'
      BY <1>4 DEF Mark, BInv, TypeOK, mapVars, processVars, callVars, Statuses
    <2> QED BY <1>4, <2>1, QuietKeeps DEF BInv, Mark, mapVars, processVars
  <1> QED BY <1>1, <1>2, <1>3, <1>4 DEF ProcessStep

\* A Stop that has waited long enough, and one that comes back.
LEMMA StopStepKeeps ==
    ASSUME BInv, NEW c \in Callers, StopStep(c)
    PROVE  BInv'
  <1>1. CASE StopTimeout(c)
    <2>0. armed[c] \in Processes
      BY <1>1 DEF StopTimeout, BInv, TypeOK
    <2>1. TypeOK'
      BY <1>1, <2>0, KilledGoes DEF StopTimeout, BInv, TypeOK, mapVars, runnerVars
    <2>2. GoesOnly
      BY <1>1, <2>0, KilledGoes DEF StopTimeout, BInv
    <2>3. Registered'
      BY <1>1 DEF StopTimeout, BInv, Registered, mapVars, runnerVars
    <2> QED BY <1>1, <2>1, <2>2, <2>3, GoingKeeps DEF BInv, StopTimeout, mapVars, runnerVars
  <1>2. CASE StopReturns(c)
    <2>1. TypeOK'
      BY <1>2 DEF StopReturns, BInv, TypeOK, mapVars, runnerVars, processVars
    <2> QED BY <1>2, <2>1, QuietKeeps DEF BInv, StopReturns, mapVars, runnerVars, processVars
  <1> QED BY <1>1, <1>2 DEF StopStep

\* A supervisor moves on, with no process left to its runner, or with the one it
\* waited for just reaped.
LEMMA SupervisorKeeps ==
    ASSUME BInv, NEW r \in Runners,
           supervisor[r] \in {"wait", "reaped", "backoff", "resume"},
           NEW there \in {"reaped", "backoff", "resume", "ended"},
           supervisor' = [supervisor EXCEPT ![r] = there],
           NEW a \in BOOLEAN, alive' = [alive EXCEPT ![r] = a],
           NEW b \in BOOLEAN, supervising' = [supervising EXCEPT ![r] = b],
           UNCHANGED <<started, spawned, owner, cmd, stopping, runners, nameOf>>,
           IF supervisor[r] = "wait" THEN process' = [process EXCEPT ![cmd[r]] = "reaped"]
           ELSE process' = process,
           Phase(r)'
    PROVE  Counted' /\ Registered' /\ Phases' /\ OneProcess'
  <1>0. /\ supervisor'[r] = there
        /\ \A s \in Runners : s # r => /\ supervisor'[s] = supervisor[s] /\ alive'[s] = alive[s]
                                       /\ supervising'[s] = supervising[s]
        /\ \A p \in Processes :
              process'[p] = IF supervisor[r] = "wait" /\ p = cmd[r] THEN "reaped" ELSE process[p]
    BY DEF BInv, TypeOK
  <1>1. Counted'
    <2>1. supervisor[r] = "wait" => cmd[r] \in 1..spawned
      BY DEF BInv, Phases, Phase
    <2>2. ASSUME NEW p \in Processes
          PROVE  IF p <= spawned THEN owner[p] \in 1..started /\ process'[p] # "none"
                 ELSE owner[p] = None /\ process'[p] = "none"
      BY <2>1, <1>0 DEF BInv, Counted
    <2>3. ASSUME NEW s \in Runners PROVE supervisor'[s] = "none" <=> s > started
      BY <1>0 DEF BInv, Counted
    <2> QED BY <2>2, <2>3 DEF Counted
  <1>2. Registered'
    BY DEF BInv, Registered
  <1>3. ASSUME NEW s \in Runners, s # r PROVE Phase(s)'
    <2>1. Phase(s) /\ Phase(r)
      BY DEF BInv, Phases
    <2>2. \A p \in 1..spawned : p \in Processes
      BY BackendAssumption DEF BInv, TypeOK, Processes
    <2>3. supervisor[s] \in {"wait", "reaped"} /\ supervisor[r] = "wait" =>
              cmd[s] # cmd[r] \/ supervisor[s] = "reaped"
      BY <2>1, <1>3 DEF Phase
    <2>4. supervisor[s] = "reaped" => cmd[s] \in Processes /\ process'[cmd[s]] = "reaped"
      BY <2>1, <2>2, <1>0 DEF Phase
    <2>5. supervisor[s] = "wait" => /\ cmd[s] \in Processes
                                    /\ process'[cmd[s]] \in {"up", "leaving", "exited"}
      BY <2>1, <2>2, <2>3, <1>0 DEF Phase
    <2> QED BY <2>1, <2>4, <2>5, <1>0, <1>3 DEF Phase
  <1>4. Phases'
    BY <1>3 DEF Phases
  <1>5. OneProcess'
    <2>1. ASSUME NEW p \in Processes, process'[p] \in {"up", "leaving", "exited"}
          PROVE  process[p] \in {"up", "leaving", "exited"} /\ owner[p] # r /\ owner[p] \in Runners
      <3>1. process[p] \in {"up", "leaving", "exited"}
        BY <2>1, <1>0
      <3>2. owner[p] # r
        BY <3>1, <2>1, <1>0 DEF BInv, OneProcess
      <3>3. owner[p] \in Runners
        BY <3>1, BackendAssumption DEF BInv, TypeOK, Counted, Runners, Processes
      <3> QED BY <3>1, <3>2, <3>3
    <2> QED BY <2>1, <1>0 DEF BInv, OneProcess
  <1> QED BY <1>1, <1>2, <1>4, <1>5

\* spawn for a runner that has started and is not being stopped.
LEMMA SpawnOfStartedKeeps ==
    ASSUME BInv, NEW r \in Runners, Spawned(r), supervisor[r] \notin {"wait", "none"},
           ~stopping[r], UNCHANGED <<stopping, started, runners, nameOf>>
    PROVE  Counted' /\ Registered' /\ Phases' /\ OneProcess'
  <1>1. started \in Nat /\ r <= started /\ \A s \in Runners : s \in Nat
    BY BackendAssumption DEF BInv, TypeOK, Counted, Runners
  <1> QED BY <1>1, SpawnKeeps

\* A spawn that fails ends the supervisor.
LEMMA SpawnFailedKeeps ==
    ASSUME BInv, NEW r \in Runners, SpawnFailed(r), supervisor[r] \in {"reaped", "resume"},
           alive' = [alive EXCEPT ![r] = FALSE],
           UNCHANGED <<stopping, started, runners, nameOf>>
    PROVE  Counted' /\ Registered' /\ Phases' /\ OneProcess'
  <1>1. Phase(r)'
    BY DEF BInv, TypeOK, SpawnFailed, Phase
  <1> QED BY <1>1, SupervisorKeeps DEF SpawnFailed

\* Each turn of a supervisor.
LEMMA SuperviseKeeps ==
    ASSUME BInv, NEW r \in Runners, Supervise(r)
    PROVE  BInv'
  <1>0. /\ Phase(r) /\ TypeOK
        /\ \A p \in 1..spawned : p \in Processes
    BY BackendAssumption DEF BInv, Phases, TypeOK, Processes
  <1>1. CASE Reap(r)
    <2>1. cmd[r] \in Processes
      BY <1>0, <1>1 DEF Reap, Phase
    <2>2. TypeOK'
      BY <1>0, <1>1, <2>1 DEF Reap, TypeOK, InState, mapVars, runnerVars, callVars
    <2>3. Phase(r)'
      BY <1>0, <1>1, <2>1 DEF Reap, TypeOK, InState, Phase, runnerVars
    <2>4. alive' = [alive EXCEPT ![r] = alive[r]] /\ supervising' = [supervising EXCEPT ![r] = supervising[r]]
      BY <1>0, <1>1 DEF Reap, TypeOK, runnerVars
    <2>5. alive[r] \in BOOLEAN /\ supervising[r] \in BOOLEAN
      BY <1>0 DEF TypeOK
    <2> QED BY <1>1, <2>2, <2>3, <2>4, <2>5, SupervisorKeeps DEF BInv, Reap, InState, mapVars, runnerVars
  <1>2. CASE SeeStopped(r)
    <2>1. TypeOK'
      BY <1>0, <1>2 DEF SeeStopped, Died, TypeOK, mapVars, callVars, processVars, Statuses
    <2>2. Phase(r)'
      BY <1>0, <1>2 DEF SeeStopped, Died, TypeOK, Phase
    <2>3. supervising[r] \in BOOLEAN /\ supervising' = [supervising EXCEPT ![r] = supervising[r]]
      BY <1>0, <1>2 DEF SeeStopped, TypeOK
    <2> QED BY <1>2, <2>1, <2>2, <2>3, SupervisorKeeps DEF BInv, SeeStopped, Died, mapVars, processVars
  <1>3. CASE SeeRestart(r)
    <2>1. UNCHANGED <<runners, started, nameOf, policy, stopping, wake, probe, timers, target, armed>>
      BY <1>3 DEF SeeRestart, Died, mapVars, callVars
    <2>2. CASE Spawned(r)
      <3>1. TypeOK'
        BY <1>0, <1>3, <2>1, <2>2, SpawnTyped DEF SeeRestart, TypeOK
      <3> QED BY <1>3, <2>1, <2>2, <3>1, SpawnOfStartedKeeps DEF BInv, SeeRestart, Died
    <2>3. CASE SpawnFailed(r) /\ alive' = [alive EXCEPT ![r] = FALSE]
      <3>1. TypeOK'
        BY <1>0, <1>3, <2>1, <2>3 DEF SeeRestart, SpawnFailed, TypeOK, Statuses
      <3> QED BY <1>3, <2>1, <2>3, <3>1, SpawnFailedKeeps DEF BInv, SeeRestart, Died
    <2> QED BY <1>3, <2>2, <2>3 DEF SeeRestart
  <1>4. CASE SeeEnded(r)
    <2>1. TypeOK'
      BY <1>0, <1>4 DEF SeeEnded, Died, TypeOK, mapVars, callVars, processVars, Statuses
    <2>2. Phase(r)'
      BY <1>0, <1>4 DEF SeeEnded, Died, TypeOK, Phase
    <2> QED BY <1>4, <2>1, <2>2, SupervisorKeeps DEF BInv, SeeEnded, Died, mapVars, processVars
  <1>5. CASE SeeCrash(r)
    <2>1. TypeOK'
      BY <1>0, <1>5 DEF SeeCrash, Died, TypeOK, mapVars, callVars, processVars, Statuses
    <2>2. Phase(r)'
      BY <1>0, <1>5 DEF SeeCrash, Died, TypeOK, Phase
    <2>3. supervising[r] \in BOOLEAN /\ supervising' = [supervising EXCEPT ![r] = supervising[r]]
      BY <1>0, <1>5 DEF SeeCrash, TypeOK
    <2> QED BY <1>5, <2>1, <2>2, <2>3, SupervisorKeeps DEF BInv, SeeCrash, Died, mapVars, processVars
  <1>6. CASE BackoffOver(r) \/ BackoffCut(r)
    <2>1. TypeOK'
      <3>1. CASE BackoffOver(r)
        BY <1>0, <3>1 DEF BackoffOver, TypeOK, mapVars, runnerVars, callVars, processVars
      <3>2. CASE BackoffCut(r)
        BY <1>0, <3>2 DEF BackoffCut, TypeOK, mapVars, callVars, processVars
      <3> QED BY <1>6, <3>1, <3>2
    <2>2. /\ supervisor[r] = "backoff" /\ supervisor' = [supervisor EXCEPT ![r] = "resume"]
          /\ UNCHANGED <<alive, supervising, stopping, cmd, started, spawned, owner, process, runners, nameOf>>
      BY <1>6 DEF BackoffOver, BackoffCut, mapVars, runnerVars, processVars
    <2>3. Phase(r)'
      BY <1>0, <2>2 DEF TypeOK, Phase
    <2>4. /\ alive[r] \in BOOLEAN /\ alive' = [alive EXCEPT ![r] = alive[r]]
          /\ supervising[r] \in BOOLEAN /\ supervising' = [supervising EXCEPT ![r] = supervising[r]]
      BY <1>0, <2>2 DEF TypeOK
    <2> QED BY <2>1, <2>2, <2>3, <2>4, SupervisorKeeps DEF BInv
  <1>7. CASE Resume(r)
    <2>1. UNCHANGED <<runners, started, nameOf, policy, stopping, wake, probe, timers, target, armed>>
      BY <1>7 DEF Resume, mapVars, callVars
    <2>2. CASE stopping[r]
      <3>1. /\ supervisor[r] = "resume" /\ supervisor' = [supervisor EXCEPT ![r] = "ended"]
            /\ status' = [status EXCEPT ![r] = "stopped"]
            /\ UNCHANGED <<cmd, alive, restartRequested, supervising, processVars>>
        BY <1>7, <2>2 DEF Resume
      <3>2. TypeOK'
        BY <1>0, <2>1, <3>1 DEF TypeOK, processVars, Statuses
      <3>3. Phase(r)'
        BY <1>0, <2>1, <2>2, <3>1 DEF TypeOK, Phase
      <3>4. /\ alive[r] \in BOOLEAN /\ alive' = [alive EXCEPT ![r] = alive[r]]
            /\ supervising[r] \in BOOLEAN /\ supervising' = [supervising EXCEPT ![r] = supervising[r]]
        BY <1>0, <3>1 DEF TypeOK
      <3> QED BY <2>1, <3>1, <3>2, <3>3, <3>4, SupervisorKeeps DEF BInv, processVars
    <2>3. CASE ~stopping[r] /\ Spawned(r)
      <3>1. TypeOK'
        BY <1>0, <1>7, <2>1, <2>3, SpawnTyped DEF Resume, TypeOK
      <3> QED BY <1>7, <2>1, <2>3, <3>1, SpawnOfStartedKeeps DEF BInv, Resume
    <2>4. CASE ~stopping[r] /\ SpawnFailed(r) /\ UNCHANGED alive
      <3>1. TypeOK'
        BY <1>0, <1>7, <2>1, <2>4 DEF Resume, SpawnFailed, TypeOK, Statuses
      <3>2. alive' = [alive EXCEPT ![r] = FALSE]
        BY <1>0, <1>7, <2>4 DEF Resume, TypeOK, Phase
      <3> QED BY <1>7, <2>1, <2>4, <3>1, <3>2, SpawnFailedKeeps DEF BInv, Resume
    <2> QED BY <1>7, <2>2, <2>3, <2>4 DEF Resume
  <1> QED BY <1>1, <1>2, <1>3, <1>4, <1>5, <1>6, <1>7 DEF Supervise

\* A runner that is started.
LEMMA StartKeeps ==
    ASSUME BInv, NEW n \in Names, Start(n)
    PROVE  BInv'
  <1>0. MaxRunners \in Nat /\ started \in Nat /\ TypeOK
    BY BackendAssumption DEF BInv, TypeOK
  <1> DEFINE r == started + 1
  <1>1. r \in Runners /\ r > started /\ started' = r
    BY <1>0 DEF Start, Runners
  <1>2. /\ runners' = [runners EXCEPT ![n] = r]
        /\ nameOf' = [nameOf EXCEPT ![r] = n]
        /\ \E how \in Policies : policy' = [policy EXCEPT ![r] = how]
        /\ Spawned(r)
        /\ UNCHANGED <<restartRequested, stopping, wake, probe, timers, callVars>>
    BY <1>1 DEF Start
  <1>3. supervisor[r] = "none" /\ ~stopping[r]
    BY <1>1 DEF BInv, Counted, Phases, Phase
  <1>4. TypeOK'
    BY <1>0, <1>1, <1>2, SpawnTyped DEF TypeOK, Runners, callVars
  <1>5. \A s \in Runners : s > started /\ s <= r => s = r
    BY <1>0 DEF Runners
  <1>6. /\ r \in Nat /\ started <= r
        /\ \A m \in Names : runners'[m] # runners[m] => runners'[m] = r /\ nameOf'[r] = m
        /\ \A s \in 1..started : nameOf'[s] = nameOf[s]
    BY <1>0, <1>1, <1>2 DEF TypeOK
  <1> HIDE DEF r
  <1>7. Counted' /\ Registered' /\ Phases' /\ OneProcess'
    BY <1>1, <1>2, <1>3, <1>5, <1>6, SpawnKeeps
  <1> QED BY <1>4, <1>7 DEF BInv

\* A runner is taken off the map and asked to go.
LEMMA StopKeeps ==
    ASSUME BInv, NEW n \in Names, NEW c \in Callers, Stop(c, n)
    PROVE  BInv'
  <1> DEFINE r == runners[n]
  <1>0. /\ TypeOK /\ r \in Runners /\ r <= started /\ supervisor[r] # "none"
    BY BackendAssumption DEF Stop, BInv, TypeOK, Registered, Counted, Runners
  <1>1. alive[r] => cmd[r] \in Processes
    BY <1>0, BackendAssumption DEF BInv, TypeOK, Phases, Phase, Processes
  <1>2. GoesOnly /\ process' \in [Processes -> {"none", "up", "leaving", "exited", "reaped"}]
    BY <1>0, <1>1, SignalledGoes DEF Stop, GoesOnly, TypeOK
  <1>3. TypeOK'
    BY <1>0, <1>2 DEF Stop, TypeOK
  <1>4. \A s \in Runners : stopping'[s] = stopping[s] \/ (stopping'[s] /\ supervisor[s] # "none")
    BY <1>0 DEF Stop, TypeOK
  <1>5. UNCHANGED <<started, spawned, owner, cmd, alive, supervising, supervisor>>
    BY DEF Stop
  <1>6. Counted' /\ Phases' /\ OneProcess'
    BY <1>2, <1>4, <1>5, GoingKeeps
  <1>7. Registered'
    <2>1. /\ \A m \in Names : runners'[m] = IF m = n THEN None ELSE runners[m]
          /\ \A s \in Runners : s # r => stopping'[s] = stopping[s]
          /\ nameOf' = nameOf
      BY <1>0 DEF Stop, TypeOK
    <2>2. ASSUME NEW m \in Names, runners'[m] # None
          PROVE  /\ runners'[m] \in 1..started' /\ ~stopping'[runners'[m]]
                 /\ nameOf'[runners'[m]] = m
      <3>1. m # n /\ runners'[m] = runners[m]
        BY <2>1, <2>2
      <3>2. runners[m] \in 1..started /\ ~stopping[runners[m]] /\ nameOf[runners[m]] = m
        BY <2>2, <3>1 DEF BInv, Registered
      <3>3. runners[m] \in Runners /\ runners[m] # r
        BY <2>2, <3>1, <3>2 DEF BInv, Registered, TypeOK
      <3> QED BY <2>1, <3>1, <3>2, <3>3, <1>5
    <2> QED BY <2>2 DEF Registered
  <1> QED BY <1>3, <1>6, <1>7 DEF BInv

\* The three ways of Restart.
LEMMA RestartKeeps ==
    ASSUME BInv, NEW n \in Names, Restart(n)
    PROVE  BInv'
  <1> DEFINE r == runners[n]
  <1>0. /\ TypeOK /\ r \in Runners /\ r <= started /\ supervisor[r] # "none" /\ ~stopping[r]
        /\ Phase(r)
    BY BackendAssumption DEF Restart, RestartEnded, RestartLive, RestartWaiting, BInv, TypeOK,
       Registered, Counted, Phases, Runners
  <1>1. CASE RestartEnded(n)
    <2>1. /\ ~supervising[r]
          /\ UNCHANGED <<mapVars, restartRequested, stopping, wake, probe, timers, callVars>>
      BY <1>1 DEF RestartEnded
    <2>2. supervisor[r] \notin {"wait", "none"}
      BY <1>0, <2>1 DEF Phase
    <2>3. CASE Spawned(r)
      <3>1. TypeOK'
        BY <1>0, <2>1, <2>3, SpawnTyped DEF TypeOK, mapVars, callVars
      <3>2. UNCHANGED <<stopping, started, runners, nameOf>>
        BY <2>1 DEF mapVars
      <3> QED BY <1>0, <2>2, <2>3, <3>1, <3>2, SpawnOfStartedKeeps DEF BInv
    <2>4. CASE /\ status' = [status EXCEPT ![r] = "failed"]
               /\ UNCHANGED <<cmd, alive, supervising, supervisor, processVars>>
      <3>1. TypeOK'
        BY <1>0, <2>1, <2>4 DEF TypeOK, mapVars, callVars, processVars, Statuses
      <3> QED BY <2>1, <2>4, <3>1, QuietKeeps DEF BInv, mapVars, processVars
    <2> QED BY <1>1, <2>3, <2>4 DEF RestartEnded
  <1>2. CASE RestartLive(n)
    <2>1. cmd[r] \in Processes
      BY <1>0, <1>2, BackendAssumption DEF RestartLive, BInv, TypeOK, Phase, Processes
    <2>2. GoesOnly /\ process' \in [Processes -> {"none", "up", "leaving", "exited", "reaped"}]
      BY <1>0, <1>2, <2>1, SignalledGoes DEF RestartLive
    <2>3. TypeOK'
      BY <1>0, <1>2, <2>1, <2>2 DEF RestartLive, TypeOK, mapVars, callVars
    <2>4. Registered'
      BY <1>2 DEF RestartLive, BInv, Registered, mapVars
    <2> QED BY <1>2, <2>2, <2>3, <2>4, GoingKeeps DEF BInv, RestartLive, mapVars
  <1>3. CASE RestartWaiting(n)
    <2>1. TypeOK'
      BY <1>0, <1>3 DEF RestartWaiting, TypeOK, mapVars, callVars, processVars
    <2> QED BY <1>3, <2>1, QuietKeeps DEF BInv, RestartWaiting, mapVars, processVars
  <1> QED BY <1>1, <1>2, <1>3 DEF Restart

\* Every step keeps the invariant.
LEMMA BInvStep == BInv /\ [Next]_backendVars => BInv'
<1> SUFFICES ASSUME BInv, [Next]_backendVars PROVE BInv'
  OBVIOUS
<1>1. CASE UNCHANGED backendVars
  BY <1>1 DEF backendVars, mapVars, runnerVars, processVars, callVars, BInv, TypeOK, Counted,
     Registered, Phases, Phase, OneProcess
<1>2. CASE Next
  BY <1>2, ProcessStepKeeps, SuperviseKeeps, StopStepKeeps, StartKeeps, RestartKeeps, StopKeeps
  DEF Next, Running
<1> QED BY <1>1, <1>2

\* The invariant holds of every behaviour.
THEOREM BackendInvariance == Spec => []BInv
<1> QED BY BInvInit, BInvStep, PTL DEF Spec

\* A runner has one process at a time, its last, and somebody waits for it.
THEOREM OneProcessHolds == Spec => []OneProcess
<1>1. BInv => OneProcess
  BY DEF BInv
<1> QED BY <1>1, BackendInvariance, PTL

\* A runner that somebody stops gets no new process, though it was waiting out its
\* backoff or had been asked to restart.
THEOREM NoneAfterStopHolds == Spec => NoneAfterStop
<1>1. ASSUME BInv, [Next]_backendVars
      PROVE  [\A r \in Runners : stopping[r] => cmd'[r] = cmd[r]]_backendVars
  <2>1. SUFFICES ASSUME NEW r \in Runners, stopping[r], Next PROVE cmd'[r] = cmd[r]
    BY <1>1
  <2>2. CASE \E p \in Processes : ProcessStep(p)
    BY <2>2 DEF ProcessStep, Exit, Timer, Answers, Mark, runnerVars
  <2>3. CASE \E c \in Callers : StopStep(c)
    BY <2>3 DEF StopStep, StopTimeout, StopReturns, runnerVars
  <2>4. ASSUME NEW s \in Runners, Supervise(s) PROVE cmd'[r] = cmd[r]
    <3>1. stopping[s] => cmd' = cmd
      BY <2>4 DEF Supervise, Reap, SeeStopped, SeeRestart, SeeEnded, SeeCrash, BackoffOver,
         BackoffCut, Resume, runnerVars
    <3>2. CASE s = r
      BY <3>1, <3>2, <2>1
    <3>3. CASE s # r
      BY <3>3, <2>4, <1>1 DEF Supervise, Reap, SeeStopped, SeeRestart, SeeEnded, SeeCrash, BackoffOver,
         BackoffCut, Resume, Spawned, SpawnFailed, runnerVars, BInv, TypeOK
    <3> QED BY <3>2, <3>3
  <2>5. ASSUME NEW n \in Names, Start(n) PROVE cmd'[r] = cmd[r]
    <3>1. r # started'
      BY <2>1, <2>5, <1>1, BackendAssumption DEF Start, BInv, TypeOK, Counted, Phases, Phase, Runners
    <3> QED BY <3>1, <2>5, <1>1 DEF Start, Spawned, BInv, TypeOK
  <2>6. ASSUME NEW n \in Names, Restart(n) PROVE cmd'[r] = cmd[r]
    <3>1. r # runners[n]
      BY <2>1, <2>6, <1>1 DEF Restart, RestartEnded, RestartLive, RestartWaiting, BInv, Registered
    <3> QED BY <3>1, <2>6, <1>1 DEF Restart, RestartEnded, RestartLive, RestartWaiting, Spawned,
         BInv, TypeOK
  <2>7. CASE \E n \in Names, c \in Callers : Stop(c, n)
    BY <2>7 DEF Stop
  <2> QED BY <2>1, <2>2, <2>3, <2>4, <2>5, <2>6, <2>7 DEF Next, Running
<1> QED BY <1>1, BackendInvariance, PTL DEF Spec, NoneAfterStop

\* When Stop returns the process is gone and its supervisor has finished.
THEOREM StopLeavesNothingHolds == Spec => StopLeavesNothing
<1>1. ASSUME BInv, [Next]_backendVars
      PROVE  [\A c \in Callers : target[c] # None /\ target'[c] = None =>
                /\ supervisor[target[c]] = "ended"
                /\ \A p \in Processes : owner[p] = target[c] => process[p] = "reaped"]_backendVars
  <2>1. SUFFICES ASSUME NEW c \in Callers, target[c] # None, target'[c] = None, Next
                 PROVE  supervisor[target[c]] = "ended"
    BY <1>1, NoneUnlessWaited DEF BInv, TypeOK
  <2>2. CASE \E d \in Callers : StopStep(d)
    BY <2>1, <2>2, <1>1 DEF StopStep, StopTimeout, StopReturns, BInv, TypeOK
  <2>3. CASE \E p \in Processes : ProcessStep(p)
    BY <2>1, <2>3 DEF ProcessStep, Exit, Timer, Answers, Mark, callVars
  <2>4. CASE \E r \in Runners : Supervise(r)
    BY <2>1, <2>4 DEF Supervise, Reap, SeeStopped, SeeRestart, SeeEnded, SeeCrash, Died, BackoffOver,
       BackoffCut, Resume, callVars
  <2>5. CASE \E n \in Names : Start(n) \/ Restart(n) \/ \E d \in Callers : Stop(d, n)
    BY <2>1, <2>5, <1>1 DEF Start, Restart, RestartEnded, RestartLive, RestartWaiting, Stop, callVars,
       BInv, TypeOK
  <2> QED BY <2>1, <2>2, <2>3, <2>4, <2>5 DEF Next, Running
<1> QED BY <1>1, BackendInvariance, PTL DEF Spec, StopLeavesNothing

\* A caller on its way to start a runner has a name for it.
NamesWanted ==
    /\ place \in [Callers -> {"idle", "start", "enter", "leave"}]
    /\ wanted \in [Callers -> Names \cup {None}]
    /\ \A c \in Callers : place[c] = "start" => wanted[c] \in Names

\* It has one from the start, and keeps it.
LEMMA NamesWantedKeeps ==
    /\ RegistryInit => NamesWanted
    /\ NamesWanted /\ [RegistryNext]_allVars => NamesWanted'
<1>1. RegistryInit => NamesWanted
  BY DEF RegistryInit, NamesWanted
<1>2. ASSUME NamesWanted, [RegistryNext]_allVars PROVE NamesWanted'
  <2>1. CASE \E c \in Callers : StartRefused(c) \/ Enter(c) \/ Leave(c)
    BY <1>2, <2>1 DEF NamesWanted, StartRefused, Enter, Leave, Proceed
  <2>2. CASE \E c \in Callers : StartRunner(c)
    BY <1>2, <2>2 DEF NamesWanted, StartRunner, Proceed
  <2>3. CASE \E c \in Callers, n \in Names : CheckFree(c, n) \/ StopRunner(c, n)
    BY <1>2, <2>3 DEF NamesWanted, CheckFree, StopRunner, Proceed
  <2>4. CASE UNCHANGED <<place, wanted>>
    BY <1>2, <2>4 DEF NamesWanted
  <2> QED BY <1>2, <2>1, <2>2, <2>3, <2>4 DEF RegistryNext, RegistryStep, RestartRunner, registryVars,
          allVars
<1> QED BY <1>1, <1>2

\* What the registry does with the backend is what any caller may do: all of the
\* above holds of the registry's runners.
THEOREM RegistryUsesBackend == RegistrySpec => Spec
<1>1. RegistryInit => Init
  BY DEF RegistryInit
<1>2. ASSUME NamesWanted, [RegistryNext]_allVars PROVE [Next]_backendVars
  <2>1. CASE \E c \in Callers : StartRunner(c)
    BY <1>2, <2>1 DEF NamesWanted, StartRunner, Next
  <2>2. CASE \E c \in Callers, n \in Names : StopRunner(c, n)
    BY <2>2 DEF StopRunner, Next
  <2>3. CASE \E n \in Names : RestartRunner(n)
    BY <2>3 DEF RestartRunner, Next
  <2>4. CASE UNCHANGED backendVars
    BY <2>4
  <2>5. CASE Running
    BY <2>5 DEF Next
  <2> QED BY <1>2, <2>1, <2>2, <2>3, <2>4, <2>5 DEF RegistryNext, RegistryStep, CheckFree, StartRefused,
          Enter, Leave, allVars
<1> QED BY <1>1, <1>2, NamesWantedKeeps, PTL DEF RegistrySpec, Spec
=============================================================================
