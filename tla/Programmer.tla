----------------------------- MODULE Programmer -----------------------------
(***************************************************************************)
(* The programmer (sequencing/programmer.py): threads that start, restart  *)
(* and interrupt programs, the worker that waits where a step says to wait *)
(* and applies the rest, and the waits (sequencing/activities.py), which   *)
(* settle whenever they like.                                              *)
(*                                                                         *)
(* Programmer.lock is held across steps by nobody: _apply_atomics applies  *)
(* all it applies in one hold of it, so that is one step here.  The names  *)
(* waits are registered under are Waits' subject.                          *)
(***************************************************************************)
EXTENDS Naturals, Sequences

CONSTANTS
    Callers,        \* threads that call the programmer
    Scripts,        \* the programs they start: sequences of "set" and "wait"
    MaxPrograms,    \* bound: programs loaded in one behaviour
    MaxSteps,       \* bound: the length of a program
    None            \* no program, no wait

ASSUME ProgrammerAssumption ==
    /\ MaxPrograms \in Nat /\ MaxSteps \in Nat
    /\ \A s \in Scripts : s \in Seq({"set", "wait"}) /\ Len(s) \in 1..MaxSteps
    /\ None \notin Callers \cup Nat \cup (Nat \X Nat)

Programs == 1..MaxPrograms
Waits == Programs \X (1..MaxSteps)

VARIABLES
    program,        \* Programmer._program: the number of the one loaded, or None
    step,           \* Programmer._step, counted from 1
    abort,          \* Programmer._abort
    activity,       \* Programmer._activity: the wait of a program's step, or None
    thread,         \* Programmer._thread: the program it works, or None
    error,          \* Programmer._error: the program that failed, or None
    loaded,         \* programs so far
    script,         \* of each program, what it consists of
    applied,        \* of each program, the last step applied
    ended,          \* how it ended, as _finish says
    outcome,        \* of each wait: none, pending, fired, timeout, interrupted
    broken,         \* waits that failed: Activity.error is set
    worker,         \* what each program's worker does next
    local,          \* the worker's own step
    at,             \* where each caller is
    mine,           \* the program a caller starts
    joining,        \* the thread a caller waits for
    again,          \* whether it starts a program when the interrupt is over
    hit,            \* the program its interrupt found loaded
    late            \* a step was applied after the interrupt of what is loaded

progVars == <<program, step, abort, activity, thread, error>>
runVars == <<loaded, script, applied, ended, late>>
waitVars == <<outcome, broken>>
workVars == <<worker, local>>
callVars == <<at, mine, joining, again, hit>>
vars == <<progVars, runVars, waitVars, workVars, callVars>>

Outcomes == {"none", "pending", "fired", "timeout", "interrupted"}
Working == {"check", "waiting", "advance", "apply", "note", "failed", "finish"}
WorkerStates == Working \cup {"unborn", "made", "done"}
Places == {"idle", "interrupt", "join", "load", "atomics", "failed", "finish",
           "spawn", "launch"}

TypeOK ==
    /\ program \in Programs \cup {None}
    /\ step \in 1..MaxSteps + 1
    /\ abort \in BOOLEAN
    /\ activity \in Waits \cup {None}
    /\ thread \in Programs \cup {None}
    /\ error \in Programs \cup {None}
    /\ loaded \in 0..MaxPrograms
    /\ script \in [Programs -> Scripts \cup {<<>>}]
    /\ applied \in [Programs -> 0..MaxSteps]
    /\ ended \in [Programs -> {"no", "finished", "failed", "interrupted"}]
    /\ outcome \in [Waits -> Outcomes]
    /\ broken \in SUBSET Waits
    /\ worker \in [Programs -> WorkerStates]
    /\ local \in [Programs -> 1..MaxSteps + 1]
    /\ at \in [Callers -> Places]
    /\ mine \in [Callers -> Programs \cup {None}]
    /\ joining \in [Callers -> Programs \cup {None}]
    /\ again \in [Callers -> BOOLEAN]
    /\ hit \in [Callers -> Programs \cup {None}]
    /\ late \in BOOLEAN

Init ==
    /\ program = None /\ step = 1 /\ abort = FALSE
    /\ activity = None /\ thread = None /\ error = None
    /\ loaded = 0
    /\ script = [p \in Programs |-> <<>>]
    /\ applied = [p \in Programs |-> 0]
    /\ ended = [p \in Programs |-> "no"]
    /\ outcome = [w \in Waits |-> "none"]
    /\ broken = {}
    /\ worker = [p \in Programs |-> "unborn"]
    /\ local = [p \in Programs |-> 1]
    /\ at = [c \in Callers |-> "idle"]
    /\ mine = [c \in Callers |-> None]
    /\ joining = [c \in Callers |-> None]
    /\ again = [c \in Callers |-> FALSE]
    /\ hit = [c \in Callers |-> None]
    /\ late = FALSE

Goto(c, there) == at' = [at EXCEPT ![c] = there]
Becomes(p, next) == worker' = [worker EXCEPT ![p] = next]
Settle(w, how) == [outcome EXCEPT ![w] = IF @ = "pending" THEN how ELSE @]

-----------------------------------------------------------------------------
(* Waits: Trigger._settle keeps the first outcome                          *)

\* Its worker has attached and registered it.
Current(p) == <<p, local[p]>>
Attached(w) == \E p \in Programs : worker[p] = "waiting" /\ w = Current(p)

\* A person answers, the condition is met, or the hold is over.
Fire(w) ==
    /\ Attached(w)
    /\ outcome[w] = "pending"
    /\ outcome' = Settle(w, "fired")
    /\ UNCHANGED <<progVars, runVars, broken, workVars, callVars>>

Expire(w) ==
    /\ outcome[w] = "pending"
    /\ outcome' = Settle(w, "timeout")
    /\ UNCHANGED <<progVars, runVars, broken, workVars, callVars>>

\* POST /waits/{name}/interrupt.
CancelWait(w) ==
    /\ Attached(w)
    /\ outcome[w] = "pending"
    /\ outcome' = Settle(w, "interrupted")
    /\ UNCHANGED <<progVars, runVars, broken, workVars, callVars>>

\* Activity.fail: the error is set whatever the outcome.
Fail(w) ==
    /\ Attached(w)
    /\ w \notin broken
    /\ broken' = broken \cup {w}
    /\ outcome' = Settle(w, "fired")
    /\ UNCHANGED <<progVars, runVars, workVars, callVars>>

-----------------------------------------------------------------------------
(* Callers                                                                 *)

\* start(work, interrupt=False), start(work, interrupt=True), interrupt().
Call(c) ==
    /\ at[c] = "idle"
    /\ \/ Goto(c, "load") /\ UNCHANGED again
       \/ Goto(c, "interrupt") /\ again' \in {[again EXCEPT ![c] = b] : b \in BOOLEAN}
    /\ UNCHANGED <<progVars, runVars, waitVars, workVars, mine, joining, hit>>

\* Cancels the wait there is, and has every step after it skipped.
Interrupt(c) ==
    /\ at[c] = "interrupt"
    /\ abort' = TRUE
    /\ outcome' = IF activity = None THEN outcome ELSE Settle(activity, "interrupted")
    /\ joining' = [joining EXCEPT ![c] = thread]
    /\ hit' = [hit EXCEPT ![c] = program]
    /\ Goto(c, "join")
    /\ UNCHANGED <<program, step, activity, thread, error, runVars, broken, workVars, mine, again>>

\* Not under the lock.  Joining a thread not yet started raises.
Join(c) ==
    /\ at[c] = "join"
    /\ \/ /\ joining[c] # None => worker[joining[c]] = "done"
          /\ Goto(c, IF again[c] THEN "load" ELSE "idle")
          /\ UNCHANGED again
       \/ /\ joining[c] # None
          /\ worker[joining[c]] = "made"
          /\ Goto(c, "idle")
          /\ again' = [again EXCEPT ![c] = FALSE]
    /\ joining' = [joining EXCEPT ![c] = None]
    /\ hit' = [hit EXCEPT ![c] = None]
    /\ UNCHANGED <<progVars, runVars, waitVars, workVars, mine>>

\* ProgramAlreadyRunningError, or the program is this one.
Load(c) ==
    /\ at[c] = "load"
    /\ program = None
    /\ loaded < MaxPrograms
    /\ loaded' = loaded + 1
    /\ program' = loaded'
    /\ \E s \in Scripts : script' = [script EXCEPT ![loaded'] = s]
    /\ step' = 1 /\ abort' = FALSE /\ activity' = None /\ error' = None
    /\ mine' = [mine EXCEPT ![c] = loaded']
    /\ late' = FALSE
    /\ again' = [again EXCEPT ![c] = FALSE]
    /\ Goto(c, "atomics")
    /\ UNCHANGED <<thread, applied, ended, waitVars, workVars, joining, hit>>

Refused(c) ==
    /\ at[c] = "load"
    /\ program # None \/ loaded = MaxPrograms
    /\ Goto(c, "idle")
    /\ again' = [again EXCEPT ![c] = FALSE]
    /\ UNCHANGED <<progVars, runVars, waitVars, workVars, mine, joining, hit>>

\* The steps before the first wait, or before the first that raises, or all.
FirstWait(s) ==
    LET waits == {i \in DOMAIN s : s[i] = "wait"}
    IN  IF waits = {} THEN Len(s) + 1 ELSE CHOOSE i \in waits : \A j \in waits : i <= j

Atomics(c) ==
    /\ at[c] = "atomics"
    /\ ~abort
    /\ LET p == mine[c]
           s == script[p]
           w == FirstWait(s)
       IN  \/ /\ w \in DOMAIN s
              /\ step' = w
              /\ activity' = <<p, w>>
              /\ outcome' = [outcome EXCEPT ![<<p, w>>] = "pending"]
              /\ applied' = [applied EXCEPT ![p] = w]
              /\ Goto(c, "spawn")
           \/ /\ w \notin DOMAIN s
              /\ step' = w
              /\ applied' = [applied EXCEPT ![p] = Len(s)]
              /\ Goto(c, "finish")
              /\ UNCHANGED <<activity, outcome>>
           \/ \E i \in DOMAIN s :
                 /\ i <= w
                 /\ step' = i
                 /\ applied' = [applied EXCEPT ![p] = i - 1]
                 /\ Goto(c, "failed")
                 /\ UNCHANGED <<activity, outcome>>
    /\ UNCHANGED <<program, abort, thread, error, loaded, script, ended, late, broken, workVars,
                   mine, joining, again, hit>>

\* Interrupted before the first step.
AtomicsAborted(c) ==
    /\ at[c] = "atomics"
    /\ abort
    /\ Goto(c, "finish")
    /\ UNCHANGED <<progVars, runVars, waitVars, workVars, mine, joining, again, hit>>

StartFailed(c) ==
    /\ at[c] = "failed"
    /\ error' = mine[c]
    /\ Goto(c, "finish")
    /\ UNCHANGED <<program, step, abort, activity, thread, runVars, waitVars, workVars, mine,
                   joining, again, hit>>

\* Defect: the flag is cleared before it is read.
FinishCleared(p) ==
    IF program # p
    THEN UNCHANGED <<progVars, ended>>
    ELSE /\ ended' = [ended EXCEPT ![p] = IF error # None THEN "failed" ELSE "finished"]
         /\ program' = None /\ activity' = None /\ thread' = None
         /\ step' = 1 /\ abort' = FALSE
         /\ UNCHANGED error

\* Clears p, unless something else has replaced it, and says how it ended.
Finish(p) ==
    IF program # p
    THEN UNCHANGED <<progVars, ended>>
    ELSE /\ ended' = [ended EXCEPT ![p] = IF error # None THEN "failed"
                                          ELSE IF abort THEN "interrupted" ELSE "finished"]
         /\ program' = None /\ activity' = None /\ thread' = None
         /\ step' = 1 /\ abort' = FALSE
         /\ UNCHANGED error

StartFinish(c) ==
    /\ at[c] = "finish"
    /\ Finish(mine[c])
    /\ Goto(c, "idle")
    /\ mine' = [mine EXCEPT ![c] = None]
    /\ UNCHANGED <<loaded, script, applied, late, waitVars, workVars, joining, again, hit>>

Spawn(c) ==
    /\ at[c] = "spawn"
    /\ thread' = mine[c]
    /\ Becomes(mine[c], "made")
    /\ Goto(c, "launch")
    /\ UNCHANGED <<program, step, abort, activity, error, runVars, waitVars, local, mine,
                   joining, again, hit>>

Launch(c) ==
    /\ at[c] = "launch"
    /\ Becomes(mine[c], "check")
    /\ local' = [local EXCEPT ![mine[c]] = step]
    /\ Goto(c, "idle")
    /\ mine' = [mine EXCEPT ![c] = None]
    /\ UNCHANGED <<progVars, runVars, waitVars, joining, again, hit>>

-----------------------------------------------------------------------------
(* The worker                                                              *)

Check(p) ==
    /\ worker[p] = "check"
    /\ Becomes(p, IF abort THEN "finish" ELSE "waiting")
    /\ UNCHANGED <<progVars, runVars, waitVars, local, callVars>>

\* The wait is over: on with the program only if its condition was met.
WaitOut(p) ==
    /\ worker[p] = "waiting"
    /\ outcome[Current(p)] # "pending"
    /\ Becomes(p, IF Current(p) \in broken THEN "failed"
                  ELSE IF outcome[Current(p)] = "fired" THEN "advance" ELSE "finish")
    /\ UNCHANGED <<progVars, runVars, waitVars, local, callVars>>

Advance(p) ==
    /\ worker[p] = "advance"
    /\ local' = [local EXCEPT ![p] = @ + 1]
    /\ IF abort \/ program # p \/ local'[p] > Len(script[p])
       THEN Becomes(p, "finish") /\ UNCHANGED step
       ELSE Becomes(p, "apply") /\ step' = local'[p]
    /\ UNCHANGED <<program, abort, activity, thread, error, runVars, waitVars, callVars>>

\* command.run, under the rig lock: it may raise.
Apply(p) ==
    /\ worker[p] = "apply"
    /\ \/ /\ applied' = [applied EXCEPT ![p] = local[p]]
          /\ late' = abort
          /\ outcome' = IF script[p][local[p]] = "wait"
                        THEN [outcome EXCEPT ![Current(p)] = "pending"] ELSE outcome
          /\ Becomes(p, "note")
       \/ /\ Becomes(p, "failed")
          /\ UNCHANGED <<applied, late, outcome>>
    /\ UNCHANGED <<progVars, loaded, script, ended, broken, local, callVars>>

\* An interrupt that came while the step applied cancelled the wait before it.
Note(p) ==
    /\ worker[p] = "note"
    /\ IF script[p][local[p]] = "wait"
       THEN /\ activity' = Current(p)
            /\ outcome' = IF abort THEN Settle(Current(p), "interrupted") ELSE outcome
            /\ Becomes(p, "check")
       ELSE /\ activity' = None
            /\ Becomes(p, "advance")
            /\ UNCHANGED outcome
    /\ UNCHANGED <<program, step, abort, thread, error, runVars, broken, local, callVars>>

\* Defect: a worker whose step raised does not finish its program.
WorkFailedOnly(p) ==
    /\ worker[p] = "failed"
    /\ error' = p
    /\ Becomes(p, "done")
    /\ UNCHANGED <<program, step, abort, activity, thread, runVars, waitVars, local, callVars>>

WorkFailed(p) ==
    /\ worker[p] = "failed"
    /\ error' = p
    /\ Becomes(p, "finish")
    /\ UNCHANGED <<program, step, abort, activity, thread, runVars, waitVars, local, callVars>>

WorkFinish(p) ==
    /\ worker[p] = "finish"
    /\ Finish(p)
    /\ Becomes(p, "done")
    /\ UNCHANGED <<loaded, script, applied, late, waitVars, local, callVars>>

-----------------------------------------------------------------------------
WaitStep(w) == Fire(w) \/ Expire(w) \/ CancelWait(w) \/ Fail(w)

StartStep(c) ==
    \/ Interrupt(c) \/ Join(c) \/ Load(c) \/ Refused(c) \/ Atomics(c) \/ AtomicsAborted(c)
    \/ StartFailed(c) \/ StartFinish(c) \/ Spawn(c) \/ Launch(c)

WorkerStep(p) ==
    \/ Check(p) \/ WaitOut(p) \/ Advance(p) \/ Apply(p) \/ Note(p)
    \/ WorkFailed(p) \/ WorkFinish(p)

Next ==
    \/ \E w \in Waits : WaitStep(w)
    \/ \E c \in Callers : Call(c) \/ StartStep(c)
    \/ \E p \in Programs : WorkerStep(p)

Spec == Init /\ [][Next]_vars

\* Threads run; nothing settles a wait but an interrupt is sure to.
Fairness ==
    /\ \A c \in Callers : WF_vars(StartStep(c))
    /\ \A p \in Programs : WF_vars(WorkerStep(p))

FairSpec == Spec /\ Fairness

-----------------------------------------------------------------------------
(* Properties                                                              *)

\* A program is worked on by one thread, the one that starts it or its worker,
\* and only while it is loaded.
Starting == {"atomics", "failed", "finish", "spawn", "launch"}

OneThread ==
    /\ \A c \in Callers : at[c] \in Starting =>
          /\ program = mine[c]
          /\ worker[mine[c]] = IF at[c] = "launch" THEN "made" ELSE "unborn"
    /\ \A c, d \in Callers : at[c] \in Starting /\ at[d] \in Starting => c = d
    /\ \A p \in Programs : worker[p] \in Working => program = p

\* A worker never waits on for something an interrupt was meant to end, though
\* the interrupt may have come while the step that waits was applied.
InterruptReachesWait ==
    \A p \in Programs : worker[p] = "waiting" /\ abort => outcome[Current(p)] # "pending"

\* What is said of a program that ended is so: one that finished applied every
\* step and every wait was met, but for a last one that timed out or was
\* cancelled; one that failed has a step that raised or a wait that failed.
HonestEnd ==
    \A p \in Programs :
       LET n == applied[p]
           met == {i \in 1..n : script[p][i] = "wait" =>
                                   outcome[<<p, i>>] = "fired" /\ <<p, i>> \notin broken}
       IN  /\ ended[p] = "finished" =>
                 \/ n = Len(script[p]) /\ met = 1..n
                 \/ met = 1..n - 1 /\ outcome[<<p, n>>] \in {"timeout", "interrupted"}
           /\ ended[p] = "failed" =>
                 \/ met = 1..n /\ n < Len(script[p])
                 \/ <<p, n>> \in broken

\* Each program, as the outside sees it: see ProgramRun.
Phase(p) ==
    IF program = p
    THEN IF ~abort THEN "running" ELSE IF late THEN "stopped" ELSE "stopping"
    ELSE IF ended[p] = "no" THEN "new" ELSE ended[p]

Run == INSTANCE ProgramRun WITH
    phase <- [p \in Programs |-> Phase(p)],
    applied <- applied

\* One program at a time, its steps in order, at most one after an interrupt.
ImplementsRun == Run!Spec

\* An interrupted program ends, and whoever interrupted it returns.
InterruptEnds ==
    /\ program # None /\ abort ~> program = None
    /\ \A c \in Callers : at[c] = "join" ~> at[c] # "join"

\* A program that is loaded ends, or waits for something.
ProgramsMove ==
    program # None ~>
       \/ program = None
       \/ worker[program] = "waiting" /\ outcome[Current(program)] = "pending"

\* programmer.py: interrupt stops "whatever is running" and waits "for the
\* worker to unwind": what it found loaded is not loaded when it returns.
InterruptWaits ==
    [][\A c \in Callers : at[c] = "join" /\ at'[c] # "join" => hit[c] = None \/ program # hit[c]]_vars

\* The same: the thread it waits for has been started.
JoinIsSafe ==
    \A c \in Callers : at[c] = "join" /\ joining[c] # None => worker[joining[c]] # "made"

\* routes/program.py: a start with interrupt "stops whatever is running instead
\* of refusing with a conflict".
RestartNotRefused ==
    [][\A c \in Callers : at[c] = "load" /\ again[c] /\ at'[c] = "idle" => program = None]_vars

\* programmer.py: running means "waiting, or with steps still to come".
RunningHasSteps == program # None => step <= Len(script[program])
=============================================================================
