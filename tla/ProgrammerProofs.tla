--------------------------- MODULE ProgrammerProofs ---------------------------
(***************************************************************************)
(* Proofs about Programmer, for any callers, any programs and any number   *)
(* of them: that a program has one thread, that an interrupt is not lost   *)
(* on a wait, and that the programmer does what ProgramRun promises.       *)
(***************************************************************************)
EXTENDS Programmer, TLAPS

-----------------------------------------------------------------------------
(* The invariant                                                           *)

RunTypes ==
    /\ program \in Programs \cup {None}
    /\ loaded \in 0..MaxPrograms
    /\ script \in [Programs -> Scripts \cup {<<>>}]
    /\ applied \in [Programs -> 0..MaxSteps]
    /\ ended \in [Programs -> {"no", "finished", "failed", "interrupted"}]

FlagTypes == abort \in BOOLEAN /\ late \in BOOLEAN

ThreadTypes ==
    /\ worker \in [Programs -> WorkerStates]
    /\ local \in [Programs -> Nat]
    /\ at \in [Callers -> Places]
    /\ mine \in [Callers -> Programs \cup {None}]
    /\ outcome \in [Waits -> Outcomes]

\* Programs are numbered as they are loaded; what is numbered higher is new.
Numbered ==
    /\ \A p \in Programs : p > loaded =>
          program # p /\ ended[p] = "no" /\ worker[p] = "unborn" /\ applied[p] = 0
    /\ \A p \in Programs : p <= loaded => script[p] \in Scripts
    /\ \A c \in Callers : at[c] \in Starting => mine[c] \in Programs
    /\ \A p \in Programs : program = p => ended[p] = "no"

\* Where a program is and what it has applied: its worker is at the last step
\* applied, and while it waits, or is about to, an interrupt finds that wait.
Steps ==
    /\ \A c \in Callers : at[c] = "atomics" => applied[mine[c]] = 0
    /\ \A c \in Callers : at[c] \in {"spawn", "launch"} =>
          step = applied[mine[c]] /\ step >= 1 /\ activity = <<mine[c], step>>
    /\ \A p \in Programs :
          /\ worker[p] \in {"check", "waiting", "advance", "note"} =>
                local[p] = applied[p] /\ local[p] >= 1
          /\ worker[p] = "apply" => local[p] = applied[p] + 1 /\ local[p] <= Len(script[p])
          /\ worker[p] \in {"check", "waiting"} => activity = Current(p)

\* A step is late once: after it the program has been told to stop.
Lateness ==
    /\ program # None /\ late => abort
    /\ \A c \in Callers : at[c] = "atomics" => ~late
    /\ \A p \in Programs : worker[p] = "apply" => ~late

IInv ==
    /\ RunTypes /\ FlagTypes /\ ThreadTypes
    /\ Numbered /\ OneThread /\ Steps /\ Lateness /\ InterruptReachesWait

-----------------------------------------------------------------------------
(* Constants                                                               *)

\* What the constants are.
LEMMA Bounds ==
    /\ MaxPrograms \in Nat /\ MaxSteps \in Nat
    /\ None \notin Programs
    /\ \A p \in Programs : p \in Nat /\ p >= 1 /\ p <= MaxPrograms
BY ProgrammerAssumption DEF Programs

\* A program is a sequence within the bound.
LEMMA ScriptLength ==
    ASSUME NEW s \in Scripts
    PROVE  /\ Len(s) \in 1..MaxSteps
           /\ DOMAIN s = 1..Len(s)
           /\ s \in Seq({"set", "wait"})
BY ProgrammerAssumption

\* The invariant holds at first.
LEMMA InitInv == Init => IInv
<1> SUFFICES ASSUME Init PROVE IInv
  OBVIOUS
<1>1. RunTypes
  BY Bounds DEF Init, RunTypes
<1>2. FlagTypes
  BY DEF Init, FlagTypes
<1>3. ThreadTypes
  BY Bounds DEF Init, ThreadTypes, WorkerStates, Places, Outcomes
<1>4. Numbered
  BY Bounds DEF Init, Numbered, Starting
<1>5. OneThread
  BY Bounds DEF Init, OneThread, Starting, Working
<1>6. Steps
  BY DEF Init, Steps
<1>7. Lateness
  BY DEF Init, Lateness
<1>8. InterruptReachesWait
  BY DEF Init, InterruptReachesWait
<1> QED BY <1>1, <1>2, <1>3, <1>4, <1>5, <1>6, <1>7, <1>8 DEF IInv

-----------------------------------------------------------------------------
(* Steps                                                                   *)

\* A step of ProgramRun, or none.
RunStep == Run!Next \/ UNCHANGED Run!runVars

\* The outside sees only this much.
LEMMA RunStutters ==
    ASSUME UNCHANGED <<program, abort, late, ended, applied>>
    PROVE  RunStep
BY DEF RunStep, Run!runVars, Phase

\* A wait settles.
LEMMA Settling ==
    ASSUME IInv, NEW w \in Waits, WaitStep(w)
    PROVE  IInv' /\ RunStep
<1>0. /\ RunTypes /\ FlagTypes /\ ThreadTypes /\ Numbered
      /\ OneThread /\ Steps /\ Lateness /\ InterruptReachesWait
  BY DEF IInv
<1>9. /\ outcome' \in [Waits -> Outcomes]
      /\ \A v \in Waits : outcome[v] # "pending" => outcome'[v] # "pending"
  BY <1>0 DEF WaitStep, Fire, Expire, CancelWait, Fail, Settle, ThreadTypes, Outcomes
<1>10. UNCHANGED <<progVars, runVars, workVars, callVars>>
  BY DEF WaitStep, Fire, Expire, CancelWait, Fail
<1>11. \A p \in Programs : worker[p] = "waiting" => Current(p) \in Waits
  BY <1>0, Bounds DEF Steps, RunTypes, ThreadTypes, Current, Waits
<1>1. RunTypes'
  BY <1>0, Bounds DEF WaitStep, Fire, Expire, CancelWait, Fail, Settle, RunTypes, ThreadTypes,
     Numbered, Starting, progVars, runVars, waitVars, workVars, callVars
<1>2. FlagTypes'
  BY <1>0, Bounds DEF WaitStep, Fire, Expire, CancelWait, Fail, Settle, FlagTypes, progVars,
     runVars, waitVars, workVars, callVars
<1>3. ThreadTypes'
  BY <1>0, <1>9, <1>10 DEF ThreadTypes, workVars, callVars
<1>4. Numbered'
  BY <1>0, Bounds DEF WaitStep, Fire, Expire, CancelWait, Fail, Settle, RunTypes, ThreadTypes,
     Numbered, OneThread, Starting, Working, progVars, runVars, waitVars, workVars, callVars
<1>5. OneThread'
  BY <1>0, Bounds DEF WaitStep, Fire, Expire, CancelWait, Fail, Settle, RunTypes, ThreadTypes,
     Numbered, OneThread, Starting, Working, progVars, runVars, waitVars, workVars, callVars
<1>6. Steps'
  BY <1>0, Bounds DEF WaitStep, Fire, Expire, CancelWait, Fail, Settle, RunTypes, ThreadTypes,
     Numbered, OneThread, Steps, Starting, Working, Current, progVars, runVars, waitVars,
     workVars, callVars
<1>7. Lateness'
  BY <1>0, Bounds DEF WaitStep, Fire, Expire, CancelWait, Fail, Settle, RunTypes, FlagTypes,
     ThreadTypes, Numbered, OneThread, Lateness, Starting, Working, progVars, runVars,
     waitVars, workVars, callVars
<1>8. InterruptReachesWait'
  BY <1>0, <1>9, <1>10, <1>11 DEF InterruptReachesWait, Current, progVars, workVars
<1>20. RunStep
  BY RunStutters DEF WaitStep, Fire, Expire, CancelWait, Fail, progVars, runVars
<1> QED BY <1>1, <1>2, <1>3, <1>4, <1>5, <1>6, <1>7, <1>8, <1>20 DEF IInv

\* A caller gets on with what it does, without touching a program.
LEMMA Asking ==
    ASSUME IInv, NEW c \in Callers, Call(c) \/ Join(c) \/ Refused(c) \/ AtomicsAborted(c) \/ StartFailed(c)
    PROVE  IInv' /\ RunStep
<1>0. /\ RunTypes /\ FlagTypes /\ ThreadTypes /\ Numbered
      /\ OneThread /\ Steps /\ Lateness /\ InterruptReachesWait
  BY DEF IInv
<1>9. /\ UNCHANGED <<program, worker, mine, loaded, script, applied, ended, step, activity, local>>
      /\ UNCHANGED <<outcome, abort, late>>
      /\ \A d \in Callers : at'[d] \in Starting => at[d] \in Starting
      /\ \A d \in Callers : at'[d] \in {"atomics", "spawn", "launch"} => at'[d] = at[d]
      /\ \A d \in Callers : at[d] # "launch" \/ at'[d] = "launch"
  BY <1>0 DEF Call, Join, Refused, AtomicsAborted, StartFailed, Goto, ThreadTypes, Starting,
     progVars, runVars, waitVars, workVars, callVars
<1>1. RunTypes'
  BY <1>0, Bounds DEF Call, Join, Refused, AtomicsAborted, StartFailed, Goto, RunTypes,
     ThreadTypes, Numbered, Starting, progVars, runVars, waitVars, workVars, callVars
<1>2. FlagTypes'
  BY <1>0, Bounds DEF Call, Join, Refused, AtomicsAborted, StartFailed, Goto, FlagTypes,
     progVars, runVars, waitVars, workVars, callVars
<1>3. ThreadTypes'
  BY <1>0, <1>9 DEF Call, Join, Refused, AtomicsAborted, StartFailed, Goto, ThreadTypes, Places
<1>4. Numbered'
  BY <1>0, Bounds DEF Call, Join, Refused, AtomicsAborted, StartFailed, Goto, RunTypes,
     ThreadTypes, Numbered, OneThread, Starting, Working, progVars, runVars, waitVars,
     workVars, callVars
<1>5. OneThread'
  BY <1>0, <1>9 DEF OneThread, Starting, Working, ThreadTypes
<1>6. Steps'
  BY <1>0, <1>9 DEF Steps, Current
<1>7. Lateness'
  BY <1>0, Bounds DEF Call, Join, Refused, AtomicsAborted, StartFailed, Goto, RunTypes,
     FlagTypes, ThreadTypes, Numbered, OneThread, Lateness, Starting, Working, progVars,
     runVars, waitVars, workVars, callVars
<1>8. InterruptReachesWait'
  BY <1>0, <1>9 DEF InterruptReachesWait, Current
<1>20. RunStep
  BY <1>9, RunStutters
<1> QED BY <1>1, <1>2, <1>3, <1>4, <1>5, <1>6, <1>7, <1>8, <1>20 DEF IInv

\* An interrupt finds the wait there is.
LEMMA Interrupting ==
    ASSUME IInv, NEW c \in Callers, Interrupt(c)
    PROVE  IInv' /\ RunStep
<1>0. /\ RunTypes /\ FlagTypes /\ ThreadTypes /\ Numbered
      /\ OneThread /\ Steps /\ Lateness /\ InterruptReachesWait
  BY DEF IInv
<1>9. \A p \in Programs : worker[p] = "waiting" => activity = Current(p) /\ Current(p) \in Waits
  BY <1>0, Bounds DEF Steps, RunTypes, ThreadTypes, Current, Waits
<1>10. None \notin Waits
  <2>1. Waits \subseteq Nat \X Nat
    BY Bounds DEF Waits, Programs
  <2> QED BY <2>1, ProgrammerAssumption
<1>1. RunTypes'
  BY <1>0, Bounds DEF Interrupt, Settle, Goto, RunTypes, ThreadTypes, Numbered, Starting,
     progVars, runVars, waitVars, workVars, callVars
<1>2. FlagTypes'
  BY <1>0, Bounds DEF Interrupt, Settle, Goto, FlagTypes, progVars, runVars, waitVars,
     workVars, callVars
<1>3. ThreadTypes'
  BY <1>0, Bounds DEF Interrupt, Settle, Goto, RunTypes, ThreadTypes, Numbered, Steps,
     WorkerStates, Working, Places, Outcomes, Starting, progVars, runVars, waitVars, workVars,
     callVars
<1>4. Numbered'
  BY <1>0, Bounds DEF Interrupt, Settle, Goto, RunTypes, ThreadTypes, Numbered, OneThread,
     Starting, Working, progVars, runVars, waitVars, workVars, callVars
<1>5. OneThread'
  BY <1>0, Bounds DEF Interrupt, Settle, Goto, RunTypes, ThreadTypes, Numbered, OneThread,
     Starting, Working, progVars, runVars, waitVars, workVars, callVars
<1>6. Steps'
  BY <1>0, Bounds DEF Interrupt, Settle, Goto, RunTypes, ThreadTypes, Numbered, OneThread,
     Steps, Starting, Working, Current, progVars, runVars, waitVars, workVars, callVars
<1>7. Lateness'
  BY <1>0, Bounds DEF Interrupt, Settle, Goto, RunTypes, FlagTypes, ThreadTypes, Numbered,
     OneThread, Lateness, Starting, Working, progVars, runVars, waitVars, workVars, callVars
<1>8. InterruptReachesWait'
<2> SUFFICES ASSUME NEW p \in Programs, worker[p] = "waiting"
             PROVE  outcome'[Current(p)] # "pending"
  BY DEF Interrupt, InterruptReachesWait, Current, workVars
<2> QED
  BY <1>0, <1>9, <1>10 DEF Interrupt, Settle, ThreadTypes
<1>20. RunStep
<2>1. abort' = TRUE /\ UNCHANGED <<program, late, ended, applied>>
  BY DEF Interrupt, runVars
<2>2. CASE program = None \/ abort
  <3>1. UNCHANGED Run!runVars
    BY <1>0, <2>1, <2>2, Bounds DEF Run!runVars, Phase, FlagTypes
  <3> QED BY <3>1 DEF RunStep
<2>3. CASE program # None /\ ~abort
  <3>1. program \in Programs /\ ~late
    BY <1>0, <2>3 DEF RunTypes, Lateness
  <3>2. Run!Interrupt(program)
    BY <2>1, <2>3, <3>1 DEF Run!Interrupt, Run!Enter, Phase
  <3> QED BY <3>1, <3>2 DEF RunStep, Run!Next
<2> QED BY <2>2, <2>3
<1> QED BY <1>1, <1>2, <1>3, <1>4, <1>5, <1>6, <1>7, <1>8, <1>20 DEF IInv

\* A program is loaded.
LEMMA Loading ==
    ASSUME IInv, NEW c \in Callers, Load(c)
    PROVE  IInv' /\ RunStep
<1>0. /\ RunTypes /\ FlagTypes /\ ThreadTypes /\ Numbered
      /\ OneThread /\ Steps /\ Lateness /\ InterruptReachesWait
  BY DEF IInv
<1>9. loaded \in Nat /\ loaded' = loaded + 1 /\ loaded' \in Programs /\ loaded' # None
  BY <1>0, Bounds DEF Load, RunTypes, Programs
<1>10. /\ program' = loaded' /\ program = None
       /\ \E s \in Scripts : script' = [script EXCEPT ![loaded'] = s]
       /\ step' = 1 /\ abort' = FALSE /\ activity' = None /\ late' = FALSE
       /\ mine' = [mine EXCEPT ![c] = loaded']
       /\ at' = [at EXCEPT ![c] = "atomics"] /\ at[c] = "load"
       /\ UNCHANGED <<applied, ended, outcome, worker, local>>
  BY DEF Load, Goto, waitVars, workVars
<1>11. loaded' > loaded
  BY <1>9
<1>12. /\ \A p \in Programs : worker[p] \notin Working
       /\ \A d \in Callers : at[d] \notin Starting
       /\ applied[loaded'] = 0 /\ worker[loaded'] = "unborn" /\ ended[loaded'] = "no"
  <2>1. \A p \in Programs : program # p
    BY <1>10, Bounds
  <2>2. \A d \in Callers : at[d] \notin Starting
    BY <1>0, <1>10, <2>1 DEF OneThread, Numbered
  <2> QED
    BY <1>0, <1>9, <1>11, <2>1, <2>2 DEF OneThread, Numbered
<1>1. RunTypes'
<2>1. loaded' \in 0..MaxPrograms
  BY <1>9, Bounds DEF Programs
<2> QED
  BY <1>0, <1>9, <1>10, <2>1 DEF RunTypes
<1>2. FlagTypes'
  BY <1>0, Bounds DEF Load, Goto, FlagTypes, progVars, runVars, waitVars, workVars, callVars
<1>3. ThreadTypes'
  BY <1>0, <1>9, <1>10 DEF ThreadTypes, Places
<1>4. Numbered'
<2>1. \A p \in Programs : p > loaded' =>
         program' # p /\ ended'[p] = "no" /\ worker'[p] = "unborn" /\ applied'[p] = 0
  BY <1>0, <1>9, <1>10, <1>11, <1>12, Bounds DEF Numbered
<2>2. \A p \in Programs : p <= loaded' => script'[p] \in Scripts
  <3> SUFFICES ASSUME NEW p \in Programs, p <= loaded' PROVE script'[p] \in Scripts
    OBVIOUS
  <3>1. CASE p = loaded'
    BY <1>0, <1>9, <1>10, <3>1 DEF RunTypes
  <3>2. CASE p # loaded'
    BY <1>0, <1>9, <1>10, <1>11, <1>12, <3>2, Bounds DEF RunTypes, Numbered
  <3> QED BY <3>1, <3>2
<2>3. \A d \in Callers : at'[d] \in Starting => mine'[d] \in Programs
  BY <1>0, <1>9, <1>10, <1>11, <1>12 DEF ThreadTypes
<2>4. \A p \in Programs : program' = p => ended'[p] = "no"
  BY <1>9, <1>10, <1>11, <1>12
<2> QED BY <2>1, <2>2, <2>3, <2>4 DEF Numbered
<1>5. OneThread'
  BY <1>0, <1>9, <1>10, <1>11, <1>12 DEF OneThread, ThreadTypes
<1>6. Steps'
  BY <1>0, <1>9, <1>10, <1>11, <1>12 DEF Steps, ThreadTypes, Starting, Working, Current
<1>7. Lateness'
  BY <1>0, <1>9, <1>10, <1>11, <1>12 DEF Lateness, ThreadTypes
<1>8. InterruptReachesWait'
  BY <1>0, Bounds DEF Load, Goto, RunTypes, ThreadTypes, Numbered, OneThread, Steps,
     InterruptReachesWait, Starting, Working, Current, Waits, progVars, runVars, waitVars,
     workVars, callVars
<1>20. RunStep
<2>1. Phase(loaded') = "new"
  BY <1>9, <1>10, <1>12 DEF Phase
<2>2. \A q \in Programs : Phase(q) \notin Run!Loaded
  BY <1>0, <1>10, Bounds DEF Phase, Run!Loaded, RunTypes
<2>3. \A q \in Programs : Phase(q)' = IF q = loaded' THEN "running" ELSE Phase(q)
  BY <1>9, <1>10, Bounds DEF Phase
<2>4. Run!Begin(loaded')
  BY <1>9, <1>10, <2>1, <2>2, <2>3 DEF Run!Begin, Run!Enter
<2> QED BY <1>9, <2>4 DEF RunStep, Run!Next
<1> QED BY <1>1, <1>2, <1>3, <1>4, <1>5, <1>6, <1>7, <1>8, <1>20 DEF IInv

\* The caller applies what it can.
LEMMA Starts ==
    ASSUME IInv, NEW c \in Callers, Atomics(c)
    PROVE  IInv' /\ RunStep
<1>0. /\ RunTypes /\ FlagTypes /\ ThreadTypes /\ Numbered
      /\ OneThread /\ Steps /\ Lateness /\ InterruptReachesWait
  BY DEF IInv
<1>9. /\ at[c] = "atomics" /\ ~abort
      /\ mine[c] \in Programs /\ program = mine[c] /\ worker[mine[c]] = "unborn"
      /\ \A d \in Callers \ {c} : at[d] \notin Starting
      /\ \A p \in Programs : worker[p] \notin Working
  BY <1>0 DEF Atomics, OneThread, Numbered, Starting, Working
<1>10. /\ script[mine[c]] \in Scripts
       /\ Len(script[mine[c]]) \in 1..MaxSteps
       /\ DOMAIN script[mine[c]] = 1..Len(script[mine[c]])
  BY <1>0, <1>9, Bounds, ScriptLength DEF Numbered, RunTypes
<1>11. /\ UNCHANGED <<program, abort, loaded, script, ended, late, worker, local, mine>>
       /\ \/ /\ step' \in 1..MaxSteps
             /\ activity' = <<mine[c], step'>>
             /\ outcome' = [outcome EXCEPT ![activity'] = "pending"]
             /\ applied' = [applied EXCEPT ![mine[c]] = step']
             /\ at' = [at EXCEPT ![c] = "spawn"]
          \/ \E n \in 0..MaxSteps :
             /\ applied' = [applied EXCEPT ![mine[c]] = n]
             /\ at' = [at EXCEPT ![c] = "finish"] \/ at' = [at EXCEPT ![c] = "failed"]
             /\ UNCHANGED outcome
  BY <1>9, <1>10, Bounds DEF Atomics, Goto, workVars
<1>1. RunTypes'
<2>1. applied' \in [Programs -> 0..MaxSteps]
  BY <1>0, <1>9, <1>11, Bounds DEF RunTypes
<2> QED
  BY <1>0, <1>11, <2>1 DEF RunTypes
<1>2. FlagTypes'
  BY <1>0, Bounds DEF Atomics, Goto, FlagTypes, progVars, runVars, waitVars, workVars,
     callVars
<1>3. ThreadTypes'
  BY <1>0, <1>9, <1>11 DEF ThreadTypes, Places, Outcomes
<1>4. Numbered'
  BY <1>0, <1>9, <1>11, Bounds DEF Numbered, RunTypes, ThreadTypes, Starting
<1>5. OneThread'
  BY <1>0, <1>9, <1>11 DEF OneThread, ThreadTypes, Starting
<1>6. Steps'
<2>1. at'[c] # "atomics"
  BY <1>0, <1>11 DEF ThreadTypes
<2>2. \A d \in Callers : at'[d] \in {"spawn", "launch"} => d = c
  BY <1>0, <1>9, <1>11 DEF ThreadTypes, Starting
<2>3. at'[c] \in {"spawn", "launch"} =>
        step' = applied'[mine'[c]] /\ step' >= 1 /\ activity' = <<mine'[c], step'>>
  BY <1>0, <1>9, <1>11, Bounds DEF RunTypes, ThreadTypes
<2>4. \A d \in Callers : at'[d] = "atomics" => d = c
  BY <1>0, <1>9, <1>11 DEF ThreadTypes, Starting
<2> QED
  BY <1>9, <1>11, <2>1, <2>2, <2>3, <2>4 DEF Steps, Working
<1>7. Lateness'
  BY <1>0, <1>9, <1>11 DEF Lateness, ThreadTypes
<1>8. InterruptReachesWait'
  BY <1>9, <1>11 DEF InterruptReachesWait, Working
<1>20. RunStep
<2>1. \A q \in Programs : Phase(q)' = Phase(q)
  BY <1>11 DEF Phase
<2>2. Phase(mine[c]) = "running" /\ applied[mine[c]] = 0
  BY <1>0, <1>9 DEF Phase, Steps
<2>3. PICK n \in 0..MaxSteps : applied' = [applied EXCEPT ![mine[c]] = n]
  BY <1>11, Bounds
<2>4. CASE n = 0
  <3>1. applied' = applied
    BY <1>0, <2>2, <2>3, <2>4 DEF RunTypes
  <3> QED BY <1>11, <3>1, RunStutters
<2>5. CASE n # 0
  <3>1. n \in 1..MaxSteps
    BY <2>5, Bounds
  <3>2. Run!Apply(mine[c])
    BY <1>9, <2>1, <2>2, <2>3, <3>1 DEF Run!Apply, Run!Enter
  <3> QED BY <1>9, <3>2 DEF RunStep, Run!Next
<2> QED BY <2>4, <2>5
<1> QED BY <1>1, <1>2, <1>3, <1>4, <1>5, <1>6, <1>7, <1>8, <1>20 DEF IInv

\* The caller ends the program it started.
LEMMA StartEnds ==
    ASSUME IInv, NEW c \in Callers, StartFinish(c)
    PROVE  IInv' /\ RunStep
<1>0. /\ RunTypes /\ FlagTypes /\ ThreadTypes /\ Numbered
      /\ OneThread /\ Steps /\ Lateness /\ InterruptReachesWait
  BY DEF IInv
<1>9. /\ at[c] = "finish" /\ mine[c] \in Programs /\ program = mine[c]
      /\ \A d \in Callers \ {c} : at[d] \notin Starting
      /\ \A p \in Programs : worker[p] \notin Working
  BY <1>0 DEF StartFinish, OneThread, Numbered, Starting, Working
<1>10. /\ at' = [at EXCEPT ![c] = "idle"] /\ UNCHANGED <<worker, local, applied>>
       /\ \A d \in Callers : at'[d] \notin Starting
  BY <1>0, <1>9 DEF StartFinish, Goto, ThreadTypes, Starting, workVars
<1>1. RunTypes'
  BY <1>0, Bounds DEF StartFinish, Finish, Goto, RunTypes, ThreadTypes, Numbered, Starting,
     progVars, runVars, waitVars, workVars, callVars
<1>2. FlagTypes'
  BY <1>0, Bounds DEF StartFinish, Finish, Goto, FlagTypes, progVars, runVars, waitVars,
     workVars, callVars
<1>3. ThreadTypes'
  BY <1>0, Bounds DEF StartFinish, Finish, Goto, RunTypes, ThreadTypes, Numbered, Steps,
     WorkerStates, Working, Places, Outcomes, Starting, progVars, runVars, waitVars, workVars,
     callVars
<1>4. Numbered'
  BY <1>0, Bounds DEF StartFinish, Finish, Goto, RunTypes, ThreadTypes, Numbered, OneThread,
     Starting, Working, progVars, runVars, waitVars, workVars, callVars
<1>5. OneThread'
  BY <1>9, <1>10 DEF OneThread
<1>6. Steps'
  BY <1>0, <1>9, <1>10 DEF Steps, Working, Starting
<1>7. Lateness'
  BY <1>0, Bounds DEF StartFinish, Finish, Goto, RunTypes, FlagTypes, ThreadTypes, Numbered,
     OneThread, Lateness, Starting, Working, progVars, runVars, waitVars, workVars, callVars
<1>8. InterruptReachesWait'
  BY <1>9, <1>10 DEF InterruptReachesWait, Working
<1>20. RunStep
<2>1. program = mine[c] /\ program' = None /\ mine[c] \in Programs
  BY <1>9 DEF StartFinish, Finish
<2>2. PICK how \in {"failed", "interrupted", "finished"} :
        /\ ended' = [ended EXCEPT ![mine[c]] = how]
        /\ how = "interrupted" => abort
        /\ how = "finished" => ~abort
  BY <2>1 DEF StartFinish, Finish
<2>3. /\ Phase(mine[c]) \in Run!Loaded
      /\ Phase(mine[c]) = "running" <=> ~abort
  BY <2>1 DEF Phase, Run!Loaded
<2>4. \A q \in Programs : Phase(q)' = IF q = mine[c] THEN how ELSE Phase(q)
  BY <1>0, <2>1, <2>2, Bounds DEF Phase, RunTypes
<2>5. Run!End(mine[c])
  BY <2>1, <2>2, <2>3, <2>4 DEF StartFinish, Run!End, Run!Enter
<2> QED BY <2>1, <2>5 DEF RunStep, Run!Next
<1> QED BY <1>1, <1>2, <1>3, <1>4, <1>5, <1>6, <1>7, <1>8, <1>20 DEF IInv

\* A worker is made.
LEMMA Spawning ==
    ASSUME IInv, NEW c \in Callers, Spawn(c)
    PROVE  IInv' /\ RunStep
<1>0. /\ RunTypes /\ FlagTypes /\ ThreadTypes /\ Numbered
      /\ OneThread /\ Steps /\ Lateness /\ InterruptReachesWait
  BY DEF IInv
<1>1. RunTypes'
  BY <1>0, Bounds DEF Spawn, Becomes, Goto, RunTypes, ThreadTypes, Numbered, Starting,
     progVars, runVars, waitVars, workVars, callVars
<1>2. FlagTypes'
  BY <1>0, Bounds DEF Spawn, Becomes, Goto, FlagTypes, progVars, runVars, waitVars, workVars,
     callVars
<1>3. ThreadTypes'
  BY <1>0, Bounds DEF Spawn, Becomes, Goto, RunTypes, ThreadTypes, Numbered, Steps,
     WorkerStates, Working, Places, Outcomes, Starting, progVars, runVars, waitVars, workVars,
     callVars
<1>4. Numbered'
  BY <1>0, Bounds DEF Spawn, Becomes, Goto, RunTypes, ThreadTypes, Numbered, OneThread,
     Starting, Working, progVars, runVars, waitVars, workVars, callVars
<1>5. OneThread'
  BY <1>0, Bounds DEF Spawn, Becomes, Goto, RunTypes, ThreadTypes, Numbered, OneThread,
     Starting, Working, progVars, runVars, waitVars, workVars, callVars
<1>6. Steps'
  BY <1>0, Bounds DEF Spawn, Becomes, Goto, RunTypes, ThreadTypes, Numbered, OneThread, Steps,
     Starting, Working, Current, progVars, runVars, waitVars, workVars, callVars
<1>7. Lateness'
  BY <1>0, Bounds DEF Spawn, Becomes, Goto, RunTypes, FlagTypes, ThreadTypes, Numbered,
     OneThread, Lateness, Starting, Working, progVars, runVars, waitVars, workVars, callVars
<1>8. InterruptReachesWait'
  BY <1>0, Bounds DEF Spawn, Becomes, Goto, RunTypes, ThreadTypes, Numbered, OneThread, Steps,
     InterruptReachesWait, Starting, Working, Current, Waits, progVars, runVars, waitVars,
     workVars, callVars
<1>20. RunStep
  BY RunStutters DEF Spawn, progVars, runVars
<1> QED BY <1>1, <1>2, <1>3, <1>4, <1>5, <1>6, <1>7, <1>8, <1>20 DEF IInv

\* A worker starts.
LEMMA Launching ==
    ASSUME IInv, NEW c \in Callers, Launch(c)
    PROVE  IInv' /\ RunStep
<1>0. /\ RunTypes /\ FlagTypes /\ ThreadTypes /\ Numbered
      /\ OneThread /\ Steps /\ Lateness /\ InterruptReachesWait
  BY DEF IInv
<1>1. RunTypes'
  BY <1>0, Bounds DEF Launch, Becomes, Goto, RunTypes, ThreadTypes, Numbered, Starting,
     progVars, runVars, waitVars, workVars, callVars
<1>2. FlagTypes'
  BY <1>0, Bounds DEF Launch, Becomes, Goto, FlagTypes, progVars, runVars, waitVars, workVars,
     callVars
<1>3. ThreadTypes'
  BY <1>0, Bounds DEF Launch, Becomes, Goto, RunTypes, ThreadTypes, Numbered, Steps,
     WorkerStates, Working, Places, Outcomes, Starting, progVars, runVars, waitVars, workVars,
     callVars
<1>4. Numbered'
  BY <1>0, Bounds DEF Launch, Becomes, Goto, RunTypes, ThreadTypes, Numbered, OneThread,
     Starting, Working, progVars, runVars, waitVars, workVars, callVars
<1>5. OneThread'
  BY <1>0, Bounds DEF Launch, Becomes, Goto, RunTypes, ThreadTypes, Numbered, OneThread,
     Starting, Working, progVars, runVars, waitVars, workVars, callVars
<1>6. Steps'
  BY <1>0, Bounds DEF Launch, Becomes, Goto, RunTypes, ThreadTypes, Numbered, OneThread,
     Steps, Starting, Working, Current, progVars, runVars, waitVars, workVars, callVars
<1>7. Lateness'
  BY <1>0, Bounds DEF Launch, Becomes, Goto, RunTypes, FlagTypes, ThreadTypes, Numbered,
     OneThread, Lateness, Starting, Working, progVars, runVars, waitVars, workVars, callVars
<1>8. InterruptReachesWait'
  BY <1>0, Bounds DEF Launch, Becomes, Goto, RunTypes, ThreadTypes, Numbered, OneThread,
     Steps, InterruptReachesWait, Starting, Working, Current, Waits, progVars, runVars,
     waitVars, workVars, callVars
<1>20. RunStep
  BY RunStutters DEF Launch, progVars, runVars
<1> QED BY <1>1, <1>2, <1>3, <1>4, <1>5, <1>6, <1>7, <1>8, <1>20 DEF IInv

\* A worker looks for an interrupt before it waits.
LEMMA Checking ==
    ASSUME IInv, NEW p \in Programs, Check(p)
    PROVE  IInv' /\ RunStep
<1>0. /\ RunTypes /\ FlagTypes /\ ThreadTypes /\ Numbered
      /\ OneThread /\ Steps /\ Lateness /\ InterruptReachesWait
  BY DEF IInv
<1>1. RunTypes'
  BY <1>0, Bounds DEF Check, Becomes, RunTypes, ThreadTypes, Numbered, Starting, progVars,
     runVars, waitVars, workVars, callVars
<1>2. FlagTypes'
  BY <1>0, Bounds DEF Check, Becomes, FlagTypes, progVars, runVars, waitVars, workVars,
     callVars
<1>3. ThreadTypes'
  BY <1>0, Bounds DEF Check, Becomes, RunTypes, ThreadTypes, Numbered, Steps, WorkerStates,
     Working, Places, Outcomes, Starting, progVars, runVars, waitVars, workVars, callVars
<1>4. Numbered'
  BY <1>0, Bounds DEF Check, Becomes, RunTypes, ThreadTypes, Numbered, OneThread, Starting,
     Working, progVars, runVars, waitVars, workVars, callVars
<1>5. OneThread'
  BY <1>0, Bounds DEF Check, Becomes, RunTypes, ThreadTypes, Numbered, OneThread, Starting,
     Working, progVars, runVars, waitVars, workVars, callVars
<1>6. Steps'
  BY <1>0, Bounds DEF Check, Becomes, RunTypes, ThreadTypes, Numbered, OneThread, Steps,
     Starting, Working, Current, progVars, runVars, waitVars, workVars, callVars
<1>7. Lateness'
  BY <1>0, Bounds DEF Check, Becomes, RunTypes, FlagTypes, ThreadTypes, Numbered, OneThread,
     Lateness, Starting, Working, progVars, runVars, waitVars, workVars, callVars
<1>8. InterruptReachesWait'
  BY <1>0, Bounds DEF Check, Becomes, RunTypes, ThreadTypes, Numbered, OneThread, Steps,
     InterruptReachesWait, Starting, Working, Current, Waits, progVars, runVars, waitVars,
     workVars, callVars
<1>20. RunStep
  BY RunStutters DEF Check, progVars, runVars
<1> QED BY <1>1, <1>2, <1>3, <1>4, <1>5, <1>6, <1>7, <1>8, <1>20 DEF IInv

\* A wait is over.
LEMMA WaitingOut ==
    ASSUME IInv, NEW p \in Programs, WaitOut(p)
    PROVE  IInv' /\ RunStep
<1>0. /\ RunTypes /\ FlagTypes /\ ThreadTypes /\ Numbered
      /\ OneThread /\ Steps /\ Lateness /\ InterruptReachesWait
  BY DEF IInv
<1>1. RunTypes'
  BY <1>0, Bounds DEF WaitOut, Becomes, RunTypes, ThreadTypes, Numbered, Starting, progVars,
     runVars, waitVars, workVars, callVars
<1>2. FlagTypes'
  BY <1>0, Bounds DEF WaitOut, Becomes, FlagTypes, progVars, runVars, waitVars, workVars,
     callVars
<1>3. ThreadTypes'
  BY <1>0, Bounds DEF WaitOut, Becomes, RunTypes, ThreadTypes, Numbered, Steps, WorkerStates,
     Working, Places, Outcomes, Starting, progVars, runVars, waitVars, workVars, callVars
<1>4. Numbered'
  BY <1>0, Bounds DEF WaitOut, Becomes, RunTypes, ThreadTypes, Numbered, OneThread, Starting,
     Working, progVars, runVars, waitVars, workVars, callVars
<1>5. OneThread'
  BY <1>0, Bounds DEF WaitOut, Becomes, RunTypes, ThreadTypes, Numbered, OneThread, Starting,
     Working, progVars, runVars, waitVars, workVars, callVars
<1>6. Steps'
  BY <1>0, Bounds DEF WaitOut, Becomes, RunTypes, ThreadTypes, Numbered, OneThread, Steps,
     Starting, Working, Current, progVars, runVars, waitVars, workVars, callVars
<1>7. Lateness'
  BY <1>0, Bounds DEF WaitOut, Becomes, RunTypes, FlagTypes, ThreadTypes, Numbered, OneThread,
     Lateness, Starting, Working, progVars, runVars, waitVars, workVars, callVars
<1>8. InterruptReachesWait'
  BY <1>0, Bounds DEF WaitOut, Becomes, RunTypes, ThreadTypes, Numbered, OneThread, Steps,
     InterruptReachesWait, Starting, Working, Current, Waits, progVars, runVars, waitVars,
     workVars, callVars
<1>20. RunStep
  BY RunStutters DEF WaitOut, progVars, runVars
<1> QED BY <1>1, <1>2, <1>3, <1>4, <1>5, <1>6, <1>7, <1>8, <1>20 DEF IInv

\* A worker goes on to the next step.
LEMMA Advancing ==
    ASSUME IInv, NEW p \in Programs, Advance(p)
    PROVE  IInv' /\ RunStep
<1>0. /\ RunTypes /\ FlagTypes /\ ThreadTypes /\ Numbered
      /\ OneThread /\ Steps /\ Lateness /\ InterruptReachesWait
  BY DEF IInv
<1>9. /\ program = p
      /\ \A q \in Programs \ {p} : worker[q] \notin Working
      /\ \A d \in Callers : at[d] \notin Starting
  <2>1. program = p
    BY <1>0 DEF Advance, OneThread, Working
  <2> QED
    BY <1>0, <2>1 DEF Advance, OneThread, Working
<1>10. script[p] \in Scripts /\ Len(script[p]) \in Nat
  <2>1. script[p] \in Scripts
    BY <1>0, <1>9, Bounds DEF Numbered, RunTypes
  <2> QED BY <2>1, ScriptLength
<1>11. /\ local' = [local EXCEPT ![p] = @ + 1]
       /\ \/ worker' = [worker EXCEPT ![p] = "finish"]
          \/ /\ worker' = [worker EXCEPT ![p] = "apply"]
             /\ ~abort /\ local'[p] <= Len(script[p])
       /\ UNCHANGED <<program, activity, abort, runVars, outcome, callVars>>
  BY <1>0, <1>9, <1>10 DEF Advance, Becomes, ThreadTypes, waitVars
<1>1. RunTypes'
  BY <1>0, Bounds DEF Advance, Becomes, RunTypes, ThreadTypes, Numbered, Starting, progVars,
     runVars, waitVars, workVars, callVars
<1>2. FlagTypes'
  BY <1>0, Bounds DEF Advance, Becomes, FlagTypes, progVars, runVars, waitVars, workVars,
     callVars
<1>3. ThreadTypes'
  BY <1>0, <1>11 DEF ThreadTypes, WorkerStates, Working, callVars
<1>4. Numbered'
  BY <1>0, Bounds DEF Advance, Becomes, RunTypes, ThreadTypes, Numbered, OneThread, Starting,
     Working, progVars, runVars, waitVars, workVars, callVars
<1>5. OneThread'
  BY <1>0, Bounds DEF Advance, Becomes, RunTypes, ThreadTypes, Numbered, OneThread, Starting,
     Working, progVars, runVars, waitVars, workVars, callVars
<1>6. Steps'
<2>1. worker[p] = "advance" /\ worker'[p] \notin {"check", "waiting", "advance", "note"}
  BY <1>0, <1>11 DEF Advance, ThreadTypes
<2>2. worker'[p] = "apply" => local'[p] = applied'[p] + 1 /\ local'[p] <= Len(script'[p])
  BY <1>0, <1>9, <1>11, <1>10, <2>1 DEF Steps, ThreadTypes, RunTypes, runVars
<2>3. \A q \in Programs \ {p} : worker'[q] \notin Working
  BY <1>0, <1>9, <1>11 DEF ThreadTypes
<2> QED
  BY <1>9, <1>11, <2>1, <2>2, <2>3 DEF Steps, Working, Starting, callVars
<1>7. Lateness'
  BY <1>0, Bounds DEF Advance, Becomes, RunTypes, FlagTypes, ThreadTypes, Numbered, OneThread,
     Lateness, Starting, Working, progVars, runVars, waitVars, workVars, callVars
<1>8. InterruptReachesWait'
  BY <1>0, Bounds DEF Advance, Becomes, RunTypes, ThreadTypes, Numbered, OneThread, Steps,
     InterruptReachesWait, Starting, Working, Current, Waits, progVars, runVars, waitVars,
     workVars, callVars
<1>20. RunStep
  BY <1>11, RunStutters DEF Advance, runVars
<1> QED BY <1>1, <1>2, <1>3, <1>4, <1>5, <1>6, <1>7, <1>8, <1>20 DEF IInv

\* A worker applies a step.
LEMMA Applying ==
    ASSUME IInv, NEW p \in Programs, Apply(p)
    PROVE  IInv' /\ RunStep
<1>0. /\ RunTypes /\ FlagTypes /\ ThreadTypes /\ Numbered
      /\ OneThread /\ Steps /\ Lateness /\ InterruptReachesWait
  BY DEF IInv
<1>9. /\ worker[p] = "apply" /\ program = p /\ script[p] \in Scripts
      /\ Len(script[p]) \in 1..MaxSteps
      /\ local[p] = applied[p] + 1 /\ local[p] <= Len(script[p])
      /\ local[p] \in 1..MaxSteps
  BY <1>0, Bounds, ScriptLength DEF Apply, OneThread, Working, Numbered, Steps, RunTypes
<1>10. /\ worker' = [worker EXCEPT ![p] = "note"]
          /\ applied' = [applied EXCEPT ![p] = local[p]] /\ late' = abort
          /\ outcome' \in [Waits -> Outcomes]
       \/ /\ worker' = [worker EXCEPT ![p] = "failed"]
          /\ UNCHANGED <<applied, late, outcome>>
  BY <1>0 DEF Apply, Becomes, ThreadTypes, Outcomes
<1>11. UNCHANGED <<progVars, loaded, script, ended, local, callVars>>
  BY DEF Apply
<1>12. /\ \A q \in Programs \ {p} : worker[q] \notin Working
       /\ \A d \in Callers : at[d] \notin Starting
  BY <1>0, <1>9 DEF OneThread, Working
<1>1. RunTypes'
<2>1. applied' \in [Programs -> 0..MaxSteps]
  <3>1. applied \in [Programs -> 0..MaxSteps] /\ local[p] \in 0..MaxSteps
    BY <1>0, <1>9, Bounds DEF RunTypes
  <3>2. applied' = [applied EXCEPT ![p] = local[p]] \/ applied' = applied
    BY <1>10
  <3> QED BY <3>1, <3>2
<2> QED
  BY <1>0, <1>11, <2>1 DEF RunTypes, progVars
<1>2. FlagTypes'
  BY <1>0, Bounds DEF Apply, Becomes, FlagTypes, progVars, runVars, waitVars, workVars,
     callVars
<1>3. ThreadTypes'
  BY <1>0, <1>10, <1>11 DEF ThreadTypes, WorkerStates, Working, callVars
<1>4. Numbered'
  BY <1>0, <1>9, <1>10, <1>11, Bounds DEF Numbered, RunTypes, ThreadTypes, progVars, callVars
<1>5. OneThread'
  BY <1>0, <1>9, <1>10, <1>11, <1>12 DEF OneThread, ThreadTypes, Working, progVars, callVars
<1>6. Steps'
<2>1. /\ worker'[p] # "apply" /\ worker'[p] \notin {"check", "waiting", "advance"}
      /\ worker'[p] = "note" => local'[p] = applied'[p] /\ local'[p] >= 1
  BY <1>0, <1>9, <1>10, <1>11 DEF RunTypes, ThreadTypes
<2>2. \A q \in Programs \ {p} : worker'[q] \notin Working
  BY <1>0, <1>10, <1>12 DEF ThreadTypes
<2> QED
  BY <1>11, <1>12, <2>1, <2>2 DEF Steps, Working, Starting, callVars
<1>7. Lateness'
<2>1. \A q \in Programs : worker'[q] # "apply"
  BY <1>0, <1>9, <1>10, <1>12 DEF ThreadTypes, Working
<2>2. \A d \in Callers : at'[d] # "atomics"
  BY <1>11, <1>12 DEF Starting, callVars
<2>3. late' => abort'
  BY <1>0, <1>9, <1>10, <1>11 DEF Lateness, FlagTypes, progVars
<2> QED
  BY <2>1, <2>2, <2>3 DEF Lateness
<1>8. InterruptReachesWait'
  BY <1>0, <1>9, <1>10, <1>11, <1>12 DEF InterruptReachesWait, ThreadTypes, Working
<1>20. RunStep
<2>1. \A q \in Programs : q # p => Phase(q)' = Phase(q)
  BY <1>9, <1>11 DEF Phase, progVars
<2>2. CASE UNCHANGED <<applied, late, outcome>>
  BY <1>11, <2>2, RunStutters DEF progVars
<2>3. CASE applied' = [applied EXCEPT ![p] = local[p]] /\ late' = abort
  <3>1. ~late
    BY <1>0, <1>9 DEF Lateness
  <3>2. /\ Phase(p) = IF abort THEN "stopping" ELSE "running"
        /\ Phase(p)' = IF abort THEN "stopped" ELSE "running"
    BY <1>9, <1>11, <2>3, <3>1 DEF Phase, progVars
  <3>3. Run!Apply(p)
    BY <1>9, <2>1, <2>3, <3>2 DEF Run!Apply, Run!Enter
  <3> QED BY <3>3 DEF RunStep, Run!Next
<2> QED BY <1>10, <2>2, <2>3
<1> QED BY <1>1, <1>2, <1>3, <1>4, <1>5, <1>6, <1>7, <1>8, <1>20 DEF IInv

\* A worker notes what it waits for.
LEMMA Noting ==
    ASSUME IInv, NEW p \in Programs, Note(p)
    PROVE  IInv' /\ RunStep
<1>0. /\ RunTypes /\ FlagTypes /\ ThreadTypes /\ Numbered
      /\ OneThread /\ Steps /\ Lateness /\ InterruptReachesWait
  BY DEF IInv
<1>9. /\ program = p /\ worker[p] = "note"
      /\ \A q \in Programs \ {p} : worker[q] \notin Working
      /\ \A d \in Callers : at[d] \notin Starting
  BY <1>0 DEF Note, OneThread, Working
<1>10. /\ UNCHANGED <<program, step, abort, runVars, local, callVars>>
       /\ outcome' \in [Waits -> Outcomes]
       /\ \/ worker' = [worker EXCEPT ![p] = "check"] /\ activity' = Current(p)
          \/ worker' = [worker EXCEPT ![p] = "advance"]
  BY <1>0 DEF Note, Becomes, Settle, ThreadTypes, Outcomes
<1>1. RunTypes'
  BY <1>0, Bounds DEF Note, Becomes, Settle, RunTypes, ThreadTypes, Numbered, Starting,
     progVars, runVars, waitVars, workVars, callVars
<1>2. FlagTypes'
  BY <1>0, Bounds DEF Note, Becomes, Settle, FlagTypes, progVars, runVars, waitVars, workVars,
     callVars
<1>3. ThreadTypes'
  BY <1>0, <1>10 DEF ThreadTypes, WorkerStates, Working, callVars
<1>4. Numbered'
  BY <1>0, Bounds DEF Note, Becomes, Settle, RunTypes, ThreadTypes, Numbered, OneThread,
     Starting, Working, progVars, runVars, waitVars, workVars, callVars
<1>5. OneThread'
  BY <1>0, Bounds DEF Note, Becomes, Settle, RunTypes, ThreadTypes, Numbered, OneThread,
     Starting, Working, progVars, runVars, waitVars, workVars, callVars
<1>6. Steps'
<2>1. \A q \in Programs \ {p} : worker'[q] \notin Working
  BY <1>0, <1>9, <1>10 DEF ThreadTypes
<2>2. /\ worker'[p] \in {"check", "advance"} /\ local'[p] = applied'[p] /\ local'[p] >= 1
      /\ worker'[p] = "check" => activity' = <<p, local'[p]>>
  BY <1>0, <1>9, <1>10 DEF Steps, ThreadTypes, runVars, Current
<2> QED
  BY <1>9, <1>10, <2>1, <2>2 DEF Steps, Working, Starting, Current, callVars
<1>7. Lateness'
  BY <1>0, Bounds DEF Note, Becomes, Settle, RunTypes, FlagTypes, ThreadTypes, Numbered,
     OneThread, Lateness, Starting, Working, progVars, runVars, waitVars, workVars, callVars
<1>8. InterruptReachesWait'
  BY <1>0, <1>9, <1>10 DEF InterruptReachesWait, ThreadTypes, Working
<1>20. RunStep
  BY RunStutters DEF Note, runVars
<1> QED BY <1>1, <1>2, <1>3, <1>4, <1>5, <1>6, <1>7, <1>8, <1>20 DEF IInv

\* A step raised.
LEMMA Failing ==
    ASSUME IInv, NEW p \in Programs, WorkFailed(p)
    PROVE  IInv' /\ RunStep
<1>0. /\ RunTypes /\ FlagTypes /\ ThreadTypes /\ Numbered
      /\ OneThread /\ Steps /\ Lateness /\ InterruptReachesWait
  BY DEF IInv
<1>1. RunTypes'
  BY <1>0, Bounds DEF WorkFailed, Becomes, RunTypes, ThreadTypes, Numbered, Starting,
     progVars, runVars, waitVars, workVars, callVars
<1>2. FlagTypes'
  BY <1>0, Bounds DEF WorkFailed, Becomes, FlagTypes, progVars, runVars, waitVars, workVars,
     callVars
<1>3. ThreadTypes'
  BY <1>0, Bounds DEF WorkFailed, Becomes, RunTypes, ThreadTypes, Numbered, Steps,
     WorkerStates, Working, Places, Outcomes, Starting, progVars, runVars, waitVars, workVars,
     callVars
<1>4. Numbered'
  BY <1>0, Bounds DEF WorkFailed, Becomes, RunTypes, ThreadTypes, Numbered, OneThread,
     Starting, Working, progVars, runVars, waitVars, workVars, callVars
<1>5. OneThread'
  BY <1>0, Bounds DEF WorkFailed, Becomes, RunTypes, ThreadTypes, Numbered, OneThread,
     Starting, Working, progVars, runVars, waitVars, workVars, callVars
<1>6. Steps'
  BY <1>0, Bounds DEF WorkFailed, Becomes, RunTypes, ThreadTypes, Numbered, OneThread, Steps,
     Starting, Working, Current, progVars, runVars, waitVars, workVars, callVars
<1>7. Lateness'
  BY <1>0, Bounds DEF WorkFailed, Becomes, RunTypes, FlagTypes, ThreadTypes, Numbered,
     OneThread, Lateness, Starting, Working, progVars, runVars, waitVars, workVars, callVars
<1>8. InterruptReachesWait'
  BY <1>0, Bounds DEF WorkFailed, Becomes, RunTypes, ThreadTypes, Numbered, OneThread, Steps,
     InterruptReachesWait, Starting, Working, Current, Waits, progVars, runVars, waitVars,
     workVars, callVars
<1>20. RunStep
  BY RunStutters DEF WorkFailed, runVars
<1> QED BY <1>1, <1>2, <1>3, <1>4, <1>5, <1>6, <1>7, <1>8, <1>20 DEF IInv

\* A worker ends its program.
LEMMA Finishing ==
    ASSUME IInv, NEW p \in Programs, WorkFinish(p)
    PROVE  IInv' /\ RunStep
<1>0. /\ RunTypes /\ FlagTypes /\ ThreadTypes /\ Numbered
      /\ OneThread /\ Steps /\ Lateness /\ InterruptReachesWait
  BY DEF IInv
<1>9. program = p
  BY <1>0 DEF WorkFinish, OneThread, Working
<1>1. RunTypes'
  BY <1>0, Bounds DEF WorkFinish, Finish, Becomes, RunTypes, ThreadTypes, Numbered, Starting,
     progVars, runVars, waitVars, workVars, callVars
<1>2. FlagTypes'
  BY <1>0, Bounds DEF WorkFinish, Finish, Becomes, FlagTypes, progVars, runVars, waitVars,
     workVars, callVars
<1>3. ThreadTypes'
  BY <1>0, Bounds DEF WorkFinish, Finish, Becomes, RunTypes, ThreadTypes, Numbered, Steps,
     WorkerStates, Working, Places, Outcomes, Starting, progVars, runVars, waitVars, workVars,
     callVars
<1>4. Numbered'
  BY <1>0, Bounds DEF WorkFinish, Finish, Becomes, RunTypes, ThreadTypes, Numbered, OneThread,
     Starting, Working, progVars, runVars, waitVars, workVars, callVars
<1>5. OneThread'
  BY <1>0, Bounds DEF WorkFinish, Finish, Becomes, RunTypes, ThreadTypes, Numbered, OneThread,
     Starting, Working, progVars, runVars, waitVars, workVars, callVars
<1>6. Steps'
  BY <1>0, Bounds DEF WorkFinish, Finish, Becomes, RunTypes, ThreadTypes, Numbered, OneThread,
     Steps, Starting, Working, Current, progVars, runVars, waitVars, workVars, callVars
<1>7. Lateness'
  BY <1>0, Bounds DEF WorkFinish, Finish, Becomes, RunTypes, FlagTypes, ThreadTypes, Numbered,
     OneThread, Lateness, Starting, Working, progVars, runVars, waitVars, workVars, callVars
<1>8. InterruptReachesWait'
  BY <1>0, Bounds DEF WorkFinish, Finish, Becomes, RunTypes, ThreadTypes, Numbered, OneThread,
     Steps, InterruptReachesWait, Starting, Working, Current, Waits, progVars, runVars,
     waitVars, workVars, callVars
<1>20. RunStep
<2>1. program = p /\ program' = None /\ p \in Programs
  BY <1>9 DEF WorkFinish, Finish
<2>2. PICK how \in {"failed", "interrupted", "finished"} :
        /\ ended' = [ended EXCEPT ![p] = how]
        /\ how = "interrupted" => abort
        /\ how = "finished" => ~abort
  BY <2>1 DEF WorkFinish, Finish
<2>3. /\ Phase(p) \in Run!Loaded
      /\ Phase(p) = "running" <=> ~abort
  BY <2>1 DEF Phase, Run!Loaded
<2>4. \A q \in Programs : Phase(q)' = IF q = p THEN how ELSE Phase(q)
  BY <1>0, <2>1, <2>2, Bounds DEF Phase, RunTypes
<2>5. Run!End(p)
  BY <2>1, <2>2, <2>3, <2>4 DEF WorkFinish, Run!End, Run!Enter
<2> QED BY <2>1, <2>5 DEF RunStep, Run!Next
<1> QED BY <1>1, <1>2, <1>3, <1>4, <1>5, <1>6, <1>7, <1>8, <1>20 DEF IInv

\* Every step preserves the invariant, and is one that ProgramRun allows.
LEMMA NextInv == IInv /\ [Next]_vars => IInv' /\ RunStep
<1> SUFFICES ASSUME IInv, [Next]_vars PROVE IInv' /\ RunStep
  OBVIOUS
<1>1. ASSUME NEW w \in Waits, WaitStep(w) PROVE IInv' /\ RunStep
  BY <1>1, Settling
<1>2. ASSUME NEW c \in Callers, Call(c) \/ StartStep(c) PROVE IInv' /\ RunStep
  BY <1>2, Asking, Interrupting, Loading, Starts, StartEnds, Spawning, Launching DEF StartStep
<1>3. ASSUME NEW p \in Programs, WorkerStep(p) PROVE IInv' /\ RunStep
  BY <1>3, Checking, WaitingOut, Advancing, Applying, Noting, Failing, Finishing DEF WorkerStep
<1>4. CASE UNCHANGED vars
  BY <1>4, RunStutters DEF vars, IInv, RunTypes, FlagTypes, ThreadTypes, Numbered, OneThread, Steps, Lateness,
     InterruptReachesWait, Current, progVars, runVars, waitVars, workVars, callVars
<1> QED BY <1>1, <1>2, <1>3, <1>4 DEF Next

\* The invariant holds of every behaviour.
THEOREM Invariance == Spec => []IInv
BY InitInv, NextInv, PTL DEF Spec

\* A program is worked on by one thread, and only while it is loaded: what a
\* start does outside the lock is done by nobody else.
THEOREM OneThreadHolds == Spec => []OneThread
<1>1. IInv => OneThread
  BY DEF IInv
<1> QED BY <1>1, Invariance, PTL

\* No worker waits on for something an interrupt was meant to end.
THEOREM InterruptReachesWaitHolds == Spec => []InterruptReachesWait
<1>1. IInv => InterruptReachesWait
  BY DEF IInv
<1> QED BY <1>1, Invariance, PTL

\* Programs run one at a time, their steps in order and each once, at most one
\* of them after an interrupt, and how each ended is said once: the programmer,
\* its callers, its workers and their waits do what ProgramRun promises.
THEOREM RunImplemented == Spec => ImplementsRun
<1>1. Init => Run!Init
  BY Bounds DEF Init, Run!Init, Phase
<1>2. IInv /\ [Next]_vars => [Run!Next]_Run!runVars
  BY NextInv DEF RunStep
<1> QED BY <1>1, <1>2, Invariance, PTL DEF Spec, ImplementsRun, Run!Spec
===============================================================================
