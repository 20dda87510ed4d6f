----------------------------- MODULE ProgramRun -----------------------------
(***************************************************************************)
(* What a programmer promises: programs run one at a time; the steps of a  *)
(* program are applied in order, each once, from the first; a program that *)
(* is interrupted applies at most the step it was about to apply; and how  *)
(* it ended is said once.                                                  *)
(***************************************************************************)
EXTENDS Naturals

CONSTANTS Programs,     \* the programs, one for each start
          MaxSteps      \* bound: the steps of a program

VARIABLES phase,        \* of each program: new, where it is, or how it ended
          applied       \* how many of its steps have been applied

runVars == <<phase, applied>>

\* Loaded: nobody has interrupted it, or somebody has, before or after its
\* last step.
Loaded == {"running", "stopping", "stopped"}

Init ==
    /\ phase = [p \in Programs |-> "new"]
    /\ applied = [p \in Programs |-> 0]

Enter(p, there) == phase' = [phase EXCEPT ![p] = there]

Begin(p) ==
    /\ phase[p] = "new"
    /\ \A q \in Programs : phase[q] \notin Loaded
    /\ Enter(p, "running")
    /\ UNCHANGED applied

\* The next step, or the first few if nothing has to be waited for.
Apply(p) ==
    /\ phase[p] \in {"running", "stopping"}
    /\ \E n \in 1..MaxSteps :
          /\ n = applied[p] + 1 \/ (applied[p] = 0 /\ phase[p] = "running")
          /\ applied' = [applied EXCEPT ![p] = n]
    /\ Enter(p, IF phase[p] = "stopping" THEN "stopped" ELSE "running")

Interrupt(p) ==
    /\ phase[p] = "running"
    /\ Enter(p, "stopping")
    /\ UNCHANGED applied

End(p) ==
    /\ phase[p] \in Loaded
    /\ \/ Enter(p, "failed")
       \/ phase[p] = "running" /\ Enter(p, "finished")
       \/ phase[p] # "running" /\ Enter(p, "interrupted")
    /\ UNCHANGED applied

Next == \E p \in Programs : Begin(p) \/ Apply(p) \/ Interrupt(p) \/ End(p)

Spec == Init /\ [][Next]_runVars
=============================================================================
