--------------------------- MODULE DemandRegister ---------------------------
(***************************************************************************)
(* What a blocking device promises whoever demands values of it, with no   *)
(* threads and no lock: a register per signal.  Demands are numbered in    *)
(* the order the rig accepted them.  A write puts some demand on the bus,  *)
(* never one older than what the bus already holds ("the newest value      *)
(* wins") and never a value nobody demanded.  The promise is made while    *)
(* the device is on the rig; once it has been removed nothing is said      *)
(* beyond "only what was demanded".                                        *)
(***************************************************************************)
EXTENDS Naturals

CONSTANT Signals    \* the writable signals of the device

VARIABLES
    demanded,       \* demanded[s]: number of the newest demand accepted, 0 none
    hardware,       \* hardware[s]: number of the demand the bus holds, 0 none
    onRig           \* the device is still the rig's

regVars == <<demanded, hardware, onRig>>

Init ==
    /\ demanded = [s \in Signals |-> 0]
    /\ hardware = [s \in Signals |-> 0]
    /\ onRig = TRUE

\* A newer value is accepted for one signal.
Demand ==
    /\ demanded' \in [Signals -> Nat]
    /\ \E s \in Signals :
          /\ demanded[s] < demanded'[s]
          /\ \A r \in Signals \ {s} : demanded'[r] = demanded[r]
    /\ UNCHANGED <<hardware, onRig>>

\* The bus takes values for some signals: each at least as new as the one
\* it holds and no newer than the newest demanded.
Write ==
    /\ onRig
    /\ hardware' \in [Signals -> Nat]
    /\ \A s \in Signals : hardware[s] <= hardware'[s] /\ hardware'[s] <= demanded[s]
    /\ UNCHANGED <<demanded, onRig>>

\* A write that was in flight, or queued late, when the device left the rig.
LateWrite ==
    /\ ~onRig
    /\ hardware' \in [Signals -> Nat]
    /\ \A s \in Signals : hardware'[s] <= demanded[s]
    /\ UNCHANGED <<demanded, onRig>>

Remove ==
    /\ onRig
    /\ onRig' = FALSE
    /\ UNCHANGED <<demanded, hardware>>

Next == Demand \/ Write \/ LateWrite \/ Remove

Spec == Init /\ [][Next]_regVars
=============================================================================
