------------------------ MODULE BlockingWritesProofs ------------------------
(***************************************************************************)
(* Proofs about BlockingWrites, for any set of signals, clients and        *)
(* writers and any bound on demands.                                       *)
(***************************************************************************)
EXTENDS BlockingWrites, TLAPS

\* The sorts of step Next takes, one by one: what the case splits below go
\* through.
LEMMA NextCases ==
    ASSUME Next
    PROVE  \/ \E c \in Clients : \/ Resolve(c) \/ Refuse(c) \/ Deliver(c)
                                 \/ Remove(c) \/ StopRig(c)
                                 \/ \E S \in SUBSET Signals \ {{}}, L \in SUBSET Signals :
                                       Demand(c, S, L)
           \/ \E t \in Threads : \/ \E s \in Signals : Apply(t, s)
                                 \/ Note(t) \/ Request(t) \/ Wake(t)
                                 \/ EndDelivery(t)
                                 \/ \E s \in Signals, L \in SUBSET Signals : Step(t, s, L)
           \/ \E w \in Writers : \/ Loop(w) \/ Awake(w) \/ Swap(w) \/ Stage(w)
                                 \/ Commit(w) \/ BusFails(w) \/ Failure(w) \/ Written(w)
<1>1. ASSUME NEW c \in Clients, NEW S \in SUBSET Signals \ {{}}, NEW L \in SUBSET S
      PROVE  L \in SUBSET Signals
  OBVIOUS
<1>2. ASSUME NEW s \in Signals, NEW L \in SUBSET {s}
      PROVE  L \in SUBSET Signals
  OBVIOUS
<1> QED BY <1>1, <1>2 DEF Next, ClientStep, LockedStep, WriterStep

\* Writers, queues and the bus start with values of their types.
LEMMA TypeInit == Init => TypeOK
BY BlockingWritesAssumption DEF Init, TypeOK, RigTypes, ThreadTypes, DemandTypes,
   WriterTypes, DeviceTypes, Threads, Demands, NoDemand, LockedStates, ClientStates,
   WriterStates

\* Every step keeps the types of the rig's own variables (rig.py).
LEMMA RigTypesStep ==
    ASSUME TypeOK, [Next]_vars
    PROVE  RigTypes'
<1> USE BlockingWritesAssumption DEF TypeOK, RigTypes, ThreadTypes, DemandTypes, WriterTypes, DeviceTypes, Threads, rigVars, demandVars, writerVars, deviceVars, Goto, Demands, NoDemand
<1>1. CASE UNCHANGED vars
  BY <1>1 DEF vars
<1>2. CASE Next
  <2>1. ASSUME NEW c \in Clients, Resolve(c)
       PROVE  RigTypes'
    BY <2>1 DEF Resolve
  <2>2. ASSUME NEW c \in Clients, Refuse(c)
       PROVE  RigTypes'
    BY <2>2 DEF Refuse
  <2>3. ASSUME NEW c \in Clients, Deliver(c)
       PROVE  RigTypes'
    BY <2>3 DEF Deliver
  <2>4. ASSUME NEW c \in Clients, Remove(c)
       PROVE  RigTypes'
    <3>1. /\ requested' = NoDemand /\ writerOf' = None /\ onRig' = FALSE
          /\ UNCHANGED <<rigLock, touched, issued, demanded>>
      BY <2>4 DEF Remove
    <3>2. requested' \in [Signals -> Demands]
      BY <3>1
    <3>3. rigLock' \in Threads \cup {None} /\ touched' \in {"outside", "clean", "dirty"}
      BY <3>1
    <3>4. demanded' \in [Signals -> Demands] /\ issued' \in Demands
      BY <3>1
    <3> QED BY <3>1, <3>2, <3>3, <3>4
  <2>5. ASSUME NEW c \in Clients, StopRig(c)
       PROVE  RigTypes'
    BY <2>5 DEF StopRig, StopWriter
  <2>6. ASSUME NEW c \in Clients, NEW S \in SUBSET Signals \ {{}},
               NEW L \in SUBSET Signals, Demand(c, S, L)
       PROVE  RigTypes'
    BY <2>6 DEF Demand, Begin, WriterFor
  <2>7. ASSUME NEW t \in Threads, NEW s \in Signals, Apply(t, s)
       PROVE  RigTypes'
    BY <2>7 DEF Apply
  <2>8. ASSUME NEW t \in Threads, Note(t)
       PROVE  RigTypes'
    BY <2>8 DEF Note
  <2>9. ASSUME NEW t \in Threads, Request(t)
       PROVE  RigTypes'
    BY <2>9 DEF Request
  <2>10. ASSUME NEW t \in Threads, Wake(t)
       PROVE  RigTypes'
    BY <2>10 DEF Wake, AfterLock
  <2>11. ASSUME NEW t \in Threads, EndDelivery(t)
       PROVE  RigTypes'
    BY <2>11 DEF EndDelivery, WriterFor, AfterLock
  <2>12. ASSUME NEW t \in Threads, NEW s \in Signals,
               NEW L \in SUBSET Signals, Step(t, s, L)
       PROVE  RigTypes'
    BY <2>12 DEF Step, Begin, WriterFor
  <2>13. ASSUME NEW w \in Writers, Loop(w)
       PROVE  RigTypes'
    BY <2>13 DEF Loop
  <2>14. ASSUME NEW w \in Writers, Awake(w)
       PROVE  RigTypes'
    BY <2>14 DEF Awake
  <2>15. ASSUME NEW w \in Writers, Swap(w)
       PROVE  RigTypes'
    BY <2>15 DEF Swap
  <2>16. ASSUME NEW w \in Writers, Stage(w)
       PROVE  RigTypes'
    BY <2>16 DEF Stage
  <2>17. ASSUME NEW w \in Writers, Commit(w)
       PROVE  RigTypes'
    BY <2>17 DEF Commit, Put
  <2>18. ASSUME NEW w \in Writers, BusFails(w)
       PROVE  RigTypes'
    BY <2>18 DEF BusFails, Put
  <2>19. ASSUME NEW w \in Writers, Failure(w)
       PROVE  RigTypes'
    BY <2>19 DEF Failure
  <2>20. ASSUME NEW w \in Writers, Written(w)
       PROVE  RigTypes'
    BY <2>20 DEF Written, States
  <2> QED
    BY <1>2, NextCases, <2>1, <2>2, <2>3, <2>4, <2>5, <2>6, <2>7, <2>8, <2>9, <2>10, <2>11, <2>12, <2>13, <2>14, <2>15, <2>16, <2>17, <2>18, <2>19, <2>20
<1> QED BY <1>1, <1>2

\* A thread that moves on to a state of its own kind keeps the types.
LEMMA GotoTypes ==
    ASSUME ThreadTypes, NEW t \in Threads, NEW x, Goto(t, x),
           t \in Clients => x \in LockedStates \cup ClientStates,
           t \in Writers => x \in LockedStates \cup WriterStates
    PROVE  ThreadTypes'
BY DEF ThreadTypes, Goto, Threads

\* Rig.writer_for, which finds or makes a writer, keeps the types.
LEMMA WriterForTypes ==
    ASSUME ThreadTypes, NEW t \in Threads, NEW x \in LockedStates, WriterFor(t, x)
    PROVE  ThreadTypes'
<1>1. CASE Goto(t, x)
  BY <1>1, GotoTypes
<1>2. ASSUME NEW w \in Writers, pc[w] = "unborn",
             pc' = [pc EXCEPT ![w] = "loop", ![t] = x]
      PROVE  ThreadTypes'
  BY <1>2, BlockingWritesAssumption
     DEF ThreadTypes, Threads, LockedStates, ClientStates, WriterStates
<1> QED BY <1>1, <1>2 DEF WriterFor

\* What begins a demand keeps the types.
LEMMA BeginTypes ==
    ASSUME ThreadTypes, NEW t \in Threads, NEW S, NEW L, Begin(t, S, L)
    PROVE  ThreadTypes'
BY WriterForTypes DEF Begin, LockedStates

\* Every step keeps every thread at one of its places.
LEMMA ThreadTypesStep ==
    ASSUME TypeOK, [Next]_vars
    PROVE  ThreadTypes'
<1> USE BlockingWritesAssumption DEF TypeOK, RigTypes, ThreadTypes, DemandTypes, WriterTypes, DeviceTypes, Threads, rigVars, demandVars, writerVars, deviceVars, Goto, LockedStates, ClientStates, WriterStates
<1>1. CASE UNCHANGED vars
  BY <1>1 DEF vars
<1>2. CASE Next
  <2>1. ASSUME NEW c \in Clients, Resolve(c)
       PROVE  ThreadTypes'
    BY <2>1 DEF Resolve
  <2>2. ASSUME NEW c \in Clients, Refuse(c)
       PROVE  ThreadTypes'
    BY <2>2 DEF Refuse
  <2>3. ASSUME NEW c \in Clients, Deliver(c)
       PROVE  ThreadTypes'
    BY <2>3 DEF Deliver
  <2>4. ASSUME NEW c \in Clients, Remove(c)
       PROVE  ThreadTypes'
    BY <2>4 DEF Remove, StopWriter
  <2>5. ASSUME NEW c \in Clients, StopRig(c)
       PROVE  ThreadTypes'
    BY <2>5 DEF StopRig, StopWriter
  <2>6. ASSUME NEW c \in Clients, NEW S \in SUBSET Signals \ {{}},
               NEW L \in SUBSET Signals, Demand(c, S, L)
       PROVE  ThreadTypes'
    BY <2>6, BeginTypes DEF Demand
  <2>7. ASSUME NEW t \in Threads, NEW s \in Signals, Apply(t, s)
       PROVE  ThreadTypes'
    BY <2>7, GotoTypes DEF Apply
  <2>8. ASSUME NEW t \in Threads, Note(t)
       PROVE  ThreadTypes'
    BY <2>8 DEF Note
  <2>9. ASSUME NEW t \in Threads, Request(t)
       PROVE  ThreadTypes'
    BY <2>9 DEF Request
  <2>10. ASSUME NEW t \in Threads, Wake(t)
       PROVE  ThreadTypes'
    BY <2>10 DEF Wake, AfterLock
  <2>11. ASSUME NEW t \in Threads, EndDelivery(t)
       PROVE  ThreadTypes'
    BY <2>11, WriterForTypes, GotoTypes DEF EndDelivery, AfterLock
  <2>12. ASSUME NEW t \in Threads, NEW s \in Signals,
               NEW L \in SUBSET Signals, Step(t, s, L)
       PROVE  ThreadTypes'
    BY <2>12, BeginTypes DEF Step
  <2>13. ASSUME NEW w \in Writers, Loop(w)
       PROVE  ThreadTypes'
    BY <2>13 DEF Loop
  <2>14. ASSUME NEW w \in Writers, Awake(w)
       PROVE  ThreadTypes'
    BY <2>14 DEF Awake
  <2>15. ASSUME NEW w \in Writers, Swap(w)
       PROVE  ThreadTypes'
    BY <2>15, GotoTypes DEF Swap
  <2>16. ASSUME NEW w \in Writers, Stage(w)
       PROVE  ThreadTypes'
    BY <2>16 DEF Stage
  <2>17. ASSUME NEW w \in Writers, Commit(w)
       PROVE  ThreadTypes'
    BY <2>17 DEF Commit, Put
  <2>18. ASSUME NEW w \in Writers, BusFails(w)
       PROVE  ThreadTypes'
    BY <2>18 DEF BusFails, Put
  <2>19. ASSUME NEW w \in Writers, Failure(w)
       PROVE  ThreadTypes'
    BY <2>19 DEF Failure
  <2>20. ASSUME NEW w \in Writers, Written(w)
       PROVE  ThreadTypes'
    BY <2>20, GotoTypes DEF Written
  <2> QED
    BY <1>2, NextCases, <2>1, <2>2, <2>3, <2>4, <2>5, <2>6, <2>7, <2>8, <2>9, <2>10, <2>11, <2>12, <2>13, <2>14, <2>15, <2>16, <2>17, <2>18, <2>19, <2>20
<1> QED BY <1>1, <1>2

\* Every step keeps the types of the demands under way.
LEMMA DemandTypesStep ==
    ASSUME TypeOK, [Next]_vars
    PROVE  DemandTypes'
<1> USE BlockingWritesAssumption DEF TypeOK, RigTypes, ThreadTypes, DemandTypes, WriterTypes, DeviceTypes, Threads, rigVars, demandVars, writerVars, deviceVars, Goto
<1>1. CASE UNCHANGED vars
  BY <1>1 DEF vars
<1>2. CASE Next
  <2>1. ASSUME NEW c \in Clients, Resolve(c)
       PROVE  DemandTypes'
    BY <2>1 DEF Resolve
  <2>2. ASSUME NEW c \in Clients, Refuse(c)
       PROVE  DemandTypes'
    BY <2>2 DEF Refuse
  <2>3. ASSUME NEW c \in Clients, Deliver(c)
       PROVE  DemandTypes'
    BY <2>3 DEF Deliver
  <2>4. ASSUME NEW c \in Clients, Remove(c)
       PROVE  DemandTypes'
    BY <2>4 DEF Remove, StopWriter
  <2>5. ASSUME NEW c \in Clients, StopRig(c)
       PROVE  DemandTypes'
    BY <2>5 DEF StopRig, StopWriter
  <2>6. ASSUME NEW c \in Clients, NEW S \in SUBSET Signals \ {{}},
               NEW L \in SUBSET Signals, Demand(c, S, L)
       PROVE  DemandTypes'
    BY <2>6 DEF Demand, Begin, WriterFor
  <2>7. ASSUME NEW t \in Threads, NEW s \in Signals, Apply(t, s)
       PROVE  DemandTypes'
    BY <2>7 DEF Apply
  <2>8. ASSUME NEW t \in Threads, Note(t)
       PROVE  DemandTypes'
    BY <2>8 DEF Note
  <2>9. ASSUME NEW t \in Threads, Request(t)
       PROVE  DemandTypes'
    BY <2>9 DEF Request
  <2>10. ASSUME NEW t \in Threads, Wake(t)
       PROVE  DemandTypes'
    BY <2>10 DEF Wake, AfterLock
  <2>11. ASSUME NEW t \in Threads, EndDelivery(t)
       PROVE  DemandTypes'
    BY <2>11 DEF EndDelivery, WriterFor, AfterLock
  <2>12. ASSUME NEW t \in Threads, NEW s \in Signals,
               NEW L \in SUBSET Signals, Step(t, s, L)
       PROVE  DemandTypes'
    BY <2>12 DEF Step, Begin, WriterFor
  <2>13. ASSUME NEW w \in Writers, Loop(w)
       PROVE  DemandTypes'
    BY <2>13 DEF Loop
  <2>14. ASSUME NEW w \in Writers, Awake(w)
       PROVE  DemandTypes'
    BY <2>14 DEF Awake
  <2>15. ASSUME NEW w \in Writers, Swap(w)
       PROVE  DemandTypes'
    BY <2>15 DEF Swap
  <2>16. ASSUME NEW w \in Writers, Stage(w)
       PROVE  DemandTypes'
    BY <2>16 DEF Stage
  <2>17. ASSUME NEW w \in Writers, Commit(w)
       PROVE  DemandTypes'
    BY <2>17 DEF Commit, Put
  <2>18. ASSUME NEW w \in Writers, BusFails(w)
       PROVE  DemandTypes'
    BY <2>18 DEF BusFails, Put
  <2>19. ASSUME NEW w \in Writers, Failure(w)
       PROVE  DemandTypes'
    BY <2>19 DEF Failure
  <2>20. ASSUME NEW w \in Writers, Written(w)
       PROVE  DemandTypes'
    BY <2>20 DEF Written, States
  <2> QED
    BY <1>2, NextCases, <2>1, <2>2, <2>3, <2>4, <2>5, <2>6, <2>7, <2>8, <2>9, <2>10, <2>11, <2>12, <2>13, <2>14, <2>15, <2>16, <2>17, <2>18, <2>19, <2>20
<1> QED BY <1>1, <1>2

\* Every step keeps the types of the writers' queues, requests and batches.
LEMMA WriterTypesStep ==
    ASSUME TypeOK, [Next]_vars
    PROVE  WriterTypes'
<1> USE BlockingWritesAssumption DEF TypeOK, RigTypes, ThreadTypes, DemandTypes, WriterTypes, DeviceTypes, Threads, rigVars, demandVars, writerVars, deviceVars, Goto, Demands, NoDemand
<1>1. CASE UNCHANGED vars
  BY <1>1 DEF vars
<1>2. CASE Next
  <2>1. ASSUME NEW c \in Clients, Resolve(c)
       PROVE  WriterTypes'
    BY <2>1 DEF Resolve
  <2>2. ASSUME NEW c \in Clients, Refuse(c)
       PROVE  WriterTypes'
    BY <2>2 DEF Refuse
  <2>3. ASSUME NEW c \in Clients, Deliver(c)
       PROVE  WriterTypes'
    BY <2>3 DEF Deliver
  <2>4. ASSUME NEW c \in Clients, Remove(c)
       PROVE  WriterTypes'
    BY <2>4 DEF Remove, StopWriter
  <2>5. ASSUME NEW c \in Clients, StopRig(c)
       PROVE  WriterTypes'
    BY <2>5 DEF StopRig, StopWriter
  <2>6. ASSUME NEW c \in Clients, NEW S \in SUBSET Signals \ {{}},
               NEW L \in SUBSET Signals, Demand(c, S, L)
       PROVE  WriterTypes'
    BY <2>6 DEF Demand, Begin, WriterFor
  <2>7. ASSUME NEW t \in Threads, NEW s \in Signals, Apply(t, s)
       PROVE  WriterTypes'
    BY <2>7 DEF Apply
  <2>8. ASSUME NEW t \in Threads, Note(t)
       PROVE  WriterTypes'
    BY <2>8 DEF Note
  <2>9. ASSUME NEW t \in Threads, Request(t)
       PROVE  WriterTypes'
    BY <2>9 DEF Request
  <2>10. ASSUME NEW t \in Threads, Wake(t)
       PROVE  WriterTypes'
    BY <2>10 DEF Wake, AfterLock
  <2>11. ASSUME NEW t \in Threads, EndDelivery(t)
       PROVE  WriterTypes'
    BY <2>11 DEF EndDelivery, WriterFor, AfterLock
  <2>12. ASSUME NEW t \in Threads, NEW s \in Signals,
               NEW L \in SUBSET Signals, Step(t, s, L)
       PROVE  WriterTypes'
    BY <2>12 DEF Step, Begin, WriterFor
  <2>13. ASSUME NEW w \in Writers, Loop(w)
       PROVE  WriterTypes'
    BY <2>13 DEF Loop
  <2>14. ASSUME NEW w \in Writers, Awake(w)
       PROVE  WriterTypes'
    BY <2>14 DEF Awake
  <2>15. ASSUME NEW w \in Writers, Swap(w)
       PROVE  WriterTypes'
    <3>1. /\ queued' \in [Writers -> [Signals -> Demands]]
          /\ wake' \in [Writers -> BOOLEAN]
          /\ UNCHANGED <<stopping, failed>>
      BY <2>15 DEF Swap
    <3>2. CASE commitAt[w]
      <4>1. taken' \in [Writers -> [Signals -> Demands]]
        <5>1. taken' = [taken EXCEPT ![w] = queued[w]]
          BY <2>15, <3>2 DEF Swap
        <5> QED BY <5>1
      <4>2. commitAt' \in [Writers -> BOOLEAN]
        BY <2>15, <3>2 DEF Swap
      <4>3. late[w] \in Nat /\ late[w] + 1 \in Nat
        OBVIOUS
      <4>4. late' = [late EXCEPT ![w] = IF stopping[w] THEN late[w] + 1 ELSE late[w]]
        BY <2>15, <3>2 DEF Swap
      <4>5. late' \in [Writers -> Nat]
        BY <4>3, <4>4
      <4> QED BY <3>1, <4>1, <4>2, <4>5
    <3>3. CASE ~commitAt[w]
      BY <2>15, <3>1, <3>3 DEF Swap
    <3> QED BY <3>2, <3>3
  <2>16. ASSUME NEW w \in Writers, Stage(w)
       PROVE  WriterTypes'
    BY <2>16 DEF Stage
  <2>17. ASSUME NEW w \in Writers, Commit(w)
       PROVE  WriterTypes'
    BY <2>17 DEF Commit, Put
  <2>18. ASSUME NEW w \in Writers, BusFails(w)
       PROVE  WriterTypes'
    BY <2>18 DEF BusFails, Put
  <2>19. ASSUME NEW w \in Writers, Failure(w)
       PROVE  WriterTypes'
    BY <2>19 DEF Failure
  <2>20. ASSUME NEW w \in Writers, Written(w)
       PROVE  WriterTypes'
    BY <2>20 DEF Written, States
  <2> QED
    BY <1>2, NextCases, <2>1, <2>2, <2>3, <2>4, <2>5, <2>6, <2>7, <2>8, <2>9, <2>10, <2>11, <2>12, <2>13, <2>14, <2>15, <2>16, <2>17, <2>18, <2>19, <2>20
<1> QED BY <1>1, <1>2

\* Every step keeps the types of what is pending, on the bus and reported.
LEMMA DeviceTypesStep ==
    ASSUME TypeOK, [Next]_vars
    PROVE  DeviceTypes'
<1> USE BlockingWritesAssumption DEF TypeOK, RigTypes, ThreadTypes, DemandTypes, WriterTypes, DeviceTypes, Threads, rigVars, demandVars, writerVars, deviceVars, Goto, Demands, NoDemand
<1>1. CASE UNCHANGED vars
  BY <1>1 DEF vars
<1>2. CASE Next
  <2>1. ASSUME NEW c \in Clients, Resolve(c)
       PROVE  DeviceTypes'
    BY <2>1 DEF Resolve
  <2>2. ASSUME NEW c \in Clients, Refuse(c)
       PROVE  DeviceTypes'
    BY <2>2 DEF Refuse
  <2>3. ASSUME NEW c \in Clients, Deliver(c)
       PROVE  DeviceTypes'
    BY <2>3 DEF Deliver
  <2>4. ASSUME NEW c \in Clients, Remove(c)
       PROVE  DeviceTypes'
    BY <2>4 DEF Remove, StopWriter
  <2>5. ASSUME NEW c \in Clients, StopRig(c)
       PROVE  DeviceTypes'
    BY <2>5 DEF StopRig, StopWriter
  <2>6. ASSUME NEW c \in Clients, NEW S \in SUBSET Signals \ {{}},
               NEW L \in SUBSET Signals, Demand(c, S, L)
       PROVE  DeviceTypes'
    BY <2>6 DEF Demand, Begin, WriterFor
  <2>7. ASSUME NEW t \in Threads, NEW s \in Signals, Apply(t, s)
       PROVE  DeviceTypes'
    BY <2>7 DEF Apply
  <2>8. ASSUME NEW t \in Threads, Note(t)
       PROVE  DeviceTypes'
    BY <2>8 DEF Note
  <2>9. ASSUME NEW t \in Threads, Request(t)
       PROVE  DeviceTypes'
    BY <2>9 DEF Request
  <2>10. ASSUME NEW t \in Threads, Wake(t)
       PROVE  DeviceTypes'
    BY <2>10 DEF Wake, AfterLock
  <2>11. ASSUME NEW t \in Threads, EndDelivery(t)
       PROVE  DeviceTypes'
    BY <2>11 DEF EndDelivery, WriterFor, AfterLock
  <2>12. ASSUME NEW t \in Threads, NEW s \in Signals,
               NEW L \in SUBSET Signals, Step(t, s, L)
       PROVE  DeviceTypes'
    BY <2>12 DEF Step, Begin, WriterFor
  <2>13. ASSUME NEW w \in Writers, Loop(w)
       PROVE  DeviceTypes'
    BY <2>13 DEF Loop
  <2>14. ASSUME NEW w \in Writers, Awake(w)
       PROVE  DeviceTypes'
    BY <2>14 DEF Awake
  <2>15. ASSUME NEW w \in Writers, Swap(w)
       PROVE  DeviceTypes'
    BY <2>15 DEF Swap
  <2>16. ASSUME NEW w \in Writers, Stage(w)
       PROVE  DeviceTypes'
    BY <2>16 DEF Stage
  <2>17. ASSUME NEW w \in Writers, Commit(w)
       PROVE  DeviceTypes'
    BY <2>17 DEF Commit, Put
  <2>18. ASSUME NEW w \in Writers, BusFails(w)
       PROVE  DeviceTypes'
    BY <2>18 DEF BusFails, Put
  <2>19. ASSUME NEW w \in Writers, Failure(w)
       PROVE  DeviceTypes'
    BY <2>19 DEF Failure
  <2>20. ASSUME NEW w \in Writers, Written(w)
       PROVE  DeviceTypes'
    BY <2>20 DEF Written, States
  <2> QED
    BY <1>2, NextCases, <2>1, <2>2, <2>3, <2>4, <2>5, <2>6, <2>7, <2>8, <2>9, <2>10, <2>11, <2>12, <2>13, <2>14, <2>15, <2>16, <2>17, <2>18, <2>19, <2>20
<1> QED BY <1>1, <1>2

\* Every variable keeps its type, whatever the threads do.
THEOREM TypeCorrect == Spec => []TypeOK
<1>1. Init => TypeOK
  BY TypeInit
<1>2. TypeOK /\ [Next]_vars => TypeOK'
  BY RigTypesStep, ThreadTypesStep, DemandTypesStep, WriterTypesStep, DeviceTypesStep
     DEF TypeOK
<1> QED BY <1>1, <1>2, PTL DEF Spec

\* Whoever holds the rig lock stays the one whose place says so.
LEMMA LockInvStep ==
    ASSUME IInv, [Next]_vars
    PROVE  LockInv'
<1> USE BlockingWritesAssumption DEF IInv, TypeOK, LockInv, RigTypes, ThreadTypes, Threads, LockedStates, ClientStates, WriterStates, rigVars, demandVars, writerVars, deviceVars, Goto
<1>1. CASE UNCHANGED vars
  BY <1>1 DEF vars
<1>2. CASE Next
  <2>1. ASSUME NEW c \in Clients, Resolve(c)
       PROVE  LockInv'
    BY <2>1 DEF Resolve
  <2>2. ASSUME NEW c \in Clients, Refuse(c)
       PROVE  LockInv'
    BY <2>2 DEF Refuse
  <2>3. ASSUME NEW c \in Clients, Deliver(c)
       PROVE  LockInv'
    BY <2>3 DEF Deliver
  <2>4. ASSUME NEW c \in Clients, Remove(c)
       PROVE  LockInv'
    BY <2>4 DEF Remove, StopWriter
  <2>5. ASSUME NEW c \in Clients, StopRig(c)
       PROVE  LockInv'
    BY <2>5 DEF StopRig, StopWriter
  <2>6. ASSUME NEW c \in Clients, NEW S \in SUBSET Signals \ {{}},
               NEW L \in SUBSET Signals, Demand(c, S, L)
       PROVE  LockInv'
    BY <2>6 DEF Demand, Begin, WriterFor
  <2>7. ASSUME NEW t \in Threads, NEW s \in Signals, Apply(t, s)
       PROVE  LockInv'
    BY <2>7 DEF Apply
  <2>8. ASSUME NEW t \in Threads, Note(t)
       PROVE  LockInv'
    BY <2>8 DEF Note
  <2>9. ASSUME NEW t \in Threads, Request(t)
       PROVE  LockInv'
    BY <2>9 DEF Request
  <2>10. ASSUME NEW t \in Threads, Wake(t)
       PROVE  LockInv'
    BY <2>10 DEF Wake, AfterLock
  <2>11. ASSUME NEW t \in Threads, EndDelivery(t)
       PROVE  LockInv'
    BY <2>11 DEF EndDelivery, WriterFor, AfterLock
  <2>12. ASSUME NEW t \in Threads, NEW s \in Signals,
               NEW L \in SUBSET Signals, Step(t, s, L)
       PROVE  LockInv'
    BY <2>12 DEF Step, Begin, WriterFor
  <2>13. ASSUME NEW w \in Writers, Loop(w)
       PROVE  LockInv'
    BY <2>13 DEF Loop
  <2>14. ASSUME NEW w \in Writers, Awake(w)
       PROVE  LockInv'
    BY <2>14 DEF Awake
  <2>15. ASSUME NEW w \in Writers, Swap(w)
       PROVE  LockInv'
    BY <2>15 DEF Swap
  <2>16. ASSUME NEW w \in Writers, Stage(w)
       PROVE  LockInv'
    BY <2>16 DEF Stage
  <2>17. ASSUME NEW w \in Writers, Commit(w)
       PROVE  LockInv'
    BY <2>17 DEF Commit, Put
  <2>18. ASSUME NEW w \in Writers, BusFails(w)
       PROVE  LockInv'
    BY <2>18 DEF BusFails, Put
  <2>19. ASSUME NEW w \in Writers, Failure(w)
       PROVE  LockInv'
    BY <2>19 DEF Failure
  <2>20. ASSUME NEW w \in Writers, Written(w)
       PROVE  LockInv'
    BY <2>20 DEF Written, States
  <2> QED
    BY <1>2, NextCases, <2>1, <2>2, <2>3, <2>4, <2>5, <2>6, <2>7, <2>8, <2>9, <2>10, <2>11, <2>12, <2>13, <2>14, <2>15, <2>16, <2>17, <2>18, <2>19, <2>20
<1> QED BY <1>1, <1>2

\* A device on the rig keeps its one writer.
LEMMA OneWriterStep ==
    ASSUME IInv, [Next]_vars
    PROVE  OneWriter'
<1> USE BlockingWritesAssumption DEF IInv, TypeOK, OneWriter, RigTypes, ThreadTypes, LockInv, Threads, LockedStates, ClientStates, WriterStates, rigVars, demandVars, writerVars, deviceVars, Goto
<1>1. CASE UNCHANGED vars
  BY <1>1 DEF vars
<1>2. CASE Next
  <2>1. ASSUME NEW c \in Clients, Resolve(c)
       PROVE  OneWriter'
    BY <2>1 DEF Resolve
  <2>2. ASSUME NEW c \in Clients, Refuse(c)
       PROVE  OneWriter'
    BY <2>2 DEF Refuse
  <2>3. ASSUME NEW c \in Clients, Deliver(c)
       PROVE  OneWriter'
    BY <2>3 DEF Deliver
  <2>4. ASSUME NEW c \in Clients, Remove(c)
       PROVE  OneWriter'
    BY <2>4 DEF Remove, StopWriter
  <2>5. ASSUME NEW c \in Clients, StopRig(c)
       PROVE  OneWriter'
    BY <2>5 DEF StopRig, StopWriter
  <2>6. ASSUME NEW c \in Clients, NEW S \in SUBSET Signals \ {{}},
               NEW L \in SUBSET Signals, Demand(c, S, L)
       PROVE  OneWriter'
    BY <2>6 DEF Demand, Begin, WriterFor
  <2>7. ASSUME NEW t \in Threads, NEW s \in Signals, Apply(t, s)
       PROVE  OneWriter'
    BY <2>7 DEF Apply
  <2>8. ASSUME NEW t \in Threads, Note(t)
       PROVE  OneWriter'
    BY <2>8 DEF Note
  <2>9. ASSUME NEW t \in Threads, Request(t)
       PROVE  OneWriter'
    BY <2>9 DEF Request
  <2>10. ASSUME NEW t \in Threads, Wake(t)
       PROVE  OneWriter'
    BY <2>10 DEF Wake, AfterLock
  <2>11. ASSUME NEW t \in Threads, EndDelivery(t)
       PROVE  OneWriter'
    BY <2>11 DEF EndDelivery, WriterFor, AfterLock
  <2>12. ASSUME NEW t \in Threads, NEW s \in Signals,
               NEW L \in SUBSET Signals, Step(t, s, L)
       PROVE  OneWriter'
    BY <2>12 DEF Step, Begin, WriterFor
  <2>13. ASSUME NEW w \in Writers, Loop(w)
       PROVE  OneWriter'
    BY <2>13 DEF Loop
  <2>14. ASSUME NEW w \in Writers, Awake(w)
       PROVE  OneWriter'
    BY <2>14 DEF Awake
  <2>15. ASSUME NEW w \in Writers, Swap(w)
       PROVE  OneWriter'
    BY <2>15 DEF Swap
  <2>16. ASSUME NEW w \in Writers, Stage(w)
       PROVE  OneWriter'
    BY <2>16 DEF Stage
  <2>17. ASSUME NEW w \in Writers, Commit(w)
       PROVE  OneWriter'
    BY <2>17 DEF Commit, Put
  <2>18. ASSUME NEW w \in Writers, BusFails(w)
       PROVE  OneWriter'
    BY <2>18 DEF BusFails, Put
  <2>19. ASSUME NEW w \in Writers, Failure(w)
       PROVE  OneWriter'
    BY <2>19 DEF Failure
  <2>20. ASSUME NEW w \in Writers, Written(w)
       PROVE  OneWriter'
    BY <2>20 DEF Written, States
  <2> QED
    BY <1>2, NextCases, <2>1, <2>2, <2>3, <2>4, <2>5, <2>6, <2>7, <2>8, <2>9, <2>10, <2>11, <2>12, <2>13, <2>14, <2>15, <2>16, <2>17, <2>18, <2>19, <2>20
<1> QED BY <1>1, <1>2

\* No step leaves a request without its wake.
LEMMA NoLostWakeupStep ==
    ASSUME IInv, [Next]_vars
    PROVE  NoLostWakeup'
<1> USE BlockingWritesAssumption DEF IInv, TypeOK, NoLostWakeup, RigTypes, ThreadTypes, WriterTypes, LockInv, Threads, LockedStates, ClientStates, WriterStates, rigVars, demandVars, writerVars, deviceVars, Goto
<1>1. CASE UNCHANGED vars
  BY <1>1 DEF vars
<1>2. CASE Next
  <2>1. ASSUME NEW c \in Clients, Resolve(c)
       PROVE  NoLostWakeup'
    BY <2>1 DEF Resolve
  <2>2. ASSUME NEW c \in Clients, Refuse(c)
       PROVE  NoLostWakeup'
    BY <2>2 DEF Refuse
  <2>3. ASSUME NEW c \in Clients, Deliver(c)
       PROVE  NoLostWakeup'
    BY <2>3 DEF Deliver
  <2>4. ASSUME NEW c \in Clients, Remove(c)
       PROVE  NoLostWakeup'
    BY <2>4 DEF Remove, StopWriter
  <2>5. ASSUME NEW c \in Clients, StopRig(c)
       PROVE  NoLostWakeup'
    BY <2>5 DEF StopRig, StopWriter
  <2>6. ASSUME NEW c \in Clients, NEW S \in SUBSET Signals \ {{}},
               NEW L \in SUBSET Signals, Demand(c, S, L)
       PROVE  NoLostWakeup'
    BY <2>6 DEF Demand, Begin, WriterFor
  <2>7. ASSUME NEW t \in Threads, NEW s \in Signals, Apply(t, s)
       PROVE  NoLostWakeup'
    BY <2>7 DEF Apply
  <2>8. ASSUME NEW t \in Threads, Note(t)
       PROVE  NoLostWakeup'
    BY <2>8 DEF Note
  <2>9. ASSUME NEW t \in Threads, Request(t)
       PROVE  NoLostWakeup'
    BY <2>9 DEF Request
  <2>10. ASSUME NEW t \in Threads, Wake(t)
       PROVE  NoLostWakeup'
    BY <2>10 DEF Wake, AfterLock
  <2>11. ASSUME NEW t \in Threads, EndDelivery(t)
       PROVE  NoLostWakeup'
    BY <2>11 DEF EndDelivery, WriterFor, AfterLock
  <2>12. ASSUME NEW t \in Threads, NEW s \in Signals,
               NEW L \in SUBSET Signals, Step(t, s, L)
       PROVE  NoLostWakeup'
    BY <2>12 DEF Step, Begin, WriterFor
  <2>13. ASSUME NEW w \in Writers, Loop(w)
       PROVE  NoLostWakeup'
    BY <2>13 DEF Loop
  <2>14. ASSUME NEW w \in Writers, Awake(w)
       PROVE  NoLostWakeup'
    BY <2>14 DEF Awake
  <2>15. ASSUME NEW w \in Writers, Swap(w)
       PROVE  NoLostWakeup'
    BY <2>15 DEF Swap
  <2>16. ASSUME NEW w \in Writers, Stage(w)
       PROVE  NoLostWakeup'
    BY <2>16 DEF Stage
  <2>17. ASSUME NEW w \in Writers, Commit(w)
       PROVE  NoLostWakeup'
    BY <2>17 DEF Commit, Put
  <2>18. ASSUME NEW w \in Writers, BusFails(w)
       PROVE  NoLostWakeup'
    BY <2>18 DEF BusFails, Put
  <2>19. ASSUME NEW w \in Writers, Failure(w)
       PROVE  NoLostWakeup'
    BY <2>19 DEF Failure
  <2>20. ASSUME NEW w \in Writers, Written(w)
       PROVE  NoLostWakeup'
    BY <2>20 DEF Written, States
  <2> QED
    BY <1>2, NextCases, <2>1, <2>2, <2>3, <2>4, <2>5, <2>6, <2>7, <2>8, <2>9, <2>10, <2>11, <2>12, <2>13, <2>14, <2>15, <2>16, <2>17, <2>18, <2>19, <2>20
<1> QED BY <1>1, <1>2

\* A stopped writer gets no further than the write it was in.
LEMMA LateInvStep ==
    ASSUME IInv, [Next]_vars
    PROVE  LateInv'
<1> USE BlockingWritesAssumption DEF IInv, TypeOK, LateInv, RigTypes, ThreadTypes, WriterTypes, LockInv, Threads, LockedStates, ClientStates, WriterStates, rigVars, demandVars, writerVars, deviceVars, Goto
<1>1. CASE UNCHANGED vars
  BY <1>1 DEF vars
<1>2. CASE Next
  <2>1. ASSUME NEW c \in Clients, Resolve(c)
       PROVE  LateInv'
    BY <2>1 DEF Resolve
  <2>2. ASSUME NEW c \in Clients, Refuse(c)
       PROVE  LateInv'
    BY <2>2 DEF Refuse
  <2>3. ASSUME NEW c \in Clients, Deliver(c)
       PROVE  LateInv'
    BY <2>3 DEF Deliver
  <2>4. ASSUME NEW c \in Clients, Remove(c)
       PROVE  LateInv'
    BY <2>4 DEF Remove, StopWriter
  <2>5. ASSUME NEW c \in Clients, StopRig(c)
       PROVE  LateInv'
    BY <2>5 DEF StopRig, StopWriter
  <2>6. ASSUME NEW c \in Clients, NEW S \in SUBSET Signals \ {{}},
               NEW L \in SUBSET Signals, Demand(c, S, L)
       PROVE  LateInv'
    BY <2>6 DEF Demand, Begin, WriterFor
  <2>7. ASSUME NEW t \in Threads, NEW s \in Signals, Apply(t, s)
       PROVE  LateInv'
    BY <2>7 DEF Apply
  <2>8. ASSUME NEW t \in Threads, Note(t)
       PROVE  LateInv'
    BY <2>8 DEF Note
  <2>9. ASSUME NEW t \in Threads, Request(t)
       PROVE  LateInv'
    BY <2>9 DEF Request
  <2>10. ASSUME NEW t \in Threads, Wake(t)
       PROVE  LateInv'
    BY <2>10 DEF Wake, AfterLock
  <2>11. ASSUME NEW t \in Threads, EndDelivery(t)
       PROVE  LateInv'
    BY <2>11 DEF EndDelivery, WriterFor, AfterLock
  <2>12. ASSUME NEW t \in Threads, NEW s \in Signals,
               NEW L \in SUBSET Signals, Step(t, s, L)
       PROVE  LateInv'
    BY <2>12 DEF Step, Begin, WriterFor
  <2>13. ASSUME NEW w \in Writers, Loop(w)
       PROVE  LateInv'
    BY <2>13 DEF Loop
  <2>14. ASSUME NEW w \in Writers, Awake(w)
       PROVE  LateInv'
    BY <2>14 DEF Awake
  <2>15. ASSUME NEW w \in Writers, Swap(w)
       PROVE  LateInv'
    BY <2>15 DEF Swap
  <2>16. ASSUME NEW w \in Writers, Stage(w)
       PROVE  LateInv'
    BY <2>16 DEF Stage
  <2>17. ASSUME NEW w \in Writers, Commit(w)
       PROVE  LateInv'
    BY <2>17 DEF Commit, Put
  <2>18. ASSUME NEW w \in Writers, BusFails(w)
       PROVE  LateInv'
    BY <2>18 DEF BusFails, Put
  <2>19. ASSUME NEW w \in Writers, Failure(w)
       PROVE  LateInv'
    BY <2>19 DEF Failure
  <2>20. ASSUME NEW w \in Writers, Written(w)
       PROVE  LateInv'
    BY <2>20 DEF Written, States
  <2> QED
    BY <1>2, NextCases, <2>1, <2>2, <2>3, <2>4, <2>5, <2>6, <2>7, <2>8, <2>9, <2>10, <2>11, <2>12, <2>13, <2>14, <2>15, <2>16, <2>17, <2>18, <2>19, <2>20
<1> QED BY <1>1, <1>2

\* Nothing reaches a queue, the device or the bus that was not demanded.
LEMMA DemandedStep ==
    ASSUME IInv, [Next]_vars
    PROVE  Demanded'
<1> USE BlockingWritesAssumption DEF IInv, TypeOK, Demanded, RigTypes, DemandTypes, WriterTypes, DeviceTypes, LockInv, ThreadTypes, Demands, NoDemand, Threads, LockedStates, rigVars, demandVars, writerVars, deviceVars, Goto
<1>1. CASE UNCHANGED vars
  BY <1>1 DEF vars
<1>2. CASE Next
  <2>1. ASSUME NEW c \in Clients, Resolve(c)
       PROVE  Demanded'
    BY <2>1 DEF Resolve
  <2>2. ASSUME NEW c \in Clients, Refuse(c)
       PROVE  Demanded'
    BY <2>2 DEF Refuse
  <2>3. ASSUME NEW c \in Clients, Deliver(c)
       PROVE  Demanded'
    BY <2>3 DEF Deliver
  <2>4. ASSUME NEW c \in Clients, Remove(c)
       PROVE  Demanded'
    BY <2>4 DEF Remove, StopWriter
  <2>5. ASSUME NEW c \in Clients, StopRig(c)
       PROVE  Demanded'
    BY <2>5 DEF StopRig, StopWriter
  <2>6. ASSUME NEW c \in Clients, NEW S \in SUBSET Signals \ {{}},
               NEW L \in SUBSET Signals, Demand(c, S, L)
       PROVE  Demanded'
    BY <2>6 DEF Demand, Begin, WriterFor
  <2>7. ASSUME NEW t \in Threads, NEW s \in Signals, Apply(t, s)
       PROVE  Demanded'
    BY <2>7 DEF Apply
  <2>8. ASSUME NEW t \in Threads, Note(t)
       PROVE  Demanded'
    BY <2>8 DEF Note
  <2>9. ASSUME NEW t \in Threads, Request(t)
       PROVE  Demanded'
    BY <2>9 DEF Request
  <2>10. ASSUME NEW t \in Threads, Wake(t)
       PROVE  Demanded'
    BY <2>10 DEF Wake, AfterLock
  <2>11. ASSUME NEW t \in Threads, EndDelivery(t)
       PROVE  Demanded'
    BY <2>11 DEF EndDelivery, WriterFor, AfterLock
  <2>12. ASSUME NEW t \in Threads, NEW s \in Signals,
               NEW L \in SUBSET Signals, Step(t, s, L)
       PROVE  Demanded'
    BY <2>12 DEF Step, Begin, WriterFor
  <2>13. ASSUME NEW w \in Writers, Loop(w)
       PROVE  Demanded'
    BY <2>13 DEF Loop
  <2>14. ASSUME NEW w \in Writers, Awake(w)
       PROVE  Demanded'
    BY <2>14 DEF Awake
  <2>15. ASSUME NEW w \in Writers, Swap(w)
       PROVE  Demanded'
    BY <2>15 DEF Swap
  <2>16. ASSUME NEW w \in Writers, Stage(w)
       PROVE  Demanded'
    BY <2>16 DEF Stage
  <2>17. ASSUME NEW w \in Writers, Commit(w)
       PROVE  Demanded'
    BY <2>17 DEF Commit, Put
  <2>18. ASSUME NEW w \in Writers, BusFails(w)
       PROVE  Demanded'
    BY <2>18 DEF BusFails, Put
  <2>19. ASSUME NEW w \in Writers, Failure(w)
       PROVE  Demanded'
    BY <2>19 DEF Failure
  <2>20. ASSUME NEW w \in Writers, Written(w)
       PROVE  Demanded'
    BY <2>20 DEF Written, States
  <2> QED
    BY <1>2, NextCases, <2>1, <2>2, <2>3, <2>4, <2>5, <2>6, <2>7, <2>8, <2>9, <2>10, <2>11, <2>12, <2>13, <2>14, <2>15, <2>16, <2>17, <2>18, <2>19, <2>20
<1> QED BY <1>1, <1>2

\* No step puts an older value behind a newer on the way to the bus.
LEMMA NewerOnTheWayStep ==
    ASSUME IInv, [Next]_vars
    PROVE  NewerOnTheWay'
<1> USE BlockingWritesAssumption DEF IInv, TypeOK, NewerOnTheWay, RigTypes, WriterTypes, DeviceTypes, ThreadTypes, LockInv, OneWriter, Demanded, Demands, NoDemand, Threads, LockedStates, WriterStates, rigVars, demandVars, writerVars, deviceVars, Goto
<1>1. CASE UNCHANGED vars
  BY <1>1 DEF vars
<1>2. CASE Next
  <2>1. ASSUME NEW c \in Clients, Resolve(c)
       PROVE  NewerOnTheWay'
    BY <2>1 DEF Resolve
  <2>2. ASSUME NEW c \in Clients, Refuse(c)
       PROVE  NewerOnTheWay'
    BY <2>2 DEF Refuse
  <2>3. ASSUME NEW c \in Clients, Deliver(c)
       PROVE  NewerOnTheWay'
    BY <2>3 DEF Deliver
  <2>4. ASSUME NEW c \in Clients, Remove(c)
       PROVE  NewerOnTheWay'
    BY <2>4 DEF Remove, StopWriter
  <2>5. ASSUME NEW c \in Clients, StopRig(c)
       PROVE  NewerOnTheWay'
    BY <2>5 DEF StopRig, StopWriter
  <2>6. ASSUME NEW c \in Clients, NEW S \in SUBSET Signals \ {{}},
               NEW L \in SUBSET Signals, Demand(c, S, L)
       PROVE  NewerOnTheWay'
    BY <2>6 DEF Demand, Begin, WriterFor
  <2>7. ASSUME NEW t \in Threads, NEW s \in Signals, Apply(t, s)
       PROVE  NewerOnTheWay'
    <3>1. writerOf \in Writers /\ pc[writerOf] # "unborn" /\ rigLock = t
      BY <2>7 DEF Apply
    <3>2. queued' = [queued EXCEPT ![writerOf] = [queued[writerOf] EXCEPT ![s] = issued]]
      BY <2>7 DEF Apply
    <3>3. /\ demanded[s] < issued
          /\ UNCHANGED <<hardware, pending, taken, onRig>>
          /\ \A w \in Writers : pc'[w] = "unborn" => pc[w] = "unborn"
      BY <2>7 DEF Apply
    <3>4. \A w \in Writers, r \in Signals :
             queued'[w][r] = IF w = writerOf /\ r = s THEN issued ELSE queued[w][r]
      BY <3>1, <3>2
    <3>5. /\ issued \in Nat /\ demanded[s] \in Nat
          /\ hardware[s] < issued /\ pending[s] < issued
          /\ \A w \in Writers : taken[w][s] < issued
      BY <3>3
    <3>6. SUFFICES ASSUME onRig, NEW r \in Signals, NEW w \in Writers
                   PROVE  /\ pending[r] # 0 => hardware[r] <= pending[r]
                          /\ pc'[w] = "unborn" => taken[w][r] = 0 /\ queued'[w][r] = 0
                          /\ taken[w][r] # 0 => hardware[r] <= taken[w][r]
                                                /\ pending[r] <= taken[w][r]
                          /\ queued'[w][r] # 0 => /\ hardware[r] <= queued'[w][r]
                                                  /\ pending[r] <= queued'[w][r]
                                                  /\ taken[w][r] <= queued'[w][r]
      BY <3>3
    <3>7. CASE w = writerOf /\ r = s
      BY <3>1, <3>3, <3>4, <3>5, <3>6, <3>7
    <3>8. CASE ~(w = writerOf /\ r = s)
      BY <3>3, <3>4, <3>6, <3>8
    <3> QED BY <3>7, <3>8
  <2>8. ASSUME NEW t \in Threads, Note(t)
       PROVE  NewerOnTheWay'
    BY <2>8 DEF Note
  <2>9. ASSUME NEW t \in Threads, Request(t)
       PROVE  NewerOnTheWay'
    BY <2>9 DEF Request
  <2>10. ASSUME NEW t \in Threads, Wake(t)
       PROVE  NewerOnTheWay'
    BY <2>10 DEF Wake, AfterLock
  <2>11. ASSUME NEW t \in Threads, EndDelivery(t)
       PROVE  NewerOnTheWay'
    BY <2>11 DEF EndDelivery, WriterFor, AfterLock
  <2>12. ASSUME NEW t \in Threads, NEW s \in Signals,
               NEW L \in SUBSET Signals, Step(t, s, L)
       PROVE  NewerOnTheWay'
    BY <2>12 DEF Step, Begin, WriterFor
  <2>13. ASSUME NEW w \in Writers, Loop(w)
       PROVE  NewerOnTheWay'
    BY <2>13 DEF Loop
  <2>14. ASSUME NEW w \in Writers, Awake(w)
       PROVE  NewerOnTheWay'
    BY <2>14 DEF Awake
  <2>15. ASSUME NEW w \in Writers, Swap(w)
       PROVE  NewerOnTheWay'
    BY <2>15 DEF Swap
  <2>16. ASSUME NEW w \in Writers, Stage(w)
       PROVE  NewerOnTheWay'
    BY <2>16 DEF Stage
  <2>17. ASSUME NEW w \in Writers, Commit(w)
       PROVE  NewerOnTheWay'
    BY <2>17 DEF Commit, Put
  <2>18. ASSUME NEW w \in Writers, BusFails(w)
       PROVE  NewerOnTheWay'
    BY <2>18 DEF BusFails, Put
  <2>19. ASSUME NEW w \in Writers, Failure(w)
       PROVE  NewerOnTheWay'
    BY <2>19 DEF Failure
  <2>20. ASSUME NEW w \in Writers, Written(w)
       PROVE  NewerOnTheWay'
    BY <2>20 DEF Written, States
  <2> QED
    BY <1>2, NextCases, <2>1, <2>2, <2>3, <2>4, <2>5, <2>6, <2>7, <2>8, <2>9, <2>10, <2>11, <2>12, <2>13, <2>14, <2>15, <2>16, <2>17, <2>18, <2>19, <2>20
<1> QED BY <1>1, <1>2

\* What a commit took and has not reported stays on the bus.
LEMMA CommittedIsOnBusStep ==
    ASSUME IInv, [Next]_vars
    PROVE  CommittedIsOnBus'
<1> USE BlockingWritesAssumption DEF IInv, TypeOK, CommittedIsOnBus, RigTypes, WriterTypes, DeviceTypes, ThreadTypes, LockInv, OneWriter, Demands, NoDemand, Threads, LockedStates, WriterStates, rigVars, demandVars, writerVars, deviceVars, Goto
<1>1. CASE UNCHANGED vars
  BY <1>1 DEF vars
<1>2. CASE Next
  <2>1. ASSUME NEW c \in Clients, Resolve(c)
       PROVE  CommittedIsOnBus'
    BY <2>1 DEF Resolve
  <2>2. ASSUME NEW c \in Clients, Refuse(c)
       PROVE  CommittedIsOnBus'
    BY <2>2 DEF Refuse
  <2>3. ASSUME NEW c \in Clients, Deliver(c)
       PROVE  CommittedIsOnBus'
    BY <2>3 DEF Deliver
  <2>4. ASSUME NEW c \in Clients, Remove(c)
       PROVE  CommittedIsOnBus'
    BY <2>4 DEF Remove, StopWriter
  <2>5. ASSUME NEW c \in Clients, StopRig(c)
       PROVE  CommittedIsOnBus'
    BY <2>5 DEF StopRig, StopWriter
  <2>6. ASSUME NEW c \in Clients, NEW S \in SUBSET Signals \ {{}},
               NEW L \in SUBSET Signals, Demand(c, S, L)
       PROVE  CommittedIsOnBus'
    BY <2>6 DEF Demand, Begin, WriterFor
  <2>7. ASSUME NEW t \in Threads, NEW s \in Signals, Apply(t, s)
       PROVE  CommittedIsOnBus'
    BY <2>7 DEF Apply
  <2>8. ASSUME NEW t \in Threads, Note(t)
       PROVE  CommittedIsOnBus'
    BY <2>8 DEF Note
  <2>9. ASSUME NEW t \in Threads, Request(t)
       PROVE  CommittedIsOnBus'
    BY <2>9 DEF Request
  <2>10. ASSUME NEW t \in Threads, Wake(t)
       PROVE  CommittedIsOnBus'
    BY <2>10 DEF Wake, AfterLock
  <2>11. ASSUME NEW t \in Threads, EndDelivery(t)
       PROVE  CommittedIsOnBus'
    BY <2>11 DEF EndDelivery, WriterFor, AfterLock
  <2>12. ASSUME NEW t \in Threads, NEW s \in Signals,
               NEW L \in SUBSET Signals, Step(t, s, L)
       PROVE  CommittedIsOnBus'
    BY <2>12 DEF Step, Begin, WriterFor
  <2>13. ASSUME NEW w \in Writers, Loop(w)
       PROVE  CommittedIsOnBus'
    BY <2>13 DEF Loop
  <2>14. ASSUME NEW w \in Writers, Awake(w)
       PROVE  CommittedIsOnBus'
    BY <2>14 DEF Awake
  <2>15. ASSUME NEW w \in Writers, Swap(w)
       PROVE  CommittedIsOnBus'
    BY <2>15 DEF Swap
  <2>16. ASSUME NEW w \in Writers, Stage(w)
       PROVE  CommittedIsOnBus'
    BY <2>16 DEF Stage
  <2>17. ASSUME NEW w \in Writers, Commit(w)
       PROVE  CommittedIsOnBus'
    BY <2>17 DEF Commit, Put
  <2>18. ASSUME NEW w \in Writers, BusFails(w)
       PROVE  CommittedIsOnBus'
    BY <2>18 DEF BusFails, Put
  <2>19. ASSUME NEW w \in Writers, Failure(w)
       PROVE  CommittedIsOnBus'
    BY <2>19 DEF Failure
  <2>20. ASSUME NEW w \in Writers, Written(w)
       PROVE  CommittedIsOnBus'
    BY <2>20 DEF Written, States
  <2> QED
    BY <1>2, NextCases, <2>1, <2>2, <2>3, <2>4, <2>5, <2>6, <2>7, <2>8, <2>9, <2>10, <2>11, <2>12, <2>13, <2>14, <2>15, <2>16, <2>17, <2>18, <2>19, <2>20
<1> QED BY <1>1, <1>2

\* The invariant holds when the rig starts.
LEMMA InvariantInit == Init => IInv
<1> SUFFICES ASSUME Init PROVE IInv
  OBVIOUS
<1>1. TypeOK
  BY TypeInit
<1>2. LockInv /\ OneWriter /\ NoLostWakeup /\ LateInv
  BY BlockingWritesAssumption
     DEF Init, LockInv, OneWriter, NoLostWakeup, LateInv, Threads, LockedStates
<1>3. Demanded /\ NewerOnTheWay /\ CommittedIsOnBus
  BY DEF Init, Demanded, NewerOnTheWay, CommittedIsOnBus, NoDemand
<1> QED BY <1>1, <1>2, <1>3 DEF IInv

\* Every step of the rig, its writers and its device keeps the invariant.
LEMMA InvariantStep == IInv /\ [Next]_vars => IInv'
<1> SUFFICES ASSUME IInv, [Next]_vars PROVE IInv'
  OBVIOUS
<1>1. TypeOK'
  BY RigTypesStep, ThreadTypesStep, DemandTypesStep, WriterTypesStep, DeviceTypesStep
     DEF IInv, TypeOK
<1> QED BY <1>1, LockInvStep, OneWriterStep, NoLostWakeupStep, LateInvStep,
           DemandedStep, NewerOnTheWayStep, CommittedIsOnBusStep DEF IInv

\* The inductive invariant: lock ownership, a single writer while the device
\* is on the rig, and the order of the values between queue and bus.
THEOREM Invariance == Spec => []IInv
BY InvariantInit, InvariantStep, PTL DEF Spec

\* No request for a commit is ever left without a wake that will be seen.
THEOREM WakeupNotLost == Spec => []NoLostWakeup
<1>1. IInv => NoLostWakeup
  BY DEF IInv
<1> QED BY <1>1, Invariance, PTL

\* A writer that was stopped begins one more commit at most.
THEOREM LateWriteBounded == Spec => []AtMostOneLateWrite
<1>1. IInv => AtMostOneLateWrite
  BY DEF IInv, LateInv, AtMostOneLateWrite
<1> QED BY <1>1, Invariance, PTL

\* A step that reports a write reports what is on the bus.
LEMMA ReportStep ==
    ASSUME IInv, Next, NEW s \in Signals, written'[s] # written[s]
    PROVE  onRig /\ written'[s].value = hardware[s]
<1>1. PICK w \in Writers : Written(w)
  <2> USE DEF IInv, TypeOK, DeviceTypes, rigVars, demandVars, writerVars, deviceVars
  <2> QED BY NextCases DEF Resolve, Refuse, Deliver, Remove, StopRig, Demand, Apply,
             Note, Request, Wake, EndDelivery, Step, Loop, Awake, Swap, Stage,
             Commit, BusFails, Failure
<1>2. onRig /\ pending[s] # 0 /\ written'[s].value = pending[s]
  BY <1>1 DEF Written, States, IInv, TypeOK, DeviceTypes
<1>3. pending[s] \in {0, hardware[s]}
  BY <1>1, <1>2 DEF Written, IInv, CommittedIsOnBus
<1> QED BY <1>2, <1>3

\* A write state is published for a device of the rig only, and says what the
\* bus holds.
THEOREM ReportsAreOnBus == Spec => ReportedIsOnBus
<1>1. IInv /\ [Next]_vars => [\A s \in Signals :
         written'[s] # written[s] => onRig /\ written'[s].value = hardware[s]]_vars
  BY ReportStep
<1> QED BY <1>1, Invariance, PTL DEF Spec, ReportedIsOnBus

\* A commit that clears a device's failure leaves pending only what is on the bus.
LEMMA OutageStep ==
    ASSUME IInv, Next, NEW w \in Writers, failed[w], ~failed'[w], NEW s \in Signals
    PROVE  pending'[s] \in {0, hardware'[s]}
<1>1. PICK v \in Writers : Commit(v)
  <2> USE DEF IInv, TypeOK, WriterTypes, rigVars, demandVars, writerVars, deviceVars
  <2> QED BY NextCases DEF Resolve, Refuse, Deliver, Remove, StopRig, Demand, Apply,
             Note, Request, Wake, EndDelivery, Step, Loop, Awake, Swap, Stage,
             BusFails, Failure, Written
<1> QED BY <1>1 DEF Commit, Put, IInv, TypeOK, DeviceTypes

\* The write_failed condition is cleared only by a commit that put everything
\* pending on the bus.
THEOREM OutagesEndOnBus == Spec => OutageEndsOnBus
<1>1. IInv /\ [Next]_vars => [\A w \in Writers : failed[w] /\ ~failed'[w] =>
         \A s \in Signals : pending'[s] \in {0, hardware'[s]}]_vars
  BY OutageStep
<1> QED BY <1>1, Invariance, PTL DEF Spec, OutageEndsOnBus

\* A step is a step of the register: queueing a value demands it, a commit
\* writes, whether it succeeds or not; everything else the register does not
\* see.
LEMMA RegisterStep ==
    ASSUME IInv, IInv', [Next]_vars
    PROVE  [Register!Next]_(Register!regVars)
<1> USE DEF Register!regVars
<1>1. CASE UNCHANGED vars
  BY <1>1 DEF vars, rigVars, deviceVars
<1>2. CASE Next
  <2>1. ASSUME NEW t \in Threads, NEW s \in Signals, Apply(t, s)
        PROVE  Register!Demand
    <3>1. demanded' = [demanded EXCEPT ![s] = issued] /\ UNCHANGED <<hardware, onRig>>
      BY <2>1 DEF Apply, deviceVars
    <3>2. demanded[s] < issued
      BY <2>1 DEF Apply, IInv, Demanded
    <3>3. demanded \in [Signals -> Nat] /\ issued \in Nat
      BY BlockingWritesAssumption DEF IInv, TypeOK, RigTypes, Demands
    <3> QED BY <3>1, <3>2, <3>3 DEF Register!Demand
  <2>2. ASSUME NEW w \in Writers, NEW S \in SUBSET Signals, Put(S),
               UNCHANGED <<demanded, onRig, pending>>
        PROVE  Register!Write \/ Register!LateWrite
    <3>1. /\ hardware' \in [Signals -> Nat]
          /\ \A s \in Signals : hardware'[s] <= demanded[s]
      BY <2>2, BlockingWritesAssumption
         DEF Put, IInv, TypeOK, DeviceTypes, Demands, Demanded
    <3>2. ASSUME onRig, NEW s \in Signals PROVE hardware[s] <= hardware'[s]
      BY <2>2, <3>2, BlockingWritesAssumption
         DEF Put, IInv, TypeOK, DeviceTypes, Demands, NewerOnTheWay
    <3>3. onRig \in BOOLEAN
      BY DEF IInv, TypeOK, RigTypes
    <3> QED BY <2>2, <3>1, <3>2, <3>3 DEF Register!Write, Register!LateWrite
  <2>3. ASSUME NEW w \in Writers, Commit(w)
        PROVE  Register!Write \/ Register!LateWrite
    BY <2>2, <2>3 DEF Commit, rigVars
  <2>4. ASSUME NEW w \in Writers, BusFails(w)
        PROVE  Register!Write \/ Register!LateWrite
    BY <2>2, <2>4 DEF BusFails, rigVars
  <2>5. ASSUME NEW c \in Clients, Remove(c)
        PROVE  Register!Remove
    BY <2>5 DEF Remove, deviceVars, Register!Remove
  <2>6. CASE UNCHANGED <<demanded, hardware, onRig>>
    BY <2>6
  <2> USE DEF rigVars, deviceVars
  <2> QED
    BY <1>2, NextCases, <2>1, <2>3, <2>4, <2>5, <2>6
       DEF Resolve, Refuse, Deliver, StopRig, Demand, Note, Request, Wake,
           EndDelivery, Step, Loop, Awake, Swap, Stage, Failure, Written,
           Register!Next
<1> QED BY <1>1, <1>2

\* The threads, the queue and the bus together implement a register per
\* signal in which the newest value wins, as long as the device is on the rig.
THEOREM ImplementsRegister == Spec => NewestWins
<1>1. Init => Register!Init
  BY DEF Init, Register!Init, NoDemand
<1>2. IInv /\ IInv' /\ [Next]_vars => [Register!Next]_(Register!regVars)
  BY RegisterStep
<1> QED BY <1>1, <1>2, Invariance, PTL DEF Spec, NewestWins, Register!Spec
=============================================================================
