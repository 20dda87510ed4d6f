-------------------------- MODULE RecordingProofs --------------------------
(***************************************************************************)
(* Proofs about Recording, for any callers, sources and emitters and any   *)
(* bounds on sessions and rows.                                            *)
(***************************************************************************)
EXTENDS Recording, TLAPS

\* The sorts of step Next takes, one by one.
LEMMA NextCases ==
    ASSUME Next
    PROVE  \/ \E s \in Sources : Read(s) \/ Deliver(s)
           \/ \E e \in Emitters : Report(e) \/ Unwind(e)
           \/ \E x \in Reporters : Reread(x) \/ Append(x)
           \/ \E r \in Recorders : \/ Wake(r) \/ Take(r) \/ Written(r) \/ FlushFails(r)
                                   \/ Detach(r) \/ ReportFailure(r) \/ EndFailed(r)
           \/ \E c \in Callers : \/ Start(c) \/ Stop(c) \/ Notify(c) \/ Enter(c)
                                 \/ Join(c) \/ LastFlush(c) \/ LastWrite(c)
                                 \/ LastWriteFails(c) \/ End(c) \/ EndFails(c)
                                 \/ OpenSession(c) \/ OpenFails(c)
                                 \/ Declare(c) \/ DeclareFails(c)
BY DEF Next, EmitterStep, ReportStep, RecorderStep, CallerStep

\* The inductive invariant holds at first.
LEMMA InitInv == Init => IInv
BY RecordingAssumption DEF Init, IInv, TypeOK, StoreTypes, RecorderTypes, RowTypes, ActorTypes,
   Recorders, Rows, Reporters, ThreadStates, LockedSteps, Steps, LockInv, BirthInv, UseInv,
   FailureInv, RowInv, RowsSoFar, FlushInv, ClosedInv, HandedInv, EndsComplete, WrittenInOrder, RowsOnce, Unwritten, Deliveries, InUse,
   Closing, Opening

\* Buffering a row keeps the types.
LEMMA BufferedTypes ==
    ASSUME TypeOK, NEW r \in Recorders, NEW b \in BOOLEAN, Buffered(r, b)
    PROVE  rows' \in 0..MaxRows /\ buffer' \in [Recorders -> SUBSET Rows]
           /\ events' \in SUBSET Rows
<1> USE RecordingAssumption DEF TypeOK, RowTypes, Rows, Recorders
<1>1. CASE rows < MaxRows
  <2>1. rows' = rows + 1 /\ rows' \in Rows /\ rows' \in 0..MaxRows
    BY <1>1 DEF Buffered
  <2>2. buffer' = [buffer EXCEPT ![r] = @ \cup {rows'}]
    BY <1>1 DEF Buffered
  <2>3. events' \in {events, events \cup {rows'}}
    BY <1>1 DEF Buffered
  <2> QED BY <2>1, <2>2, <2>3
<1>2. CASE ~(rows < MaxRows)
  BY <1>2 DEF Buffered
<1> QED BY <1>1, <1>2

\* A failed write keeps the types.
LEMMA WriteFailsTypes ==
    ASSUME TypeOK, NEW r, WriteFails(r)
    PROVE  stored' \in [Recorders -> SUBSET Rows] /\ taken' \in [Recorders -> SUBSET Rows]
<1> USE DEF TypeOK, RowTypes
<1>1. taken' = [taken EXCEPT ![r] = {}]
  BY DEF WriteFails
<1>2. stored' = stored \/ stored' = [stored EXCEPT ![r] = stored[r] \cup taken[r]]
  BY DEF WriteFails
<1>3. CASE r \in Recorders
  BY <1>1, <1>2, <1>3
<1>4. CASE r \notin Recorders
  BY <1>1, <1>2, <1>4
<1> QED BY <1>3, <1>4

\* A recorder whose thread has just failed is the one attached, if the rig lock
\* is free.
LEMMA FailingIsAttached ==
    ASSUME IInv, NEW r \in Recorders, thread[r] = "failing", rigLock = None
    PROVE  attached = r
<1>1. LockInv /\ UseInv /\ None \notin Callers /\ r # None
  BY RecordingAssumption DEF IInv, Recorders
<1>2. InUse(r)
  BY <1>1 DEF UseInv
<1>3. \A c \in Callers : step[c] \notin LockedSteps
  BY <1>1 DEF LockInv
<1>4. ~Closing(r)
  BY <1>1, <1>3 DEF Closing, LockInv, LockedSteps
<1>5. ~Opening(r)
  BY <1>3 DEF Opening, LockedSteps
<1> QED BY <1>2, <1>4, <1>5 DEF InUse

\* Every step keeps this part of the invariant.
LEMMA StoreTypesStep ==
    ASSUME IInv, [Next]_vars
    PROVE  StoreTypes'
<1> USE RecordingAssumption DEF Recorders, Rows, Reporters, ThreadStates, LockedSteps, Steps, TypeOK, StoreTypes, RecorderTypes, RowTypes, ActorTypes, IInv, BirthInv, slotVars, storeVars, threadVars, rowVars, reportVars, callVars
<1>1. CASE UNCHANGED vars
  BY <1>1 DEF vars
<1>2. CASE Next
  <2>1. ASSUME NEW s \in Sources, Read(s)
       PROVE  StoreTypes'
    BY <2>1 DEF Read
  <2>2. ASSUME NEW s \in Sources, Deliver(s)
       PROVE  StoreTypes'
    BY <2>2 DEF Deliver, Buffered
  <2>3. ASSUME NEW e \in Emitters, Report(e)
       PROVE  StoreTypes'
    BY <2>3 DEF Report
  <2>4. ASSUME NEW e \in Emitters, Unwind(e)
       PROVE  StoreTypes'
    BY <2>4 DEF Unwind
  <2>5. ASSUME NEW x \in Reporters, Reread(x)
       PROVE  StoreTypes'
    BY <2>5 DEF Reread
  <2>6. ASSUME NEW x \in Reporters, Append(x)
       PROVE  StoreTypes'
    BY <2>6 DEF Append, Buffered
  <2>7. ASSUME NEW r \in Recorders, Wake(r)
       PROVE  StoreTypes'
    BY <2>7 DEF Wake, Goto
  <2>8. ASSUME NEW r \in Recorders, Take(r)
       PROVE  StoreTypes'
    BY <2>8 DEF Take, Swap, Goto
  <2>9. ASSUME NEW r \in Recorders, Written(r)
       PROVE  StoreTypes'
    BY <2>9 DEF Written, Write, Goto
  <2>10. ASSUME NEW r \in Recorders, FlushFails(r)
       PROVE  StoreTypes'
    BY <2>10 DEF FlushFails, WriteFails, Goto
  <2>11. ASSUME NEW r \in Recorders, Detach(r)
       PROVE  StoreTypes'
    BY <2>11 DEF Detach, Goto
  <2>12. ASSUME NEW r \in Recorders, ReportFailure(r)
       PROVE  StoreTypes'
    BY <2>12 DEF ReportFailure, Goto
  <2>13. ASSUME NEW r \in Recorders, EndFailed(r)
       PROVE  StoreTypes'
    <3>1. /\ \/ session' = [session EXCEPT ![detached[r]] = "ended"]
             \/ session' = session
          /\ UNCHANGED <<rigLock, attached, opened, kind>>
      BY <2>13 DEF EndFailed, EndSession
    <3>2. session' \in [Recorders -> {"none", "open", "ended"}]
      BY <3>1
    <3> QED BY <3>1, <3>2
  <2>14. ASSUME NEW c \in Callers, Start(c)
       PROVE  StoreTypes'
    BY <2>14 DEF Start, Call, At
  <2>15. ASSUME NEW c \in Callers, Stop(c)
       PROVE  StoreTypes'
    BY <2>15 DEF Stop, Call, At
  <2>16. ASSUME NEW c \in Callers, Notify(c)
       PROVE  StoreTypes'
    BY <2>16 DEF Notify, At
  <2>17. ASSUME NEW c \in Callers, Enter(c)
       PROVE  StoreTypes'
    BY <2>17 DEF Enter, At
  <2>18. ASSUME NEW c \in Callers, Join(c)
       PROVE  StoreTypes'
    BY <2>18 DEF Join, At
  <2>19. ASSUME NEW c \in Callers, LastFlush(c)
       PROVE  StoreTypes'
    BY <2>19 DEF LastFlush, Swap, At
  <2>20. ASSUME NEW c \in Callers, LastWrite(c)
       PROVE  StoreTypes'
    BY <2>20 DEF LastWrite, Write, At
  <2>21. ASSUME NEW c \in Callers, LastWriteFails(c)
       PROVE  StoreTypes'
    BY <2>21 DEF LastWriteFails, WriteFails, Leave, At
  <2>22. ASSUME NEW c \in Callers, End(c)
       PROVE  StoreTypes'
    BY <2>22 DEF End, EndSession, At
  <2>23. ASSUME NEW c \in Callers, EndFails(c)
       PROVE  StoreTypes'
    BY <2>23 DEF EndFails, Leave, At
  <2>24. ASSUME NEW c \in Callers, OpenSession(c)
       PROVE  StoreTypes'
    BY <2>24 DEF OpenSession, At
  <2>25. ASSUME NEW c \in Callers, OpenFails(c)
       PROVE  StoreTypes'
    BY <2>25 DEF OpenFails, Leave, At
  <2>26. ASSUME NEW c \in Callers, Declare(c)
       PROVE  StoreTypes'
    BY <2>26 DEF Declare, Leave, At, Goto
  <2>27. ASSUME NEW c \in Callers, DeclareFails(c)
       PROVE  StoreTypes'
    BY <2>27 DEF DeclareFails, Leave, At
  <2> QED
    BY <1>2, NextCases, <2>1, <2>2, <2>3, <2>4, <2>5, <2>6, <2>7, <2>8, <2>9,
       <2>10, <2>11, <2>12, <2>13, <2>14, <2>15, <2>16, <2>17, <2>18,
       <2>19, <2>20, <2>21, <2>22, <2>23, <2>24, <2>25, <2>26, <2>27
<1> QED BY <1>1, <1>2

\* Every step keeps this part of the invariant.
LEMMA RecorderTypesStep ==
    ASSUME TypeOK, [Next]_vars
    PROVE  RecorderTypes'
<1> USE RecordingAssumption DEF Recorders, Rows, Reporters, ThreadStates, LockedSteps, Steps, TypeOK, StoreTypes, RecorderTypes, RowTypes, ActorTypes, slotVars, storeVars, threadVars, rowVars, reportVars, callVars
<1>1. CASE UNCHANGED vars
  BY <1>1 DEF vars
<1>2. CASE Next
  <2>1. ASSUME NEW s \in Sources, Read(s)
       PROVE  RecorderTypes'
    BY <2>1 DEF Read
  <2>2. ASSUME NEW s \in Sources, Deliver(s)
       PROVE  RecorderTypes'
    BY <2>2 DEF Deliver, Buffered
  <2>3. ASSUME NEW e \in Emitters, Report(e)
       PROVE  RecorderTypes'
    BY <2>3 DEF Report
  <2>4. ASSUME NEW e \in Emitters, Unwind(e)
       PROVE  RecorderTypes'
    BY <2>4 DEF Unwind
  <2>5. ASSUME NEW x \in Reporters, Reread(x)
       PROVE  RecorderTypes'
    BY <2>5 DEF Reread
  <2>6. ASSUME NEW x \in Reporters, Append(x)
       PROVE  RecorderTypes'
    BY <2>6 DEF Append, Buffered
  <2>7. ASSUME NEW r \in Recorders, Wake(r)
       PROVE  RecorderTypes'
    BY <2>7 DEF Wake, Goto
  <2>8. ASSUME NEW r \in Recorders, Take(r)
       PROVE  RecorderTypes'
    BY <2>8 DEF Take, Swap, Goto
  <2>9. ASSUME NEW r \in Recorders, Written(r)
       PROVE  RecorderTypes'
    BY <2>9 DEF Written, Write, Goto
  <2>10. ASSUME NEW r \in Recorders, FlushFails(r)
       PROVE  RecorderTypes'
    BY <2>10 DEF FlushFails, WriteFails, Goto
  <2>11. ASSUME NEW r \in Recorders, Detach(r)
       PROVE  RecorderTypes'
    BY <2>11 DEF Detach, Goto
  <2>12. ASSUME NEW r \in Recorders, ReportFailure(r)
       PROVE  RecorderTypes'
    BY <2>12 DEF ReportFailure, Goto
  <2>13. ASSUME NEW r \in Recorders, EndFailed(r)
       PROVE  RecorderTypes'
    BY <2>13 DEF EndFailed, EndSession, Goto
  <2>14. ASSUME NEW c \in Callers, Start(c)
       PROVE  RecorderTypes'
    BY <2>14 DEF Start, Call, At
  <2>15. ASSUME NEW c \in Callers, Stop(c)
       PROVE  RecorderTypes'
    BY <2>15 DEF Stop, Call, At
  <2>16. ASSUME NEW c \in Callers, Notify(c)
       PROVE  RecorderTypes'
    BY <2>16 DEF Notify, At
  <2>17. ASSUME NEW c \in Callers, Enter(c)
       PROVE  RecorderTypes'
    BY <2>17 DEF Enter, At
  <2>18. ASSUME NEW c \in Callers, Join(c)
       PROVE  RecorderTypes'
    BY <2>18 DEF Join, At
  <2>19. ASSUME NEW c \in Callers, LastFlush(c)
       PROVE  RecorderTypes'
    BY <2>19 DEF LastFlush, Swap, At
  <2>20. ASSUME NEW c \in Callers, LastWrite(c)
       PROVE  RecorderTypes'
    BY <2>20 DEF LastWrite, Write, At
  <2>21. ASSUME NEW c \in Callers, LastWriteFails(c)
       PROVE  RecorderTypes'
    BY <2>21 DEF LastWriteFails, WriteFails, Leave, At
  <2>22. ASSUME NEW c \in Callers, End(c)
       PROVE  RecorderTypes'
    BY <2>22 DEF End, EndSession, At
  <2>23. ASSUME NEW c \in Callers, EndFails(c)
       PROVE  RecorderTypes'
    BY <2>23 DEF EndFails, Leave, At
  <2>24. ASSUME NEW c \in Callers, OpenSession(c)
       PROVE  RecorderTypes'
    BY <2>24 DEF OpenSession, At
  <2>25. ASSUME NEW c \in Callers, OpenFails(c)
       PROVE  RecorderTypes'
    BY <2>25 DEF OpenFails, Leave, At
  <2>26. ASSUME NEW c \in Callers, Declare(c)
       PROVE  RecorderTypes'
    BY <2>26 DEF Declare, Leave, At, Goto
  <2>27. ASSUME NEW c \in Callers, DeclareFails(c)
       PROVE  RecorderTypes'
    BY <2>27 DEF DeclareFails, Leave, At
  <2> QED
    BY <1>2, NextCases, <2>1, <2>2, <2>3, <2>4, <2>5, <2>6, <2>7, <2>8, <2>9,
       <2>10, <2>11, <2>12, <2>13, <2>14, <2>15, <2>16, <2>17, <2>18,
       <2>19, <2>20, <2>21, <2>22, <2>23, <2>24, <2>25, <2>26, <2>27
<1> QED BY <1>1, <1>2

\* Every step keeps this part of the invariant.
LEMMA RowTypesStep ==
    ASSUME IInv, TypeOK, [Next]_vars
    PROVE  RowTypes'
<1> USE RecordingAssumption DEF Recorders, Rows, Reporters, ThreadStates, LockedSteps, Steps, TypeOK, StoreTypes, RecorderTypes, RowTypes, ActorTypes, slotVars, storeVars, threadVars, rowVars, reportVars, callVars
<1>1. CASE UNCHANGED vars
  BY <1>1 DEF vars
<1>2. CASE Next
  <2>1. ASSUME NEW s \in Sources, Read(s)
       PROVE  RowTypes'
    BY <2>1 DEF Read
  <2>2. ASSUME NEW s \in Sources, Deliver(s)
       PROVE  RowTypes'
    <3>1. CASE attached \in {r \in Recorders : ~failed[r]}
      <4>1. Buffered(attached, FALSE) /\ UNCHANGED <<taken, stored>>
        BY <2>2, <3>1 DEF Deliver
      <4> QED BY <4>1, <3>1, BufferedTypes
    <3>2. CASE attached \notin {r \in Recorders : ~failed[r]}
      BY <2>2, <3>2 DEF Deliver
    <3> QED BY <3>1, <3>2
  <2>3. ASSUME NEW e \in Emitters, Report(e)
       PROVE  RowTypes'
    BY <2>3 DEF Report
  <2>4. ASSUME NEW e \in Emitters, Unwind(e)
       PROVE  RowTypes'
    BY <2>4 DEF Unwind
  <2>5. ASSUME NEW x \in Reporters, Reread(x)
       PROVE  RowTypes'
    BY <2>5 DEF Reread
  <2>6. ASSUME NEW x \in Reporters, Append(x)
       PROVE  RowTypes'
    <3>1. Buffered(target[x], TRUE) /\ UNCHANGED <<taken, stored>>
      BY <2>6 DEF Append
    <3>2. target[x] \in Recorders
      BY <2>6 DEF Append, IInv, RowInv, HandedInv
    <3> QED BY <3>1, <3>2, BufferedTypes
  <2>7. ASSUME NEW r \in Recorders, Wake(r)
       PROVE  RowTypes'
    BY <2>7 DEF Wake, Goto
  <2>8. ASSUME NEW r \in Recorders, Take(r)
       PROVE  RowTypes'
    BY <2>8 DEF Take, Swap, Goto
  <2>9. ASSUME NEW r \in Recorders, Written(r)
       PROVE  RowTypes'
    BY <2>9 DEF Written, Write, Goto
  <2>10. ASSUME NEW r \in Recorders, FlushFails(r)
       PROVE  RowTypes'
    BY <2>10 DEF FlushFails, WriteFails, Goto
  <2>11. ASSUME NEW r \in Recorders, Detach(r)
       PROVE  RowTypes'
    BY <2>11 DEF Detach, Goto
  <2>12. ASSUME NEW r \in Recorders, ReportFailure(r)
       PROVE  RowTypes'
    BY <2>12 DEF ReportFailure, Goto
  <2>13. ASSUME NEW r \in Recorders, EndFailed(r)
       PROVE  RowTypes'
    BY <2>13 DEF EndFailed, EndSession, Goto
  <2>14. ASSUME NEW c \in Callers, Start(c)
       PROVE  RowTypes'
    BY <2>14 DEF Start, Call, At
  <2>15. ASSUME NEW c \in Callers, Stop(c)
       PROVE  RowTypes'
    BY <2>15 DEF Stop, Call, At
  <2>16. ASSUME NEW c \in Callers, Notify(c)
       PROVE  RowTypes'
    BY <2>16 DEF Notify, At
  <2>17. ASSUME NEW c \in Callers, Enter(c)
       PROVE  RowTypes'
    BY <2>17 DEF Enter, At
  <2>18. ASSUME NEW c \in Callers, Join(c)
       PROVE  RowTypes'
    BY <2>18 DEF Join, At
  <2>19. ASSUME NEW c \in Callers, LastFlush(c)
       PROVE  RowTypes'
    BY <2>19 DEF LastFlush, Swap, At
  <2>20. ASSUME NEW c \in Callers, LastWrite(c)
       PROVE  RowTypes'
    BY <2>20 DEF LastWrite, Write, At
  <2>21. ASSUME NEW c \in Callers, LastWriteFails(c)
       PROVE  RowTypes'
    <3>1. WriteFails(closing[c]) /\ UNCHANGED <<buffer, rows, events>>
      BY <2>21 DEF LastWriteFails
    <3> QED BY <3>1, WriteFailsTypes
  <2>22. ASSUME NEW c \in Callers, End(c)
       PROVE  RowTypes'
    BY <2>22 DEF End, EndSession, At
  <2>23. ASSUME NEW c \in Callers, EndFails(c)
       PROVE  RowTypes'
    BY <2>23 DEF EndFails, Leave, At
  <2>24. ASSUME NEW c \in Callers, OpenSession(c)
       PROVE  RowTypes'
    BY <2>24 DEF OpenSession, At
  <2>25. ASSUME NEW c \in Callers, OpenFails(c)
       PROVE  RowTypes'
    BY <2>25 DEF OpenFails, Leave, At
  <2>26. ASSUME NEW c \in Callers, Declare(c)
       PROVE  RowTypes'
    BY <2>26 DEF Declare, Leave, At, Goto
  <2>27. ASSUME NEW c \in Callers, DeclareFails(c)
       PROVE  RowTypes'
    BY <2>27 DEF DeclareFails, Leave, At
  <2> QED
    BY <1>2, NextCases, <2>1, <2>2, <2>3, <2>4, <2>5, <2>6, <2>7, <2>8, <2>9,
       <2>10, <2>11, <2>12, <2>13, <2>14, <2>15, <2>16, <2>17, <2>18,
       <2>19, <2>20, <2>21, <2>22, <2>23, <2>24, <2>25, <2>26, <2>27
<1> QED BY <1>1, <1>2

\* Every step keeps this part of the invariant.
LEMMA ActorTypesStep ==
    ASSUME TypeOK, [Next]_vars
    PROVE  ActorTypes'
<1> USE RecordingAssumption DEF Recorders, Rows, Reporters, ThreadStates, LockedSteps, Steps, TypeOK, StoreTypes, RecorderTypes, RowTypes, ActorTypes, slotVars, storeVars, threadVars, rowVars, reportVars, callVars
<1>1. CASE UNCHANGED vars
  BY <1>1 DEF vars
<1>2. CASE Next
  <2>1. ASSUME NEW s \in Sources, Read(s)
       PROVE  ActorTypes'
    BY <2>1 DEF Read
  <2>2. ASSUME NEW s \in Sources, Deliver(s)
       PROVE  ActorTypes'
    BY <2>2 DEF Deliver, Buffered
  <2>3. ASSUME NEW e \in Emitters, Report(e)
       PROVE  ActorTypes'
    BY <2>3 DEF Report
  <2>4. ASSUME NEW e \in Emitters, Unwind(e)
       PROVE  ActorTypes'
    BY <2>4 DEF Unwind
  <2>5. ASSUME NEW x \in Reporters, Reread(x)
       PROVE  ActorTypes'
    <3>1. UNCHANGED <<due, step, wanted, closing>> /\ x \in Reporters
      BY <2>5 DEF Reread
    <3>2. CASE attached \in {r \in Recorders : ~failed[r]}
      <4>1. /\ reporting' = [reporting EXCEPT ![x] = "append"]
            /\ target' = [target EXCEPT ![x] = attached]
        BY <2>5, <3>2 DEF Reread
      <4>2. reporting' \in [Reporters -> {"idle", "asked", "append", "raised"}]
        BY <4>1
      <4>3. attached \in Recorders
        BY <3>2
      <4>4. target' \in [Reporters -> Recorders \cup {None}]
        BY <4>1, <4>3
      <4> QED BY <3>1, <4>2, <4>4
    <3>3. CASE attached \notin {r \in Recorders : ~failed[r]}
      <4>1. /\ \/ reporting' = [reporting EXCEPT ![x] = "raised"]
               \/ reporting' = [reporting EXCEPT ![x] = "idle"]
            /\ target' = target
        BY <2>5, <3>3 DEF Reread
      <4>2. reporting' \in [Reporters -> {"idle", "asked", "append", "raised"}]
        BY <4>1
      <4> QED BY <3>1, <4>1, <4>2
    <3> QED BY <3>2, <3>3
  <2>6. ASSUME NEW x \in Reporters, Append(x)
       PROVE  ActorTypes'
    BY <2>6 DEF Append, Buffered
  <2>7. ASSUME NEW r \in Recorders, Wake(r)
       PROVE  ActorTypes'
    BY <2>7 DEF Wake, Goto
  <2>8. ASSUME NEW r \in Recorders, Take(r)
       PROVE  ActorTypes'
    BY <2>8 DEF Take, Swap, Goto
  <2>9. ASSUME NEW r \in Recorders, Written(r)
       PROVE  ActorTypes'
    BY <2>9 DEF Written, Write, Goto
  <2>10. ASSUME NEW r \in Recorders, FlushFails(r)
       PROVE  ActorTypes'
    BY <2>10 DEF FlushFails, WriteFails, Goto
  <2>11. ASSUME NEW r \in Recorders, Detach(r)
       PROVE  ActorTypes'
    BY <2>11 DEF Detach, Goto
  <2>12. ASSUME NEW r \in Recorders, ReportFailure(r)
       PROVE  ActorTypes'
    BY <2>12 DEF ReportFailure, Goto
  <2>13. ASSUME NEW r \in Recorders, EndFailed(r)
       PROVE  ActorTypes'
    BY <2>13 DEF EndFailed, EndSession, Goto
  <2>14. ASSUME NEW c \in Callers, Start(c)
       PROVE  ActorTypes'
    BY <2>14 DEF Start, Call, At
  <2>15. ASSUME NEW c \in Callers, Stop(c)
       PROVE  ActorTypes'
    BY <2>15 DEF Stop, Call, At
  <2>16. ASSUME NEW c \in Callers, Notify(c)
       PROVE  ActorTypes'
    BY <2>16 DEF Notify, At
  <2>17. ASSUME NEW c \in Callers, Enter(c)
       PROVE  ActorTypes'
    BY <2>17 DEF Enter, At
  <2>18. ASSUME NEW c \in Callers, Join(c)
       PROVE  ActorTypes'
    BY <2>18 DEF Join, At
  <2>19. ASSUME NEW c \in Callers, LastFlush(c)
       PROVE  ActorTypes'
    BY <2>19 DEF LastFlush, Swap, At
  <2>20. ASSUME NEW c \in Callers, LastWrite(c)
       PROVE  ActorTypes'
    BY <2>20 DEF LastWrite, Write, At
  <2>21. ASSUME NEW c \in Callers, LastWriteFails(c)
       PROVE  ActorTypes'
    BY <2>21 DEF LastWriteFails, WriteFails, Leave, At
  <2>22. ASSUME NEW c \in Callers, End(c)
       PROVE  ActorTypes'
    BY <2>22 DEF End, EndSession, At
  <2>23. ASSUME NEW c \in Callers, EndFails(c)
       PROVE  ActorTypes'
    BY <2>23 DEF EndFails, Leave, At
  <2>24. ASSUME NEW c \in Callers, OpenSession(c)
       PROVE  ActorTypes'
    BY <2>24 DEF OpenSession, At
  <2>25. ASSUME NEW c \in Callers, OpenFails(c)
       PROVE  ActorTypes'
    BY <2>25 DEF OpenFails, Leave, At
  <2>26. ASSUME NEW c \in Callers, Declare(c)
       PROVE  ActorTypes'
    BY <2>26 DEF Declare, Leave, At, Goto
  <2>27. ASSUME NEW c \in Callers, DeclareFails(c)
       PROVE  ActorTypes'
    BY <2>27 DEF DeclareFails, Leave, At
  <2> QED
    BY <1>2, NextCases, <2>1, <2>2, <2>3, <2>4, <2>5, <2>6, <2>7, <2>8, <2>9,
       <2>10, <2>11, <2>12, <2>13, <2>14, <2>15, <2>16, <2>17, <2>18,
       <2>19, <2>20, <2>21, <2>22, <2>23, <2>24, <2>25, <2>26, <2>27
<1> QED BY <1>1, <1>2

\* Every step keeps this part of the invariant.
LEMMA LockStep ==
    ASSUME IInv, [Next]_vars
    PROVE  LockInv'
<1> USE RecordingAssumption DEF Recorders, Rows, Reporters, ThreadStates, LockedSteps, Steps, TypeOK, StoreTypes, RecorderTypes, RowTypes, ActorTypes, IInv, LockInv, slotVars, storeVars, threadVars, rowVars, reportVars, callVars
<1>1. CASE UNCHANGED vars
  BY <1>1 DEF vars
<1>2. CASE Next
  <2>1. ASSUME NEW s \in Sources, Read(s)
       PROVE  LockInv'
    BY <2>1 DEF Read
  <2>2. ASSUME NEW s \in Sources, Deliver(s)
       PROVE  LockInv'
    BY <2>2 DEF Deliver, Buffered
  <2>3. ASSUME NEW e \in Emitters, Report(e)
       PROVE  LockInv'
    BY <2>3 DEF Report
  <2>4. ASSUME NEW e \in Emitters, Unwind(e)
       PROVE  LockInv'
    BY <2>4 DEF Unwind
  <2>5. ASSUME NEW x \in Reporters, Reread(x)
       PROVE  LockInv'
    BY <2>5 DEF Reread
  <2>6. ASSUME NEW x \in Reporters, Append(x)
       PROVE  LockInv'
    BY <2>6 DEF Append, Buffered
  <2>7. ASSUME NEW r \in Recorders, Wake(r)
       PROVE  LockInv'
    BY <2>7 DEF Wake, Goto
  <2>8. ASSUME NEW r \in Recorders, Take(r)
       PROVE  LockInv'
    BY <2>8 DEF Take, Swap, Goto
  <2>9. ASSUME NEW r \in Recorders, Written(r)
       PROVE  LockInv'
    BY <2>9 DEF Written, Write, Goto
  <2>10. ASSUME NEW r \in Recorders, FlushFails(r)
       PROVE  LockInv'
    BY <2>10 DEF FlushFails, WriteFails, Goto
  <2>11. ASSUME NEW r \in Recorders, Detach(r)
       PROVE  LockInv'
    BY <2>11 DEF Detach, Goto
  <2>12. ASSUME NEW r \in Recorders, ReportFailure(r)
       PROVE  LockInv'
    BY <2>12 DEF ReportFailure, Goto
  <2>13. ASSUME NEW r \in Recorders, EndFailed(r)
       PROVE  LockInv'
    BY <2>13 DEF EndFailed, EndSession, Goto
  <2>14. ASSUME NEW c \in Callers, Start(c)
       PROVE  LockInv'
    BY <2>14 DEF Start, Call, At
  <2>15. ASSUME NEW c \in Callers, Stop(c)
       PROVE  LockInv'
    BY <2>15 DEF Stop, Call, At
  <2>16. ASSUME NEW c \in Callers, Notify(c)
       PROVE  LockInv'
    BY <2>16 DEF Notify, At
  <2>17. ASSUME NEW c \in Callers, Enter(c)
       PROVE  LockInv'
    BY <2>17 DEF Enter, At
  <2>18. ASSUME NEW c \in Callers, Join(c)
       PROVE  LockInv'
    BY <2>18 DEF Join, At
  <2>19. ASSUME NEW c \in Callers, LastFlush(c)
       PROVE  LockInv'
    BY <2>19 DEF LastFlush, Swap, At
  <2>20. ASSUME NEW c \in Callers, LastWrite(c)
       PROVE  LockInv'
    BY <2>20 DEF LastWrite, Write, At
  <2>21. ASSUME NEW c \in Callers, LastWriteFails(c)
       PROVE  LockInv'
    BY <2>21 DEF LastWriteFails, WriteFails, Leave, At
  <2>22. ASSUME NEW c \in Callers, End(c)
       PROVE  LockInv'
    <3>1. step[c] = "end" /\ rigLock = c /\ UNCHANGED <<attached, wanted>>
      BY <2>22 DEF End
    <3>2. closing' = [closing EXCEPT ![c] = None]
      BY <2>22 DEF End
    <3>3. CASE wanted[c] = None
      <4>1. step' = [step EXCEPT ![c] = "notify"] /\ rigLock' = None
        BY <2>22, <3>3 DEF End, At
      <4> QED BY <3>1, <3>2, <4>1
    <3>4. CASE wanted[c] # None
      <4>1. step' = [step EXCEPT ![c] = "open"] /\ rigLock' = rigLock
        BY <2>22, <3>4 DEF End, At
      <4> QED BY <3>1, <3>2, <3>4, <4>1
    <3> QED BY <3>3, <3>4
  <2>23. ASSUME NEW c \in Callers, EndFails(c)
       PROVE  LockInv'
    BY <2>23 DEF EndFails, Leave, At
  <2>24. ASSUME NEW c \in Callers, OpenSession(c)
       PROVE  LockInv'
    BY <2>24 DEF OpenSession, At
  <2>25. ASSUME NEW c \in Callers, OpenFails(c)
       PROVE  LockInv'
    BY <2>25 DEF OpenFails, Leave, At
  <2>26. ASSUME NEW c \in Callers, Declare(c)
       PROVE  LockInv'
    BY <2>26 DEF Declare, Leave, At, Goto
  <2>27. ASSUME NEW c \in Callers, DeclareFails(c)
       PROVE  LockInv'
    BY <2>27 DEF DeclareFails, Leave, At
  <2> QED
    BY <1>2, NextCases, <2>1, <2>2, <2>3, <2>4, <2>5, <2>6, <2>7, <2>8, <2>9,
       <2>10, <2>11, <2>12, <2>13, <2>14, <2>15, <2>16, <2>17, <2>18,
       <2>19, <2>20, <2>21, <2>22, <2>23, <2>24, <2>25, <2>26, <2>27
<1> QED BY <1>1, <1>2

\* Every step keeps this part of the invariant.
LEMMA BirthStep ==
    ASSUME IInv, [Next]_vars
    PROVE  BirthInv'
<1> USE RecordingAssumption DEF Recorders, Rows, Reporters, ThreadStates, LockedSteps, Steps, TypeOK, StoreTypes, RecorderTypes, RowTypes, ActorTypes, IInv, LockInv, BirthInv, UseInv, FailureInv, Unwritten, slotVars, storeVars, threadVars, rowVars, reportVars, callVars
<1>1. CASE UNCHANGED vars
  BY <1>1 DEF vars
<1>2. CASE Next
  <2>1. ASSUME NEW s \in Sources, Read(s)
       PROVE  BirthInv'
    BY <2>1 DEF Read
  <2>2. ASSUME NEW s \in Sources, Deliver(s)
       PROVE  BirthInv'
    BY <2>2 DEF Deliver, Buffered
  <2>3. ASSUME NEW e \in Emitters, Report(e)
       PROVE  BirthInv'
    BY <2>3 DEF Report
  <2>4. ASSUME NEW e \in Emitters, Unwind(e)
       PROVE  BirthInv'
    BY <2>4 DEF Unwind
  <2>5. ASSUME NEW x \in Reporters, Reread(x)
       PROVE  BirthInv'
    BY <2>5 DEF Reread
  <2>6. ASSUME NEW x \in Reporters, Append(x)
       PROVE  BirthInv'
    <3>1. target[x] \in Recorders /\ thread[target[x]] # "unborn"
      BY <2>6 DEF Append, RowInv, HandedInv
    <3>2. UNCHANGED <<opened, session, thread, stop, failed, detached, taken, stored, step>>
      BY <2>6 DEF Append
    <3>3. \A r \in Recorders : r # target[x] => buffer'[r] = buffer[r]
      <4>1. CASE rows < MaxRows
        BY <2>6, <3>1, <4>1 DEF Append, Buffered
      <4>2. CASE ~(rows < MaxRows)
        BY <2>6, <4>2 DEF Append, Buffered
      <4> QED BY <4>1, <4>2
    <3> QED BY <3>1, <3>2, <3>3
  <2>7. ASSUME NEW r \in Recorders, Wake(r)
       PROVE  BirthInv'
    BY <2>7 DEF Wake, Goto
  <2>8. ASSUME NEW r \in Recorders, Take(r)
       PROVE  BirthInv'
    BY <2>8 DEF Take, Swap, Goto
  <2>9. ASSUME NEW r \in Recorders, Written(r)
       PROVE  BirthInv'
    BY <2>9 DEF Written, Write, Goto
  <2>10. ASSUME NEW r \in Recorders, FlushFails(r)
       PROVE  BirthInv'
    BY <2>10 DEF FlushFails, WriteFails, Goto
  <2>11. ASSUME NEW r \in Recorders, Detach(r)
       PROVE  BirthInv'
    BY <2>11 DEF Detach, Goto
  <2>12. ASSUME NEW r \in Recorders, ReportFailure(r)
       PROVE  BirthInv'
    BY <2>12 DEF ReportFailure, Goto
  <2>13. ASSUME NEW r \in Recorders, EndFailed(r)
       PROVE  BirthInv'
    BY <2>13 DEF EndFailed, EndSession, Goto
  <2>14. ASSUME NEW c \in Callers, Start(c)
       PROVE  BirthInv'
    BY <2>14 DEF Start, Call, At
  <2>15. ASSUME NEW c \in Callers, Stop(c)
       PROVE  BirthInv'
    BY <2>15 DEF Stop, Call, At
  <2>16. ASSUME NEW c \in Callers, Notify(c)
       PROVE  BirthInv'
    BY <2>16 DEF Notify, At
  <2>17. ASSUME NEW c \in Callers, Enter(c)
       PROVE  BirthInv'
    BY <2>17 DEF Enter, At
  <2>18. ASSUME NEW c \in Callers, Join(c)
       PROVE  BirthInv'
    BY <2>18 DEF Join, At
  <2>19. ASSUME NEW c \in Callers, LastFlush(c)
       PROVE  BirthInv'
    BY <2>19 DEF LastFlush, Swap, At
  <2>20. ASSUME NEW c \in Callers, LastWrite(c)
       PROVE  BirthInv'
    BY <2>20 DEF LastWrite, Write, At
  <2>21. ASSUME NEW c \in Callers, LastWriteFails(c)
       PROVE  BirthInv'
    BY <2>21 DEF LastWriteFails, WriteFails, Leave, At
  <2>22. ASSUME NEW c \in Callers, End(c)
       PROVE  BirthInv'
    BY <2>22 DEF End, EndSession, At
  <2>23. ASSUME NEW c \in Callers, EndFails(c)
       PROVE  BirthInv'
    BY <2>23 DEF EndFails, Leave, At
  <2>24. ASSUME NEW c \in Callers, OpenSession(c)
       PROVE  BirthInv'
    BY <2>24 DEF OpenSession, At
  <2>25. ASSUME NEW c \in Callers, OpenFails(c)
       PROVE  BirthInv'
    BY <2>25 DEF OpenFails, Leave, At
  <2>26. ASSUME NEW c \in Callers, Declare(c)
       PROVE  BirthInv'
    BY <2>26 DEF Declare, Leave, At, Goto
  <2>27. ASSUME NEW c \in Callers, DeclareFails(c)
       PROVE  BirthInv'
    BY <2>27 DEF DeclareFails, Leave, At
  <2> QED
    BY <1>2, NextCases, <2>1, <2>2, <2>3, <2>4, <2>5, <2>6, <2>7, <2>8, <2>9,
       <2>10, <2>11, <2>12, <2>13, <2>14, <2>15, <2>16, <2>17, <2>18,
       <2>19, <2>20, <2>21, <2>22, <2>23, <2>24, <2>25, <2>26, <2>27
<1> QED BY <1>1, <1>2

\* Every step keeps this part of the invariant.
LEMMA FailureStep ==
    ASSUME IInv, [Next]_vars
    PROVE  FailureInv'
<1> USE RecordingAssumption DEF Recorders, Rows, Reporters, ThreadStates, LockedSteps, Steps, TypeOK, StoreTypes, RecorderTypes, RowTypes, ActorTypes, IInv, LockInv, UseInv, FailureInv, BirthInv, slotVars, storeVars, threadVars, rowVars, reportVars, callVars
<1>1. CASE UNCHANGED vars
  BY <1>1 DEF vars
<1>2. CASE Next
  <2>1. ASSUME NEW s \in Sources, Read(s)
       PROVE  FailureInv'
    BY <2>1 DEF Read
  <2>2. ASSUME NEW s \in Sources, Deliver(s)
       PROVE  FailureInv'
    BY <2>2 DEF Deliver, Buffered
  <2>3. ASSUME NEW e \in Emitters, Report(e)
       PROVE  FailureInv'
    BY <2>3 DEF Report
  <2>4. ASSUME NEW e \in Emitters, Unwind(e)
       PROVE  FailureInv'
    BY <2>4 DEF Unwind
  <2>5. ASSUME NEW x \in Reporters, Reread(x)
       PROVE  FailureInv'
    BY <2>5 DEF Reread
  <2>6. ASSUME NEW x \in Reporters, Append(x)
       PROVE  FailureInv'
    BY <2>6 DEF Append, Buffered
  <2>7. ASSUME NEW r \in Recorders, Wake(r)
       PROVE  FailureInv'
    BY <2>7 DEF Wake, Goto
  <2>8. ASSUME NEW r \in Recorders, Take(r)
       PROVE  FailureInv'
    BY <2>8 DEF Take, Swap, Goto
  <2>9. ASSUME NEW r \in Recorders, Written(r)
       PROVE  FailureInv'
    BY <2>9 DEF Written, Write, Goto
  <2>10. ASSUME NEW r \in Recorders, FlushFails(r)
       PROVE  FailureInv'
    BY <2>10 DEF FlushFails, WriteFails, Goto
  <2>11. ASSUME NEW r \in Recorders, Detach(r)
       PROVE  FailureInv'
    <3>1. attached = r
      BY <2>11, FailingIsAttached DEF Detach
    <3> QED BY <2>11, <3>1 DEF Detach, Goto
  <2>12. ASSUME NEW r \in Recorders, ReportFailure(r)
       PROVE  FailureInv'
    BY <2>12 DEF ReportFailure, Goto
  <2>13. ASSUME NEW r \in Recorders, EndFailed(r)
       PROVE  FailureInv'
    BY <2>13 DEF EndFailed, EndSession, Goto
  <2>14. ASSUME NEW c \in Callers, Start(c)
       PROVE  FailureInv'
    BY <2>14 DEF Start, Call, At
  <2>15. ASSUME NEW c \in Callers, Stop(c)
       PROVE  FailureInv'
    BY <2>15 DEF Stop, Call, At
  <2>16. ASSUME NEW c \in Callers, Notify(c)
       PROVE  FailureInv'
    BY <2>16 DEF Notify, At
  <2>17. ASSUME NEW c \in Callers, Enter(c)
       PROVE  FailureInv'
    <3>1. UNCHANGED <<thread, failed, detached>>
      BY <2>17 DEF Enter
    <3>2. stop' = stop \/ stop' = [stop EXCEPT ![attached] = TRUE]
      BY <2>17 DEF Enter
    <3>3. \A r \in Recorders : stop[r] => stop'[r]
      BY <3>2
    <3> QED BY <3>1, <3>3
  <2>18. ASSUME NEW c \in Callers, Join(c)
       PROVE  FailureInv'
    BY <2>18 DEF Join, At
  <2>19. ASSUME NEW c \in Callers, LastFlush(c)
       PROVE  FailureInv'
    BY <2>19 DEF LastFlush, Swap, At
  <2>20. ASSUME NEW c \in Callers, LastWrite(c)
       PROVE  FailureInv'
    BY <2>20 DEF LastWrite, Write, At
  <2>21. ASSUME NEW c \in Callers, LastWriteFails(c)
       PROVE  FailureInv'
    BY <2>21 DEF LastWriteFails, WriteFails, Leave, At
  <2>22. ASSUME NEW c \in Callers, End(c)
       PROVE  FailureInv'
    BY <2>22 DEF End, EndSession, At
  <2>23. ASSUME NEW c \in Callers, EndFails(c)
       PROVE  FailureInv'
    BY <2>23 DEF EndFails, Leave, At
  <2>24. ASSUME NEW c \in Callers, OpenSession(c)
       PROVE  FailureInv'
    BY <2>24 DEF OpenSession, At
  <2>25. ASSUME NEW c \in Callers, OpenFails(c)
       PROVE  FailureInv'
    BY <2>25 DEF OpenFails, Leave, At
  <2>26. ASSUME NEW c \in Callers, Declare(c)
       PROVE  FailureInv'
    BY <2>26 DEF Declare, Leave, At, Goto
  <2>27. ASSUME NEW c \in Callers, DeclareFails(c)
       PROVE  FailureInv'
    BY <2>27 DEF DeclareFails, Leave, At
  <2> QED
    BY <1>2, NextCases, <2>1, <2>2, <2>3, <2>4, <2>5, <2>6, <2>7, <2>8, <2>9,
       <2>10, <2>11, <2>12, <2>13, <2>14, <2>15, <2>16, <2>17, <2>18,
       <2>19, <2>20, <2>21, <2>22, <2>23, <2>24, <2>25, <2>26, <2>27
<1> QED BY <1>1, <1>2

\* Every step keeps this part of the invariant.
LEMMA UseStep ==
    ASSUME IInv, [Next]_vars
    PROVE  UseInv'
<1> USE RecordingAssumption DEF Recorders, Rows, Reporters, ThreadStates, LockedSteps, Steps, TypeOK, StoreTypes, RecorderTypes, RowTypes, ActorTypes, IInv, LockInv, BirthInv, UseInv, FailureInv, Unwritten, InUse, Closing, Opening, slotVars, storeVars, threadVars, rowVars, reportVars, callVars
<1>1. CASE UNCHANGED vars
  BY <1>1 DEF vars
<1>2. CASE Next
  <2>1. ASSUME NEW s \in Sources, Read(s)
       PROVE  UseInv'
    BY <2>1 DEF Read
  <2>2. ASSUME NEW s \in Sources, Deliver(s)
       PROVE  UseInv'
    BY <2>2 DEF Deliver, Buffered
  <2>3. ASSUME NEW e \in Emitters, Report(e)
       PROVE  UseInv'
    BY <2>3 DEF Report
  <2>4. ASSUME NEW e \in Emitters, Unwind(e)
       PROVE  UseInv'
    BY <2>4 DEF Unwind
  <2>5. ASSUME NEW x \in Reporters, Reread(x)
       PROVE  UseInv'
    BY <2>5 DEF Reread
  <2>6. ASSUME NEW x \in Reporters, Append(x)
       PROVE  UseInv'
    BY <2>6 DEF Append, Buffered
  <2>7. ASSUME NEW r \in Recorders, Wake(r)
       PROVE  UseInv'
    <3>1. /\ thread[r] = "waiting" /\ thread' = [thread EXCEPT ![r] = IF stop[r] THEN "done" ELSE "flush"]
          /\ UNCHANGED <<rigLock, attached, opened, session, stop, failed, step, closing>>
      BY <2>7 DEF Wake, Goto
    <3>2. \A q \in Recorders : InUse(q)' = InUse(q)
      BY <3>1
    <3>3. ~failed[r]
      BY <3>1
    <3>4. thread'[r] \in {"flush", "done"} /\ (thread'[r] = "done" => stop[r])
      BY <3>1
    <3>5. \A q \in Recorders : q # r => thread'[q] = thread[q]
      BY <3>1
    <3>6. attached = r => thread'[r] = "flush"
      BY <3>4
    <3> QED BY <3>1, <3>2, <3>3, <3>4, <3>5, <3>6
  <2>8. ASSUME NEW r \in Recorders, Take(r)
       PROVE  UseInv'
    BY <2>8 DEF Take, Swap, Goto
  <2>9. ASSUME NEW r \in Recorders, Written(r)
       PROVE  UseInv'
    BY <2>9 DEF Written, Write, Goto
  <2>10. ASSUME NEW r \in Recorders, FlushFails(r)
       PROVE  UseInv'
    BY <2>10 DEF FlushFails, WriteFails, Goto
  <2>11. ASSUME NEW r \in Recorders, Detach(r)
       PROVE  UseInv'
    BY <2>11 DEF Detach, Goto
  <2>12. ASSUME NEW r \in Recorders, ReportFailure(r)
       PROVE  UseInv'
    BY <2>12 DEF ReportFailure, Goto
  <2>13. ASSUME NEW r \in Recorders, EndFailed(r)
       PROVE  UseInv'
    BY <2>13 DEF EndFailed, EndSession, Goto
  <2>14. ASSUME NEW c \in Callers, Start(c)
       PROVE  UseInv'
    BY <2>14 DEF Start, Call, At
  <2>15. ASSUME NEW c \in Callers, Stop(c)
       PROVE  UseInv'
    BY <2>15 DEF Stop, Call, At
  <2>16. ASSUME NEW c \in Callers, Notify(c)
       PROVE  UseInv'
    BY <2>16 DEF Notify, At
  <2>17. ASSUME NEW c \in Callers, Enter(c)
       PROVE  UseInv'
    BY <2>17 DEF Enter, At
  <2>18. ASSUME NEW c \in Callers, Join(c)
       PROVE  UseInv'
    BY <2>18 DEF Join, At
  <2>19. ASSUME NEW c \in Callers, LastFlush(c)
       PROVE  UseInv'
    BY <2>19 DEF LastFlush, Swap, At
  <2>20. ASSUME NEW c \in Callers, LastWrite(c)
       PROVE  UseInv'
    BY <2>20 DEF LastWrite, Write, At
  <2>21. ASSUME NEW c \in Callers, LastWriteFails(c)
       PROVE  UseInv'
    BY <2>21 DEF LastWriteFails, WriteFails, Leave, At
  <2>22. ASSUME NEW c \in Callers, End(c)
       PROVE  UseInv'
    BY <2>22 DEF End, EndSession, At
  <2>23. ASSUME NEW c \in Callers, EndFails(c)
       PROVE  UseInv'
    <3>1. /\ step[c] = "end" /\ step' = [step EXCEPT ![c] = "idle"]
          /\ closing' = [closing EXCEPT ![c] = None]
          /\ UNCHANGED <<attached, opened, session, thread, stop, failed>>
      BY <2>23 DEF EndFails, Leave, At
    <3>2. \A q \in Recorders : closing[c] = q => thread[q] = "done"
      BY <3>1
    <3>3. \A q \in Recorders : InUse(q) => InUse(q)' \/ closing[c] = q
      BY <3>1
    <3> QED BY <3>1, <3>2, <3>3
  <2>24. ASSUME NEW c \in Callers, OpenSession(c)
       PROVE  UseInv'
    <3>1. /\ step[c] = "open" /\ step' = [step EXCEPT ![c] = "declare"]
          /\ opened' = opened + 1 /\ opened' \in Recorders
          /\ session' = [session EXCEPT ![opened'] = "open"]
          /\ UNCHANGED <<attached, thread, stop, failed, closing>>
      BY <2>24 DEF OpenSession, At
    <3>2. \A d \in Callers : step[d] # "declare"
      BY <3>1
    <3>3. \A q \in Recorders : InUse(q) => InUse(q)'
      BY <3>1, <3>2
    <3>4. session[opened'] = "none"
      BY <3>1
    <3>5. \A q \in Recorders : session[q] = "open" => session'[q] = "open"
      BY <3>1
    <3>6. \A r \in Recorders : attached' = r => session'[r] = "open" /\ ~stop'[r]
             /\ thread'[r] \in {"waiting", "flush", "writing", "failing"}
      BY <3>1, <3>5
    <3>7. closing[c] = None
      BY <3>1
    <3>8. \A d \in Callers : closing[d] # None => step'[d] = step[d]
      BY <3>1, <3>7
    <3>9. \A d \in Callers, r \in Recorders : closing[d] = r =>
             /\ session'[r] = "open" /\ stop'[r]
             /\ thread'[r] \in {"waiting", "flush", "writing", "failing", "done"}
             /\ thread'[r] = "done" => ~failed'[r]
             /\ step'[d] # "join" => thread'[r] = "done"
      BY <3>1, <3>5, <3>8
    <3>10. \A r \in Recorders :
              thread'[r] \in {"waiting", "flush", "writing", "failing"} => InUse(r)'
      <4>1. \A r \in Recorders :
              thread[r] \in {"waiting", "flush", "writing", "failing"} => InUse(r)
        OBVIOUS
      <4> HIDE DEF InUse
      <4> QED BY <3>1, <3>3, <4>1
    <3>11. closing' = closing
      BY <3>1
    <3> HIDE DEF InUse
    <3> QED BY <3>6, <3>9, <3>10, <3>11
  <2>25. ASSUME NEW c \in Callers, OpenFails(c)
       PROVE  UseInv'
    BY <2>25 DEF OpenFails, Leave, At
  <2>26. ASSUME NEW c \in Callers, Declare(c)
       PROVE  UseInv'
    BY <2>26 DEF Declare, Leave, At, Goto
  <2>27. ASSUME NEW c \in Callers, DeclareFails(c)
       PROVE  UseInv'
    BY <2>27 DEF DeclareFails, Leave, At
  <2> QED
    BY <1>2, NextCases, <2>1, <2>2, <2>3, <2>4, <2>5, <2>6, <2>7, <2>8, <2>9,
       <2>10, <2>11, <2>12, <2>13, <2>14, <2>15, <2>16, <2>17, <2>18,
       <2>19, <2>20, <2>21, <2>22, <2>23, <2>24, <2>25, <2>26, <2>27
<1> QED BY <1>1, <1>2

\* What Buffered does: nothing, or one more row, newer than all others.
LEMMA BufferedEffect ==
    ASSUME NEW r, NEW b \in BOOLEAN, Buffered(r, b)
    PROVE  \/ UNCHANGED <<rows, buffer, events>>
           \/ /\ rows' = rows + 1
              /\ buffer' = [buffer EXCEPT ![r] = buffer[r] \cup {rows + 1}]
              /\ events' = IF b THEN events \cup {rows + 1} ELSE events
BY DEF Buffered

\* Every step keeps this part of the invariant.
LEMMA OrderStep ==
    ASSUME IInv, [Next]_vars
    PROVE  WrittenInOrder'
<1> USE RecordingAssumption DEF Recorders, Rows, Reporters, ThreadStates, LockedSteps, Steps, TypeOK, StoreTypes, RecorderTypes, RowTypes, ActorTypes, IInv, RowInv, Unwritten, Deliveries, WrittenInOrder, RowsSoFar, FlushInv, LockInv, UseInv, slotVars, storeVars, threadVars, rowVars, reportVars, callVars
<1>1. CASE UNCHANGED vars
  BY <1>1 DEF vars
<1>2. CASE Next
  <2>1. ASSUME NEW s \in Sources, Read(s)
       PROVE  WrittenInOrder'
    BY <2>1 DEF Read
  <2>2. ASSUME NEW s \in Sources, Deliver(s)
       PROVE  WrittenInOrder'
    <3>1. CASE attached \in {r \in Recorders : ~failed[r]}
      <4>1. Buffered(attached, FALSE)
        BY <2>2, <3>1 DEF Deliver
      <4>2. UNCHANGED <<slotVars, storeVars, threadVars, taken, stored, reportVars, callVars>>
        BY <2>2 DEF Deliver
      <4>3. attached \in Recorders
        BY <3>1
      <4>4. CASE UNCHANGED <<rows, buffer, events>>
        BY <4>2, <4>4
      <4>5. CASE /\ rows' = rows + 1
                 /\ buffer' = [buffer EXCEPT ![attached] = buffer[attached] \cup {rows + 1}]
                 /\ events' = events
        <5>1. \A q \in Recorders : buffer'[q] \subseteq buffer[q] \cup {rows + 1}
          BY <4>3, <4>5
        <5>2. \A q \in Recorders : q # attached => buffer'[q] = buffer[q]
          BY <4>3, <4>5
        <5> QED BY <4>2, <4>3, <4>5, <5>1, <5>2
      <4> QED BY <4>1, <4>4, <4>5, BufferedEffect
    <3>2. CASE attached \notin {r \in Recorders : ~failed[r]}
      <4>1. UNCHANGED rowVars
        BY <2>2, <3>2 DEF Deliver
      <4> QED BY <4>1
    <3> QED BY <3>1, <3>2
  <2>3. ASSUME NEW e \in Emitters, Report(e)
       PROVE  WrittenInOrder'
    BY <2>3 DEF Report
  <2>4. ASSUME NEW e \in Emitters, Unwind(e)
       PROVE  WrittenInOrder'
    BY <2>4 DEF Unwind
  <2>5. ASSUME NEW x \in Reporters, Reread(x)
       PROVE  WrittenInOrder'
    BY <2>5 DEF Reread
  <2>6. ASSUME NEW x \in Reporters, Append(x)
       PROVE  WrittenInOrder'
    <3>1. Buffered(target[x], TRUE)
      BY <2>6 DEF Append
    <3>2. UNCHANGED <<slotVars, storeVars, threadVars, taken, stored, callVars>>
      BY <2>6 DEF Append
    <3>3. target[x] \in Recorders
      BY <2>6 DEF Append, HandedInv
    <3>4. CASE UNCHANGED <<rows, buffer, events>>
      BY <3>2, <3>4
    <3>5. CASE /\ rows' = rows + 1
               /\ buffer' = [buffer EXCEPT ![target[x]] = buffer[target[x]] \cup {rows + 1}]
               /\ events' = events \cup {rows + 1}
      <4>1. \A q \in Recorders : buffer'[q] \subseteq buffer[q] \cup {rows + 1}
        BY <3>3, <3>5
      <4>2. \A q \in Recorders : q # target[x] => buffer'[q] = buffer[q]
        BY <3>3, <3>5
      <4> QED BY <3>2, <3>3, <3>5, <4>1, <4>2
    <3> QED BY <3>1, <3>4, <3>5, BufferedEffect
  <2>7. ASSUME NEW r \in Recorders, Wake(r)
       PROVE  WrittenInOrder'
    BY <2>7 DEF Wake, Goto
  <2>8. ASSUME NEW r \in Recorders, Take(r)
       PROVE  WrittenInOrder'
    BY <2>8 DEF Take, Swap, Goto
  <2>9. ASSUME NEW r \in Recorders, Written(r)
       PROVE  WrittenInOrder'
    BY <2>9 DEF Written, Write, Goto
  <2>10. ASSUME NEW r \in Recorders, FlushFails(r)
       PROVE  WrittenInOrder'
    BY <2>10 DEF FlushFails, WriteFails, Goto
  <2>11. ASSUME NEW r \in Recorders, Detach(r)
       PROVE  WrittenInOrder'
    BY <2>11 DEF Detach, Goto
  <2>12. ASSUME NEW r \in Recorders, ReportFailure(r)
       PROVE  WrittenInOrder'
    BY <2>12 DEF ReportFailure, Goto
  <2>13. ASSUME NEW r \in Recorders, EndFailed(r)
       PROVE  WrittenInOrder'
    BY <2>13 DEF EndFailed, EndSession, Goto
  <2>14. ASSUME NEW c \in Callers, Start(c)
       PROVE  WrittenInOrder'
    BY <2>14 DEF Start, Call, At
  <2>15. ASSUME NEW c \in Callers, Stop(c)
       PROVE  WrittenInOrder'
    BY <2>15 DEF Stop, Call, At
  <2>16. ASSUME NEW c \in Callers, Notify(c)
       PROVE  WrittenInOrder'
    BY <2>16 DEF Notify, At
  <2>17. ASSUME NEW c \in Callers, Enter(c)
       PROVE  WrittenInOrder'
    BY <2>17 DEF Enter, At
  <2>18. ASSUME NEW c \in Callers, Join(c)
       PROVE  WrittenInOrder'
    BY <2>18 DEF Join, At
  <2>19. ASSUME NEW c \in Callers, LastFlush(c)
       PROVE  WrittenInOrder'
    BY <2>19 DEF LastFlush, Swap, At
  <2>20. ASSUME NEW c \in Callers, LastWrite(c)
       PROVE  WrittenInOrder'
    BY <2>20 DEF LastWrite, Write, At
  <2>21. ASSUME NEW c \in Callers, LastWriteFails(c)
       PROVE  WrittenInOrder'
    BY <2>21 DEF LastWriteFails, WriteFails, Leave, At
  <2>22. ASSUME NEW c \in Callers, End(c)
       PROVE  WrittenInOrder'
    BY <2>22 DEF End, EndSession, At
  <2>23. ASSUME NEW c \in Callers, EndFails(c)
       PROVE  WrittenInOrder'
    BY <2>23 DEF EndFails, Leave, At
  <2>24. ASSUME NEW c \in Callers, OpenSession(c)
       PROVE  WrittenInOrder'
    BY <2>24 DEF OpenSession, At
  <2>25. ASSUME NEW c \in Callers, OpenFails(c)
       PROVE  WrittenInOrder'
    BY <2>25 DEF OpenFails, Leave, At
  <2>26. ASSUME NEW c \in Callers, Declare(c)
       PROVE  WrittenInOrder'
    BY <2>26 DEF Declare, Leave, At, Goto
  <2>27. ASSUME NEW c \in Callers, DeclareFails(c)
       PROVE  WrittenInOrder'
    BY <2>27 DEF DeclareFails, Leave, At
  <2> QED
    BY <1>2, NextCases, <2>1, <2>2, <2>3, <2>4, <2>5, <2>6, <2>7, <2>8, <2>9,
       <2>10, <2>11, <2>12, <2>13, <2>14, <2>15, <2>16, <2>17, <2>18,
       <2>19, <2>20, <2>21, <2>22, <2>23, <2>24, <2>25, <2>26, <2>27
<1> QED BY <1>1, <1>2

\* Every step keeps this part of the invariant.
LEMMA OnceStep ==
    ASSUME IInv, [Next]_vars
    PROVE  RowsOnce'
<1> USE RecordingAssumption DEF Recorders, Rows, Reporters, ThreadStates, LockedSteps, Steps, TypeOK, StoreTypes, RecorderTypes, RowTypes, ActorTypes, IInv, RowInv, Unwritten, Deliveries, RowsOnce, RowsSoFar, slotVars, storeVars, threadVars, rowVars, reportVars, callVars
<1>1. CASE UNCHANGED vars
  BY <1>1 DEF vars
<1>2. CASE Next
  <2>1. ASSUME NEW s \in Sources, Read(s)
       PROVE  RowsOnce'
    BY <2>1 DEF Read
  <2>2. ASSUME NEW s \in Sources, Deliver(s)
       PROVE  RowsOnce'
    BY <2>2 DEF Deliver, Buffered
  <2>3. ASSUME NEW e \in Emitters, Report(e)
       PROVE  RowsOnce'
    BY <2>3 DEF Report
  <2>4. ASSUME NEW e \in Emitters, Unwind(e)
       PROVE  RowsOnce'
    BY <2>4 DEF Unwind
  <2>5. ASSUME NEW x \in Reporters, Reread(x)
       PROVE  RowsOnce'
    BY <2>5 DEF Reread
  <2>6. ASSUME NEW x \in Reporters, Append(x)
       PROVE  RowsOnce'
    <3>1. Buffered(target[x], TRUE)
      BY <2>6 DEF Append
    <3>2. UNCHANGED <<slotVars, storeVars, threadVars, taken, stored, callVars>>
      BY <2>6 DEF Append
    <3>3. target[x] \in Recorders
      BY <2>6 DEF Append, HandedInv
    <3>4. CASE UNCHANGED <<rows, buffer, events>>
      BY <3>2, <3>4
    <3>5. CASE /\ rows' = rows + 1
               /\ buffer' = [buffer EXCEPT ![target[x]] = buffer[target[x]] \cup {rows + 1}]
               /\ events' = events \cup {rows + 1}
      <4>1. \A q \in Recorders : buffer'[q] \subseteq buffer[q] \cup {rows + 1}
        BY <3>3, <3>5
      <4>2. \A q \in Recorders : q # target[x] => buffer'[q] = buffer[q]
        BY <3>3, <3>5
      <4> QED BY <3>2, <3>3, <3>5, <4>1, <4>2
    <3> QED BY <3>1, <3>4, <3>5, BufferedEffect
  <2>7. ASSUME NEW r \in Recorders, Wake(r)
       PROVE  RowsOnce'
    BY <2>7 DEF Wake, Goto
  <2>8. ASSUME NEW r \in Recorders, Take(r)
       PROVE  RowsOnce'
    BY <2>8 DEF Take, Swap, Goto
  <2>9. ASSUME NEW r \in Recorders, Written(r)
       PROVE  RowsOnce'
    BY <2>9 DEF Written, Write, Goto
  <2>10. ASSUME NEW r \in Recorders, FlushFails(r)
       PROVE  RowsOnce'
    BY <2>10 DEF FlushFails, WriteFails, Goto
  <2>11. ASSUME NEW r \in Recorders, Detach(r)
       PROVE  RowsOnce'
    BY <2>11 DEF Detach, Goto
  <2>12. ASSUME NEW r \in Recorders, ReportFailure(r)
       PROVE  RowsOnce'
    BY <2>12 DEF ReportFailure, Goto
  <2>13. ASSUME NEW r \in Recorders, EndFailed(r)
       PROVE  RowsOnce'
    BY <2>13 DEF EndFailed, EndSession, Goto
  <2>14. ASSUME NEW c \in Callers, Start(c)
       PROVE  RowsOnce'
    BY <2>14 DEF Start, Call, At
  <2>15. ASSUME NEW c \in Callers, Stop(c)
       PROVE  RowsOnce'
    BY <2>15 DEF Stop, Call, At
  <2>16. ASSUME NEW c \in Callers, Notify(c)
       PROVE  RowsOnce'
    BY <2>16 DEF Notify, At
  <2>17. ASSUME NEW c \in Callers, Enter(c)
       PROVE  RowsOnce'
    BY <2>17 DEF Enter, At
  <2>18. ASSUME NEW c \in Callers, Join(c)
       PROVE  RowsOnce'
    BY <2>18 DEF Join, At
  <2>19. ASSUME NEW c \in Callers, LastFlush(c)
       PROVE  RowsOnce'
    BY <2>19 DEF LastFlush, Swap, At
  <2>20. ASSUME NEW c \in Callers, LastWrite(c)
       PROVE  RowsOnce'
    BY <2>20 DEF LastWrite, Write, At
  <2>21. ASSUME NEW c \in Callers, LastWriteFails(c)
       PROVE  RowsOnce'
    BY <2>21 DEF LastWriteFails, WriteFails, Leave, At
  <2>22. ASSUME NEW c \in Callers, End(c)
       PROVE  RowsOnce'
    BY <2>22 DEF End, EndSession, At
  <2>23. ASSUME NEW c \in Callers, EndFails(c)
       PROVE  RowsOnce'
    BY <2>23 DEF EndFails, Leave, At
  <2>24. ASSUME NEW c \in Callers, OpenSession(c)
       PROVE  RowsOnce'
    BY <2>24 DEF OpenSession, At
  <2>25. ASSUME NEW c \in Callers, OpenFails(c)
       PROVE  RowsOnce'
    BY <2>25 DEF OpenFails, Leave, At
  <2>26. ASSUME NEW c \in Callers, Declare(c)
       PROVE  RowsOnce'
    BY <2>26 DEF Declare, Leave, At, Goto
  <2>27. ASSUME NEW c \in Callers, DeclareFails(c)
       PROVE  RowsOnce'
    BY <2>27 DEF DeclareFails, Leave, At
  <2> QED
    BY <1>2, NextCases, <2>1, <2>2, <2>3, <2>4, <2>5, <2>6, <2>7, <2>8, <2>9,
       <2>10, <2>11, <2>12, <2>13, <2>14, <2>15, <2>16, <2>17, <2>18,
       <2>19, <2>20, <2>21, <2>22, <2>23, <2>24, <2>25, <2>26, <2>27
<1> QED BY <1>1, <1>2

\* Every step keeps this part of the invariant.
LEMMA SoFarStep ==
    ASSUME IInv, [Next]_vars
    PROVE  RowsSoFar'
<1> USE RecordingAssumption DEF Recorders, Rows, Reporters, ThreadStates, LockedSteps, Steps, TypeOK, StoreTypes, RecorderTypes, RowTypes, ActorTypes, IInv, RowInv, Unwritten, Deliveries, RowsSoFar, slotVars, storeVars, threadVars, rowVars, reportVars, callVars
<1>1. CASE UNCHANGED vars
  BY <1>1 DEF vars
<1>2. CASE Next
  <2>1. ASSUME NEW s \in Sources, Read(s)
       PROVE  RowsSoFar'
    BY <2>1 DEF Read
  <2>2. ASSUME NEW s \in Sources, Deliver(s)
       PROVE  RowsSoFar'
    <3>1. CASE attached \in {r \in Recorders : ~failed[r]}
      <4>1. Buffered(attached, FALSE)
        BY <2>2, <3>1 DEF Deliver
      <4>2. UNCHANGED <<slotVars, storeVars, threadVars, taken, stored, reportVars, callVars>>
        BY <2>2 DEF Deliver
      <4>3. attached \in Recorders
        BY <3>1
      <4>4. CASE UNCHANGED <<rows, buffer, events>>
        BY <4>2, <4>4
      <4>5. CASE /\ rows' = rows + 1
                 /\ buffer' = [buffer EXCEPT ![attached] = buffer[attached] \cup {rows + 1}]
                 /\ events' = events
        <5>1. \A q \in Recorders : buffer'[q] \subseteq buffer[q] \cup {rows + 1}
          BY <4>3, <4>5
        <5>2. \A q \in Recorders : q # attached => buffer'[q] = buffer[q]
          BY <4>3, <4>5
        <5> QED BY <4>2, <4>3, <4>5, <5>1, <5>2
      <4> QED BY <4>1, <4>4, <4>5, BufferedEffect
    <3>2. CASE attached \notin {r \in Recorders : ~failed[r]}
      <4>1. UNCHANGED rowVars
        BY <2>2, <3>2 DEF Deliver
      <4> QED BY <4>1
    <3> QED BY <3>1, <3>2
  <2>3. ASSUME NEW e \in Emitters, Report(e)
       PROVE  RowsSoFar'
    BY <2>3 DEF Report
  <2>4. ASSUME NEW e \in Emitters, Unwind(e)
       PROVE  RowsSoFar'
    BY <2>4 DEF Unwind
  <2>5. ASSUME NEW x \in Reporters, Reread(x)
       PROVE  RowsSoFar'
    BY <2>5 DEF Reread
  <2>6. ASSUME NEW x \in Reporters, Append(x)
       PROVE  RowsSoFar'
    <3>1. Buffered(target[x], TRUE)
      BY <2>6 DEF Append
    <3>2. UNCHANGED <<slotVars, storeVars, threadVars, taken, stored, callVars>>
      BY <2>6 DEF Append
    <3>3. target[x] \in Recorders
      BY <2>6 DEF Append, HandedInv
    <3>4. CASE UNCHANGED <<rows, buffer, events>>
      BY <3>2, <3>4
    <3>5. CASE /\ rows' = rows + 1
               /\ buffer' = [buffer EXCEPT ![target[x]] = buffer[target[x]] \cup {rows + 1}]
               /\ events' = events \cup {rows + 1}
      <4>1. \A q \in Recorders : buffer'[q] \subseteq buffer[q] \cup {rows + 1}
        BY <3>3, <3>5
      <4>2. \A q \in Recorders : q # target[x] => buffer'[q] = buffer[q]
        BY <3>3, <3>5
      <4> QED BY <3>2, <3>3, <3>5, <4>1, <4>2
    <3> QED BY <3>1, <3>4, <3>5, BufferedEffect
  <2>7. ASSUME NEW r \in Recorders, Wake(r)
       PROVE  RowsSoFar'
    BY <2>7 DEF Wake, Goto
  <2>8. ASSUME NEW r \in Recorders, Take(r)
       PROVE  RowsSoFar'
    BY <2>8 DEF Take, Swap, Goto
  <2>9. ASSUME NEW r \in Recorders, Written(r)
       PROVE  RowsSoFar'
    BY <2>9 DEF Written, Write, Goto
  <2>10. ASSUME NEW r \in Recorders, FlushFails(r)
       PROVE  RowsSoFar'
    BY <2>10 DEF FlushFails, WriteFails, Goto
  <2>11. ASSUME NEW r \in Recorders, Detach(r)
       PROVE  RowsSoFar'
    BY <2>11 DEF Detach, Goto
  <2>12. ASSUME NEW r \in Recorders, ReportFailure(r)
       PROVE  RowsSoFar'
    BY <2>12 DEF ReportFailure, Goto
  <2>13. ASSUME NEW r \in Recorders, EndFailed(r)
       PROVE  RowsSoFar'
    BY <2>13 DEF EndFailed, EndSession, Goto
  <2>14. ASSUME NEW c \in Callers, Start(c)
       PROVE  RowsSoFar'
    BY <2>14 DEF Start, Call, At
  <2>15. ASSUME NEW c \in Callers, Stop(c)
       PROVE  RowsSoFar'
    BY <2>15 DEF Stop, Call, At
  <2>16. ASSUME NEW c \in Callers, Notify(c)
       PROVE  RowsSoFar'
    BY <2>16 DEF Notify, At
  <2>17. ASSUME NEW c \in Callers, Enter(c)
       PROVE  RowsSoFar'
    BY <2>17 DEF Enter, At
  <2>18. ASSUME NEW c \in Callers, Join(c)
       PROVE  RowsSoFar'
    BY <2>18 DEF Join, At
  <2>19. ASSUME NEW c \in Callers, LastFlush(c)
       PROVE  RowsSoFar'
    BY <2>19 DEF LastFlush, Swap, At
  <2>20. ASSUME NEW c \in Callers, LastWrite(c)
       PROVE  RowsSoFar'
    BY <2>20 DEF LastWrite, Write, At
  <2>21. ASSUME NEW c \in Callers, LastWriteFails(c)
       PROVE  RowsSoFar'
    BY <2>21 DEF LastWriteFails, WriteFails, Leave, At
  <2>22. ASSUME NEW c \in Callers, End(c)
       PROVE  RowsSoFar'
    BY <2>22 DEF End, EndSession, At
  <2>23. ASSUME NEW c \in Callers, EndFails(c)
       PROVE  RowsSoFar'
    BY <2>23 DEF EndFails, Leave, At
  <2>24. ASSUME NEW c \in Callers, OpenSession(c)
       PROVE  RowsSoFar'
    BY <2>24 DEF OpenSession, At
  <2>25. ASSUME NEW c \in Callers, OpenFails(c)
       PROVE  RowsSoFar'
    BY <2>25 DEF OpenFails, Leave, At
  <2>26. ASSUME NEW c \in Callers, Declare(c)
       PROVE  RowsSoFar'
    BY <2>26 DEF Declare, Leave, At, Goto
  <2>27. ASSUME NEW c \in Callers, DeclareFails(c)
       PROVE  RowsSoFar'
    BY <2>27 DEF DeclareFails, Leave, At
  <2> QED
    BY <1>2, NextCases, <2>1, <2>2, <2>3, <2>4, <2>5, <2>6, <2>7, <2>8, <2>9,
       <2>10, <2>11, <2>12, <2>13, <2>14, <2>15, <2>16, <2>17, <2>18,
       <2>19, <2>20, <2>21, <2>22, <2>23, <2>24, <2>25, <2>26, <2>27
<1> QED BY <1>1, <1>2

\* Every step keeps this part of the invariant.
LEMMA FlushStep ==
    ASSUME IInv, [Next]_vars
    PROVE  FlushInv'
<1> USE RecordingAssumption DEF Recorders, Rows, Reporters, ThreadStates, LockedSteps, Steps, TypeOK, StoreTypes, RecorderTypes, RowTypes, ActorTypes, IInv, RowInv, Unwritten, Deliveries, FlushInv, LockInv, UseInv, BirthInv, slotVars, storeVars, threadVars, rowVars, reportVars, callVars
<1>1. CASE UNCHANGED vars
  BY <1>1 DEF vars
<1>2. CASE Next
  <2>1. ASSUME NEW s \in Sources, Read(s)
       PROVE  FlushInv'
    BY <2>1 DEF Read
  <2>2. ASSUME NEW s \in Sources, Deliver(s)
       PROVE  FlushInv'
    BY <2>2 DEF Deliver, Buffered
  <2>3. ASSUME NEW e \in Emitters, Report(e)
       PROVE  FlushInv'
    BY <2>3 DEF Report
  <2>4. ASSUME NEW e \in Emitters, Unwind(e)
       PROVE  FlushInv'
    BY <2>4 DEF Unwind
  <2>5. ASSUME NEW x \in Reporters, Reread(x)
       PROVE  FlushInv'
    BY <2>5 DEF Reread
  <2>6. ASSUME NEW x \in Reporters, Append(x)
       PROVE  FlushInv'
    BY <2>6 DEF Append, Buffered
  <2>7. ASSUME NEW r \in Recorders, Wake(r)
       PROVE  FlushInv'
    BY <2>7 DEF Wake, Goto
  <2>8. ASSUME NEW r \in Recorders, Take(r)
       PROVE  FlushInv'
    BY <2>8 DEF Take, Swap, Goto
  <2>9. ASSUME NEW r \in Recorders, Written(r)
       PROVE  FlushInv'
    BY <2>9 DEF Written, Write, Goto
  <2>10. ASSUME NEW r \in Recorders, FlushFails(r)
       PROVE  FlushInv'
    BY <2>10 DEF FlushFails, WriteFails, Goto
  <2>11. ASSUME NEW r \in Recorders, Detach(r)
       PROVE  FlushInv'
    BY <2>11 DEF Detach, Goto
  <2>12. ASSUME NEW r \in Recorders, ReportFailure(r)
       PROVE  FlushInv'
    BY <2>12 DEF ReportFailure, Goto
  <2>13. ASSUME NEW r \in Recorders, EndFailed(r)
       PROVE  FlushInv'
    BY <2>13 DEF EndFailed, EndSession, Goto
  <2>14. ASSUME NEW c \in Callers, Start(c)
       PROVE  FlushInv'
    BY <2>14 DEF Start, Call, At
  <2>15. ASSUME NEW c \in Callers, Stop(c)
       PROVE  FlushInv'
    BY <2>15 DEF Stop, Call, At
  <2>16. ASSUME NEW c \in Callers, Notify(c)
       PROVE  FlushInv'
    BY <2>16 DEF Notify, At
  <2>17. ASSUME NEW c \in Callers, Enter(c)
       PROVE  FlushInv'
    BY <2>17 DEF Enter, At
  <2>18. ASSUME NEW c \in Callers, Join(c)
       PROVE  FlushInv'
    BY <2>18 DEF Join, At
  <2>19. ASSUME NEW c \in Callers, LastFlush(c)
       PROVE  FlushInv'
    BY <2>19 DEF LastFlush, Swap, At
  <2>20. ASSUME NEW c \in Callers, LastWrite(c)
       PROVE  FlushInv'
    BY <2>20 DEF LastWrite, Write, At
  <2>21. ASSUME NEW c \in Callers, LastWriteFails(c)
       PROVE  FlushInv'
    BY <2>21 DEF LastWriteFails, WriteFails, Leave, At
  <2>22. ASSUME NEW c \in Callers, End(c)
       PROVE  FlushInv'
    BY <2>22 DEF End, EndSession, At
  <2>23. ASSUME NEW c \in Callers, EndFails(c)
       PROVE  FlushInv'
    BY <2>23 DEF EndFails, Leave, At
  <2>24. ASSUME NEW c \in Callers, OpenSession(c)
       PROVE  FlushInv'
    BY <2>24 DEF OpenSession, At
  <2>25. ASSUME NEW c \in Callers, OpenFails(c)
       PROVE  FlushInv'
    BY <2>25 DEF OpenFails, Leave, At
  <2>26. ASSUME NEW c \in Callers, Declare(c)
       PROVE  FlushInv'
    <3>1. /\ step[c] = "declare" /\ step' = [step EXCEPT ![c] = "idle"]
          /\ thread' = [thread EXCEPT ![opened] = "waiting"] /\ taken' = taken
      BY <2>26 DEF Declare, Leave, At, Goto
    <3>2. rigLock = c /\ opened \in Recorders /\ taken[opened] = {}
      BY <3>1
    <3>3. \A q \in Recorders : taken[q] # {} => thread[q] = "writing" /\ q # opened
      BY <3>1, <3>2
    <3> QED BY <3>1, <3>3
  <2>27. ASSUME NEW c \in Callers, DeclareFails(c)
       PROVE  FlushInv'
    BY <2>27 DEF DeclareFails, Leave, At
  <2> QED
    BY <1>2, NextCases, <2>1, <2>2, <2>3, <2>4, <2>5, <2>6, <2>7, <2>8, <2>9,
       <2>10, <2>11, <2>12, <2>13, <2>14, <2>15, <2>16, <2>17, <2>18,
       <2>19, <2>20, <2>21, <2>22, <2>23, <2>24, <2>25, <2>26, <2>27
<1> QED BY <1>1, <1>2

\* Every step keeps this part of the invariant.
LEMMA ClosedStep ==
    ASSUME IInv, [Next]_vars
    PROVE  ClosedInv'
<1> USE RecordingAssumption DEF Recorders, Rows, Reporters, ThreadStates, LockedSteps, Steps, TypeOK, StoreTypes, RecorderTypes, RowTypes, ActorTypes, IInv, RowInv, Unwritten, Deliveries, ClosedInv, LockInv, UseInv, slotVars, storeVars, threadVars, rowVars, reportVars, callVars
<1>1. CASE UNCHANGED vars
  BY <1>1 DEF vars
<1>2. CASE Next
  <2>1. ASSUME NEW s \in Sources, Read(s)
       PROVE  ClosedInv'
    BY <2>1 DEF Read
  <2>2. ASSUME NEW s \in Sources, Deliver(s)
       PROVE  ClosedInv'
    BY <2>2 DEF Deliver, Buffered
  <2>3. ASSUME NEW e \in Emitters, Report(e)
       PROVE  ClosedInv'
    BY <2>3 DEF Report
  <2>4. ASSUME NEW e \in Emitters, Unwind(e)
       PROVE  ClosedInv'
    BY <2>4 DEF Unwind
  <2>5. ASSUME NEW x \in Reporters, Reread(x)
       PROVE  ClosedInv'
    BY <2>5 DEF Reread
  <2>6. ASSUME NEW x \in Reporters, Append(x)
       PROVE  ClosedInv'
    BY <2>6 DEF Append, Buffered
  <2>7. ASSUME NEW r \in Recorders, Wake(r)
       PROVE  ClosedInv'
    BY <2>7 DEF Wake, Goto
  <2>8. ASSUME NEW r \in Recorders, Take(r)
       PROVE  ClosedInv'
    BY <2>8 DEF Take, Swap, Goto
  <2>9. ASSUME NEW r \in Recorders, Written(r)
       PROVE  ClosedInv'
    BY <2>9 DEF Written, Write, Goto
  <2>10. ASSUME NEW r \in Recorders, FlushFails(r)
       PROVE  ClosedInv'
    BY <2>10 DEF FlushFails, WriteFails, Goto
  <2>11. ASSUME NEW r \in Recorders, Detach(r)
       PROVE  ClosedInv'
    BY <2>11 DEF Detach, Goto
  <2>12. ASSUME NEW r \in Recorders, ReportFailure(r)
       PROVE  ClosedInv'
    BY <2>12 DEF ReportFailure, Goto
  <2>13. ASSUME NEW r \in Recorders, EndFailed(r)
       PROVE  ClosedInv'
    BY <2>13 DEF EndFailed, EndSession, Goto
  <2>14. ASSUME NEW c \in Callers, Start(c)
       PROVE  ClosedInv'
    BY <2>14 DEF Start, Call, At
  <2>15. ASSUME NEW c \in Callers, Stop(c)
       PROVE  ClosedInv'
    BY <2>15 DEF Stop, Call, At
  <2>16. ASSUME NEW c \in Callers, Notify(c)
       PROVE  ClosedInv'
    BY <2>16 DEF Notify, At
  <2>17. ASSUME NEW c \in Callers, Enter(c)
       PROVE  ClosedInv'
    BY <2>17 DEF Enter, At
  <2>18. ASSUME NEW c \in Callers, Join(c)
       PROVE  ClosedInv'
    BY <2>18 DEF Join, At
  <2>19. ASSUME NEW c \in Callers, LastFlush(c)
       PROVE  ClosedInv'
    BY <2>19 DEF LastFlush, Swap, At
  <2>20. ASSUME NEW c \in Callers, LastWrite(c)
       PROVE  ClosedInv'
    BY <2>20 DEF LastWrite, Write, At
  <2>21. ASSUME NEW c \in Callers, LastWriteFails(c)
       PROVE  ClosedInv'
    BY <2>21 DEF LastWriteFails, WriteFails, Leave, At
  <2>22. ASSUME NEW c \in Callers, End(c)
       PROVE  ClosedInv'
    BY <2>22 DEF End, EndSession, At
  <2>23. ASSUME NEW c \in Callers, EndFails(c)
       PROVE  ClosedInv'
    BY <2>23 DEF EndFails, Leave, At
  <2>24. ASSUME NEW c \in Callers, OpenSession(c)
       PROVE  ClosedInv'
    BY <2>24 DEF OpenSession, At
  <2>25. ASSUME NEW c \in Callers, OpenFails(c)
       PROVE  ClosedInv'
    BY <2>25 DEF OpenFails, Leave, At
  <2>26. ASSUME NEW c \in Callers, Declare(c)
       PROVE  ClosedInv'
    BY <2>26 DEF Declare, Leave, At, Goto
  <2>27. ASSUME NEW c \in Callers, DeclareFails(c)
       PROVE  ClosedInv'
    BY <2>27 DEF DeclareFails, Leave, At
  <2> QED
    BY <1>2, NextCases, <2>1, <2>2, <2>3, <2>4, <2>5, <2>6, <2>7, <2>8, <2>9,
       <2>10, <2>11, <2>12, <2>13, <2>14, <2>15, <2>16, <2>17, <2>18,
       <2>19, <2>20, <2>21, <2>22, <2>23, <2>24, <2>25, <2>26, <2>27
<1> QED BY <1>1, <1>2

\* Every step keeps this part of the invariant.
LEMMA HandedStep ==
    ASSUME IInv, [Next]_vars
    PROVE  HandedInv'
<1> USE RecordingAssumption DEF Recorders, Rows, Reporters, ThreadStates, LockedSteps, Steps, TypeOK, StoreTypes, RecorderTypes, RowTypes, ActorTypes, IInv, RowInv, Unwritten, Deliveries, HandedInv, UseInv, BirthInv, slotVars, storeVars, threadVars, rowVars, reportVars, callVars
<1>1. CASE UNCHANGED vars
  BY <1>1 DEF vars
<1>2. CASE Next
  <2>1. ASSUME NEW s \in Sources, Read(s)
       PROVE  HandedInv'
    BY <2>1 DEF Read
  <2>2. ASSUME NEW s \in Sources, Deliver(s)
       PROVE  HandedInv'
    BY <2>2 DEF Deliver, Buffered
  <2>3. ASSUME NEW e \in Emitters, Report(e)
       PROVE  HandedInv'
    BY <2>3 DEF Report
  <2>4. ASSUME NEW e \in Emitters, Unwind(e)
       PROVE  HandedInv'
    BY <2>4 DEF Unwind
  <2>5. ASSUME NEW x \in Reporters, Reread(x)
       PROVE  HandedInv'
    <3>1. thread' = thread
      BY <2>5 DEF Reread
    <3>2. CASE attached \in {r \in Recorders : ~failed[r]}
      <4>1. /\ reporting' = [reporting EXCEPT ![x] = "append"]
            /\ target' = [target EXCEPT ![x] = attached]
        BY <2>5, <3>2 DEF Reread
      <4>2. attached \in Recorders /\ thread[attached] # "unborn"
        BY <3>2
      <4> QED BY <3>1, <4>1, <4>2
    <3>3. CASE attached \notin {r \in Recorders : ~failed[r]}
      BY <2>5, <3>1, <3>3 DEF Reread
    <3> QED BY <3>2, <3>3
  <2>6. ASSUME NEW x \in Reporters, Append(x)
       PROVE  HandedInv'
    BY <2>6 DEF Append, Buffered
  <2>7. ASSUME NEW r \in Recorders, Wake(r)
       PROVE  HandedInv'
    BY <2>7 DEF Wake, Goto
  <2>8. ASSUME NEW r \in Recorders, Take(r)
       PROVE  HandedInv'
    BY <2>8 DEF Take, Swap, Goto
  <2>9. ASSUME NEW r \in Recorders, Written(r)
       PROVE  HandedInv'
    BY <2>9 DEF Written, Write, Goto
  <2>10. ASSUME NEW r \in Recorders, FlushFails(r)
       PROVE  HandedInv'
    BY <2>10 DEF FlushFails, WriteFails, Goto
  <2>11. ASSUME NEW r \in Recorders, Detach(r)
       PROVE  HandedInv'
    BY <2>11 DEF Detach, Goto
  <2>12. ASSUME NEW r \in Recorders, ReportFailure(r)
       PROVE  HandedInv'
    BY <2>12 DEF ReportFailure, Goto
  <2>13. ASSUME NEW r \in Recorders, EndFailed(r)
       PROVE  HandedInv'
    BY <2>13 DEF EndFailed, EndSession, Goto
  <2>14. ASSUME NEW c \in Callers, Start(c)
       PROVE  HandedInv'
    BY <2>14 DEF Start, Call, At
  <2>15. ASSUME NEW c \in Callers, Stop(c)
       PROVE  HandedInv'
    BY <2>15 DEF Stop, Call, At
  <2>16. ASSUME NEW c \in Callers, Notify(c)
       PROVE  HandedInv'
    BY <2>16 DEF Notify, At
  <2>17. ASSUME NEW c \in Callers, Enter(c)
       PROVE  HandedInv'
    BY <2>17 DEF Enter, At
  <2>18. ASSUME NEW c \in Callers, Join(c)
       PROVE  HandedInv'
    BY <2>18 DEF Join, At
  <2>19. ASSUME NEW c \in Callers, LastFlush(c)
       PROVE  HandedInv'
    BY <2>19 DEF LastFlush, Swap, At
  <2>20. ASSUME NEW c \in Callers, LastWrite(c)
       PROVE  HandedInv'
    BY <2>20 DEF LastWrite, Write, At
  <2>21. ASSUME NEW c \in Callers, LastWriteFails(c)
       PROVE  HandedInv'
    BY <2>21 DEF LastWriteFails, WriteFails, Leave, At
  <2>22. ASSUME NEW c \in Callers, End(c)
       PROVE  HandedInv'
    BY <2>22 DEF End, EndSession, At
  <2>23. ASSUME NEW c \in Callers, EndFails(c)
       PROVE  HandedInv'
    BY <2>23 DEF EndFails, Leave, At
  <2>24. ASSUME NEW c \in Callers, OpenSession(c)
       PROVE  HandedInv'
    BY <2>24 DEF OpenSession, At
  <2>25. ASSUME NEW c \in Callers, OpenFails(c)
       PROVE  HandedInv'
    BY <2>25 DEF OpenFails, Leave, At
  <2>26. ASSUME NEW c \in Callers, Declare(c)
       PROVE  HandedInv'
    BY <2>26 DEF Declare, Leave, At, Goto
  <2>27. ASSUME NEW c \in Callers, DeclareFails(c)
       PROVE  HandedInv'
    BY <2>27 DEF DeclareFails, Leave, At
  <2> QED
    BY <1>2, NextCases, <2>1, <2>2, <2>3, <2>4, <2>5, <2>6, <2>7, <2>8, <2>9,
       <2>10, <2>11, <2>12, <2>13, <2>14, <2>15, <2>16, <2>17, <2>18,
       <2>19, <2>20, <2>21, <2>22, <2>23, <2>24, <2>25, <2>26, <2>27
<1> QED BY <1>1, <1>2

\* Every step keeps this part of the invariant.
LEMMA CompleteStep ==
    ASSUME IInv, [Next]_vars
    PROVE  EndsComplete'
<1> USE RecordingAssumption DEF Recorders, Rows, Reporters, ThreadStates, LockedSteps, Steps, TypeOK, StoreTypes, RecorderTypes, RowTypes, ActorTypes, IInv, RowInv, Unwritten, Deliveries, EndsComplete, FlushInv, ClosedInv, LockInv, UseInv, BirthInv, FailureInv, RowsSoFar, slotVars, storeVars, threadVars, rowVars, reportVars, callVars
<1>1. CASE UNCHANGED vars
  BY <1>1 DEF vars
<1>2. CASE Next
  <2>1. ASSUME NEW s \in Sources, Read(s)
       PROVE  EndsComplete'
    BY <2>1 DEF Read
  <2>2. ASSUME NEW s \in Sources, Deliver(s)
       PROVE  EndsComplete'
    BY <2>2 DEF Deliver, Buffered
  <2>3. ASSUME NEW e \in Emitters, Report(e)
       PROVE  EndsComplete'
    BY <2>3 DEF Report
  <2>4. ASSUME NEW e \in Emitters, Unwind(e)
       PROVE  EndsComplete'
    BY <2>4 DEF Unwind
  <2>5. ASSUME NEW x \in Reporters, Reread(x)
       PROVE  EndsComplete'
    BY <2>5 DEF Reread
  <2>6. ASSUME NEW x \in Reporters, Append(x)
       PROVE  EndsComplete'
    BY <2>6 DEF Append, Buffered
  <2>7. ASSUME NEW r \in Recorders, Wake(r)
       PROVE  EndsComplete'
    BY <2>7 DEF Wake, Goto
  <2>8. ASSUME NEW r \in Recorders, Take(r)
       PROVE  EndsComplete'
    BY <2>8 DEF Take, Swap, Goto
  <2>9. ASSUME NEW r \in Recorders, Written(r)
       PROVE  EndsComplete'
    BY <2>9 DEF Written, Write, Goto
  <2>10. ASSUME NEW r \in Recorders, FlushFails(r)
       PROVE  EndsComplete'
    BY <2>10 DEF FlushFails, WriteFails, Goto
  <2>11. ASSUME NEW r \in Recorders, Detach(r)
       PROVE  EndsComplete'
    BY <2>11 DEF Detach, Goto
  <2>12. ASSUME NEW r \in Recorders, ReportFailure(r)
       PROVE  EndsComplete'
    BY <2>12 DEF ReportFailure, Goto
  <2>13. ASSUME NEW r \in Recorders, EndFailed(r)
       PROVE  EndsComplete'
    BY <2>13 DEF EndFailed, EndSession, Goto
  <2>14. ASSUME NEW c \in Callers, Start(c)
       PROVE  EndsComplete'
    BY <2>14 DEF Start, Call, At
  <2>15. ASSUME NEW c \in Callers, Stop(c)
       PROVE  EndsComplete'
    BY <2>15 DEF Stop, Call, At
  <2>16. ASSUME NEW c \in Callers, Notify(c)
       PROVE  EndsComplete'
    BY <2>16 DEF Notify, At
  <2>17. ASSUME NEW c \in Callers, Enter(c)
       PROVE  EndsComplete'
    BY <2>17 DEF Enter, At
  <2>18. ASSUME NEW c \in Callers, Join(c)
       PROVE  EndsComplete'
    BY <2>18 DEF Join, At
  <2>19. ASSUME NEW c \in Callers, LastFlush(c)
       PROVE  EndsComplete'
    BY <2>19 DEF LastFlush, Swap, At
  <2>20. ASSUME NEW c \in Callers, LastWrite(c)
       PROVE  EndsComplete'
    BY <2>20 DEF LastWrite, Write, At
  <2>21. ASSUME NEW c \in Callers, LastWriteFails(c)
       PROVE  EndsComplete'
    BY <2>21 DEF LastWriteFails, WriteFails, Leave, At
  <2>22. ASSUME NEW c \in Callers, End(c)
       PROVE  EndsComplete'
    <3>1. /\ step[c] = "end" /\ session' = [session EXCEPT ![closing[c]] = "ended"]
          /\ UNCHANGED <<buffer, taken, events, failed>>
      BY <2>22 DEF End, EndSession
    <3>2. closing[c] \in Recorders /\ rigLock = c
      BY <3>1
    <3>3. thread[closing[c]] = "done"
      BY <3>1, <3>2
    <3>4. taken[closing[c]] = {}
      BY <3>1, <3>2, <3>3
    <3>5. Deliveries(buffer[closing[c]]) = {}
      BY <3>1, <3>2
    <3> QED BY <3>1, <3>2, <3>4, <3>5
  <2>23. ASSUME NEW c \in Callers, EndFails(c)
       PROVE  EndsComplete'
    BY <2>23 DEF EndFails, Leave, At
  <2>24. ASSUME NEW c \in Callers, OpenSession(c)
       PROVE  EndsComplete'
    BY <2>24 DEF OpenSession, At
  <2>25. ASSUME NEW c \in Callers, OpenFails(c)
       PROVE  EndsComplete'
    BY <2>25 DEF OpenFails, Leave, At
  <2>26. ASSUME NEW c \in Callers, Declare(c)
       PROVE  EndsComplete'
    BY <2>26 DEF Declare, Leave, At, Goto
  <2>27. ASSUME NEW c \in Callers, DeclareFails(c)
       PROVE  EndsComplete'
    BY <2>27 DEF DeclareFails, Leave, At
  <2> QED
    BY <1>2, NextCases, <2>1, <2>2, <2>3, <2>4, <2>5, <2>6, <2>7, <2>8, <2>9,
       <2>10, <2>11, <2>12, <2>13, <2>14, <2>15, <2>16, <2>17, <2>18,
       <2>19, <2>20, <2>21, <2>22, <2>23, <2>24, <2>25, <2>26, <2>27
<1> QED BY <1>1, <1>2

\* Every step keeps the types.
LEMMA TypeStep ==
    ASSUME IInv, [Next]_vars
    PROVE  TypeOK'
BY StoreTypesStep, RecorderTypesStep, RowTypesStep, ActorTypesStep DEF TypeOK, IInv

\* The inductive invariant holds in every state.
THEOREM Invariance == Spec => []IInv
<1>1. Init => IInv
  BY InitInv
<1>2. IInv /\ [Next]_vars => IInv'
  BY TypeStep, LockStep, BirthStep, UseStep, FailureStep, OrderStep, OnceStep, SoFarStep,
     FlushStep, ClosedStep, HandedStep, CompleteStep DEF IInv, RowInv
<1> QED BY <1>1, <1>2, PTL DEF Spec

\* Every variable has its type.
THEOREM TypeCorrect == Spec => []TypeOK
BY Invariance, PTL DEF IInv

\* What is in use, told by the holder of the rig lock.
LEMMA InUseIs ==
    ASSUME IInv, NEW r \in Recorders
    PROVE  InUse(r) <=> \/ attached = r
                        \/ rigLock # None /\ closing[rigLock] = r
                        \/ rigLock # None /\ r = opened /\ step[rigLock] = "declare"
<1>1. rigLock \in Callers \cup {None} /\ None \notin Recorders /\ None \notin Callers
  BY RecordingAssumption DEF IInv, TypeOK, StoreTypes, Recorders
<1>2. Closing(r) <=> rigLock # None /\ closing[rigLock] = r
  <2>1. ASSUME NEW c \in Callers, closing[c] = r
        PROVE  c = rigLock
    BY <1>1, <2>1 DEF IInv, LockInv, LockedSteps, TypeOK, ActorTypes
  <2> QED BY <1>1, <2>1 DEF Closing
<1>3. Opening(r) <=> rigLock # None /\ r = opened /\ step[rigLock] = "declare"
  <2>1. ASSUME NEW c \in Callers, step[c] = "declare"
        PROVE  c = rigLock
    BY <2>1 DEF IInv, LockInv, LockedSteps, TypeOK, ActorTypes
  <2> QED BY <1>1, <2>1 DEF Opening
<1> QED BY <1>2, <1>3 DEF InUse

\* At most one recorder is in use.
THEOREM OneInUseHolds == Spec => []OneInUse
<1>1. ASSUME IInv PROVE OneInUse
  <2>1. ASSUME NEW r \in Recorders, NEW q \in Recorders, InUse(r), InUse(q)
        PROVE  r = q
    <3>1. CASE rigLock = None
      BY <1>1, <2>1, <3>1, InUseIs
    <3>2. CASE rigLock # None
      <4>1. attached = None /\ rigLock \in Callers
        BY <1>1, <3>2 DEF IInv, LockInv, TypeOK, StoreTypes
      <4>2. step[rigLock] = "declare" => closing[rigLock] = None
        BY <1>1, <4>1 DEF IInv, LockInv
      <4>3. r # None /\ q # None
        BY RecordingAssumption DEF Recorders
      <4> QED BY <1>1, <2>1, <4>1, <4>2, <4>3, InUseIs
    <3> QED BY <3>1, <3>2
  <2> QED BY <2>1 DEF OneInUse
<1> QED BY <1>1, Invariance, PTL

\* Rows go to the store in the order they were buffered.
THEOREM OrderHolds == Spec => []WrittenInOrder
BY Invariance, PTL DEF IInv, RowInv

\* No row is recorded twice.
THEOREM OnceHolds == Spec => []RowsOnce
BY Invariance, PTL DEF IInv, RowInv

\* A session its recorder did not fail ends with every delivery in it.
THEOREM CompleteHolds == Spec => []EndsComplete
BY Invariance, PTL DEF IInv

\* The failure callback takes no slot but its own recorder's.
THEOREM OwnHolds == Spec => []FailureDetachesItsOwn
<1>1. IInv => FailureDetachesItsOwn
  BY DEF IInv, FailureInv, FailureDetachesItsOwn
<1> QED BY <1>1, Invariance, PTL

\* A recorder that failed and was detached stays out of use.
THEOREM DetachedHolds == Spec => []FailedStaysDetached
<1>1. ASSUME IInv PROVE FailedStaysDetached
  <2>1. ASSUME NEW r \in Recorders, detached[r] # None PROVE ~InUse(r)
    <3>1. failed[r] /\ thread[r] \in {"reporting", "ending", "done"}
      BY <1>1, <2>1 DEF IInv, FailureInv, TypeOK, RecorderTypes
    <3>2. ~Opening(r)
      BY <1>1, <3>1 DEF IInv, BirthInv, Opening
    <3>3. attached # r /\ ~Closing(r)
      BY <1>1, <3>1 DEF IInv, UseInv, Closing
    <3> QED BY <3>2, <3>3 DEF InUse
  <2> QED BY <2>1 DEF FailedStaysDetached
<1> QED BY <1>1, Invariance, PTL

\* No step touches a session that has ended.
LEMMA NothingStep ==
    ASSUME IInv, [Next]_vars
    PROVE  \A q \in Recorders : session[q] = "ended" => session'[q] = "ended" /\ stored'[q] = stored[q]
<1> USE RecordingAssumption DEF Recorders, Rows, Reporters, ThreadStates, LockedSteps, Steps, TypeOK, StoreTypes, RecorderTypes, RowTypes, ActorTypes, IInv, LockInv, BirthInv, UseInv, FailureInv, slotVars, storeVars, threadVars, rowVars, reportVars, callVars
<1>1. CASE UNCHANGED vars
  BY <1>1 DEF vars
<1>2. CASE Next
  <2>1. ASSUME NEW s \in Sources, Read(s)
       PROVE  \A q \in Recorders : session[q] = "ended" => session'[q] = "ended" /\ stored'[q] = stored[q]
    BY <2>1 DEF Read
  <2>2. ASSUME NEW s \in Sources, Deliver(s)
       PROVE  \A q \in Recorders : session[q] = "ended" => session'[q] = "ended" /\ stored'[q] = stored[q]
    BY <2>2 DEF Deliver, Buffered
  <2>3. ASSUME NEW e \in Emitters, Report(e)
       PROVE  \A q \in Recorders : session[q] = "ended" => session'[q] = "ended" /\ stored'[q] = stored[q]
    BY <2>3 DEF Report
  <2>4. ASSUME NEW e \in Emitters, Unwind(e)
       PROVE  \A q \in Recorders : session[q] = "ended" => session'[q] = "ended" /\ stored'[q] = stored[q]
    BY <2>4 DEF Unwind
  <2>5. ASSUME NEW x \in Reporters, Reread(x)
       PROVE  \A q \in Recorders : session[q] = "ended" => session'[q] = "ended" /\ stored'[q] = stored[q]
    BY <2>5 DEF Reread
  <2>6. ASSUME NEW x \in Reporters, Append(x)
       PROVE  \A q \in Recorders : session[q] = "ended" => session'[q] = "ended" /\ stored'[q] = stored[q]
    BY <2>6 DEF Append, Buffered
  <2>7. ASSUME NEW r \in Recorders, Wake(r)
       PROVE  \A q \in Recorders : session[q] = "ended" => session'[q] = "ended" /\ stored'[q] = stored[q]
    BY <2>7 DEF Wake, Goto
  <2>8. ASSUME NEW r \in Recorders, Take(r)
       PROVE  \A q \in Recorders : session[q] = "ended" => session'[q] = "ended" /\ stored'[q] = stored[q]
    BY <2>8 DEF Take, Swap, Goto
  <2>9. ASSUME NEW r \in Recorders, Written(r)
       PROVE  \A q \in Recorders : session[q] = "ended" => session'[q] = "ended" /\ stored'[q] = stored[q]
    <3>1. thread[r] = "writing" /\ InUse(r)
      BY <2>9 DEF Written, IInv, UseInv
    <3>2. ~Opening(r)
      BY <3>1 DEF Opening
    <3>3. session[r] = "open"
      BY <3>1, <3>2 DEF InUse, Closing
    <3>4. \A q \in Recorders : q # r => stored'[q] = stored[q]
      BY <2>9 DEF Written, Write, WriteFails
    <3>5. session' = session
      BY <2>9 DEF Written
    <3> QED BY <3>3, <3>4, <3>5
  <2>10. ASSUME NEW r \in Recorders, FlushFails(r)
       PROVE  \A q \in Recorders : session[q] = "ended" => session'[q] = "ended" /\ stored'[q] = stored[q]
    <3>1. thread[r] = "writing" /\ InUse(r)
      BY <2>10 DEF FlushFails, IInv, UseInv
    <3>2. ~Opening(r)
      BY <3>1 DEF Opening
    <3>3. session[r] = "open"
      BY <3>1, <3>2 DEF InUse, Closing
    <3>4. \A q \in Recorders : q # r => stored'[q] = stored[q]
      BY <2>10 DEF FlushFails, Write, WriteFails
    <3>5. session' = session
      BY <2>10 DEF FlushFails
    <3> QED BY <3>3, <3>4, <3>5
  <2>11. ASSUME NEW r \in Recorders, Detach(r)
       PROVE  \A q \in Recorders : session[q] = "ended" => session'[q] = "ended" /\ stored'[q] = stored[q]
    BY <2>11 DEF Detach, Goto
  <2>12. ASSUME NEW r \in Recorders, ReportFailure(r)
       PROVE  \A q \in Recorders : session[q] = "ended" => session'[q] = "ended" /\ stored'[q] = stored[q]
    BY <2>12 DEF ReportFailure, Goto
  <2>13. ASSUME NEW r \in Recorders, EndFailed(r)
       PROVE  \A q \in Recorders : session[q] = "ended" => session'[q] = "ended" /\ stored'[q] = stored[q]
    BY <2>13 DEF EndFailed, EndSession, Goto
  <2>14. ASSUME NEW c \in Callers, Start(c)
       PROVE  \A q \in Recorders : session[q] = "ended" => session'[q] = "ended" /\ stored'[q] = stored[q]
    BY <2>14 DEF Start, Call, At
  <2>15. ASSUME NEW c \in Callers, Stop(c)
       PROVE  \A q \in Recorders : session[q] = "ended" => session'[q] = "ended" /\ stored'[q] = stored[q]
    BY <2>15 DEF Stop, Call, At
  <2>16. ASSUME NEW c \in Callers, Notify(c)
       PROVE  \A q \in Recorders : session[q] = "ended" => session'[q] = "ended" /\ stored'[q] = stored[q]
    BY <2>16 DEF Notify, At
  <2>17. ASSUME NEW c \in Callers, Enter(c)
       PROVE  \A q \in Recorders : session[q] = "ended" => session'[q] = "ended" /\ stored'[q] = stored[q]
    BY <2>17 DEF Enter, At
  <2>18. ASSUME NEW c \in Callers, Join(c)
       PROVE  \A q \in Recorders : session[q] = "ended" => session'[q] = "ended" /\ stored'[q] = stored[q]
    BY <2>18 DEF Join, At
  <2>19. ASSUME NEW c \in Callers, LastFlush(c)
       PROVE  \A q \in Recorders : session[q] = "ended" => session'[q] = "ended" /\ stored'[q] = stored[q]
    BY <2>19 DEF LastFlush, Swap, At
  <2>20. ASSUME NEW c \in Callers, LastWrite(c)
       PROVE  \A q \in Recorders : session[q] = "ended" => session'[q] = "ended" /\ stored'[q] = stored[q]
    BY <2>20 DEF LastWrite, Write, At
  <2>21. ASSUME NEW c \in Callers, LastWriteFails(c)
       PROVE  \A q \in Recorders : session[q] = "ended" => session'[q] = "ended" /\ stored'[q] = stored[q]
    BY <2>21 DEF LastWriteFails, WriteFails, Leave, At
  <2>22. ASSUME NEW c \in Callers, End(c)
       PROVE  \A q \in Recorders : session[q] = "ended" => session'[q] = "ended" /\ stored'[q] = stored[q]
    BY <2>22 DEF End, EndSession, At
  <2>23. ASSUME NEW c \in Callers, EndFails(c)
       PROVE  \A q \in Recorders : session[q] = "ended" => session'[q] = "ended" /\ stored'[q] = stored[q]
    BY <2>23 DEF EndFails, Leave, At
  <2>24. ASSUME NEW c \in Callers, OpenSession(c)
       PROVE  \A q \in Recorders : session[q] = "ended" => session'[q] = "ended" /\ stored'[q] = stored[q]
    BY <2>24 DEF OpenSession, At
  <2>25. ASSUME NEW c \in Callers, OpenFails(c)
       PROVE  \A q \in Recorders : session[q] = "ended" => session'[q] = "ended" /\ stored'[q] = stored[q]
    BY <2>25 DEF OpenFails, Leave, At
  <2>26. ASSUME NEW c \in Callers, Declare(c)
       PROVE  \A q \in Recorders : session[q] = "ended" => session'[q] = "ended" /\ stored'[q] = stored[q]
    BY <2>26 DEF Declare, Leave, At, Goto
  <2>27. ASSUME NEW c \in Callers, DeclareFails(c)
       PROVE  \A q \in Recorders : session[q] = "ended" => session'[q] = "ended" /\ stored'[q] = stored[q]
    BY <2>27 DEF DeclareFails, Leave, At
  <2> QED
    BY <1>2, NextCases, <2>1, <2>2, <2>3, <2>4, <2>5, <2>6, <2>7, <2>8, <2>9,
       <2>10, <2>11, <2>12, <2>13, <2>14, <2>15, <2>16, <2>17, <2>18,
       <2>19, <2>20, <2>21, <2>22, <2>23, <2>24, <2>25, <2>26, <2>27
<1> QED BY <1>1, <1>2

\* The store never writes to a session that is over.
THEOREM NothingAfterHolds == Spec => NothingAfterTheEnd
<1>1. IInv /\ [Next]_vars =>
         [\A r \in Recorders : session[r] = "ended" =>
             session'[r] = "ended" /\ stored'[r] = stored[r]]_vars
  BY NothingStep
<1> QED BY <1>1, Invariance, PTL DEF Spec, NothingAfterTheEnd

-----------------------------------------------------------------------------
(* While the store works, no delivery is missing.                          *)

Held(r) == Unwritten(r) \cup stored[r]

\* A step that makes no row and takes none from a recorder.
LEMMA HeldStays ==
    ASSUME NoDeliveryMissing, rows' = rows, \A r \in Recorders : Held(r) \subseteq Held(r)'
    PROVE  NoDeliveryMissing'
BY DEF NoDeliveryMissing, Held

\* A row that is made is in its recorder's lists.
LEMMA BufferedIsHeld ==
    ASSUME TypeOK, NoDeliveryMissing, NEW r \in Recorders, NEW asEvents, Buffered(r, asEvents),
           UNCHANGED <<taken, stored>>
    PROVE  NoDeliveryMissing'
<1>1. CASE rows < MaxRows
  <2>1. rows \in Nat /\ rows' = rows + 1
    BY <1>1, RecordingAssumption DEF Buffered, TypeOK, RowTypes
  <2>2. buffer' = [buffer EXCEPT ![r] = @ \cup {rows'}]
    BY <1>1 DEF Buffered
  <2>3. rows' \in Held(r)' /\ \A q \in Recorders : Held(q) \subseteq Held(q)'
    BY <2>2 DEF Held, Unwritten, TypeOK, RowTypes
  <2>4. \A n \in 1..rows' : n \in 1..rows \/ n = rows'
    BY <2>1
  <2> QED BY <2>3, <2>4 DEF NoDeliveryMissing, Held
<1>2. CASE ~(rows < MaxRows)
  BY <1>2, HeldStays DEF Buffered, Held, Unwritten
<1> QED BY <1>1, <1>2

\* A swap of lists takes what was in them, if nothing was taken before.
LEMMA SwappedIsHeld ==
    ASSUME TypeOK, NoDeliveryMissing, NEW r \in Recorders, taken[r] = {}, Swap(r)
    PROVE  NoDeliveryMissing'
<1>1. \A q \in Recorders : Held(q) \subseteq Held(q)'
  BY DEF Held, Unwritten, Swap, TypeOK, RowTypes
<1> QED BY <1>1, HeldStays DEF Swap

\* What is written is stored.
LEMMA WrittenIsHeld ==
    ASSUME TypeOK, NoDeliveryMissing, NEW r \in Recorders, Write(r)
    PROVE  NoDeliveryMissing'
<1>1. \A q \in Recorders : Held(q) \subseteq Held(q)'
  BY DEF Held, Unwritten, Write, TypeOK, RowTypes
<1> QED BY <1>1, HeldStays DEF Write

\* A caller that closes a recorder closes one.
LEMMA ClosesOne ==
    ASSUME IInv, NEW c \in Callers, step[c] \in {"flush", "write"}
    PROVE  /\ closing[c] \in Recorders /\ thread[closing[c]] = "done" /\ rigLock = c
           /\ c # None
<1>1. closing[c] # None /\ rigLock = c
  BY DEF IInv, LockInv, LockedSteps
<1>2. closing[c] \in Recorders
  BY <1>1 DEF IInv, TypeOK, ActorTypes
<1>3. thread[closing[c]] = "done"
  BY <1>2 DEF IInv, UseInv
<1> QED BY <1>1, <1>2, <1>3, RecordingAssumption

\* Nothing is out of the lists when they are swapped.
LEMMA NothingTaken ==
    ASSUME IInv, NEW r \in Recorders,
           thread[r] = "flush" \/ \E c \in Callers : step[c] = "flush" /\ closing[c] = r
    PROVE  taken[r] = {}
<1> SUFFICES ASSUME taken[r] # {} PROVE FALSE
  OBVIOUS
<1>1. \/ thread[r] = "writing"
      \/ rigLock # None /\ closing[rigLock] = r /\ step[rigLock] = "write"
  BY DEF IInv, RowInv, FlushInv
<1>2. rigLock # None => rigLock \in Callers
  BY DEF IInv, TypeOK, StoreTypes
<1>3. CASE thread[r] = "flush"
  BY <1>1, <1>2, <1>3, ClosesOne
<1>4. CASE \E c \in Callers : step[c] = "flush" /\ closing[c] = r
  BY <1>1, <1>4, ClosesOne
<1> QED BY <1>3, <1>4

\* An event on its way has a recorder to go to.
LEMMA HandedIsTyped ==
    ASSUME IInv, NEW x \in Reporters, Append(x)
    PROVE  NoDeliveryMissing => NoDeliveryMissing'
BY BufferedIsHeld DEF Append, IInv, RowInv, HandedInv

\* Every step keeps what was held, if the store works.
LEMMA MissingStep ==
    ASSUME ~StoreMayFail, IInv, NoDeliveryMissing, [Next]_vars
    PROVE  NoDeliveryMissing'
<1>1. CASE UNCHANGED rowVars
  BY <1>1, HeldStays DEF rowVars, Held, Unwritten
<1>2. ASSUME NEW s \in Sources, Deliver(s)
      PROVE  NoDeliveryMissing'
  <2>1. CASE attached \in {r \in Recorders : ~failed[r]}
    BY <1>2, <2>1, BufferedIsHeld DEF Deliver, IInv
  <2>2. CASE attached \notin {r \in Recorders : ~failed[r]}
    BY <1>2, <2>2, HeldStays DEF Deliver, Held, Unwritten
  <2> QED BY <2>1, <2>2
<1>3. ASSUME NEW x \in Reporters, Append(x)
      PROVE  NoDeliveryMissing'
  BY <1>3, HandedIsTyped
<1>4. ASSUME NEW r \in Recorders, Take(r)
      PROVE  NoDeliveryMissing'
  BY <1>4, NothingTaken, SwappedIsHeld DEF Take, IInv
<1>5. ASSUME NEW r \in Recorders, Written(r)
      PROVE  NoDeliveryMissing'
  BY <1>5, WrittenIsHeld DEF Written, IInv
<1>6. ASSUME NEW c \in Callers, LastFlush(c)
      PROVE  NoDeliveryMissing'
  <2>1. step[c] = "flush" /\ Swap(closing[c])
    BY <1>6 DEF LastFlush
  <2>2. closing[c] \in Recorders
    BY <2>1, ClosesOne
  <2>3. taken[closing[c]] = {}
    BY <2>1, <2>2, NothingTaken
  <2> QED BY <2>1, <2>2, <2>3, SwappedIsHeld DEF IInv
<1>7. ASSUME NEW c \in Callers, LastWrite(c)
      PROVE  NoDeliveryMissing'
  BY <1>7, ClosesOne, WrittenIsHeld DEF LastWrite, IInv
<1>8. ASSUME NEW r \in Recorders, FlushFails(r)
      PROVE  FALSE
  BY <1>8 DEF FlushFails, WriteFails
<1>9. ASSUME NEW c \in Callers, LastWriteFails(c)
      PROVE  FALSE
  BY <1>9 DEF LastWriteFails, WriteFails
<1>10. CASE \E s \in Sources : Read(s)
  BY <1>1, <1>10 DEF Read
<1>11. CASE \E e \in Emitters : EmitterStep(e)
  BY <1>1, <1>11 DEF EmitterStep, Report, Unwind
<1>12. CASE \E x \in Reporters : Reread(x)
  BY <1>1, <1>12 DEF Reread
<1>13. CASE \E r \in Recorders : Wake(r) \/ Detach(r) \/ ReportFailure(r) \/ EndFailed(r)
  BY <1>1, <1>13 DEF Wake, Detach, ReportFailure, EndFailed
<1>14. CASE \E c \in Callers : \/ Start(c) \/ Stop(c) \/ Notify(c) \/ Enter(c) \/ Join(c) \/ End(c)
                               \/ EndFails(c) \/ OpenSession(c) \/ OpenFails(c) \/ Declare(c)
                               \/ DeclareFails(c)
  BY <1>1, <1>14 DEF Start, Stop, Call, Notify, Enter, Join, End, EndFails, OpenSession, OpenFails,
     Declare, DeclareFails
<1>15. CASE UNCHANGED vars
  BY <1>1, <1>15 DEF vars
<1> QED
  BY <1>2, <1>3, <1>4, <1>5, <1>6, <1>7, <1>8, <1>9, <1>10, <1>11, <1>12, <1>13, <1>14, <1>15
     DEF Next, ReportStep, RecorderStep, CallerStep

\* While the store works, a delivery made while recording is in a session or on its way
\* there, for any number of callers, sessions and rows.
THEOREM NothingMissingHolds ==
    ASSUME ~StoreMayFail
    PROVE  Spec => []NoDeliveryMissing
<1>1. Init => NoDeliveryMissing
  BY DEF Init, NoDeliveryMissing
<1>2. IInv /\ NoDeliveryMissing /\ [Next]_vars => NoDeliveryMissing'
  BY MissingStep
<1> QED BY <1>1, <1>2, Invariance, PTL DEF Spec

-----------------------------------------------------------------------------
(* Recording implements SessionLog.                                        *)

\* A step the session log does not see.
LogSame ==
    \A q \in Recorders : Status(q)' = Status(q) /\ Kept(q)' = Kept(q) /\ Accepted(q)' = Accepted(q)

\* A quiet step stutters in the log.
LEMMA SameStutters ==
    ASSUME LogSame
    PROVE  UNCHANGED Log!logVars
BY DEF LogSame, Log!logVars

\* Enough for a step to be quiet: same rows, same recorders in use.
LEMMA SameIf ==
    ASSUME UNCHANGED <<session, failed, stored, events>>,
           \A q \in Recorders : Unwritten(q)' = Unwritten(q),
           \A q \in Recorders : InUse(q)' <=> InUse(q)
    PROVE  LogSame
BY DEF LogSame, Status, Kept, Accepted, Deliveries

\* A recorder in use that has not failed has its session open.
LEMMA OpenIs ==
    ASSUME IInv, NEW r \in Recorders, InUse(r), ~failed[r]
    PROVE  Status(r) = "open" /\ session[r] = "open"
<1>1. session[r] = "open"
  BY DEF InUse, Closing, Opening, IInv, UseInv, BirthInv
<1> QED BY <1>1 DEF Status

\* At most one session is open.
LEMMA OneOpen ==
    ASSUME IInv, NEW r \in Recorders, NEW q \in Recorders, InUse(r), InUse(q)
    PROVE  r = q
<1>1. CASE rigLock = None
  BY <1>1, InUseIs
<1>2. CASE rigLock # None
  <2>1. attached = None /\ rigLock \in Callers
    BY <1>2 DEF IInv, LockInv, TypeOK, StoreTypes
  <2>2. step[rigLock] = "declare" => closing[rigLock] = None
    BY <2>1 DEF IInv, LockInv
  <2>3. r # None /\ q # None
    BY RecordingAssumption DEF Recorders
  <2> QED BY <2>1, <2>2, <2>3, InUseIs
<1> QED BY <1>1, <1>2

\* The sorts of step the log does see, in terms of what it sees.
LEMMA ThenOpen ==
    ASSUME NEW r \in Recorders, Status(r) = "none",
           \A q \in Recorders : Status(q) # "open",
           Status(r)' = "open", Kept(r)' = Kept(r), Accepted(r)' = Accepted(r),
           \A q \in Recorders \ {r} :
              Status(q)' = Status(q) /\ Kept(q)' = Kept(q) /\ Accepted(q)' = Accepted(q)
    PROVE  Log!Open(r)
BY DEF Log!Open

\* A row that is buffered is one SessionLog accepts.
LEMMA ThenAccept ==
    ASSUME NEW r \in Recorders, NEW n, Status(r) = "open",
           \A q \in Recorders : \A m \in Accepted(q) : m < n,
           Accepted(r)' = Accepted(r) \cup {n},
           \A q \in Recorders : Status(q)' = Status(q) /\ Kept(q)' = Kept(q),
           \A q \in Recorders \ {r} : Accepted(q)' = Accepted(q)
    PROVE  Log!Accept(r, n)
BY DEF Log!Accept

\* A flush that stores rows keeps accepted ones.
LEMMA ThenKeep ==
    ASSUME NEW r \in Recorders, Status(r) = "open",
           Kept(r) \subseteq Kept(r)', Kept(r)' \subseteq Accepted(r),
           \A m \in Accepted(r) \ Kept(r)', n \in Kept(r)' : n < m,
           \A q \in Recorders : Status(q)' = Status(q) /\ Accepted(q)' = Accepted(q),
           \A q \in Recorders \ {r} : Kept(q)' = Kept(q)
    PROVE  Log!Keep(r)
BY DEF Log!Keep, Log!InOrder

\* The end of a close ends a session that has all it accepted.
LEMMA ThenEnd ==
    ASSUME NEW r \in Recorders, Status(r) = "open", Kept(r) = Accepted(r),
           Status(r)' = "ended",
           \A q \in Recorders : Kept(q)' = Kept(q) /\ Accepted(q)' = Accepted(q),
           \A q \in Recorders \ {r} : Status(q)' = Status(q)
    PROVE  Log!End(r)
BY DEF Log!End

\* A failure, or a close given up, loses what was not stored.
LEMMA ThenLose ==
    ASSUME StoreMayFail, NEW r \in Recorders, Status(r) = "open", Status(r)' = "lost",
           Kept(r) \subseteq Kept(r)', Kept(r)' \subseteq Accepted(r),
           \A m \in Accepted(r) \ Kept(r)', n \in Kept(r)' : n < m,
           Accepted(r)' = Kept(r)',
           \A q \in Recorders \ {r} :
              Status(q)' = Status(q) /\ Kept(q)' = Kept(q) /\ Accepted(q)' = Accepted(q)
    PROVE  Log!Lose(r)
BY DEF Log!Lose, Log!InOrder

\* Steps of threads that move no row and open or end no session.
LEMMA QuietStep ==
    ASSUME IInv,
           \/ \E s \in Sources : Read(s)
           \/ \E e \in Emitters : Report(e) \/ Unwind(e)
           \/ \E x \in Reporters : Reread(x)
           \/ \E r \in Recorders : Wake(r) \/ Detach(r) \/ ReportFailure(r) \/ EndFailed(r)
           \/ \E c \in Callers : Start(c) \/ Stop(c) \/ Notify(c) \/ Enter(c) \/ Join(c)
    PROVE  LogSame
<1> USE RecordingAssumption DEF Recorders, Rows, Reporters, ThreadStates, LockedSteps, Steps, TypeOK, StoreTypes, RecorderTypes, RowTypes, ActorTypes, IInv, LockInv, BirthInv, UseInv, FailureInv,
      FlushInv, LogSame, InUse, Closing, Opening, Status, Kept, Accepted, Deliveries, Unwritten, slotVars, storeVars, threadVars, rowVars, reportVars, callVars
<1>1. ASSUME NEW s \in Sources, Read(s)
     PROVE  LogSame
  BY <1>1 DEF Read
<1>2. ASSUME NEW e \in Emitters, Report(e)
     PROVE  LogSame
  BY <1>2 DEF Report
<1>3. ASSUME NEW e \in Emitters, Unwind(e)
     PROVE  LogSame
  BY <1>3 DEF Unwind
<1>4. ASSUME NEW x \in Reporters, Reread(x)
     PROVE  LogSame
  BY <1>4 DEF Reread
<1>5. ASSUME NEW r \in Recorders, Wake(r)
     PROVE  LogSame
  BY <1>5 DEF Wake, Goto
<1>6. ASSUME NEW r \in Recorders, Detach(r)
     PROVE  LogSame
  BY <1>6 DEF Detach, Goto
<1>7. ASSUME NEW r \in Recorders, ReportFailure(r)
     PROVE  LogSame
  BY <1>7 DEF ReportFailure, Goto
<1>8. ASSUME NEW r \in Recorders, EndFailed(r)
     PROVE  LogSame
  BY <1>8 DEF EndFailed, EndSession, Goto
<1>9. ASSUME NEW c \in Callers, Start(c)
     PROVE  LogSame
  BY <1>9 DEF Start, Call, At
<1>10. ASSUME NEW c \in Callers, Stop(c)
     PROVE  LogSame
  BY <1>10 DEF Stop, Call, At
<1>11. ASSUME NEW c \in Callers, Notify(c)
     PROVE  LogSame
  BY <1>11 DEF Notify, At
<1>12. ASSUME NEW c \in Callers, Enter(c)
     PROVE  LogSame
  BY <1>12 DEF Enter, At
<1>13. ASSUME NEW c \in Callers, Join(c)
     PROVE  LogSame
  BY <1>13 DEF Join, At
<1> QED
  BY <1>1, <1>2, <1>3, <1>4, <1>5, <1>6, <1>7, <1>8, <1>9, <1>10, <1>11, <1>12, <1>13

\* What the session log sees of Take.
LEMMA TakeSeen ==
    ASSUME IInv, NEW r \in Recorders, Take(r)
    PROVE  LogSame
<1> USE RecordingAssumption DEF IInv, TypeOK, StoreTypes, RecorderTypes, RowTypes, ActorTypes, Recorders
<1>1. /\ taken' = [taken EXCEPT ![r] = buffer[r]] /\ buffer' = [buffer EXCEPT ![r] = {}]
      /\ UNCHANGED <<session, failed, stored, events, attached, opened, closing, step>>
  BY DEF Take, Swap, slotVars, storeVars, callVars
<1>2. taken[r] = {}
  BY DEF Take, RowInv, FlushInv, UseInv
<1>3. \A q \in Recorders : Unwritten(q)' = Unwritten(q)
  BY <1>1, <1>2 DEF Unwritten
<1>4. \A q \in Recorders : InUse(q)' <=> InUse(q)
  BY <1>1 DEF InUse, Closing, Opening
<1> QED BY <1>1, <1>3, <1>4, SameIf

\* What the session log sees of LastFlush.
LEMMA LastFlushSeen ==
    ASSUME IInv, NEW c \in Callers, LastFlush(c)
    PROVE  LogSame
<1> USE RecordingAssumption DEF IInv, TypeOK, StoreTypes, RecorderTypes, RowTypes, ActorTypes, Recorders
<1>1. /\ taken' = [taken EXCEPT ![closing[c]] = buffer[closing[c]]]
      /\ buffer' = [buffer EXCEPT ![closing[c]] = {}]
      /\ step[c] = "flush" /\ step' = [step EXCEPT ![c] = "write"]
      /\ UNCHANGED <<session, failed, stored, events, attached, opened, closing>>
  BY DEF LastFlush, Swap, At, slotVars, storeVars, threadVars, callVars
<1>2. closing[c] \in Recorders /\ taken[closing[c]] = {}
  <2>1. closing[c] \in Recorders /\ rigLock = c
    BY <1>1 DEF LockInv, LockedSteps
  <2>2. thread[closing[c]] = "done"
    BY <1>1, <2>1 DEF UseInv
  <2> QED BY <1>1, <2>1, <2>2 DEF RowInv, FlushInv
<1>3. \A q \in Recorders : Unwritten(q)' = Unwritten(q)
  BY <1>1, <1>2 DEF Unwritten
<1>4. \A q \in Recorders : InUse(q)' <=> InUse(q)
  BY <1>1 DEF InUse, Closing, Opening
<1> QED BY <1>1, <1>3, <1>4, SameIf

\* What the session log sees of Append.
LEMMA AppendSeen ==
    ASSUME IInv, NEW x \in Reporters, Append(x)
    PROVE  LogSame
<1> USE RecordingAssumption DEF IInv, TypeOK, StoreTypes, RecorderTypes, RowTypes, ActorTypes, Recorders
<1>1. Buffered(target[x], TRUE) /\ target[x] \in Recorders
  BY DEF Append, RowInv, HandedInv
<1>2. UNCHANGED <<session, failed, taken, stored, attached, opened, closing, step>>
  BY DEF Append, slotVars, storeVars, threadVars, callVars
<1>3. \A q \in Recorders : InUse(q)' <=> InUse(q)
  BY <1>2 DEF InUse, Closing, Opening
<1>4. CASE UNCHANGED <<rows, buffer, events>>
  BY <1>2, <1>3, <1>4, SameIf DEF Unwritten
<1>5. CASE /\ rows' = rows + 1
           /\ buffer' = [buffer EXCEPT ![target[x]] = buffer[target[x]] \cup {rows + 1}]
           /\ events' = events \cup {rows + 1}
  <2>1. \A q \in Recorders : rows + 1 \notin stored[q] \cup Unwritten(q)
    BY DEF RowInv, RowsSoFar, Unwritten
  <2>2. \A q \in Recorders : Unwritten(q)' \ {rows + 1} = Unwritten(q)
    BY <1>1, <1>2, <1>5, <2>1 DEF Unwritten
  <2>3. \A q \in Recorders : Deliveries(stored[q])' = Deliveries(stored[q])
    BY <1>2, <1>5, <2>1 DEF Deliveries
  <2>4. \A q \in Recorders : Deliveries(stored[q] \cup Unwritten(q))' = Deliveries(stored[q] \cup Unwritten(q))
    BY <1>2, <1>5, <2>1, <2>2 DEF Deliveries
  <2>5. \A q \in Recorders : Status(q)' = Status(q)
    BY <1>2, <1>3 DEF Status
  <2>6. \A q \in Recorders : Deliveries(stored[q] \cup {})' = Deliveries(stored[q] \cup {})
    BY <2>3 DEF Deliveries
  <2> QED BY <2>3, <2>4, <2>5, <2>6 DEF LogSame, Kept, Accepted
<1> QED BY <1>1, <1>4, <1>5, BufferedEffect

\* What the session log sees of OpenFails.
LEMMA OpenFailsSeen ==
    ASSUME IInv, NEW c \in Callers, OpenFails(c)
    PROVE  LogSame
<1> USE RecordingAssumption DEF IInv, TypeOK, StoreTypes, RecorderTypes, RowTypes, ActorTypes, Recorders
<1>1. /\ step[c] = "open" /\ step' = [step EXCEPT ![c] = "idle"]
      /\ closing' = [closing EXCEPT ![c] = None]
      /\ UNCHANGED <<session, failed, stored, events, buffer, taken, attached, opened>>
  BY DEF OpenFails, Leave, At, storeVars, threadVars, rowVars
<1>2. closing[c] = None
  BY <1>1 DEF LockInv
<1>3. closing' = closing
  BY <1>1, <1>2
<1>4. \A q \in Recorders : InUse(q)' <=> InUse(q)
  BY <1>1, <1>3 DEF InUse, Closing, Opening
<1> QED BY <1>1, <1>4, SameIf DEF Unwritten

\* What the session log sees of Declare.
LEMMA DeclareSeen ==
    ASSUME IInv, NEW c \in Callers, Declare(c)
    PROVE  LogSame
<1> USE RecordingAssumption DEF IInv, TypeOK, StoreTypes, RecorderTypes, RowTypes, ActorTypes, Recorders
<1>1. /\ step[c] = "declare" /\ step' = [step EXCEPT ![c] = "idle"]
      /\ closing' = [closing EXCEPT ![c] = None] /\ attached' = opened
      /\ UNCHANGED <<session, failed, stored, events, buffer, taken, opened>>
  BY DEF Declare, Leave, At, storeVars, threadVars, rowVars
<1>2. closing[c] = None /\ rigLock = c
  BY <1>1 DEF LockInv, LockedSteps
<1>3. closing' = closing /\ attached = None
  BY <1>1, <1>2, RecordingAssumption DEF LockInv
<1>4. \A q \in Recorders : InUse(q)' <=> attached' = q \/ Closing(q)'
  <2>1. \A d \in Callers : step'[d] # "declare"
    BY <1>1, <1>2 DEF LockInv, LockedSteps
  <2> QED BY <2>1 DEF InUse, Opening
<1>5. \A q \in Recorders : InUse(q) <=> q = opened \/ Closing(q)
  BY <1>1, <1>3, RecordingAssumption DEF InUse, Opening
<1>6. \A q \in Recorders : InUse(q)' <=> InUse(q)
  BY <1>1, <1>3, <1>4, <1>5 DEF Closing
<1> QED BY <1>1, <1>6, SameIf DEF Unwritten

\* What the session log sees of Deliver.
LEMMA DeliverSeen ==
    ASSUME IInv, NEW s \in Sources, Deliver(s)
    PROVE  LogSame \/ \E r \in Recorders, n \in Rows : Log!Accept(r, n)
<1> USE RecordingAssumption DEF IInv, TypeOK, StoreTypes, RecorderTypes, RowTypes, ActorTypes, Recorders
<1>1. UNCHANGED <<session, failed, taken, stored, attached, opened, closing, step>>
  BY DEF Deliver, slotVars, storeVars, threadVars, callVars
<1>2. \A q \in Recorders : InUse(q)' <=> InUse(q)
  BY <1>1 DEF InUse, Closing, Opening
<1>3. CASE UNCHANGED <<rows, buffer, events>>
  BY <1>1, <1>2, <1>3, SameIf DEF Unwritten
<1>4. CASE ~UNCHANGED <<rows, buffer, events>>
  <2>1. attached \in Recorders /\ ~failed[attached] /\ Buffered(attached, FALSE)
    BY <1>4 DEF Deliver
  <2>0. PICK r \in Recorders : r = attached
    BY <2>1
  <2>2. /\ rows < MaxRows /\ rows' = rows + 1 /\ events' = events
        /\ buffer' = [buffer EXCEPT ![r] = buffer[r] \cup {rows + 1}]
    BY <1>4, <2>0, <2>1 DEF Buffered
  <2>3. Status(r) = "open"
    BY <2>0, <2>1, OpenIs DEF InUse
  <2>4. \A q \in Recorders : Status(q)' = Status(q)
    BY <1>1, <1>2 DEF Status
  <2>5. \A q \in Recorders : Kept(q)' = Kept(q)
    BY <1>1, <2>2 DEF Kept, Deliveries
  <2>6. \A q \in Recorders \ {r} : Accepted(q)' = Accepted(q)
    <3>1. \A q \in Recorders \ {r} : Unwritten(q)' = Unwritten(q)
      BY <1>1, <2>2 DEF Unwritten
    <3> QED BY <1>1, <2>2, <2>4, <3>1 DEF Accepted, Deliveries
  <2>7. Accepted(r)' = Accepted(r) \cup {rows + 1}
    <3>1. Unwritten(r)' = Unwritten(r) \cup {rows + 1}
      BY <1>1, <2>1, <2>2 DEF Unwritten
    <3>2. rows + 1 \notin events
      BY DEF RowInv, RowsSoFar
    <3> QED BY <1>1, <2>2, <2>3, <2>4, <2>1, <3>1, <3>2 DEF Accepted, Deliveries
  <2>8. \A q \in Recorders : \A m \in Accepted(q) : m < rows + 1
    <3>1. \A q \in Recorders : \A m \in stored[q] \cup Unwritten(q) : m \in Nat /\ m <= rows
      BY DEF RowInv, RowsSoFar, Unwritten, Rows
    <3>2. \A q \in Recorders : Accepted(q) \subseteq stored[q] \cup Unwritten(q)
      BY DEF Accepted, Deliveries
    <3>3. \A m \in Nat : m <= rows => m < rows + 1
      BY <2>2
    <3> HIDE DEF Accepted
    <3> QED BY <3>1, <3>2, <3>3
  <2>9. rows + 1 \in Rows
    BY <2>2 DEF Rows
  <2>10. Log!Accept(r, rows + 1)
    BY <2>3, <2>4, <2>5, <2>6, <2>7, <2>8, ThenAccept
  <2> QED BY <2>9, <2>10
<1> QED BY <1>3, <1>4

\* What the session log sees of Written.
LEMMA WrittenSeen ==
    ASSUME IInv, NEW r \in Recorders, Written(r)
    PROVE  Log!Keep(r)
<1> USE RecordingAssumption DEF IInv, TypeOK, StoreTypes, RecorderTypes, RowTypes, ActorTypes, Recorders
<1>1. /\ taken' = [taken EXCEPT ![r] = {}] /\ stored' = [stored EXCEPT ![r] = stored[r] \cup taken[r]]
      /\ UNCHANGED <<session, failed, buffer, events, attached, opened, closing, step>>
  BY DEF Written, Write, slotVars, storeVars, callVars
<1>2. r \in Recorders /\ Status(r) = "open"
  <2>1. InUse(r) /\ ~failed[r]
    BY DEF Written, UseInv, FailureInv
  <2> QED BY <2>1, OpenIs
<1>3. \A q \in Recorders : InUse(q)' <=> InUse(q)
  BY <1>1 DEF InUse, Closing, Opening
<1>4. \A q \in Recorders : Status(q)' = Status(q)
  BY <1>1, <1>3 DEF Status
<1>5. \A q \in Recorders \ {r} : Kept(q)' = Kept(q) /\ Accepted(q)' = Accepted(q)
  <2>1. \A q \in Recorders \ {r} : stored'[q] = stored[q] /\ Unwritten(q)' = Unwritten(q)
    BY <1>1, <1>2 DEF Unwritten
  <2> QED BY <1>1, <1>4, <2>1 DEF Kept, Accepted, Deliveries
<1>6. stored'[r] = stored[r] \cup taken[r] /\ taken'[r] = {}
  BY <1>1, <1>2
<1>7. Accepted(r) = Deliveries(stored[r] \cup taken[r] \cup buffer[r])
  BY <1>2 DEF Accepted, Unwritten, Deliveries
<1>8. Accepted(r)' = Accepted(r)
  BY <1>1, <1>2, <1>4, <1>6, <1>7 DEF Accepted, Unwritten, Deliveries
<1>9. Kept(r)' = Deliveries(stored[r] \cup taken[r])
  BY <1>1, <1>6 DEF Kept, Deliveries
<1>10. Kept(r) \subseteq Kept(r)' /\ Kept(r)' \subseteq Accepted(r)
  BY <1>7, <1>9 DEF Kept, Deliveries
<1>11. \A m \in Accepted(r) \ Kept(r)', n \in Kept(r)' : n < m
  BY <1>2, <1>7, <1>9 DEF RowInv, WrittenInOrder, Unwritten, Deliveries
<1> QED BY <1>2, <1>4, <1>5, <1>8, <1>10, <1>11, ThenKeep

\* What the session log sees of LastWrite.
LEMMA LastWriteSeen ==
    ASSUME IInv, NEW c \in Callers, LastWrite(c)
    PROVE  \E r \in Recorders : Log!Keep(r)
<1> USE RecordingAssumption DEF IInv, TypeOK, StoreTypes, RecorderTypes, RowTypes, ActorTypes, Recorders
<1>0. PICK r \in Recorders : r = closing[c]
  BY DEF LastWrite, LockInv
<1>1. /\ taken' = [taken EXCEPT ![r] = {}] /\ stored' = [stored EXCEPT ![r] = stored[r] \cup taken[r]]
      /\ step[c] = "write" /\ step' = [step EXCEPT ![c] = "end"]
      /\ UNCHANGED <<session, failed, buffer, events, attached, opened, closing>>
  BY <1>0 DEF LastWrite, Write, At, slotVars, storeVars, threadVars, callVars
<1>2. r \in Recorders /\ Status(r) = "open"
  <2>1. InUse(r)
    BY <1>0 DEF InUse, Closing
  <2>2. ~failed[r]
    BY <1>0, <1>1 DEF UseInv
  <2> QED BY <2>1, <2>2, OpenIs
<1>3. \A q \in Recorders : InUse(q)' <=> InUse(q)
  BY <1>1 DEF InUse, Closing, Opening
<1>4. \A q \in Recorders : Status(q)' = Status(q)
  BY <1>1, <1>3 DEF Status
<1>5. \A q \in Recorders \ {r} : Kept(q)' = Kept(q) /\ Accepted(q)' = Accepted(q)
  <2>1. \A q \in Recorders \ {r} : stored'[q] = stored[q] /\ Unwritten(q)' = Unwritten(q)
    BY <1>1, <1>2 DEF Unwritten
  <2> QED BY <1>1, <1>4, <2>1 DEF Kept, Accepted, Deliveries
<1>6. stored'[r] = stored[r] \cup taken[r] /\ taken'[r] = {}
  BY <1>1, <1>2
<1>7. Accepted(r) = Deliveries(stored[r] \cup taken[r] \cup buffer[r])
  BY <1>2 DEF Accepted, Unwritten, Deliveries
<1>8. Accepted(r)' = Accepted(r)
  BY <1>1, <1>2, <1>4, <1>6, <1>7 DEF Accepted, Unwritten, Deliveries
<1>9. Kept(r)' = Deliveries(stored[r] \cup taken[r])
  BY <1>1, <1>6 DEF Kept, Deliveries
<1>10. Kept(r) \subseteq Kept(r)' /\ Kept(r)' \subseteq Accepted(r)
  BY <1>7, <1>9 DEF Kept, Deliveries
<1>11. \A m \in Accepted(r) \ Kept(r)', n \in Kept(r)' : n < m
  BY <1>2, <1>7, <1>9 DEF RowInv, WrittenInOrder, Unwritten, Deliveries
<1> QED BY <1>2, <1>4, <1>5, <1>8, <1>10, <1>11, ThenKeep

\* What the session log sees of FlushFails.
LEMMA FlushFailsSeen ==
    ASSUME IInv, NEW r \in Recorders, FlushFails(r)
    PROVE  Log!Lose(r)
<1> USE RecordingAssumption DEF IInv, TypeOK, StoreTypes, RecorderTypes, RowTypes, ActorTypes, Recorders
<1>1. /\ StoreMayFail
      /\ taken' = [taken EXCEPT ![r] = {}] /\ buffer' = [buffer EXCEPT ![r] = {}]
      /\ stored' = stored \/ stored' = [stored EXCEPT ![r] = stored[r] \cup taken[r]]
      /\ failed' = [failed EXCEPT ![r] = TRUE]
      /\ UNCHANGED <<session, events, attached, opened, closing, step>>
  BY DEF FlushFails, WriteFails, slotVars, storeVars, callVars
<1>2. r \in Recorders /\ Status(r) = "open" /\ session[r] = "open"
  <2>1. InUse(r) /\ ~failed[r]
    BY DEF FlushFails, UseInv, FailureInv
  <2> QED BY <2>1, OpenIs
<1>3. \A q \in Recorders \ {r} : InUse(q)' <=> InUse(q)
  BY <1>1 DEF InUse, Closing, Opening
<1>5. Status(r)' = "lost"
  BY <1>1, <1>2 DEF Status
<1>4. \A q \in Recorders \ {r} :
         Status(q)' = Status(q) /\ Kept(q)' = Kept(q) /\ Accepted(q)' = Accepted(q)
  <2>1. \A q \in Recorders \ {r} : Status(q)' = Status(q)
    BY <1>1, <1>3 DEF Status
  <2>2. \A q \in Recorders \ {r} : stored'[q] = stored[q] /\ Unwritten(q)' = Unwritten(q)
    BY <1>1, <1>2 DEF Unwritten
  <2> QED BY <1>1, <2>1, <2>2 DEF Kept, Accepted, Deliveries
<1>6. Accepted(r)' = Kept(r)'
  BY <1>5 DEF Accepted, Kept, Deliveries
<1>7. Accepted(r) = Deliveries(stored[r] \cup taken[r] \cup buffer[r])
  BY <1>2 DEF Accepted, Unwritten, Deliveries
<1>8. stored'[r] = stored[r] \/ stored'[r] = stored[r] \cup taken[r]
  BY <1>1, <1>2
<1>9. Kept(r)' = Deliveries(stored[r]) \/ Kept(r)' = Deliveries(stored[r] \cup taken[r])
  BY <1>1, <1>8 DEF Kept, Deliveries
<1>10. Kept(r) \subseteq Kept(r)' /\ Kept(r)' \subseteq Accepted(r)
  BY <1>7, <1>9 DEF Kept, Deliveries
<1>11. \A m \in Accepted(r) \ Kept(r)', n \in Kept(r)' : n < m
  BY <1>2, <1>7, <1>9 DEF RowInv, WrittenInOrder, Unwritten, Deliveries
<1> QED BY <1>1, <1>2, <1>4, <1>5, <1>6, <1>10, <1>11, ThenLose

\* What the session log sees of LastWriteFails.
LEMMA LastWriteFailsSeen ==
    ASSUME IInv, NEW c \in Callers, LastWriteFails(c)
    PROVE  \E r \in Recorders : Log!Lose(r)
<1> USE RecordingAssumption DEF IInv, TypeOK, StoreTypes, RecorderTypes, RowTypes, ActorTypes, Recorders
<1>0. PICK r \in Recorders : r = closing[c]
  BY DEF LastWriteFails, LockInv
<1>1. /\ StoreMayFail /\ step[c] = "write" /\ step' = [step EXCEPT ![c] = "idle"]
      /\ closing' = [closing EXCEPT ![c] = None]
      /\ taken' = [taken EXCEPT ![r] = {}]
      /\ stored' = stored \/ stored' = [stored EXCEPT ![r] = stored[r] \cup taken[r]]
      /\ UNCHANGED <<session, failed, buffer, events, attached, opened>>
  BY <1>0 DEF LastWriteFails, WriteFails, Leave, At, slotVars, storeVars, threadVars, callVars
<1>2. r \in Recorders /\ Status(r) = "open" /\ session[r] = "open" /\ ~failed[r] /\ rigLock = c
  <2>1. InUse(r)
    BY <1>0 DEF InUse, Closing
  <2>2. ~failed[r] /\ rigLock = c
    BY <1>0, <1>1 DEF UseInv, LockInv, LockedSteps
  <2> QED BY <2>1, <2>2, OpenIs
<1>3. \A q \in Recorders \ {r} : InUse(q)' <=> InUse(q)
  BY <1>0, <1>1 DEF InUse, Closing, Opening
<1>5. Status(r)' = "lost"
  <2>1. ~InUse(r)'
    BY <1>0, <1>1, <1>2, RecordingAssumption DEF InUse, Closing, Opening, LockInv, LockedSteps
  <2> QED BY <1>1, <1>2, <2>1 DEF Status
<1>4. \A q \in Recorders \ {r} :
         Status(q)' = Status(q) /\ Kept(q)' = Kept(q) /\ Accepted(q)' = Accepted(q)
  <2>1. \A q \in Recorders \ {r} : Status(q)' = Status(q)
    BY <1>1, <1>3 DEF Status
  <2>2. \A q \in Recorders \ {r} : stored'[q] = stored[q] /\ Unwritten(q)' = Unwritten(q)
    BY <1>1, <1>2 DEF Unwritten
  <2> QED BY <1>1, <2>1, <2>2 DEF Kept, Accepted, Deliveries
<1>6. Accepted(r)' = Kept(r)'
  BY <1>5 DEF Accepted, Kept, Deliveries
<1>7. Accepted(r) = Deliveries(stored[r] \cup taken[r] \cup buffer[r])
  BY <1>2 DEF Accepted, Unwritten, Deliveries
<1>8. stored'[r] = stored[r] \/ stored'[r] = stored[r] \cup taken[r]
  BY <1>1, <1>2
<1>9. Kept(r)' = Deliveries(stored[r]) \/ Kept(r)' = Deliveries(stored[r] \cup taken[r])
  BY <1>1, <1>8 DEF Kept, Deliveries
<1>10. Kept(r) \subseteq Kept(r)' /\ Kept(r)' \subseteq Accepted(r)
  BY <1>7, <1>9 DEF Kept, Deliveries
<1>11. \A m \in Accepted(r) \ Kept(r)', n \in Kept(r)' : n < m
  BY <1>2, <1>7, <1>9 DEF RowInv, WrittenInOrder, Unwritten, Deliveries
<1> QED BY <1>1, <1>2, <1>4, <1>5, <1>6, <1>10, <1>11, ThenLose

\* What the session log sees of EndFails.
LEMMA EndFailsSeen ==
    ASSUME IInv, NEW c \in Callers, EndFails(c)
    PROVE  \E r \in Recorders : Log!Lose(r)
<1> USE RecordingAssumption DEF IInv, TypeOK, StoreTypes, RecorderTypes, RowTypes, ActorTypes, Recorders
<1>0. PICK r \in Recorders : r = closing[c]
  BY DEF EndFails, LockInv
<1>1. /\ StoreMayFail /\ step[c] = "end" /\ step' = [step EXCEPT ![c] = "idle"]
      /\ closing' = [closing EXCEPT ![c] = None]
      /\ taken' = taken /\ stored' = stored
      /\ UNCHANGED <<session, failed, buffer, events, attached, opened>>
  BY <1>0 DEF EndFails, Leave, At, storeVars, threadVars, rowVars
<1>2. r \in Recorders /\ Status(r) = "open" /\ session[r] = "open" /\ ~failed[r] /\ rigLock = c
  <2>1. InUse(r)
    BY <1>0 DEF InUse, Closing
  <2>2. ~failed[r] /\ rigLock = c
    BY <1>0, <1>1 DEF UseInv, LockInv, LockedSteps
  <2> QED BY <2>1, <2>2, OpenIs
<1>3. \A q \in Recorders \ {r} : InUse(q)' <=> InUse(q)
  BY <1>0, <1>1 DEF InUse, Closing, Opening
<1>5. Status(r)' = "lost"
  <2>1. ~InUse(r)'
    BY <1>0, <1>1, <1>2, RecordingAssumption DEF InUse, Closing, Opening, LockInv, LockedSteps
  <2> QED BY <1>1, <1>2, <2>1 DEF Status
<1>4. \A q \in Recorders \ {r} :
         Status(q)' = Status(q) /\ Kept(q)' = Kept(q) /\ Accepted(q)' = Accepted(q)
  <2>1. \A q \in Recorders \ {r} : Status(q)' = Status(q)
    BY <1>1, <1>3 DEF Status
  <2>2. \A q \in Recorders \ {r} : stored'[q] = stored[q] /\ Unwritten(q)' = Unwritten(q)
    BY <1>1, <1>2 DEF Unwritten
  <2> QED BY <1>1, <2>1, <2>2 DEF Kept, Accepted, Deliveries
<1>6. Accepted(r)' = Kept(r)'
  BY <1>5 DEF Accepted, Kept, Deliveries
<1>7. Accepted(r) = Deliveries(stored[r] \cup taken[r] \cup buffer[r])
  BY <1>2 DEF Accepted, Unwritten, Deliveries
<1>8. stored'[r] = stored[r] \/ stored'[r] = stored[r] \cup taken[r]
  BY <1>1, <1>2
<1>9. Kept(r)' = Deliveries(stored[r]) \/ Kept(r)' = Deliveries(stored[r] \cup taken[r])
  BY <1>1, <1>8 DEF Kept, Deliveries
<1>10. Kept(r) \subseteq Kept(r)' /\ Kept(r)' \subseteq Accepted(r)
  BY <1>7, <1>9 DEF Kept, Deliveries
<1>11. \A m \in Accepted(r) \ Kept(r)', n \in Kept(r)' : n < m
  BY <1>2, <1>7, <1>9 DEF RowInv, WrittenInOrder, Unwritten, Deliveries
<1> QED BY <1>1, <1>2, <1>4, <1>5, <1>6, <1>10, <1>11, ThenLose

\* What the session log sees of DeclareFails.
LEMMA DeclareFailsSeen ==
    ASSUME IInv, NEW c \in Callers, DeclareFails(c)
    PROVE  \E r \in Recorders : Log!Lose(r)
<1> USE RecordingAssumption DEF IInv, TypeOK, StoreTypes, RecorderTypes, RowTypes, ActorTypes, Recorders
<1>0. PICK r \in Recorders : r = opened
  BY DEF DeclareFails, BirthInv
<1>1. /\ StoreMayFail /\ step[c] = "declare" /\ step' = [step EXCEPT ![c] = "idle"]
      /\ closing' = [closing EXCEPT ![c] = None]
      /\ taken' = taken /\ stored' = stored
      /\ UNCHANGED <<session, failed, buffer, events, attached, opened>>
  BY <1>0 DEF DeclareFails, Leave, At, storeVars, threadVars, rowVars
<1>2. r \in Recorders /\ Status(r) = "open" /\ session[r] = "open" /\ ~failed[r] /\ rigLock = c
  <2>1. InUse(r)
    BY <1>0, <1>1 DEF InUse, Opening
  <2>2. ~failed[r] /\ rigLock = c
    BY <1>0, <1>1 DEF BirthInv, LockInv, LockedSteps
  <2> QED BY <2>1, <2>2, OpenIs
<1>12. closing' = closing /\ attached = None
  BY <1>1, <1>2, RecordingAssumption DEF LockInv
<1>3. \A q \in Recorders \ {r} : InUse(q)' <=> InUse(q)
  BY <1>0, <1>1, <1>12 DEF InUse, Closing, Opening
<1>5. Status(r)' = "lost"
  <2>1. ~Closing(r)
    BY <1>0, <1>1 DEF Closing, UseInv, BirthInv
  <2>2. ~Opening(r)'
    BY <1>1, <1>2 DEF Opening, LockInv, LockedSteps
  <2>3. ~InUse(r)'
    BY <1>1, <1>12, <2>1, <2>2, RecordingAssumption DEF InUse, Closing
  <2> QED BY <1>1, <1>2, <2>3 DEF Status
<1>4. \A q \in Recorders \ {r} :
         Status(q)' = Status(q) /\ Kept(q)' = Kept(q) /\ Accepted(q)' = Accepted(q)
  <2>1. \A q \in Recorders \ {r} : Status(q)' = Status(q)
    BY <1>1, <1>3 DEF Status
  <2>2. \A q \in Recorders \ {r} : stored'[q] = stored[q] /\ Unwritten(q)' = Unwritten(q)
    BY <1>1, <1>2 DEF Unwritten
  <2> QED BY <1>1, <2>1, <2>2 DEF Kept, Accepted, Deliveries
<1>6. Accepted(r)' = Kept(r)'
  BY <1>5 DEF Accepted, Kept, Deliveries
<1>7. Accepted(r) = Deliveries(stored[r] \cup taken[r] \cup buffer[r])
  BY <1>2 DEF Accepted, Unwritten, Deliveries
<1>8. stored'[r] = stored[r] \/ stored'[r] = stored[r] \cup taken[r]
  BY <1>1, <1>2
<1>9. Kept(r)' = Deliveries(stored[r]) \/ Kept(r)' = Deliveries(stored[r] \cup taken[r])
  BY <1>1, <1>8 DEF Kept, Deliveries
<1>10. Kept(r) \subseteq Kept(r)' /\ Kept(r)' \subseteq Accepted(r)
  BY <1>7, <1>9 DEF Kept, Deliveries
<1>11. \A m \in Accepted(r) \ Kept(r)', n \in Kept(r)' : n < m
  BY <1>2, <1>7, <1>9 DEF RowInv, WrittenInOrder, Unwritten, Deliveries
<1> QED BY <1>1, <1>2, <1>4, <1>5, <1>6, <1>10, <1>11, ThenLose

\* What the session log sees of End.
LEMMA EndSeen ==
    ASSUME IInv, NEW c \in Callers, End(c)
    PROVE  \E r \in Recorders : Log!End(r)
<1> USE RecordingAssumption DEF IInv, TypeOK, StoreTypes, RecorderTypes, RowTypes, ActorTypes, Recorders
<1>0. PICK r \in Recorders : r = closing[c]
  BY DEF End, LockInv
<1>1. /\ step[c] = "end" /\ session' = [session EXCEPT ![r] = "ended"]
      /\ closing' = [closing EXCEPT ![c] = None]
      /\ step' \in {[step EXCEPT ![c] = "notify"], [step EXCEPT ![c] = "open"]}
      /\ UNCHANGED <<failed, buffer, taken, stored, events, attached, opened>>
  BY <1>0 DEF End, EndSession, At, threadVars, rowVars
<1>2. r \in Recorders /\ Status(r) = "open" /\ session[r] = "open" /\ ~failed[r] /\ rigLock = c
  <2>1. InUse(r)
    BY <1>0 DEF InUse, Closing
  <2>2. ~failed[r] /\ rigLock = c
    BY <1>0, <1>1 DEF UseInv, LockInv, LockedSteps
  <2> QED BY <2>1, <2>2, OpenIs
<1>3. \A q \in Recorders \ {r} : InUse(q)' <=> InUse(q)
  BY <1>0, <1>1 DEF InUse, Closing, Opening
<1>4. Deliveries(Unwritten(r)) = {}
  <2>1. thread[r] = "done"
    BY <1>0, <1>1 DEF UseInv
  <2>2. taken[r] = {}
    BY <1>1, <1>2, <2>1 DEF RowInv, FlushInv
  <2> QED BY <1>0, <1>1, <2>2 DEF RowInv, ClosedInv, Deliveries, Unwritten
<1>5. \A q \in Recorders \ {r} : Status(q)' = Status(q)
  BY <1>1, <1>3 DEF Status
<1>6. Status(r)' = "ended"
  BY <1>1, <1>2 DEF Status
<1>7. \A q \in Recorders : Kept(q)' = Kept(q) /\ Unwritten(q)' = Unwritten(q)
  BY <1>1 DEF Kept, Deliveries, Unwritten
<1>8. Accepted(r) = Kept(r)
  BY <1>4 DEF Accepted, Kept, Deliveries
<1>9. \A q \in Recorders : Accepted(q)' = Accepted(q)
  <2>1. Accepted(r)' = Kept(r)'
    BY <1>6 DEF Accepted, Kept, Deliveries
  <2>2. \A q \in Recorders \ {r} : Accepted(q)' = Accepted(q)
    BY <1>1, <1>5, <1>7 DEF Accepted, Deliveries
  <2> QED BY <1>7, <1>8, <2>1, <2>2
<1> QED BY <1>2, <1>5, <1>6, <1>7, <1>8, <1>9, ThenEnd

\* What the session log sees of OpenSession.
LEMMA OpenSessionSeen ==
    ASSUME IInv, NEW c \in Callers, OpenSession(c)
    PROVE  \E r \in Recorders : Log!Open(r)
<1> USE RecordingAssumption DEF IInv, TypeOK, StoreTypes, RecorderTypes, RowTypes, ActorTypes, Recorders
<1>0. PICK r \in Recorders : r = opened + 1
  BY DEF OpenSession
<1>1. /\ step[c] = "open" /\ step' = [step EXCEPT ![c] = "declare"] /\ opened' = r
      /\ session' = [session EXCEPT ![r] = "open"]
      /\ UNCHANGED <<failed, buffer, taken, stored, events, attached, closing>>
  BY <1>0 DEF OpenSession, At, slotVars, threadVars, rowVars, callVars
<1>2. session[r] = "none" /\ ~failed[r] /\ stored[r] = {} /\ Unwritten(r) = {}
  BY <1>0 DEF BirthInv
<1>3. rigLock = c /\ attached = None /\ \A d \in Callers : d # c => closing[d] = None
  BY <1>1, RecordingAssumption DEF LockInv, LockedSteps
<1>4. \A q \in Recorders : ~InUse(q)
  <2>1. \A d \in Callers : closing[d] = None
    BY <1>1, <1>3 DEF LockInv
  <2>2. \A d \in Callers : step[d] # "declare"
    BY <1>1, <1>3 DEF LockInv, LockedSteps
  <2> QED BY <1>3, <2>1, <2>2, RecordingAssumption DEF InUse, Closing, Opening
<1>5. InUse(r)'
  BY <1>1 DEF InUse, Opening
<1>6. \A q \in Recorders \ {r} : ~InUse(q)'
  BY <1>1, <1>4 DEF InUse, Closing, Opening
<1>7. \A q \in Recorders \ {r} : Status(q)' = Status(q)
  BY <1>1, <1>4, <1>6 DEF Status
<1>8. \A q \in Recorders : Status(q) # "open"
  BY <1>4 DEF Status
<1>9. Status(r) = "none" /\ Status(r)' = "open"
  BY <1>1, <1>2, <1>5 DEF Status
<1>10. \A q \in Recorders : Kept(q)' = Kept(q) /\ Unwritten(q)' = Unwritten(q)
  BY <1>1 DEF Kept, Deliveries, Unwritten
<1>11. \A q \in Recorders \ {r} : Accepted(q)' = Accepted(q)
  BY <1>1, <1>7, <1>10 DEF Accepted, Deliveries
<1>12. Accepted(r)' = Accepted(r)
  BY <1>1, <1>2, <1>9, <1>10 DEF Accepted, Deliveries
<1> QED BY <1>7, <1>8, <1>9, <1>10, <1>11, <1>12, ThenOpen

\* The log starts empty.
LEMMA LogInit == Init => Log!Init
BY RecordingAssumption DEF Init, Log!Init, Status, Kept, Accepted, Deliveries

\* Every step is a step of the log or none.
LEMMA LogStep ==
    ASSUME IInv, [Next]_vars
    PROVE  [Log!Next]_(Log!logVars)
<1> USE DEF Log!Next
<1>1. CASE UNCHANGED vars
  <2>1. LogSame
    BY <1>1 DEF vars, slotVars, storeVars, threadVars, rowVars, callVars, LogSame, Status, Kept,
       Accepted, Deliveries, Unwritten, InUse, Closing, Opening
  <2> QED BY <2>1, SameStutters
<1>2. CASE Next
  <2>1. ASSUME NEW s \in Sources, Read(s)
       PROVE  [Log!Next]_(Log!logVars)
    BY <2>1, QuietStep, SameStutters
  <2>2. ASSUME NEW s \in Sources, Deliver(s)
       PROVE  [Log!Next]_(Log!logVars)
    BY <2>2, DeliverSeen, SameStutters
  <2>3. ASSUME NEW e \in Emitters, Report(e)
       PROVE  [Log!Next]_(Log!logVars)
    BY <2>3, QuietStep, SameStutters
  <2>4. ASSUME NEW e \in Emitters, Unwind(e)
       PROVE  [Log!Next]_(Log!logVars)
    BY <2>4, QuietStep, SameStutters
  <2>5. ASSUME NEW x \in Reporters, Reread(x)
       PROVE  [Log!Next]_(Log!logVars)
    BY <2>5, QuietStep, SameStutters
  <2>6. ASSUME NEW x \in Reporters, Append(x)
       PROVE  [Log!Next]_(Log!logVars)
    BY <2>6, AppendSeen, SameStutters
  <2>7. ASSUME NEW r \in Recorders, Wake(r)
       PROVE  [Log!Next]_(Log!logVars)
    BY <2>7, QuietStep, SameStutters
  <2>8. ASSUME NEW r \in Recorders, Take(r)
       PROVE  [Log!Next]_(Log!logVars)
    BY <2>8, TakeSeen, SameStutters
  <2>9. ASSUME NEW r \in Recorders, Written(r)
       PROVE  [Log!Next]_(Log!logVars)
    BY <2>9, WrittenSeen
  <2>10. ASSUME NEW r \in Recorders, FlushFails(r)
       PROVE  [Log!Next]_(Log!logVars)
    BY <2>10, FlushFailsSeen
  <2>11. ASSUME NEW r \in Recorders, Detach(r)
       PROVE  [Log!Next]_(Log!logVars)
    BY <2>11, QuietStep, SameStutters
  <2>12. ASSUME NEW r \in Recorders, ReportFailure(r)
       PROVE  [Log!Next]_(Log!logVars)
    BY <2>12, QuietStep, SameStutters
  <2>13. ASSUME NEW r \in Recorders, EndFailed(r)
       PROVE  [Log!Next]_(Log!logVars)
    BY <2>13, QuietStep, SameStutters
  <2>14. ASSUME NEW c \in Callers, Start(c)
       PROVE  [Log!Next]_(Log!logVars)
    BY <2>14, QuietStep, SameStutters
  <2>15. ASSUME NEW c \in Callers, Stop(c)
       PROVE  [Log!Next]_(Log!logVars)
    BY <2>15, QuietStep, SameStutters
  <2>16. ASSUME NEW c \in Callers, Notify(c)
       PROVE  [Log!Next]_(Log!logVars)
    BY <2>16, QuietStep, SameStutters
  <2>17. ASSUME NEW c \in Callers, Enter(c)
       PROVE  [Log!Next]_(Log!logVars)
    BY <2>17, QuietStep, SameStutters
  <2>18. ASSUME NEW c \in Callers, Join(c)
       PROVE  [Log!Next]_(Log!logVars)
    BY <2>18, QuietStep, SameStutters
  <2>19. ASSUME NEW c \in Callers, LastFlush(c)
       PROVE  [Log!Next]_(Log!logVars)
    BY <2>19, LastFlushSeen, SameStutters
  <2>20. ASSUME NEW c \in Callers, LastWrite(c)
       PROVE  [Log!Next]_(Log!logVars)
    BY <2>20, LastWriteSeen
  <2>21. ASSUME NEW c \in Callers, LastWriteFails(c)
       PROVE  [Log!Next]_(Log!logVars)
    BY <2>21, LastWriteFailsSeen
  <2>22. ASSUME NEW c \in Callers, End(c)
       PROVE  [Log!Next]_(Log!logVars)
    BY <2>22, EndSeen
  <2>23. ASSUME NEW c \in Callers, EndFails(c)
       PROVE  [Log!Next]_(Log!logVars)
    BY <2>23, EndFailsSeen
  <2>24. ASSUME NEW c \in Callers, OpenSession(c)
       PROVE  [Log!Next]_(Log!logVars)
    BY <2>24, OpenSessionSeen
  <2>25. ASSUME NEW c \in Callers, OpenFails(c)
       PROVE  [Log!Next]_(Log!logVars)
    BY <2>25, OpenFailsSeen, SameStutters
  <2>26. ASSUME NEW c \in Callers, Declare(c)
       PROVE  [Log!Next]_(Log!logVars)
    BY <2>26, DeclareSeen, SameStutters
  <2>27. ASSUME NEW c \in Callers, DeclareFails(c)
       PROVE  [Log!Next]_(Log!logVars)
    BY <2>27, DeclareFailsSeen
  <2> QED
    BY <1>2, NextCases, <2>1, <2>2, <2>3, <2>4, <2>5, <2>6, <2>7, <2>8, <2>9,
       <2>10, <2>11, <2>12, <2>13, <2>14, <2>15, <2>16, <2>17, <2>18,
       <2>19, <2>20, <2>21, <2>22, <2>23, <2>24, <2>25, <2>26, <2>27
<1> QED BY <1>1, <1>2

\* The slot, the recorders and their threads implement the session log.
THEOREM LogImplemented == Spec => ImplementsLog
BY LogInit, LogStep, Invariance, PTL DEF Spec, ImplementsLog, Log!Spec
=============================================================================
