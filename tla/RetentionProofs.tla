-------------------------- MODULE RetentionProofs --------------------------
(***************************************************************************)
(* Proofs about Retention, for any users and any bound on sessions: first  *)
(* that it asks of the rig only what Recording allows, so that everything  *)
(* proved of Recording holds of the runner.                                *)
(***************************************************************************)
EXTENDS Retention, RecordingProofs

\* Who calls, and which calls there are.
LEMMA Who ==
    /\ Users \subseteq Callers /\ Sweeper \in Callers /\ Main \in Callers
    /\ "session" \in Kinds /\ "scratch" \in Kinds
BY RetentionAssumption

\* The sorts of step RetentionNext takes.
LEMMA RetentionCases ==
    ASSUME RetentionNext
    PROVE  \/ RigStep
           \/ \E u \in Users :
                 \/ Request(u) \/ EndRoute(u) \/ TakeStarting(u) \/ StartRoute(u)
                 \/ Started(u) \/ Hook(u) \/ EndedNothing(u) \/ Reopen(u)
           \/ Sweep \/ FindExpired \/ Rotate \/ Rotated
           \/ \E c \in Users \cup {Sweeper} : EnsureScratch(c) \/ Opened(c)
           \/ Shutdown \/ StopRecording \/ Stopped \/ Hook(Main)
BY DEF RetentionNext, Route, Housekeep, ShutDown

\* Every step of the runner is a step of Recording or leaves it alone.
LEMMA RigStutters ==
    ASSUME [RetentionNext]_allVars
    PROVE  [Next]_vars
<1>1. CASE UNCHANGED allVars
  BY <1>1 DEF allVars
<1>2. CASE RetentionNext
  <2>1. CASE RigStep
    BY <2>1 DEF RigStep, Next
  <2>2. ASSUME NEW u \in Users,
               \/ Request(u) \/ TakeStarting(u) \/ Started(u) \/ EndedNothing(u) \/ Reopen(u)
        PROVE  UNCHANGED vars
    BY <2>2 DEF Request, TakeStarting, Started, EndedNothing, Reopen
  <2>3. ASSUME NEW u \in Users, StartRoute(u)
        PROVE  Start(u) \/ UNCHANGED vars
    BY <2>3, Who DEF StartRoute, Start
  <2>4. ASSUME NEW u \in Users, EndRoute(u)
        PROVE  Stop(u)
    BY <2>4 DEF EndRoute, Stop
  <2>5. ASSUME NEW c \in Callers, Hook(c)
        PROVE  Notify(c)
    BY <2>5 DEF Hook
  <2>6. ASSUME Sweep \/ FindExpired \/ Rotated \/ Shutdown \/ Stopped
        PROVE  UNCHANGED vars
    BY <2>6 DEF Sweep, FindExpired, Rotated, Shutdown, Stopped
  <2>7. ASSUME Rotate
        PROVE  Start(Sweeper)
    BY <2>7, Who DEF Rotate, Start
  <2>8. ASSUME NEW c \in Users \cup {Sweeper}, EnsureScratch(c)
        PROVE  Start(c) \/ UNCHANGED vars
    BY <2>8, Who DEF EnsureScratch, Start
  <2>9. ASSUME NEW c \in Users \cup {Sweeper}, Opened(c)
        PROVE  UNCHANGED vars
    BY <2>9 DEF Opened
  <2>10. ASSUME StopRecording
         PROVE  Stop(Main)
    BY <2>10 DEF StopRecording, Stop
  <2>11. ASSUME NEW c \in Callers, Start(c) \/ Stop(c) \/ Notify(c)
         PROVE  Next
    BY <2>11 DEF Next
  <2> QED
    BY <1>2, RetentionCases, Who, <2>1, <2>2, <2>3, <2>4, <2>5, <2>6, <2>7, <2>8, <2>9, <2>10, <2>11
<1> QED BY <1>1, <1>2

\* Every behaviour of the runner is a behaviour of Recording.
THEOREM RunsRecordingHolds == RetentionSpec => RunsRecording
<1>1. RetentionInit => Init
  BY DEF RetentionInit
<1>2. [RetentionNext]_allVars => [Next]_vars
  BY RigStutters
<1> QED BY <1>1, <1>2, PTL DEF RetentionSpec, RunsRecording, Spec

\* So its inductive invariant holds.
THEOREM RecordingInvariance == RetentionSpec => []IInv
BY RunsRecordingHolds, Invariance, PTL DEF RunsRecording

-----------------------------------------------------------------------------
(* The runner's invariant                                                  *)

\* The invariant holds at first.
LEMMA RetentionInitInv == RetentionInit => RetentionInv
<1> SUFFICES ASSUME RetentionInit PROVE RetentionInv
  OBVIOUS
<1>1. Init /\ IInv
  BY InitInv DEF RetentionInit
<1>2. RetentionTypeOK
  BY <1>1 DEF RetentionInit, RetentionTypeOK, Places, IInv
<1>3. LocksHeld
  BY Who, RecordingAssumption DEF RetentionInit, LocksHeld
<1>4. PlaceInv
  BY Who, <1>1 DEF RetentionInit, PlaceInv, Init
<1>5. OpenedInv /\ SlotInv
  BY <1>1 DEF Init, OpenedInv, SlotInv
<1>6. ShutInv
  BY Who DEF RetentionInit, ShutInv
<1>7. HealthyInv
  BY <1>1 DEF Init, HealthyInv
<1> QED BY <1>2, <1>3, <1>4, <1>5, <1>6, <1>7 DEF RetentionInv

\* What a step of a caller inside the rig does to the callers.
LEMMA CallerMoves ==
    ASSUME IInv, NEW c \in Callers, CallerStep(c) \/ Notify(c)
    PROVE  /\ \A d \in Callers \ {c} : step'[d] = step[d] /\ wanted'[d] = wanted[d]
           /\ step[c] # "idle" /\ step'[c] # "lock"
           /\ step'[c] # "idle" => wanted'[c] = wanted[c]
           /\ step'[c] = "notify" => wanted[c] = None
           /\ step'[c] = "declare" => step[c] = "open"
<1>1. step \in [Callers -> Steps] /\ wanted \in [Callers -> Kinds \cup {None}]
  BY DEF IInv, TypeOK, ActorTypes
<1> QED
  BY <1>1 DEF CallerStep, Notify, Enter, Join, LastFlush, LastWrite, LastWriteFails, End, EndFails,
     OpenSession, OpenFails, Declare, DeclareFails, Leave, At, LockedSteps, Steps

\* What it does to the slot and to the sessions.
LEMMA CallerOpens ==
    ASSUME IInv, NEW c \in Callers, CallerStep(c) \/ Notify(c)
    PROVE  /\ \/ attached' = attached
              \/ attached' = None
              \/ step[c] = "declare" /\ attached' = opened
           /\ \/ /\ step[c] = "open" /\ step'[c] = "declare"
                 /\ opened' = opened + 1 /\ opened' # opened
                 /\ opened' \in Recorders
                 /\ session' = [session EXCEPT ![opened'] = "open"]
                 /\ kind' = [kind EXCEPT ![opened'] = wanted[c]]
              \/ /\ step'[c] # "declare"
                 /\ opened' = opened /\ kind' = kind
                 /\ \A r \in Recorders : session[r] # "open" => session'[r] = session[r]
<1>1. /\ step \in [Callers -> Steps]
      /\ opened \in 0..MaxSessions /\ MaxSessions \in Nat
      /\ session \in [Recorders -> {"none", "open", "ended"}]
  BY RecordingAssumption DEF IInv, TypeOK, ActorTypes, StoreTypes
<1>2. ASSUME OpenSession(c)
      PROVE  /\ step[c] = "open" /\ step'[c] = "declare" /\ attached' = attached
             /\ opened' = opened + 1 /\ opened' # opened
             /\ opened' \in Recorders
             /\ session' = [session EXCEPT ![opened'] = "open"]
             /\ kind' = [kind EXCEPT ![opened'] = wanted[c]]
  BY <1>1, <1>2 DEF OpenSession, At, slotVars, Recorders
<1>3. ASSUME End(c)
      PROVE  /\ step'[c] # "declare" /\ attached' = attached
             /\ opened' = opened /\ kind' = kind
             /\ \A r \in Recorders : session[r] # "open" => session'[r] = session[r]
  <2>1. PICK r \in Recorders : closing[c] = r
    BY <1>3 DEF End, IInv, LockInv, TypeOK, ActorTypes
  <2>2. session[r] = "open"
    BY <2>1 DEF IInv, UseInv
  <2> QED BY <1>1, <1>3, <2>1, <2>2 DEF End, EndSession, At
<1>4. ASSUME \/ Enter(c) \/ Join(c) \/ LastFlush(c) \/ LastWrite(c) \/ LastWriteFails(c)
             \/ EndFails(c) \/ OpenFails(c) \/ Declare(c) \/ DeclareFails(c) \/ Notify(c)
      PROVE  /\ step'[c] # "declare"
             /\ opened' = opened /\ kind' = kind /\ session' = session
             /\ \/ attached' = attached
                \/ attached' = None
                \/ step[c] = "declare" /\ attached' = opened
  BY <1>1, <1>4 DEF Notify, Enter, Join, LastFlush, LastWrite, LastWriteFails, EndFails,
     OpenFails, Declare, DeclareFails, Leave, At, slotVars, storeVars
<1> QED BY <1>2, <1>3, <1>4 DEF CallerStep

\* A step of the rig's other threads leaves the callers alone and attaches nothing.
LEMMA OthersMove ==
    ASSUME IInv,
           \/ \E s \in Sources : Read(s) \/ Deliver(s)
           \/ \E r \in Recorders : RecorderStep(r)
    PROVE  /\ step' = step /\ wanted' = wanted
           /\ opened' = opened /\ kind' = kind
           /\ attached' \in {attached, None}
           /\ \A r \in Recorders : session[r] = "none" => session'[r] = "none"
<1>1. CASE \E s \in Sources : Read(s) \/ Deliver(s)
  BY <1>1 DEF Read, Deliver, slotVars, storeVars, callVars
<1>2. ASSUME NEW r \in Recorders, EndFailed(r)
      PROVE  /\ step' = step /\ wanted' = wanted /\ opened' = opened /\ kind' = kind
             /\ attached' = attached
             /\ \A q \in Recorders : session[q] = "none" => session'[q] = "none"
  <2>1. session \in [Recorders -> {"none", "open", "ended"}] /\ detached[r] \in {None, r}
    BY DEF IInv, TypeOK, StoreTypes, FailureInv
  <2>2. thread[r] # "unborn"
    BY <1>2 DEF EndFailed
  <2>3. opened \in Nat /\ r \in Nat /\ (r > opened => thread[r] = "unborn")
    BY RecordingAssumption DEF IInv, BirthInv, TypeOK, StoreTypes, Recorders
  <2>4. session[r] # "none"
    BY <2>2, <2>3 DEF IInv, BirthInv
  <2> QED BY <1>2, <2>1, <2>4 DEF EndFailed, EndSession, Goto, slotVars, storeVars, callVars
<1>3. ASSUME NEW r \in Recorders,
             \/ Wake(r) \/ Take(r) \/ Written(r) \/ FlushFails(r)
             \/ Detach(r) \/ ReportFailure(r)
      PROVE  /\ step' = step /\ wanted' = wanted /\ opened' = opened /\ kind' = kind
             /\ attached' \in {attached, None}
             /\ session' = session
  BY <1>3 DEF Wake, Take, Written, FlushFails, Detach, ReportFailure, slotVars, storeVars, callVars
<1> QED BY <1>1, <1>2, <1>3 DEF RecorderStep

\* What the variables of this module are, for the steps below.
LEMMA Typed ==
    ASSUME RetentionInv, IInv
    PROVE  /\ at \in [Callers -> Places]
           /\ step \in [Callers -> Steps] /\ wanted \in [Callers -> Kinds \cup {None}]
           /\ by \in [Recorders -> Callers \cup {None}]
           /\ kind \in [Recorders -> Kinds \cup {None}]
           /\ attached \in Recorders \cup {None}
           /\ opened \in 0..MaxSessions
           /\ session \in [Recorders -> {"none", "open", "ended"}]
BY DEF RetentionInv, RetentionTypeOK, IInv, TypeOK, ActorTypes, StoreTypes

\* None is nobody; the sweeper and the main thread are no users.
LEMMA Apart ==
    /\ None \notin Callers /\ None \notin Kinds /\ None \notin Recorders
    /\ Sweeper \notin Users /\ Main \notin Users /\ Sweeper # Main
BY RetentionAssumption, RecordingAssumption DEF Recorders

\* Every step keeps the types.
LEMMA RetentionTypeStep ==
    ASSUME RetentionInv, IInv, [RetentionNext]_allVars
    PROVE  RetentionTypeOK'
<1>0. /\ at \in [Callers -> Places]
      /\ step \in [Callers -> Steps] /\ wanted \in [Callers -> Kinds \cup {None}]
      /\ by \in [Recorders -> Callers \cup {None}]
      /\ kind \in [Recorders -> Kinds \cup {None}]
      /\ attached \in Recorders \cup {None}
      /\ opened \in 0..MaxSessions
      /\ session \in [Recorders -> {"none", "open", "ended"}]
  BY Typed
<1> USE <1>0, Who
<1>1. TypeOK'
  BY RigStutters, TypeStep
<1>2. CASE UNCHANGED allVars
  BY <1>1, <1>2 DEF RetentionInv, RetentionTypeOK, allVars, ownVars
<1>3. CASE RigStep
  <2>1. opened' \in 0..MaxSessions
    BY <1>1 DEF TypeOK, StoreTypes
  <2>2. CASE UNCHANGED by
    BY <1>1, <1>3, <2>2 DEF RetentionInv, RetentionTypeOK, RigStep
  <2>3. ASSUME NEW c \in Callers, CallerStep(c),
               by' = IF opened' # opened THEN [by EXCEPT ![opened'] = c] ELSE by
        PROVE  by' \in [Recorders -> Callers \cup {None}]
    BY <2>1, <2>3
  <2> QED BY <1>1, <1>3, <2>2, <2>3 DEF RetentionInv, RetentionTypeOK, RigStep
<1>4. ASSUME NEW u \in Users,
             \/ Request(u) \/ EndRoute(u) \/ TakeStarting(u) \/ StartRoute(u)
             \/ Started(u) \/ EndedNothing(u) \/ Reopen(u)
      PROVE  RetentionTypeOK'
  BY <1>1, <1>4 DEF RetentionInv, RetentionTypeOK, Request, EndRoute, TakeStarting, StartRoute,
     Started, EndedNothing, Reopen, Place, Places, ownVars
<1>5. ASSUME Sweep \/ FindExpired \/ Rotate \/ Rotated \/ Shutdown \/ StopRecording \/ Stopped
      PROVE  RetentionTypeOK'
  BY <1>1, <1>5 DEF RetentionInv, RetentionTypeOK, Sweep, FindExpired, Rotate, Rotated,
     Shutdown, StopRecording, Stopped, Place, Places, ownVars, Recorded
<1>6. ASSUME NEW c \in Users \cup {Sweeper}, EnsureScratch(c) \/ Opened(c)
      PROVE  RetentionTypeOK'
  BY <1>1, <1>6 DEF RetentionInv, RetentionTypeOK, EnsureScratch, Opened, Place, Places, ownVars
<1>7. ASSUME NEW c \in Callers, Hook(c)
      PROVE  RetentionTypeOK'
  BY <1>1, <1>7 DEF RetentionInv, RetentionTypeOK, Hook, Place, Places, ownVars
<1> QED BY RetentionCases, <1>2, <1>3, <1>4, <1>5, <1>6, <1>7

\* Every step keeps the locks with who is inside.
LEMMA LocksStep ==
    ASSUME RetentionInv, IInv, [RetentionNext]_allVars
    PROVE  LocksHeld'
<1>0. /\ at \in [Callers -> Places]
      /\ step \in [Callers -> Steps] /\ wanted \in [Callers -> Kinds \cup {None}]
      /\ by \in [Recorders -> Callers \cup {None}]
      /\ kind \in [Recorders -> Kinds \cup {None}]
      /\ attached \in Recorders \cup {None}
      /\ opened \in 0..MaxSessions
      /\ session \in [Recorders -> {"none", "open", "ended"}]
  BY Typed
<1> USE <1>0, Who, Apart
<1>1. LocksHeld /\ PlaceInv /\ OpenedInv /\ ShutInv
  BY DEF RetentionInv
<1>2. CASE UNCHANGED allVars \/ RigStep
  BY <1>1, <1>2 DEF LocksHeld, allVars, ownVars, RigStep
<1>4. ASSUME NEW u \in Users,
             \/ Request(u) \/ EndRoute(u) \/ TakeStarting(u) \/ StartRoute(u)
             \/ Started(u) \/ EndedNothing(u) \/ Reopen(u)
      PROVE  LocksHeld'
  <2>1. \A c \in Callers \ {u} : at'[c] = at[c]
    BY <1>4 DEF Request, EndRoute, TakeStarting, StartRoute, Started, EndedNothing, Reopen, Place
  <2>2. \/ starting' = starting /\ sweeping' = sweeping /\ at[u] \in {"idle", "ending", "check"}
           /\ at'[u] \in {"start", "ending", "starting", "idle"}
           /\ (at[u] = "check" <=> at'[u] = "starting")
        \/ at[u] = "start" /\ starting = None /\ starting' = u /\ at'[u] = "check"
           /\ sweeping' = sweeping
        \/ at[u] \in {"check", "starting"} /\ starting' = None /\ at'[u] = "idle"
           /\ sweeping' = sweeping
        \/ at[u] = "reopen" /\ sweeping = None /\ sweeping' = u /\ at'[u] = "ensure"
           /\ starting' = starting
    BY <1>4 DEF Request, EndRoute, TakeStarting, StartRoute, Started, EndedNothing, Reopen, Place, ownVars
  <2> QED BY <1>1, <2>1, <2>2 DEF LocksHeld
<1>5. ASSUME Sweep \/ FindExpired \/ Rotate \/ Rotated \/ Shutdown \/ StopRecording \/ Stopped
      PROVE  LocksHeld'
  BY <1>1, <1>5 DEF LocksHeld, PlaceInv, Sweep, FindExpired, Rotate, Rotated,
     Shutdown, StopRecording, Stopped, Place, ownVars
<1>6. ASSUME NEW c \in Users \cup {Sweeper}, EnsureScratch(c) \/ Opened(c)
      PROVE  LocksHeld'
  BY <1>1, <1>6 DEF LocksHeld, PlaceInv, EnsureScratch, Opened, Place, ownVars
<1>7. ASSUME NEW c \in Callers, Hook(c)
      PROVE  LocksHeld'
  <2>1. wanted[c] = None /\ step[c] = "notify"
    BY <1>1, <1>7 DEF Hook, OpenedInv
  <2>2. at[c] \in {"ending", "stopping"}
    BY <1>1, <2>1 DEF PlaceInv
  <2> QED BY <1>1, <1>7, <2>2 DEF LocksHeld, Hook, Place, ownVars
<1> QED BY RetentionCases, <1>2, <1>4, <1>5, <1>6, <1>7

\* Every step keeps callers at their places.
LEMMA PlaceStep ==
    ASSUME RetentionInv, IInv, [RetentionNext]_allVars
    PROVE  PlaceInv'
<1>0. /\ at \in [Callers -> Places]
      /\ step \in [Callers -> Steps] /\ wanted \in [Callers -> Kinds \cup {None}]
      /\ by \in [Recorders -> Callers \cup {None}]
      /\ kind \in [Recorders -> Kinds \cup {None}]
      /\ attached \in Recorders \cup {None}
      /\ opened \in 0..MaxSessions
      /\ session \in [Recorders -> {"none", "open", "ended"}]
  BY Typed
<1> USE <1>0, Who, Apart
<1>1. LocksHeld /\ PlaceInv /\ OpenedInv /\ ShutInv
  BY DEF RetentionInv
<1>2. CASE UNCHANGED allVars
  BY <1>1, <1>2 DEF PlaceInv, allVars, ownVars, vars, callVars
<1>3. CASE RigStep
  <2>1. at' = at
    BY <1>3 DEF RigStep
  <2>2. \A c \in Callers : step'[c] # "idle" => step[c] # "idle" /\ wanted'[c] = wanted[c]
    BY <1>3, OthersMove, CallerMoves DEF RigStep
  <2> QED BY <1>1, <2>1, <2>2 DEF PlaceInv
<1>4. ASSUME NEW u \in Users,
             \/ Request(u) \/ EndRoute(u) \/ TakeStarting(u) \/ StartRoute(u)
             \/ Started(u) \/ EndedNothing(u) \/ Reopen(u)
      PROVE  PlaceInv'
  <2>1. \A c \in Callers \ {u} : at'[c] = at[c] /\ step'[c] = step[c] /\ wanted'[c] = wanted[c]
    BY <1>4 DEF Request, EndRoute, TakeStarting, StartRoute, Started, EndedNothing, Reopen, Place,
       Call, At, vars, callVars
  <2>2. at'[u] \in {"idle", "start", "check", "starting", "ending", "reopen", "ensure", "opening"}
    BY <1>4 DEF Request, EndRoute, TakeStarting, StartRoute, Started, EndedNothing, Reopen, Place
  <2>3. \/ at'[u] = "starting" /\ wanted'[u] = "session"
        \/ at'[u] = "ending" /\ wanted'[u] = None
        \/ step[u] = "idle" /\ step'[u] = "idle"
    BY <1>1, <1>4 DEF PlaceInv, Request, EndRoute, TakeStarting, StartRoute, Started, EndedNothing,
       Reopen, Place, Call, At, vars, callVars
  <2> QED BY <1>1, <2>1, <2>2, <2>3 DEF PlaceInv
<1>5. ASSUME Sweep \/ FindExpired \/ Rotate \/ Rotated
      PROVE  PlaceInv'
  BY <1>1, <1>5 DEF PlaceInv, Sweep, FindExpired, Rotate, Rotated, Place, ownVars,
     Call, At, vars, callVars
<1>6. ASSUME Shutdown \/ StopRecording \/ Stopped
      PROVE  PlaceInv'
  BY <1>1, <1>6 DEF PlaceInv, Shutdown, StopRecording, Stopped, Place, ownVars,
     Call, At, vars, callVars, Serving
<1>7. ASSUME NEW c \in Users \cup {Sweeper}, EnsureScratch(c) \/ Opened(c)
      PROVE  PlaceInv'
  <2>1. \A d \in Callers \ {c} : at'[d] = at[d] /\ step'[d] = step[d] /\ wanted'[d] = wanted[d]
    BY <1>7 DEF EnsureScratch, Opened, Place, Call, At, vars, callVars
  <2>2. at'[c] \in {"idle", "opening"}
    BY <1>7 DEF EnsureScratch, Opened, Place
  <2>3. \/ at'[c] = "opening" /\ wanted'[c] = "scratch"
        \/ step[c] = "idle" /\ step'[c] = "idle"
    BY <1>1, <1>7 DEF PlaceInv, EnsureScratch, Opened, Place, Call, At, vars, callVars
  <2> QED BY <1>1, <2>1, <2>2, <2>3 DEF PlaceInv
<1>8. ASSUME NEW c \in Callers, Hook(c), c \in Users \/ c = Main
      PROVE  PlaceInv'
  <2>1. wanted[c] = None /\ step[c] = "notify"
    BY <1>1, <1>8 DEF Hook, OpenedInv
  <2>2. at[c] \in {"ending", "stopping"}
    BY <1>1, <2>1 DEF PlaceInv
  <2>3. \A d \in Callers : step'[d] # "idle" => d # c /\ step[d] = step'[d] /\ wanted'[d] = wanted[d]
    BY <1>8 DEF Hook, Notify, At, callVars
  <2>4. c = Main => stopped
    BY <1>1, <2>2 DEF ShutInv
  <2> QED BY <1>1, <1>8, <2>2, <2>3, <2>4 DEF PlaceInv, Hook, Place
<1> QED BY RetentionCases, <1>2, <1>3, <1>4, <1>5, <1>6, <1>7, <1>8

\* What the routes, the sweep and the shutdown do to the rig: ask.
RouteStep ==
    \/ \E u \in Users : \/ Request(u) \/ EndRoute(u) \/ TakeStarting(u) \/ StartRoute(u)
                        \/ Started(u) \/ EndedNothing(u) \/ Reopen(u)
    \/ Sweep \/ FindExpired \/ Rotate \/ Rotated
    \/ \E c \in Users \cup {Sweeper} : EnsureScratch(c) \/ Opened(c)
    \/ Shutdown \/ StopRecording \/ Stopped

\* Every step is one of the rig's, a route's or a hook's.
LEMMA ThreeSorts ==
    ASSUME [RetentionNext]_allVars
    PROVE  \/ UNCHANGED allVars
           \/ RigStep
           \/ RouteStep
           \/ \E c \in Callers : Hook(c) /\ (c \in Users \/ c = Main)
BY RetentionCases, Who DEF RouteStep

\* All they change in the rig is that a caller comes to ask.
LEMMA RouteAsks ==
    ASSUME RouteStep, step \in [Callers -> Steps],
           wanted \in [Callers -> Kinds \cup {None}]
    PROVE  /\ UNCHANGED <<attached, rigLock, opened, session, kind, closing, failed, by>>
           /\ \A c \in Callers : \/ step'[c] = step[c]
                                 \/ step[c] = "idle" /\ step'[c] = "lock"
           /\ \A c \in Callers : step[c] # "idle" => wanted'[c] = wanted[c]
<1> USE Who
<1>1. ASSUME NEW u \in Users,
             \/ Request(u) \/ EndRoute(u) \/ TakeStarting(u) \/ StartRoute(u)
             \/ Started(u) \/ EndedNothing(u) \/ Reopen(u)
      PROVE  /\ UNCHANGED <<attached, rigLock, opened, session, kind, closing, failed, by>>
             /\ \A c \in Callers : \/ step'[c] = step[c]
                                   \/ step[c] = "idle" /\ step'[c] = "lock"
             /\ \A c \in Callers : step[c] # "idle" => wanted'[c] = wanted[c]
  BY <1>1 DEF Request, EndRoute, TakeStarting, StartRoute, Started, EndedNothing, Reopen,
     Call, At, vars, ownVars, slotVars, storeVars, threadVars, callVars
<1>2. ASSUME Sweep \/ FindExpired \/ Rotate \/ Rotated \/ Shutdown \/ StopRecording \/ Stopped
      PROVE  /\ UNCHANGED <<attached, rigLock, opened, session, kind, closing, failed, by>>
             /\ \A c \in Callers : \/ step'[c] = step[c]
                                   \/ step[c] = "idle" /\ step'[c] = "lock"
             /\ \A c \in Callers : step[c] # "idle" => wanted'[c] = wanted[c]
  BY <1>2 DEF Sweep, FindExpired, Rotate, Rotated, Shutdown, StopRecording, Stopped,
     Call, At, vars, ownVars, slotVars, storeVars, threadVars, callVars
<1>3. ASSUME NEW d \in Users \cup {Sweeper}, EnsureScratch(d) \/ Opened(d)
      PROVE  /\ UNCHANGED <<attached, rigLock, opened, session, kind, closing, failed, by>>
             /\ \A c \in Callers : \/ step'[c] = step[c]
                                   \/ step[c] = "idle" /\ step'[c] = "lock"
             /\ \A c \in Callers : step[c] # "idle" => wanted'[c] = wanted[c]
  BY <1>3 DEF EnsureScratch, Opened,
     Call, At, vars, ownVars, slotVars, storeVars, threadVars, callVars
<1> QED BY <1>1, <1>2, <1>3 DEF RouteStep

\* A hook changes nothing in the rig but the caller's step.
LEMMA HookMoves ==
    ASSUME NEW c \in Callers, Hook(c), step \in [Callers -> Steps]
    PROVE  /\ UNCHANGED <<attached, rigLock, opened, session, kind, closing, failed, by, wanted>>
           /\ step[c] = "notify" /\ step' = [step EXCEPT ![c] = "idle"]
BY DEF Hook, Notify, At, ownVars, slotVars, storeVars, threadVars

\* Who is past the rig lock is past it alone.
LEMMA LockedAlone ==
    ASSUME IInv, NEW c \in Callers, NEW d \in Callers, step[c] \in LockedSteps, step[d] \in LockedSteps
    PROVE  c = d
BY DEF IInv, LockInv

\* Every step keeps who opened a session, and what for.
LEMMA OpenedStep ==
    ASSUME RetentionInv, IInv, [RetentionNext]_allVars
    PROVE  OpenedInv'
<1>0. /\ step \in [Callers -> Steps] /\ wanted \in [Callers -> Kinds \cup {None}]
      /\ by \in [Recorders -> Callers \cup {None}]
      /\ kind \in [Recorders -> Kinds \cup {None}]
      /\ opened \in 0..MaxSessions
      /\ session \in [Recorders -> {"none", "open", "ended"}]
  BY Typed
<1>1. OpenedInv
  BY DEF RetentionInv
<1>2. CASE UNCHANGED allVars
  BY <1>1, <1>2 DEF OpenedInv, allVars, ownVars, vars, callVars, storeVars
<1>3. CASE RouteStep
  BY <1>0, <1>1, <1>3, RouteAsks DEF OpenedInv
<1>4. ASSUME NEW c \in Callers, Hook(c)
      PROVE  OpenedInv'
  BY <1>0, <1>1, <1>4, HookMoves DEF OpenedInv
<1>5. CASE RigStep
  <2>1. ASSUME NEW c \in Callers, CallerStep(c),
               by' = IF opened' # opened THEN [by EXCEPT ![opened'] = c] ELSE by
        PROVE  OpenedInv'
    <3>1. /\ \A d \in Callers \ {c} : step'[d] = step[d] /\ wanted'[d] = wanted[d]
          /\ step'[c] # "idle" => wanted'[c] = wanted[c]
          /\ step'[c] = "notify" => wanted[c] = None
      BY <2>1, CallerMoves
    <3>2. CASE /\ step[c] = "open" /\ step'[c] = "declare"
               /\ opened' = opened + 1 /\ opened' # opened
               /\ opened' \in Recorders
               /\ session' = [session EXCEPT ![opened'] = "open"]
               /\ kind' = [kind EXCEPT ![opened'] = wanted[c]]
      <4>1. wanted[c] \in Kinds
        BY <1>0, <3>2 DEF IInv, LockInv
      <4>2. \A d \in Callers : step'[d] = "declare" => d = c
        BY <3>1, <3>2, LockedAlone DEF LockedSteps
      <4>3. by'[opened'] = c /\ kind'[opened'] = wanted[c]
        BY <1>0, <2>1, <3>2
      <4>4. \A r \in Recorders : session'[r] # "none" => kind'[r] \in Kinds
        BY <1>0, <1>1, <3>2, <4>1 DEF OpenedInv
      <4>5. \A d \in Callers : step'[d] = "declare" => by'[opened'] = d /\ kind'[opened'] = wanted'[d]
        BY <3>1, <3>2, <4>2, <4>3
      <4>6. \A d \in Callers : step'[d] = "notify" => wanted'[d] = None
        BY <1>1, <3>1, <3>2 DEF OpenedInv
      <4> QED BY <4>4, <4>5, <4>6 DEF OpenedInv
    <3>3. CASE /\ step'[c] # "declare"
               /\ opened' = opened /\ kind' = kind
               /\ \A r \in Recorders : session[r] # "open" => session'[r] = session[r]
      <4>1. by' = by
        BY <2>1, <3>3
      <4>2. \A r \in Recorders : session'[r] # "none" => kind'[r] \in Kinds
        BY <1>0, <1>1, <3>3 DEF OpenedInv
      <4>3. \A d \in Callers : step'[d] = "declare" => by'[opened'] = d /\ kind'[opened'] = wanted'[d]
        BY <1>1, <3>1, <3>3, <4>1 DEF OpenedInv
      <4>4. \A d \in Callers : step'[d] = "notify" => wanted'[d] = None
        BY <1>1, <3>1 DEF OpenedInv
      <4> QED BY <4>2, <4>3, <4>4 DEF OpenedInv
    <3> QED BY <2>1, <3>2, <3>3, CallerOpens
  <2>2. CASE /\ \/ \E s \in Sources : Read(s) \/ Deliver(s)
                \/ \E r \in Recorders : RecorderStep(r)
             /\ UNCHANGED by
    BY <1>0, <1>1, <2>2, OthersMove DEF OpenedInv
  <2> QED BY <1>5, <2>1, <2>2 DEF RigStep
<1> QED BY ThreeSorts, <1>2, <1>3, <1>4, <1>5

\* Who comes to wait for the rig lock, and with what attached.
LEMMA RouteEnters ==
    ASSUME RetentionInv, IInv, RouteStep
    PROVE  \A c \in Callers :
              /\ step[c] # "idle" => at'[c] = at[c]
              /\ step'[c] = "lock" =>
                    \/ step[c] = "lock"
                    \/ at'[c] \in {"ending", "rotating", "stopping"}
                    \/ at'[c] = "starting" /\ ~Recorded
                    \/ at'[c] = "opening" /\ attached = None
<1>0. at \in [Callers -> Places] /\ step \in [Callers -> Steps]
  BY Typed
<1>1. PlaceInv
  BY DEF RetentionInv
<1> DEFINE Good(c) ==
              /\ step[c] # "idle" => at'[c] = at[c]
              /\ step'[c] = "lock" =>
                    \/ step[c] = "lock"
                    \/ at'[c] \in {"ending", "rotating", "stopping"}
                    \/ at'[c] = "starting" /\ ~Recorded
                    \/ at'[c] = "opening" /\ attached = None
<1>2. ASSUME NEW u \in Users,
             \/ Request(u) \/ EndRoute(u) \/ TakeStarting(u) \/ StartRoute(u)
             \/ Started(u) \/ EndedNothing(u) \/ Reopen(u)
      PROVE  \A c \in Callers : Good(c)
  <2>1. \A c \in Callers \ {u} : Good(c)
    BY <1>0, <1>2, Who DEF Request, EndRoute, TakeStarting, StartRoute, Started, EndedNothing, Reopen,
       Place, Call, At, vars, callVars
  <2>2. Good(u)
    BY <1>0, <1>1, <1>2, Who DEF PlaceInv, Request, EndRoute, TakeStarting, StartRoute, Started,
       EndedNothing, Reopen, Place, Call, At, vars, callVars
  <2> QED BY <2>1, <2>2
<1>3. ASSUME Sweep \/ FindExpired \/ Rotate \/ Rotated \/ Shutdown \/ StopRecording \/ Stopped
      PROVE  \A c \in Callers : Good(c)
  BY <1>0, <1>1, <1>3, Who DEF PlaceInv, Sweep, FindExpired, Rotate, Rotated, Shutdown, StopRecording,
     Stopped, Place, Call, At, vars, callVars, Serving
<1>4. ASSUME NEW d \in Users \cup {Sweeper}, EnsureScratch(d) \/ Opened(d)
      PROVE  \A c \in Callers : Good(c)
  BY <1>0, <1>1, <1>4, Who DEF PlaceInv, EnsureScratch, Opened, Place, Call, At, vars, callVars
<1> QED BY <1>2, <1>3, <1>4 DEF RouteStep

\* Every step keeps what a waiting caller will find attached.
LEMMA SlotStep ==
    ASSUME RetentionInv, IInv, [RetentionNext]_allVars
    PROVE  SlotInv'
<1>0. /\ at \in [Callers -> Places]
      /\ step \in [Callers -> Steps] /\ wanted \in [Callers -> Kinds \cup {None}]
      /\ by \in [Recorders -> Callers \cup {None}]
      /\ kind \in [Recorders -> Kinds \cup {None}]
      /\ attached \in Recorders \cup {None}
      /\ opened \in 0..MaxSessions
      /\ session \in [Recorders -> {"none", "open", "ended"}]
  BY Typed
<1>1. SlotInv /\ OpenedInv /\ PlaceInv /\ LocksHeld
  BY DEF RetentionInv
<1>2. CASE UNCHANGED allVars
  BY <1>1, <1>2 DEF SlotInv, allVars, ownVars, vars, callVars, storeVars, slotVars
<1>3. CASE RouteStep
  <2> SUFFICES ASSUME NEW c \in Callers, NEW r \in Recorders, step'[c] = "lock", attached' = r
               PROVE  /\ at'[c] = "starting" => by'[r] \notin Users \/ kind'[r] = "scratch"
                      /\ at'[c] = "opening" => kind'[r] = "session"
    BY DEF SlotInv
  <2>1. attached = r /\ by' = by /\ kind' = kind
    BY <1>0, <1>3, RouteAsks
  <2>2. session[r] = "open"
    BY <2>1 DEF IInv, UseInv
  <2>3. kind[r] \in {"session", "scratch"}
    BY <1>1, <2>2, RetentionAssumption DEF OpenedInv
  <2>4. CASE step[c] = "lock"
    <3>1. at'[c] = at[c]
      BY <1>3, <2>4, RouteEnters
    <3> QED BY <1>1, <2>1, <2>4, <3>1 DEF SlotInv
  <2>5. CASE at'[c] \in {"ending", "rotating", "stopping"}
    BY <2>5
  <2>6. CASE at'[c] = "starting" /\ ~Recorded
    BY <2>1, <2>3, <2>6, Apart DEF Recorded
  <2>7. CASE at'[c] = "opening" /\ attached = None
    BY <2>1, <2>7, Apart
  <2> QED BY <1>3, <2>4, <2>5, <2>6, <2>7, RouteEnters
<1>4. ASSUME NEW c \in Callers, Hook(c)
      PROVE  SlotInv'
  <2>1. \A d \in Callers : step'[d] = "lock" => step[d] = "lock" /\ at'[d] = at[d]
    BY <1>0, <1>4, HookMoves DEF Hook, Place
  <2>2. attached' = attached /\ kind' = kind /\ by' = by
    BY <1>0, <1>4, HookMoves
  <2> QED BY <1>1, <2>1, <2>2 DEF SlotInv
<1>5. CASE RigStep
  <2>0. at' = at
    BY <1>5 DEF RigStep
  <2>1. ASSUME NEW d \in Callers, CallerStep(d),
               by' = IF opened' # opened THEN [by EXCEPT ![opened'] = d] ELSE by,
               NEW c \in Callers, NEW r \in Recorders, step'[c] = "lock", attached' = r
        PROVE  /\ at[c] = "starting" => by'[r] \notin Users \/ kind'[r] = "scratch"
               /\ at[c] = "opening" => kind'[r] = "session"
    <3>1. c # d /\ step[c] = "lock"
      BY <2>1, CallerMoves
    <3>2. step[d] # "open"
      <4>1. step[d] = "open" => rigLock = d /\ attached = None
        BY Apart DEF IInv, LockInv, LockedSteps
      <4> QED BY <2>1, <4>1, CallerOpens, Apart
    <3>3. opened' = opened /\ kind' = kind /\ by' = by
      BY <2>1, <3>2, CallerOpens
    <3>4. CASE attached = r
      BY <1>1, <3>1, <3>3, <3>4 DEF SlotInv
    <3>5. CASE step[d] = "declare" /\ r = opened
      <4>1. by[r] = d /\ kind[r] = wanted[d]
        BY <1>1, <3>5 DEF OpenedInv
      <4>2. wanted[d] \in {"session", "scratch"}
        BY <1>0, <3>5, RetentionAssumption DEF IInv, LockInv
      <4>3. ASSUME at[c] = "starting", d \in Users, wanted[d] = "session"
            PROVE  FALSE
        <5>1. at[d] \in {"starting", "rotating"} /\ c \in Users
          BY <1>1, <3>5, <4>3, Who, Apart, RetentionAssumption DEF PlaceInv
        <5>2. at[d] = "starting"
          BY <1>1, <4>3, <5>1 DEF PlaceInv
        <5> QED BY <1>1, <3>1, <4>3, <5>1, <5>2 DEF LocksHeld
      <4>4. ASSUME at[c] = "opening", wanted[d] = "scratch"
            PROVE  FALSE
        <5>1. at[d] = "opening"
          BY <1>1, <3>5, <4>4, Apart, Who DEF PlaceInv
        <5> QED BY <1>1, <3>1, <4>4, <5>1 DEF LocksHeld
      <4> QED BY <3>3, <4>1, <4>2, <4>3, <4>4
    <3> QED BY <2>1, <3>4, <3>5, CallerOpens, Apart
  <2>2. CASE /\ \/ \E s \in Sources : Read(s) \/ Deliver(s)
                \/ \E r \in Recorders : RecorderStep(r)
             /\ UNCHANGED by
    <3>1. step' = step /\ kind' = kind /\ attached' \in {attached, None}
      BY <2>2, OthersMove
    <3> QED BY <1>1, <2>0, <2>2, <3>1, Apart DEF SlotInv
  <2> QED BY <1>5, <2>0, <2>1, <2>2 DEF RigStep, SlotInv
<1> QED BY ThreeSorts, <1>2, <1>3, <1>4, <1>5

\* Every step keeps the order of a shutdown.
LEMMA ShutStep ==
    ASSUME RetentionInv, IInv, [RetentionNext]_allVars
    PROVE  ShutInv'
<1>0. /\ at \in [Callers -> Places] /\ step \in [Callers -> Steps]
      /\ wanted \in [Callers -> Kinds \cup {None}]
  BY Typed
<1>1. ShutInv /\ PlaceInv /\ OpenedInv
  BY DEF RetentionInv
<1> USE <1>0, Who, Apart
<1>2. CASE UNCHANGED allVars
  BY <1>1, <1>2 DEF ShutInv, allVars, ownVars, vars, callVars, slotVars
<1>3. ASSUME NEW u \in Users,
             \/ Request(u) \/ EndRoute(u) \/ TakeStarting(u) \/ StartRoute(u)
             \/ Started(u) \/ EndedNothing(u) \/ Reopen(u)
      PROVE  ShutInv'
  <2>1. stopped' = stopped /\ attached' = attached
    BY <1>3 DEF Request, EndRoute, TakeStarting, StartRoute, Started, EndedNothing, Reopen, Call,
       vars, slotVars, ownVars
  <2>2. /\ \A c \in Callers \ {u} : at'[c] = at[c] /\ step'[c] = step[c]
        /\ ~stopped
    BY <1>1, <1>3 DEF ShutInv, Serving, Request, EndRoute, TakeStarting, StartRoute, Started, EndedNothing,
       Reopen, Place, Call, At, vars, callVars
  <2> QED BY <1>1, <2>1, <2>2 DEF ShutInv
<1>4. ASSUME Sweep \/ FindExpired \/ Rotate \/ Rotated
      PROVE  ShutInv'
  <2>1. stopped' = stopped /\ attached' = attached
    BY <1>4 DEF Sweep, FindExpired, Rotate, Rotated, Call, vars, slotVars, ownVars
  <2>2. /\ \A c \in Callers \ {Sweeper} : at'[c] = at[c] /\ step'[c] = step[c]
        /\ at[Main] \notin {"stopping", "over"}
    BY <1>1, <1>4 DEF ShutInv, Sweep, FindExpired, Rotate, Rotated, Place, Call, At, vars, callVars
  <2> QED BY <1>1, <2>1, <2>2 DEF ShutInv
<1>5. ASSUME NEW c \in Users \cup {Sweeper}, EnsureScratch(c) \/ Opened(c)
      PROVE  ShutInv'
  <2>1. stopped' = stopped /\ attached' = attached
    BY <1>5 DEF EnsureScratch, Opened, Call, vars, slotVars, ownVars
  <2>2. /\ \A d \in Callers \ {c} : at'[d] = at[d] /\ step'[d] = step[d]
        /\ at[c] \in {"ensure", "opening"}
    BY <1>5 DEF EnsureScratch, Opened, Place, Call, At, vars, callVars
  <2>3. CASE c \in Users
    BY <1>1, <2>1, <2>2, <2>3 DEF ShutInv
  <2>4. CASE c = Sweeper
    BY <1>1, <2>1, <2>2, <2>4 DEF ShutInv
  <2> QED BY <2>3, <2>4
<1>6. CASE Shutdown
  BY <1>1, <1>6 DEF ShutInv, Shutdown, Serving, Place
<1>7. CASE StopRecording
  BY <1>1, <1>7 DEF ShutInv, StopRecording, Place, Call, At, ownVars
<1>8. CASE Stopped
  BY <1>1, <1>8 DEF ShutInv, Stopped, Place, ownVars, vars, slotVars, callVars
<1>9. ASSUME NEW c \in Callers, Hook(c), c \in Users \/ c = Main
      PROVE  ShutInv'
  <2>1. wanted[c] = None /\ step[c] = "notify" /\ attached' = attached
    BY <1>1, <1>9, HookMoves DEF OpenedInv
  <2>2. at[c] \in {"ending", "stopping"}
    BY <1>1, <2>1 DEF PlaceInv
  <2>3. /\ \A d \in Callers \ {c} : at'[d] = at[d] /\ step'[d] = step[d]
        /\ stopped' = stopped
        /\ at'[c] = IF stopped THEN at[c] ELSE "reopen"
    BY <1>9 DEF Hook, Notify, Place, At, ownVars
  <2>4. CASE c \in Users
    BY <1>1, <2>1, <2>2, <2>3, <2>4 DEF ShutInv
  <2>5. CASE c = Main
    BY <1>1, <2>1, <2>2, <2>3, <2>5 DEF ShutInv
  <2> QED BY <1>9, <2>4, <2>5
<1>10. CASE RigStep
  <2>1. at' = at /\ stopped' = stopped
    BY <1>10 DEF RigStep
  <2>2. ASSUME at[Main] \in {"stopping", "over"}, step'[Main] # "lock"
        PROVE  attached' = None
    <3>1. \A d \in Callers : d # Main => step[d] = "idle"
      BY <1>1, <2>2, RetentionAssumption DEF ShutInv, PlaceInv
    <3>2. step[Main] # "declare"
      BY <1>1, <2>2 DEF PlaceInv, IInv, LockInv
    <3>3. ASSUME NEW d \in Callers, CallerStep(d)
          PROVE  attached' = None
      <4>1. d = Main
        BY <3>1, <3>3, CallerMoves
      <4>2. CASE step[Main] = "lock"
        BY <3>3, <4>1, <4>2 DEF CallerStep, Enter, Join, LastFlush, LastWrite, LastWriteFails, End,
           EndFails, OpenSession, OpenFails, Declare, DeclareFails
      <4>3. CASE step[Main] # "lock"
        BY <1>1, <2>2, <3>2, <3>3, <4>1, <4>3, CallerOpens DEF ShutInv
      <4> QED BY <4>2, <4>3
    <3>4. CASE \/ \E s \in Sources : Read(s) \/ Deliver(s)
               \/ \E r \in Recorders : RecorderStep(r)
      BY <1>1, <2>2, <3>4, OthersMove DEF ShutInv
    <3> QED BY <1>10, <3>3, <3>4 DEF RigStep
  <2> QED BY <1>1, <2>1, <2>2 DEF ShutInv
<1> QED BY RetentionCases, <1>2, <1>3, <1>4, <1>5, <1>6, <1>7, <1>8, <1>9, <1>10

\* Every step keeps an open session's recorder in use, as nothing fails.
LEMMA HealthyStep ==
    ASSUME RetentionInv, IInv, [RetentionNext]_allVars
    PROVE  HealthyInv'
<1>0. /\ step \in [Callers -> Steps] /\ wanted \in [Callers -> Kinds \cup {None}]
      /\ closing \in [Callers -> Recorders \cup {None}]
      /\ attached \in Recorders \cup {None}
      /\ opened \in 0..MaxSessions /\ MaxSessions \in Nat
      /\ session \in [Recorders -> {"none", "open", "ended"}]
      /\ ~StoreMayFail
  BY Typed, RecordingAssumption, RetentionAssumption DEF IInv, TypeOK, ActorTypes
<1>1. HealthyInv /\ LockInv /\ FailureInv
  BY DEF RetentionInv, IInv
<1> DEFINE Safe(r) == ~failed[r] /\ (session[r] = "open" => InUse(r))
<1>2. ASSUME UNCHANGED <<attached, opened, session, closing, failed>>,
             \A c \in Callers : step[c] = "declare" => step'[c] = "declare"
      PROVE  HealthyInv'
  BY <1>1, <1>2 DEF HealthyInv, InUse, Closing, Opening
<1>3. CASE UNCHANGED allVars
  BY <1>2, <1>3 DEF allVars, ownVars, vars, callVars, slotVars, storeVars, threadVars
<1>4. CASE RouteStep
  BY <1>0, <1>2, <1>4, RouteAsks
<1>5. ASSUME NEW c \in Callers, Hook(c)
      PROVE  HealthyInv'
  BY <1>0, <1>2, <1>5, HookMoves
<1>6. ASSUME NEW s \in Sources, Read(s) \/ Deliver(s)
      PROVE  HealthyInv'
  BY <1>2, <1>6 DEF Read, Deliver, slotVars, storeVars, threadVars, callVars
<1>7. ASSUME NEW r \in Recorders, RecorderStep(r)
      PROVE  HealthyInv'
  <2>1. ~failed[r]
    BY <1>1 DEF HealthyInv
  <2>2. thread[r] \notin {"failing", "reporting", "ending"}
    BY <1>1, <2>1 DEF FailureInv
  <2>3. Wake(r) \/ Take(r) \/ Written(r)
    BY <1>0, <1>7, <2>2 DEF RecorderStep, FlushFails, WriteFails, Detach, ReportFailure, EndFailed
  <2> QED BY <1>2, <2>3 DEF Wake, Take, Written, slotVars, storeVars, callVars
<1>8. ASSUME NEW c \in Callers, CallerStep(c)
      PROVE  HealthyInv'
  <2>1. ~LastWriteFails(c) /\ ~EndFails(c) /\ ~DeclareFails(c)
    BY <1>0 DEF LastWriteFails, WriteFails, EndFails, DeclareFails
  <2>2. CASE Join(c) \/ LastFlush(c) \/ LastWrite(c)
    BY <1>0, <1>2, <2>2 DEF Join, LastFlush, LastWrite, At, slotVars, storeVars, threadVars
  <2>3. CASE Enter(c)
    <3>1. /\ opened' = opened /\ session' = session /\ failed' = failed
          /\ closing' = [closing EXCEPT ![c] = attached]
      BY <2>3 DEF Enter, storeVars
    <3>2. closing[c] = None
      BY <1>1, <2>3 DEF Enter, LockInv
    <3>3. \A d \in Callers : step[d] = "declare" => step'[d] = "declare"
      BY <1>0, <1>8, <2>3, CallerMoves DEF Enter
    <3>4. \A r \in Recorders : InUse(r) => InUse(r)'
      BY <1>0, <3>1, <3>2, <3>3, Apart DEF InUse, Closing, Opening
    <3> QED BY <1>1, <3>1, <3>4 DEF HealthyInv
  <2>4. CASE End(c)
    <3>1. /\ attached' = attached /\ opened' = opened /\ failed' = failed
          /\ session' = [session EXCEPT ![closing[c]] = "ended"]
          /\ closing' = [closing EXCEPT ![c] = None]
          /\ step[c] = "end"
      BY <2>4 DEF End, EndSession, threadVars
    <3>2. \A d \in Callers : step[d] = "declare" => step'[d] = "declare"
      BY <1>8, <2>4, <3>1, <1>0, CallerMoves DEF End
    <3>3. \A r \in Recorders : r # closing[c] /\ InUse(r) => InUse(r)'
      BY <1>0, <3>1, <3>2, Apart DEF InUse, Closing, Opening
    <3>4. \A r \in Recorders : r = closing[c] => session'[r] = "ended"
      BY <1>0, <3>1
    <3>5. \A r \in Recorders : r # closing[c] => session'[r] = session[r]
      BY <1>0, <3>1
    <3> QED BY <1>1, <3>1, <3>3, <3>4, <3>5 DEF HealthyInv
  <2>5. CASE OpenSession(c)
    <3>1. /\ attached' = attached /\ closing' = closing /\ failed' = failed
          /\ step[c] = "open" /\ step'[c] = "declare"
          /\ opened' \in Recorders
          /\ session' = [session EXCEPT ![opened'] = "open"]
      BY <1>0, <2>5 DEF OpenSession, At, slotVars, threadVars, Recorders
    <3>2. \A d \in Callers : step[d] # "declare"
      BY <3>1, LockedAlone DEF LockedSteps
    <3>3. \A r \in Recorders : InUse(r) => InUse(r)'
      BY <3>1, <3>2 DEF InUse, Closing, Opening
    <3>4. InUse(opened)'
      BY <3>1 DEF InUse, Opening
    <3>5. \A r \in Recorders : r # opened' => session'[r] = session[r]
      BY <1>0, <3>1
    <3> QED BY <1>1, <3>1, <3>3, <3>4, <3>5 DEF HealthyInv
  <2>6. CASE OpenFails(c)
    <3>1. /\ attached' = attached /\ opened' = opened /\ session' = session /\ failed' = failed
          /\ closing' = [closing EXCEPT ![c] = None]
          /\ step[c] = "open"
      BY <2>6 DEF OpenFails, Leave, storeVars, threadVars
    <3>2. closing[c] = None
      BY <1>1, <3>1 DEF LockInv
    <3>3. closing' = closing
      BY <1>0, <3>1, <3>2
    <3>4. \A d \in Callers : step[d] # "declare"
      BY <3>1, LockedAlone DEF LockedSteps
    <3> QED BY <1>2, <3>1, <3>3, <3>4
  <2>7. CASE Declare(c)
    <3>1. /\ attached' = opened /\ opened' = opened /\ session' = session /\ failed' = failed
          /\ closing' = [closing EXCEPT ![c] = None]
          /\ step[c] = "declare"
      BY <2>7 DEF Declare, Leave, storeVars
    <3>2. closing[c] = None /\ attached = None
      BY <1>1, <3>1, Apart DEF LockInv, LockedSteps
    <3>3. closing' = closing
      BY <1>0, <3>1, <3>2
    <3>4. \A r \in Recorders : InUse(r) => InUse(r)'
      BY <3>1, <3>2, <3>3, Apart DEF InUse, Closing, Opening
    <3> QED BY <1>1, <3>1, <3>4 DEF HealthyInv
  <2> QED BY <1>8, <2>1, <2>2, <2>3, <2>4, <2>5, <2>6, <2>7 DEF CallerStep
<1> QED BY ThreeSorts, <1>3, <1>4, <1>5, <1>6, <1>7, <1>8 DEF RigStep

\* The runner's invariant holds in every state.
THEOREM RetentionInvariance == RetentionSpec => []RetentionInv
<1>1. RetentionInit => RetentionInv
  BY RetentionInitInv
<1>2. RetentionInv /\ IInv /\ [RetentionNext]_allVars => RetentionInv'
  BY RetentionTypeStep, LocksStep, PlaceStep, OpenedStep, SlotStep, ShutStep, HealthyStep
     DEF RetentionInv
<1> QED BY <1>1, <1>2, RecordingInvariance, PTL DEF RetentionSpec

\* Every variable has its type.
THEOREM RetentionTypeCorrect == RetentionSpec => []RetentionTypeOK
BY RetentionInvariance, PTL DEF RetentionInv

\* _starting and Retention._lock are held by who is inside, and by nobody else.
THEOREM LocksHeldHolds == RetentionSpec => []LocksHeld
BY RetentionInvariance, PTL DEF RetentionInv

\* After the shutdown nothing is attached and every session is ended.
LEMMA ShutIsClosed == RetentionInv /\ IInv => ShutMeansClosed
<1> SUFFICES ASSUME RetentionInv, IInv, at[Main] = "over"
             PROVE  attached = None /\ \A r \in Recorders : session[r] # "open"
  BY DEF ShutMeansClosed
<1>1. ShutInv /\ PlaceInv /\ HealthyInv /\ LockInv
  BY DEF RetentionInv, IInv
<1>2. \A c \in Callers : step[c] = "idle"
  BY <1>1, RetentionAssumption DEF ShutInv, PlaceInv
<1>3. attached = None
  BY <1>1, <1>2, Who DEF ShutInv
<1>4. \A c \in Callers : closing[c] = None
  BY <1>1, <1>2 DEF LockInv
<1> QED BY <1>1, <1>2, <1>3, <1>4, Apart DEF HealthyInv, InUse, Closing, Opening

\* A runner that has shut down leaves no session open.
THEOREM ShutHolds == RetentionSpec => []ShutMeansClosed
BY RetentionInvariance, RecordingInvariance, ShutIsClosed, PTL

\* A POST never cuts off what another POST opened.
THEOREM SparesHolds == RetentionSpec => StartsSpareStarts
<1>1. RetentionInv /\ [RetentionNext]_allVars =>
        [\A u \in Users : attached \in Recorders /\ starting = u /\ step[u] = "lock" /\ step'[u] # "lock"
            => by[attached] \notin Users \/ kind[attached] = "scratch"]_allVars
  <2> SUFFICES ASSUME RetentionInv, NEW u \in Users,
                      attached \in Recorders, starting = u, step[u] = "lock"
               PROVE  by[attached] \notin Users \/ kind[attached] = "scratch"
    OBVIOUS
  <2>1. at[u] \in {"check", "starting"}
    BY DEF RetentionInv, LocksHeld
  <2>2. at[u] = "starting"
    BY <2>1, Who DEF RetentionInv, PlaceInv
  <2> QED BY <2>2, Who DEF RetentionInv, SlotInv
<1> QED BY <1>1, RetentionInvariance, PTL DEF RetentionSpec, StartsSpareStarts

\* A scratch session never replaces a scratch session.
THEOREM OneScratchHolds == RetentionSpec => OneScratch
<1>1. RetentionInv /\ [RetentionNext]_allVars =>
        [\A c \in Callers : attached \in Recorders /\ at[c] = "opening" /\ step[c] = "lock" /\ step'[c] # "lock"
            => kind[attached] # "scratch"]_allVars
  BY DEF RetentionInv, SlotInv
<1> QED BY <1>1, RetentionInvariance, PTL DEF RetentionSpec, OneScratch
=============================================================================
