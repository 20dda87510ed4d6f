---------------------------- MODULE WaitsProofs ----------------------------
(***************************************************************************)
(* Proofs about Waits, for any number of waits, names and sockets.         *)
(***************************************************************************)
EXTENDS Waits, TLAPS

\* The hook is set on the way from register to remove, a stamp is the wait's
\* outcome or from before it, and versions only grow.
Hooked == {"check", "note", "publish", "wait", "unhook"}

Threads ==
    /\ \A w \in Waiting : w \in hook <=> waiter[w] \in Hooked
    /\ \A w \in Waiting : stamp[w] \in {"pending", outcome[w]}

Versions ==
    /\ \A n \in Names : stored[n] <= version
    /\ \A n \in Names : stored[n] = 0 => latest[n] = Nothing
    /\ \A s \in Sockets : asked[s] <= version

WInv == TypeOK /\ OwnsItsName /\ Threads /\ ShownAsItIs /\ Versions /\ SocketCurrent

\* Nobody has registered, settled or read anything yet.
LEMMA WInvInit == Init => WInv
  BY WaitsAssumption
  DEF Init, WInv, TypeOK, OwnsItsName, Threads, ShownAsItIs, Versions, SocketCurrent, Outcomes,
      States, Nothing, Held, Hooked, Untold

\* A state told of a name is newer than anything a socket has seen.
LEMMA TellKeeps ==
    ASSUME TypeOK, Versions, SocketCurrent, NEW w \in Waiting, NEW how \in Outcomes, Tell(w, how),
           UNCHANGED socketVars
    PROVE  /\ latest' \in [Names -> States] /\ stored' \in [Names -> Nat] /\ version' \in Nat
           /\ Versions' /\ SocketCurrent'
  <1>1. NameOf[w] \in Names
    BY WaitsAssumption
  <1>2. [wait |-> w, outcome |-> how] \in States
    BY DEF States
  <1> QED
    BY <1>1, <1>2 DEF TypeOK, Versions, SocketCurrent, Tell, socketVars

\* A step that leaves what is told and what is sent alone.
LEMMA QuietKeeps ==
    ASSUME Versions, SocketCurrent, UNCHANGED <<latestVars, socketVars>>
    PROVE  Versions' /\ SocketCurrent'
  BY DEF Versions, SocketCurrent, latestVars, socketVars

\* The thread that waits.
LEMMA WaiterKeeps ==
    ASSUME WInv, NEW w \in Waiting, WaiterStep(w)
    PROVE  WInv'
  <1> USE DEF WInv
  <1>n. NameOf[w] \in Names /\ \A u \in Waiting : NameOf[u] \in Names
    BY WaitsAssumption
  <1>0. None \notin Waiting /\ "pending" \in Outcomes
    BY WaitsAssumption DEF Outcomes
  <1>1. CASE Stamp(w)
    <2>1. Versions' /\ SocketCurrent'
      BY <1>1, QuietKeeps DEF Stamp
    <2>2. TypeOK' /\ Threads'
      BY <1>1 DEF Stamp, TypeOK, Threads, Hooked, WaiterTo, triggerVars, registryVars, latestVars, socketVars
    <2>3. OwnsItsName' /\ ShownAsItIs'
      BY <1>1, <1>0 DEF Stamp, TypeOK, OwnsItsName, ShownAsItIs, Untold, Held, WaiterTo, triggerVars, registryVars
    <2> QED BY <2>1, <2>2, <2>3
  <1>2. CASE Register(w)
    <2>1. CASE entry[NameOf[w]] \notin {None, w}
      <3>1. Versions' /\ SocketCurrent'
        BY <1>2, <2>1, QuietKeeps DEF Register
      <3>2. TypeOK' /\ Threads'
        BY <1>2, <2>1, <1>0 DEF Register, TypeOK, Threads, Hooked, WaiterTo, triggerVars, registryVars, latestVars, socketVars
      <3>3. OwnsItsName' /\ ShownAsItIs'
        BY <1>2, <2>1, <1>n, <1>0 DEF Register, TypeOK, OwnsItsName, ShownAsItIs, Untold, Held, WaiterTo, triggerVars, registryVars
      <3> QED BY <3>1, <3>2, <3>3
    <2>2. CASE entry[NameOf[w]] \in {None, w}
      <3>1. Tell(w, stamp[w]) /\ stamp[w] \in Outcomes
        BY <1>2, <2>2 DEF Register, TypeOK
      <3>2. /\ latest' \in [Names -> States] /\ stored' \in [Names -> Nat] /\ version' \in Nat
            /\ Versions' /\ SocketCurrent'
        BY <1>2, <3>1, TellKeeps DEF Register
      <3>a. /\ waiter[w] = "register" /\ waiter' = [waiter EXCEPT ![w] = "hook"]
            /\ entry' = [entry EXCEPT ![NameOf[w]] = w]
            /\ shown' = [shown EXCEPT ![NameOf[w]] = stamp[w]]
            /\ stamp' = [stamp EXCEPT ![w] = "pending"]
        BY <1>2, <2>2 DEF Register, WaiterTo
      <3>b. TypeOK'
        BY <1>2, <1>n, <1>0, <3>1, <3>2, <3>a DEF Register, TypeOK, triggerVars, socketVars
      <3>c. Threads'
        BY <1>2, <3>a DEF Register, TypeOK, Threads, Hooked, triggerVars
      <3>3. TypeOK' /\ Threads'
        BY <3>b, <3>c
      <3>4. OwnsItsName'
        <4>1. ASSUME NEW u \in Waiting, waiter'[u] \in Held PROVE entry'[NameOf[u]] = u
          <5>1. CASE u = w
            BY <5>1, <3>a, <1>n DEF TypeOK
          <5>2. CASE u # w
            <6>1. waiter[u] \in Held
              BY <4>1, <5>2, <3>a DEF TypeOK
            <6>2. entry[NameOf[u]] = u
              BY <6>1 DEF OwnsItsName
            <6> QED BY <5>2, <6>2, <3>a, <2>2, <1>n, <1>0 DEF TypeOK
          <5> QED BY <5>1, <5>2
        <4>2. ASSUME NEW n \in Names, entry'[n] # None
              PROVE  waiter'[entry'[n]] \in Held /\ NameOf[entry'[n]] = n
          <5>1. CASE n = NameOf[w]
            BY <5>1, <3>a, <1>n DEF TypeOK, Held
          <5>2. CASE n # NameOf[w]
            BY <4>2, <5>2, <3>a, <1>n DEF TypeOK, OwnsItsName, Held
          <5> QED BY <5>1, <5>2
        <4> QED BY <4>1, <4>2 DEF OwnsItsName
      <3>5. ShownAsItIs'
        BY <1>2, <2>2, <1>n, <1>0 DEF Register, TypeOK, Threads, ShownAsItIs, Untold, WaiterTo, triggerVars
      <3> QED BY <3>2, <3>3, <3>4, <3>5
    <2> QED BY <2>1, <2>2
  <1>3. CASE Hook(w)
    <2>1. Versions' /\ SocketCurrent'
      BY <1>3, QuietKeeps DEF Hook
    <2>2. TypeOK' /\ Threads'
      BY <1>3 DEF Hook, TypeOK, Threads, Hooked, WaiterTo, registryVars, latestVars, socketVars
    <2>3. OwnsItsName' /\ ShownAsItIs'
      BY <1>3, <1>0 DEF Hook, TypeOK, OwnsItsName, ShownAsItIs, Untold, Held, WaiterTo, registryVars
    <2> QED BY <2>1, <2>2, <2>3
  <1>4. CASE CheckSettled(w)
    <2>1. Versions' /\ SocketCurrent'
      BY <1>4, QuietKeeps DEF CheckSettled
    <2>2. TypeOK' /\ Threads'
      BY <1>4 DEF CheckSettled, TypeOK, Threads, Hooked, WaiterTo, triggerVars, registryVars, latestVars, socketVars
    <2>3. OwnsItsName' /\ ShownAsItIs'
      BY <1>4, <1>0 DEF CheckSettled, TypeOK, OwnsItsName, ShownAsItIs, Untold, Held, WaiterTo, triggerVars, registryVars
    <2> QED BY <2>1, <2>2, <2>3
  <1>5. CASE NoteOwn(w)
    <2>1. Versions' /\ SocketCurrent'
      BY <1>5, QuietKeeps DEF NoteOwn
    <2>2. TypeOK' /\ Threads'
      BY <1>5, <1>n DEF NoteOwn, Note, Listed, TypeOK, Threads, Hooked, WaiterTo, triggerVars, latestVars, socketVars
    <2>3. Listed(w)
      BY <1>5 DEF NoteOwn, Listed, OwnsItsName, Held
    <2>4. OwnsItsName' /\ ShownAsItIs'
      BY <1>5, <1>n, <1>0, <2>3 DEF NoteOwn, Note, Listed, TypeOK, OwnsItsName, ShownAsItIs, Untold, Held, WaiterTo, triggerVars
    <2> QED BY <2>1, <2>2, <2>4
  <1>6. CASE PublishOwn(w)
    <2>1. /\ latest' \in [Names -> States] /\ stored' \in [Names -> Nat] /\ version' \in Nat
          /\ Versions' /\ SocketCurrent'
      BY <1>6, TellKeeps DEF PublishOwn, TypeOK
    <2>2. TypeOK' /\ Threads'
      BY <1>6, <2>1, <1>0 DEF PublishOwn, TypeOK, Threads, Hooked, WaiterTo, triggerVars, registryVars, socketVars
    <2>3. OwnsItsName' /\ ShownAsItIs'
      BY <1>6, <1>0 DEF PublishOwn, TypeOK, OwnsItsName, ShownAsItIs, Untold, Held, WaiterTo, triggerVars, registryVars
    <2> QED BY <2>1, <2>2, <2>3
  <1>7. CASE Remove(w)
    <2>1. Versions' /\ SocketCurrent'
      BY <1>7, QuietKeeps DEF Remove
    <2>2. TypeOK' /\ Threads'
      BY <1>7, <1>n DEF Remove, TypeOK, Threads, Hooked, WaiterTo, triggerVars, latestVars, socketVars
    <2>3. OwnsItsName' /\ ShownAsItIs'
      BY <1>7, <1>n, <1>0 DEF Remove, TypeOK, OwnsItsName, ShownAsItIs, Untold, Held, WaiterTo, triggerVars
    <2> QED BY <2>1, <2>2, <2>3
  <1>8. CASE Unhook(w)
    <2>1. Versions' /\ SocketCurrent'
      BY <1>8, QuietKeeps DEF Unhook
    <2>2. TypeOK' /\ Threads'
      BY <1>8 DEF Unhook, TypeOK, Threads, Hooked, WaiterTo, registryVars, latestVars, socketVars
    <2>3. OwnsItsName' /\ ShownAsItIs'
      BY <1>8, <1>0 DEF Unhook, TypeOK, OwnsItsName, ShownAsItIs, Untold, Held, WaiterTo, registryVars
    <2> QED BY <2>1, <2>2, <2>3
  <1> QED
    BY <1>1, <1>2, <1>3, <1>4, <1>5, <1>6, <1>7, <1>8 DEF WaiterStep

\* The thread that settles.
LEMMA SettlerKeeps ==
    ASSUME WInv, NEW w \in Waiting, Settle(w) \/ SettlerStep(w)
    PROVE  WInv'
  <1> USE DEF WInv
  <1>n. NameOf[w] \in Names /\ \A u \in Waiting : NameOf[u] \in Names
    BY WaitsAssumption
  <1>0. None \notin Waiting /\ "pending" \notin Ways /\ Ways \subseteq Outcomes
    BY WaitsAssumption DEF Outcomes
  <1>l. w \notin hook /\ Listed(w) => waiter[w] = "hook"
    BY <1>n, <1>0 DEF Listed, OwnsItsName, Threads, Held, Hooked, TypeOK
  <1>1. CASE Settle(w)
    <2>1. Versions' /\ SocketCurrent'
      BY <1>1, QuietKeeps DEF Settle
    <2>2. PICK how \in Ways : outcome' = [outcome EXCEPT ![w] = how]
      BY <1>1 DEF Settle
    <2>3. TypeOK' /\ Threads'
      BY <1>1, <1>0, <2>2 DEF Settle, TypeOK, Threads, SettlerTo, registryVars, latestVars, socketVars
    <2>4. OwnsItsName'
      BY <1>1 DEF Settle, OwnsItsName, registryVars
    <2>5. ShownAsItIs'
      <3> SUFFICES ASSUME NEW n \in Names, entry'[n] # None
                   PROVE  \/ shown'[n] = outcome'[entry'[n]]
                          \/ /\ shown'[n] = "pending"
                             /\ \/ settler'[entry'[n]] \in {"set", "look", "call", "note"}
                                \/ waiter'[entry'[n]] \in {"hook", "check", "note"}
        BY DEF ShownAsItIs, Untold
      <3>1. entry' = entry /\ shown' = shown /\ waiter' = waiter
        BY <1>1 DEF Settle, registryVars
      <3>2. CASE entry[n] = w
        BY <1>1, <3>1, <3>2 DEF Settle, SettlerTo, ShownAsItIs, Untold, TypeOK
      <3>3. CASE entry[n] # w
        BY <1>1, <3>1, <3>3, <2>2, <1>0 DEF Settle, SettlerTo, ShownAsItIs, Untold, TypeOK
      <3> QED BY <3>2, <3>3
    <2> QED BY <2>1, <2>3, <2>4, <2>5
  <1>2. CASE Release(w)
    <2>1. Versions' /\ SocketCurrent'
      BY <1>2, QuietKeeps DEF Release
    <2>2. TypeOK' /\ Threads'
      BY <1>2 DEF Release, TypeOK, Threads, SettlerTo, registryVars, latestVars, socketVars
    <2>3. OwnsItsName' /\ ShownAsItIs'
      BY <1>2, <1>0 DEF Release, TypeOK, OwnsItsName, ShownAsItIs, Untold, SettlerTo, registryVars
    <2> QED BY <2>1, <2>2, <2>3
  <1>3. CASE LookForHook(w)
    <2>1. Versions' /\ SocketCurrent'
      BY <1>3, QuietKeeps DEF LookForHook
    <2>2. TypeOK' /\ Threads'
      BY <1>3 DEF LookForHook, TypeOK, Threads, SettlerTo, triggerVars, registryVars, latestVars, socketVars
    <2>3. OwnsItsName' /\ ShownAsItIs'
      BY <1>3, <1>0, <1>l DEF LookForHook, Listed, TypeOK, OwnsItsName, ShownAsItIs, Untold, SettlerTo, triggerVars, registryVars
    <2> QED BY <2>1, <2>2, <2>3
  <1>4. CASE CallHook(w)
    <2>1. Versions' /\ SocketCurrent'
      BY <1>4, QuietKeeps DEF CallHook
    <2>2. TypeOK' /\ Threads'
      BY <1>4 DEF CallHook, TypeOK, Threads, SettlerTo, triggerVars, registryVars, latestVars, socketVars
    <2>3. OwnsItsName' /\ ShownAsItIs'
      BY <1>4, <1>0, <1>l DEF CallHook, Listed, TypeOK, OwnsItsName, ShownAsItIs, Untold, SettlerTo, triggerVars, registryVars
    <2> QED BY <2>1, <2>2, <2>3
  <1>5. CASE NoteSettled(w)
    <2>1. Versions' /\ SocketCurrent'
      BY <1>5, QuietKeeps DEF NoteSettled
    <2>2. TypeOK' /\ Threads'
      BY <1>5, <1>n DEF NoteSettled, Note, Listed, TypeOK, Threads, SettlerTo, triggerVars, latestVars, socketVars
    <2>3. OwnsItsName' /\ ShownAsItIs'
      BY <1>5, <1>n, <1>0 DEF NoteSettled, Note, Listed, TypeOK, OwnsItsName, ShownAsItIs, Untold, SettlerTo, triggerVars
    <2> QED BY <2>1, <2>2, <2>3
  <1>6. CASE PublishSettled(w)
    <2>1. /\ latest' \in [Names -> States] /\ stored' \in [Names -> Nat] /\ version' \in Nat
          /\ Versions' /\ SocketCurrent'
      BY <1>6, TellKeeps DEF PublishSettled, TypeOK
    <2>2. TypeOK' /\ Threads'
      BY <1>6, <2>1 DEF PublishSettled, TypeOK, Threads, SettlerTo, triggerVars, registryVars, socketVars
    <2>3. OwnsItsName' /\ ShownAsItIs'
      BY <1>6, <1>0 DEF PublishSettled, TypeOK, OwnsItsName, ShownAsItIs, Untold, SettlerTo, triggerVars, registryVars
    <2> QED BY <2>1, <2>2, <2>3
  <1> QED
    BY <1>1, <1>2, <1>3, <1>4, <1>5, <1>6 DEF SettlerStep

\* The sockets.
LEMMA SocketKeeps ==
    ASSUME WInv, NEW s \in Sockets, Flush(s) \/ Reconnect(s)
    PROVE  WInv'
  <1> USE DEF WInv
  <1>1. OwnsItsName' /\ Threads' /\ ShownAsItIs'
    BY DEF Flush, Reconnect, OwnsItsName, Threads, ShownAsItIs, Untold, triggerVars, registryVars, threadVars
  <1>2. CASE Flush(s)
    BY <1>1, <1>2 DEF Flush, TypeOK, Versions, SocketCurrent, triggerVars, registryVars, latestVars, threadVars
  <1>3. CASE Reconnect(s)
    <2>1. /\ view' = [view EXCEPT ![s] = [n \in Names |-> Nothing]]
          /\ asked' = [asked EXCEPT ![s] = 0]
          /\ UNCHANGED <<triggerVars, registryVars, latestVars, threadVars>>
      BY <1>3 DEF Reconnect
    <2>2. Nothing \in States
      BY DEF States
    <2>3. TypeOK'
      BY <2>1, <2>2 DEF TypeOK, triggerVars, registryVars, latestVars, threadVars
    <2>4. Versions'
      BY <2>1 DEF TypeOK, Versions, latestVars
    <2>5. SocketCurrent'
      <3> SUFFICES ASSUME NEW t \in Sockets, NEW n \in Names, stored[n] <= asked'[t]
                   PROVE  view'[t][n] = latest[n]
        BY <2>1 DEF SocketCurrent, latestVars
      <3>1. CASE t = s
        <4>1. stored[n] = 0
          BY <2>1, <3>1 DEF TypeOK
        <4> QED BY <2>1, <3>1, <4>1 DEF TypeOK, Versions
      <3>2. CASE t # s
        BY <2>1, <3>2 DEF TypeOK, SocketCurrent
      <3> QED BY <3>1, <3>2
    <2> QED BY <1>1, <2>3, <2>4, <2>5
  <1> QED BY <1>2, <1>3

\* What WInv says holds of every behaviour.
THEOREM WaitsInvariance == Spec => []WInv
  <1>1. WInv /\ [Next]_vars => WInv'
    <2> SUFFICES ASSUME WInv, [Next]_vars PROVE WInv'
      OBVIOUS
    <2>1. CASE Next
      BY <2>1, WaiterKeeps, SettlerKeeps, SocketKeeps DEF Next
    <2>2. CASE UNCHANGED vars
      BY <2>2 DEF WInv, TypeOK, OwnsItsName, Threads, ShownAsItIs, Untold, Versions, SocketCurrent,
         vars, triggerVars, registryVars, latestVars, threadVars, socketVars
    <2> QED BY <2>1, <2>2
  <1> QED BY <1>1, WInvInit, PTL DEF Spec

\* Every variable keeps its type.
THEOREM WaitsTypeCorrect == Spec => []TypeOK
  BY WaitsInvariance, PTL DEF WInv

\* A registered wait keeps its name until it is over.
THEOREM OwnsItsNameHolds == Spec => []OwnsItsName
  BY WaitsInvariance, PTL DEF WInv

\* The registry shows a listed wait as it is, whenever it settled.
THEOREM ShownAsItIsHolds == Spec => []ShownAsItIs
  BY WaitsInvariance, PTL DEF WInv

\* A socket has been sent the newest of every name up to the version it saw.
THEOREM SocketCurrentHolds == Spec => []SocketCurrent
  BY WaitsInvariance, PTL DEF WInv
=============================================================================
