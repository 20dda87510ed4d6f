---------------------------- MODULE LiveProofs -----------------------------
(***************************************************************************)
(* Proofs about what reaches the page and what it draws, for any number of *)
(* users of a socket, subscribers, signals, levels and steps: an inductive *)
(* invariant for each component.                                           *)
(***************************************************************************)
EXTENDS Sockets, Ring, Fanout, EventLog, Access, WriteBox, EditHistory, Charts, Playback, Seeding,
        SequenceTheorems, FiniteSetTheorems, WellFoundedInduction, TLAPS

-----------------------------------------------------------------------------
(* The shared sockets (Sockets).                                           *)

\* SocketsTypeOK, but for the bound of the strays, which counts subscriptions.
WireTypeOK ==
    /\ ws \in [Subscriptions -> WsStates]
    /\ closed \in [Subscriptions -> BOOLEAN]
    /\ attempt \in [Subscriptions -> 0..MaxAttempt]
    /\ retry \in [Subscriptions -> BOOLEAN]
    /\ refused \in [Subscriptions -> BOOLEAN]

NumbersOK == users \in 0..MaxUsers /\ held \in 0..MaxSubs /\ count \in 0..MaxUsers /\ strays \in Nat
FlagsOK ==
    /\ closer \in BOOLEAN /\ offline \in BOOLEAN /\ disposed \in BOOLEAN
    /\ status \in {"idle", "connecting", "open", "closed"}
EntryTypeOK == NumbersOK /\ FlagsOK

\* The entry and its subscribers: a grace is of an entry that nobody uses.
Counted ==
    /\ disposed => held = 0
    /\ held = 0 => count = 0 /\ ~closer
    /\ closer => count = 0
    /\ ~disposed => count = users /\ (users > 0 => held # 0)

\* A subscription before it is made; while it is held; between two sockets; refused.
Lives ==
    /\ \A s \in Subscriptions : ws[s] = "none" => ~closed[s] /\ ~retry[s] /\ ~refused[s]
    /\ held # 0 => ws[held] \notin {"none", "closing"} /\ ~closed[held]
    /\ \A s \in Subscriptions : retry[s] => ws[s] = "closed"
    /\ \A s \in Subscriptions : refused[s] => ws[s] = "closed" /\ ~retry[s]

SInv == WireTypeOK /\ EntryTypeOK /\ Counted /\ Lives /\ LetGoStaysDown /\ NeverDeadInSilence /\ OpenIsOpen

\* No subscription has been made and nobody subscribes.
LEMMA SInvInit == SocketsInit => SInv
  <1> SUFFICES ASSUME SocketsInit PROVE SInv
    OBVIOUS
  <1>1. NumbersOK
    BY SocketBounds DEF SocketsInit, NumbersOK
  <1>2. FlagsOK
    BY DEF SocketsInit, FlagsOK
  <1>3. WireTypeOK
    BY SocketBounds DEF SocketsInit, WireTypeOK, WsStates
  <1>4. Counted /\ Lives
    BY DEF SocketsInit, Counted, Lives
  <1>5. LetGoStaysDown /\ NeverDeadInSilence /\ OpenIsOpen
    BY DEF SocketsInit, LetGoStaysDown, NeverDeadInSilence, OpenIsOpen, Made
  <1> QED BY <1>1, <1>2, <1>3, <1>4, <1>5 DEF SInv, EntryTypeOK

\* What close() leaves of the subscription that was held.
LEMMA ShutKeeps ==
    ASSUME SInv, held # 0, held' = 0, Shut(held)
    PROVE  WireTypeOK' /\ Lives' /\ LetGoStaysDown' /\ NeverDeadInSilence'
  <1>1. held \in Subscriptions /\ held # 0
    BY DEF SInv, EntryTypeOK, NumbersOK, Subscriptions
  <1>2. WireTypeOK'
    BY <1>1 DEF SInv, WireTypeOK, Shut, WsStates
  <1>3. \A s \in Subscriptions \ {held} :
           /\ ws'[s] = ws[s] /\ closed'[s] = closed[s] /\ retry'[s] = retry[s] /\ refused'[s] = refused[s]
    BY DEF SInv, WireTypeOK, Shut
  <1>4. closed'[held] /\ ~retry'[held] /\ ws'[held] \in {"closing", "closed"} /\ refused'[held] = refused[held]
    BY <1>1 DEF SInv, WireTypeOK, Shut, WsStates, Lives
  <1>5. refused[held] => ws'[held] = "closed"
    BY <1>1 DEF SInv, WireTypeOK, Shut, Lives
  <1>6. Lives'
    BY <1>1, <1>3, <1>4, <1>5 DEF SInv, Lives
  <1>7. LetGoStaysDown'
    BY <1>1, <1>3, <1>4 DEF SInv, LetGoStaysDown, Made
  <1> QED BY <1>2, <1>6, <1>7 DEF NeverDeadInSilence

\* Subscribers come and go.
LEMMA SubscribersKeep ==
    ASSUME SInv, Acquire \/ Release
    PROVE  SInv'
  <1>1. CASE Acquire /\ held # 0
    <2>1. Joins /\ ~disposed /\ users < MaxUsers /\ users' = users + 1 /\ UNCHANGED disposed
      BY <1>1 DEF Acquire, MakesEntry
    <2>2. EntryTypeOK' /\ Counted'
      <3>1. NumbersOK'
        BY <1>1, <2>1, SocketBounds DEF SInv, EntryTypeOK, NumbersOK, Counted, Joins
      <3>2. FlagsOK'
        BY <1>1, <2>1 DEF SInv, EntryTypeOK, FlagsOK, Joins
      <3>3. Counted'
        BY <1>1, <2>1, SocketBounds DEF SInv, EntryTypeOK, NumbersOK, Counted, Joins
      <3> QED BY <3>1, <3>2, <3>3 DEF EntryTypeOK
    <2>3. WireTypeOK' /\ Lives' /\ LetGoStaysDown' /\ NeverDeadInSilence' /\ OpenIsOpen'
      BY <2>1 DEF SInv, Joins, wireVars, WireTypeOK, Lives, LetGoStaysDown, Made, NeverDeadInSilence, OpenIsOpen
    <2> QED BY <2>2, <2>3 DEF SInv
  <1>2. CASE Acquire /\ held = 0
    <2>1. ~disposed /\ users < MaxUsers /\ users' = users + 1 /\ MakesEntry /\ UNCHANGED disposed
      BY <1>2 DEF Acquire, Joins
    <2>2. PICK s \in Subscriptions \ Made : held' = s /\ ws' = [ws EXCEPT ![s] = "connecting"]
      BY <2>1 DEF MakesEntry
    <2>3. s \in Subscriptions /\ s # 0 /\ s \in 0..MaxSubs /\ ws[s] = "none"
      BY <2>2, SocketBounds DEF Subscriptions, Made
    <2>4. EntryTypeOK' /\ Counted'
      <3>1. NumbersOK'
        BY <1>2, <2>1, <2>2, <2>3, SocketBounds DEF SInv, EntryTypeOK, NumbersOK, Counted, MakesEntry
      <3>2. FlagsOK'
        BY <1>2, <2>1, <2>2, <2>3 DEF SInv, EntryTypeOK, FlagsOK, MakesEntry
      <3>3. Counted'
        BY <1>2, <2>1, <2>2, <2>3, SocketBounds DEF SInv, EntryTypeOK, NumbersOK, Counted, MakesEntry
      <3> QED BY <3>1, <3>2, <3>3 DEF EntryTypeOK
    <2>5. WireTypeOK'
      BY <2>1, <2>2, <2>3 DEF SInv, WireTypeOK, MakesEntry, WsStates
    <2>6. /\ \A r \in Subscriptions : ws'[r] = IF r = s THEN "connecting" ELSE ws[r]
          /\ UNCHANGED <<closed, attempt, retry, refused>> /\ status' = "connecting"
      BY <2>1, <2>2 DEF SInv, WireTypeOK, MakesEntry
    <2>7. Lives' /\ NeverDeadInSilence' /\ OpenIsOpen'
      BY <2>2, <2>3, <2>6 DEF SInv, Lives, NeverDeadInSilence, OpenIsOpen
    <2>8. LetGoStaysDown'
      <3>1. 0 \notin Subscriptions
        BY DEF Subscriptions
      <3>2. \A r \in Subscriptions : r # s /\ ws[r] # "none" => closed[r] /\ ~retry[r] /\ ws[r] \in {"closing", "closed"}
        BY <1>2, <3>1 DEF SInv, LetGoStaysDown, Made
      <3> QED BY <2>2, <2>6, <3>2 DEF LetGoStaysDown, Made
    <2> QED BY <2>4, <2>5, <2>7, <2>8 DEF SInv
  <1>3. CASE Release
    <2>1. EntryTypeOK' /\ Counted'
      <3>1. NumbersOK'
        BY <1>3, SocketBounds DEF SInv, EntryTypeOK, NumbersOK, Counted, Release
      <3>2. FlagsOK'
        BY <1>3 DEF SInv, EntryTypeOK, FlagsOK, Release
      <3>3. Counted'
        BY <1>3, SocketBounds DEF SInv, EntryTypeOK, NumbersOK, Counted, Release
      <3> QED BY <3>1, <3>2, <3>3 DEF EntryTypeOK
    <2>2. WireTypeOK' /\ Lives' /\ LetGoStaysDown' /\ NeverDeadInSilence' /\ OpenIsOpen'
      BY <1>3 DEF SInv, Release, wireVars, WireTypeOK, Lives, LetGoStaysDown, Made, NeverDeadInSilence, OpenIsOpen
    <2> QED BY <2>1, <2>2 DEF SInv
  <1> QED BY <1>1, <1>2, <1>3

\* The timers, and the end of the store.
LEMMA TimersKeep ==
    ASSUME SInv, CloserFires \/ OfflineFires \/ StrayFires \/ Dispose
    PROVE  SInv'
  <1>1. CASE CloserFires
    <2>1. held # 0 /\ held' = 0 /\ Shut(held)
      BY <1>1 DEF CloserFires, SInv, Counted
    <2>2. EntryTypeOK' /\ Counted'
      <3>1. NumbersOK'
        BY <1>1, <2>1, SocketBounds DEF SInv, EntryTypeOK, NumbersOK, Counted, CloserFires
      <3>2. FlagsOK'
        BY <1>1, <2>1 DEF SInv, EntryTypeOK, FlagsOK, CloserFires
      <3>3. Counted'
        BY <1>1, <2>1, SocketBounds DEF SInv, EntryTypeOK, NumbersOK, Counted, CloserFires
      <3> QED BY <3>1, <3>2, <3>3 DEF EntryTypeOK
    <2>3. OpenIsOpen'
      BY <1>1 DEF CloserFires, OpenIsOpen
    <2> QED BY <2>1, <2>2, <2>3, ShutKeeps DEF SInv
  <1>2. CASE OfflineFires \/ StrayFires
    <2>1. EntryTypeOK' /\ Counted'
      <3>1. NumbersOK'
        BY <1>2 DEF SInv, EntryTypeOK, NumbersOK, Counted, OfflineFires, StrayFires, GivesUp
      <3>2. FlagsOK'
        BY <1>2 DEF SInv, EntryTypeOK, FlagsOK, OfflineFires, StrayFires, GivesUp
      <3>3. Counted'
        BY <1>2 DEF SInv, EntryTypeOK, NumbersOK, Counted, OfflineFires, StrayFires, GivesUp
      <3> QED BY <3>1, <3>2, <3>3 DEF EntryTypeOK
    <2>2. WireTypeOK' /\ Lives' /\ LetGoStaysDown' /\ NeverDeadInSilence' /\ OpenIsOpen'
      BY <1>2 DEF SInv, OfflineFires, StrayFires, GivesUp, wireVars, WireTypeOK, Lives, LetGoStaysDown, Made,
           NeverDeadInSilence, OpenIsOpen
    <2> QED BY <2>1, <2>2 DEF SInv
  <1>3. CASE Dispose /\ held # 0
    <2>1. held' = 0 /\ Shut(held)
      BY <1>3 DEF Dispose
    <2>2. EntryTypeOK' /\ Counted'
      <3>1. NumbersOK'
        BY <1>3, SocketBounds DEF SInv, EntryTypeOK, NumbersOK, Counted, Dispose
      <3>2. FlagsOK'
        BY <1>3 DEF SInv, EntryTypeOK, FlagsOK, Dispose
      <3>3. Counted'
        BY <1>3, SocketBounds DEF SInv, EntryTypeOK, NumbersOK, Counted, Dispose
      <3> QED BY <3>1, <3>2, <3>3 DEF EntryTypeOK
    <2>3. OpenIsOpen'
      BY <1>3 DEF Dispose, OpenIsOpen
    <2> QED BY <1>3, <2>1, <2>2, <2>3, ShutKeeps DEF SInv
  <1>4. CASE Dispose /\ held = 0
    <2>1. EntryTypeOK' /\ Counted'
      <3>1. NumbersOK'
        BY <1>4, SocketBounds DEF SInv, EntryTypeOK, NumbersOK, Counted, Dispose
      <3>2. FlagsOK'
        BY <1>4 DEF SInv, EntryTypeOK, FlagsOK, Dispose
      <3>3. Counted'
        BY <1>4, SocketBounds DEF SInv, EntryTypeOK, NumbersOK, Counted, Dispose
      <3> QED BY <3>1, <3>2, <3>3 DEF EntryTypeOK
    <2>2. WireTypeOK' /\ Lives' /\ LetGoStaysDown' /\ NeverDeadInSilence' /\ OpenIsOpen'
      BY <1>4 DEF SInv, Dispose, wireVars, WireTypeOK, Lives, LetGoStaysDown, Made, NeverDeadInSilence, OpenIsOpen
    <2> QED BY <2>1, <2>2 DEF SInv
  <1> QED BY <1>1, <1>2, <1>3, <1>4

\* The callbacks of a web socket. Only the subscription in use has one that is coming up.
LEMMA WireKeeps ==
    ASSUME SInv, NEW s \in Subscriptions,
           Opens(s) \/ (\E refusal \in BOOLEAN : Drops(s, refusal)) \/ Reconnects(s)
    PROVE  SInv'
  <1>0. s # 0 /\ held \in 0..MaxSubs /\ (held # 0 => held \in Subscriptions)
    BY DEF SInv, EntryTypeOK, NumbersOK, Subscriptions
  <1>1. CASE Opens(s)
    <2>1. s = held
      BY <1>1 DEF SInv, Opens, LetGoStaysDown, Made
    <2>2. EntryTypeOK' /\ Counted'
      <3>1. NumbersOK'
        BY <1>1 DEF SInv, EntryTypeOK, NumbersOK, Counted, Opens, OnOpen
      <3>2. FlagsOK'
        BY <1>1 DEF SInv, EntryTypeOK, FlagsOK, Opens, OnOpen
      <3>3. Counted'
        BY <1>1 DEF SInv, EntryTypeOK, NumbersOK, Counted, Opens, OnOpen
      <3> QED BY <3>1, <3>2, <3>3 DEF EntryTypeOK
    <2>3. WireTypeOK'
      BY <1>1, SocketBounds DEF SInv, WireTypeOK, Opens, WsStates
    <2>4. /\ \A r \in Subscriptions : ws'[r] = IF r = s THEN "open" ELSE ws[r]
          /\ UNCHANGED <<held, closed, retry, refused>> /\ status' = "open" /\ ws[s] = "connecting"
      BY <1>1 DEF SInv, WireTypeOK, Opens, OnOpen
    <2>5. Lives' /\ NeverDeadInSilence' /\ OpenIsOpen'
      BY <1>0, <2>1, <2>4 DEF SInv, Lives, NeverDeadInSilence, OpenIsOpen
    <2>6. LetGoStaysDown'
      BY <2>1, <2>4 DEF SInv, LetGoStaysDown, Made
    <2> QED BY <2>2, <2>3, <2>5, <2>6 DEF SInv
  <1>2. ASSUME NEW refusal \in BOOLEAN, Drops(s, refusal) PROVE SInv'
    <2>1. EntryTypeOK' /\ Counted'
      <3>1. NumbersOK'
        BY <1>2 DEF SInv, EntryTypeOK, NumbersOK, Counted, Drops, OnClose, storeVars
      <3>2. FlagsOK'
        <4>1. CASE s = held
          BY <1>2, <4>1 DEF SInv, EntryTypeOK, FlagsOK, Drops, OnClose
        <4>2. CASE s # held
          BY <1>2, <4>2 DEF SInv, EntryTypeOK, FlagsOK, Drops, OnClose, storeVars
        <4> QED BY <4>1, <4>2
      <3>3. Counted'
        BY <1>2 DEF SInv, EntryTypeOK, NumbersOK, Counted, Drops, OnClose, storeVars
      <3> QED BY <3>1, <3>2, <3>3 DEF EntryTypeOK
    <2>2. WireTypeOK'
      BY <1>2, SocketBounds DEF SInv, WireTypeOK, Drops, Again, WsStates
    <2>3. /\ \A r \in Subscriptions : ws'[r] = IF r = s THEN "closed" ELSE ws[r]
          /\ \A r \in Subscriptions \ {s} : retry'[r] = retry[r] /\ refused'[r] = refused[r]
          /\ retry'[s] <=> ~closed[s] /\ ~refusal
          /\ refused'[s] <=> refusal
          /\ UNCHANGED <<held, closed>> /\ ws[s] \in {"connecting", "open", "closing"}
      <3>1. ws' = [ws EXCEPT ![s] = "closed"] /\ closed' = closed /\ held' = held /\ ws[s] \in {"connecting", "open", "closing"}
        BY <1>2 DEF Drops, OnClose, storeVars
      <3>2. retry' = [retry EXCEPT ![s] = Again(s, refusal)] /\ refused' = [refused EXCEPT ![s] = refusal]
        BY <1>2 DEF Drops
      <3>3. /\ ws \in [Subscriptions -> WsStates] /\ retry \in [Subscriptions -> BOOLEAN]
            /\ refused \in [Subscriptions -> BOOLEAN]
        BY DEF SInv, WireTypeOK
      <3>4. retry'[s] <=> Again(s, refusal)
        BY <3>2, <3>3
      <3>5. \A r \in Subscriptions \ {s} : retry'[r] = retry[r] /\ refused'[r] = refused[r]
        BY <3>2, <3>3
      <3>6. \A r \in Subscriptions : ws'[r] = IF r = s THEN "closed" ELSE ws[r]
        BY <3>1, <3>3
      <3>7. retry'[s] <=> ~closed[s] /\ ~refusal
        BY <3>4 DEF Again
      <3>8. refused'[s] <=> refusal
        BY <3>2, <3>3
      <3> QED BY <3>1, <3>5, <3>6, <3>7, <3>8
    <2>4. Lives' /\ NeverDeadInSilence'
      BY <1>0, <2>3 DEF SInv, Lives, NeverDeadInSilence
    <2>5. LetGoStaysDown'
      BY <2>3 DEF SInv, LetGoStaysDown, Made
    <2>6. OpenIsOpen'
      BY <1>0, <1>2, <2>3 DEF SInv, OpenIsOpen, Drops, OnClose, storeVars
    <2> QED BY <2>1, <2>2, <2>4, <2>5, <2>6 DEF SInv
  <1>3. CASE Reconnects(s)
    <2>1. EntryTypeOK' /\ Counted' /\ WireTypeOK'
      BY <1>3 DEF SInv, EntryTypeOK, NumbersOK, FlagsOK, Counted, WireTypeOK, Reconnects, WsStates, storeVars
    <2>2. /\ \A r \in Subscriptions : ws'[r] = IF r = s THEN "connecting" ELSE ws[r]
          /\ \A r \in Subscriptions : retry'[r] = IF r = s THEN FALSE ELSE retry[r]
          /\ UNCHANGED <<storeVars, closed, refused>> /\ retry[s]
      BY <1>3 DEF SInv, WireTypeOK, Reconnects
    <2>3. ws[s] = "closed" /\ ~refused[s] /\ s = held
      BY <2>2 DEF SInv, Lives, LetGoStaysDown, Made
    <2>4. Lives' /\ NeverDeadInSilence' /\ OpenIsOpen'
      BY <1>0, <2>2, <2>3 DEF SInv, Lives, NeverDeadInSilence, OpenIsOpen, storeVars
    <2>5. LetGoStaysDown'
      BY <2>2, <2>3 DEF SInv, LetGoStaysDown, Made, storeVars
    <2> QED BY <2>1, <2>4, <2>5 DEF SInv
  <1> QED BY <1>1, <1>2, <1>3

\* Every step keeps the invariant.
LEMMA SInvStep == SInv /\ [SocketsNext]_socketsVars => SInv'
  <1> SUFFICES ASSUME SInv, [SocketsNext]_socketsVars
               PROVE  SInv'
    OBVIOUS
  <1>1. CASE Acquire \/ Release
    BY <1>1, SubscribersKeep
  <1>2. CASE CloserFires \/ OfflineFires \/ StrayFires \/ Dispose
    BY <1>2, TimersKeep
  <1>3. ASSUME NEW s \in Subscriptions,
               Opens(s) \/ (\E refusal \in BOOLEAN : Drops(s, refusal)) \/ Reconnects(s)
        PROVE  SInv'
    BY <1>3, WireKeeps
  <1>4. CASE UNCHANGED socketsVars
    BY <1>4 DEF SInv, WireTypeOK, EntryTypeOK, NumbersOK, FlagsOK, Counted, Lives, LetGoStaysDown, Made, NeverDeadInSilence,
         OpenIsOpen, socketsVars, storeVars, wireVars
  <1> QED BY <1>1, <1>2, <1>3, <1>4 DEF SocketsNext

\* Until the store is disposed of, the entry of the stream counts its subscribers, and
\* while there is one its subscription is not let go.
THEOREM StreamHeldWhileUsed == SocketsSpec => []HeldWhileUsed
  <1>1. SInv => HeldWhileUsed
    BY DEF SInv, EntryTypeOK, NumbersOK, Counted, Lives, HeldWhileUsed
  <1> QED
    BY <1>1, SInvInit, SInvStep, PTL DEF SocketsSpec

\* A subscription that was let go neither reconnects nor comes up: one stream has one
\* live socket.
THEOREM OneLiveSocket == SocketsSpec => []LetGoStaysDown
  <1>1. SInv => LetGoStaysDown
    BY DEF SInv
  <1> QED
    BY <1>1, SInvInit, SInvStep, PTL DEF SocketsSpec

\* A subscription in use is up, coming up or about to try again, unless the runner
\* refused the token; and the status is open just while its socket is.
THEOREM StatusIsHonest == SocketsSpec => [](NeverDeadInSilence /\ OpenIsOpen)
  <1>1. SInv => NeverDeadInSilence /\ OpenIsOpen
    BY DEF SInv
  <1> QED
    BY <1>1, SInvInit, SInvStep, PTL DEF SocketsSpec

\* Once the runner has refused the token the subscription asks no more.
THEOREM RefusedIsFinal == SocketsSpec => RefusedAsksNoMore
  <1> DEFINE Quiet == \A s \in Subscriptions : refused[s] => ws'[s] # "connecting"
  <1>1. SInv /\ [SocketsNext]_socketsVars => [Quiet]_socketsVars
    <2> SUFFICES ASSUME SInv, SocketsNext, NEW s \in Subscriptions, refused[s]
                 PROVE  ws'[s] # "connecting"
      OBVIOUS
    <2>1. ws[s] = "closed" /\ ~retry[s] /\ ws \in [Subscriptions -> WsStates]
      BY DEF SInv, Lives, WireTypeOK
    <2>2. CASE Acquire \/ Release \/ CloserFires \/ OfflineFires \/ StrayFires \/ Dispose
      BY <2>1, <2>2 DEF Acquire, Joins, MakesEntry, Made, Release, CloserFires, OfflineFires, StrayFires, Dispose,
           Shut, wireVars
    <2>3. ASSUME NEW r \in Subscriptions, Opens(r) \/ (\E refusal \in BOOLEAN : Drops(r, refusal)) \/ Reconnects(r)
          PROVE  ws'[s] # "connecting"
      BY <2>1, <2>3 DEF Opens, Drops, Reconnects
    <2> QED BY <2>2, <2>3 DEF SocketsNext
  <1>2. RefusedAsksNoMore <=> [][Quiet]_socketsVars
    BY PTL DEF RefusedAsksNoMore
  <1> QED
    BY <1>1, <1>2, SInvInit, SInvStep, PTL DEF SocketsSpec

-----------------------------------------------------------------------------
(* What wakes the components that read the store (Fanout).                 *)

FInv == FanoutTypeOK /\ IndexExact /\ NoWakeupLost

\* Whoever is marked is a subscriber.
LEMMA MarkedJoined ==
    ASSUME FInv, NEW stream \in Streams, NEW keys \in SUBSET Keys
    PROVE  Marked(stream, keys) \subseteq joined /\ AllOf(stream) \subseteq joined
  <1>1. \A k \in keys : byKey[<<stream, k>>] \subseteq joined
    BY DEF FInv, IndexExact, Topics
  <1>2. anyKey[stream] \subseteq joined
    BY DEF FInv, IndexExact
  <1>3. AllOf(stream) \subseteq joined
    BY DEF AllOf
  <1>4. UNION {byKey[<<stream, k>>] : k \in keys} \subseteq joined
    BY <1>1
  <1> QED BY <1>2, <1>3, <1>4 DEF Marked

\* Those woken are marked, once, with those that were.
LEMMA WakeKeeps ==
    ASSUME FInv, NEW who, who \subseteq joined, Wake(who), UNCHANGED <<indexVars, due>>
    PROVE  /\ IndexExact' /\ behind' \subseteq dirty'
           /\ dirty' \subseteq Subs /\ flagged' \subseteq Subs /\ behind' \subseteq Subs
  BY DEF FInv, FanoutTypeOK, IndexExact, NoWakeupLost, Wake, indexVars

\* A flush that was asked for is on its way.
LEMMA FlushSoonComes ==
    ASSUME FInv, FlushSoon
    PROVE  /\ frame' \/ timer2' # "none"
           /\ timer2' \in {"none", "soon", "due"} /\ {frame', owed'} \subseteq BOOLEAN
  BY DEF FInv, FanoutTypeOK, FlushSoon

\* A step that moves nothing but who is due, the tab and the flush it has.
LEMMA RestStays ==
    ASSUME FInv, UNCHANGED <<indexVars, flagged, dirty, behind, frame, timer2, owed>>
    PROVE  IndexExact' /\ NoWakeupLost'
  BY DEF FInv, IndexExact, NoWakeupLost, indexVars

\* A subscriber joins: in the index of what it wants, its old mark taken off.
LEMMA SubscribesKeeps ==
    ASSUME FInv, NEW s \in Subs, Subscribes(s)
    PROVE  FInv'
  <1>1. /\ s \notin joined /\ joined' = joined \cup {s}
        /\ byKey' = [t \in Topics |-> IF t \in TopicsOf(s) THEN byKey[t] \cup {s} ELSE byKey[t]]
        /\ anyKey' = IF Wants[s] = {} THEN [anyKey EXCEPT ![StreamOf[s]] = @ \cup {s}] ELSE anyKey
        /\ flagged' = flagged \ {s}
        /\ due' \subseteq due \cup {s}
        /\ UNCHANGED <<dirty, frame, timer2, visible, paused, behind, owed>>
    BY DEF Subscribes
  <1>2. FanoutTypeOK'
    <2>1. byKey' \in [Topics -> SUBSET Subs] /\ anyKey' \in [Streams -> SUBSET Subs]
      BY <1>1 DEF FInv, FanoutTypeOK
    <2> QED BY <1>1, <2>1 DEF FInv, FanoutTypeOK
  <1>3. \A t \in Topics : byKey'[t] = {u \in joined' : t \in TopicsOf(u)}
    BY <1>1 DEF FInv, IndexExact
  <1>4. \A stream \in Streams :
          anyKey'[stream] = {u \in joined' : StreamOf[u] = stream /\ Wants[u] = {}}
    BY <1>1 DEF FInv, FanoutTypeOK, IndexExact
  <1>5. dirty' = flagged' \cap joined'
    BY <1>1 DEF FInv, IndexExact
  <1>6. NoWakeupLost'
    BY <1>1 DEF FInv, NoWakeupLost
  <1> QED BY <1>2, <1>3, <1>4, <1>5, <1>6 DEF FInv, IndexExact

\* A subscriber leaves, and everything that was kept of it.
LEMMA UnsubscribesKeeps ==
    ASSUME FInv, NEW s \in Subs, Unsubscribes(s)
    PROVE  FInv'
  <1>1. /\ joined' = joined \ {s}
        /\ byKey' = [t \in Topics |-> byKey[t] \ {s}]
        /\ anyKey' = [anyKey EXCEPT ![StreamOf[s]] = @ \ {s}]
        /\ dirty' = dirty \ {s} /\ behind' = behind \ {s}
        /\ UNCHANGED <<flagged, due, frame, timer2, visible, paused, owed>>
    BY DEF Unsubscribes
  <1>2. FanoutTypeOK'
    <2>1. byKey' \in [Topics -> SUBSET Subs] /\ anyKey' \in [Streams -> SUBSET Subs]
      BY <1>1 DEF FInv, FanoutTypeOK
    <2> QED BY <1>1, <2>1 DEF FInv, FanoutTypeOK
  <1>3. \A t \in Topics : byKey'[t] = {u \in joined' : t \in TopicsOf(u)}
    BY <1>1 DEF FInv, IndexExact
  <1>4. \A stream \in Streams :
          anyKey'[stream] = {u \in joined' : StreamOf[u] = stream /\ Wants[u] = {}}
    BY <1>1 DEF FInv, FanoutTypeOK, IndexExact
  <1>5. dirty' = flagged' \cap joined' /\ NoWakeupLost'
    BY <1>1 DEF FInv, IndexExact, NoWakeupLost
  <1> QED BY <1>2, <1>3, <1>4, <1>5 DEF FInv, IndexExact

\* Something moves: who asked for it is marked, and a flush is asked for.
LEMMA MovesKeep ==
    ASSUME FInv,
           \/ \E stream \in Streams, keys \in SUBSET Keys : Message(stream, keys)
           \/ StatusMoves \/ PlaybackMoves
    PROVE  FInv'
  <1>1. PICK who : /\ who \subseteq joined /\ Wake(who) /\ FlushSoon
                   /\ UNCHANGED <<indexVars, due, visible>> /\ paused' \in BOOLEAN
    <2>1. ASSUME NEW stream \in Streams, NEW keys \in SUBSET Keys, Message(stream, keys)
          PROVE  \E who : /\ who \subseteq joined /\ Wake(who) /\ FlushSoon
                          /\ UNCHANGED <<indexVars, due, visible>> /\ paused' \in BOOLEAN
      BY <2>1, MarkedJoined DEF Message, FInv, FanoutTypeOK
    <2>2. ASSUME StatusMoves \/ PlaybackMoves
          PROVE  \E who : /\ who \subseteq joined /\ Wake(who) /\ FlushSoon
                          /\ UNCHANGED <<indexVars, due, visible>> /\ paused' \in BOOLEAN
      BY <2>2 DEF StatusMoves, PlaybackMoves, AllOf, FInv, FanoutTypeOK
    <2> QED BY <2>1, <2>2
  <1>2. /\ IndexExact' /\ behind' \subseteq dirty'
        /\ dirty' \subseteq Subs /\ flagged' \subseteq Subs /\ behind' \subseteq Subs
    BY <1>1, WakeKeeps
  <1>3. /\ frame' \/ timer2' # "none"
        /\ timer2' \in {"none", "soon", "due"} /\ {frame', owed'} \subseteq BOOLEAN
    BY <1>1, FlushSoonComes
  <1> QED BY <1>1, <1>2, <1>3 DEF FInv, FanoutTypeOK, NoWakeupLost, indexVars

\* A part of an answer lands; the flush is owed until the last has.
LEMMA LandsKeeps ==
    ASSUME FInv, (\E stream \in Streams, key \in Keys : LandsOne(stream, key)) \/ LandsLast
    PROVE  FInv'
  <1>1. ASSUME NEW stream \in Streams, NEW key \in Keys, LandsOne(stream, key) PROVE FInv'
    <2>1. /\ Wake(Marked(stream, {key})) /\ owed' = TRUE
          /\ UNCHANGED <<indexVars, due, frame, timer2, visible, paused>>
      BY <1>1 DEF LandsOne
    <2>2. Marked(stream, {key}) \subseteq joined
      BY MarkedJoined
    <2>3. /\ IndexExact' /\ behind' \subseteq dirty'
          /\ dirty' \subseteq Subs /\ flagged' \subseteq Subs /\ behind' \subseteq Subs
      BY <2>1, <2>2, WakeKeeps
    <2> QED BY <2>1, <2>3 DEF FInv, FanoutTypeOK, NoWakeupLost, indexVars
  <1>2. CASE LandsLast
    <2>1. FlushSoon /\ UNCHANGED <<indexVars, flagged, dirty, due, visible, paused, behind>>
      BY <1>2 DEF LandsLast
    <2>2. /\ frame' \/ timer2' # "none"
          /\ timer2' \in {"none", "soon", "due"} /\ {frame', owed'} \subseteq BOOLEAN
      BY <2>1, FlushSoonComes
    <2> QED BY <2>1, <2>2 DEF FInv, FanoutTypeOK, IndexExact, NoWakeupLost, indexVars
  <1> QED BY <1>1, <1>2

\* A flush: those called are no longer marked, and for the rest it comes back.
LEMMA FlushKeeps == FInv /\ Flush => FInv'
  <1> SUFFICES ASSUME FInv, Flush
               PROVE  FInv'
    OBVIOUS
  <1>1. /\ frame' = FALSE /\ dirty' = dirty \ due
        /\ flagged' = flagged \ (dirty \cap due) /\ behind' = behind \ (dirty \cap due)
        /\ due' \subseteq due /\ timer2' = NextFlush(dirty \ due)
        /\ UNCHANGED <<indexVars, visible, paused, owed>>
    BY DEF Flush
  <1>2. FanoutTypeOK'
    BY <1>1 DEF FInv, FanoutTypeOK, NextFlush, indexVars
  <1>3. IndexExact'
    BY <1>1 DEF FInv, IndexExact, indexVars
  <1>4. NoWakeupLost'
    BY <1>1 DEF FInv, NoWakeupLost, NextFlush
  <1> QED BY <1>2, <1>3, <1>4 DEF FInv

\* Every step keeps the invariant.
LEMMA FInvStep == FInv /\ [FanoutNext]_fanoutVars => FInv'
  <1> SUFFICES ASSUME FInv, [FanoutNext]_fanoutVars
               PROVE  FInv'
    OBVIOUS
  <1>1. ASSUME NEW s \in Subs, CadenceOver(s) PROVE FInv'
    <2>1. /\ UNCHANGED <<indexVars, flagged, dirty, behind, frame, timer2, owed, visible, paused>>
          /\ due' = due \cup {s}
      BY <1>1 DEF CadenceOver
    <2> QED BY <2>1, RestStays DEF FInv, FanoutTypeOK, indexVars
  <1>2. CASE Hides \/ Shows
    <2>1. /\ UNCHANGED <<indexVars, flagged, dirty, behind, frame, timer2, owed, due, paused>>
          /\ visible' \in BOOLEAN
      BY <1>2 DEF Hides, Shows
    <2> QED BY <2>1, RestStays DEF FInv, FanoutTypeOK, indexVars
  <1>3. CASE UNCHANGED fanoutVars
    BY <1>3 DEF FInv, FanoutTypeOK, IndexExact, NoWakeupLost, fanoutVars
  <1> QED BY <1>1, <1>2, <1>3, SubscribesKeeps, UnsubscribesKeeps, MovesKeep, LandsKeeps, FlushKeeps
          DEF FanoutNext, FrameFires, TimerFires

\* Nobody has subscribed yet.
LEMMA FInvInit == FanoutInit => FInv
  BY DEF FanoutInit, FInv, FanoutTypeOK, IndexExact, NoWakeupLost

\* Whoever is behind what it asked for is marked, and a flush is on its way for it.
THEOREM NoWakeupIsLost == FanoutSpec => []NoWakeupLost
  <1>1. FInv => NoWakeupLost
    BY DEF FInv
  <1> QED
    BY <1>1, FInvInit, FInvStep, PTL DEF FanoutSpec

\* Through any order of subscribing and leaving the indexes hold exactly the
\* subscribers there are.
THEOREM IndexStaysExact == FanoutSpec => []IndexExact
  <1>1. FInv => IndexExact
    BY DEF FInv
  <1> QED
    BY <1>1, FInvInit, FInvStep, PTL DEF FanoutSpec

-----------------------------------------------------------------------------
(* Who the browser is to the runner (Access).                              *)

Question(a) == a \in [asked : {a.asked}, coalesced : BOOLEAN, answer : {a.answer}]

\* The questions asked after a 401 are one, and the tab knows whether there is one.
OneQuestion ==
    /\ \A a \in whoAmI : Question(a)
    /\ \A a, b \in whoAmI : a.coalesced /\ b.coalesced => a = b
    /\ refreshing = (\E a \in whoAmI : a.coalesced)

AInv == OneQuestion /\ SignInStands /\ changed \in Nat

\* A question without a 401 behind it.
LEMMA AskedApart ==
    ASSUME NEW a, a = Ask(FALSE)
    PROVE  Question(a) /\ ~a.coalesced
  BY DEF Ask, Question

\* Steps that leave the questions alone: who signs in or out, elsewhere or here, and
\* what the page shows.
LEMMA QuestionsStay ==
    ASSUME AInv, UNCHANGED <<whoAmI, refreshing, info, infoFrom, changed>>
    PROVE  AInv'
  BY DEF AInv, OneQuestion, SignInStands

\* A question is read by the runner: still the same one.
LEMMA TellsKeeps == AInv /\ RunnerTells => AInv'
  <1> SUFFICES ASSUME AInv, RunnerTells
               PROVE  AInv'
    OBVIOUS
  <1>1. PICK a \in whoAmI : whoAmI' = (whoAmI \ {a}) \union {[a EXCEPT !.answer = Level]}
    BY DEF RunnerTells
  <1> DEFINE answered == [a EXCEPT !.answer = Level]
  <1>2. Question(answered) /\ answered.coalesced = a.coalesced
    BY DEF AInv, OneQuestion, Question
  <1> HIDE DEF answered
  <1>3. UNCHANGED <<refreshing, info, infoFrom, changed>>
    BY DEF RunnerTells
  <1>4. OneQuestion'
    BY <1>1, <1>2, <1>3 DEF AInv, OneQuestion, answered
  <1> QED BY <1>3, <1>4 DEF AInv, SignInStands

\* An answer, or a failure, is one question less.
LEMMA AnswerKeeps == AInv /\ (AnswerLands \/ AskFails) => AInv'
  <1> SUFFICES ASSUME AInv, AnswerLands \/ AskFails
               PROVE  AInv'
    OBVIOUS
  <1>1. PICK a \in whoAmI : /\ whoAmI' = whoAmI \ {a}
                            /\ refreshing' = (refreshing /\ ~a.coalesced)
                            /\ \/ UNCHANGED <<info, infoFrom>>
                               \/ infoFrom' = a.asked /\ a.asked = changed
    BY DEF AnswerLands, AskFails, Learns, Stale
  <1>2. changed' = changed
    BY DEF AnswerLands, AskFails
  <1>3. OneQuestion'
    <2>1. \A b \in whoAmI' : Question(b)
      BY <1>1 DEF AInv, OneQuestion
    <2>2. \A b, c \in whoAmI' : b.coalesced /\ c.coalesced => b = c
      BY <1>1 DEF AInv, OneQuestion
    <2>3. CASE a.coalesced
      <3>1. \A b \in whoAmI' : ~b.coalesced
        BY <1>1, <2>3 DEF AInv, OneQuestion
      <3> QED BY <1>1, <2>1, <2>2, <2>3, <3>1 DEF OneQuestion
    <2>4. CASE ~a.coalesced
      <3>1. (\E b \in whoAmI' : b.coalesced) <=> (\E b \in whoAmI : b.coalesced)
        BY <1>1, <2>4
      <3> QED BY <1>1, <2>1, <2>2, <2>4, <3>1 DEF AInv, OneQuestion
    <2> QED BY <2>3, <2>4
  <1> QED BY <1>1, <1>2, <1>3 DEF AInv, SignInStands

\* A 401 asks, unless it is being asked.
LEMMA UnauthorizedKeeps ==
    ASSUME AInv, Unauthorized, UNCHANGED <<info, infoFrom, changed>>
    PROVE  AInv'
  <1>1. Question(Ask(TRUE)) /\ Ask(TRUE).coalesced
    BY DEF Ask, Question
  <1>2. refreshing' = TRUE /\ whoAmI' = whoAmI \union (IF refreshing THEN {} ELSE {Ask(TRUE)})
    BY DEF Unauthorized
  <1>3. CASE refreshing
    BY <1>2, <1>3 DEF AInv, OneQuestion, SignInStands
  <1>4. CASE ~refreshing
    <2>1. \A b \in whoAmI : ~b.coalesced
      BY <1>4 DEF AInv, OneQuestion
    <2> QED BY <1>1, <1>2, <1>4, <2>1 DEF AInv, OneQuestion, SignInStands
  <1> QED BY <1>3, <1>4 DEF AInv, OneQuestion

\* A sign-in is answered: what it says is of the epoch it starts.
LEMMA SignInKeeps == AInv /\ SignInAnswered => AInv'
  <1> SUFFICES ASSUME AInv, SignInAnswered
               PROVE  AInv'
    OBVIOUS
  <1>0. refreshing' = refreshing
    BY DEF SignInAnswered
  <1>1. CASE signIn = "done"
    <2>1. whoAmI' = whoAmI /\ changed' = changed + 1 /\ infoFrom' = changed + 1
      BY <1>1 DEF SignInAnswered, Changes, Learns
    <2>2. OneQuestion'
      BY <1>0, <2>1 DEF AInv, OneQuestion
    <2>3. SignInStands'
      BY <2>1 DEF SignInStands
    <2>4. changed' \in Nat
      BY <2>1 DEF AInv
    <2> QED BY <2>2, <2>3, <2>4 DEF AInv
  <1>2. CASE signIn # "done"
    <2>1. /\ whoAmI' \in {whoAmI, whoAmI \union {Ask(FALSE)}}
          /\ UNCHANGED <<info, infoFrom, changed>>
      BY <1>2 DEF SignInAnswered
    <2>2. Question(Ask(FALSE)) /\ ~Ask(FALSE).coalesced
      BY DEF Ask, Question
    <2>3. OneQuestion'
      BY <1>0, <2>1, <2>2 DEF AInv, OneQuestion
    <2> QED BY <2>1, <2>3 DEF AInv, SignInStands
  <1> QED BY <1>1, <1>2

\* Every step keeps the invariant.
LEMMA AInvStep == AInv /\ [AccessNext]_accessVars => AInv'
  <1> SUFFICES ASSUME AInv, [AccessNext]_accessVars
               PROVE  AInv'
    OBVIOUS
  <1>1. CASE PollRefused \/ OperateRefused \/ SocketsRefused
    BY <1>1, UnauthorizedKeeps DEF PollRefused, OperateRefused, SocketsRefused
  <1>2. CASE SignOutAnswered
    <2>1. whoAmI' = whoAmI /\ refreshing' = refreshing /\ changed' = changed + 1 /\ infoFrom' = changed + 1
      BY <1>2 DEF SignOutAnswered, Changes, Learns
    <2>2. OneQuestion'
      BY <2>1 DEF AInv, OneQuestion
    <2>3. SignInStands'
      BY <2>1 DEF SignInStands
    <2>4. changed' \in Nat
      BY <2>1 DEF AInv
    <2> QED BY <2>2, <2>3, <2>4 DEF AInv
  <1>3. CASE \/ SubmitsSecret \/ RunnerSignsIn \/ SignsOut \/ RunnerSignsOut \/ WantsLogin
             \/ KeepsLooking \/ NudgeHides \/ Elsewhere \/ UNCHANGED accessVars
    <2>1. UNCHANGED <<whoAmI, refreshing, info, infoFrom, changed>>
      BY <1>3 DEF SubmitsSecret, RunnerSignsIn, SignsOut, RunnerSignsOut, WantsLogin, KeepsLooking,
                  NudgeHides, Elsewhere, accessVars
    <2> QED BY <2>1, QuestionsStay
  <1> QED BY <1>1, <1>2, <1>3, TellsKeeps, AnswerKeeps, SignInKeeps DEF AccessNext

\* The tab asks once, or signs in.
LEMMA AInvInit == AccessInit => AInv
  <1> SUFFICES ASSUME AccessInit
               PROVE  AInv
    OBVIOUS
  <1>1. whoAmI \subseteq {[asked |-> 0, coalesced |-> FALSE, answer |-> ""]}
    BY DEF AccessInit
  <1>2. \A a \in whoAmI : Question(a) /\ ~a.coalesced
    <2> DEFINE first == [asked |-> 0, coalesced |-> FALSE, answer |-> ""]
    <2>1. Question(first) /\ ~first.coalesced
      BY DEF Question
    <2> HIDE DEF first
    <2> QED BY <1>1, <2>1 DEF first
  <1> QED BY <1>1, <1>2 DEF AccessInit, AInv, OneQuestion, SignInStands

\* What the tab believes was never asked for before its last sign-in or -out: an older
\* answer is dropped whenever it comes.
THEOREM SignInAlwaysStands == AccessSpec => []SignInStands
  <1>1. AInv => SignInStands
    BY DEF AInv
  <1> QED
    BY <1>1, AInvInit, AInvStep, PTL DEF AccessSpec

\* The question a 401 asks is asked once at a time, and is being asked just while the
\* tab thinks so.
THEOREM PendingIsAlwaysAsked == AccessSpec => []PendingIsAsked
  <1>1. AInv => PendingIsAsked
    <2> SUFFICES ASSUME AInv
                 PROVE  PendingIsAsked
      OBVIOUS
    <2> DEFINE asking == {a \in whoAmI : a.coalesced}
    <2>1. asking = {} \/ \E a : asking = {a}
      BY DEF AInv, OneQuestion
    <2>2. Cardinality(asking) <= 1
      <3>1. CASE asking = {}
        BY <3>1, FS_EmptySet
      <3>2. ASSUME NEW a, asking = {a} PROVE Cardinality(asking) <= 1
        <4>1. Cardinality({a}) = 1
          BY FS_Singleton
        <4> QED BY <3>2, <4>1
      <3> QED BY <2>1, <3>1, <3>2
    <2> QED BY <2>2 DEF AInv, OneQuestion, PendingIsAsked
  <1> QED
    BY <1>1, AInvInit, AInvStep, PTL DEF AccessSpec

-----------------------------------------------------------------------------
(* The entry a demand is typed in (WriteBox).                              *)

\* A commit once made is there to stay, and what the entry was seeded for is who the
\* panel knows to hold the signal.
WInv ==
    /\ WriteBoxTypeOK
    /\ write.value # Empty => committed.value # Empty
    /\ seededFor # "no one" => seededFor = write.by

\* What a write holds: a level or nothing, and never nothing by a controller.
LEMMA WritesTyped ==
    ASSUME NEW w \in Writes
    PROVE  /\ w.value \in Levels \cup {Empty} /\ w.by \in {"hand", "controller"}
           /\ w.by = "controller" => w.value # Empty
  BY BoxBounds DEF Writes, NoWrite

\* A level set by hand or by a controller is a write.
LEMMA CommitIsTyped ==
    \A v \in Levels, by \in {"hand", "controller"} :
        /\ [value |-> v, by |-> by] \in Writes
        /\ [value |-> v, by |-> by].value # Empty
  BY BoxBounds DEF Writes

\* The effect that seeds the entry.
LEMMA SeededKeeps ==
    ASSUME NEW w \in Writes, NEW r \in Levels \cup {Empty}, Seeded(w, r),
           seededFor \in {"no one", "hand", "controller"}, boxText \in Levels \cup {Empty}
    PROVE  /\ boxText' \in Levels \cup {Empty} /\ seededFor' \in {"no one", "hand", "controller"}
           /\ seededFor' = seededFor \/ seededFor' = w.by
           /\ w.value # Empty => seededFor' = w.by
           /\ boxText' # boxText => seededFor # w.by
  <1>1. w.value \in Levels \cup {Empty} /\ w.by \in {"hand", "controller"}
    BY WritesTyped
  <1>2. CASE Reseeds(w, r)
    <2>1. boxText' = Precise[SeedValue(w, r)] /\ seededFor' = w.by /\ seededFor # w.by
      BY <1>2 DEF Seeded, Reseeds
    <2>2. SeedValue(w, r) \in Levels
      BY <1>1, <1>2 DEF Reseeds, SeedValue
    <2>3. Precise[SeedValue(w, r)] \in Levels
      BY <2>2, BoxBounds
    <2> QED BY <1>1, <2>1, <2>3
  <1>3. CASE ~Reseeds(w, r)
    <2>1. UNCHANGED <<boxText, seededFor>>
      BY <1>3 DEF Seeded
    <2>2. w.value # Empty => seededFor = w.by
      BY <1>1, <1>3 DEF Reseeds, SeedValue
    <2> QED BY <2>1, <2>2
  <1> QED BY <1>2, <1>3

\* The rig commits, is attached to, and what it says reaches the panel.
LEMMA RigSideKeeps ==
    ASSUME WInv, RigAttaches \/ RigCommits \/ DemandAnswered \/ RunsCommand
    PROVE  WInv'
  <1>1. /\ UNCHANGED <<write, reading, boxText, seededFor, formArg>>
        /\ sending' \in Levels \cup {Empty}
    BY DEF WInv, WriteBoxTypeOK, RigAttaches, RigCommits, DemandAnswered, RunsCommand, boxVars, formVars
  <1>2. \/ UNCHANGED <<committed, measured>>
        \/ \E v \in Levels, by \in {"hand", "controller"} :
             committed' = [value |-> v, by |-> by] /\ measured' = v
    BY DEF WInv, WriteBoxTypeOK, RigAttaches, RigCommits, DemandAnswered, RunsCommand
  <1>3. /\ committed' \in Writes /\ measured' \in Levels \cup {Empty}
        /\ committed.value # Empty => committed'.value # Empty
    BY <1>2, CommitIsTyped DEF WInv, WriteBoxTypeOK
  <1> QED BY <1>1, <1>3 DEF WInv, WriteBoxTypeOK

\* When samples reach the box what was typed changes only with who drives the signal.
LEMMA SamplesKeep ==
    ASSUME WInv, SamplesReachBox
    PROVE  WInv' /\ (boxText' # boxText /\ seededFor # "no one" => write'.by # write.by)
  <1>1. /\ write' = committed /\ reading' = measured /\ Seeded(committed, measured)
        /\ UNCHANGED <<rigSide, sending, formVars>>
    BY DEF SamplesReachBox
  <1>2. /\ boxText' \in Levels \cup {Empty} /\ seededFor' \in {"no one", "hand", "controller"}
        /\ seededFor' = seededFor \/ seededFor' = committed.by
        /\ committed.value # Empty => seededFor' = committed.by
        /\ boxText' # boxText => seededFor # committed.by
    BY <1>1, SeededKeeps DEF WInv, WriteBoxTypeOK
  <1>3. committed \in Writes /\ write \in Writes
    BY DEF WInv, WriteBoxTypeOK
  <1>4. ASSUME committed.value = Empty, seededFor # "no one" PROVE seededFor = committed.by
    <2>1. write.value = Empty /\ write.by = "hand" /\ committed.by = "hand"
      BY <1>3, <1>4, WritesTyped DEF WInv
    <2> QED BY <1>4, <2>1 DEF WInv
  <1> QED BY <1>1, <1>2, <1>4 DEF WInv, WriteBoxTypeOK, rigSide, formVars

\* The first render seeds the text only while nobody's write has seeded it.
LEMMA RenderKeeps ==
    ASSUME WInv, FirstRender
    PROVE  WInv' /\ (boxText' # boxText => seededFor = "no one")
  <1>1. Seeded(write, reading) /\ UNCHANGED <<rigSide, write, reading, sending, formVars>>
    BY DEF FirstRender
  <1>2. /\ boxText' \in Levels \cup {Empty} /\ seededFor' \in {"no one", "hand", "controller"}
        /\ seededFor' = seededFor \/ seededFor' = write.by
        /\ boxText' # boxText => seededFor # write.by
    BY <1>1, SeededKeeps DEF WInv, WriteBoxTypeOK
  <1> QED BY <1>1, <1>2 DEF WInv, WriteBoxTypeOK, rigSide, formVars

\* The user types, sends, and opens and leaves the form.
LEMMA UserKeeps ==
    ASSUME WInv, \/ TypesDemand \/ SetsDemand \/ ControllersReachBox
                 \/ OpensForm \/ TypesArgument \/ LeavesForm \/ UNCHANGED writeBoxVars
    PROVE  WInv'
  <1>1. UNCHANGED <<committed, measured, write, reading, seededFor>>
    BY DEF TypesDemand, SetsDemand, ControllersReachBox, OpensForm, TypesArgument, LeavesForm,
           writeBoxVars, rigSide, boxVars, formVars
  <1>2. boxText' \in Levels \cup {Empty}
    <2>1. CASE TypesDemand
      <3>1. boxText' \in {Precise[l] : l \in Levels} \cup {Empty}
        BY <2>1 DEF TypesDemand
      <3> QED BY <3>1, BoxBounds
    <2>2. CASE ~TypesDemand
      BY <2>2 DEF WInv, WriteBoxTypeOK, SetsDemand, ControllersReachBox, OpensForm, TypesArgument,
                  LeavesForm, writeBoxVars, boxVars
    <2> QED BY <2>1, <2>2
  <1>3. sending' \in Levels \cup {Empty} /\ formArg' \in Levels \cup {Empty}
    BY DEF WInv, WriteBoxTypeOK, TypesDemand, SetsDemand, ControllersReachBox, OpensForm, TypesArgument,
           LeavesForm, writeBoxVars, boxVars, formVars
  <1> QED BY <1>1, <1>2, <1>3 DEF WInv, WriteBoxTypeOK

\* Every step of the box keeps its invariant.
LEMMA WInvStep == WInv /\ [WriteBoxNext]_writeBoxVars => WInv'
  BY RigSideKeeps, SamplesKeep, RenderKeeps, UserKeeps DEF WriteBoxNext

\* What was typed in a seeded entry stays until it is typed over, whatever is committed
\* and read meanwhile, unless the signal changes hands.
THEOREM TypedAlwaysStays == WriteBoxSpec => TypedStays
  <1>1. WriteBoxInit => WInv
    <2> SUFFICES ASSUME WriteBoxInit PROVE WInv
      OBVIOUS
    <2>1. committed \in Writes /\ write \in Writes /\ (write.value # Empty => committed.value # Empty)
      <3>1. NoWrite \in Writes /\ NoWrite.value = Empty
        BY DEF Writes, NoWrite
      <3>2. committed = NoWrite \/ committed = [value |-> CHOOSE v \in Levels : TRUE, by |-> "hand"]
        BY DEF WriteBoxInit
      <3>3. committed \in Writes
        BY <3>1, <3>2, CommitIsTyped, BoxBounds
      <3>4. write \in {NoWrite, committed}
        BY DEF WriteBoxInit
      <3> QED BY <3>1, <3>3, <3>4
    <2> QED BY <2>1 DEF WriteBoxInit, WInv, WriteBoxTypeOK
  <1>2. WInv /\ [WriteBoxNext]_writeBoxVars
        => [(typed /\ seededFor # "no one" /\ ~TypesDemand)
            => (boxText' = boxText \/ write'.by # write.by)]_writeBoxVars
    <2> SUFFICES ASSUME WInv, WriteBoxNext, seededFor # "no one", ~TypesDemand, boxText' # boxText
                 PROVE  write'.by # write.by
      OBVIOUS
    <2>1. SamplesReachBox \/ FirstRender
      BY DEF WriteBoxNext, RigAttaches, RigCommits, ControllersReachBox, SetsDemand, DemandAnswered,
             OpensForm, TypesArgument, RunsCommand, LeavesForm, boxVars
    <2> QED BY <2>1, SamplesKeep, RenderKeeps
  <1> QED
    BY <1>1, <1>2, WInvStep, PTL DEF WriteBoxSpec, TypedStays

-----------------------------------------------------------------------------
(* Undo and redo (EditHistory).                                            *)

HInv == HistoryTypeOK /\ HistoryBounded

\* What is kept of a history is its newest part, no longer than the limit.
LEMMA NewestProperties ==
    ASSUME NEW s \in Seq(Edits)
    PROVE  Newest(s) \in Seq(Edits) /\ Len(Newest(s)) <= Limit - 1
  <1>1. Len(s) \in Nat /\ Limit \in Nat /\ Limit > 1
    BY LimitAssumption
  <1>2. CASE Len(s) > Limit - 1
    <2>1. \A i \in Len(s) - Limit + 2 .. Len(s) : s[i] \in Edits
      BY <1>1, <1>2
    <2>2. /\ SubSeq(s, Len(s) - Limit + 2, Len(s)) \in Seq(Edits)
          /\ Len(SubSeq(s, Len(s) - Limit + 2, Len(s))) = Limit - 1
      BY <1>1, <1>2, <2>1, SubSeqProperties
    <2> QED BY <1>1, <1>2, <2>2 DEF Newest
  <1>3. CASE ~(Len(s) > Limit - 1)
    BY <1>1, <1>3 DEF Newest
  <1> QED BY <1>2, <1>3

\* A step undone moves the edge between the two by one, and nothing else.
LEMMA UndoKeeps ==
    ASSUME HInv, UndoStep
    PROVE  HInv' /\ Reach' = Reach
  <1> DEFINE front == SubSeq(before, 1, Len(before) - 1)
             last == before[Len(before)]
  <1>1. before # <<>> /\ shown' = last /\ before' = front /\ after' = <<shown>> \o after
    BY DEF UndoStep
  <1>2. /\ before \in Seq(Edits) /\ after \in Seq(Edits) /\ shown \in Edits
        /\ Len(before) + Len(after) <= Limit /\ Len(before) \in Nat \ {0} /\ Len(after) \in Nat
    BY <1>1, EmptySeq DEF HInv, HistoryTypeOK, HistoryBounded
  <1>3. last \in Edits /\ front \in Seq(Edits) /\ Len(front) = Len(before) - 1
    <2>1. \A i \in 1..Len(before) - 1 : before[i] \in Edits
      BY <1>2
    <2>2. Len(before) - 1 \in Int /\ 1 \in Int
      BY <1>2
    <2>3. /\ front \in Seq(Edits)
          /\ Len(front) = IF 1 <= Len(before) - 1 THEN Len(before) - 1 - 1 + 1 ELSE 0
      BY <2>1, <2>2, SubSeqProperties
    <2>4. Len(front) = Len(before) - 1
      <3> DEFINE n == Len(before)
      <3>1. n \in Nat /\ n # 0
        BY <1>2
      <3>2. Len(front) = IF 1 <= n - 1 THEN n - 1 - 1 + 1 ELSE 0
        BY <2>3
      <3> HIDE DEF front, n
      <3>3. Len(front) = n - 1
        BY <3>1, <3>2
      <3> QED BY <3>3 DEF n
    <2>5. last \in Edits
      BY <1>2, ElementOfSeq
    <2> QED BY <2>3, <2>4, <2>5
  <1>4. before = front \o <<last>>
    <2>1. SubSeq(before, 1, Len(before)) = front \o <<last>>
      BY <1>2, SubSeqRecursiveSecond
    <2> QED BY <1>2, <2>1, SubSeqFull
  <1>5. <<shown>> \in Seq(Edits) /\ <<last>> \in Seq(Edits) /\ Len(<<shown>>) = 1
    BY <1>2, <1>3
  <1>6. <<shown>> \o after \in Seq(Edits) /\ Len(<<shown>> \o after) = 1 + Len(after)
    BY <1>2, <1>5, ConcatProperties
  <1> HIDE DEF front, last
  <1>7. HInv'
    BY <1>1, <1>2, <1>3, <1>6, LimitAssumption DEF HInv, HistoryTypeOK, HistoryBounded
  <1>8. Reach' = (front \o <<last>>) \o (<<shown>> \o after)
    BY <1>1 DEF Reach
  <1>9. Reach = ((front \o <<last>>) \o <<shown>>) \o after
    BY <1>4 DEF Reach
  <1>10. front \o <<last>> \in Seq(Edits)
    BY <1>2, <1>4
  <1>11. ((front \o <<last>>) \o <<shown>>) \o after = (front \o <<last>>) \o (<<shown>> \o after)
    BY <1>2, <1>5, <1>10, ConcatAssociative
  <1> QED BY <1>7, <1>8, <1>9, <1>11

\* A step redone moves it back.
LEMMA RedoKeeps ==
    ASSUME HInv, RedoStep
    PROVE  HInv' /\ Reach' = Reach
  <1> DEFINE next == Head(after)
             rest == Tail(after)
  <1>1. after # <<>> /\ shown' = next /\ after' = rest /\ before' = Append(before, shown)
    BY DEF RedoStep
  <1>2. /\ before \in Seq(Edits) /\ after \in Seq(Edits) /\ shown \in Edits
        /\ Len(before) + Len(after) <= Limit /\ Len(before) \in Nat /\ Len(after) \in Nat \ {0}
    BY <1>1, EmptySeq DEF HInv, HistoryTypeOK, HistoryBounded
  <1>3. next \in Edits /\ rest \in Seq(Edits) /\ Len(rest) = Len(after) - 1
    BY <1>1, <1>2, HeadTailProperties
  <1>4. after = <<next>> \o rest
    <2>1. SubSeq(after, 1, Len(after)) = <<after[1]>> \o SubSeq(after, 2, Len(after))
      BY <1>2, SubSeqRecursiveFirst
    <2>2. rest = SubSeq(after, 2, Len(after)) /\ next = after[1]
      BY <1>1, <1>2, TailIsSubSeq
    <2> QED BY <1>2, <2>1, <2>2, SubSeqFull
  <1>5. before' \in Seq(Edits) /\ Len(before') = Len(before) + 1 /\ before' = before \o <<shown>>
    BY <1>1, <1>2, AppendProperties, AppendIsConcat
  <1>6. <<shown>> \in Seq(Edits) /\ <<next>> \in Seq(Edits)
    BY <1>2, <1>3
  <1> HIDE DEF next, rest
  <1>7. HInv'
    BY <1>1, <1>2, <1>3, <1>5, LimitAssumption DEF HInv, HistoryTypeOK, HistoryBounded
  <1>8. before \o <<shown>> \in Seq(Edits)
    BY <1>2, <1>6, ConcatProperties
  <1>9. Reach' = ((before \o <<shown>>) \o <<next>>) \o rest
    BY <1>1, <1>5 DEF Reach
  <1>10. Reach = (before \o <<shown>>) \o (<<next>> \o rest)
    BY <1>4 DEF Reach
  <1>11. ((before \o <<shown>>) \o <<next>>) \o rest = (before \o <<shown>>) \o (<<next>> \o rest)
    BY <1>3, <1>6, <1>8, ConcatAssociative
  <1> QED BY <1>7, <1>9, <1>10, <1>11

\* A step committed, or a fresh start: nothing is left to redo.
LEMMA SetKeeps ==
    ASSUME HInv, NEW value \in Edits, SetValue(value) \/ ResetTo(value)
    PROVE  HInv' /\ after' = <<>>
  <1>1. before \in Seq(Edits) /\ shown \in Edits /\ Limit \in Nat /\ Limit > 1
    BY LimitAssumption DEF HInv, HistoryTypeOK
  <1>2. CASE SetValue(value)
    <2>1. before' = Append(Newest(before), shown) /\ after' = <<>> /\ shown' = value
      BY <1>2 DEF SetValue
    <2>2. Newest(before) \in Seq(Edits) /\ Len(Newest(before)) <= Limit - 1 /\ Len(Newest(before)) \in Nat
      BY <1>1, NewestProperties
    <2>3. before' \in Seq(Edits) /\ Len(before') = Len(Newest(before)) + 1
      BY <1>1, <2>1, <2>2, AppendProperties
    <2> QED BY <1>1, <2>1, <2>2, <2>3 DEF HInv, HistoryTypeOK, HistoryBounded
  <1>3. CASE ResetTo(value)
    <2>1. before' = <<>> /\ after' = <<>> /\ shown' = value
      BY <1>3 DEF ResetTo
    <2> QED BY <1>1, <2>1 DEF HInv, HistoryTypeOK, HistoryBounded
  <1> QED BY <1>2, <1>3

\* The histories start within their limit.
LEMMA HInvInit == HistoryInit => HInv
  BY LimitAssumption DEF HistoryInit, HInv, HistoryTypeOK, HistoryBounded

\* Every step keeps the histories sequences within their limit.
LEMMA HInvStep == HInv /\ [HistoryNext]_historyVars => HInv'
  <1> SUFFICES ASSUME HInv, [HistoryNext]_historyVars
               PROVE  HInv'
    OBVIOUS
  <1>1. CASE HistoryNext
    BY <1>1, UndoKeeps, RedoKeeps, SetKeeps DEF HistoryNext
  <1>2. CASE UNCHANGED historyVars
    BY <1>2 DEF HInv, HistoryTypeOK, HistoryBounded, historyVars
  <1> QED BY <1>1, <1>2

\* Never more than the last Limit steps are held, whatever is committed, undone, redone.
THEOREM HistoryAlwaysBounded == HistorySpec => []HistoryBounded
  <1>1. HInv => HistoryBounded
    BY DEF HInv
  <1> QED
    BY <1>1, HInvInit, HInvStep, PTL DEF HistorySpec

\* Undo and redo go back and forth through the same values in the same order.
THEOREM WayBackAndForthHolds == HistorySpec => WayBackAndForth
  <1>1. HInv /\ [HistoryNext]_historyVars => [Len(after') > 0 /\ after' # after => Reach' = Reach]_historyVars
    <2> SUFFICES ASSUME HInv, HistoryNext, Len(after') > 0
                 PROVE  Reach' = Reach
      OBVIOUS
    <2>1. after' # <<>>
      OBVIOUS
    <2> QED BY <2>1, UndoKeeps, RedoKeeps, SetKeeps DEF HistoryNext
  <1> QED
    BY <1>1, HInvInit, HInvStep, PTL DEF HistorySpec, WayBackAndForth

-----------------------------------------------------------------------------
(* Charts drawn and paused (Charts).                                       *)

CanvasFlags ==
    /\ storeFed \in BOOLEAN /\ sparkline \in BOOLEAN /\ open \in BOOLEAN
    /\ onScreen \in BOOLEAN /\ tab \in BOOLEAN /\ still \in BOOLEAN
    /\ may \in BOOLEAN /\ subscribed \in BOOLEAN /\ woken \in BOOLEAN /\ owedDraw \in BOOLEAN

\* A chart of the store subscribes while it may draw, and the canvas shows what was last
\* read: a rebuild, which draws that, takes nothing from the picture.
OfTheStore == storeFed => /\ subscribed <=> may
                          /\ drawn = lastRead
                          /\ may => drawn = data \/ woken

\* A chart of props has been handed all there is, and what it has not drawn it owes.
OfTheProps == ~storeFed => /\ lastRead = data
                           /\ drawn = data \/ owedDraw
                           /\ may => drawn = data

CInv == CanvasFlags /\ OfTheStore /\ OfTheProps

\* No chart may draw before the observer has spoken.
LEMMA CInvInit == ChartsInit => CInv
  BY DEF ChartsInit, CInv, CanvasFlags, OfTheStore, OfTheProps

\* The update of the lifecycle, whatever made it run, whether its effect ran again
\* (free) or not.
LEMMA UpdateKeeps ==
    ASSUME CInv, NEW free \in BOOLEAN, Update(free), UNCHANGED <<feedVars, data>>,
           onScreen' \in BOOLEAN, tab' \in BOOLEAN, still' \in BOOLEAN, open' = open
    PROVE  CInv'
  <1> USE DEF CInv
  <1> DEFINE was == subscribed /\ ~free
  <1>1. may' = (onScreen' /\ tab' /\ ~still') /\ may' \in BOOLEAN
    BY DEF Update
  <1>2. CASE storeFed /\ may' /\ ~was
    <2>1. subscribed' = may' /\ woken' = (woken /\ was /\ may') /\ Draw
      BY <1>2 DEF Update
    <2>2. woken' = FALSE /\ drawn' = data' /\ lastRead' = data' /\ owedDraw' = FALSE /\ storeFed' = storeFed
      BY <1>2, <2>1 DEF Draw, feedVars
    <2>3. CanvasFlags'
      BY <1>1, <2>1, <2>2 DEF CanvasFlags, feedVars
    <2>4. OfTheStore' /\ OfTheProps'
      BY <1>1, <1>2, <2>1, <2>2 DEF OfTheStore, OfTheProps
    <2> QED BY <2>3, <2>4
  <1>3. CASE storeFed /\ ~(may' /\ ~was)
    <2>1. subscribed' = may' /\ woken' = (woken /\ was /\ may') /\ NoDraw
      BY <1>3 DEF Update
    <2>2. UNCHANGED <<lastRead, drawn, owedDraw, data, storeFed, sparkline>>
      BY <2>1 DEF NoDraw, feedVars
    <2>3. CanvasFlags'
      BY <1>1, <2>1, <2>2 DEF CanvasFlags
    <2>4. CASE may'
      <3>1. subscribed /\ may /\ (woken' <=> woken)
        BY <1>3, <2>1, <2>4 DEF CanvasFlags, OfTheStore
      <3>2. OfTheStore' /\ OfTheProps'
        BY <1>3, <2>1, <2>2, <2>4, <3>1 DEF OfTheStore, OfTheProps
      <3> QED BY <2>3, <3>2
    <2>5. CASE ~may'
      BY <1>3, <2>1, <2>2, <2>3, <2>5 DEF OfTheStore, OfTheProps
    <2> QED BY <2>4, <2>5
  <1>4. CASE ~storeFed /\ may' /\ owedDraw
    <2>1. UNCHANGED <<subscribed, woken>> /\ Draw
      BY <1>4 DEF Update
    <2>2. drawn' = lastRead /\ lastRead' = lastRead /\ owedDraw' = FALSE /\ UNCHANGED <<storeFed, sparkline, data>>
      BY <1>4, <2>1 DEF Draw, feedVars
    <2>3. CanvasFlags'
      BY <1>1, <2>1, <2>2 DEF CanvasFlags
    <2>4. OfTheStore' /\ OfTheProps'
      BY <1>4, <2>2 DEF OfTheStore, OfTheProps
    <2> QED BY <2>3, <2>4
  <1>5. CASE ~storeFed /\ ~(may' /\ owedDraw)
    <2>1. UNCHANGED <<subscribed, woken>> /\ NoDraw
      BY <1>5 DEF Update
    <2>2. UNCHANGED <<lastRead, drawn, owedDraw, data, storeFed, sparkline>>
      BY <2>1 DEF NoDraw, feedVars
    <2>3. CanvasFlags'
      BY <1>1, <2>1, <2>2 DEF CanvasFlags
    <2>4. OfTheStore' /\ OfTheProps'
      BY <1>5, <2>2 DEF OfTheStore, OfTheProps
    <2> QED BY <2>3, <2>4
  <1> QED BY <1>2, <1>3, <1>4, <1>5

\* A chart built anew, of the rows last read.
LEMMA BuildKeeps ==
    ASSUME CInv, drawn' = lastRead, lastRead' = lastRead,
           UNCHANGED <<feedVars, data, seenVars, lifeVars>>
    PROVE  CInv'
  BY DEF CInv, CanvasFlags, OfTheStore, OfTheProps, feedVars, seenVars, lifeVars

\* What the reader does with the axes leaves the picture's data alone.
LEMMA AxesKeep ==
    ASSUME CInv, UNCHANGED <<feedVars, data, lastRead, drawn, seenVars, lifeVars>>
    PROVE  CInv'
  BY DEF CInv, CanvasFlags, OfTheStore, OfTheProps, feedVars, seenVars, lifeVars

\* What is seen of the chart changes; the tab and the pause tell it at once.
LEMMA SeenKeeps ==
    ASSUME CInv, ObserverSpeaks \/ Scrolls \/ TabMoves \/ Pauses
    PROVE  CInv'
  <1>1. CASE ObserverSpeaks
    <2>1. /\ Update(FALSE) /\ UNCHANGED <<feedVars, data>> /\ open' = open
          /\ onScreen' \in BOOLEAN /\ tab' \in BOOLEAN /\ still' \in BOOLEAN
      BY <1>1 DEF CInv, CanvasFlags, ObserverSpeaks, seenVars
    <2> QED BY <2>1, UpdateKeeps
  <1>2. CASE Scrolls
    BY <1>2 DEF CInv, CanvasFlags, OfTheStore, OfTheProps, Scrolls, feedVars, drawVars, lifeVars
  <1>3. CASE TabMoves
    <2>1. /\ Update(FALSE) /\ UNCHANGED <<feedVars, data>> /\ open' = open
          /\ onScreen' \in BOOLEAN /\ tab' \in BOOLEAN /\ still' \in BOOLEAN
      BY <1>3 DEF CInv, CanvasFlags, TabMoves
    <2> QED BY <2>1, UpdateKeeps
  <1>4. CASE Pauses
    <2>1. /\ Update(TRUE) /\ UNCHANGED <<feedVars, data>> /\ open' = open
          /\ onScreen' \in BOOLEAN /\ tab' \in BOOLEAN /\ still' \in BOOLEAN
      BY <1>4 DEF CInv, CanvasFlags, Pauses, Rewatch
    <2> QED BY <2>1, UpdateKeeps
  <1> QED BY <1>1, <1>2, <1>3, <1>4

\* The store calls, or data arrives.
LEMMA FeedKeeps ==
    ASSUME CInv, Wakes \/ DataArrives
    PROVE  CInv'
  <1> USE DEF CInv
  <1>1. CASE Wakes
    <2>1. /\ woken' = FALSE /\ owedDraw' = FALSE /\ drawn' = lastRead'
          /\ lastRead' = (IF storeFed THEN data' ELSE lastRead)
          /\ UNCHANGED <<storeFed, sparkline, data, open, onScreen, tab, still, may, subscribed>>
      BY <1>1 DEF Wakes, Draw, feedVars, seenVars
    <2>2. CanvasFlags'
      BY <2>1 DEF CanvasFlags
    <2>3. OfTheStore' /\ OfTheProps'
      BY <2>1 DEF OfTheStore, OfTheProps
    <2> QED BY <2>2, <2>3
  <1>2. CASE DataArrives /\ storeFed
    <2>1. /\ woken' = subscribed
          /\ UNCHANGED <<storeFed, sparkline, open, onScreen, tab, still, may, subscribed, drawn, lastRead, owedDraw>>
      BY <1>2 DEF DataArrives, feedVars, seenVars, drawVars
    <2>2. CanvasFlags'
      BY <2>1 DEF CanvasFlags
    <2>3. OfTheStore' /\ OfTheProps'
      BY <1>2, <2>1 DEF OfTheStore, OfTheProps
    <2> QED BY <2>2, <2>3
  <1>3. CASE DataArrives /\ ~storeFed
    <2>1. /\ lastRead' = data'
          /\ IF may THEN drawn' = data' /\ owedDraw' = FALSE ELSE owedDraw' = TRUE /\ drawn' = drawn
          /\ UNCHANGED <<storeFed, sparkline, open, onScreen, tab, still, may, subscribed, woken>>
      BY <1>3 DEF DataArrives, feedVars, seenVars
    <2>2. CanvasFlags'
      BY <2>1 DEF CanvasFlags
    <2>3. OfTheStore' /\ OfTheProps'
      BY <1>3, <2>1 DEF OfTheStore, OfTheProps
    <2> QED BY <2>2, <2>3
  <1> QED BY <1>1, <1>2, <1>3

\* Full-size and back: a sparkline's effect runs anew, and waits for the observer.
LEMMA OpenKeeps ==
    ASSUME CInv, SetOpen
    PROVE  CInv'
  <1> USE DEF CInv
  <1>1. /\ drawn' = lastRead /\ lastRead' = lastRead /\ owedDraw' = owedDraw /\ open' = ~open
        /\ UNCHANGED <<storeFed, sparkline, data, tab, still>>
    BY DEF SetOpen, feedVars
  <1>2. CASE sparkline
    <2>1. onScreen' = FALSE /\ may' = FALSE /\ subscribed' = FALSE /\ woken' = FALSE
      BY <1>2 DEF SetOpen, Rewatch
    <2>2. CanvasFlags'
      BY <1>1, <2>1 DEF CanvasFlags
    <2>3. OfTheStore' /\ OfTheProps'
      BY <1>1, <2>1 DEF OfTheStore, OfTheProps
    <2> QED BY <2>2, <2>3
  <1>3. CASE ~sparkline
    <2>1. UNCHANGED <<onScreen, may, subscribed, woken>>
      BY <1>3 DEF SetOpen
    <2>2. CanvasFlags'
      BY <1>1, <2>1 DEF CanvasFlags
    <2>3. OfTheStore' /\ OfTheProps'
      BY <1>1, <2>1 DEF OfTheStore, OfTheProps
    <2> QED BY <2>2, <2>3
  <1> QED BY <1>2, <1>3

\* Every step keeps the invariant.
LEMMA CInvStep == CInv /\ [ChartsNext]_chartVars => CInv'
  <1> SUFFICES ASSUME CInv, [ChartsNext]_chartVars
               PROVE  CInv'
    OBVIOUS
  <1>1. CASE ObserverSpeaks \/ Scrolls \/ TabMoves \/ Pauses
    BY <1>1, SeenKeeps
  <1>2. CASE Wakes \/ DataArrives
    BY <1>2, FeedKeeps
  <1>3. CASE SetOpen
    BY <1>3, OpenKeeps
  <1>4. CASE Restyles
    BY <1>4, BuildKeeps DEF Restyles, Builds
  <1>5. CASE Navigates \/ Follow \/ PanStarts \/ PanMoves \/ PanEnds
    <2>1. UNCHANGED <<feedVars, data, lastRead, drawn, seenVars, lifeVars>>
      BY <1>5 DEF Navigates, Follow, PanStarts, PanMoves, PanEnds, drawVars
    <2> QED BY <2>1, AxesKeep
  <1>6. CASE PansY
    <2>1. CASE yPanned
      BY <1>6, <2>1, AxesKeep DEF PansY, drawVars
    <2>2. CASE ~yPanned
      BY <1>6, <2>2, BuildKeeps DEF PansY, Builds
    <2> QED BY <2>1, <2>2
  <1>7. CASE FitsY \/ PicksY
    BY <1>7, BuildKeeps DEF FitsY, PicksY, Builds
  <1>8. CASE UNCHANGED chartVars
    BY <1>8, AxesKeep DEF chartVars, drawVars
  <1> QED BY <1>1, <1>2, <1>3, <1>4, <1>5, <1>6, <1>7, <1>8 DEF ChartsNext

\* A chart that may draw shows what there is, or the store is about to call it: nothing
\* that came while it was off screen, in a hidden tab or held still is left undrawn.
THEOREM NothingLeftUndrawn == ChartsSpec => []DrawnOrCalled
  <1>1. CInv => DrawnOrCalled
    BY DEF CInv, CanvasFlags, OfTheStore, OfTheProps, DrawnOrCalled
  <1> QED
    BY <1>1, CInvInit, CInvStep, PTL DEF ChartsSpec

-----------------------------------------------------------------------------
(* Scrubbing through the history (Playback).                               *)

Spots == {Live} \cup Nat

PlaybackTypes ==
    /\ clock \in Nat /\ hookAt \in Spots /\ at \in Spots
    /\ record \in Sessions \cup {NoSession} /\ session \in Sessions \cup {NoSession}
    /\ window \in [Tracks -> {NoWindow} \cup Nat]
    /\ readers \subseteq Tracks /\ known \subseteq TickTracks /\ waiting \subseteq Tracks
    /\ timer \in BOOLEAN
    /\ fetches \subseteq [track : Tracks, at : {Older} \cup Nat]

\* An answer on its way is for where the store is, or is known to be an older one;
\* what waits has its debounce; of a controller nobody knew nothing was asked.
Asked ==
    /\ \A f \in fetches : f.at # Older => f.at = at
    /\ waiting # {} => timer /\ at # Live
    /\ \A k \in Tracks \ (Traces \cup known) :
          window[k] = NoWindow /\ k \notin waiting /\ \A f \in fetches : f.track # k

ScrubInv == PlaybackTypes /\ Asked /\ ShownOrAwaited

\* The windows, once the position is another.
LEMMA GoToKeeps ==
    ASSUME ScrubInv, NEW t \in Nat, NEW s \in Sessions, GoTo(t, s),
           UNCHANGED <<clock, record, hookAt, readers, known>>
    PROVE  ScrubInv' /\ \A k \in Tracks : window'[k] \in {window[k], NoWindow, at'}
<1> DEFINE had == {k \in Traces : window[k] # NoWindow}
           tracks == (Traces \cap (readers \cup waiting \cup had)) \cup known
<1>1. tracks \subseteq Tracks
  BY DEF ScrubInv, PlaybackTypes, Tracks
<1>2. /\ at' = t /\ session' = s /\ fetches' = Outdated
      /\ Ensure(tracks, t, s, window, {})
  BY DEF GoTo
<1>3. /\ window' \in [Tracks -> {NoWindow} \cup Nat]
      /\ waiting' \subseteq Tracks /\ timer' \in BOOLEAN /\ (waiting' # {} => timer')
      /\ \A k \in tracks : window'[k] = t \/ k \in waiting'
      /\ \A k \in Tracks \ tracks : window'[k] = window[k]
      /\ \A k \in Tracks : window'[k] \in {window[k], t}
      /\ waiting' \subseteq tracks
  <2> HIDE DEF tracks
  <2>1. window \in [Tracks -> {NoWindow} \cup Nat] /\ timer \in BOOLEAN
    BY DEF ScrubInv, PlaybackTypes
  <2> QED BY <1>1, <1>2, <2>1 DEF Ensure
<1>4. \A f \in fetches' : f.at = Older /\ \E g \in fetches : f.track = g.track /\ f \in [track : Tracks, at : {Older} \cup Nat]
  <2> SUFFICES ASSUME NEW g \in fetches
               PROVE  LET f == [g EXCEPT !.at = Older]
                      IN f.at = Older /\ f.track = g.track /\ f \in [track : Tracks, at : {Older} \cup Nat]
    BY <1>2 DEF Outdated
  <2>1. g \in [track : Tracks, at : {Older} \cup Nat]
    BY DEF ScrubInv, PlaybackTypes
  <2> QED BY <2>1
<1>5. PlaybackTypes'
  BY <1>2, <1>3, <1>4 DEF ScrubInv, PlaybackTypes, Spots
<1>6. Asked'
  <2>1. \A f \in fetches' : f.at = Older
    BY <1>4
  <2>2. \A k \in Tracks \ (Traces \cup known) : k \notin tracks
    OBVIOUS
  <2>3. \A k \in Tracks \ (Traces \cup known) :
           window'[k] = NoWindow /\ k \notin waiting' /\ \A f \in fetches' : f.track # k
    <3> HIDE DEF tracks
    <3> QED BY <1>3, <1>4, <2>2 DEF ScrubInv, Asked
  <2> QED BY <1>2, <1>3, <2>1, <2>3 DEF Asked, Live
<1>7. ShownOrAwaited'
  <2> SUFFICES ASSUME NEW k \in Tracks
               PROVE  \/ window'[k] = t
                      \/ window'[k] = NoWindow /\ (k \in TickTracks \/ k \notin readers)
                      \/ k \in waiting' /\ timer'
    BY <1>2 DEF ShownOrAwaited, ReadFrom, Spots, Live
  <2>1. CASE k \in tracks
    BY <1>3, <2>1
  <2>2. CASE k \notin tracks
    <3>1. window'[k] = window[k]
      BY <1>3, <2>2
    <3>2. CASE k \in Traces
      BY <2>2, <3>1, <3>2
    <3>3. CASE k \notin Traces
      BY <2>2, <3>1, <3>3 DEF ScrubInv, Asked, Tracks
    <3> QED BY <3>2, <3>3
  <2> QED BY <2>1, <2>2
<1> QED BY <1>2, <1>3, <1>5, <1>6, <1>7 DEF ScrubInv

\* Every step keeps the invariant, and gives no panel a window of another position.
LEMMA ScrubStep ==
    ASSUME ScrubInv, [PlaybackNext]_playbackVars
    PROVE  ScrubInv' /\ (UNCHANGED playbackVars \/ \A k \in Tracks : window'[k] \in {window[k], NoWindow, at'})
<1> DEFINE Own == \A k \in Tracks : window'[k] \in {window[k], NoWindow, at'}
<1>0. /\ StartOf \in [Sessions -> Nat] /\ Sessions \subseteq Nat /\ NoSession \notin Sessions
      /\ Live \notin Nat /\ NoWindow \notin Nat /\ Older \notin Nat
      /\ StepS \in Nat
  BY PlaybackBounds DEF NoSession, Live, NoWindow, Older
<1> USE DEF ScrubInv, PlaybackTypes
<1>1. CASE UNCHANGED playbackVars
  BY <1>1 DEF playbackVars, Asked, ShownOrAwaited, ReadFrom
<1>2. ASSUME SamplesArrive \/ (\E k \in Tracks : HistoryReaches(k)) \/ RecordingAnswers
      PROVE  ScrubInv' /\ Own
  <2>1. /\ UNCHANGED <<hookAt, playerVars, readers, known>> /\ clock' \in Nat
        /\ record' \in Sessions \cup {NoSession}
    BY <1>2 DEF SamplesArrive, HistoryReaches, RecordingAnswers, hookVars
  <2> QED BY <2>1 DEF playerVars, Asked, ShownOrAwaited, ReadFrom
<1>3. ASSUME NEW position \in Spots, MovesTo(position)
      PROVE  ScrubInv' /\ Own
  BY <1>3 DEF MovesTo, playerVars, Asked, ShownOrAwaited, ReadFrom
<1>4. ASSUME Scrub \/ Rewind \/ FastForward \/ Pause \/ Resume
      PROVE  \E position \in Spots : MovesTo(position)
  <2>1. ASSUME NEW t \in Int, record # NoSession
        PROVE  Clamp(t) \in Nat
    <3>1. StartOf[record] \in Nat
      BY <1>0, <2>1
    <3> QED BY <3>1 DEF Clamp, Smaller, Larger
  <2>2. ASSUME NEW t \in Int, record # NoSession, SeekTo(t)
        PROVE  \E position \in Spots : MovesTo(position)
    BY <2>1, <2>2 DEF SeekTo, Spots
  <2>3. CASE Scrub
    BY <2>2, <2>3 DEF Scrub
  <2>4. CASE Rewind
    <3>1. Here - StepS \in Int
      BY <1>0 DEF Here, Spots
    <3> QED BY <2>2, <2>4, <3>1 DEF Rewind
  <2>5. CASE FastForward
    <3>1. hookAt + StepS \in Int
      BY <1>0, <2>5 DEF FastForward, Spots
    <3> QED BY <2>2, <2>5, <3>1 DEF FastForward
  <2>6. CASE Pause
    BY <2>1, <2>6 DEF Pause, Spots
  <2>7. CASE Resume
    BY <2>7 DEF Resume, Spots
  <2> QED BY <1>4, <2>3, <2>4, <2>5, <2>6, <2>7
<1>5. ASSUME GoLive, UNCHANGED <<clock, record, readers, known>>, hookAt' \in Spots
      PROVE  ScrubInv' /\ Own
  <2>1. CASE at = Live
    BY <1>5, <2>1 DEF GoLive, playerVars, Asked, ShownOrAwaited, ReadFrom
  <2>2. CASE at # Live
    <3>1. /\ at' = Live /\ fetches' = Outdated /\ waiting' = {} /\ timer' = FALSE
          /\ window' = [k \in Tracks |-> NoWindow] /\ UNCHANGED session
      BY <1>5, <2>2 DEF GoLive
    <3>2. \A f \in fetches' : f.at = Older /\ \E g \in fetches : f.track = g.track /\ f \in [track : Tracks, at : {Older} \cup Nat]
      <4> SUFFICES ASSUME NEW g \in fetches
                   PROVE  LET f == [g EXCEPT !.at = Older]
                          IN f.at = Older /\ f.track = g.track /\ f \in [track : Tracks, at : {Older} \cup Nat]
        BY <3>1 DEF Outdated
      <4> QED OBVIOUS
    <3>3. PlaybackTypes'
      BY <1>5, <3>1, <3>2 DEF Spots
    <3>4. Asked'
      BY <1>5, <3>1, <3>2 DEF Asked
    <3> QED BY <3>1, <3>3, <3>4 DEF ShownOrAwaited
  <2> QED BY <2>1, <2>2
<1>6. CASE EffectRuns
  <2>1. UNCHANGED <<clock, record, readers, known>> /\ hookAt' \in Spots
    BY <1>6 DEF EffectRuns, Spots
  <2>2. GoLive \/ (GoTo(hookAt, record) /\ hookAt \in Nat /\ record \in Sessions /\ UNCHANGED hookAt)
    BY <1>6 DEF EffectRuns, Spots
  <2> QED BY <1>5, <2>1, <2>2, GoToKeeps
<1>7. ASSUME NEW j \in Tracks, Subscribe(j)
      PROVE  ScrubInv' /\ Own
  <2>1. /\ UNCHANGED <<clock, hookVars, at, session, fetches, known>> /\ readers' = readers \cup {j}
    BY <1>7 DEF Subscribe
  <2>2. CASE j \in Traces /\ at # Live /\ window[j] = NoWindow /\ j \notin waiting
    <3>1. Ensure({j}, at, session, window, waiting)
      BY <1>7, <2>2 DEF Subscribe
    <3>2. at \in Nat /\ (waiting # {} => timer)
      BY <2>2 DEF Asked, Spots
    <3>3. /\ window' \in [Tracks -> {NoWindow} \cup Nat]
          /\ waiting' \subseteq Tracks /\ timer' \in BOOLEAN /\ (waiting' # {} => timer')
          /\ window'[j] = at \/ j \in waiting'
          /\ \A k \in Tracks \ {j} : window'[k] = window[k]
          /\ \A k \in Tracks : window'[k] \in {window[k], at}
          /\ waiting' \subseteq waiting \cup {j} /\ waiting \subseteq waiting'
      BY <3>1, <3>2 DEF Ensure
    <3>4. PlaybackTypes'
      BY <2>1, <3>3 DEF hookVars
    <3>5. Asked'
      BY <2>1, <2>2, <3>3 DEF Asked
    <3>6. ShownOrAwaited'
      <4> SUFFICES ASSUME NEW k \in Tracks, k # j
                   PROVE  \/ window'[k] = at
                          \/ window'[k] = NoWindow /\ (k \in TickTracks \/ k \notin readers')
                          \/ k \in waiting' /\ timer'
                          \/ [track |-> k, at |-> at] \in fetches
                          \/ at < StartOf[session]
        BY <2>1, <3>3 DEF ShownOrAwaited, ReadFrom
      <4>1. k \notin readers => k \notin readers'
        BY <2>1
      <4> QED BY <2>2, <3>3, <4>1 DEF ShownOrAwaited, ReadFrom
    <3> QED BY <2>1, <3>3, <3>4, <3>5, <3>6
  <2>3. CASE ~(j \in Traces /\ at # Live /\ window[j] = NoWindow /\ j \notin waiting)
    <3>1. UNCHANGED <<window, waiting, timer>>
      BY <1>7, <2>3 DEF Subscribe
    <3>2. ShownOrAwaited'
      <4> SUFFICES ASSUME NEW k \in Tracks, at # Live
                   PROVE  \/ window[k] = at
                          \/ window[k] = NoWindow /\ (k \in TickTracks \/ k \notin readers')
                          \/ k \in waiting /\ timer
                          \/ [track |-> k, at |-> at] \in fetches
                          \/ at < StartOf[session]
        BY <2>1, <3>1 DEF ShownOrAwaited, ReadFrom
      <4>1. CASE k # j
        BY <2>1, <4>1 DEF ShownOrAwaited, ReadFrom
      <4>2. CASE k = j
        BY <2>1, <2>3, <4>2 DEF ShownOrAwaited, ReadFrom, Asked, Tracks
      <4> QED BY <4>1, <4>2
    <3> QED BY <2>1, <3>1, <3>2 DEF Asked, hookVars
  <2> QED BY <2>2, <2>3
<1>8. ASSUME NEW j \in Tracks, Unsubscribe(j)
      PROVE  ScrubInv' /\ Own
  BY <1>8 DEF Unsubscribe, hookVars, playerVars, Asked, ShownOrAwaited, ReadFrom
<1>9. ASSUME NEW j \in TickTracks, ControllerArrives(j)
      PROVE  ScrubInv' /\ Own
  BY <1>9 DEF ControllerArrives, hookVars, playerVars, Asked, ShownOrAwaited, ReadFrom
<1>10. CASE Fetch
  <2>1. /\ timer /\ timer' = FALSE /\ UNCHANGED <<clock, hookVars, at, session, window, readers, known>>
    BY <1>10 DEF Fetch
  <2>2. CASE at = Live
    <3>1. UNCHANGED fetches /\ waiting' = waiting
      BY <1>10, <2>2 DEF Fetch
    <3> QED BY <2>1, <2>2, <3>1 DEF Asked, ShownOrAwaited, ReadFrom, hookVars
  <2>3. CASE at # Live
    <3>1. /\ waiting' = {} /\ at \in Nat
          /\ fetches' = fetches \cup IF at < StartOf[session] THEN {}
                                    ELSE {[track |-> k, at |-> at] : k \in waiting}
      BY <1>10, <2>3 DEF Fetch, Spots
    <3>2. \A f \in fetches' \ fetches :
             f.track \in waiting /\ f.at = at /\ f \in [track : Tracks, at : {Older} \cup Nat]
      BY <3>1
    <3>3. PlaybackTypes'
      BY <2>1, <3>1, <3>2 DEF hookVars
    <3>4. Asked'
      BY <2>1, <3>1, <3>2 DEF Asked
    <3>5. ShownOrAwaited'
      BY <2>1, <3>1 DEF ShownOrAwaited, ReadFrom
    <3> QED BY <2>1, <3>3, <3>4, <3>5
  <2> QED BY <2>2, <2>3
<1>11. ASSUME NEW g \in fetches, Lands(g)
       PROVE  ScrubInv' /\ Own
  <2>1. /\ fetches' = fetches \ {g}
        /\ UNCHANGED <<clock, hookVars, at, session, waiting, timer, readers, known>>
    BY <1>11 DEF Lands
  <2>2. g.track \in Tracks /\ g.at \in {Older} \cup Nat /\ g = [track |-> g.track, at |-> g.at]
    OBVIOUS
  <2>3. CASE g.at = Older
    <3>1. window' = window
      BY <1>11, <2>3 DEF Lands
    <3>2. ShownOrAwaited'
      BY <1>0, <2>1, <2>3, <3>1 DEF ShownOrAwaited, ReadFrom, Spots
    <3> QED BY <2>1, <3>1, <3>2 DEF Asked, hookVars
  <2>4. CASE g.at # Older
    <3>1. window' = [window EXCEPT ![g.track] = at] /\ g.at = at /\ at \in Nat
      BY <1>11, <2>2, <2>4 DEF Lands, Asked
    <3>2. PlaybackTypes'
      BY <2>1, <2>2, <3>1 DEF hookVars
    <3>3. Asked'
      BY <2>1, <2>2, <3>1 DEF Asked
    <3>4. ShownOrAwaited'
      BY <2>1, <2>2, <3>1 DEF ShownOrAwaited, ReadFrom
    <3> QED BY <2>1, <3>1, <3>2, <3>3, <3>4
  <2> QED BY <2>3, <2>4
<1> QED
  <2>1. CASE PlaybackNext
    BY <1>2, <1>3, <1>4, <1>6, <1>7, <1>8, <1>9, <1>10, <1>11, <2>1 DEF PlaybackNext
  <2> QED BY <1>1, <2>1

LEMMA ScrubInit == PlaybackInit => ScrubInv
<1> SUFFICES ASSUME PlaybackInit PROVE ScrubInv
  OBVIOUS
<1>1. PlaybackTypes
  BY DEF PlaybackInit, PlaybackTypes, Spots
<1>2. Asked
  BY DEF PlaybackInit, Asked
<1>3. ShownOrAwaited
  BY DEF PlaybackInit, ShownOrAwaited
<1> QED BY <1>1, <1>2, <1>3 DEF ScrubInv

\* A window is of the position shown, or its fetch is still to come.
THEOREM ShownOrAwaitedHolds == PlaybackSpec => []ShownOrAwaited
<1>1. ScrubInv => ShownOrAwaited
  BY DEF ScrubInv
<1> QED BY <1>1, ScrubInit, ScrubStep, PTL DEF PlaybackSpec

\* No answer to an earlier question reaches a panel.
THEOREM NoAnswerIsLate == PlaybackSpec => NoLateAnswer
<1> DEFINE Own == \A k \in Tracks : window'[k] \in {window[k], NoWindow, at'}
<1>1. ScrubInv /\ [PlaybackNext]_playbackVars => [Own]_playbackVars
  BY ScrubStep
<1> QED BY <1>1, ScrubInit, ScrubStep, PTL DEF PlaybackSpec, NoLateAnswer

-----------------------------------------------------------------------------
(* The rig's events and their toasts (EventLog).                           *)

Rising(s) == \A j, k \in DOMAIN s : j < k => s[j] < s[k]
LastOf(s) == s[Len(s)]
LogPlaces == 1..Len(log)

\* The numbers of a finite set of places are 1, 2, ... in the order of the places.
LEMMA NthOfPlaces ==
    ASSUME NEW n \in Nat, NEW kept, kept \subseteq 1..n, NEW k \in 1..Cardinality(kept)
    PROVE  \E i \in kept : Rank(kept, i) = k
  <1> DEFINE upTo(i) == {j \in kept : j <= i}
             R == [i \in kept |-> Cardinality(upTo(i))]
             C == Cardinality(kept)
  <1>1. IsFiniteSet(kept) /\ C \in Nat
    <2>1. IsFiniteSet(1..n)
      BY FS_Interval
    <2> QED BY <2>1, FS_Subset, FS_CardinalityType
  <1>2. \A i \in kept : IsFiniteSet(upTo(i)) /\ Cardinality(upTo(i)) \in 1..C
    <2> SUFFICES ASSUME NEW i \in kept
                 PROVE  IsFiniteSet(upTo(i)) /\ Cardinality(upTo(i)) \in 1..C
      OBVIOUS
    <2>0. i \in Nat
      OBVIOUS
    <2>1. upTo(i) \subseteq kept /\ i \in upTo(i)
      BY <2>0
    <2>2. IsFiniteSet(upTo(i)) /\ Cardinality(upTo(i)) <= C /\ Cardinality(upTo(i)) \in Nat
      BY <1>1, <2>1, FS_Subset, FS_CardinalityType
    <2>3. Cardinality(upTo(i)) # 0
      BY <2>1, <2>2, FS_EmptySet
    <2> QED BY <1>1, <2>2, <2>3
  <1>3. \A i, m \in kept : i < m => Cardinality(upTo(i)) # Cardinality(upTo(m))
    <2> SUFFICES ASSUME NEW i \in kept, NEW m \in kept, i < m
                 PROVE  Cardinality(upTo(i)) # Cardinality(upTo(m))
      OBVIOUS
    <2>0. i \in Nat /\ m \in Nat /\ \A j \in kept : j \in Nat
      OBVIOUS
    <2>1. upTo(i) \subseteq upTo(m)
      <3>1. \A j \in kept : j <= i => j <= m
        BY <2>0
      <3> QED BY <3>1
    <2>2. m \in upTo(m) /\ m \notin upTo(i)
      BY <2>0
    <2>3. upTo(i) # upTo(m) /\ upTo(i) \in SUBSET upTo(m)
      BY <2>1, <2>2
    <2> HIDE DEF upTo
    <2> QED BY <1>2, <2>3, FS_Subset
  <1>4. R \in Injection(kept, 1..C)
    <2>1. \A i, m \in kept : R[i] = R[m] => i = m
      BY <1>3
    <2>2. R \in [kept -> 1..C]
      BY <1>2
    <2> QED BY <2>1, <2>2 DEF Injection, IsInjective
  <1>5. IsFiniteSet(1..C) /\ Cardinality(1..C) = C
    BY <1>1, FS_Interval
  <1>6. R \in Surjection(kept, 1..C)
    <2> HIDE DEF R
    <2> QED BY <1>4, <1>5, FS_Injection
  <1>7. \E i \in kept : R[i] = k
    BY <1>6 DEF Surjection
  <1> QED BY <1>7 DEF Rank

\* A filter gives members of the list that were kept, in their order.
LEMMA FilterKeepsOrder ==
    ASSUME NEW S, NEW s \in Seq(S), NEW kept, kept \subseteq DOMAIN s
    PROVE  /\ Filtered(s, kept) \in Seq(S)
           /\ \A a \in DOMAIN Filtered(s, kept) : \E i \in kept : Filtered(s, kept)[a] = s[i]
           /\ \A a, b \in DOMAIN Filtered(s, kept) : a < b =>
                 \E i, j \in kept : i < j /\ Filtered(s, kept)[a] = s[i] /\ Filtered(s, kept)[b] = s[j]
  <1> DEFINE nth(k) == CHOOSE i \in kept : Rank(kept, i) = k
             C == Cardinality(kept)
  <1>0. Len(s) \in Nat /\ kept \subseteq 1..Len(s) /\ C \in Nat
    <2>1. IsFiniteSet(1..Len(s))
      BY FS_Interval
    <2> QED BY <2>1, FS_Subset, FS_CardinalityType
  <1>1. \A k \in 1..C : nth(k) \in kept /\ Rank(kept, nth(k)) = k
    <2> SUFFICES ASSUME NEW k \in 1..C
                 PROVE  nth(k) \in kept /\ Rank(kept, nth(k)) = k
      OBVIOUS
    <2>1. \E i \in kept : Rank(kept, i) = k
      <3> HIDE DEF nth
      <3> QED BY <1>0, NthOfPlaces
    <2> QED BY <2>1
  <1>2. Filtered(s, kept) = [k \in 1..C |-> s[nth(k)]]
    BY DEF Filtered
  <1>5. \A k \in 1..C : nth(k) \in 1..Len(s)
    BY <1>0, <1>1
  <1> HIDE DEF nth
  <1>3. \A a, b \in 1..C : a < b => nth(a) < nth(b)
    <2> SUFFICES ASSUME NEW a \in 1..C, NEW b \in 1..C, a < b, nth(b) <= nth(a)
                 PROVE  FALSE
      BY <1>0, <1>5
    <2>1. {j \in kept : j <= nth(b)} \subseteq {j \in kept : j <= nth(a)}
      BY <1>0, <1>5
    <2>2. IsFiniteSet({j \in kept : j <= nth(a)})
      <3>1. IsFiniteSet(1..Len(s))
        BY FS_Interval
      <3> QED BY <1>0, <3>1, FS_Subset
    <2>3. Cardinality({j \in kept : j <= nth(b)}) <= Cardinality({j \in kept : j <= nth(a)})
      BY <2>1, <2>2, FS_Subset
    <2>4. b <= a
      BY <1>1, <2>3 DEF Rank
    <2> QED BY <1>0, <2>4
  <1>4. \A k \in 1..C : s[nth(k)] \in S
    BY <1>5
  <1> DEFINE u == [k \in 1..C |-> s[nth(k)]]
  <1>6. u \in Seq(S) /\ DOMAIN u = 1..C /\ \A k \in 1..C : u[k] = s[nth(k)]
    BY <1>0, <1>4
  <1> HIDE DEF u
  <1>7. \A a \in 1..C : \E i \in kept : u[a] = s[i]
    BY <1>1, <1>6
  <1>8. \A a, b \in 1..C : a < b => \E i, j \in kept : i < j /\ u[a] = s[i] /\ u[b] = s[j]
    BY <1>1, <1>3, <1>6
  <1>9. Filtered(s, kept) = u
    BY <1>2 DEF u
  <1> QED BY <1>6, <1>7, <1>8, <1>9

\* A filter of a rising list of numbers rises.
LEMMA FilterRises ==
    ASSUME NEW S \in SUBSET Nat, NEW s \in Seq(S), Rising(s), NEW kept, kept \subseteq DOMAIN s
    PROVE  Rising(Filtered(s, kept))
  BY FilterKeepsOrder DEF Rising

\* The last so many of a list: its end, in order, whole if it is short.
LEMMA LastOnes ==
    ASSUME NEW S \in SUBSET Nat, NEW s \in Seq(S), NEW n \in Nat \ {0}
    PROVE  /\ LastN(s, n) \in Seq(S)
           /\ Rising(s) => Rising(LastN(s, n))
           /\ s # <<>> => LastN(s, n) # <<>> /\ LastOf(LastN(s, n)) = LastOf(s)
  <1>0. Len(s) \in Nat /\ DOMAIN s = 1..Len(s)
    OBVIOUS
  <1>1. CASE Len(s) > n
    <2> DEFINE u == SubSeq(s, Len(s) - n + 1, Len(s))
    <2>1. u \in Seq(S) /\ Len(u) = n /\ \A i \in 1..n : u[i] = s[Len(s) - n + i]
      BY SMTT(30), <1>0, <1>1
    <2>2. LastN(s, n) = u
      BY <1>1 DEF LastN
    <2> HIDE DEF u
    <2>3. Rising(s) => Rising(u)
      <3> SUFFICES ASSUME Rising(s), NEW j \in 1..n, NEW k \in 1..n, j < k PROVE u[j] < u[k]
        BY <2>1 DEF Rising
      <3>1. /\ Len(s) - n + j \in DOMAIN s /\ Len(s) - n + k \in DOMAIN s
            /\ Len(s) - n + j < Len(s) - n + k
        BY <1>0, <1>1
      <3> QED BY <2>1, <3>1 DEF Rising
    <2>4. u # <<>> /\ LastOf(u) = LastOf(s)
      BY <1>0, <2>1 DEF LastOf
    <2> QED BY <2>1, <2>2, <2>3, <2>4
  <1>2. CASE ~(Len(s) > n)
    BY <1>2 DEF LastN
  <1> QED BY <1>1, <1>2

LEMMA JoinedRises ==
    ASSUME NEW S \in SUBSET Nat, NEW s \in Seq(S), NEW u \in Seq(S), Rising(s), Rising(u),
           \A j \in DOMAIN s, k \in DOMAIN u : s[j] < u[k]
    PROVE  /\ s \o u \in Seq(S) /\ Rising(s \o u)
           /\ u # <<>> => s \o u # <<>> /\ LastOf(s \o u) = LastOf(u)
           /\ u = <<>> => s \o u = s
  <1> DEFINE w == s \o u
             m == Len(s)
             n == Len(u)
  <1>1. w \in Seq(S) /\ Len(w) = m + n /\ \A i \in 1..m + n : w[i] = IF i <= m THEN s[i] ELSE u[i - m]
    BY ConcatProperties
  <1>2. m \in Nat /\ n \in Nat /\ DOMAIN s = 1..m /\ DOMAIN u = 1..n
    OBVIOUS
  <1> HIDE DEF w, m, n
  <1>3. Rising(w)
    <2> SUFFICES ASSUME NEW i \in 1..m + n, NEW k \in 1..m + n, i < k PROVE w[i] < w[k]
      BY <1>1 DEF Rising
    <2>1. CASE k <= m
      <3>1. i \in 1..m /\ k \in 1..m
        BY <1>2, <2>1
      <3>2. w[i] = s[i] /\ w[k] = s[k]
        BY <1>1, <2>1, <3>1
      <3> QED BY <1>2, <3>1, <3>2 DEF Rising
    <2>2. CASE i > m
      <3>1. i - m \in 1..n /\ k - m \in 1..n /\ i - m < k - m /\ ~(i <= m) /\ ~(k <= m)
        BY <1>2, <2>2
      <3>2. w[i] = u[i - m] /\ w[k] = u[k - m]
        BY <1>1, <3>1
      <3> QED BY <1>2, <3>1, <3>2 DEF Rising
    <2>3. CASE i <= m /\ k > m
      <3>1. i \in 1..m /\ k - m \in 1..n /\ ~(k <= m)
        BY <1>2, <2>3
      <3> QED BY <1>1, <1>2, <2>3, <3>1
    <2> QED BY <1>2, <2>1, <2>2, <2>3
  <1>4. u # <<>> => w # <<>> /\ LastOf(w) = LastOf(u)
    <2> SUFFICES ASSUME u # <<>> PROVE w # <<>> /\ LastOf(w) = LastOf(u)
      OBVIOUS
    <2>1. n > 0 /\ m + n \in 1..m + n /\ ~(m + n <= m) /\ (m + n) - m = n
      BY <1>2 DEF n
    <2>2. w[m + n] = u[n] /\ w # <<>>
      BY <1>1, <1>2, <2>1
    <2> QED BY <1>1, <2>2 DEF LastOf, n
  <1>5. u = <<>> => w = s
    BY DEF w
  <1> QED BY <1>1, <1>3, <1>4, <1>5 DEF w

LogOK ==
    /\ log \in Seq([time : Nat, notable : BOOLEAN])
    /\ \A i, j \in LogPlaces : i <= j => Time(i) <= Time(j)
    /\ sent \in 0..Len(log)

\* The list is of the log, in its order.
ListOK == eventList \in Seq(LogPlaces) /\ Rising(eventList)

\* What has been shown as a toast lies between what the hook saw first and what it saw
\* last, and the list never ends before that.
ToastsOK ==
    /\ lastKey \in Nat /\ mountedAt \in Nat /\ mountedAt <= lastKey
    /\ lastKey # 0 => eventList # <<>> /\ lastKey <= LastOf(eventList)
    /\ toasts \in Seq(Nat) /\ Rising(toasts)
    /\ \A k \in DOMAIN toasts : mountedAt < toasts[k] /\ toasts[k] <= lastKey

NInv == LogOK /\ ListOK /\ ToastsOK

LEMMA LastIsThere ==
    ASSUME NEW S, NEW s \in Seq(S), s # <<>>
    PROVE  Len(s) \in DOMAIN s /\ LastOf(s) \in S
  BY DEF LastOf

LEMMA TimesAreNumbers == NInv => \A i \in LogPlaces : Time(i) \in Nat
  <1> SUFFICES ASSUME NInv, NEW i \in LogPlaces PROVE Time(i) \in Nat
    OBVIOUS
  <1> DEFINE Event == [time : Nat, notable : BOOLEAN]
  <1>1. log[i] \in Event
    <2>1. log \in Seq(Event) /\ i \in 1..Len(log)
      BY DEF NInv, LogOK, LogPlaces
    <2> HIDE DEF Event
    <2> QED BY <2>1, ElementOfSeq
  <1> QED BY <1>1 DEF Time

LEMMA NInvInit == EventsInit => NInv
  <1> SUFFICES ASSUME EventsInit PROVE NInv
    OBVIOUS
  <1>1. log \in Seq([time : Nat, notable : BOOLEAN]) /\ Len(log) = 0
    BY DEF EventsInit
  <1>2. LogOK
    BY <1>1 DEF EventsInit, LogOK, LogPlaces
  <1>3. ListOK
    BY DEF EventsInit, ListOK, Rising
  <1>4. ToastsOK
    BY DEF EventsInit, ToastsOK, Rising
  <1> QED BY <1>2, <1>3, <1>4 DEF NInv

\* Another list of the log that ends no earlier keeps what is known of the toasts.
LEMMA LongerListKeeps ==
    ASSUME NInv, UNCHANGED <<log, unreadVars>>, sent' \in 0..Len(log),
           eventList' \in Seq(LogPlaces), Rising(eventList'),
           eventList # <<>> => eventList' # <<>> /\ LastOf(eventList) <= LastOf(eventList')
    PROVE  NInv'
  <1>1. UNCHANGED <<log, lastKey, mountedAt, toasts>>
    BY DEF unreadVars
  <1>2. LogOK' /\ LogPlaces' = LogPlaces
    BY <1>1 DEF NInv, LogOK, LogPlaces, Time
  <1>3. ListOK'
    BY <1>2 DEF ListOK, Rising
  <1>4. eventList # <<>> => LastOf(eventList) \in Nat /\ LastOf(eventList') \in Nat
    <2>1. eventList \in Seq(Nat) /\ eventList' \in Seq(Nat)
      BY DEF NInv, ListOK, LogPlaces
    <2> QED BY <2>1 DEF LastOf
  <1>5. ToastsOK'
    BY <1>1, <1>4 DEF NInv, ToastsOK, Rising, LastOf
  <1> QED BY <1>2, <1>3, <1>5 DEF NInv

\* What the socket brings goes after the list, and only what is newer than its end.
LEMMA OnEventsKeeps ==
    ASSUME NInv, NEW events \in Seq(LogPlaces), Rising(events), OnEvents(events)
    PROVE  /\ eventList' \in Seq(LogPlaces) /\ Rising(eventList')
           /\ eventList # <<>> => eventList' # <<>> /\ LastOf(eventList) <= LastOf(eventList')
  <1> DEFINE last == IF eventList = <<>> THEN 0 ELSE Time(eventList[Len(eventList)])
             kept == {k \in DOMAIN events : Time(events[k]) > last}
             fresh == Filtered(events, kept)
             united == eventList \o fresh
  <1>1. eventList' = LastN(united, EventCap)
    BY DEF OnEvents
  <1>2. eventList \in Seq(LogPlaces) /\ Rising(eventList) /\ LogPlaces \in SUBSET Nat
    BY DEF NInv, ListOK, LogPlaces
  <1>3. /\ fresh \in Seq(LogPlaces) /\ Rising(fresh)
        /\ \A b \in DOMAIN fresh : \E k \in kept : fresh[b] = events[k]
    <2>1. kept \subseteq DOMAIN events
      OBVIOUS
    <2> HIDE DEF kept
    <2> QED BY <1>2, <2>1, FilterKeepsOrder, FilterRises
  <1>4. ASSUME NEW j \in DOMAIN eventList, NEW b \in DOMAIN fresh
        PROVE  eventList[j] < fresh[b]
    <2>1. PICK k \in kept : fresh[b] = events[k]
      BY <1>3
    <2> DEFINE n == Len(eventList)
    <2>2. n \in DOMAIN eventList /\ (j = n \/ eventList[j] < eventList[n]) /\ eventList # <<>>
      BY <1>2 DEF Rising
    <2>3. eventList[n] \in LogPlaces /\ eventList[j] \in LogPlaces /\ events[k] \in LogPlaces
      BY <1>2, <2>2
    <2>4. Time(events[k]) > Time(eventList[n])
      BY <2>2
    <2>5. Time(events[k]) \in Nat /\ Time(eventList[n]) \in Nat
      BY <2>3, TimesAreNumbers
    <2>6. ~(events[k] <= eventList[n])
      BY <2>3, <2>4, <2>5 DEF NInv, LogOK
    <2> QED BY <2>1, <2>2, <2>3, <2>6 DEF LogPlaces
  <1> HIDE DEF fresh
  <1>5. /\ united \in Seq(LogPlaces) /\ Rising(united)
        /\ fresh # <<>> => united # <<>> /\ LastOf(united) = LastOf(fresh)
        /\ fresh = <<>> => united = eventList
    BY <1>2, <1>3, <1>4, JoinedRises
  <1>6. eventList # <<>> => united # <<>> /\ LastOf(eventList) <= LastOf(united)
    <2> SUFFICES ASSUME eventList # <<>>
                 PROVE  united # <<>> /\ LastOf(eventList) <= LastOf(united)
      OBVIOUS
    <2>1. Len(eventList) \in DOMAIN eventList /\ LastOf(eventList) \in Nat
      BY <1>2, LastIsThere
    <2>2. CASE fresh = <<>>
      BY <1>5, <2>1, <2>2
    <2>3. CASE fresh # <<>>
      <3>1. Len(fresh) \in DOMAIN fresh /\ LastOf(fresh) \in Nat
        BY <1>2, <1>3, <2>3, LastIsThere
      <3>2. LastOf(eventList) < LastOf(fresh)
        BY <1>4, <2>1, <3>1 DEF LastOf
      <3> QED BY <1>5, <2>1, <2>3, <3>1, <3>2
    <2> QED BY <2>2, <2>3
  <1> HIDE DEF united
  <1>7. EventCap \in Nat \ {0}
    BY EventBounds
  <1> QED BY <1>1, <1>2, <1>5, <1>6, <1>7, LastOnes

\* The answer to the one request goes before the list, and only what is older.
LEMMA SeedLandsKeeps == NInv /\ SeedLands => NInv'
  <1> SUFFICES ASSUME NInv, SeedLands PROVE NInv'
    OBVIOUS
  <1> DEFINE first == IF eventList = <<>> THEN MaxEvents + 1 ELSE Time(eventList[1])
  <1>1. PICK upto \in 0..Len(log) :
           LET answer == LastN([k \in 1..upto |-> k], Recent)
               older == Filtered(answer, {k \in DOMAIN answer : Time(answer[k]) < first})
           IN eventList' = LastN(older \o eventList, EventCap)
    BY DEF SeedLands
  <1> DEFINE asked == [k \in 1..upto |-> k]
             answer == LastN(asked, Recent)
             kept == {k \in DOMAIN answer : Time(answer[k]) < first}
             older == Filtered(answer, kept)
             united == older \o eventList
  <1>2. eventList' = LastN(united, EventCap)
    BY <1>1
  <1>3. eventList \in Seq(LogPlaces) /\ Rising(eventList) /\ LogPlaces \in SUBSET Nat /\ Len(log) \in Nat
    BY DEF NInv, ListOK, LogOK, LogPlaces
  <1>4. EventCap \in Nat \ {0} /\ Recent \in Nat \ {0}
    BY EventBounds
  <1>5. asked \in Seq(LogPlaces) /\ Rising(asked)
    BY <1>3 DEF LogPlaces, Rising
  <1> HIDE DEF asked
  <1>6. answer \in Seq(LogPlaces) /\ Rising(answer)
    BY <1>3, <1>4, <1>5, LastOnes
  <1> HIDE DEF answer
  <1>7. /\ older \in Seq(LogPlaces) /\ Rising(older)
        /\ \A b \in DOMAIN older : \E k \in kept : older[b] = answer[k]
    <2>1. kept \subseteq DOMAIN answer
      OBVIOUS
    <2> HIDE DEF kept
    <2> QED BY <1>3, <1>6, <2>1, FilterKeepsOrder, FilterRises
  <1>8. ASSUME NEW b \in DOMAIN older, NEW j \in DOMAIN eventList
        PROVE  older[b] < eventList[j]
    <2>1. PICK k \in kept : older[b] = answer[k]
      BY <1>7
    <2>2. 1 \in DOMAIN eventList /\ (j = 1 \/ eventList[1] < eventList[j]) /\ eventList # <<>>
      BY <1>3 DEF Rising
    <2>3. eventList[1] \in LogPlaces /\ eventList[j] \in LogPlaces /\ answer[k] \in LogPlaces
      BY <1>3, <1>6, <2>2
    <2>4. Time(answer[k]) < Time(eventList[1])
      BY <2>2
    <2>5. Time(answer[k]) \in Nat /\ Time(eventList[1]) \in Nat
      BY <2>3, TimesAreNumbers
    <2>6. ~(eventList[1] <= answer[k])
      BY <2>3, <2>4, <2>5 DEF NInv, LogOK
    <2> QED BY <2>1, <2>2, <2>3, <2>6 DEF LogPlaces
  <1> HIDE DEF older
  <1>9. /\ united \in Seq(LogPlaces) /\ Rising(united)
        /\ eventList # <<>> => united # <<>> /\ LastOf(united) = LastOf(eventList)
    BY <1>3, <1>7, <1>8, JoinedRises
  <1> HIDE DEF united
  <1>10. /\ eventList' \in Seq(LogPlaces) /\ Rising(eventList')
         /\ eventList # <<>> => eventList' # <<>> /\ LastOf(eventList') = LastOf(eventList)
    BY <1>2, <1>3, <1>4, <1>9, LastOnes
  <1>11. eventList # <<>> => LastOf(eventList) \in Nat
    BY <1>3, LastIsThere
  <1>12. UNCHANGED <<log, sent, unreadVars>>
    BY DEF SeedLands
  <1>13. sent' \in 0..Len(log)
    BY <1>12 DEF NInv, LogOK
  <1> QED BY <1>10, <1>11, <1>12, <1>13, LongerListKeeps

\* What was rendered as fresh comes after the last event seen, which is still listed.
LEMMA FreshIsNewer ==
    ASSUME NInv
    PROVE  /\ Fresh \in Seq(Nat) /\ Rising(Fresh)
           /\ Fresh # <<>> => lastKey # 0
           /\ \A k \in DOMAIN Fresh : lastKey < Fresh[k] /\ Fresh[k] <= LastOf(eventList)
  <1>0. eventList \in Seq(Nat) /\ Rising(eventList) /\ lastKey \in Nat
    BY DEF NInv, ListOK, LogPlaces, ToastsOK
  <1>1. CASE lastKey # 0 /\ Contains(eventList, lastKey)
    <2> DEFINE place == CHOOSE k \in DOMAIN eventList : eventList[k] = lastKey
               n == Len(eventList)
               u == SubSeq(eventList, place + 1, n)
    <2>1. place \in DOMAIN eventList /\ eventList[place] = lastKey
      BY <1>1 DEF Contains
    <2>2. Fresh = u
      BY <1>1 DEF Fresh, AfterLast
    <2> HIDE DEF place
    <2>3. place \in 1..n /\ n \in Nat
      BY <1>0, <2>1
    <2>4. u \in Seq(Nat) /\ Len(u) = n - place /\ \A k \in 1..n - place : u[k] = eventList[place + k]
      <3>1. place + 1 \in Int /\ n \in Int /\ \A k \in place + 1..n : eventList[k] \in Nat
        BY <1>0, <2>3
      <3>2. /\ u \in Seq(Nat)
            /\ Len(u) = IF place + 1 <= n THEN n - (place + 1) + 1 ELSE 0
            /\ \A k \in 1..n - (place + 1) + 1 : u[k] = eventList[place + 1 + k - 1]
        BY <3>1, SubSeqProperties
      <3> HIDE DEF u
      <3> QED BY <2>3, <3>2
    <2> HIDE DEF u
    <2>5. \A k \in 1..n - place : place + k \in DOMAIN eventList /\ place < place + k
      BY <1>0, <2>3
    <2>6. Rising(u)
      <3> SUFFICES ASSUME NEW j \in 1..n - place, NEW k \in 1..n - place, j < k PROVE u[j] < u[k]
        BY <2>4 DEF Rising
      <3>1. place + j < place + k
        BY <2>3
      <3> QED BY <1>0, <2>4, <2>5, <3>1 DEF Rising
    <2>7. ASSUME NEW k \in 1..n - place PROVE lastKey < u[k] /\ u[k] <= LastOf(eventList)
      <3>1. lastKey < eventList[place + k]
        BY <1>0, <2>1, <2>5 DEF Rising
      <3>2. n \in DOMAIN eventList /\ (place + k < n \/ place + k = n)
        BY <1>0, <2>3
      <3>3. eventList[place + k] <= eventList[n]
        <4>1. eventList[place + k] \in Nat /\ eventList[n] \in Nat
          BY <1>0, <2>5, <3>2
        <4> QED BY <1>0, <2>5, <3>2, <4>1 DEF Rising
      <3> QED BY <2>4, <3>1, <3>3 DEF LastOf
    <2> QED BY <1>1, <2>2, <2>4, <2>6, <2>7
  <1>2. CASE ~(lastKey # 0 /\ Contains(eventList, lastKey))
    <2>1. Fresh = <<>>
      BY <1>2 DEF Fresh
    <2> QED BY <2>1 DEF Rising
  <1> QED BY <1>1, <1>2

LEMMA RendersKeeps == NInv /\ Renders => NInv'
  <1> SUFFICES ASSUME NInv, Renders PROVE NInv'
    OBVIOUS
  <1> DEFINE kept == {k \in DOMAIN Fresh : log[Fresh[k]].notable}
             new == Filtered(Fresh, kept)
  <1>1. /\ toasts' = toasts \o new /\ lastKey' = LastOf(eventList) /\ eventList # <<>>
        /\ mountedAt' = IF lastKey = 0 THEN LastOf(eventList) ELSE mountedAt
        /\ UNCHANGED <<log, sent, eventList>>
    BY DEF Renders, LastOf
  <1>2. /\ Fresh \in Seq(Nat) /\ Rising(Fresh)
        /\ Fresh # <<>> => lastKey # 0
        /\ \A k \in DOMAIN Fresh : lastKey < Fresh[k] /\ Fresh[k] <= LastOf(eventList)
    BY FreshIsNewer
  <1>3. /\ new \in Seq(Nat) /\ Rising(new)
        /\ \A b \in DOMAIN new : \E k \in kept : new[b] = Fresh[k]
    <2>1. kept \subseteq DOMAIN Fresh
      OBVIOUS
    <2> HIDE DEF kept
    <2> QED BY <1>2, <2>1, FilterKeepsOrder, FilterRises
  <1>4. \A b \in DOMAIN new : lastKey < new[b] /\ new[b] <= LastOf(eventList) /\ lastKey # 0
    <2>1. \A k \in kept : k \in DOMAIN Fresh /\ Fresh # <<>>
      BY <1>2
    <2> QED BY <1>2, <1>3, <2>1
  <1> HIDE DEF new
  <1>5. /\ lastKey \in Nat /\ mountedAt \in Nat /\ mountedAt <= lastKey
        /\ toasts \in Seq(Nat) /\ Rising(toasts)
        /\ \A k \in DOMAIN toasts : mountedAt < toasts[k] /\ toasts[k] <= lastKey /\ toasts[k] \in Nat
    BY DEF NInv, ToastsOK
  <1>6. LastOf(eventList) \in Nat /\ lastKey <= LastOf(eventList)
    <2>1. eventList \in Seq(Nat)
      BY DEF NInv, ListOK, LogPlaces
    <2> QED BY <1>1, <1>5, <2>1 DEF NInv, ToastsOK, LastOf
  <1>7. \A j \in DOMAIN toasts, b \in DOMAIN new : toasts[j] < new[b]
    <2>1. \A b \in DOMAIN new : new[b] \in Nat
      BY <1>3
    <2> QED BY <1>4, <1>5, <2>1
  <1>8. toasts' \in Seq(Nat) /\ Rising(toasts')
    BY <1>1, <1>3, <1>5, <1>7, JoinedRises
  <1>9. ASSUME NEW k \in DOMAIN toasts'
        PROVE  mountedAt' < toasts'[k] /\ toasts'[k] <= lastKey'
    <2>1. \/ \E j \in DOMAIN toasts : toasts'[k] = toasts[j]
          \/ \E b \in DOMAIN new : toasts'[k] = new[b]
      <3>1. /\ Len(toasts \o new) = Len(toasts) + Len(new)
            /\ \A i \in 1..Len(toasts) + Len(new) : (toasts \o new)[i] =
                  IF i <= Len(toasts) THEN toasts[i] ELSE new[i - Len(toasts)]
        BY <1>3, <1>5, ConcatProperties
      <3>2. k \in 1..Len(toasts) + Len(new) /\ Len(toasts) \in Nat /\ Len(new) \in Nat
        BY <1>1, <1>3, <1>5, <1>8, <3>1
      <3>3. CASE k <= Len(toasts)
        BY <1>1, <1>5, <3>1, <3>2, <3>3
      <3>4. CASE k > Len(toasts)
        <4>1. k - Len(toasts) \in 1..Len(new) /\ ~(k <= Len(toasts))
          BY <3>2, <3>4
        <4> QED BY <1>1, <1>3, <3>1, <3>2, <4>1
      <3> QED BY <3>2, <3>3, <3>4
    <2>2. CASE \E j \in DOMAIN toasts : toasts'[k] = toasts[j]
      <3>1. PICK j \in DOMAIN toasts : toasts'[k] = toasts[j]
        BY <2>2
      <3>2. lastKey # 0
        BY <1>5
      <3> QED BY <1>1, <1>5, <1>6, <3>1, <3>2
    <2>3. CASE \E b \in DOMAIN new : toasts'[k] = new[b]
      <3>1. PICK b \in DOMAIN new : toasts'[k] = new[b]
        BY <2>3
      <3>2. new[b] \in Nat
        BY <1>3
      <3> QED BY <1>1, <1>4, <1>5, <3>1, <3>2
    <2> QED BY <2>1, <2>2, <2>3
  <1>10. ToastsOK'
    <2>1. mountedAt' \in Nat /\ mountedAt' <= lastKey' /\ lastKey' \in Nat
      BY <1>1, <1>5, <1>6
    <2>2. eventList' # <<>> /\ lastKey' <= LastOf(eventList')
      BY <1>1, <1>6 DEF LastOf
    <2> QED BY <1>8, <1>9, <2>1, <2>2 DEF ToastsOK, Rising
  <1>11. LogOK' /\ ListOK'
    BY <1>1 DEF NInv, LogOK, ListOK, LogPlaces, Time, Rising
  <1> QED BY <1>10, <1>11 DEF NInv

LEMMA DismissKeeps == NInv /\ DismissToast => NInv'
  <1> SUFFICES ASSUME NInv, DismissToast PROVE NInv'
    OBVIOUS
  <1>1. toasts # <<>> /\ toasts' = Tail(toasts) /\ UNCHANGED <<log, sent, eventList, lastKey, mountedAt>>
    BY DEF DismissToast
  <1>2. toasts \in Seq(Nat)
    BY DEF NInv, ToastsOK
  <1>3. /\ toasts' \in Seq(Nat) /\ DOMAIN toasts' = 1..Len(toasts) - 1
        /\ \A k \in 1..Len(toasts) - 1 : toasts'[k] = toasts[k + 1] /\ k + 1 \in DOMAIN toasts
    BY <1>1, <1>2
  <1>4. Rising(toasts')
    <2> SUFFICES ASSUME NEW j \in 1..Len(toasts) - 1, NEW k \in 1..Len(toasts) - 1, j < k
                 PROVE  toasts'[j] < toasts'[k]
      BY <1>3 DEF Rising
    <2>1. j + 1 < k + 1
      OBVIOUS
    <2> QED BY <1>3, <2>1 DEF NInv, ToastsOK, Rising
  <1>5. ToastsOK'
    BY <1>1, <1>3, <1>4 DEF NInv, ToastsOK, LastOf, Rising
  <1> QED BY <1>1, <1>5 DEF NInv, LogOK, ListOK, LogPlaces, Time, Rising

LEMMA HappensKeeps == NInv /\ Happens => NInv'
  <1> SUFFICES ASSUME NInv, Happens PROVE NInv'
    OBVIOUS
  <1>1. PICK notable \in BOOLEAN, gap \in {0, 1} :
           log' = Append(log, [time |-> IF log = <<>> THEN 1 ELSE log[Len(log)].time + gap,
                               notable |-> notable])
    BY DEF Happens
  <1> DEFINE stamp == IF log = <<>> THEN 1 ELSE log[Len(log)].time + gap
             event == [time |-> stamp, notable |-> notable]
             n == Len(log)
  <1>2. log \in Seq([time : Nat, notable : BOOLEAN]) /\ n \in Nat
    BY DEF NInv, LogOK
  <1>3. /\ stamp \in Nat
        /\ \A i \in 1..n : Time(i) <= stamp /\ Time(i) \in Nat
    <2>1. \A i \in 1..n : log[i].time \in Nat
      BY TimesAreNumbers DEF Time, LogPlaces
    <2>2. log # <<>> => n \in 1..n /\ \A i \in 1..n : Time(i) <= Time(n)
      BY <1>2 DEF NInv, LogOK, LogPlaces
    <2>3. log = <<>> => n = 0
      OBVIOUS
    <2> QED BY <1>2, <2>1, <2>2, <2>3 DEF Time
  <1>4. event \in [time : Nat, notable : BOOLEAN]
    BY <1>3
  <1>5. log' = Append(log, event)
    BY <1>1
  <1> HIDE DEF event
  <1>6. /\ log' \in Seq([time : Nat, notable : BOOLEAN]) /\ Len(log') = n + 1
        /\ \A i \in 1..n : log'[i] = log[i]
        /\ log'[n + 1] = event
    BY <1>2, <1>4, <1>5, AppendProperties
  <1>7. \A i, j \in 1..n + 1 : i <= j => log'[i].time <= log'[j].time
    <2> SUFFICES ASSUME NEW i \in 1..n + 1, NEW j \in 1..n + 1, i <= j
                 PROVE  log'[i].time <= log'[j].time
      OBVIOUS
    <2>1. event.time = stamp
      BY DEF event
    <2>2. CASE j \in 1..n
      <3>1. i \in 1..n
        BY <1>2, <2>2
      <3> QED BY <1>6, <2>2, <3>1 DEF NInv, LogOK, LogPlaces, Time
    <2>3. CASE j = n + 1 /\ i \in 1..n
      BY <1>3, <1>6, <2>1, <2>3 DEF Time
    <2>4. CASE j = n + 1 /\ i = n + 1
      BY <1>3, <1>6, <2>1, <2>4
    <2> QED BY <1>2, <2>2, <2>3, <2>4
  <1>8. UNCHANGED <<sent, eventList, unreadVars>>
    BY DEF Happens
  <1>9. LogOK'
    BY <1>2, <1>6, <1>7, <1>8 DEF NInv, LogOK, LogPlaces, Time
  <1>10. ListOK'
    <2>1. LogPlaces \subseteq LogPlaces'
      BY <1>2, <1>6 DEF LogPlaces
    <2>2. eventList \in Seq(LogPlaces')
      BY <2>1 DEF NInv, ListOK
    <2> QED BY <1>8, <2>2 DEF NInv, ListOK, Rising
  <1>11. ToastsOK'
    BY <1>8 DEF NInv, ToastsOK, unreadVars, LastOf, Rising
  <1> QED BY <1>9, <1>10, <1>11 DEF NInv

LEMMA NInvStep == NInv /\ [EventsNext]_eventVars => NInv'
  <1> SUFFICES ASSUME NInv, [EventsNext]_eventVars PROVE NInv'
    OBVIOUS
  <1>0. log \in Seq([time : Nat, notable : BOOLEAN]) /\ Len(log) \in Nat /\ sent \in 0..Len(log)
    BY DEF NInv, LogOK
  <1>1. CASE Connects
    <2>1. Places(1) \in Seq(LogPlaces) /\ Rising(Places(1)) /\ LogPlaces \in SUBSET Nat
      <3>1. Places(1) = [k \in 1..Len(log) |-> k]
        BY <1>0 DEF Places
      <3> QED BY <1>0, <3>1 DEF Rising, LogPlaces
    <2>2. Held \in Seq(LogPlaces) /\ Rising(Held)
      BY <2>1, EventBounds, LastOnes DEF Held
    <2>3. UNCHANGED <<log, unreadVars>> /\ OnEvents(Held) /\ sent' \in 0..Len(log)
      BY <1>0, <1>1 DEF Connects
    <2> QED BY <2>2, <2>3, OnEventsKeeps, LongerListKeeps
  <1>2. CASE EventArrives
    <2>1. <<sent + 1>> \in Seq(LogPlaces) /\ Rising(<<sent + 1>>) /\ sent' \in 0..Len(log)
      BY <1>0, <1>2 DEF EventArrives, LogPlaces, Rising
    <2>2. UNCHANGED <<log, unreadVars>> /\ OnEvents(<<sent + 1>>)
      BY <1>2 DEF EventArrives
    <2> QED BY <2>1, <2>2, OnEventsKeeps, LongerListKeeps
  <1>3. CASE Disconnects \/ SeedAsked \/ SeedFails
    <2>1. UNCHANGED <<log, eventList, unreadVars>> /\ sent' \in 0..Len(log)
      BY <1>0, <1>3 DEF Disconnects, SeedAsked, SeedFails
    <2>2. eventList # <<>> => LastOf(eventList) \in Nat
      BY DEF NInv, ListOK, LogPlaces, LastOf
    <2> QED BY <2>1, <2>2, LongerListKeeps DEF NInv, ListOK, LastOf
  <1>4. CASE MarkRead \/ MarkAllRead \/ UNCHANGED eventVars
    <2>1. UNCHANGED <<log, sent, eventList, lastKey, toasts, mountedAt>>
      BY <1>4 DEF MarkRead, MarkAllRead, eventVars
    <2> QED BY <2>1 DEF NInv, LogOK, ListOK, ToastsOK, LogPlaces, Time, Rising, LastOf
  <1> QED BY <1>1, <1>2, <1>3, <1>4, HappensKeeps, SeedLandsKeeps, RendersKeeps, DismissKeeps
          DEF EventsNext

\* No event is a toast twice, and none of the backlog is one, however often the socket
\* comes back and whenever the seed's answer lands.
THEOREM ToastedOnceHolds == EventsSpec => []ToastedOnce
  <1>1. NInv => ToastedOnce
    <2> SUFFICES ASSUME NInv PROVE ToastedOnce
      OBVIOUS
    <2>1. IsInjective(toasts)
      <3>1. \A j, k \in DOMAIN toasts : j < k => toasts[j] # toasts[k]
        BY DEF NInv, ToastsOK, Rising
      <3>2. \A j, k \in DOMAIN toasts : j \in Nat /\ k \in Nat
        BY DEF NInv, ToastsOK
      <3> QED BY <3>1, <3>2 DEF IsInjective
    <2> QED BY <2>1 DEF NInv, ToastsOK, ToastedOnce
  <1> QED BY <1>1, NInvInit, NInvStep, PTL DEF EventsSpec

\* The list is in the order of time with no event twice.
THEOREM EventsAlwaysInOrder == EventsSpec => []EventsInOrder
  <1>1. NInv => EventsInOrder
    <2> SUFFICES ASSUME NInv, NEW j \in DOMAIN eventList, NEW k \in DOMAIN eventList, j < k
                 PROVE  Time(eventList[j]) <= Time(eventList[k]) /\ eventList[j] < eventList[k]
      BY DEF EventsInOrder
    <2>1. eventList[j] < eventList[k]
      BY DEF NInv, ListOK, Rising
    <2>2. eventList[j] \in LogPlaces /\ eventList[k] \in LogPlaces
      BY DEF NInv, ListOK
    <2> QED BY <2>1, <2>2 DEF NInv, LogOK, LogPlaces
  <1> QED BY <1>1, NInvInit, NInvStep, PTL DEF EventsSpec

-----------------------------------------------------------------------------
(* The ring of rows behind a chart (Ring).                                 *)

Marks == Values \cup {Nothing}

\* The rings of n slots.
RingsOf(n) == [t : [0..n - 1 -> Int], v : [0..n - 1 -> Marks], head : 0..n - 1, count : 0..n]
Rings == UNION {RingsOf(n) : n \in Initial..Cap}

\* A slot before it wraps.
Wrapped(r, i) == IF r.head + i < Size(r) THEN r.head + i ELSE r.head + i - Size(r)

LEMMA Remainder ==
    ASSUME NEW n \in Nat \ {0}, NEW x \in 0..2 * n - 1
    PROVE  x % n = IF x < n THEN x ELSE x - n
  <1>1. CASE x < n
    BY <1>1
  <1>2. CASE x >= n
    BY <1>2
  <1> QED BY <1>1, <1>2

LEMMA RingIsOf ==
    ASSUME NEW r \in Rings
    PROVE  /\ Size(r) \in Initial..Cap /\ Size(r) \in Nat \ {0}
           /\ r \in RingsOf(Size(r))
  <1>1. PICK n \in Initial..Cap : r \in RingsOf(n)
    BY DEF Rings
  <1>2. DOMAIN r.t = 0..n - 1 /\ n \in Nat \ {0}
    BY <1>1, RingBounds DEF RingsOf
  <1>3. Cardinality(0..n - 1) = n
    BY <1>2, FS_Interval
  <1> QED BY <1>1, <1>2, <1>3 DEF Size

LEMMA RingParts ==
    ASSUME NEW r \in Rings
    PROVE  /\ r.t \in [0..Size(r) - 1 -> Int] /\ r.v \in [0..Size(r) - 1 -> Marks]
           /\ r.head \in 0..Size(r) - 1 /\ r.count \in 0..Size(r)
           /\ r = [t |-> r.t, v |-> r.v, head |-> r.head, count |-> r.count]
  BY RingIsOf DEF RingsOf

LEMMA RingMade ==
    ASSUME NEW n \in Initial..Cap, NEW t \in [0..n - 1 -> Int], NEW v \in [0..n - 1 -> Marks],
           NEW first \in 0..n - 1, NEW filled \in 0..n
    PROVE  LET r == [t |-> t, v |-> v, head |-> first, count |-> filled]
           IN r \in Rings /\ Size(r) = n
  <1> DEFINE r == [t |-> t, v |-> v, head |-> first, count |-> filled]
  <1>1. r \in RingsOf(n)
    BY DEF RingsOf
  <1>2. r \in Rings
    BY <1>1 DEF Rings
  <1>3. DOMAIN r.t = 0..n - 1 /\ n \in Nat \ {0}
    BY RingBounds
  <1>4. Cardinality(0..n - 1) = n
    BY <1>3, FS_Interval
  <1> QED BY <1>2, <1>3, <1>4 DEF Size

LEMMA SlotIs ==
    ASSUME NEW r \in Rings, NEW i \in 0..Size(r) - 1
    PROVE  At(r, i) = Wrapped(r, i) /\ At(r, i) \in 0..Size(r) - 1
  <1>1. Size(r) \in Nat \ {0} /\ r.head \in 0..Size(r) - 1
    BY RingIsOf, RingParts
  <1> DEFINE n == Size(r)
             x == r.head + i
  <1>2. x \in 0..2 * n - 1
    BY <1>1
  <1>3. x % n = IF x < n THEN x ELSE x - n
    <2> HIDE DEF n, x
    <2> QED BY <1>1, <1>2, Remainder DEF n
  <1> QED BY <1>1, <1>2, <1>3 DEF At, Wrapped

LEMMA SlotsApart ==
    ASSUME NEW r \in Rings, NEW i \in 0..Size(r) - 1, NEW j \in 0..Size(r) - 1, At(r, i) = At(r, j)
    PROVE  i = j
  <1>1. Size(r) \in Nat \ {0} /\ r.head \in 0..Size(r) - 1
    BY RingIsOf, RingParts
  <1> DEFINE n == Size(r)
             h == r.head
  <1>2. At(r, i) = Wrapped(r, i) /\ At(r, j) = Wrapped(r, j)
    BY SlotIs
  <1>3. (IF h + i < n THEN h + i ELSE h + i - n) = (IF h + j < n THEN h + j ELSE h + j - n)
    BY <1>2 DEF Wrapped
  <1>4. n \in Nat \ {0} /\ h \in 0..n - 1 /\ i \in 0..n - 1 /\ j \in 0..n - 1
    BY <1>1
  <1> HIDE DEF n, h
  <1> QED BY <1>3, <1>4

LEMMA RowTypes ==
    ASSUME NEW r \in Rings, NEW i \in 0..Size(r) - 1
    PROVE  TimeAt(r, i) \in Int /\ ValueAt(r, i) \in Marks
  BY SlotIs, RingParts DEF TimeAt, ValueAt


LEMMA GrownRows ==
    ASSUME NEW r \in Rings, Size(r) < Cap, r.count = Size(r)
    PROVE  /\ Grow(r) \in Rings /\ Grow(r).count = r.count /\ r.count < Size(Grow(r))
           /\ \A i \in 0..r.count - 1 : /\ TimeAt(Grow(r), i) = TimeAt(r, i)
                                        /\ ValueAt(Grow(r), i) = ValueAt(r, i)
  <1> DEFINE size == IF 2 * Size(r) < Cap THEN 2 * Size(r) ELSE Cap
             moved(a) == [i \in 0..size - 1 |-> IF i < r.count THEN a[At(r, i)] ELSE Nothing]
             n == Size(r)
             g == Grow(r)
  <1>1. /\ n \in Initial..Cap /\ n \in Nat \ {0}
        /\ r.t \in [0..n - 1 -> Int] /\ r.v \in [0..n - 1 -> Marks]
        /\ r = [t |-> r.t, v |-> r.v, head |-> r.head, count |-> r.count]
    BY RingIsOf, RingParts
  <1>2. size \in Initial..Cap /\ size \in Nat /\ n < size
    BY <1>1, RingBounds
  <1>3. g = [t |-> moved(r.t), v |-> moved(r.v), head |-> 0, count |-> n]
    <2>1. g = [r EXCEPT !.t = moved(r.t), !.v = moved(r.v), !.head = 0]
      BY DEF Grow
    <2> HIDE DEF g, moved
    <2> QED BY <1>1, <2>1
  <1>4. \A i \in 0..n - 1 : At(r, i) \in 0..n - 1
    BY SlotIs
  <1>5. moved(r.t) \in [0..size - 1 -> Int]
    <2>1. ASSUME NEW i \in 0..size - 1 PROVE (IF i < n THEN r.t[At(r, i)] ELSE Nothing) \in Int
      <3>1. CASE i < n
        BY <1>1, <1>4, <3>1
      <3>2. CASE ~(i < n)
        BY <3>2 DEF Nothing
      <3> QED BY <3>1, <3>2
    <2> QED BY <2>1
  <1>6. moved(r.v) \in [0..size - 1 -> Marks]
    <2>1. ASSUME NEW i \in 0..size - 1 PROVE (IF i < n THEN r.v[At(r, i)] ELSE Nothing) \in Marks
      <3>1. CASE i < n
        BY <1>1, <1>4, <3>1
      <3>2. CASE ~(i < n)
        BY <3>2 DEF Marks
      <3> QED BY <3>1, <3>2
    <2> QED BY <2>1
  <1> HIDE DEF size
  <1>7. g \in Rings /\ Size(g) = size
    <2>1. 0 \in 0..size - 1 /\ n \in 0..size
      BY <1>1, <1>2
    <2> HIDE DEF moved, n
    <2> QED BY <1>2, <1>3, <1>5, <1>6, <2>1, RingMade
  <1>8. ASSUME NEW i \in 0..n - 1 PROVE TimeAt(g, i) = TimeAt(r, i) /\ ValueAt(g, i) = ValueAt(r, i)
    <2>1. At(g, i) = i
      <3>1. g.head = 0 /\ i \in 0..Size(g) - 1 /\ i < Size(g)
        BY <1>1, <1>2, <1>3, <1>7
      <3> QED BY <1>7, <3>1, SlotIs DEF Wrapped
    <2>2. moved(r.t)[i] = r.t[At(r, i)] /\ moved(r.v)[i] = r.v[At(r, i)]
      BY <1>1, <1>2
    <2> HIDE DEF g, moved
    <2> QED BY <1>3, <2>1, <2>2 DEF TimeAt, ValueAt
  <1>9. g.count = n
    <2> HIDE DEF moved
    <2> QED BY <1>3
  <1> HIDE DEF moved, g
  <1> QED BY <1>1, <1>2, <1>7, <1>8, <1>9 DEF g

\* The ring without its n oldest rows.
Without(r, n) == [r EXCEPT !.head = (@ + n) % Size(r), !.count = @ - n]

LEMMA WithoutRows ==
    ASSUME NEW r \in Rings, NEW n \in 0..r.count, n < Size(r)
    PROVE  /\ Without(r, n) \in Rings /\ Size(Without(r, n)) = Size(r)
           /\ Without(r, n).count = r.count - n
           /\ \A i \in 0..r.count - n - 1 : /\ TimeAt(Without(r, n), i) = TimeAt(r, i + n)
                                            /\ ValueAt(Without(r, n), i) = ValueAt(r, i + n)
  <1> DEFINE w == Without(r, n)
             size == Size(r)
  <1>1. /\ size \in Initial..Cap /\ size \in Nat \ {0}
        /\ r.t \in [0..size - 1 -> Int] /\ r.v \in [0..size - 1 -> Marks]
        /\ r.head \in 0..size - 1 /\ r.count \in 0..size
        /\ r = [t |-> r.t, v |-> r.v, head |-> r.head, count |-> r.count]
    BY RingIsOf, RingParts
  <1>2. w = [t |-> r.t, v |-> r.v, head |-> At(r, n), count |-> r.count - n]
    <2>1. w = [r EXCEPT !.head = At(r, n), !.count = @ - n]
      BY DEF Without, At
    <2> HIDE DEF w, size
    <2> QED BY <1>1, <2>1
  <1>3. At(r, n) = Wrapped(r, n) /\ At(r, n) \in 0..size - 1
    BY <1>1, SlotIs
  <1>4. w \in Rings /\ Size(w) = size
    <2>1. r.count - n \in 0..size
      BY <1>1
    <2> HIDE DEF size
    <2> QED BY SMTT(30), <1>1, <1>2, <1>3, <2>1, RingMade
  <1>5. ASSUME NEW i \in 0..r.count - n - 1 PROVE At(w, i) = At(r, i + n)
    <2>1. i \in 0..size - 1 /\ i + n \in 0..size - 1
      BY <1>1
    <2>2. At(w, i) = Wrapped(w, i) /\ At(r, i + n) = Wrapped(r, i + n)
      BY <1>4, <2>1, SlotIs
    <2>3. w.head = IF r.head + n < size THEN r.head + n ELSE r.head + n - size
      BY <1>2, <1>3 DEF Wrapped
    <2>4. Wrapped(w, i) = IF w.head + i < size THEN w.head + i ELSE w.head + i - size
      BY <1>4 DEF Wrapped
    <2>5. Wrapped(r, i + n) = IF r.head + (i + n) < size THEN r.head + (i + n) ELSE r.head + (i + n) - size
      BY DEF Wrapped
    <2> DEFINE h == r.head
               c == r.count
    <2>6. h \in 0..size - 1 /\ c \in 0..size /\ n \in 0..c /\ n < size /\ size \in Nat /\ i \in 0..c - n - 1
      BY <1>1
    <2> DEFINE k == w.head
    <2>7. (IF k + i < size THEN k + i ELSE k + i - size)
            = (IF h + (i + n) < size THEN h + (i + n) ELSE h + (i + n) - size)
      <3>1. k = IF h + n < size THEN h + n ELSE h + n - size
        BY <2>3
      <3> HIDE DEF size, h, c, k
      <3> QED BY <2>6, <3>1
    <2> QED BY <2>2, <2>4, <2>5, <2>7
  <1>6. w.t = r.t /\ w.v = r.v /\ w.count = r.count - n
    BY <1>2
  <1> QED BY <1>4, <1>5, <1>6 DEF TimeAt, ValueAt

LEMMA RoomMade ==
    ASSUME NEW r \in Rings
    PROVE  LET made == MakeRoom(r)
               n == IF r.count = Cap THEN 1 ELSE 0
           IN /\ made \in Rings /\ made.count < Size(made)
              /\ made.count = r.count - n /\ n \in 0..r.count
              /\ \A i \in 0..made.count - 1 : /\ TimeAt(made, i) = TimeAt(r, i + n)
                                              /\ ValueAt(made, i) = ValueAt(r, i + n)
  <1>1. Size(r) \in Initial..Cap /\ Size(r) \in Nat \ {0} /\ r.count \in 0..Size(r) /\ Cap \in Nat
    BY RingIsOf, RingParts, RingBounds
  <1>2. CASE r.count < Size(r)
    <2>1. MakeRoom(r) = r /\ r.count # Cap
      BY <1>1, <1>2 DEF MakeRoom
    <2> QED BY <1>1, <1>2, <2>1
  <1>3. CASE r.count = Size(r) /\ Size(r) < Cap
    <2>1. MakeRoom(r) = Grow(r) /\ r.count # Cap
      BY <1>1, <1>3 DEF MakeRoom
    <2> QED BY <1>1, <1>3, <2>1, GrownRows
  <1>4. CASE r.count = Size(r) /\ Size(r) = Cap /\ Cap # 1
    <2>1. MakeRoom(r) = Without(r, 1)
      BY <1>1, <1>4 DEF MakeRoom, DropOldest, Without
    <2>2. 1 \in 0..r.count /\ 1 < Size(r)
      BY <1>1, <1>4
    <2> QED BY <1>1, <1>4, <2>1, <2>2, WithoutRows
  <1>5. CASE r.count = Size(r) /\ Size(r) = Cap /\ Cap = 1
    <2> DEFINE made == [t |-> r.t, v |-> r.v, head |-> 0, count |-> 0]
    <2>1. /\ r.t \in [0..Size(r) - 1 -> Int] /\ r.v \in [0..Size(r) - 1 -> Marks]
          /\ r.head \in 0..Size(r) - 1
          /\ r = [t |-> r.t, v |-> r.v, head |-> r.head, count |-> r.count]
      BY RingParts
    <2>2. (r.head + 1) % Size(r) = 0
      BY <1>1, <1>5, <2>1
    <2>3. MakeRoom(r) = made
      <3>1. MakeRoom(r) = [r EXCEPT !.head = (r.head + 1) % Size(r), !.count = r.count - 1]
        BY <1>1, <1>5 DEF MakeRoom, DropOldest
      <3>2. r.count - 1 = 0
        BY <1>5
      <3>3. MakeRoom(r) = [r EXCEPT !.head = 0, !.count = 0]
        BY <2>2, <3>1, <3>2
      <3> QED BY <2>1, <3>3
    <2>4. made \in Rings /\ Size(made) = Size(r)
      <3>1. 0 \in 0..Size(r) - 1 /\ 0 \in 0..Size(r)
        BY <1>1
      <3> DEFINE size == Size(r)
      <3>2. /\ size \in Initial..Cap /\ 0 \in 0..size - 1 /\ 0 \in 0..size
            /\ r.t \in [0..size - 1 -> Int] /\ r.v \in [0..size - 1 -> Marks]
        BY <1>1, <2>1, <3>1
      <3> HIDE DEF size
      <3>3. made \in Rings /\ Size(made) = size
        BY <3>2, RingMade
      <3> QED BY <3>3 DEF size
    <2> QED BY <1>1, <1>5, <2>3, <2>4
  <1> QED BY <1>1, <1>2, <1>3, <1>4, <1>5


RingRows == Int \X Marks

LEMMA RowsAre ==
    ASSUME NEW r \in Rings
    PROVE  /\ RowsOf(r) \in Seq(RingRows) /\ Len(RowsOf(r)) = r.count /\ r.count \in Nat
           /\ \A i \in 1..r.count : RowsOf(r)[i] = <<TimeAt(r, i - 1), ValueAt(r, i - 1)>>
  <1>1. r.count \in 0..Size(r) /\ Size(r) \in Nat
    BY RingParts, RingIsOf
  <1>2. ASSUME NEW i \in 1..r.count PROVE <<TimeAt(r, i - 1), ValueAt(r, i - 1)>> \in RingRows
    <2>1. i - 1 \in 0..Size(r) - 1
      BY <1>1
    <2> QED BY <2>1, RowTypes DEF RingRows
  <1>3. RowsOf(r) \in [1..r.count -> RingRows]
    BY <1>2 DEF RowsOf
  <1>4. \A i \in 1..r.count : RowsOf(r)[i] = <<TimeAt(r, i - 1), ValueAt(r, i - 1)>>
    BY DEF RowsOf
  <1>5. r.count \in Nat
    BY <1>1
  <1> DEFINE c == r.count
             u == RowsOf(r)
  <1>6. u \in Seq(RingRows) /\ Len(u) = c
    <2> HIDE DEF c, u
    <2>1. c \in Nat /\ u \in [1..c -> RingRows]
      BY <1>3, <1>5 DEF c, u
    <2> QED BY <2>1
  <1> QED BY <1>4, <1>5, <1>6

LEMMA WithoutIsEnd ==
    ASSUME NEW r \in Rings, NEW e \in Rings, NEW n \in 0..r.count, e.count = r.count - n,
           \A i \in 0..e.count - 1 : TimeAt(e, i) = TimeAt(r, i + n) /\ ValueAt(e, i) = ValueAt(r, i + n)
    PROVE  RowsOf(e) = SubSeq(RowsOf(r), n + 1, r.count)
  <1> DEFINE s == RowsOf(r)
             u == SubSeq(s, n + 1, r.count)
  <1>1. /\ s \in Seq(RingRows) /\ Len(s) = r.count /\ r.count \in Nat
        /\ \A i \in 1..r.count : s[i] = <<TimeAt(r, i - 1), ValueAt(r, i - 1)>>
        /\ RowsOf(e) \in Seq(RingRows) /\ Len(RowsOf(e)) = e.count
        /\ \A i \in 1..e.count : RowsOf(e)[i] = <<TimeAt(e, i - 1), ValueAt(e, i - 1)>>
    BY RowsAre
  <1>2. u \in Seq(RingRows) /\ Len(u) = e.count /\ \A i \in 1..e.count : u[i] = s[i + n]
    <2> HIDE DEF s
    <2>1. n + 1 \in Int /\ r.count \in Int /\ \A k \in n + 1..r.count : s[k] \in RingRows
      <3> DEFINE c == r.count
      <3>1. s \in Seq(RingRows) /\ Len(s) = c /\ c \in Nat /\ n \in 0..c
        BY <1>1
      <3> HIDE DEF c
      <3>2. ASSUME NEW k \in n + 1..c PROVE s[k] \in RingRows
        <4>1. k \in 1..Len(s)
          BY <3>1
        <4> QED BY <3>1, <4>1, ElementOfSeq
      <3> QED BY <3>1, <3>2 DEF c
    <2>2. /\ u \in Seq(RingRows)
          /\ Len(u) = IF n + 1 <= r.count THEN r.count - (n + 1) + 1 ELSE 0
          /\ \A i \in 1..r.count - (n + 1) + 1 : u[i] = s[n + 1 + i - 1]
      BY <2>1, SubSeqProperties
    <2> HIDE DEF u
    <2> QED BY <1>1, <2>2
  <1>3. ASSUME NEW i \in 1..e.count PROVE RowsOf(e)[i] = u[i]
    <2>1. i - 1 \in 0..e.count - 1 /\ i + n \in 1..r.count /\ (i - 1) + n = i + n - 1
      <3> DEFINE c == r.count
                 d == e.count
      <3>1. c \in Nat /\ d = c - n /\ n \in 0..c /\ i \in 1..d
        BY <1>1
      <3> HIDE DEF c, d
      <3>2. i - 1 \in 0..d - 1 /\ i + n \in 1..c /\ (i - 1) + n = i + n - 1
        BY <3>1
      <3> QED BY <3>2 DEF c, d
    <2>2. TimeAt(e, i - 1) = TimeAt(r, (i - 1) + n) /\ ValueAt(e, i - 1) = ValueAt(r, (i - 1) + n)
      BY <2>1
    <2> HIDE DEF s, u
    <2>3. s[i + n] = <<TimeAt(r, i + n - 1), ValueAt(r, i + n - 1)>>
      BY <1>1, <2>1
    <2> QED BY <1>1, <1>2, <2>1, <2>2, <2>3
  <1> HIDE DEF u
  <1>4. RowsOf(e) = u
    BY <1>1, <1>2, <1>3, SeqEqual
  <1> QED BY <1>4 DEF u

\* The row is in the slot behind the newest.
Written(r, time, value) ==
  [r EXCEPT !.t[At(r, r.count)] = time, !.v[At(r, r.count)] = value, !.count = @ + 1]

LEMMA WrittenRows ==
    ASSUME NEW r \in Rings, r.count < Size(r), NEW time \in Int, NEW value \in Marks
    PROVE  LET w == Written(r, time, value)
           IN /\ w \in Rings /\ w.count = r.count + 1
              /\ RowsOf(w) = Append(RowsOf(r), <<time, value>>)
  <1> DEFINE w == Written(r, time, value)
             size == Size(r)
             c == r.count
             slot == At(r, c)
  <1>1. /\ size \in Initial..Cap /\ size \in Nat \ {0}
        /\ r.t \in [0..size - 1 -> Int] /\ r.v \in [0..size - 1 -> Marks]
        /\ r.head \in 0..size - 1 /\ c \in 0..size - 1
        /\ r = [t |-> r.t, v |-> r.v, head |-> r.head, count |-> c]
    BY RingIsOf, RingParts
  <1>2. slot \in 0..size - 1
    BY <1>1, SlotIs
  <1>3. w = [t |-> [r.t EXCEPT ![slot] = time], v |-> [r.v EXCEPT ![slot] = value],
             head |-> r.head, count |-> c + 1]
    <2>1. w = [r EXCEPT !.t = [r.t EXCEPT ![slot] = time], !.v = [r.v EXCEPT ![slot] = value], !.count = c + 1]
      BY <1>1 DEF Written
    <2> DEFINE t2 == [r.t EXCEPT ![slot] = time]
               v2 == [r.v EXCEPT ![slot] = value]
    <2> HIDE DEF size, slot, w, t2, v2
    <2> QED BY <1>1, <2>1 DEF t2, v2
  <1>4. w \in Rings /\ Size(w) = size
    <2>1. value \in Marks
      BY DEF Marks
    <2>2. [r.t EXCEPT ![slot] = time] \in [0..size - 1 -> Int]
      BY <1>1, <1>2
    <2>3. [r.v EXCEPT ![slot] = value] \in [0..size - 1 -> Marks]
      BY <1>1, <1>2, <2>1
    <2>4. c + 1 \in 0..size
      BY <1>1
    <2> DEFINE t2 == [r.t EXCEPT ![slot] = time]
               v2 == [r.v EXCEPT ![slot] = value]
               c2 == c + 1
    <2>5. /\ size \in Initial..Cap /\ t2 \in [0..size - 1 -> Int] /\ v2 \in [0..size - 1 -> Marks]
          /\ r.head \in 0..size - 1 /\ c2 \in 0..size
          /\ w = [t |-> t2, v |-> v2, head |-> r.head, count |-> c2]
      BY <1>1, <1>3, <2>2, <2>3, <2>4
    <2> HIDE DEF size, t2, v2, c2, w
    <2> DEFINE new == [t |-> t2, v |-> v2, head |-> r.head, count |-> c2]
    <2>6. new \in Rings /\ Size(new) = size
      BY <2>5, RingMade
    <2> HIDE DEF new
    <2> QED BY <2>5, <2>6 DEF new
  <1>5. w.head = r.head /\ w.count = c + 1 /\ w.t = [r.t EXCEPT ![slot] = time] /\ w.v = [r.v EXCEPT ![slot] = value]
    BY <1>3
  <1>6. \A i : At(w, i) = At(r, i)
    BY <1>4, <1>5 DEF At
  <1>7. ASSUME NEW i \in 0..c - 1
        PROVE  TimeAt(w, i) = TimeAt(r, i) /\ ValueAt(w, i) = ValueAt(r, i)
    <2>1. i \in 0..size - 1 /\ c \in 0..size - 1 /\ i # c
      BY <1>1
    <2>2. At(r, i) # slot /\ At(r, i) \in 0..size - 1
      BY <2>1, SlotsApart, SlotIs
    <2> QED BY <1>1, <1>5, <1>6, <2>2 DEF TimeAt, ValueAt
  <1>8. TimeAt(w, c) = time /\ ValueAt(w, c) = value
    BY <1>1, <1>2, <1>5, <1>6 DEF TimeAt, ValueAt
  <1> DEFINE row == <<time, value>>
             s == RowsOf(r)
             u == RowsOf(w)
  <1>9. /\ s \in Seq(RingRows) /\ Len(s) = c /\ c \in Nat
        /\ \A i \in 1..c : s[i] = <<TimeAt(r, i - 1), ValueAt(r, i - 1)>>
    BY RowsAre
  <1>10. /\ u \in Seq(RingRows) /\ Len(u) = c + 1
         /\ \A i \in 1..c + 1 : u[i] = <<TimeAt(w, i - 1), ValueAt(w, i - 1)>>
    <2> HIDE DEF w
    <2> QED BY <1>4, <1>5, RowsAre
  <1>11. row \in RingRows
    BY DEF RingRows, Marks
  <1>12. \A i \in 1..c : u[i] = s[i]
    <2> HIDE DEF w, s, u
    <2> SUFFICES ASSUME NEW i \in 1..c PROVE u[i] = s[i]
      OBVIOUS
    <2>1. i - 1 \in 0..c - 1 /\ i \in 1..c + 1
      BY <1>9
    <2>2. TimeAt(w, i - 1) = TimeAt(r, i - 1) /\ ValueAt(w, i - 1) = ValueAt(r, i - 1)
      BY <1>7, <2>1
    <2> QED BY <1>9, <1>10, <2>1, <2>2
  <1>13. u[c + 1] = row
    <2> HIDE DEF w, s, u
    <2> QED BY <1>8, <1>9, <1>10
  <1>14. u = Append(s, row)
    <2> HIDE DEF s, u, row, c
    <2>1. /\ Append(s, row) \in Seq(RingRows) /\ Len(Append(s, row)) = c + 1
          /\ \A i \in 1..c : Append(s, row)[i] = s[i]
          /\ Append(s, row)[c + 1] = row
      BY <1>9, <1>11, AppendProperties
    <2>2. \A i \in 1..c + 1 : u[i] = Append(s, row)[i]
      BY <1>9, <1>12, <1>13, <2>1
    <2> QED BY <1>10, <2>1, <2>2, SeqEqual
  <1> QED BY <1>4, <1>5, <1>14

LEMMA LeastOf ==
    ASSUME NEW M, M \subseteq Nat, M # {}
    PROVE  \E x \in M : \A y \in M : x <= y
<1> DEFINE U == {X \in FiniteSubsetsOf(Nat) : \E n \in M : X = 1..n}
<1>1. \A n \in Nat : 1..n \in FiniteSubsetsOf(Nat)
  BY FS_Interval DEF FiniteSubsetsOf
<1>2. U # {}
  <2>1. PICK n \in M : TRUE
    OBVIOUS
  <2> QED BY <1>1, <2>1
<1>3. U \subseteq FiniteSubsetsOf(Nat)
  OBVIOUS
<1>4. \E X \in U : \A Y \in U : ~(<<Y, X>> \in StrictSubsetOrdering(Nat))
  <2> HIDE DEF U
  <2> QED BY <1>2, <1>3, FS_StrictSubsetOrderingWellFounded, WFMin
<1>5. PICK X \in U : \A Y \in U : ~(<<Y, X>> \in StrictSubsetOrdering(Nat))
  BY <1>4
<1>6. PICK x \in M : X = 1..x
  OBVIOUS
<1>7. ASSUME NEW y \in M PROVE x <= y
  <2> SUFFICES ASSUME y < x PROVE FALSE
    OBVIOUS
  <2>1. 1..y \in U
    BY <1>1
  <2>2. 1..y \subseteq 1..x /\ x \in 1..x /\ x \notin 1..y
    OBVIOUS
  <2>3. <<1..y, X>> \in StrictSubsetOrdering(Nat)
    BY <1>1, <1>6, <2>2 DEF StrictSubsetOrdering
  <2> QED BY <1>5, <2>1, <2>3
<1> QED BY <1>7

LEMMA Induction ==
    ASSUME NEW M, 0 \in M, \A n \in Nat : n \in M => n + 1 \in M
    PROVE  Nat \subseteq M
<1> SUFFICES ASSUME Nat \ M # {} PROVE FALSE
  OBVIOUS
<1>1. PICK x \in Nat \ M : \A y \in Nat \ M : x <= y
  BY LeastOf
<1>2. x - 1 \in Nat /\ x - 1 \notin Nat \ M
  BY <1>1
<1> QED BY <1>2

\* The place of the first row that is not too old, or of the newest.
YoungFrom(r, cutoff, n) ==
  /\ \A i \in 0..n - 1 : TimeAt(r, i) < cutoff
  /\ n = r.count - 1 \/ TimeAt(r, n) >= cutoff

LEMMA ExpiredRows ==
    ASSUME NEW r \in Rings, r.count > 0, NEW cutoff \in Int
    PROVE  \E n \in 0..r.count - 1 :
             /\ YoungFrom(r, cutoff, n)
             /\ Expire(r, cutoff) \in Rings /\ Expire(r, cutoff).count = r.count - n
             /\ RowsOf(Expire(r, cutoff)) = SubSeq(RowsOf(r), n + 1, r.count)
  <1>1. Size(r) \in Nat \ {0} /\ r.count \in 1..Size(r) /\ r.count - 1 \in Nat
    BY RingIsOf, RingParts
  <1>2. \A i \in 0..r.count - 1 : TimeAt(r, i) \in Int
    BY <1>1, RowTypes
  <1> DEFINE c == r.count
             M == {n \in 0..c - 1 : n = c - 1 \/ TimeAt(r, n) >= cutoff}
             old == CHOOSE n \in 0..c - 1 : YoungFrom(r, cutoff, n)
  <1>3. \E n \in 0..c - 1 : YoungFrom(r, cutoff, n)
    <2>1. M # {} /\ M \subseteq Nat
      BY <1>1
    <2>2. PICK n \in M : \A m \in M : n <= m
      <3> HIDE DEF M
      <3> QED BY <2>1, LeastOf
    <2>3. ASSUME NEW i \in 0..n - 1 PROVE TimeAt(r, i) < cutoff
      <3>1. i \notin M /\ i \in 0..c - 1
        BY <1>1, <2>2
      <3> QED BY <1>2, <3>1
    <2> QED BY <2>2, <2>3 DEF YoungFrom
  <1>4. old \in 0..c - 1 /\ YoungFrom(r, cutoff, old)
    <2> HIDE DEF c
    <2> QED BY <1>3
  <1>5. Expire(r, cutoff) = Without(r, old)
    BY DEF Expire, Without, YoungFrom
  <1> HIDE DEF old
  <1>6. old \in 0..r.count /\ old < Size(r)
    BY <1>1, <1>4
  <1>7. /\ Without(r, old) \in Rings /\ Without(r, old).count = r.count - old
        /\ RowsOf(Without(r, old)) = SubSeq(RowsOf(r), old + 1, r.count)
    <2>1. /\ Without(r, old) \in Rings
          /\ Without(r, old).count = r.count - old
          /\ \A i \in 0..r.count - old - 1 : /\ TimeAt(Without(r, old), i) = TimeAt(r, i + old)
                                              /\ ValueAt(Without(r, old), i) = ValueAt(r, i + old)
      BY <1>6, WithoutRows
    <2> DEFINE e == Without(r, old)
    <2> HIDE DEF e
    <2>2. e \in Rings /\ e.count = r.count - old /\ old \in 0..r.count
      BY <1>6, <2>1 DEF e
    <2>3. \A i \in 0..e.count - 1 : TimeAt(e, i) = TimeAt(r, i + old) /\ ValueAt(e, i) = ValueAt(r, i + old)
      BY <2>1, <2>2 DEF e
    <2>4. RowsOf(e) = SubSeq(RowsOf(r), old + 1, r.count)
      BY <2>2, <2>3, WithoutIsEnd
    <2> QED BY <2>1, <2>4 DEF e
  <1> QED BY <1>4, <1>5, <1>7


\* The sequence without its first n.
Behind(s, n) == SubSeq(s, n + 1, Len(s))

LEMMA BehindIs ==
    ASSUME NEW S, NEW s \in Seq(S), NEW n \in 0..Len(s)
    PROVE  /\ Behind(s, n) \in Seq(S) /\ Len(Behind(s, n)) = Len(s) - n
           /\ \A i \in 1..Len(s) - n : Behind(s, n)[i] = s[n + i]
  <1> DEFINE c == Len(s)
             u == SubSeq(s, n + 1, c)
  <1>1. c \in Nat /\ n \in Int /\ n + 1 \in Int /\ c \in Int
    OBVIOUS
  <1>2. ASSUME NEW k \in n + 1..c PROVE s[k] \in S
    <2>1. k \in 1..Len(s)
      BY <1>1
    <2> QED BY <2>1, ElementOfSeq
  <1>3. /\ u \in Seq(S) /\ Len(u) = IF n + 1 <= c THEN c - (n + 1) + 1 ELSE 0
        /\ \A i \in 1..c - (n + 1) + 1 : u[i] = s[n + 1 + i - 1]
    <2> HIDE DEF c
    <2> QED BY <1>1, <1>2, SubSeqProperties DEF c
  <1>4. n \in 0..c
    OBVIOUS
  <1>5. Len(u) = c - n
    <2> HIDE DEF c, u
    <2> QED BY <1>1, <1>3, <1>4
  <1>6. ASSUME NEW i \in 1..c - n PROVE u[i] = s[n + i]
    <2>1. i \in 1..c - (n + 1) + 1 /\ n + 1 + i - 1 = n + i
      <3> HIDE DEF c
      <3> QED BY <1>1, <1>4
    <2> HIDE DEF c, u
    <2> QED BY <1>3, <2>1
  <1> QED BY <1>3, <1>5, <1>6 DEF Behind

LEMMA BehindAppended ==
    ASSUME NEW S, NEW s \in Seq(S), NEW x \in S, NEW n \in 0..Len(s)
    PROVE  Behind(Append(s, x), n) = Append(Behind(s, n), x)
  <1> DEFINE a == Append(s, x)
             b == Behind(s, n)
             u == Behind(a, n)
             v == Append(b, x)
             c == Len(s)
  <1>1. c \in Nat /\ n \in 0..c
    OBVIOUS
  <1>2. /\ a \in Seq(S) /\ Len(a) = c + 1 /\ a[c + 1] = x
        /\ \A i \in 1..c : a[i] = s[i]
    BY AppendProperties
  <1>3. b \in Seq(S) /\ Len(b) = c - n /\ \A i \in 1..c - n : b[i] = s[n + i]
    BY BehindIs
  <1>4. /\ u \in Seq(S) /\ Len(u) = c + 1 - n
        /\ \A i \in 1..c + 1 - n : u[i] = a[n + i]
    <2>1. n \in 0..Len(a)
      <3> HIDE DEF a
      <3> QED BY <1>1, <1>2
    <2> HIDE DEF a, c
    <2>2. u \in Seq(S) /\ Len(u) = Len(a) - n /\ \A i \in 1..Len(a) - n : u[i] = a[n + i]
      BY <1>2, <2>1, BehindIs
    <2>3. Len(a) = c + 1
      BY <1>2
    <2> HIDE DEF u
    <2> QED BY <1>1, <2>2, <2>3
  <1>5. /\ v \in Seq(S) /\ Len(v) = c - n + 1 /\ v[c - n + 1] = x
        /\ \A i \in 1..c - n : v[i] = b[i]
    <2> HIDE DEF b, c
    <2>1. /\ v \in Seq(S) /\ Len(v) = Len(b) + 1 /\ v[Len(b) + 1] = x
          /\ \A i \in 1..Len(b) : v[i] = b[i]
      BY <1>3, AppendProperties
    <2> HIDE DEF v
    <2> QED BY <1>3, <2>1
  <1> HIDE DEF a, b, u, v, c
  <1>6. ASSUME NEW i \in 1..c + 1 - n PROVE u[i] = v[i]
    <2>1. CASE i \in 1..c - n
      <3>1. n + i \in 1..c
        BY <1>1, <2>1
      <3> QED BY <1>2, <1>3, <1>4, <1>5, <2>1, <3>1
    <2>2. CASE i = c - n + 1
      <3>1. n + i = c + 1
        BY <1>1, <2>2
      <3> QED BY <1>2, <1>4, <1>5, <2>2, <3>1
    <2> QED BY <1>1, <2>1, <2>2
  <1>7. Len(u) = Len(v)
    BY <1>1, <1>4, <1>5
  <1>8. u = v
    BY <1>4, <1>5, <1>6, <1>7, SeqEqual
  <1> QED BY <1>8 DEF a, b, u, v

LEMMA BehindTwice ==
    ASSUME NEW S, NEW s \in Seq(S), NEW n \in 0..Len(s), NEW m \in 0..Len(s) - n
    PROVE  Behind(Behind(s, n), m) = Behind(s, n + m) /\ n + m \in 0..Len(s)
  <1> DEFINE c == Len(s)
             b == Behind(s, n)
             u == Behind(b, m)
             v == Behind(s, n + m)
  <1>1. c \in Nat /\ n \in 0..c /\ m \in 0..c - n /\ n + m \in 0..c
    <2>1. c \in Nat
      OBVIOUS
    <2>2. n \in 0..c /\ m \in 0..c - n
      OBVIOUS
    <2> HIDE DEF c
    <2> QED BY <2>1, <2>2
  <1>2. b \in Seq(S) /\ Len(b) = c - n /\ \A i \in 1..c - n : b[i] = s[n + i]
    BY BehindIs
  <1>3. v \in Seq(S) /\ Len(v) = c - (n + m) /\ \A i \in 1..c - (n + m) : v[i] = s[(n + m) + i]
    BY <1>1, BehindIs
  <1>4. /\ u \in Seq(S) /\ Len(u) = c - n - m
        /\ \A i \in 1..c - n - m : u[i] = b[m + i]
    <2> HIDE DEF b, c
    <2>1. m \in 0..Len(b)
      BY <1>1, <1>2
    <2>2. u \in Seq(S) /\ Len(u) = Len(b) - m /\ \A i \in 1..Len(b) - m : u[i] = b[m + i]
      BY ZenonT(30), <1>2, <2>1, BehindIs
    <2> HIDE DEF u
    <2> QED BY <1>2, <2>2
  <1> HIDE DEF b, c, u, v
  <1>5. Len(u) = Len(v)
    BY <1>1, <1>3, <1>4
  <1>6. ASSUME NEW i \in 1..Len(u) PROVE u[i] = v[i]
    <2>1. i \in 1..c - n - m /\ m + i \in 1..c - n /\ i \in 1..c - (n + m) /\ n + (m + i) = (n + m) + i
      BY <1>1, <1>4
    <2> QED BY <1>2, <1>3, <1>4, <2>1
  <1>7. u = v
    BY <1>3, <1>4, <1>5, <1>6, SeqEqual
  <1> QED BY <1>1, <1>7 DEF b, c, u, v

\* Kept is found by any number of rows to drop that leaves enough of the rest.
LEMMA KeptIs ==
    ASSUME NEW s \in Seq(RingRows), s # <<>>, NEW n \in 0..Len(s) - 1,
           T!Fits(s, n), \A m \in 0..n - 1 : ~T!Fits(s, m)
    PROVE  T!Kept(s) = SubSeq(s, n + 1, Len(s))
  <1> DEFINE P(k) == T!Fits(s, k) /\ \A m \in 0..k - 1 : ~T!Fits(s, m)
             old == CHOOSE k \in 0..Len(s) - 1 : P(k)
  <1>1. Len(s) \in Nat
    OBVIOUS
  <1>2. old \in 0..Len(s) - 1 /\ P(old)
    <2>1. P(n)
      OBVIOUS
    <2> HIDE DEF P
    <2> QED BY <2>1
  <1>3. old = n
    <2> HIDE DEF old
    <2>1. old \in Nat /\ n \in Nat
      BY <1>1, <1>2
    <2>2. ~(old < n)
      BY <1>2, <2>1
    <2>3. ~(n < old)
      BY <1>2, <2>1
    <2> QED BY <2>1, <2>2, <2>3
  <1>4. T!Kept(s) = SubSeq(s, old + 1, Len(s))
    BY DEF T!Kept
  <1> QED BY <1>3, <1>4

LEMMA KeptExists ==
    ASSUME NEW s \in Seq(RingRows), s # <<>>
    PROVE  \E n \in 0..Len(s) - 1 : T!Fits(s, n) /\ \A m \in 0..n - 1 : ~T!Fits(s, m)
  <1> DEFINE c == Len(s)
             M == {n \in 0..c - 1 : T!Fits(s, n)}
  <1>1. c \in Nat /\ c > 0 /\ c - 1 \in 0..c - 1
    OBVIOUS
  <1>2. T!Fits(s, c - 1)
    <2>1. s[c] \in RingRows
      BY <1>1, ElementOfSeq
    <2>2. s[c][1] \in Int
      BY <2>1 DEF RingRows
    <2>3. c - (c - 1) <= Cap /\ (c - 1) + 1 = c
      BY <1>1, RingBounds
    <2>4. s[c][1] >= s[c][1] - WindowS
      BY <2>2, RingBounds
    <2> QED BY <2>3, <2>4 DEF T!Fits, T!NewestTime
  <1>3. M # {} /\ M \subseteq Nat
    BY <1>1, <1>2
  <1>4. PICK n \in M : \A m \in M : n <= m
    <2> HIDE DEF M
    <2> QED BY <1>3, LeastOf
  <1>5. ASSUME NEW m \in 0..n - 1 PROVE ~T!Fits(s, m)
    <2>1. m \notin M /\ m \in 0..c - 1
      BY <1>1, <1>4
    <2> QED BY <2>1
  <1> QED BY <1>4, <1>5

\* A row behind the newest, in a ring and in a timeline.
LEMMA AppendKeeps ==
    ASSUME NEW r \in Rings, NEW time \in Int, NEW value \in Marks
    PROVE  LET p == Append1(MakeRoom(r), time, value, WindowS)
           IN p \in Rings /\ RowsOf(p) = T!Kept(Append(RowsOf(r), <<time, value>>))
  <1> DEFINE row == <<time, value>>
             made == MakeRoom(r)
             d == IF r.count = Cap THEN 1 ELSE 0
             w == Written(made, time, value)
             s == RowsOf(r)
             c == r.count
             a == Append(s, row)
             p == Append1(made, time, value, WindowS)
  <1>1. /\ made \in Rings /\ made.count < Size(made) /\ made.count = c - d /\ d \in 0..c
        /\ \A i \in 0..made.count - 1 : /\ TimeAt(made, i) = TimeAt(r, i + d)
                                        /\ ValueAt(made, i) = ValueAt(r, i + d)
    BY RoomMade
  <1>2. /\ s \in Seq(RingRows) /\ Len(s) = c /\ c \in Nat /\ row \in RingRows
        /\ c <= Cap /\ Cap \in Nat \ {0} /\ time - WindowS \in Int
    <2>1. c \in 0..Size(r) /\ Size(r) \in Initial..Cap
      BY RingIsOf, RingParts
    <2> QED BY <2>1, RowsAre, RingBounds DEF RingRows, Marks
  <1>3. RowsOf(made) = SubSeq(s, d + 1, c)
    <2> HIDE DEF made, d
    <2> QED BY <1>1, WithoutIsEnd
  <1>4. w \in Rings /\ w.count = c - d + 1 /\ RowsOf(w) = Append(SubSeq(s, d + 1, c), row)
    <2> HIDE DEF made, d
    <2>1. made \in Rings /\ made.count < Size(made) /\ time \in Int /\ value \in Marks
      BY <1>1
    <2>2. w \in Rings /\ w.count = made.count + 1 /\ RowsOf(w) = Append(RowsOf(made), row)
      BY <2>1, WrittenRows
    <2> HIDE DEF w, row
    <2> QED BY <1>1, <1>3, <2>2
  <1>5. p = Expire(w, time - WindowS)
    BY DEF Append1, Written
  <1> HIDE DEF p, w, made
  <1>6. w.count > 0
    BY <1>1, <1>2, <1>4
  <1>7. PICK n \in 0..w.count - 1 :
           /\ YoungFrom(w, time - WindowS, n)
           /\ p \in Rings /\ RowsOf(p) = SubSeq(RowsOf(w), n + 1, w.count)
    BY <1>2, <1>4, <1>5, <1>6, ExpiredRows
  <1> HIDE DEF d
  <1>8. d \in {0, 1} /\ d <= c /\ (d = 1 <=> c = Cap)
    BY <1>1, <1>2 DEF d
  <1>9. /\ a \in Seq(RingRows) /\ Len(a) = c + 1 /\ a[c + 1] = row /\ a # <<>>
        /\ \A i \in 1..c : a[i] = s[i]
    <2> HIDE DEF s, row
    <2>1. /\ a \in Seq(RingRows) /\ Len(a) = c + 1 /\ a[c + 1] = row
          /\ \A i \in 1..c : a[i] = s[i]
      BY <1>2, AppendProperties
    <2> QED BY <1>2, <2>1
  <1>10. p \in Rings /\ RowsOf(p) = Behind(a, d + n) /\ d + n \in 0..c
    <2>1. d \in 0..Len(s) /\ d \in 0..Len(a) /\ n \in 0..Len(a) - d /\ n < c + 1 - d
      <3>1. n \in 0..(c - d + 1) - 1
        BY <1>4, <1>7
      <3>2. Len(s) = c /\ Len(a) = c + 1 /\ c \in Nat /\ d \in 0..c
        BY <1>1, <1>2, <1>9
      <3> HIDE DEF s, a, c
      <3> QED BY <3>1, <3>2
    <2>2. RowsOf(w) = Behind(a, d)
      <3>1. Behind(s, d) = SubSeq(s, d + 1, c)
        BY <1>2 DEF Behind
      <3> HIDE DEF s, row
      <3> QED BY <1>2, <1>4, <2>1, <3>1, BehindAppended
    <2>3. Len(Behind(a, d)) = c + 1 - d
      <3> HIDE DEF a
      <3>1. Len(Behind(a, d)) = Len(a) - d
        BY <1>9, <2>1, BehindIs
      <3>2. Len(a) = c + 1 /\ c \in Nat /\ d \in Nat
        BY <1>2, <1>8, <1>9
      <3> HIDE DEF c
      <3> QED BY <3>1, <3>2
    <2>4. RowsOf(p) = Behind(Behind(a, d), n)
      <3>1. w.count = c + 1 - d
        BY <1>2, <1>4, <1>8
      <3> HIDE DEF a
      <3> QED BY <1>7, <2>2, <2>3, <3>1 DEF Behind
    <2>5. Behind(Behind(a, d), n) = Behind(a, d + n)
      <3> HIDE DEF a
      <3> QED BY <1>9, <2>1, BehindTwice
    <2>6. d + n \in 0..c
      BY <1>2, <1>8, <2>1
    <2> QED BY <1>7, <2>4, <2>5, <2>6
  <1> DEFINE cutoff == time - WindowS
  <1>11. ASSUME NEW i \in 0..c - d PROVE TimeAt(w, i) = a[d + i + 1][1] /\ d + i + 1 \in 1..c + 1
    <2>1. i + 1 \in 1..w.count /\ d + (i + 1) = d + i + 1 /\ d + i + 1 \in 1..c + 1 /\ (i + 1) - 1 = i
      <3>1. w.count = c - d + 1 /\ c \in Nat /\ d \in 0..c
        BY <1>1, <1>2, <1>4
      <3> HIDE DEF c
      <3> QED BY <3>1
    <2>2. RowsOf(w)[i + 1] = <<TimeAt(w, i), ValueAt(w, i)>>
      BY <1>4, <2>1, RowsAre
    <2>3. RowsOf(w)[i + 1] = a[d + i + 1]
      <3>1. RowsOf(w) = Behind(a, d)
        <4>1. Behind(s, d) = SubSeq(s, d + 1, c)
          BY <1>2 DEF Behind
        <4>2. d \in 0..Len(s)
          BY <1>1, <1>2
        <4> HIDE DEF s, row
        <4> QED BY <1>2, <1>4, <4>1, <4>2, BehindAppended
      <3>2. d \in 0..Len(a) /\ i + 1 \in 1..Len(a) - d
        <4>1. Len(a) = c + 1 /\ c \in Nat /\ d \in 0..c
          BY <1>1, <1>2, <1>9
        <4> HIDE DEF a, c
        <4> QED BY <4>1
      <3> HIDE DEF a
      <3>3. Behind(a, d)[i + 1] = a[d + (i + 1)]
        BY <1>9, <3>2, BehindIs
      <3> QED BY <2>1, <3>1, <3>3
    <2> HIDE DEF a
    <2> QED BY <2>1, <2>2, <2>3
  <1>12. T!NewestTime(a) = time
    BY <1>9 DEF T!NewestTime
  <1>13. w.count - 1 = c - d /\ n \in 0..c - d /\ c \in Nat /\ d + n \in 0..c
    <2>1. w.count = c - d + 1 /\ c \in Nat /\ d \in 0..c
      BY <1>1, <1>2, <1>4
    <2> HIDE DEF c
    <2> QED BY <1>7, <2>1
  <1>14. T!Fits(a, d + n)
    <2>1. (c + 1) - (d + n) <= Cap
      <3>1. c <= Cap /\ Cap \in Nat /\ d \in {0, 1} /\ (d = 0 => c # Cap)
        BY <1>2, <1>8
      <3> HIDE DEF c
      <3> QED BY <1>13, <3>1
    <2>2. CASE n = c - d
      <3>1. a[d + n + 1] = row
        <4>1. d + n + 1 = c + 1
          <5> HIDE DEF c
          <5> QED BY <1>8, <1>13, <2>2
        <4> HIDE DEF a
        <4> QED BY <1>9, <4>1
      <3>2. time >= cutoff
        BY RingBounds
      <3> HIDE DEF a
      <3> QED BY <1>9, <1>12, <2>1, <3>1, <3>2 DEF T!Fits
    <2>3. CASE n # c - d
      <3>1. TimeAt(w, n) >= cutoff
        BY <1>7, <1>13, <2>3 DEF YoungFrom
      <3> HIDE DEF a
      <3>2. a[d + n + 1][1] >= cutoff
        BY <1>11, <1>13, <3>1
      <3> QED BY <1>9, <1>12, <2>1, <3>2 DEF T!Fits
    <2> QED BY <2>2, <2>3
  <1>15. ASSUME NEW m \in 0..d + n - 1 PROVE ~T!Fits(a, m)
    <2> SUFFICES ASSUME T!Fits(a, m) PROVE FALSE
      OBVIOUS
    <2> HIDE DEF a
    <2>1. (c + 1) - m <= Cap /\ a[m + 1][1] >= cutoff
      BY <1>9, <1>12 DEF T!Fits
    <2>2. m \in Nat /\ (m < d \/ (m - d \in 0..n - 1 /\ m - d \in 0..c - d /\ d + (m - d) + 1 = m + 1))
      <3> HIDE DEF c
      <3> QED BY <1>8, <1>13
    <2>3. ~(m < d)
      <3>1. d \in {0, 1} /\ Cap \in Nat /\ (d = 1 => c = Cap)
        BY <1>2, <1>8
      <3> HIDE DEF c
      <3> QED BY <1>13, <2>1, <2>2, <3>1
    <2>4. TimeAt(w, m - d) < cutoff
      BY <1>7, <2>2, <2>3 DEF YoungFrom
    <2>5. TimeAt(w, m - d) = a[m + 1][1]
      BY <1>11, <2>2, <2>3
    <2>6. TimeAt(w, m - d) \in Int /\ cutoff \in Int
      <3>1. w.count \in 0..Size(w) /\ Size(w) \in Nat /\ m - d \in 0..w.count - 1
        BY <1>4, <1>13, <2>2, <2>3, RingParts, RingIsOf
      <3>2. m - d \in 0..Size(w) - 1
        BY <3>1
      <3> QED BY <1>2, <1>4, <3>2, RowTypes
    <2> QED BY <2>1, <2>4, <2>5, <2>6
  <1>16. T!Kept(a) = Behind(a, d + n)
    <2>1. d + n \in 0..Len(a) - 1
      <3>1. Len(a) = c + 1
        BY <1>9
      <3> HIDE DEF a, c
      <3> QED BY <1>13, <3>1
    <2> DEFINE k == d + n
    <2> HIDE DEF a, k
    <2>2. T!Kept(a) = SubSeq(a, k + 1, Len(a))
      <3>1. k \in 0..Len(a) - 1 /\ T!Fits(a, k) /\ \A m \in 0..k - 1 : ~T!Fits(a, m)
        <4>1. k \in 0..Len(a) - 1
          BY <2>1 DEF k
        <4>2. T!Fits(a, k)
          BY <1>14 DEF k
        <4>3. \A m \in 0..k - 1 : ~T!Fits(a, m)
          <5> SUFFICES ASSUME NEW m \in 0..k - 1 PROVE ~T!Fits(a, m)
            OBVIOUS
          <5>1. m \in 0..d + n - 1
            <6>1. d \in Int /\ n \in Int /\ k = d + n /\ m \in 0..k - 1
              <7> HIDE DEF c
              <7> QED BY <1>8, <1>13 DEF k
            <6> QED BY <6>1
          <5> QED BY <1>15, <5>1
        <4> QED BY <4>1, <4>2, <4>3
      <3> QED BY <1>9, <3>1, KeptIs
    <2> QED BY <2>2 DEF Behind, k
  <1> QED BY <1>10, <1>16 DEF p, made


\* The newest row's value is replaced.
LEMMA ReplaceKeeps ==
    ASSUME NEW r \in Rings, r.count > 0, NEW value \in Marks
    PROVE  LET e == [r EXCEPT !.v[At(r, r.count - 1)] = value]
           IN /\ e \in Rings
              /\ RowsOf(e) = [RowsOf(r) EXCEPT ![r.count] = <<TimeAt(r, r.count - 1), value>>]
  <1> DEFINE size == Size(r)
             c == r.count
             slot == At(r, c - 1)
             v2 == [r.v EXCEPT ![slot] = value]
             e == [r EXCEPT !.v[slot] = value]
             new == [t |-> r.t, v |-> v2, head |-> r.head, count |-> c]
  <1>1. /\ size \in Initial..Cap /\ size \in Nat \ {0}
        /\ r.t \in [0..size - 1 -> Int] /\ r.v \in [0..size - 1 -> Marks]
        /\ r.head \in 0..size - 1 /\ c \in 1..size /\ c \in 0..size
        /\ r = [t |-> r.t, v |-> r.v, head |-> r.head, count |-> c]
    BY RingIsOf, RingParts
  <1>2. c - 1 \in 0..size - 1 /\ slot \in 0..size - 1
    <2>1. c - 1 \in 0..size - 1
      BY <1>1
    <2> QED BY <2>1, SlotIs
  <1>3. e = new
    <2>1. e = [r EXCEPT !.v = v2]
      OBVIOUS
    <2> HIDE DEF e, v2
    <2> QED BY <1>1, <2>1
  <1>4. new \in Rings /\ Size(new) = size
    <2>1. v2 \in [0..size - 1 -> Marks]
      BY <1>1 DEF Marks
    <2> HIDE DEF size, v2, c
    <2> QED BY <1>1, <2>1, RingMade
  <1>5. new.t = r.t /\ new.v = v2 /\ new.head = r.head /\ new.count = c
    <2> HIDE DEF v2
    <2> QED OBVIOUS
  <1> HIDE DEF new
  <1>6. \A i : At(new, i) = At(r, i)
    BY <1>4, <1>5 DEF At
  <1>7. ASSUME NEW i \in 1..c
        PROVE  RowsOf(new)[i] = [RowsOf(r) EXCEPT ![c] = <<TimeAt(r, c - 1), value>>][i]
    <2>1. i - 1 \in 0..size - 1 /\ c - 1 \in 0..size - 1
      BY <1>1
    <2>2. /\ RowsOf(new)[i] = <<TimeAt(new, i - 1), ValueAt(new, i - 1)>>
          /\ RowsOf(r)[i] = <<TimeAt(r, i - 1), ValueAt(r, i - 1)>>
          /\ i \in DOMAIN RowsOf(r)
      BY <1>4, <1>5, RowsAre
    <2>3. TimeAt(new, i - 1) = TimeAt(r, i - 1)
      BY <1>5, <1>6 DEF TimeAt
    <2>4. CASE i = c
      <3>1. ValueAt(new, i - 1) = value
        BY <1>1, <1>2, <1>5, <1>6, <2>4 DEF ValueAt
      <3> QED BY <2>2, <2>3, <2>4, <3>1
    <2>5. CASE i # c
      <3>1. At(r, i - 1) # slot /\ At(r, i - 1) \in 0..size - 1
        <4>1. i - 1 # c - 1
          BY <1>1, <2>5
        <4> QED BY <2>1, <4>1, SlotsApart, SlotIs
      <3>2. ValueAt(new, i - 1) = ValueAt(r, i - 1)
        BY <1>1, <1>5, <1>6, <3>1 DEF ValueAt
      <3> QED BY <2>2, <2>3, <2>5, <3>2
    <2> QED BY <2>4, <2>5
  <1>8. RowsOf(new) = [RowsOf(r) EXCEPT ![c] = <<TimeAt(r, c - 1), value>>]
    <2> DEFINE s == RowsOf(r)
               row == <<TimeAt(r, c - 1), value>>
    <2>1. s \in Seq(RingRows) /\ Len(s) = c /\ c \in Nat
      BY RowsAre
    <2>2. row \in RingRows
      BY <1>1, <1>2, RowTypes DEF RingRows, Marks
    <2>3. RowsOf(new) \in Seq(RingRows) /\ Len(RowsOf(new)) = c
      BY <1>4, <1>5, RowsAre
    <2>7. c \in 1..Len(s)
      BY <1>1, <2>1
    <2> HIDE DEF s, row, c
    <2>4. [s EXCEPT ![c] = row] \in Seq(RingRows) /\ Len([s EXCEPT ![c] = row]) = c
      BY <2>1, <2>2, <2>7, ExceptSeq
    <2>5. \A i \in 1..c : RowsOf(new)[i] = [s EXCEPT ![c] = row][i]
      BY <1>7 DEF s, row
    <2>6. RowsOf(new) = [s EXCEPT ![c] = row]
      BY <2>3, <2>4, <2>5, SeqEqual
    <2> QED BY <2>6 DEF s, row, c
  <1> QED BY <1>3, <1>4, <1>8

LEMMA ClearIsEmpty ==
    ASSUME NEW r \in Rings
    PROVE  Clear(r) \in Rings /\ Clear(r).count = 0
  <1> DEFINE size == Size(r)
             new == [t |-> r.t, v |-> r.v, head |-> 0, count |-> 0]
  <1>1. /\ size \in Initial..Cap /\ 0 \in 0..size - 1 /\ 0 \in 0..size
        /\ r.t \in [0..size - 1 -> Int] /\ r.v \in [0..size - 1 -> Marks]
        /\ r = [t |-> r.t, v |-> r.v, head |-> r.head, count |-> r.count]
    BY RingIsOf, RingParts
  <1>2. Clear(r) = new
    <2>1. Clear(r) = [r EXCEPT !.head = 0, !.count = 0]
      BY DEF Clear
    <2> HIDE DEF size
    <2> QED BY <1>1, <2>1
  <1>3. new \in Rings
    <2> HIDE DEF size
    <2> QED BY <1>1, RingMade
  <1> QED BY <1>2, <1>3

LEMMA KeptOfOne ==
    ASSUME NEW row \in RingRows
    PROVE  T!Kept(<<row>>) = <<row>>
  <1> DEFINE s == <<row>>
  <1>1. s \in Seq(RingRows) /\ s # <<>> /\ Len(s) = 1 /\ s[1] = row
    OBVIOUS
  <1>2. T!Fits(s, 0)
    <2>1. row[1] \in Int
      BY DEF RingRows
    <2>2. row[1] >= row[1] - WindowS /\ 1 - 0 <= Cap
      BY <2>1, RingBounds
    <2> QED BY <1>1, <2>2 DEF T!Fits, T!NewestTime
  <1>3. SubSeq(s, 1, 1) = s
    <2> DEFINE u == SubSeq(s, 1, 1)
    <2> HIDE DEF s
    <2>1. 1 \in Int /\ \A k \in 1..1 : s[k] \in RingRows
      BY <1>1
    <2>2. /\ u \in Seq(RingRows) /\ Len(u) = IF 1 <= 1 THEN 1 - 1 + 1 ELSE 0
          /\ \A i \in 1..1 - 1 + 1 : u[i] = s[1 + i - 1]
      BY <2>1, SubSeqProperties
    <2> HIDE DEF u
    <2>3. Len(u) = 1 /\ u[1] = s[1]
      BY <2>2
    <2>4. \A i \in 1..1 : u[i] = s[i]
      BY <2>3
    <2>5. u = s
      BY <1>1, <2>2, <2>3, <2>4, SeqEqual
    <2> QED BY <2>5 DEF u
  <1>4. T!Kept(s) = SubSeq(s, 0 + 1, Len(s))
    <2>1. 0 \in 0..Len(s) - 1 /\ \A m \in 0..0 - 1 : ~T!Fits(s, m)
      BY <1>1
    <2> HIDE DEF s
    <2> QED BY <1>1, <1>2, <2>1, KeptIs
  <1> QED BY <1>1, <1>3, <1>4

\* A push into a ring is a push onto its rows.
LEMMA PushIsPushed ==
    ASSUME NEW r \in Rings, NEW time \in Int, NEW value \in Marks
    PROVE  LET p == Push(r, time, value, WindowS)
           IN /\ p \in Rings /\ RowsOf(p) = T!Pushed(RowsOf(r), <<time, value>>)
  <1> DEFINE s == RowsOf(r)
             c == r.count
             row == <<time, value>>
             p == Push(r, time, value, WindowS)
  <1>1. /\ s \in Seq(RingRows) /\ Len(s) = c /\ c \in Nat
        /\ \A i \in 1..c : s[i] = <<TimeAt(r, i - 1), ValueAt(r, i - 1)>>
    BY RowsAre
  <1>2. c > 0 => T!NewestTime(s) = LastT(r) /\ LastT(r) = TimeAt(r, c - 1) /\ LastT(r) \in Int
    <2> SUFFICES ASSUME c > 0 PROVE T!NewestTime(s) = LastT(r) /\ LastT(r) = TimeAt(r, c - 1) /\ LastT(r) \in Int
      OBVIOUS
    <2>1. s[c] = <<TimeAt(r, c - 1), ValueAt(r, c - 1)>>
      BY <1>1
    <2>2. c - 1 \in 0..Size(r) - 1
      <3>1. c \in 0..Size(r) /\ Size(r) \in Nat
        BY RingParts, RingIsOf
      <3> QED BY <1>1, <3>1
    <2>3. LastT(r) = TimeAt(r, c - 1)
      BY <1>1 DEF LastT
    <2>4. T!NewestTime(s) = s[c][1]
      BY <1>1 DEF T!NewestTime
    <2> QED BY <2>1, <2>2, <2>3, <2>4, RowTypes
  <1>3. s = <<>> <=> c = 0
    BY <1>1
  <1>4. CASE c > 0 /\ time = LastT(r)
    <2>1. p = [r EXCEPT !.v[At(r, c - 1)] = value]
      BY <1>4 DEF Push
    <2>2. p \in Rings /\ RowsOf(p) = [s EXCEPT ![c] = <<TimeAt(r, c - 1), value>>]
      <3> HIDE DEF p
      <3> QED BY <1>4, <2>1, ReplaceKeeps
    <2>3. T!Pushed(s, row) = [s EXCEPT ![c] = row]
      <3>1. s # <<>> /\ row[1] = T!NewestTime(s) /\ ~(row[1] < T!NewestTime(s))
        BY <1>1, <1>2, <1>3, <1>4
      <3> HIDE DEF row
      <3> QED BY <1>1, <3>1 DEF T!Pushed
    <2> QED BY <1>2, <1>4, <2>2, <2>3
  <1>5. CASE (c > 0 /\ time < LastT(r)) \/ c = 0
    <2> DEFINE e == IF c > 0 /\ time < LastT(r) THEN Clear(r) ELSE r
    <2>1. e \in Rings /\ e.count = 0
      <3>1. Clear(r) \in Rings /\ Clear(r).count = 0
        BY ClearIsEmpty
      <3> QED BY <1>1, <1>5, <3>1
    <2>2. p = Append1(MakeRoom(e), time, value, WindowS)
      BY <1>2, <1>5 DEF Push
    <2>3. p \in Rings /\ RowsOf(p) = T!Kept(Append(RowsOf(e), row))
      <3> HIDE DEF e, p
      <3> QED BY <2>1, <2>2, AppendKeeps
    <2>4. RowsOf(e) = <<>>
      <3> HIDE DEF e
      <3> QED BY <2>1, RowsAre
    <2>5. T!Kept(<<row>>) = <<row>>
      <3>1. row \in RingRows
        BY DEF RingRows, Marks
      <3> HIDE DEF row
      <3> QED BY <3>1, KeptOfOne
    <2>7. Append(<<>>, row) = <<row>>
      <3> HIDE DEF row
      <3> QED OBVIOUS
    <2>6. T!Pushed(s, row) = <<row>>
      BY <1>1, <1>2, <1>3, <1>5 DEF T!Pushed
    <2> QED BY <2>3, <2>4, <2>5, <2>6, <2>7
  <1>6. CASE c > 0 /\ time > LastT(r)
    <2>1. p = Append1(MakeRoom(r), time, value, WindowS)
      BY <1>2, <1>6 DEF Push
    <2>2. p \in Rings /\ RowsOf(p) = T!Kept(Append(s, row))
      <3> HIDE DEF p
      <3> QED BY <2>1, AppendKeeps
    <2>3. T!Pushed(s, row) = T!Kept(Append(s, row))
      <3>1. s # <<>> /\ row[1] # T!NewestTime(s) /\ ~(row[1] < T!NewestTime(s))
        BY <1>1, <1>2, <1>3, <1>6
      <3> HIDE DEF row
      <3> QED BY <3>1 DEF T!Pushed
    <2> QED BY <2>2, <2>3
  <1> QED BY <1>1, <1>2, <1>4, <1>5, <1>6


\* f starts at base and goes on by its steps, m of them.
Goes(f, base, step, m) == f[0] = base /\ \A n \in 1..m : f[n] = step[n][f[n - 1]]

LEMMA Recursion ==
    ASSUME NEW V, NEW base \in V, NEW N \in Nat, NEW step \in [1..N -> [V -> V]]
    PROVE  \E f \in [0..N -> V] : Goes(f, base, step, N)
<1> DEFINE M == {m \in Nat : m <= N => \E f \in [0..m -> V] : Goes(f, base, step, m)}
<1>1. 0 \in M
  <2> DEFINE f == [i \in 0..0 |-> base]
  <2>1. f \in [0..0 -> V] /\ f[0] = base
    OBVIOUS
  <2>2. Goes(f, base, step, 0)
    BY <2>1 DEF Goes
  <2> HIDE DEF f
  <2> QED BY <2>1, <2>2
<1>2. ASSUME NEW m \in Nat, m \in M PROVE m + 1 \in M
  <2> SUFFICES ASSUME m + 1 <= N
               PROVE  \E f \in [0..m + 1 -> V] : Goes(f, base, step, m + 1)
    OBVIOUS
  <2>1. PICK g \in [0..m -> V] : Goes(g, base, step, m)
    BY <1>2
  <2> DEFINE next == step[m + 1][g[m]]
             f == [i \in 0..m + 1 |-> IF i = m + 1 THEN next ELSE g[i]]
  <2>2. next \in V
    <3>1. g[m] \in V /\ m + 1 \in 1..N
      OBVIOUS
    <3> QED BY <3>1
  <2> HIDE DEF next
  <2>3. f \in [0..m + 1 -> V]
    BY <2>2
  <2>4. \A i \in 0..m : f[i] = g[i]
    OBVIOUS
  <2>5. f[m + 1] = next
    OBVIOUS
  <2> HIDE DEF f
  <2>6. f[0] = base
    BY <2>1, <2>4 DEF Goes
  <2>7. ASSUME NEW n \in 1..m + 1 PROVE f[n] = step[n][f[n - 1]]
    <3>1. n - 1 \in 0..m /\ f[n - 1] = g[n - 1]
      BY <2>4
    <3>2. CASE n = m + 1
      <4>1. n - 1 = m
        BY <3>2
      <4> QED BY <2>5, <3>1, <3>2, <4>1 DEF next
    <3>3. CASE n # m + 1
      <4>1. n \in 1..m /\ f[n] = g[n]
        BY <2>4, <3>3
      <4> QED BY <2>1, <3>1, <4>1 DEF Goes
    <3> QED BY <3>2, <3>3
  <2> QED BY <2>3, <2>6, <2>7 DEF Goes
<1>3. N \in M
  <2> HIDE DEF M
  <2> QED BY <1>1, <1>2, Induction
<1> QED BY <1>3

LEMMA PushAllGoes ==
    ASSUME NEW e \in Rings, NEW l \in Seq(RingRows)
    PROVE  \E f \in [0..Len(l) -> Rings] :
             /\ f[0] = e
             /\ \A n \in 1..Len(l) : f[n] = Push(f[n - 1], l[n][1], l[n][2], WindowS)
             /\ PushAll(e, l, WindowS) = f[Len(l)]
  <1> DEFINE N == Len(l)
             step == [n \in 1..N |-> [r \in Rings |-> Push(r, l[n][1], l[n][2], WindowS)]]
             Whole(g) == [n \in 0..N |-> IF n = 0 THEN e ELSE Push(g[n - 1], l[n][1], l[n][2], WindowS)]
             t == CHOOSE g : g = Whole(g)
  <1>1. N \in Nat
    OBVIOUS
  <1>2. step \in [1..N -> [Rings -> Rings]]
    <2> SUFFICES ASSUME NEW n \in 1..N, NEW r \in Rings
                 PROVE  Push(r, l[n][1], l[n][2], WindowS) \in Rings
      OBVIOUS
    <2>1. l[n] \in RingRows
      BY ElementOfSeq
    <2>2. l[n][1] \in Int /\ l[n][2] \in Marks
      BY <2>1 DEF RingRows
    <2> QED BY <2>2, PushIsPushed
  <1>3. PICK f \in [0..N -> Rings] : Goes(f, e, step, N)
    <2> HIDE DEF step, N
    <2> QED BY <1>1, <1>2, Recursion
  <1>4. \A n \in 1..N : f[n] = Push(f[n - 1], l[n][1], l[n][2], WindowS)
    <2> SUFFICES ASSUME NEW n \in 1..N PROVE f[n] = Push(f[n - 1], l[n][1], l[n][2], WindowS)
      OBVIOUS
    <2>1. f[n - 1] \in Rings
      <3> HIDE DEF N
      <3>1. n - 1 \in 0..N
        BY <1>1
      <3> QED BY <3>1
    <2>2. f[n] = step[n][f[n - 1]]
      <3> HIDE DEF step
      <3> QED BY <1>3 DEF Goes
    <2> QED BY <2>1, <2>2
  <1>5. f = Whole(f)
    <2>1. f[0] = e
      BY <1>3 DEF Goes
    <2>2. \A n \in 0..N : f[n] = IF n = 0 THEN e ELSE Push(f[n - 1], l[n][1], l[n][2], WindowS)
      <3> HIDE DEF N
      <3> QED BY <1>1, <1>4, <2>1
    <2> HIDE DEF N
    <2> QED BY <2>2
  <1>6. t = Whole(t)
    <2> HIDE DEF Whole
    <2> QED BY <1>5
  <1>7. PushAll(e, l, WindowS) = t[N]
    BY DEF PushAll
  <1> HIDE DEF t
  <1>8. \A n \in 0..N : t[n] = IF n = 0 THEN e ELSE Push(t[n - 1], l[n][1], l[n][2], WindowS)
    <2> HIDE DEF N
    <2> QED BY <1>6
  <1> DEFINE M == {n \in Nat : n <= N => t[n] = f[n]}
  <1>9. 0 \in M
    <2> HIDE DEF N
    <2> QED BY <1>1, <1>3, <1>8 DEF Goes
  <1>10. ASSUME NEW n \in Nat, n \in M PROVE n + 1 \in M
    <2> SUFFICES ASSUME n + 1 <= N PROVE t[n + 1] = f[n + 1]
      OBVIOUS
    <2> HIDE DEF N
    <2>1. n + 1 \in 1..N /\ n + 1 \in 0..N /\ n + 1 # 0 /\ (n + 1) - 1 = n /\ n <= N
      BY <1>1
    <2>2. t[n] = f[n]
      BY <1>10, <2>1
    <2> QED BY <1>4, <1>8, <2>1, <2>2
  <1>11. N \in M
    <2> HIDE DEF M
    <2> QED BY <1>1, <1>9, <1>10, Induction
  <1>12. t[N] = f[N]
    BY <1>1, <1>11
  <1> QED BY <1>3, <1>4, <1>7, <1>12 DEF Goes


NewestOf(s) == s[Len(s)][1]

\* What Kept leaves is an end of it, with the newest row.
LEMMA KeptEnds ==
    ASSUME NEW s \in Seq(RingRows), s # <<>>
    PROVE  /\ \E n \in 0..Len(s) - 1 : /\ T!Kept(s) = Behind(s, n) /\ T!Fits(s, n)
                                       /\ \A m \in 0..n - 1 : ~T!Fits(s, m)
           /\ T!Kept(s) \in Seq(RingRows) /\ T!Kept(s) # <<>> /\ NewestOf(T!Kept(s)) = NewestOf(s)
           /\ T!Ascends(s) => T!Ascends(T!Kept(s))
  <1>1. PICK n \in 0..Len(s) - 1 : T!Fits(s, n) /\ \A m \in 0..n - 1 : ~T!Fits(s, m)
    BY KeptExists
  <1> DEFINE b == Behind(s, n)
             c == Len(s)
  <1>2. T!Kept(s) = b
    BY <1>1, KeptIs DEF Behind
  <1>3. c \in Nat /\ n \in 0..c - 1 /\ n \in 0..c
    OBVIOUS
  <1>4. b \in Seq(RingRows) /\ Len(b) = c - n /\ \A i \in 1..c - n : b[i] = s[n + i]
    BY <1>3, BehindIs
  <1> HIDE DEF b
  <1>5. b # <<>> /\ NewestOf(b) = NewestOf(s)
    <2> HIDE DEF c
    <2>1. c - n \in 1..c - n /\ n + (c - n) = c /\ c - n > 0
      BY <1>3
    <2>2. b[c - n] = s[c]
      BY <1>4, <2>1
    <2>3. b # <<>>
      BY <1>4, <2>1
    <2> QED BY <1>4, <2>2, <2>3 DEF NewestOf, c
  <1>6. ASSUME T!Ascends(s) PROVE T!Ascends(b)
    <2>0. DOMAIN s = 1..c
      OBVIOUS
    <2> HIDE DEF c
    <2> SUFFICES ASSUME NEW i \in 1..c - n, NEW j \in 1..c - n, i < j PROVE b[i][1] < b[j][1]
      BY <1>4 DEF T!Ascends
    <2>1. n + i \in 1..c /\ n + j \in 1..c /\ n + i < n + j
      BY <1>3
    <2>2. s[n + i][1] < s[n + j][1]
      BY <1>6, <2>0, <2>1 DEF T!Ascends
    <2> QED BY <1>4, <2>2
  <1> QED BY <1>1, <1>2, <1>4, <1>5, <1>6 DEF b

\* What goes first need not be there when more is kept of what comes behind it.
LEMMA KeptOfKept ==
    ASSUME NEW s \in Seq(RingRows), s # <<>>, NEW row \in RingRows, row[1] > NewestOf(s)
    PROVE  T!Kept(Append(T!Kept(s), row)) = T!Kept(Append(s, row))
  <1>1. PICK n \in 0..Len(s) - 1 : /\ T!Kept(s) = Behind(s, n) /\ T!Fits(s, n)
                                   /\ \A m \in 0..n - 1 : ~T!Fits(s, m)
    BY KeptEnds
  <1> DEFINE c == Len(s)
             a == Append(s, row)
             b == Behind(a, n)
  <1>2. c \in Nat /\ n \in 0..c - 1 /\ n \in 0..c /\ n \in 0..Len(s)
    OBVIOUS
  <1>3. /\ a \in Seq(RingRows) /\ Len(a) = c + 1 /\ a[c + 1] = row
        /\ \A i \in 1..c : a[i] = s[i]
    BY AppendProperties
  <1>4. Append(T!Kept(s), row) = b
    BY <1>1, <1>2, BehindAppended
  <1> HIDE DEF a
  <1>5. b \in Seq(RingRows) /\ Len(b) = c + 1 - n /\ \A i \in 1..c + 1 - n : b[i] = a[n + i]
    <2>1. n \in 0..Len(a)
      <3> HIDE DEF c
      <3> QED BY <1>2, <1>3
    <2>2. b \in Seq(RingRows) /\ Len(b) = Len(a) - n /\ \A i \in 1..Len(a) - n : b[i] = a[n + i]
      BY <1>3, <2>1, BehindIs
    <2> HIDE DEF b, c
    <2> QED BY <1>2, <1>3, <2>2
  <1> HIDE DEF b, c
  <1>6. T!NewestTime(a) = row[1] /\ T!NewestTime(b) = row[1] /\ b # <<>> /\ a # <<>>
    <2>1. c + 1 - n \in 1..c + 1 - n /\ n + (c + 1 - n) = c + 1 /\ c + 1 - n > 0
      BY <1>2
    <2>2. b[c + 1 - n] = row
      BY <1>3, <1>5, <2>1
    <2> QED BY <1>2, <1>3, <1>5, <2>1, <2>2 DEF T!NewestTime
  <1>7. PICK k \in 0..Len(b) - 1 : /\ T!Kept(b) = Behind(b, k) /\ T!Fits(b, k)
                                   /\ \A m \in 0..k - 1 : ~T!Fits(b, m)
    BY <1>5, <1>6, KeptEnds
  <1>8. k \in 0..c - n /\ n + k \in 0..c /\ k \in 0..Len(a) - n
    BY <1>2, <1>3, <1>5, <1>7
  <1>9. \A m \in 0..c - n : T!Fits(b, m) <=> T!Fits(a, n + m)
    <2> SUFFICES ASSUME NEW m \in 0..c - n PROVE T!Fits(b, m) <=> T!Fits(a, n + m)
      OBVIOUS
    <2>1. m + 1 \in 1..c + 1 - n /\ n + (m + 1) = (n + m) + 1 /\ (c + 1 - n) - m = (c + 1) - (n + m)
      BY <1>2
    <2>2. b[m + 1] = a[(n + m) + 1]
      BY <1>5, <2>1
    <2>3. Len(b) - m = Len(a) - (n + m)
      BY <1>2, <1>3, <1>5, <2>1
    <2> QED BY <1>6, <2>2, <2>3 DEF T!Fits
  <1>10. T!Fits(a, n + k)
    BY <1>7, <1>8, <1>9
  <1>11. ASSUME NEW m \in Nat, m < n PROVE ~T!Fits(a, m)
    <2>1. ~T!Fits(s, m) /\ m + 1 \in 1..c
      BY <1>1, <1>2, <1>11
    <2>2. s[m + 1][1] \in Int /\ NewestOf(s) \in Int /\ row[1] \in Int
      <3>1. s[m + 1] \in RingRows /\ s[c] \in RingRows
        BY <1>2, <2>1, ElementOfSeq DEF c
      <3> QED BY <3>1 DEF RingRows, NewestOf, c
    <2>3. c - m > Cap \/ s[m + 1][1] < NewestOf(s) - WindowS
      <3>1. ~(c - m <= Cap /\ s[m + 1][1] >= NewestOf(s) - WindowS)
        BY <2>1 DEF T!Fits, T!NewestTime, NewestOf, c
      <3> QED BY <1>2, <2>2, <3>1, RingBounds
    <2>4. a[m + 1] = s[m + 1]
      BY <1>3, <2>1
    <2>5. CASE c - m > Cap
      <3>1. ~(c + 1 - m <= Cap)
        BY <1>2, <2>5, RingBounds
      <3> QED BY <1>2, <1>3, <3>1 DEF T!Fits
    <2>6. CASE s[m + 1][1] < NewestOf(s) - WindowS
      <3>1. ~(a[m + 1][1] >= row[1] - WindowS)
        BY <2>2, <2>4, <2>6, RingBounds
      <3> QED BY <1>6, <3>1 DEF T!Fits
    <2> QED BY <2>3, <2>5, <2>6
  <1> DEFINE d == n + k
  <1>12. ASSUME NEW m \in 0..d - 1 PROVE ~T!Fits(a, m)
    <2>1. CASE m < n
      BY <1>11, <2>1
    <2>2. CASE m >= n
      <3>1. m - n \in 0..k - 1 /\ m - n \in 0..c - n /\ n + (m - n) = m
        BY <1>2, <1>8, <2>2
      <3> QED BY <1>7, <1>9, <3>1
    <2> QED BY <1>2, <1>8, <2>1, <2>2
  <1>13. d \in 0..Len(a) - 1
    BY <1>2, <1>3, <1>8
  <1>14. T!Fits(a, d)
    BY <1>10
  <1>15. Behind(b, k) = Behind(a, d)
    BY <1>2, <1>3, <1>8, BehindTwice DEF b
  <1> HIDE DEF d
  <1>16. T!Kept(a) = Behind(a, d)
    BY <1>3, <1>6, <1>12, <1>13, <1>14, KeptIs DEF Behind
  <1> QED BY <1>4, <1>7, <1>15, <1>16 DEF a


Upto(s, n) == SubSeq(s, 1, n)

LEMMA UptoIs ==
    ASSUME NEW S, NEW s \in Seq(S), NEW n \in 0..Len(s)
    PROVE  /\ Upto(s, n) \in Seq(S) /\ Len(Upto(s, n)) = n
           /\ \A i \in 1..n : Upto(s, n)[i] = s[i]
           /\ n < Len(s) => Append(Upto(s, n), s[n + 1]) = Upto(s, n + 1)
           /\ n = Len(s) => Upto(s, n) = s
  <1> DEFINE c == Len(s)
  <1>1. c \in Nat /\ n \in 0..c
    OBVIOUS
  <1>2. ASSUME NEW m \in 0..c
        PROVE  Upto(s, m) \in Seq(S) /\ Len(Upto(s, m)) = m /\ \A i \in 1..m : Upto(s, m)[i] = s[i]
    <2> DEFINE u == SubSeq(s, 1, m)
    <2>1. 1 \in Int /\ m \in Int /\ \A k \in 1..m : s[k] \in S
      <3>1. ASSUME NEW k \in 1..m PROVE s[k] \in S
        <4>1. k \in 1..Len(s)
          BY <1>1
        <4> QED BY <4>1, ElementOfSeq
      <3> QED BY <1>1, <3>1
    <2>2. /\ u \in Seq(S) /\ Len(u) = IF 1 <= m THEN m - 1 + 1 ELSE 0
          /\ \A i \in 1..m - 1 + 1 : u[i] = s[1 + i - 1]
      BY <2>1, SubSeqProperties
    <2> HIDE DEF u
    <2>3. Len(u) = m /\ \A i \in 1..m : u[i] = s[i]
      <3>1. m \in Nat
        BY <1>1
      <3> QED BY <2>2, <3>1
    <2> QED BY <2>2, <2>3 DEF u, Upto
  <1>3. ASSUME n < c PROVE Append(Upto(s, n), s[n + 1]) = Upto(s, n + 1)
    <2> DEFINE u == Upto(s, n)
               x == s[n + 1]
               v == Append(u, x)
               w == Upto(s, n + 1)
    <2>1. x \in S
      <3>1. n + 1 \in 1..Len(s)
        BY <1>1, <1>3
      <3> QED BY <3>1, ElementOfSeq
    <2>2. u \in Seq(S) /\ Len(u) = n /\ \A i \in 1..n : u[i] = s[i]
      BY <1>2
    <2>3. n + 1 \in 0..c
      <3> HIDE DEF c
      <3> QED BY <1>1, <1>3
    <2>4. w \in Seq(S) /\ Len(w) = n + 1 /\ \A i \in 1..n + 1 : w[i] = s[i]
      BY <1>2, <2>3
    <2> HIDE DEF u, x, w, c
    <2>5. v \in Seq(S) /\ Len(v) = n + 1 /\ v[n + 1] = x /\ \A i \in 1..n : v[i] = u[i]
      <3>1. /\ v \in Seq(S) /\ Len(v) = Len(u) + 1 /\ v[Len(u) + 1] = x
            /\ \A i \in 1..Len(u) : v[i] = u[i]
        BY <2>1, <2>2, AppendProperties
      <3> HIDE DEF v
      <3> QED BY <2>2, <3>1
    <2> HIDE DEF v
    <2>6. \A i \in 1..n + 1 : v[i] = w[i]
      <3> SUFFICES ASSUME NEW i \in 1..n + 1 PROVE v[i] = w[i]
        OBVIOUS
      <3>1. CASE i = n + 1
        BY <1>1, <2>4, <2>5, <3>1 DEF x
      <3>2. CASE i # n + 1
        <4>1. i \in 1..n
          BY <1>1, <3>2
        <4> QED BY <2>2, <2>4, <2>5, <4>1
      <3> QED BY <3>1, <3>2
    <2>7. v = w
      BY <2>4, <2>5, <2>6, SeqEqual
    <2> QED BY <2>7 DEF u, v, w, x
  <1>4. ASSUME n = c PROVE Upto(s, n) = s
    <2> DEFINE u == Upto(s, n)
    <2>1. u \in Seq(S) /\ Len(u) = n /\ \A i \in 1..n : u[i] = s[i]
      BY <1>2
    <2> HIDE DEF u
    <2>2. u = s
      BY <1>4, <2>1, SeqEqual
    <2> QED BY <2>2 DEF u
  <1> QED BY <1>2, <1>3, <1>4

\* A row newer than all there is.
LEMMA PushedBehind ==
    ASSUME NEW s \in Seq(RingRows), s # <<>>, NEW row \in RingRows, row[1] > NewestOf(s)
    PROVE  T!Pushed(s, row) = T!Kept(Append(s, row))
  <1>1. NewestOf(s) \in Int /\ row[1] \in Int
    <2>1. s[Len(s)] \in RingRows
      BY ElementOfSeq
    <2> QED BY <2>1 DEF RingRows, NewestOf
  <1>2. ~(row[1] < T!NewestTime(s)) /\ row[1] # T!NewestTime(s)
    BY <1>1 DEF T!NewestTime, NewestOf
  <1> QED BY <1>2 DEF T!Pushed

\* RingRows in the order of their times, pushed into an empty ring.
LEMMA PushAllKeeps ==
    ASSUME NEW e \in Rings, e.count = 0, NEW l \in Seq(RingRows), T!Ascends(l)
    PROVE  /\ PushAll(e, l, WindowS) \in Rings
           /\ RowsOf(PushAll(e, l, WindowS)) = IF l = <<>> THEN <<>> ELSE T!Kept(l)
  <1> DEFINE N == Len(l)
  <1>1. PICK f \in [0..N -> Rings] :
           /\ f[0] = e
           /\ \A n \in 1..N : f[n] = Push(f[n - 1], l[n][1], l[n][2], WindowS)
           /\ PushAll(e, l, WindowS) = f[N]
    BY PushAllGoes
  <1>2. l \in Seq(RingRows) /\ N \in Nat /\ \A n \in 1..N : l[n] \in RingRows
    <2>1. \A n \in 1..N : l[n] \in RingRows
      BY ElementOfSeq
    <2> QED BY <2>1
  <1> DEFINE Good(n) == RowsOf(f[n]) = IF n = 0 THEN <<>> ELSE T!Kept(Upto(l, n))
             M == {n \in Nat : n <= N => Good(n)}
  <1>3. 0 \in M
    <2>1. e.count = 0 /\ RowsOf(e) \in Seq(RingRows) /\ Len(RowsOf(e)) = e.count
      BY RowsAre
    <2>2. RowsOf(e) = <<>>
      BY <2>1
    <2> QED BY <1>1, <2>2
  <1>4. ASSUME NEW n \in Nat, n \in M PROVE n + 1 \in M
    <2> SUFFICES ASSUME n + 1 <= N PROVE Good(n + 1)
      OBVIOUS
    <2> DEFINE row == l[n + 1]
               s == Upto(l, n)
    <2>1. n + 1 \in 1..N /\ n \in 0..N /\ n < N /\ (n + 1) - 1 = n /\ n <= N
      <3> HIDE DEF N
      <3> QED BY <1>2
    <2>2. RowsOf(f[n]) = IF n = 0 THEN <<>> ELSE T!Kept(s)
      BY <1>4, <2>1
    <2>3. row \in RingRows /\ row = <<row[1], row[2]>> /\ row[1] \in Int /\ row[2] \in Marks
      <3>1. row \in RingRows
        BY <1>2, <2>1
      <3> HIDE DEF row
      <3> QED BY <3>1 DEF RingRows
    <2>4. f[n + 1] = Push(f[n], row[1], row[2], WindowS)
      BY <1>1, <2>1
    <2> HIDE DEF row, N
    <2>5. RowsOf(f[n + 1]) = T!Pushed(RowsOf(f[n]), row)
      <3>1. f[n] \in Rings
        BY <1>1, <2>1
      <3> QED BY <2>3, <2>4, <3>1, PushIsPushed
    <2>6. s \in Seq(RingRows) /\ Len(s) = n /\ (\A i \in 1..n : s[i] = l[i]) /\ Append(s, row) = Upto(l, n + 1)
      <3>1. n \in 0..Len(l) /\ n < Len(l)
        BY <2>1 DEF N
      <3>2. /\ Upto(l, n) \in Seq(RingRows) /\ Len(Upto(l, n)) = n
            /\ \A i \in 1..n : Upto(l, n)[i] = l[i]
            /\ Append(Upto(l, n), l[n + 1]) = Upto(l, n + 1)
        BY <1>2, <3>1, UptoIs
      <3> QED BY <3>2 DEF row
    <2>7. CASE n = 0
      <3>1. T!Pushed(<<>>, row) = <<row>>
        BY DEF T!Pushed
      <3>2. s = <<>>
        BY <2>6, <2>7
      <3>3. Upto(l, n + 1) = <<row>>
        BY <2>6, <3>2
      <3>4. T!Kept(<<row>>) = <<row>>
        BY <2>3, KeptOfOne
      <3> QED BY <2>2, <2>5, <2>7, <3>1, <3>3, <3>4
    <2>8. CASE n # 0
      <3>1. s # <<>> /\ NewestOf(s) = l[n][1]
        BY <2>6, <2>8 DEF NewestOf
      <3>2. l[n][1] < row[1] /\ l[n][1] \in Int
        <4>1. n \in 1..N /\ n < n + 1 /\ DOMAIN l = 1..N
          BY <1>2, <2>1, <2>8 DEF N
        <4>2. l[n] \in RingRows
          BY <1>2, <4>1
        <4> QED BY <2>1, <4>1, <4>2 DEF T!Ascends, row, RingRows
      <3>3. row[1] > NewestOf(s)
        BY <2>3, <3>1, <3>2
      <3> DEFINE k == T!Kept(s)
      <3>4. k \in Seq(RingRows) /\ k # <<>> /\ NewestOf(k) = NewestOf(s)
        BY <2>6, <3>1, KeptEnds
      <3> HIDE DEF s, k
      <3>5. T!Pushed(k, row) = T!Kept(Append(k, row))
        BY <2>3, <3>3, <3>4, PushedBehind
      <3>6. T!Kept(Append(k, row)) = T!Kept(Append(s, row))
        BY <2>3, <2>6, <3>1, <3>3, KeptOfKept DEF k
      <3>7. n + 1 # 0 /\ RowsOf(f[n]) = k
        BY <2>2, <2>8 DEF k
      <3> QED BY <2>5, <2>6, <3>5, <3>6, <3>7
    <2> QED BY <2>7, <2>8
  <1>5. N \in M
    <2> HIDE DEF M
    <2> QED BY <1>2, <1>3, <1>4, Induction
  <1>6. Good(N)
    BY <1>2, <1>5
  <1>7. N # 0 => Upto(l, N) = l
    <2>1. N \in 0..Len(l) /\ N = Len(l)
      BY <1>2
    <2> QED BY <1>2, <2>1, UptoIs
  <1>8. l = <<>> <=> N = 0
    BY <1>2
  <1>9. f[N] \in Rings
    BY <1>1, <1>2
  <1> QED BY <1>1, <1>6, <1>7, <1>8, <1>9


LEMMA PrependIsPrepended ==
    ASSUME NEW r \in Rings, T!Ascends(RowsOf(r)), NEW h \in Seq(RingRows), T!Ascends(h)
    PROVE  /\ Prepend(r, h) \in Rings /\ RowsOf(Prepend(r, h)) = T!Prepended(RowsOf(r), h)
           /\ T!Ascends(RowsOf(Prepend(r, h)))
  <1> DEFINE s == RowsOf(r)
             c == r.count
             N == Len(h)
             Ahead(n) == /\ \A i \in 1..n : r.count = 0 \/ h[i][1] < FirstT(r)
                         /\ n = Len(h) \/ (r.count > 0 /\ h[n + 1][1] >= FirstT(r))
             n == CHOOSE n \in 0..Len(h) : Ahead(n)
             l == Upto(h, n) \o s
  <1>1. /\ s \in Seq(RingRows) /\ Len(s) = c /\ c \in Nat /\ N \in Nat
        /\ \A i \in 1..c : s[i] = <<TimeAt(r, i - 1), ValueAt(r, i - 1)>>
    BY RowsAre
  <1>2. c > 0 => FirstT(r) = s[1][1] /\ FirstT(r) \in Int
    <2> SUFFICES ASSUME c > 0 PROVE FirstT(r) = s[1][1] /\ FirstT(r) \in Int
      OBVIOUS
    <2>1. 1 \in 1..c /\ s[1] = <<TimeAt(r, 0), ValueAt(r, 0)>>
      BY <1>1
    <2>2. r.head \in 0..Size(r) - 1 /\ Size(r) \in Nat \ {0}
      BY RingParts, RingIsOf
    <2>3. At(r, 0) = r.head
      <3>1. 0 \in 0..Size(r) - 1 /\ r.head + 0 = r.head /\ r.head < Size(r)
        BY <2>2
      <3> QED BY <3>1, SlotIs DEF Wrapped
    <2>4. FirstT(r) = TimeAt(r, 0)
      BY <1>1, <2>3 DEF FirstT, TimeAt
    <2>5. 0 \in 0..Size(r) - 1
      BY <2>2
    <2> QED BY <2>1, <2>4, <2>5, RowTypes
  <1>3. \A i \in 1..N : h[i] \in RingRows /\ h[i][1] \in Int
    <2>1. \A i \in 1..N : h[i] \in RingRows
      BY ElementOfSeq
    <2> QED BY <2>1 DEF RingRows
  <1>4. n \in 0..N /\ Ahead(n)
    <2>1. \E m \in 0..N : Ahead(m)
      <3> DEFINE M == {m \in 0..N : m = N \/ (c > 0 /\ h[m + 1][1] >= FirstT(r))}
      <3>1. M # {} /\ M \subseteq Nat
        BY <1>1
      <3>2. PICK m \in M : \A k \in M : m <= k
        <4> HIDE DEF M
        <4> QED BY <3>1, LeastOf
      <3>3. ASSUME NEW i \in 1..m, c # 0 PROVE h[i][1] < FirstT(r)
        <4>1. i - 1 \notin M
          <5>1. m \in Nat /\ \A k \in M : m <= k
            BY <3>1, <3>2
          <5>2. ~(m <= i - 1)
            BY <5>1
          <5> HIDE DEF M
          <5> QED BY <5>1, <5>2
        <4>2. i - 1 \in 0..N /\ i - 1 # N /\ (i - 1) + 1 = i /\ i \in 1..N
          BY <1>1
        <4>3. ~(h[i][1] >= FirstT(r)) /\ c > 0
          BY <1>1, <3>3, <4>1, <4>2
        <4> QED BY <1>2, <1>3, <4>2, <4>3
      <3> QED BY <3>2, <3>3
    <2> HIDE DEF Ahead
    <2> QED BY <2>1
  <1> HIDE DEF n
  <1>5. T!Older(s, h) = Upto(h, n)
    <2> DEFINE early(i) == s = <<>> \/ h[i][1] < s[1][1]
               First(m) == (\A i \in 1..m : early(i)) /\ (m = Len(h) \/ ~early(m + 1))
               k == CHOOSE m \in 0..Len(h) : First(m)
    <2>1. T!Older(s, h) = SubSeq(h, 1, k)
      BY DEF T!Older
    <2>2. s = <<>> <=> c = 0
      BY <1>1
    <2> HIDE DEF s, c
    <2>3. First(n)
      <3>1. \A i \in 1..n : early(i)
        <4>1. c = 0 \/ (c > 0 /\ FirstT(r) = s[1][1])
          BY <1>1, <1>2
        <4>2. \A i \in 1..n : c = 0 \/ h[i][1] < FirstT(r)
          BY <1>4 DEF c
        <4> QED BY <2>2, <4>1, <4>2
      <3>2. n # N => ~early(n + 1)
        <4> SUFFICES ASSUME n # N PROVE ~early(n + 1)
          OBVIOUS
        <4>1. c > 0 /\ h[n + 1][1] >= FirstT(r) /\ n + 1 \in 1..N
          BY <1>1, <1>4 DEF c
        <4> QED BY <1>2, <1>3, <2>2, <4>1
      <3> QED BY <3>1, <3>2
    <2> HIDE DEF First
    <2>4. k \in 0..Len(h) /\ First(k)
      BY <1>4, <2>3
    <2> HIDE DEF k
    <2>5. k \in Nat /\ n \in Nat /\ N \in Nat /\ k <= N /\ n <= N
      BY <1>1, <1>4, <2>4
    <2>6. ~(k < n)
      <3> SUFFICES ASSUME k < n PROVE FALSE
        OBVIOUS
      <3>1. k + 1 \in 1..n /\ k # N
        BY <2>5
      <3> QED BY <2>3, <2>4, <3>1 DEF First
    <2>7. ~(n < k)
      <3> SUFFICES ASSUME n < k PROVE FALSE
        OBVIOUS
      <3>1. n + 1 \in 1..k /\ n # N
        BY <2>5
      <3> QED BY <2>3, <2>4, <3>1 DEF First
    <2>8. k = n
      BY <2>5, <2>6, <2>7
    <2> QED BY <2>1, <2>8 DEF Upto
  <1>6. /\ Upto(h, n) \in Seq(RingRows) /\ Len(Upto(h, n)) = n
        /\ \A i \in 1..n : Upto(h, n)[i] = h[i]
    BY <1>4, UptoIs
  <1> DEFINE u == Upto(h, n)
  <1>7. /\ l \in Seq(RingRows) /\ Len(l) = n + c
        /\ \A i \in 1..n : l[i] = u[i]
        /\ \A i \in 1..c : l[n + i] = s[i]
    <2> HIDE DEF s, u
    <2>1. /\ u \o s \in Seq(RingRows) /\ Len(u \o s) = Len(u) + Len(s)
          /\ \A i \in 1..Len(u) + Len(s) : (u \o s)[i] = IF i <= Len(u) THEN u[i] ELSE s[i - Len(u)]
      BY <1>1, <1>6, ConcatProperties DEF u
    <2>2. l = u \o s /\ Len(u) = n /\ n \in Nat
      BY <1>4, <1>6 DEF u
    <2> DEFINE v == u \o s
    <2> HIDE DEF v, l, c
    <2>3. v \in Seq(RingRows) /\ Len(v) = n + c /\ \A i \in 1..n + c : v[i] = IF i <= n THEN u[i] ELSE s[i - n]
      BY <1>1, <2>1, <2>2 DEF v
    <2>4. \A i \in 1..n : v[i] = u[i]
      BY <1>1, <2>2, <2>3
    <2>5. ASSUME NEW i \in 1..c PROVE v[n + i] = s[i]
      <3>1. n + i \in 1..n + c /\ ~(n + i <= n) /\ (n + i) - n = i
        BY <1>1, <2>2
      <3> QED BY <2>3, <3>1
    <2> QED BY <2>2, <2>3, <2>4, <2>5 DEF v
  <1>8. T!Ascends(l)
    <2> HIDE DEF l, s, u, c
    <2> SUFFICES ASSUME NEW i \in 1..n + c, NEW j \in 1..n + c, i < j PROVE l[i][1] < l[j][1]
      BY <1>7 DEF T!Ascends
    <2>1. n \in Nat /\ c \in Nat /\ n <= N /\ N \in Nat
      BY <1>1, <1>4
    <2>2. CASE j <= n
      <3>1. i \in 1..n /\ j \in 1..n /\ i \in DOMAIN h /\ j \in DOMAIN h
        BY <2>1, <2>2
      <3> QED BY <1>6, <1>7, <3>1 DEF T!Ascends, u
    <2>3. CASE i <= n /\ j > n
      <3>1. i \in 1..n /\ j - n \in 1..c /\ n + (j - n) = j /\ i \in 1..N /\ 1 \in 1..c /\ c > 0
        BY <2>1, <2>3
      <3>2. l[i] = h[i] /\ l[j] = s[j - n]
        BY <1>6, <1>7, <3>1 DEF u
      <3>3. h[i][1] < s[1][1]
        BY <1>2, <1>4, <3>1 DEF c
      <3>4. s[1][1] <= s[j - n][1] /\ s[1][1] \in Int /\ s[j - n][1] \in Int
        <4>1. s[1] \in RingRows /\ s[j - n] \in RingRows
          BY <1>1, <3>1, ElementOfSeq
        <4>2. j - n = 1 \/ 1 < j - n
          BY <3>1
        <4>3. 1 \in DOMAIN s /\ j - n \in DOMAIN s
          BY <1>1, <3>1
        <4> QED BY <4>1, <4>2, <4>3 DEF T!Ascends, RingRows, s
      <3> QED BY <1>3, <3>1, <3>2, <3>3, <3>4
    <2>4. CASE i > n
      <3>1. i - n \in 1..c /\ n + (i - n) = i /\ j - n \in 1..c /\ n + (j - n) = j /\ i - n < j - n
        BY <2>1, <2>4
      <3>2. i - n \in DOMAIN s /\ j - n \in DOMAIN s
        BY <1>1, <3>1
      <3>3. l[i] = s[i - n] /\ l[j] = s[j - n]
        BY <1>7, <3>1
      <3> QED BY <3>1, <3>2, <3>3 DEF T!Ascends, s
    <2> QED BY <2>1, <2>2, <2>3, <2>4
  <1>9. Prepend(r, h) = PushAll(Clear(r), l, WindowS)
    BY DEF Prepend, Upto, n
  <1> HIDE DEF l
  <1>10. /\ Prepend(r, h) \in Rings
         /\ RowsOf(Prepend(r, h)) = IF l = <<>> THEN <<>> ELSE T!Kept(l)
    BY <1>7, <1>8, <1>9, ClearIsEmpty, PushAllKeeps
  <1>11. T!Prepended(s, h) = IF l = <<>> THEN <<>> ELSE T!Kept(l)
    BY <1>5 DEF T!Prepended, l
  <1>12. T!Ascends(IF l = <<>> THEN <<>> ELSE T!Kept(l))
    <2>1. CASE l = <<>>
      BY <2>1 DEF T!Ascends
    <2>2. CASE l # <<>>
      BY <1>7, <1>8, <2>2, KeptEnds
    <2> QED BY <2>1, <2>2
  <1> QED BY <1>10, <1>11, <1>12

LEMMA PushedAscends ==
    ASSUME NEW s \in Seq(RingRows), T!Ascends(s), NEW row \in RingRows
    PROVE  T!Ascends(T!Pushed(s, row))
  <1> DEFINE c == Len(s)
  <1>1. c \in Nat /\ DOMAIN s = 1..c /\ (s # <<>> <=> c > 0)
    OBVIOUS
  <1>2. \A i \in 1..c : s[i] \in RingRows /\ s[i][1] \in Int
    <2>1. \A i \in 1..c : s[i] \in RingRows
      BY ElementOfSeq
    <2> QED BY <2>1 DEF RingRows
  <1>3. row[1] \in Int
    BY DEF RingRows
  <1>4. CASE s = <<>> \/ row[1] < T!NewestTime(s)
    <2>1. T!Pushed(s, row) = <<row>>
      BY <1>4 DEF T!Pushed
    <2>2. T!Ascends(<<row>>)
      BY DEF T!Ascends
    <2> QED BY <2>1, <2>2
  <1>5. CASE s # <<>> /\ row[1] = T!NewestTime(s)
    <2> DEFINE e == [s EXCEPT ![c] = row]
    <2>1. T!Pushed(s, row) = e
      <3>1. ~(row[1] < T!NewestTime(s))
        BY <1>3, <1>5
      <3> QED BY <1>5, <3>1 DEF T!Pushed
    <2>2. DOMAIN e = 1..c /\ \A i \in 1..c : e[i][1] = s[i][1]
      BY <1>1, <1>5 DEF T!NewestTime
    <2> HIDE DEF e
    <2>3. T!Ascends(e)
      BY <1>1, <2>2 DEF T!Ascends
    <2> QED BY <2>1, <2>3
  <1>6. CASE s # <<>> /\ row[1] > T!NewestTime(s)
    <2> DEFINE a == Append(s, row)
    <2>1. T!Pushed(s, row) = T!Kept(a)
      BY <1>6, PushedBehind DEF NewestOf, T!NewestTime
    <2>2. /\ a \in Seq(RingRows) /\ Len(a) = c + 1 /\ a[c + 1] = row
          /\ \A i \in 1..c : a[i] = s[i]
      BY AppendProperties
    <2> HIDE DEF a
    <2>3. T!Ascends(a)
      <3> SUFFICES ASSUME NEW i \in 1..c + 1, NEW j \in 1..c + 1, i < j PROVE a[i][1] < a[j][1]
        BY <2>2 DEF T!Ascends
      <3>1. CASE j # c + 1
        <4>1. i \in 1..c /\ j \in 1..c
          BY <1>1, <3>1
        <4> QED BY <1>1, <2>2, <4>1 DEF T!Ascends
      <3>2. CASE j = c + 1
        <4>1. i \in 1..c /\ c \in 1..c /\ (i = c \/ i < c)
          <5> HIDE DEF c
          <5> QED BY <1>1, <3>2
        <4>2. s[i][1] <= s[c][1]
          <5> HIDE DEF c
          <5> QED BY <1>1, <1>2, <4>1 DEF T!Ascends
        <4>3. s[c][1] < row[1]
          BY <1>2, <1>3, <1>6, <4>1 DEF T!NewestTime
        <4> HIDE DEF c
        <4> QED BY <1>2, <1>3, <2>2, <3>2, <4>1, <4>2, <4>3
      <3> QED BY <3>1, <3>2
    <2>4. a # <<>>
      BY <1>1, <2>2
    <2> QED BY <2>1, <2>2, <2>3, <2>4, KeptEnds
  <1>7. s # <<>> => T!NewestTime(s) \in Int
    BY <1>1, <1>2 DEF T!NewestTime
  <1> QED BY <1>3, <1>4, <1>5, <1>6, <1>7

RingInv == ring \in Rings /\ T!Ascends(RowsOf(ring))

LEMMA RingInvInit == RingInit => RingInv /\ RowsOf(ring) = <<>>
  <1> SUFFICES ASSUME RingInit PROVE RingInv /\ RowsOf(ring) = <<>>
    OBVIOUS
  <1> DEFINE t == [i \in 0..Initial - 1 |-> Nothing]
             new == [t |-> t, v |-> t, head |-> 0, count |-> 0]
  <1>1. ring = new
    BY DEF RingInit, NewRing
  <1>2. t \in [0..Initial - 1 -> Int] /\ t \in [0..Initial - 1 -> Marks]
    BY DEF Nothing, Marks
  <1>3. Initial \in Initial..Cap /\ 0 \in 0..Initial - 1 /\ 0 \in 0..Initial
    BY RingBounds
  <1>4. new \in Rings
    <2> HIDE DEF t
    <2> QED BY <1>2, <1>3, RingMade
  <1>5. ring.count = 0
    BY <1>1
  <1> HIDE DEF new
  <1>6. RowsOf(ring) = <<>>
    BY <1>1, <1>4, <1>5, RowsAre
  <1> QED BY <1>1, <1>4, <1>6 DEF RingInv, T!Ascends

LEMMA RingStep == RingInv /\ [RingNext]_ring => RingInv' /\ (ring' = ring \/ T!TimelineNext)
  <1> SUFFICES ASSUME RingInv, [RingNext]_ring PROVE RingInv' /\ (ring' = ring \/ T!TimelineNext)
    OBVIOUS
  <1>1. CASE PushRow
    <2>1. PICK time \in Times, value \in Values : ring' = Push(ring, time, value, WindowS)
      BY <1>1 DEF PushRow
    <2> DEFINE row == <<time, value>>
    <2>2. time \in Int /\ value \in Marks /\ row \in RingRows /\ row \in Times \X Values
      BY RingBounds DEF Marks, RingRows
    <2> HIDE DEF row
    <2>3. ring' \in Rings /\ RowsOf(ring') = T!Pushed(RowsOf(ring), row)
      BY <2>1, <2>2, PushIsPushed DEF RingInv, row
    <2>4. T!Ascends(RowsOf(ring'))
      BY <2>2, <2>3, RowsAre, PushedAscends DEF RingInv
    <2>5. T!TimelineNext
      BY <2>2, <2>3 DEF T!TimelineNext
    <2> QED BY <2>3, <2>4, <2>5 DEF RingInv
  <1>2. CASE PrependRows
    <2>1. PICK h \in UNION {[1..n -> Times \X Values] : n \in 1..MaxHistory} :
             /\ \A i, j \in 1..Len(h) : i < j => h[i][1] < h[j][1]
             /\ ring' = Prepend(ring, h)
      BY <1>2 DEF PrependRows
    <2>2. PICK n \in 1..MaxHistory : h \in [1..n -> Times \X Values]
      OBVIOUS
    <2>3. h \in Seq(RingRows) /\ DOMAIN h = 1..Len(h)
      <3>1. Times \X Values \subseteq RingRows
        BY RingBounds DEF RingRows, Marks
      <3>2. n \in Nat /\ h \in [1..n -> RingRows]
        BY <2>2, <3>1
      <3> QED BY <3>2
    <2>4. T!Ascends(h)
      BY <2>1, <2>3 DEF T!Ascends
    <2>5. /\ ring' \in Rings /\ RowsOf(ring') = T!Prepended(RowsOf(ring), h)
          /\ T!Ascends(RowsOf(ring'))
      BY <2>1, <2>3, <2>4, PrependIsPrepended DEF RingInv
    <2>6. T!TimelineNext
      <3>1. h \in T!Histories
        BY <2>4 DEF T!Histories
      <3> QED BY <2>5, <3>1 DEF T!TimelineNext
    <2> QED BY <2>5, <2>6 DEF RingInv
  <1>3. CASE UNCHANGED ring
    BY <1>3 DEF RingInv, RowsOf, TimeAt, ValueAt, At, Size
  <1> QED BY <1>1, <1>2, <1>3 DEF RingNext

\* The buffer that wraps, doubles and drops what is too old is, at every step, the plain
\* sequence of Timeline: the detailed specification implements the abstract one.
THEOREM RingIsATimeline == RingSpec => RingIsTimeline
<1>1. RingInit => T!TimelineInit
  BY RingInvInit DEF T!TimelineInit
<1>2. RingInv /\ [RingNext]_ring => [ring' = ring \/ T!TimelineNext]_ring
  BY RingStep
<1> QED BY <1>1, <1>2, RingInvInit, RingStep, PTL DEF RingSpec, RingIsTimeline

\* One step of the halving.
Halved(search, span, r, time) ==
  LET lo == span[1]
      hi == span[2]
      mid == (lo + hi) \div 2
  IN IF lo >= hi THEN lo
     ELSE IF TimeAt(r, mid) < time THEN search[<<mid + 1, hi>>] ELSE search[<<lo, mid>>]

LEMMA Middle ==
    ASSUME NEW lo \in Nat, NEW hi \in Nat, lo < hi
    PROVE  lo <= (lo + hi) \div 2 /\ (lo + hi) \div 2 < hi /\ (lo + hi) \div 2 \in Nat
  OBVIOUS

\* Halving finds the first row at or after a time.
LEMMA SearchFinds ==
    ASSUME NEW r \in Rings, T!Ascends(RowsOf(r)), NEW time \in Int
    PROVE  /\ IndexAtOrAfter(r, time) \in 0..r.count
           /\ \A i \in 0..r.count - 1 : TimeAt(r, i) < time <=> i < IndexAtOrAfter(r, time)
  <1> DEFINE c == r.count
             M == {i \in 0..c : i = c \/ TimeAt(r, i) >= time}
             Spans == (0..c) \X (0..c)
             Whole(g) == [span \in Spans |-> Halved(g, span, r, time)]
             t == CHOOSE g : g = Whole(g)
  <1>1. c \in Nat /\ \A i \in 0..c - 1 : TimeAt(r, i) \in Int
    <2>1. c \in 0..Size(r) /\ Size(r) \in Nat
      BY RingParts, RingIsOf
    <2>2. c \in Nat /\ \A i \in 0..c - 1 : i \in 0..Size(r) - 1
      <3> DEFINE size == Size(r)
      <3>1. c \in 0..size /\ size \in Nat
        BY <2>1
      <3> HIDE DEF c, size
      <3>2. c \in Nat /\ \A i \in 0..c - 1 : i \in 0..size - 1
        BY <3>1
      <3> QED BY <3>2 DEF size
    <2> QED BY <2>2, RowTypes
  <1>2. \A i, j \in 0..c - 1 : i < j => TimeAt(r, i) < TimeAt(r, j)
    <2> DEFINE s == RowsOf(r)
    <2>1. s \in Seq(RingRows) /\ Len(s) = c /\ \A i \in 1..c : s[i] = <<TimeAt(r, i - 1), ValueAt(r, i - 1)>>
      BY RowsAre
    <2>2. DOMAIN s = 1..c /\ T!Ascends(s)
      BY <2>1
    <2> HIDE DEF s, c
    <2> SUFFICES ASSUME NEW i \in 0..c - 1, NEW j \in 0..c - 1, i < j PROVE TimeAt(r, i) < TimeAt(r, j)
      OBVIOUS
    <2>3. i + 1 \in 1..c /\ j + 1 \in 1..c /\ i + 1 < j + 1 /\ (i + 1) - 1 = i /\ (j + 1) - 1 = j
      BY <1>1
    <2>4. s[i + 1][1] < s[j + 1][1]
      BY <2>2, <2>3 DEF T!Ascends
    <2>5. s[i + 1][1] = TimeAt(r, i) /\ s[j + 1][1] = TimeAt(r, j)
      BY <2>1, <2>3
    <2> QED BY <2>4, <2>5
  <1>3. IndexAtOrAfter(r, time) = t[<<0, c>>]
    BY DEF IndexAtOrAfter, Halved
  <1>4. PICK k \in M : \A i \in M : k <= i
    <2>1. M # {} /\ M \subseteq Nat
      BY <1>1
    <2> HIDE DEF M
    <2> QED BY <2>1, LeastOf
  <1>5. k \in 0..c /\ \A i \in 0..c - 1 : TimeAt(r, i) < time <=> i < k
    <2>1. k \in 0..c /\ (k = c \/ TimeAt(r, k) >= time)
      BY <1>4
    <2> SUFFICES ASSUME NEW i \in 0..c - 1 PROVE TimeAt(r, i) < time <=> i < k
      BY <2>1
    <2>2. CASE i < k
      <3>1. i \notin M /\ i \in 0..c
        <4>1. ~(k <= i) /\ i \in 0..c
          BY <1>1, <2>1, <2>2
        <4> HIDE DEF M
        <4> QED BY <1>4, <4>1
      <3> QED BY <1>1, <2>2, <3>1
    <2>3. CASE i = k
      <3>1. k # c
        BY <1>1, <2>3
      <3>2. ~(TimeAt(r, i) < time)
        BY <1>1, <2>1, <2>3, <3>1
      <3> QED BY <1>1, <2>1, <2>3, <3>2
    <2>4. CASE i > k
      <3>1. k \in 0..c - 1 /\ k # c
        BY <1>1, <2>1, <2>4
      <3>2. TimeAt(r, k) < TimeAt(r, i) /\ TimeAt(r, k) >= time /\ TimeAt(r, k) \in Int /\ TimeAt(r, i) \in Int
        BY <1>1, <1>2, <2>1, <2>4, <3>1
      <3>3. ~(TimeAt(r, i) < time)
        BY <3>2
      <3> QED BY <2>1, <2>4, <3>3
    <2> QED BY <1>1, <2>1, <2>2, <2>3, <2>4
  <1> DEFINE Found(lo, hi) == IF lo >= hi \/ k < lo THEN lo ELSE IF k > hi THEN hi ELSE k
             F == [span \in Spans |-> Found(span[1], span[2])]
  <1> HIDE DEF M, t
  <1>6. ASSUME NEW lo \in 0..c, NEW hi \in 0..c, lo < hi
        PROVE  LET mid == (lo + hi) \div 2
               IN /\ mid \in 0..c - 1 /\ mid + 1 \in 0..c /\ lo <= mid /\ mid < hi
                  /\ Found(lo, hi) = IF TimeAt(r, mid) < time THEN Found(mid + 1, hi) ELSE Found(lo, mid)
    <2> DEFINE mid == (lo + hi) \div 2
    <2>1. lo <= mid /\ mid < hi /\ mid \in Nat /\ lo \in Nat /\ hi \in Nat /\ hi <= c
      <3>1. lo \in Nat /\ hi \in Nat
        BY <1>1
      <3>2. hi <= c
        BY <1>1
      <3> QED BY <1>6, <3>1, <3>2, Middle
    <2> HIDE DEF mid, c
    <2>2. mid \in 0..c - 1 /\ mid + 1 \in 0..c
      BY <1>1, <2>1
    <2>3. TimeAt(r, mid) < time <=> mid < k
      BY <1>5, <2>2
    <2>4. k \in Nat
      BY <1>1, <1>5
    <2>5. Found(lo, hi) = IF mid < k THEN Found(mid + 1, hi) ELSE Found(lo, mid)
      BY <2>1, <2>4, <1>6
    <2> HIDE DEF Found
    <2>6. Found(lo, hi) = IF TimeAt(r, mid) < time THEN Found(mid + 1, hi) ELSE Found(lo, mid)
      BY <2>3, <2>5
    <2> QED BY <2>1, <2>2, <2>6 DEF mid
  <1>7. F = Whole(F)
    <2> SUFFICES ASSUME NEW span \in Spans PROVE Found(span[1], span[2]) = Halved(F, span, r, time)
      OBVIOUS
    <2> DEFINE lo == span[1]
               hi == span[2]
               mid == (lo + hi) \div 2
    <2>1. lo \in 0..c /\ hi \in 0..c
      OBVIOUS
    <2>2. CASE lo >= hi
      BY <2>2 DEF Halved
    <2>3. CASE ~(lo >= hi)
      <3>0. lo < hi
        BY <1>1, <2>1, <2>3
      <3>1. /\ mid \in 0..c - 1 /\ mid + 1 \in 0..c /\ mid \in 0..c
            /\ Found(lo, hi) = IF TimeAt(r, mid) < time THEN Found(mid + 1, hi) ELSE Found(lo, mid)
        <4> HIDE DEF Found, lo, hi, F, c
        <4>1. /\ mid \in 0..c - 1 /\ mid + 1 \in 0..c
              /\ Found(lo, hi) = IF TimeAt(r, mid) < time THEN Found(mid + 1, hi) ELSE Found(lo, mid)
          BY <1>6, <2>1, <3>0
        <4> HIDE DEF mid
        <4> QED BY <1>1, <4>1
      <3>2. <<mid + 1, hi>> \in Spans /\ <<lo, mid>> \in Spans
        BY <2>1, <3>1
      <3>3. F[<<mid + 1, hi>>] = Found(mid + 1, hi) /\ F[<<lo, mid>>] = Found(lo, mid)
        BY <3>2
      <3>4. Halved(F, span, r, time) = IF TimeAt(r, mid) < time THEN F[<<mid + 1, hi>>] ELSE F[<<lo, mid>>]
        <4> HIDE DEF F
        <4> QED BY <2>3 DEF Halved
      <3> HIDE DEF F, Found, mid, lo, hi
      <3>5. Found(lo, hi) = Halved(F, span, r, time)
        BY <3>1, <3>3, <3>4
      <3> QED BY <3>5 DEF lo, hi
    <2> QED BY <2>2, <2>3
  <1>8. t = Whole(t)
    <2> HIDE DEF Whole
    <2> QED BY <1>7 DEF t
  <1> HIDE DEF F, Found
  <1>9. \A lo, hi \in 0..c : t[<<lo, hi>>] = Halved(t, <<lo, hi>>, r, time)
    BY <1>8
  <1> DEFINE D == {n \in Nat : \A lo, hi \in 0..c : hi - lo <= n => t[<<lo, hi>>] = Found(lo, hi)}
  <1>10. 0 \in D
    <2> SUFFICES ASSUME NEW lo \in 0..c, NEW hi \in 0..c, hi - lo <= 0 PROVE t[<<lo, hi>>] = Found(lo, hi)
      OBVIOUS
    <2>1. lo >= hi
      <3> HIDE DEF c
      <3> QED BY <1>1
    <2> QED BY <1>9, <2>1 DEF Halved, Found
  <1>11. ASSUME NEW n \in Nat, n \in D PROVE n + 1 \in D
    <2> SUFFICES ASSUME NEW lo \in 0..c, NEW hi \in 0..c, hi - lo <= n + 1 PROVE t[<<lo, hi>>] = Found(lo, hi)
      OBVIOUS
    <2> DEFINE mid == (lo + hi) \div 2
    <2>1. CASE lo >= hi
      BY <1>9, <2>1 DEF Halved, Found
    <2>2. CASE ~(lo >= hi)
      <3>0. lo < hi
        <4> HIDE DEF c
        <4> QED BY <1>1, <2>2
      <3>1. /\ mid \in 0..c - 1 /\ mid + 1 \in 0..c /\ lo <= mid /\ mid < hi
            /\ Found(lo, hi) = IF TimeAt(r, mid) < time THEN Found(mid + 1, hi) ELSE Found(lo, mid)
        BY <1>6, <3>0
      <3>2. t[<<lo, hi>>] = IF TimeAt(r, mid) < time THEN t[<<mid + 1, hi>>] ELSE t[<<lo, mid>>]
        BY <1>9, <2>2 DEF Halved
      <3> HIDE DEF mid, c
      <3>3. hi - (mid + 1) <= n /\ mid - lo <= n /\ mid \in 0..c
        BY <1>1, <3>1
      <3>4. t[<<mid + 1, hi>>] = Found(mid + 1, hi) /\ t[<<lo, mid>>] = Found(lo, mid)
        BY <1>11, <3>1, <3>3
      <3> QED BY <3>1, <3>2, <3>4
    <2> QED BY <2>1, <2>2
  <1>12. c \in D
    <2> HIDE DEF D
    <2> QED BY <1>1, <1>10, <1>11, Induction
  <1>13. t[<<0, c>>] = k
    <2> HIDE DEF c
    <2>1. 0 \in 0..c /\ c \in 0..c /\ c - 0 <= c
      BY <1>1
    <2>2. t[<<0, c>>] = Found(0, c)
      BY <1>12, <2>1
    <2> QED BY <1>1, <1>5, <2>2 DEF Found
  <1> QED BY <1>3, <1>5, <1>13

Shown == Int \X (Marks \cup {Gap})

ShownRow(s, i) == <<2 * s[i][1], s[i][2]>>
BreakAfter(s, i) == <<s[i][1] + s[i + 1][1], Gap>>

\* Row j of those from a + 1 to b is drawn, and so is a break behind it.
Drawn(s, b, w, g, j) == j = b \/ LastThere(s, j, w, g)
Gapped(s, b, g, j) == j < b /\ Broken(s, j, g)

\* What has been read of rows a + 1 to b.
ReadTo(s, a, b, w, g, out) ==
  /\ out \in Seq(Shown) /\ out # <<>> /\ out[Len(out)] = ShownRow(s, b)
  /\ \A j \in a + 1..b : Drawn(s, b, w, g, j) => \E k \in 1..Len(out) : out[k] = ShownRow(s, j)
  /\ \A j \in a + 1..b : Gapped(s, b, g, j) => \E k \in 1..Len(out) : out[k] = BreakAfter(s, j)
  /\ \A k \in 1..Len(out) : \E j \in a + 1..b :
       \/ Drawn(s, b, w, g, j) /\ out[k] = ShownRow(s, j)
       \/ Gapped(s, b, g, j) /\ out[k] = BreakAfter(s, j)
  /\ \A j, k \in 1..Len(out) : j < k => out[j][1] < out[k][1]

\* The same bucket: the row takes the place of the one before it.
LEMMA ReadSame ==
    ASSUME NEW s \in Seq(RingRows), T!Ascends(s), NEW w, NEW g \in Nat,
           NEW a \in Nat, NEW b \in Nat, a < b, b < Len(s), NEW out, ReadTo(s, a, b, w, g, out),
           ~LastThere(s, b, w, g)
    PROVE  ReadTo(s, a, b + 1, w, g, [out EXCEPT ![Len(out)] = ShownRow(s, b + 1)])
  <1> DEFINE N == Len(s)
             n == Len(out)
             x == ShownRow(s, b + 1)
             next == [out EXCEPT ![n] = x]
  <1>1. /\ N \in Nat /\ b + 1 \in 1..N /\ b \in 1..N /\ DOMAIN s = 1..N
        /\ a + 1..b \subseteq 1..N
    BY Len(s) \in Nat
  <1>2. \A j \in 1..N : s[j] \in RingRows /\ s[j][1] \in Int /\ s[j][2] \in Marks
    <2>1. \A j \in 1..N : s[j] \in RingRows
      BY ElementOfSeq
    <2> QED BY <2>1 DEF RingRows
  <1>3. \A i, j \in 1..N : i < j => s[i][1] < s[j][1]
    BY <1>1 DEF T!Ascends
  <1>4. x \in Shown
    <2>1. s[b + 1][1] \in Int /\ s[b + 1][2] \in Marks
      BY <1>1, <1>2
    <2>2. 2 * s[b + 1][1] \in Int
      BY <2>1
    <2> QED BY <2>1, <2>2 DEF ShownRow, Shown
  <1>5. /\ out \in Seq(Shown) /\ n \in Nat /\ n > 0 /\ n \in 1..n /\ out[n] = ShownRow(s, b)
        /\ \A k \in 1..n : out[k] \in Shown /\ out[k][1] \in Int
    <2>1. out \in Seq(Shown) /\ out # <<>>
      BY DEF ReadTo
    <2>2. \A k \in 1..n : out[k] \in Shown
      BY <2>1, ElementOfSeq
    <2> QED BY <2>1, <2>2 DEF ReadTo, Shown
  <1>6. /\ next \in Seq(Shown) /\ Len(next) = n /\ next[n] = x
        /\ \A k \in 1..n : k # n => next[k] = out[k]
    BY <1>4, <1>5, ExceptSeq
  <1> HIDE DEF x, next
  <1>7. next # <<>> /\ next[Len(next)] = ShownRow(s, b + 1)
    BY <1>5, <1>6 DEF x
  <1>8. ASSUME NEW j \in a + 1..b PROVE Drawn(s, b + 1, w, g, j) <=> (Drawn(s, b, w, g, j) /\ j # b)
    <2>1. j # b + 1
      OBVIOUS
    <2> QED BY <2>1 DEF Drawn
  <1>9. ASSUME NEW j \in a + 1..b PROVE Gapped(s, b + 1, g, j) <=> Gapped(s, b, g, j)
    <2>1. ~Broken(s, b, g)
      BY DEF LastThere
    <2>2. j < b + 1 /\ (j < b \/ j = b)
      OBVIOUS
    <2> QED BY <2>1, <2>2 DEF Gapped
  <1>10. ASSUME NEW j \in a + 1..b, Drawn(s, b + 1, w, g, j)
         PROVE  \E k \in 1..n : next[k] = ShownRow(s, j)
    <2>1. Drawn(s, b, w, g, j) /\ j # b
      BY <1>8, <1>10
    <2>2. PICK k \in 1..n : out[k] = ShownRow(s, j)
      BY <2>1 DEF ReadTo
    <2>3. s[j][1] < s[b][1] /\ s[j][1] \in Int /\ s[b][1] \in Int
      BY <1>1, <1>2, <1>3, <2>1
    <2>4. out[k] # out[n]
      BY <1>5, <2>2, <2>3 DEF ShownRow
    <2> QED BY <1>6, <2>2, <2>4
  <1>11. ASSUME NEW j \in a + 1..b, Gapped(s, b + 1, g, j)
         PROVE  \E k \in 1..n : next[k] = BreakAfter(s, j)
    <2>1. Gapped(s, b, g, j)
      BY <1>9, <1>11
    <2>2. PICK k \in 1..n : out[k] = BreakAfter(s, j)
      BY <2>1 DEF ReadTo
    <2>3. s[j][1] < s[j + 1][1] /\ s[j + 1][1] <= s[b][1] /\ s[j][1] \in Int /\ s[j + 1][1] \in Int /\ s[b][1] \in Int
      <3>1. j \in 1..N /\ j + 1 \in 1..N /\ j < j + 1 /\ (j + 1 = b \/ j + 1 < b)
        BY <1>1, <2>1 DEF Gapped
      <3> QED BY <1>1, <1>2, <1>3, <3>1
    <2>4. s[j][1] + s[j + 1][1] < 2 * s[b][1]
      BY SMTT(30), <2>3
    <2>5. out[k] # out[n]
      BY <1>5, <2>2, <2>3, <2>4 DEF ShownRow, BreakAfter
    <2> QED BY <1>6, <2>2, <2>5
  <1>12. ASSUME NEW k \in 1..n
         PROVE  \E j \in a + 1..b + 1 : \/ Drawn(s, b + 1, w, g, j) /\ next[k] = ShownRow(s, j)
                                        \/ Gapped(s, b + 1, g, j) /\ next[k] = BreakAfter(s, j)
    <2>1. CASE k = n
      <3>1. b + 1 \in a + 1..b + 1 /\ Drawn(s, b + 1, w, g, b + 1)
        BY DEF Drawn
      <3> QED BY <1>6, <2>1, <3>1 DEF x
    <2>2. CASE k # n
      <3>1. PICK j \in a + 1..b : \/ Drawn(s, b, w, g, j) /\ out[k] = ShownRow(s, j)
                                  \/ Gapped(s, b, g, j) /\ out[k] = BreakAfter(s, j)
        BY DEF ReadTo
      <3>2. j \in a + 1..b + 1 /\ next[k] = out[k]
        BY <1>6, <2>2
      <3>3. CASE Drawn(s, b, w, g, j) /\ out[k] = ShownRow(s, j)
        <4>1. j # b
          <5>1. out[k][1] < out[n][1]
            <6>1. k < n
              BY <1>5, <2>2
            <6> QED BY <1>5, <6>1 DEF ReadTo
          <5>2. out[k][1] \in Int
            BY <1>5
          <5> QED BY <1>5, <3>3, <5>1, <5>2
        <4> QED BY <1>8, <3>2, <3>3, <4>1
      <3>4. CASE Gapped(s, b, g, j) /\ out[k] = BreakAfter(s, j)
        BY <1>9, <3>2, <3>4
      <3> QED BY <3>1, <3>3, <3>4
    <2> QED BY <2>1, <2>2
  <1>13. ASSUME NEW j \in 1..n, NEW k \in 1..n, j < k PROVE next[j][1] < next[k][1]
    <2>1. j # n /\ next[j] = out[j] /\ out[j][1] < out[k][1] /\ out[j][1] \in Int /\ out[k][1] \in Int
      BY <1>5, <1>6, <1>13 DEF ReadTo
    <2>2. CASE k # n
      BY <1>6, <2>1, <2>2
    <2>3. CASE k = n
      <3>1. s[b][1] < s[b + 1][1] /\ s[b][1] \in Int /\ s[b + 1][1] \in Int
        BY <1>1, <1>2, <1>3
      <3>2. out[k][1] = 2 * s[b][1] /\ next[k][1] = 2 * s[b + 1][1]
        BY <1>5, <1>6, <2>3 DEF ShownRow, x
      <3>3. out[j][1] < 2 * s[b][1] /\ next[j][1] = out[j][1]
        BY <2>1, <3>2
      <3>4. 2 * s[b][1] < 2 * s[b + 1][1] /\ 2 * s[b][1] \in Int /\ 2 * s[b + 1][1] \in Int
        BY SMTT(30), <3>1
      <3> QED BY <2>1, <3>2, <3>3, <3>4
    <2> QED BY <2>2, <2>3
  <1>14. \A j \in a + 1..b + 1 : Drawn(s, b + 1, w, g, j) => \E k \in 1..n : next[k] = ShownRow(s, j)
    <2>1. next[n] = ShownRow(s, b + 1)
      BY <1>6 DEF x
    <2>2. \A j \in a + 1..b + 1 : j = b + 1 \/ j \in a + 1..b
      OBVIOUS
    <2> QED BY <1>5, <1>10, <2>1, <2>2
  <1>15. \A j \in a + 1..b + 1 : Gapped(s, b + 1, g, j) => \E k \in 1..n : next[k] = BreakAfter(s, j)
    <2>1. \A j \in a + 1..b + 1 : Gapped(s, b + 1, g, j) => j \in a + 1..b
      BY DEF Gapped
    <2> QED BY <1>11, <2>1
  <1> HIDE DEF n
  <1> QED BY <1>6, <1>7, <1>12, <1>13, <1>14, <1>15 DEF ReadTo, next, n, x


\* Another bucket: the row comes behind the one before it, and behind a break.
LEMMA ReadNext ==
    ASSUME NEW s \in Seq(RingRows), T!Ascends(s), NEW w, NEW g \in Nat,
           NEW a \in Nat, NEW b \in Nat, a < b, b < Len(s), NEW out, ReadTo(s, a, b, w, g, out),
           LastThere(s, b, w, g)
    PROVE  ReadTo(s, a, b + 1, w, g,
                  Append(IF Broken(s, b, g) THEN Append(out, BreakAfter(s, b)) ELSE out, ShownRow(s, b + 1)))
  <1> DEFINE N == Len(s)
             n == Len(out)
             x == ShownRow(s, b + 1)
             y == BreakAfter(s, b)
             u == IF Broken(s, b, g) THEN Append(out, y) ELSE out
             m == Len(u)
             next == Append(u, x)
  <1>1. /\ N \in Nat /\ b + 1 \in 1..N /\ b \in 1..N /\ DOMAIN s = 1..N
        /\ a + 1..b \subseteq 1..N
    BY Len(s) \in Nat
  <1>2. \A j \in 1..N : s[j] \in RingRows /\ s[j][1] \in Int /\ s[j][2] \in Marks
    <2>1. \A j \in 1..N : s[j] \in RingRows
      BY ElementOfSeq
    <2> QED BY <2>1 DEF RingRows
  <1>3. s[b][1] < s[b + 1][1] /\ s[b][1] \in Int /\ s[b + 1][1] \in Int /\ s[b + 1][2] \in Marks
    <2>1. s[b][1] < s[b + 1][1]
      BY <1>1 DEF T!Ascends
    <2> QED BY <1>1, <1>2, <2>1
  <1>4. x \in Shown /\ y \in Shown /\ y[1] \in Int /\ x[1] \in Int /\ y[1] < x[1] /\ 2 * s[b][1] < y[1]
    <2>1. /\ 2 * s[b + 1][1] \in Int /\ s[b][1] + s[b + 1][1] \in Int
          /\ 2 * s[b][1] < s[b][1] + s[b + 1][1] /\ s[b][1] + s[b + 1][1] < 2 * s[b + 1][1]
      BY <1>3
    <2> QED BY <1>3, <2>1 DEF ShownRow, BreakAfter, Shown
  <1>5. /\ out \in Seq(Shown) /\ n \in Nat /\ n > 0 /\ n \in 1..n /\ out[n] = ShownRow(s, b)
        /\ \A k \in 1..n : out[k] \in Shown /\ out[k][1] \in Int
    <2>1. out \in Seq(Shown) /\ out # <<>>
      BY DEF ReadTo
    <2>2. \A k \in 1..n : out[k] \in Shown
      BY <2>1, ElementOfSeq
    <2> QED BY <2>1, <2>2 DEF ReadTo, Shown
  <1>6. \A k \in 1..n : out[k][1] <= 2 * s[b][1]
    <2> SUFFICES ASSUME NEW k \in 1..n PROVE out[k][1] <= 2 * s[b][1]
      OBVIOUS
    <2>1. out[n][1] = 2 * s[b][1] /\ 2 * s[b][1] \in Int /\ (k = n \/ k < n)
      BY <1>3, <1>5 DEF ShownRow
    <2>2. k < n => out[k][1] < out[n][1]
      BY <1>5 DEF ReadTo
    <2> QED BY <1>5, <2>1, <2>2
  <1> HIDE DEF x, y
  <1>7. /\ u \in Seq(Shown) /\ m = (IF Broken(s, b, g) THEN n + 1 ELSE n) /\ m \in Nat
        /\ \A k \in 1..n : u[k] = out[k]
        /\ Broken(s, b, g) => u[n + 1] = y
    <2>1. CASE Broken(s, b, g)
      <3>1. u = Append(out, y)
        BY <2>1
      <3> HIDE DEF u
      <3>2. /\ u \in Seq(Shown) /\ m = n + 1 /\ u[n + 1] = y
            /\ \A k \in 1..n : u[k] = out[k]
        BY <1>4, <1>5, <3>1, AppendProperties
      <3> QED BY <1>5, <2>1, <3>2
    <2>2. CASE ~Broken(s, b, g)
      <3>1. u = out
        BY <2>2
      <3> QED BY <1>5, <2>2, <3>1
    <2> QED BY <2>1, <2>2
  <1> HIDE DEF u
  <1>8. /\ next \in Seq(Shown) /\ Len(next) = m + 1 /\ next[m + 1] = x
        /\ \A k \in 1..m : next[k] = u[k]
    <2>1. Len(u) = m /\ u \in Seq(Shown) /\ x \in Shown
      BY <1>4, <1>7
    <2> HIDE DEF m
    <2>2. /\ Append(u, x) \in Seq(Shown) /\ Len(Append(u, x)) = Len(u) + 1 /\ Append(u, x)[Len(u) + 1] = x
          /\ \A k \in 1..Len(u) : Append(u, x)[k] = u[k]
      BY <2>1, AppendProperties
    <2> HIDE DEF next
    <2> QED BY <2>1, <2>2 DEF next
  <1> HIDE DEF m, next
  <1>9. n <= m /\ m + 1 \in 1..m + 1 /\ \A k \in 1..n : k \in 1..m /\ k \in 1..m + 1 /\ next[k] = out[k]
    BY <1>5, <1>7, <1>8
  <1>10. \A k \in 1..m + 1 : k \in 1..n \/ k = m + 1 \/ (k = n + 1 /\ m = n + 1 /\ Broken(s, b, g) /\ next[k] = y)
    BY <1>5, <1>7, <1>8
  <1>11. next # <<>> /\ next[Len(next)] = ShownRow(s, b + 1)
    BY <1>7, <1>8 DEF x
  <1>12. ASSUME NEW j \in a + 1..b PROVE Drawn(s, b + 1, w, g, j) <=> Drawn(s, b, w, g, j)
    <2>1. j # b + 1
      OBVIOUS
    <2> QED BY <2>1 DEF Drawn
  <1>13. ASSUME NEW j \in a + 1..b
         PROVE  Gapped(s, b + 1, g, j) <=> (Gapped(s, b, g, j) \/ (j = b /\ Broken(s, b, g)))
    <2>1. j < b + 1 /\ (j < b \/ j = b)
      OBVIOUS
    <2> QED BY <2>1 DEF Gapped
  <1>14. ASSUME NEW j \in a + 1..b + 1, Drawn(s, b + 1, w, g, j)
         PROVE  \E k \in 1..m + 1 : next[k] = ShownRow(s, j)
    <2>1. CASE j = b + 1
      BY <1>8, <1>9, <2>1 DEF x
    <2>2. CASE j # b + 1
      <3>1. j \in a + 1..b
        BY <2>2
      <3>2. PICK k \in 1..n : out[k] = ShownRow(s, j)
        BY <1>12, <1>14, <3>1 DEF ReadTo
      <3> QED BY <1>9, <3>2
    <2> QED BY <2>1, <2>2
  <1>15. ASSUME NEW j \in a + 1..b + 1, Gapped(s, b + 1, g, j)
         PROVE  \E k \in 1..m + 1 : next[k] = BreakAfter(s, j)
    <2>1. j \in a + 1..b
      BY <1>15 DEF Gapped
    <2>2. CASE Gapped(s, b, g, j)
      <3>1. PICK k \in 1..n : out[k] = BreakAfter(s, j)
        BY <2>1, <2>2 DEF ReadTo
      <3> QED BY <1>9, <3>1
    <2>3. CASE j = b /\ Broken(s, b, g)
      <3>1. n + 1 \in 1..m /\ n + 1 \in 1..m + 1 /\ u[n + 1] = y
        BY <1>5, <1>7, <2>3
      <3>2. next[n + 1] = y
        BY <1>8, <3>1
      <3> QED BY <2>3, <3>1, <3>2 DEF y
    <2> QED BY <1>13, <1>15, <2>1, <2>2, <2>3
  <1>16. ASSUME NEW k \in 1..m + 1
         PROVE  \E j \in a + 1..b + 1 : \/ Drawn(s, b + 1, w, g, j) /\ next[k] = ShownRow(s, j)
                                        \/ Gapped(s, b + 1, g, j) /\ next[k] = BreakAfter(s, j)
    <2>0. b \in a + 1..b /\ b \in a + 1..b + 1 /\ b + 1 \in a + 1..b + 1
      OBVIOUS
    <2>1. CASE k = m + 1
      BY <1>8, <2>0, <2>1 DEF Drawn, x
    <2>2. CASE k \in 1..n
      <3>1. PICK j \in a + 1..b : \/ Drawn(s, b, w, g, j) /\ out[k] = ShownRow(s, j)
                                  \/ Gapped(s, b, g, j) /\ out[k] = BreakAfter(s, j)
        BY <2>2 DEF ReadTo
      <3>2. j \in a + 1..b + 1 /\ next[k] = out[k]
        BY <1>9, <2>2
      <3> QED BY <1>12, <1>13, <3>1, <3>2
    <2>3. CASE Broken(s, b, g) /\ next[k] = y
      BY <1>13, <2>0, <2>3 DEF y
    <2> QED BY <1>10, <2>1, <2>2, <2>3
  <1>17. \A k \in 1..m : next[k][1] < x[1] /\ next[k][1] \in Int
    <2> SUFFICES ASSUME NEW k \in 1..m PROVE next[k][1] < x[1] /\ next[k][1] \in Int
      OBVIOUS
    <2>0. 2 * s[b][1] \in Int
      BY <1>3
    <2>1. CASE k \in 1..n
      <3>1. next[k][1] = out[k][1] /\ out[k][1] <= 2 * s[b][1] /\ out[k][1] \in Int
        BY <1>5, <1>6, <1>9, <2>1
      <3> QED BY <1>4, <2>0, <3>1
    <2>2. CASE next[k] = y
      BY <1>4, <2>2
    <2>3. k # m + 1 /\ k \in 1..m + 1
      BY <1>7
    <2> QED BY <1>10, <2>1, <2>2, <2>3
  <1>18. ASSUME NEW j \in 1..m + 1, NEW k \in 1..m + 1, j < k PROVE next[j][1] < next[k][1]
    <2>1. j \in 1..m
      BY <1>7, <1>18
    <2>2. CASE k = m + 1
      BY <1>8, <1>17, <2>1, <2>2
    <2>3. CASE k \in 1..n
      <3>1. j \in 1..n
        BY <1>5, <1>18, <2>3
      <3> QED BY <1>9, <1>18, <2>3, <3>1 DEF ReadTo
    <2>4. CASE k = n + 1 /\ m = n + 1 /\ next[k] = y
      <3>1. j \in 1..n
        BY <1>5, <1>18, <2>4
      <3>2. next[j][1] = out[j][1] /\ out[j][1] <= 2 * s[b][1] /\ out[j][1] \in Int /\ 2 * s[b][1] \in Int
        <4>1. next[j] = out[j]
          BY <1>9, <3>1
        <4>2. out[j][1] <= 2 * s[b][1]
          BY <1>6, <3>1
        <4>3. out[j][1] \in Int
          BY <1>5, <3>1
        <4>4. 2 * s[b][1] \in Int
          BY <1>3
        <4> QED BY <4>1, <4>2, <4>3, <4>4
      <3> QED BY <1>4, <2>4, <3>2
    <2> QED BY <1>10, <2>2, <2>3, <2>4
  <1> HIDE DEF n
  <1>19. ReadTo(s, a, b + 1, w, g, next)
    BY <1>8, <1>11, <1>14, <1>15, <1>16, <1>18 DEF ReadTo
  <1> QED BY <1>19 DEF next, u, x, y

\* The read takes row i, counted from 0, after acc.
ReadStep(r, start, w, g, acc, i) ==
  LET row == <<2 * TimeAt(r, i), ValueAt(r, i)>>
      broken == g > 0 /\ i > start /\ TimeAt(r, i) - TimeAt(r, i - 1) > g
      mid == <<TimeAt(r, i) + TimeAt(r, i - 1), Gap>>
      same == /\ w > 0 /\ i > start /\ ~broken
              /\ TimeAt(r, i) \div w = TimeAt(r, i - 1) \div w
  IN IF same THEN [acc EXCEPT ![Len(acc)] = row]
     ELSE Append(IF broken THEN Append(acc, mid) ELSE acc, row)

\* The same, of the rows s of the ring.
RowRead(s, start, w, g, acc, i) ==
  IF i = start THEN Append(acc, ShownRow(s, i + 1))
  ELSE IF LastThere(s, i, w, g)
         THEN Append(IF Broken(s, i, g) THEN Append(acc, BreakAfter(s, i)) ELSE acc, ShownRow(s, i + 1))
         ELSE [acc EXCEPT ![Len(acc)] = ShownRow(s, i + 1)]

LEMMA ReadStepIs ==
    ASSUME NEW r \in Rings, NEW start \in Nat, NEW w \in Nat, NEW g \in Nat, NEW acc,
           NEW i \in start..r.count - 1
    PROVE  ReadStep(r, start, w, g, acc, i) = RowRead(RowsOf(r), start, w, g, acc, i)
  <1> DEFINE s == RowsOf(r)
             c == r.count
             row == <<2 * TimeAt(r, i), ValueAt(r, i)>>
             broken == g > 0 /\ i > start /\ TimeAt(r, i) - TimeAt(r, i - 1) > g
             mid == <<TimeAt(r, i) + TimeAt(r, i - 1), Gap>>
             same == /\ w > 0 /\ i > start /\ ~broken
                     /\ TimeAt(r, i) \div w = TimeAt(r, i - 1) \div w
  <1>1. /\ Len(s) = c /\ c \in Nat
        /\ \A k \in 1..c : s[k] = <<TimeAt(r, k - 1), ValueAt(r, k - 1)>>
    BY RowsAre
  <1>2. i \in Nat /\ i + 1 \in 1..c /\ (i + 1) - 1 = i /\ i < c /\ (i > start <=> i # start)
    <2> HIDE DEF c
    <2> QED BY <1>1 DEF c
  <1>3. s[i + 1][1] = TimeAt(r, i) /\ s[i + 1][2] = ValueAt(r, i)
    <2> HIDE DEF s
    <2> QED BY <1>1, <1>2
  <1>4. row = ShownRow(s, i + 1)
    <2> HIDE DEF s
    <2> QED BY <1>3 DEF ShownRow
  <1>5. CASE i = start
    <2>1. ~broken /\ ~same
      BY <1>2, <1>5
    <2>2. ReadStep(r, start, w, g, acc, i) = Append(acc, row)
      BY <2>1 DEF ReadStep
    <2> HIDE DEF row, s
    <2> QED BY <1>4, <1>5, <2>2 DEF s, RowRead
  <1>6. CASE i # start
    <2>1. i > start /\ i \in 1..c
      <3> HIDE DEF c
      <3> QED BY <1>1, <1>2, <1>6
    <2>2. s[i][1] = TimeAt(r, i - 1)
      <3> HIDE DEF s
      <3> QED BY <1>1, <2>1
    <2>3. TimeAt(r, i) \in Int /\ TimeAt(r, i - 1) \in Int
      <3>1. c \in 0..Size(r) /\ Size(r) \in Nat
        BY RingParts, RingIsOf
      <3> DEFINE size == Size(r)
      <3>2. i \in 0..size - 1 /\ i - 1 \in 0..size - 1
        <4> HIDE DEF c, size
        <4> QED BY <1>2, <2>1, <3>1 DEF size
      <3> QED BY <3>2, RowTypes
    <2>4. broken <=> Broken(s, i, g)
      <3> HIDE DEF s
      <3> QED BY <1>1, <1>2, <1>3, <2>1, <2>2 DEF Broken
    <2>5. mid = BreakAfter(s, i)
      <3> HIDE DEF s
      <3> QED BY <1>3, <2>2, <2>3 DEF BreakAfter
    <2>6. same <=> ~LastThere(s, i, w, g)
      <3>1. i # Len(s) /\ (w > 0 <=> w # 0)
        BY <1>1, <1>2
      <3> HIDE DEF s, broken
      <3> QED BY <1>3, <2>1, <2>2, <2>4, <3>1 DEF LastThere
    <2>7. ReadStep(r, start, w, g, acc, i) =
            IF same THEN [acc EXCEPT ![Len(acc)] = row]
            ELSE Append(IF broken THEN Append(acc, mid) ELSE acc, row)
      BY DEF ReadStep
    <2> HIDE DEF row, s, same, broken, mid
    <2> QED BY <1>4, <1>6, <2>4, <2>5, <2>6, <2>7 DEF s, RowRead
  <1> QED BY <1>5, <1>6

LEMMA ShownRows ==
    ASSUME NEW r \in Rings
    PROVE  LET s == RowsOf(r)
           IN /\ \A i \in 1..r.count : ShownRow(s, i) \in Shown
              /\ \A i \in 1..r.count - 1 : BreakAfter(s, i) \in Shown
  <1> DEFINE s == RowsOf(r)
             c == r.count
  <1>1. s \in Seq(RingRows) /\ Len(s) = c /\ c \in Nat
    BY RowsAre
  <1> HIDE DEF s, c
  <1>2. \A i \in 1..c : s[i][1] \in Int /\ s[i][2] \in Marks
    <2>1. \A i \in 1..c : s[i] \in RingRows
      BY <1>1, ElementOfSeq
    <2> QED BY <2>1 DEF RingRows
  <1>3. ASSUME NEW i \in 1..c PROVE ShownRow(s, i) \in Shown
    <2>1. 2 * s[i][1] \in Int /\ s[i][2] \in Marks
      BY <1>2
    <2> QED BY <2>1 DEF ShownRow, Shown
  <1>4. ASSUME NEW i \in 1..c - 1 PROVE BreakAfter(s, i) \in Shown
    <2>1. i \in 1..c /\ i + 1 \in 1..c
      BY <1>1
    <2>2. s[i][1] + s[i + 1][1] \in Int
      BY <1>2, <2>1
    <2> QED BY <2>2 DEF BreakAfter, Shown
  <1> QED BY <1>3, <1>4 DEF s, c

LEMMA ReadStepTyped ==
    ASSUME NEW r \in Rings, NEW start \in Nat, NEW w \in Nat, NEW g \in Nat, NEW acc \in Seq(Shown),
           NEW i \in start..r.count - 1
    PROVE  ReadStep(r, start, w, g, acc, i) \in Seq(Shown)
  <1> DEFINE s == RowsOf(r)
             c == r.count
             x == ShownRow(s, i + 1)
             y == BreakAfter(s, i)
  <1>1. c \in Nat /\ i \in Nat /\ i + 1 \in 1..c /\ (i # start => i \in 1..c - 1)
    <2>1. c \in Nat
      BY RowsAre
    <2> HIDE DEF c
    <2> QED BY <2>1 DEF c
  <1>2. x \in Shown /\ (i # start => y \in Shown)
    <2> HIDE DEF c
    <2> QED BY <1>1, ShownRows DEF c
  <1>3. ReadStep(r, start, w, g, acc, i) =
                IF i = start THEN Append(acc, x)
                ELSE IF LastThere(s, i, w, g)
                       THEN Append(IF Broken(s, i, g) THEN Append(acc, y) ELSE acc, x)
                       ELSE [acc EXCEPT ![Len(acc)] = x]
    BY ReadStepIs DEF RowRead
  <1> HIDE DEF s, x, y
  <1>4. CASE i = start
    BY <1>2, <1>3, <1>4, AppendProperties
  <1>5. CASE i # start /\ LastThere(s, i, w, g)
    <2> DEFINE u == IF Broken(s, i, g) THEN Append(acc, y) ELSE acc
    <2>1. u \in Seq(Shown)
      BY <1>2, <1>5, AppendProperties
    <2>2. ReadStep(r, start, w, g, acc, i) = Append(u, x)
      BY <1>3, <1>5
    <2> HIDE DEF u
    <2> QED BY <1>2, <2>1, <2>2, AppendProperties
  <1>6. CASE i # start /\ ~LastThere(s, i, w, g)
    <2>1. ReadStep(r, start, w, g, acc, i) = [acc EXCEPT ![Len(acc)] = x]
      BY <1>3, <1>6
    <2>2. CASE acc = <<>>
      <3>1. Len(acc) = 0 /\ 0 \notin DOMAIN acc
        BY <2>2
      <3>2. [acc EXCEPT ![Len(acc)] = x] = acc
        BY <2>2, <3>1
      <3> QED BY <2>1, <3>2
    <2>3. CASE acc # <<>>
      <3>1. Len(acc) \in 1..Len(acc)
        BY <2>3
      <3>2. [acc EXCEPT ![Len(acc)] = x] \in Seq(Shown)
        BY <1>2, <3>1, ExceptSeq
      <3> QED BY <2>1, <3>2
    <2> QED BY <2>2, <2>3
  <1> QED BY <1>4, <1>5, <1>6

\* The read goes over the rows one by one.
LEMMA ReadGoes ==
    ASSUME NEW r \in Rings, NEW from, NEW w \in Nat, NEW g \in Nat,
           IndexAtOrAfter(r, from) \in 0..r.count
    PROVE  LET start == IndexAtOrAfter(r, from)
               N == r.count - start
           IN \E f \in [0..N -> Seq(Shown)] :
                /\ f[0] = <<>>
                /\ \A n \in 1..N : f[n] = ReadStep(r, start, w, g, f[n - 1], start + n - 1)
                /\ Read(r, from, w, g) = f[N]
  <1> DEFINE start == IndexAtOrAfter(r, from)
             N == r.count - start
             V == Seq(Shown)
             e == <<>>
             Took(acc, n) == ReadStep(r, start, w, g, acc, start + n - 1)
             step == [n \in 1..N |-> [acc \in V |-> Took(acc, n)]]
             Whole(h) == [n \in 0..N |-> IF n = 0 THEN e ELSE Took(h[n - 1], n)]
             t == CHOOSE h : h = Whole(h)
  <1>1. start \in Nat /\ N \in Nat /\ r.count \in Nat
    BY RowsAre
  <1>2. Read(r, from, w, g) = t[N]
    BY DEF Read, ReadStep
  <1>3. \A n \in 1..N : start + n - 1 \in start..r.count - 1
    <2> DEFINE c == r.count
    <2> HIDE DEF start, c
    <2> QED BY <1>1 DEF c
  <1> HIDE DEF start, N
  <1>4. e \in V /\ step \in [1..N -> [V -> V]]
    <2> SUFFICES ASSUME NEW n \in 1..N, NEW acc \in V PROVE Took(acc, n) \in V
      BY EmptySeq
    <2> QED BY <1>1, <1>3, ReadStepTyped
  <1> HIDE DEF Took, V, e
  <1>5. PICK f \in [0..N -> V] : Goes(f, e, step, N)
    <2> HIDE DEF step
    <2> QED BY <1>1, <1>4, Recursion
  <1>6. \A n \in 1..N : f[n] = Took(f[n - 1], n)
    <2> SUFFICES ASSUME NEW n \in 1..N PROVE f[n] = Took(f[n - 1], n)
      OBVIOUS
    <2>1. f[n - 1] \in V
      <3>1. n - 1 \in 0..N
        BY <1>1
      <3> QED BY <3>1
    <2>2. f[n] = step[n][f[n - 1]]
      <3> HIDE DEF step
      <3> QED BY <1>5 DEF Goes
    <2> QED BY <2>1, <2>2
  <1>7. f = Whole(f)
    <2>1. f[0] = e
      BY <1>5 DEF Goes
    <2>2. \A n \in 0..N : f[n] = IF n = 0 THEN e ELSE Took(f[n - 1], n)
      BY <1>1, <1>6, <2>1
    <2> QED BY <2>2
  <1>8. t = Whole(t)
    <2> HIDE DEF Whole
    <2> QED BY <1>7
  <1> HIDE DEF t
  <1>9. \A n \in 0..N : t[n] = IF n = 0 THEN e ELSE Took(t[n - 1], n)
    BY <1>8
  <1> DEFINE M == {n \in Nat : n <= N => t[n] = f[n]}
  <1>10. 0 \in M
    BY <1>1, <1>5, <1>9 DEF Goes
  <1>11. ASSUME NEW n \in Nat, n \in M PROVE n + 1 \in M
    <2> SUFFICES ASSUME n + 1 <= N PROVE t[n + 1] = f[n + 1]
      OBVIOUS
    <2>1. n + 1 \in 1..N /\ n + 1 \in 0..N /\ (n + 1) - 1 = n /\ n <= N /\ n + 1 # 0
      BY <1>1
    <2> QED BY <1>6, <1>9, <1>11, <2>1
  <1>12. N \in M
    <2> HIDE DEF M
    <2> QED BY <1>1, <1>10, <1>11, Induction
  <1>13. t[N] = f[N]
    BY <1>1, <1>12
  <1>14. f[0] = e
    BY <1>5 DEF Goes
  <1> QED BY <1>2, <1>6, <1>13, <1>14 DEF Took, V, e, start, N

LEMMA ReadFirst ==
    ASSUME NEW s \in Seq(RingRows), NEW w, NEW g \in Nat, NEW a \in Nat, a < Len(s)
    PROVE  ReadTo(s, a, a + 1, w, g, <<ShownRow(s, a + 1)>>)
  <1> DEFINE x == ShownRow(s, a + 1)
             out == <<x>>
             b == a + 1
  <1>1. x \in Shown
    <2>1. s[a + 1] \in RingRows
      <3>1. a + 1 \in 1..Len(s)
        OBVIOUS
      <3> QED BY <3>1, ElementOfSeq
    <2>2. 2 * s[a + 1][1] \in Int /\ s[a + 1][2] \in Marks
      BY <2>1 DEF RingRows
    <2> QED BY <2>2 DEF ShownRow, Shown
  <1> HIDE DEF x
  <1>2. out \in Seq(Shown) /\ out # <<>> /\ Len(out) = 1 /\ out[1] = x
    BY <1>1
  <1>3. \A j \in a + 1..b : j = b
    OBVIOUS
  <1>4. \A j \in a + 1..b : ~Gapped(s, b, g, j)
    BY DEF Gapped
  <1>5. b \in a + 1..b /\ Drawn(s, b, w, g, b)
    BY DEF Drawn
  <1>6. x = ShownRow(s, b)
    BY DEF x
  <1> HIDE DEF out, b
  <1>7. \A j, k \in 1..Len(out) : ~(j < k)
    BY <1>2
  <1>8. 1 \in 1..Len(out) /\ \A k \in 1..Len(out) : k = 1
    BY <1>2
  <1>9. ReadTo(s, a, b, w, g, out)
    BY <1>2, <1>3, <1>4, <1>5, <1>6, <1>7, <1>8 DEF ReadTo
  <1> QED BY <1>9 DEF out, b, x

LEMMA ReadIsTo ==
    ASSUME NEW r \in Rings, T!Ascends(RowsOf(r)), NEW w \in Nat, NEW g \in Nat, NEW start \in 0..r.count,
           NEW f, f[0] = <<>>,
           \A n \in 1..r.count - start : f[n] = ReadStep(r, start, w, g, f[n - 1], start + n - 1)
    PROVE  \A n \in 1..r.count - start : ReadTo(RowsOf(r), start, start + n, w, g, f[n])
  <1> DEFINE s == RowsOf(r)
             c == r.count
             N == c - start
             Good(n) == ReadTo(s, start, start + n, w, g, f[n])
             M == {n \in Nat : n \in 1..N => Good(n)}
  <1>1. /\ s \in Seq(RingRows) /\ Len(s) = c /\ c \in Nat /\ start \in Nat /\ N \in Nat
        /\ T!Ascends(s)
    BY RowsAre
  <1>2. 0 \in M
    OBVIOUS
  <1>3. ASSUME NEW n \in Nat, n \in M PROVE n + 1 \in M
    <2> SUFFICES ASSUME n + 1 \in 1..N PROVE Good(n + 1)
      OBVIOUS
    <2> DEFINE i == start + n
    <2>1. /\ i \in start..c - 1 /\ (n + 1) - 1 = n /\ start + (n + 1) = i + 1 /\ start + (n + 1) - 1 = i
          /\ (i = start <=> n = 0) /\ i \in Nat /\ i < c /\ (n # 0 => n \in 1..N /\ start < i)
      <3> HIDE DEF s
      <3>1. n + 1 <= c - start
        OBVIOUS
      <3> HIDE DEF c
      <3> QED BY <1>1, <3>1
    <2>2. f[n + 1] = ReadStep(r, start, w, g, f[n], i)
      BY <2>1
    <2>a. ReadStep(r, start, w, g, f[n], i) = RowRead(s, start, w, g, f[n], i)
      <3>1. i \in start..r.count - 1 /\ start \in Nat
        BY <1>1, <2>1
      <3> HIDE DEF i
      <3> QED BY <3>1, ReadStepIs
    <2>3. ReadStep(r, start, w, g, f[n], i) =
            IF i = start THEN Append(f[n], ShownRow(s, i + 1))
            ELSE IF LastThere(s, i, w, g)
                   THEN Append(IF Broken(s, i, g) THEN Append(f[n], BreakAfter(s, i)) ELSE f[n], ShownRow(s, i + 1))
                   ELSE [f[n] EXCEPT ![Len(f[n])] = ShownRow(s, i + 1)]
      <3> HIDE DEF s, i, N
      <3> QED BY <2>a DEF RowRead
    <2> HIDE DEF s, i, N
    <2>4. CASE n = 0
      <3>1. i = start /\ f[n] = <<>>
        BY <2>1, <2>4
      <3>2. f[n + 1] = <<ShownRow(s, start + 1)>>
        BY <2>2, <2>3, <3>1
      <3>3. ReadTo(s, start, start + 1, w, g, <<ShownRow(s, start + 1)>>)
        <4>1. start < Len(s)
          BY <1>1, <2>1, <3>1
        <4> QED BY <1>1, <4>1, ReadFirst
      <3> QED BY <2>4, <3>2, <3>3
    <2>5. CASE n # 0
      <3>1. ReadTo(s, start, i, w, g, f[n]) /\ start < i /\ i < Len(s) /\ i # start
        BY <1>1, <1>3, <2>1, <2>5 DEF i
      <3>2. CASE LastThere(s, i, w, g)
        <4>1. ReadTo(s, start, i + 1, w, g,
                  Append(IF Broken(s, i, g) THEN Append(f[n], BreakAfter(s, i)) ELSE f[n], ShownRow(s, i + 1)))
          BY <1>1, <2>1, <3>1, <3>2, ReadNext
        <4> QED BY <2>1, <2>2, <2>3, <3>1, <3>2, <4>1
      <3>3. CASE ~LastThere(s, i, w, g)
        <4>1. ReadTo(s, start, i + 1, w, g, [f[n] EXCEPT ![Len(f[n])] = ShownRow(s, i + 1)])
          BY <1>1, <2>1, <3>1, <3>3, ReadSame
        <4> QED BY <2>1, <2>2, <2>3, <3>1, <3>3, <4>1
      <3> QED BY <3>2, <3>3
    <2> QED BY <2>4, <2>5
  <1>4. Nat \subseteq M
    <2> HIDE DEF M
    <2> QED BY <1>2, <1>3, Induction
  <1>5. \A n \in 1..N : Good(n)
    <2> HIDE DEF Good, N
    <2> QED BY <1>1, <1>4
  <1> QED BY <1>5

\* The rows asked for, and what the read of them shows.
ReadSays(r, from, w, g) ==
  LET rows == RowsOf(r)
      out == Read(r, from, w, g)
      asked == {i \in 1..Len(rows) : rows[i][1] >= from}
  IN /\ {out[k] : k \in 1..Len(out)}
          = {<<2 * rows[i][1], rows[i][2]>> : i \in {j \in asked : LastThere(rows, j, w, g)}}
              \cup {<<rows[i][1] + rows[i + 1][1], Gap>> : i \in {j \in asked : Broken(rows, j, g)}}
     /\ \A j, k \in 1..Len(out) : j < k => out[j][1] < out[k][1]

LEMMA ReadTells ==
    ASSUME NEW r \in Rings, T!Ascends(RowsOf(r)), NEW from \in Int, NEW w \in Nat, NEW g \in Nat
    PROVE  ReadSays(r, from, w, g)
  <1> DEFINE s == RowsOf(r)
             c == r.count
             start == IndexAtOrAfter(r, from)
             N == c - start
             out == Read(r, from, w, g)
             asked == {i \in 1..Len(s) : s[i][1] >= from}
  <1>1. /\ s \in Seq(RingRows) /\ Len(s) = c /\ c \in Nat /\ T!Ascends(s)
        /\ \A i \in 1..c : s[i] = <<TimeAt(r, i - 1), ValueAt(r, i - 1)>>
    BY RowsAre
  <1>2. start \in 0..c /\ \A i \in 0..c - 1 : TimeAt(r, i) < from <=> i < start
    BY SearchFinds
  <1>3. start \in Nat /\ N \in Nat
    BY <1>1, <1>2
  <1>4. asked = start + 1..c
    <2> HIDE DEF s, c, start
    <2>1. ASSUME NEW i \in 1..c PROVE s[i][1] >= from <=> i \in start + 1..c
      <3>1. i - 1 \in 0..c - 1 /\ s[i][1] = TimeAt(r, i - 1)
        BY <1>1
      <3>2. s[i][1] \in Int
        <4>1. s[i] \in RingRows
          BY <1>1, ElementOfSeq
        <4> QED BY <4>1 DEF RingRows
      <3>3. s[i][1] < from <=> i - 1 < start
        BY <1>2, <3>1
      <3> QED BY <1>1, <1>3, <3>2, <3>3
    <2>2. \A i \in start + 1..c : i \in 1..c
      BY <1>1, <1>3
    <2> QED BY <1>1, <2>1, <2>2
  <1>5. PICK f \in [0..N -> Seq(Shown)] :
          /\ f[0] = <<>>
          /\ \A n \in 1..N : f[n] = ReadStep(r, start, w, g, f[n - 1], start + n - 1)
          /\ out = f[N]
    BY <1>2, ReadGoes
  <1>6. \A n \in 1..N : ReadTo(s, start, start + n, w, g, f[n])
    BY <1>2, <1>5, ReadIsTo
  <1> DEFINE lasts == {ShownRow(s, i) : i \in {j \in asked : LastThere(s, j, w, g)}}
             breaks == {BreakAfter(s, i) : i \in {j \in asked : Broken(s, j, g)}}
  <1>7. CASE N = 0
    <2>1. out = <<>>
      BY <1>5, <1>7
    <2>2. asked = {}
      <3> HIDE DEF asked, s, c, start
      <3>1. c = start
        BY <1>1, <1>3, <1>7 DEF N
      <3> QED BY <1>1, <1>4, <3>1
    <2>3. lasts = {} /\ breaks = {}
      BY <2>2
    <2>4. {out[k] : k \in 1..Len(out)} = {} /\ \A k \in 1..Len(out) : FALSE
      BY <2>1
    <2> HIDE DEF s, asked, out
    <2> QED BY <2>3, <2>4 DEF ReadSays, ShownRow, BreakAfter, s, asked, out
  <1>8. CASE N # 0
    <2>1. N \in 1..N /\ start + N = c
      <3> DEFINE M == N
      <3> HIDE DEF s, c, start
      <3>1. N = c - start
        OBVIOUS
      <3> HIDE DEF N
      <3> QED BY <1>1, <1>3, <1>8, <3>1
    <2> HIDE DEF out, s, c, start, N
    <2>2. ReadTo(s, start, c, w, g, out)
      BY <1>5, <1>6, <2>1
    <2>3. \A j \in start + 1..c : Drawn(s, c, w, g, j) <=> LastThere(s, j, w, g)
      BY <1>1 DEF Drawn, LastThere
    <2>4. \A j \in start + 1..c : Gapped(s, c, g, j) <=> Broken(s, j, g)
      BY <1>1 DEF Gapped, Broken
    <2> DEFINE given == {out[k] : k \in 1..Len(out)}
    <2> HIDE DEF asked
    <2>5. ASSUME NEW e \in given PROVE e \in lasts \cup breaks
      <3>1. PICK k \in 1..Len(out) : e = out[k]
        OBVIOUS
      <3>2. PICK j \in start + 1..c : \/ Drawn(s, c, w, g, j) /\ out[k] = ShownRow(s, j)
                                      \/ Gapped(s, c, g, j) /\ out[k] = BreakAfter(s, j)
        BY <2>2 DEF ReadTo
      <3> QED BY <1>4, <2>3, <2>4, <3>1, <3>2
    <2>6. ASSUME NEW e \in lasts \cup breaks PROVE e \in given
      <3>1. CASE e \in lasts
        <4>1. PICK j \in asked : LastThere(s, j, w, g) /\ e = ShownRow(s, j)
          BY <3>1
        <4>2. PICK k \in 1..Len(out) : out[k] = ShownRow(s, j)
          BY <1>4, <2>2, <2>3, <4>1 DEF ReadTo
        <4> QED BY <4>1, <4>2
      <3>2. CASE e \in breaks
        <4>1. PICK j \in asked : Broken(s, j, g) /\ e = BreakAfter(s, j)
          BY <3>2
        <4>2. PICK k \in 1..Len(out) : out[k] = BreakAfter(s, j)
          BY <1>4, <2>2, <2>4, <4>1 DEF ReadTo
        <4> QED BY <4>1, <4>2
      <3> QED BY <3>1, <3>2
    <2>7. given = lasts \cup breaks
      BY <2>5, <2>6
    <2>8. \A j, k \in 1..Len(out) : j < k => out[j][1] < out[k][1]
      BY <2>2 DEF ReadTo
    <2> QED BY <2>7, <2>8 DEF ReadSays, ShownRow, BreakAfter, s, asked, out
  <1> QED BY <1>7, <1>8

\* At every step, a thinned read shows the rows that were measured, in their order, the
\* last of each bucket and the newest among them, and a break where two are far apart.
THEOREM ReadAlwaysHonest == RingSpec => []ReadIsHonest
<1>1. RingInv => ReadIsHonest
  <2> SUFFICES ASSUME RingInv PROVE ReadIsHonest
    OBVIOUS
  <2>1. \A from \in Times, w \in Widths, g \in Gaps : ReadSays(ring, from, w, g)
    BY RingBounds, ReadTells DEF RingInv
  <2> QED BY <2>1 DEF ReadSays, ReadIsHonest
<1> QED BY <1>1, RingInvInit, RingStep, PTL DEF RingSpec

-----------------------------------------------------------------------------
(* The history in front of a signal's ring, and its newest value (Seeding). *)

\* What is gathered of the sessions while the list is read.
Gathered == [floor : Int, over : BOOLEAN, used : Seq(RecordedSessions)]
NothingRead == [floor |-> Never, over |-> FALSE, used |-> <<>>]

\* One session more is read, at time `then`.
SessionRead(acc, s, then) ==
  IF acc.over \/ Orphan(s) \/ Overlaps(s, then, acc.floor) THEN acc
  ELSE IF EndOf(s, then) < then - SeedWindowS
    THEN [acc EXCEPT !.floor = s.start, !.over = TRUE]
    ELSE [acc EXCEPT !.floor = s.start, !.used = Append(@, s)]

LEMMA SessionReadIs ==
    ASSUME NEW acc \in Gathered, NEW s \in RecordedSessions, NEW then \in Nat
    PROVE  LET next == SessionRead(acc, s, then)
               skipped == acc.over \/ Orphan(s) \/ Overlaps(s, then, acc.floor)
               early == EndOf(s, then) < then - SeedWindowS
           IN /\ next \in Gathered
              /\ skipped => next = acc
              /\ ~skipped /\ early => next.over /\ next.used = acc.used
              /\ ~skipped /\ ~early => /\ next.floor = s.start /\ ~next.over
                                       /\ next.used = Append(acc.used, s)
  <1> DEFINE next == SessionRead(acc, s, then)
             skipped == acc.over \/ Orphan(s) \/ Overlaps(s, then, acc.floor)
             early == EndOf(s, then) < then - SeedWindowS
             more == Append(acc.used, s)
  <1>1. s.start \in Int
    BY DEF RecordedSessions
  <1>2. /\ acc = [floor |-> acc.floor, over |-> acc.over, used |-> acc.used]
        /\ acc.floor \in Int /\ acc.over \in BOOLEAN /\ acc.used \in Seq(RecordedSessions)
    BY DEF Gathered
  <1>3. more \in Seq(RecordedSessions)
    BY <1>2, AppendProperties
  <1>4. CASE skipped
    <2>1. next = acc
      BY <1>4 DEF SessionRead
    <2> HIDE DEF skipped, early, next
    <2> QED BY <1>4, <2>1 DEF next, skipped, early
  <1>5. CASE ~skipped /\ early
    <2>1. next = [acc EXCEPT !.floor = s.start, !.over = TRUE]
      BY <1>5 DEF SessionRead
    <2> HIDE DEF skipped, early, next
    <2>2. next = [floor |-> s.start, over |-> TRUE, used |-> acc.used]
      BY <1>2, <2>1
    <2>3. next \in Gathered /\ next.over /\ next.used = acc.used
      BY <1>1, <1>2, <2>2 DEF Gathered
    <2> QED BY <1>5, <2>3 DEF next, skipped, early
  <1>6. CASE ~skipped /\ ~early
    <2>1. next = [acc EXCEPT !.floor = s.start, !.used = more]
      BY <1>6 DEF SessionRead
    <2>0. ~acc.over
      BY <1>6
    <2> HIDE DEF skipped, early, next, more
    <2>2. next = [floor |-> s.start, over |-> acc.over, used |-> more]
      BY <1>2, <2>1
    <2>3. next \in Gathered /\ next.floor = s.start /\ ~next.over /\ next.used = more
      BY <1>1, <1>2, <1>3, <2>0, <2>2 DEF Gathered
    <2> QED BY <1>6, <2>3 DEF next, skipped, early, more
  <1> QED BY <1>4, <1>5, <1>6

\* The sessions are read one by one.
LEMMA SessionsGo ==
    ASSUME NEW list \in Seq(RecordedSessions), NEW then \in Nat
    PROVE  LET N == Len(list)
           IN \E f \in [0..N -> Gathered] :
                /\ f[0] = NothingRead
                /\ \A n \in 1..N : f[n] = SessionRead(f[n - 1], list[n], then)
                /\ UsedSessions(list, then) = f[N].used
  <1> DEFINE N == Len(list)
             e == NothingRead
             Took(acc, n) == SessionRead(acc, list[n], then)
             step == [n \in 1..N |-> [acc \in Gathered |-> Took(acc, n)]]
             Whole(h) == [n \in 0..N |-> IF n = 0 THEN e ELSE Took(h[n - 1], n)]
             t == CHOOSE h : h = Whole(h)
  <1>1. N \in Nat
    OBVIOUS
  <1>2. UsedSessions(list, then) = t[N].used
    BY DEF UsedSessions, SessionRead, NothingRead
  <1>3. \A n \in 1..N : list[n] \in RecordedSessions
    BY ElementOfSeq
  <1> HIDE DEF N
  <1>4. e \in Gathered
    BY DEF NothingRead, Gathered, Never
  <1>5. step \in [1..N -> [Gathered -> Gathered]]
    <2> SUFFICES ASSUME NEW n \in 1..N, NEW acc \in Gathered PROVE Took(acc, n) \in Gathered
      OBVIOUS
    <2> QED BY <1>3, SessionReadIs
  <1> HIDE DEF Took, e
  <1>6. PICK f \in [0..N -> Gathered] : Goes(f, e, step, N)
    <2> HIDE DEF step
    <2> QED BY <1>1, <1>4, <1>5, Recursion
  <1>7. \A n \in 1..N : f[n] = Took(f[n - 1], n)
    <2> SUFFICES ASSUME NEW n \in 1..N PROVE f[n] = Took(f[n - 1], n)
      OBVIOUS
    <2>1. f[n - 1] \in Gathered
      <3>1. n - 1 \in 0..N
        BY <1>1
      <3> QED BY <3>1
    <2>2. f[n] = step[n][f[n - 1]]
      <3> HIDE DEF step
      <3> QED BY <1>6 DEF Goes
    <2> QED BY <2>1, <2>2
  <1>8. f = Whole(f)
    <2>1. f[0] = e
      BY <1>6 DEF Goes
    <2>2. \A n \in 0..N : f[n] = IF n = 0 THEN e ELSE Took(f[n - 1], n)
      BY <1>1, <1>7, <2>1
    <2> QED BY <2>2
  <1>9. t = Whole(t)
    <2> HIDE DEF Whole
    <2> QED BY <1>8
  <1> HIDE DEF t
  <1>10. \A n \in 0..N : t[n] = IF n = 0 THEN e ELSE Took(t[n - 1], n)
    BY <1>9
  <1> DEFINE M == {n \in Nat : n <= N => t[n] = f[n]}
  <1>11. 0 \in M
    BY <1>1, <1>6, <1>10 DEF Goes
  <1>12. ASSUME NEW n \in Nat, n \in M PROVE n + 1 \in M
    <2> SUFFICES ASSUME n + 1 <= N PROVE t[n + 1] = f[n + 1]
      OBVIOUS
    <2>1. n + 1 \in 1..N /\ n + 1 \in 0..N /\ (n + 1) - 1 = n /\ n <= N /\ n + 1 # 0
      BY <1>1
    <2> QED BY <1>7, <1>10, <1>12, <2>1
  <1>13. N \in M
    <2> HIDE DEF M
    <2> QED BY <1>1, <1>11, <1>12, Induction
  <1>14. t[N] = f[N] /\ f[0] = e
    BY <1>1, <1>6, <1>13 DEF Goes
  <1> QED BY <1>2, <1>7, <1>14 DEF Took, e, N

\* Session i of the list is the newest there is to read.
FirstToRead(list, i, then) ==
  /\ ~Orphan(list[i]) /\ EndOf(list[i], then) >= then - SeedWindowS
  /\ \A j \in 1..i - 1 : Orphan(list[j])

\* The sessions used follow one another, and nothing to read was left out while
\* all of the first n were orphans.
Follows(acc, list, n, then) ==
  /\ acc \in Gathered
  /\ \A i \in 1..Len(acc.used) - 1 : EndOf(acc.used[i + 1], then) <= acc.used[i].start
  /\ \A i \in 1..Len(acc.used) : ~Orphan(acc.used[i]) /\ EndOf(acc.used[i], then) >= then - SeedWindowS
  /\ ~acc.over /\ acc.used # <<>> => acc.floor = acc.used[Len(acc.used)].start
  /\ (\A j \in 1..n : Orphan(list[j])) => ~acc.over /\ acc.floor = Never
  /\ \A i \in 1..n : FirstToRead(list, i, then) => \E k \in 1..Len(acc.used) : acc.used[k] = list[i]

LEMMA FollowsOn ==
    ASSUME NEW list \in Seq(RecordedSessions), NEW then \in Nat, NEW n \in Nat, n < Len(list),
           NEW acc, Follows(acc, list, n, then)
    PROVE  Follows(SessionRead(acc, list[n + 1], then), list, n + 1, then)
  <1> DEFINE s == list[n + 1]
             next == SessionRead(acc, s, then)
             skipped == acc.over \/ Orphan(s) \/ Overlaps(s, then, acc.floor)
             early == EndOf(s, then) < then - SeedWindowS
             m == Len(acc.used)
  <1>1. s \in RecordedSessions /\ acc \in Gathered
    <2>1. n + 1 \in 1..Len(list)
      OBVIOUS
    <2> QED BY <2>1, ElementOfSeq DEF Follows
  <1>2. /\ next \in Gathered
        /\ skipped => next = acc
        /\ ~skipped /\ early => next.over /\ next.used = acc.used
        /\ ~skipped /\ ~early => next.floor = s.start /\ ~next.over /\ next.used = Append(acc.used, s)
    BY <1>1, SessionReadIs
  <1>3. EndOf(s, then) \in Int /\ s.start \in Nat
    BY <1>1 DEF RecordedSessions, EndOf, Never
  <1>4. \A i \in 1..n + 1 : i \in 1..n \/ i = n + 1
    OBVIOUS
  <1>5. FirstToRead(list, n + 1, then) => ~skipped /\ ~early
    <2> SUFFICES ASSUME FirstToRead(list, n + 1, then) PROVE ~skipped /\ ~early
      OBVIOUS
    <2>1. ~Orphan(s) /\ ~early /\ \A j \in 1..n : Orphan(list[j])
      <3>1. (n + 1) - 1 = n
        OBVIOUS
      <3>2. ~Orphan(s) /\ EndOf(s, then) >= then - SeedWindowS /\ \A j \in 1..n : Orphan(list[j])
        BY <3>1 DEF FirstToRead
      <3> QED BY <1>3, <3>2, SeedBounds
    <2>2. ~acc.over /\ acc.floor = Never
      BY <2>1 DEF Follows
    <2> QED BY <2>1, <2>2 DEF Overlaps
  <1>6. m \in Nat /\ acc.used \in Seq(RecordedSessions)
    BY <1>1 DEF Gathered
  <1> HIDE DEF s, next, early
  <1>7. CASE skipped
    <2>1. next = acc /\ ~FirstToRead(list, n + 1, then)
      BY <1>2, <1>5, <1>7
    <2>2. \A i \in 1..n : i \in 1..n + 1
      OBVIOUS
    <2>3. Follows(next, list, n + 1, then)
      BY <1>4, <2>1, <2>2 DEF Follows
    <2> QED BY <2>3 DEF next, s
  <1>8. CASE ~skipped /\ early
    <2>1. next.over /\ next.used = acc.used /\ ~FirstToRead(list, n + 1, then)
      BY <1>2, <1>5, <1>8
    <2>2. ~(\A j \in 1..n + 1 : Orphan(list[j]))
      <3>1. n + 1 \in 1..n + 1 /\ ~Orphan(s)
        BY <1>8
      <3> QED BY <3>1 DEF s
    <2>3. Follows(next, list, n + 1, then)
      BY <1>2, <1>4, <2>1, <2>2 DEF Follows
    <2> QED BY <2>3 DEF next, s
  <1>9. CASE ~skipped /\ ~early
    <2> DEFINE u == next.used
    <2>1. next.floor = s.start /\ ~next.over /\ u = Append(acc.used, s)
      BY <1>2, <1>9
    <2>2. /\ Len(u) = m + 1 /\ u[m + 1] = s
          /\ \A i \in 1..m : u[i] = acc.used[i]
      BY <1>1, <1>6, <2>1, AppendProperties
    <2>3. ~(\A j \in 1..n + 1 : Orphan(list[j]))
      <3>1. n + 1 \in 1..n + 1 /\ ~Orphan(s)
        BY <1>9
      <3> QED BY <3>1 DEF s
    <2>4. ~Orphan(s) /\ EndOf(s, then) >= then - SeedWindowS
      BY <1>3, <1>9, SeedBounds DEF early
    <2>5. m > 0 => EndOf(s, then) <= acc.used[m].start
      <3> SUFFICES ASSUME m > 0 PROVE EndOf(s, then) <= acc.used[m].start
        OBVIOUS
      <3>1. acc.used # <<>> /\ ~acc.over /\ m \in 1..m
        BY <1>6, <1>9
      <3>2. acc.floor = acc.used[m].start /\ acc.used[m] \in RecordedSessions
        BY <1>6, <3>1, ElementOfSeq DEF Follows
      <3>3. acc.floor \in Nat /\ acc.floor # Never
        BY <3>2 DEF RecordedSessions, Never
      <3>4. ~(EndOf(s, then) > acc.floor)
        BY <1>9, <3>3 DEF Overlaps
      <3> QED BY <1>3, <3>2, <3>3, <3>4
    <2>6. \A i \in 1..m - 1 : EndOf(acc.used[i + 1], then) <= acc.used[i].start
      BY DEF Follows
    <2>7. \A i \in 1..m : ~Orphan(acc.used[i]) /\ EndOf(acc.used[i], then) >= then - SeedWindowS
      BY DEF Follows
    <2> HIDE DEF m, u, skipped
    <2>8. \A i \in 1..Len(u) - 1 : EndOf(u[i + 1], then) <= u[i].start
      <3> SUFFICES ASSUME NEW i \in 1..m PROVE EndOf(u[i + 1], then) <= u[i].start
        BY <1>6, <2>2
      <3>1. CASE i = m
        BY <1>6, <2>2, <2>5, <3>1
      <3>2. CASE i # m
        <4>1. i \in 1..m - 1 /\ i + 1 \in 1..m
          BY <1>6, <3>2
        <4> QED BY <2>2, <2>6, <4>1
      <3> QED BY <3>1, <3>2
    <2>9. \A i \in 1..Len(u) : ~Orphan(u[i]) /\ EndOf(u[i], then) >= then - SeedWindowS
      <3>1. \A i \in 1..Len(u) : i = m + 1 \/ i \in 1..m
        BY <1>6, <2>2
      <3> QED BY <2>2, <2>4, <2>7, <3>1
    <2>10. \A i \in 1..n + 1 : FirstToRead(list, i, then) => \E k \in 1..Len(u) : u[k] = list[i]
      <3> SUFFICES ASSUME NEW i \in 1..n + 1, FirstToRead(list, i, then)
                   PROVE  \E k \in 1..Len(u) : u[k] = list[i]
        OBVIOUS
      <3>1. CASE i = n + 1
        <4>1. m + 1 \in 1..Len(u)
          BY <1>6, <2>2
        <4> QED BY <2>2, <3>1, <4>1 DEF s
      <3>2. CASE i # n + 1
        <4>1. PICK k \in 1..m : acc.used[k] = list[i]
          BY <1>4, <3>2 DEF Follows, m
        <4>2. k \in 1..Len(u)
          BY <1>6, <2>2
        <4> QED BY <2>2, <4>1, <4>2
      <3> QED BY <3>1, <3>2
    <2>11. Follows(next, list, n + 1, then)
      BY <1>2, <2>1, <2>2, <2>3, <2>8, <2>9, <2>10 DEF Follows, u
    <2> QED BY <2>11 DEF next, s
  <1> QED BY <1>7, <1>8, <1>9

LEMMA SessionsFollow ==
    ASSUME NEW list \in Seq(RecordedSessions), NEW then \in Nat
    PROVE  LET used == UsedSessions(list, then)
           IN /\ \A i \in 1..Len(used) - 1 : EndOf(used[i + 1], then) <= used[i].start
              /\ \A i \in 1..Len(used) : ~Orphan(used[i]) /\ EndOf(used[i], then) >= then - SeedWindowS
              /\ \A i \in 1..Len(list) : FirstToRead(list, i, then) => list[i] \in Members(used)
  <1> DEFINE N == Len(list)
             used == UsedSessions(list, then)
  <1>1. PICK f \in [0..N -> Gathered] :
          /\ f[0] = NothingRead
          /\ \A n \in 1..N : f[n] = SessionRead(f[n - 1], list[n], then)
          /\ used = f[N].used
    BY SessionsGo
  <1> DEFINE M == {n \in Nat : n <= N => Follows(f[n], list, n, then)}
  <1>2. N \in Nat
    OBVIOUS
  <1>3. 0 \in M
    <2>1. f[0] \in Gathered
      BY <1>1, <1>2
    <2> QED BY <1>1, <2>1 DEF Follows, NothingRead
  <1>4. ASSUME NEW n \in Nat, n \in M PROVE n + 1 \in M
    <2> SUFFICES ASSUME n + 1 <= N PROVE Follows(f[n + 1], list, n + 1, then)
      OBVIOUS
    <2>1. n < N /\ n <= N /\ n + 1 \in 1..N /\ (n + 1) - 1 = n
      BY <1>2
    <2>2. f[n + 1] = SessionRead(f[n], list[n + 1], then) /\ Follows(f[n], list, n, then)
      BY <1>1, <1>4, <2>1
    <2> QED BY <2>1, <2>2, FollowsOn
  <1>5. N \in M
    <2> HIDE DEF M
    <2> QED BY <1>2, <1>3, <1>4, Induction
  <1>6. Follows(f[N], list, N, then)
    BY <1>2, <1>5
  <1> HIDE DEF used, N
  <1> QED BY <1>1, <1>6 DEF Follows, Members, used, N

\* The frames on their way are the last ticks of the clock, in order; nothing
\* was delivered yet, or every signal has the value of the last tick delivered.
NewestInv ==
  /\ now \in Nat /\ now >= Opened
  /\ wire \in Seq(Int) /\ Len(wire) <= now - Opened
  /\ \A i \in 1..Len(wire) : wire[i] = now - Len(wire) + i
  /\ Len(wire) = now - Opened \/ \A a \in Signals : latest[a] = now - Len(wire)

LEMMA NewestInvInit == SeedInit => NewestInv
  BY SeedBounds DEF SeedInit, NewestInv

LEMMA NewestInvStep == NewestInv /\ [SeedNext]_seedVars => NewestInv'
  <1> SUFFICES ASSUME NewestInv, [SeedNext]_seedVars PROVE NewestInv'
    OBVIOUS
  <1> DEFINE w == Len(wire)
  <1>0. /\ Opened \in Nat /\ now \in Nat /\ now >= Opened /\ wire \in Seq(Int) /\ w \in Nat
        /\ w <= now - Opened
    BY SeedBounds DEF NewestInv
  <1>1. CASE Sample
    <2>1. now' = now + 1 /\ wire' = Append(wire, now + 1) /\ latest' = latest
      BY <1>1 DEF Sample
    <2>2. /\ wire' \in Seq(Int) /\ Len(wire') = w + 1 /\ wire'[w + 1] = now + 1
          /\ \A i \in 1..w : wire'[i] = wire[i]
      BY <1>0, <2>1, AppendProperties
    <2> HIDE DEF w
    <2>3. \A i \in 1..w : wire[i] = now - w + i
      BY DEF NewestInv, w
    <2>4. w = now - Opened \/ \A a \in Signals : latest[a] = now - w
      BY DEF NewestInv, w
    <2>5. \A i \in 1..Len(wire') : wire'[i] = now' - Len(wire') + i
      <3> SUFFICES ASSUME NEW i \in 1..w + 1 PROVE wire'[i] = (now + 1) - (w + 1) + i
        BY <2>1, <2>2
      <3>1. CASE i = w + 1
        BY <1>0, <2>2, <3>1
      <3>2. CASE i # w + 1
        <4>1. i \in 1..w
          BY <1>0, <3>2
        <4> QED BY <1>0, <2>2, <2>3, <4>1
      <3> QED BY <3>1, <3>2
    <2>6. now' \in Nat /\ now' >= Opened /\ Len(wire') <= now' - Opened
      BY <1>0, <2>1, <2>2
    <2>7. Len(wire') = now' - Opened \/ \A a \in Signals : latest'[a] = now' - Len(wire')
      <3>1. CASE w = now - Opened
        <4>1. Len(wire') = now' - Opened
          BY <1>0, <2>1, <2>2, <3>1
        <4> QED BY <4>1
      <3>2. CASE \A a \in Signals : latest[a] = now - w
        <4>1. now' - Len(wire') = now - w
          BY <1>0, <2>1, <2>2
        <4> QED BY <2>1, <3>2, <4>1
      <3> QED BY <2>4, <3>1, <3>2
    <2> QED BY <2>2, <2>5, <2>6, <2>7 DEF NewestInv
  <1>2. CASE OnSamples
    <2>1. /\ wire # <<>> /\ wire' = Tail(wire) /\ now' = now
          /\ latest' = [a \in Signals |-> Head(wire)]
      BY <1>2 DEF OnSamples
    <2>2. /\ wire' \in Seq(Int) /\ Len(wire') = w - 1 /\ w > 0
          /\ \A i \in 1..w - 1 : wire'[i] = wire[i + 1]
          /\ Head(wire) = wire[1]
      BY <1>0, <2>1
    <2> HIDE DEF w
    <2>3. \A i \in 1..w : wire[i] = now - w + i
      BY DEF NewestInv, w
    <2>4. \A i \in 1..Len(wire') : wire'[i] = now' - Len(wire') + i
      <3> SUFFICES ASSUME NEW i \in 1..w - 1 PROVE wire'[i] = now - (w - 1) + i
        BY <2>1, <2>2
      <3>1. i + 1 \in 1..w
        BY <1>0
      <3>2. wire'[i] = now - w + (i + 1)
        BY <2>2, <2>3, <3>1
      <3> QED BY <1>0, <3>2
    <2>5. \A a \in Signals : latest'[a] = now' - Len(wire')
      <3>1. wire[1] = now - w + 1
        <4>1. 1 \in 1..w
          BY <1>0, <2>2
        <4> QED BY <2>3, <4>1
      <3>2. wire[1] = now - (w - 1)
        BY <1>0, <3>1
      <3> QED BY <2>1, <2>2, <3>2
    <2>6. Len(wire') <= now' - Opened
      BY <1>0, <2>1, <2>2
    <2> QED BY <1>0, <2>1, <2>2, <2>4, <2>5, <2>6 DEF NewestInv
  <1>3. ASSUME NEW n \in newest, LandNewest(n) PROVE NewestInv'
    <2>1. /\ now' = now /\ wire' = wire
          /\ latest' = [a \in Signals |-> IF a \in Fills(n) THEN n.at ELSE latest[a]]
      BY <1>3 DEF LandNewest
    <2>2. ASSUME NEW a \in Signals, latest[a] = now - w PROVE latest'[a] = now - w
      <3>1. latest[a] # Never
        BY <1>0, <2>2 DEF Never
      <3> QED BY <2>1, <2>2, <3>1 DEF Fills
    <2> QED BY <2>1, <2>2 DEF NewestInv
  <1>4. CASE UNCHANGED <<now, wire, latest>>
    BY <1>4 DEF NewestInv
  <1> QED BY <1>1, <1>2, <1>3, <1>4
      DEF SeedNext, seedVars, SendBatch, Seed, ListSessions, AnswerSeries, LandHistory, HistoryFails, AnswerNewest

\* The sessions laid over a trace follow one another on its axis, the newest there is
\* to read among them, and the readout shows the newest value once all has landed.
THEOREM HistoryAlwaysTrue == SeedSpec => []HistoryIsTrue
<1>1. SeedInit => recordings \in Recordings
  BY DEF SeedInit
<1>2. recordings \in Recordings /\ [SeedNext]_seedVars => (recordings \in Recordings)'
  BY DEF SeedNext, seedVars, Sample, OnSamples, SendBatch, Seed, ListSessions, AnswerSeries, LandHistory,
         HistoryFails, AnswerNewest, LandNewest
<1>3. recordings \in Recordings => OneAxis
  <2> SUFFICES ASSUME recordings \in Recordings, NEW then \in Opened..MaxNow
               PROVE  LET used == UsedSessions(recordings, then)
                      IN /\ \A i \in 1..Len(used) - 1 : EndOf(used[i + 1], then) <= used[i].start
                         /\ \A i \in 1..Len(used) : ~Orphan(used[i]) /\ EndOf(used[i], then) >= then - SeedWindowS
                         /\ \A i \in 1..Len(recordings) :
                              (/\ ~Orphan(recordings[i])
                               /\ EndOf(recordings[i], then) >= then - SeedWindowS
                               /\ \A j \in 1..i - 1 : Orphan(recordings[j])) => recordings[i] \in Members(used)
    BY DEF OneAxis
  <2>1. recordings \in Seq(RecordedSessions) /\ then \in Nat
    BY SeedBounds
  <2> QED BY <2>1, SessionsFollow DEF FirstToRead
<1>4. NewestInv => NewestIsShown
  <2> SUFFICES ASSUME NewestInv, wire = <<>>, now > Opened, NEW a \in Signals PROVE latest[a] = now
    BY DEF NewestIsShown
  <2>1. Len(wire) = 0 /\ now \in Nat /\ Opened \in Nat
    BY SeedBounds DEF NewestInv
  <2>2. Len(wire) # now - Opened /\ now - Len(wire) = now
    BY <2>1
  <2> QED BY <2>2 DEF NewestInv
<1> QED BY <1>1, <1>2, <1>3, <1>4, NewestInvInit, NewestInvStep, PTL DEF SeedSpec, HistoryIsTrue

\* A signal waits for the next batch, or was asked for, or neither.
AsksInv ==
  /\ pending \subseteq seeded
  /\ \A a \in Signals : asks[a] = IF a \in seeded \ pending THEN 1 ELSE 0

\* However many components ask for a signal, its history is asked for once.
THEOREM AskedAlwaysOnce == SeedSpec => []AskedOnce
<1>1. SeedInit => AsksInv
  BY DEF SeedInit, AsksInv
<1>2. AsksInv /\ [SeedNext]_seedVars => AsksInv'
  <2> SUFFICES ASSUME AsksInv, [SeedNext]_seedVars PROVE AsksInv'
    OBVIOUS
  <2>1. ASSUME NEW addresses \in SUBSET Signals, Seed(addresses) PROVE AsksInv'
    BY <2>1 DEF Seed, AsksInv
  <2>2. CASE SendBatch
    BY <2>2 DEF SendBatch, AsksInv
  <2>3. CASE UNCHANGED <<seeded, pending, asks>>
    BY <2>3 DEF AsksInv
  <2> QED BY <2>1, <2>2, <2>3
          DEF SeedNext, seedVars, Sample, OnSamples, ListSessions, AnswerSeries, LandHistory, HistoryFails,
              AnswerNewest, LandNewest
<1>3. AsksInv => AskedOnce
  BY DEF AsksInv, AskedOnce
<1> QED BY <1>1, <1>2, <1>3, PTL DEF SeedSpec
=============================================================================
