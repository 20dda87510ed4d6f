------------------------------- MODULE Sockets -------------------------------
(***************************************************************************)
(* One stream of the dashboard: the transport's reconnecting web socket    *)
(* (client/src/transport.ts) under the telemetry store's counted sharing   *)
(* of it (react/src/store/telemetry.ts, acquire, release, dispose).        *)
(*                                                                         *)
(* Each call of rig.stream makes a subscription, numbered here in the      *)
(* order they are made; a subscription makes one WebSocket after another.  *)
(* The callbacks of a browser run one at a time, so each action is one     *)
(* callback. Streams share nothing, so one is enough.                      *)
(*                                                                         *)
(* Bounds: MaxUsers subscribers at a time, MaxSubs subscriptions, and the  *)
(* retry count saturates at MaxAttempt, where the delay does too.          *)
(***************************************************************************)
EXTENDS Integers, FiniteSets

CONSTANTS MaxUsers,    \* subscribers of the stream at a time
          MaxSubs,     \* subscriptions made in a page's life
          MaxAttempt   \* failures after which the delay no longer grows

ASSUME SocketBounds == /\ MaxUsers \in Nat \ {0}
                       /\ MaxSubs \in Nat \ {0}
                       /\ MaxAttempt \in Nat

VARIABLES users,    \* subscribers that have not unsubscribed
          held,     \* the store's entry for the stream: a subscription, or 0
          count,    \* held.count
          closer,   \* held.closer is armed: the grace after the last subscriber
          offline,  \* held.offlineTimer refers to an armed timer
          strays,   \* armed offline timers no entry refers to any more
          status,   \* statuses[stream]
          ws,       \* subscription -> its newest WebSocket
          closed,   \* subscription -> close() was called
          attempt,  \* subscription -> failures since it last opened
          retry,    \* subscription -> its reconnect timer is armed
          refused,  \* subscription -> its last close had the code 4401
          disposed  \* dispose() was called; the store is not used again

storeVars == <<held, count, closer, offline, strays, status>>
wireVars == <<ws, closed, attempt, retry, refused>>
socketsVars == <<users, storeVars, wireVars, disposed>>

Subscriptions == 1..MaxSubs
Made == {s \in Subscriptions : ws[s] # "none"}
\* What is left to use of a socket; a closing one still owes its onclose.
WsStates == {"none", "connecting", "open", "closing", "closed"}

SocketsTypeOK ==
  /\ users \in 0..MaxUsers
  /\ held \in 0..MaxSubs
  /\ count \in 0..MaxUsers
  /\ closer \in BOOLEAN /\ offline \in BOOLEAN
  /\ strays \in 0..MaxSubs
  /\ status \in {"idle", "connecting", "open", "closed"}
  /\ ws \in [Subscriptions -> WsStates]
  /\ closed \in [Subscriptions -> BOOLEAN]
  /\ attempt \in [Subscriptions -> 0..MaxAttempt]
  /\ retry \in [Subscriptions -> BOOLEAN]
  /\ refused \in [Subscriptions -> BOOLEAN]
  /\ disposed \in BOOLEAN

SocketsInit ==
  /\ users = 0 /\ held = 0 /\ count = 0
  /\ closer = FALSE /\ offline = FALSE /\ strays = 0
  /\ status = "idle"
  /\ ws = [s \in Subscriptions |-> "none"]
  /\ closed = [s \in Subscriptions |-> FALSE]
  /\ attempt = [s \in Subscriptions |-> 0]
  /\ retry = [s \in Subscriptions |-> FALSE]
  /\ refused = [s \in Subscriptions |-> FALSE]
  /\ disposed = FALSE

-----------------------------------------------------------------------------
(* The transport.                                                          *)

\* close(): no retry any more; a socket that is up or coming up will answer
\* with its onclose later.
Shut(s) ==
  /\ closed' = [closed EXCEPT ![s] = TRUE]
  /\ retry' = [retry EXCEPT ![s] = FALSE]
  /\ ws' = [ws EXCEPT ![s] = IF @ \in {"connecting", "open"} THEN "closing" ELSE @]
  /\ UNCHANGED <<attempt, refused>>

\* The store's onOpen.
OnOpen ==
  /\ offline' = FALSE
  /\ status' = "open"
  /\ UNCHANGED <<held, count, closer, strays>>

\* The server accepts the connection; a socket that is being closed no longer opens.
Opens(s) ==
  /\ ws[s] = "connecting"
  /\ ws' = [ws EXCEPT ![s] = "open"]
  /\ attempt' = [attempt EXCEPT ![s] = 0]
  /\ OnOpen
  /\ UNCHANGED <<users, closed, retry, refused, disposed>>

\* The store's onClose: a subscription it has let go no longer counts. A drop
\* shows amber, and arms the timer that turns it red, in place of an older one.
OnClose(s) ==
  IF s # held THEN UNCHANGED storeVars
  ELSE /\ status' = "connecting"
       /\ offline' = TRUE
       /\ UNCHANGED <<held, count, closer, strays>>

\* No more retries once the delay no longer grows.
AgainForAWhile(s, refusal) == ~closed[s] /\ ~refusal /\ attempt[s] < MaxAttempt

Again(s, refusal) == ~closed[s] /\ ~refusal

\* socket.onclose, its code 4401 for a refusal or another: the store first, then the
\* retry, unless close() was called or the runner refused the token.
Drops(s, refusal) ==
  /\ ws[s] \in {"connecting", "open", "closing"}
  /\ ws' = [ws EXCEPT ![s] = "closed"]
  /\ OnClose(s)
  /\ refused' = [refused EXCEPT ![s] = refusal]
  /\ retry' = [retry EXCEPT ![s] = Again(s, refusal)]
  /\ attempt' = [attempt EXCEPT ![s] = IF Again(s, refusal) /\ @ < MaxAttempt THEN @ + 1 ELSE @]
  /\ UNCHANGED <<users, closed, disposed>>

\* The reconnect timer fires: connect() again.
Reconnects(s) ==
  /\ retry[s]
  /\ retry' = [retry EXCEPT ![s] = FALSE]
  /\ ws' = [ws EXCEPT ![s] = "connecting"]
  /\ UNCHANGED <<users, storeVars, closed, attempt, refused, disposed>>

\* Milliseconds before the retry after the a-th failure.
Delay(a) == IF 500 * 2^a < 30000 THEN 500 * 2^a ELSE 30000

-----------------------------------------------------------------------------
(* The store.                                                              *)

\* The timer of the grace left armed by who joins.
JoinsInGrace ==
  /\ held # 0
  /\ count' = count + 1
  /\ UNCHANGED <<held, closer, offline, strays, status, wireVars>>

\* acquire: join the entry and call off its closing...
Joins ==
  /\ held # 0
  /\ count' = count + 1
  /\ closer' = FALSE
  /\ UNCHANGED <<held, offline, strays, status, wireVars>>

\* ... or make a subscription.
MakesEntry ==
  /\ held = 0
  /\ \E s \in Subscriptions \ Made :
       /\ \A r \in Subscriptions : r < s => r \in Made
       /\ held' = s
       /\ ws' = [ws EXCEPT ![s] = "connecting"]
  /\ count' = 1
  /\ closer' = FALSE /\ offline' = FALSE
  /\ status' = "connecting"
  /\ UNCHANGED <<strays, closed, attempt, retry, refused>>

Acquire ==
  /\ users < MaxUsers /\ ~disposed
  /\ users' = users + 1
  /\ Joins \/ MakesEntry
  /\ UNCHANGED disposed

\* release: the last one out disarms the offline timer and starts the grace.
Release ==
  /\ users > 0
  /\ users' = users - 1
  /\ count' = IF held = 0 THEN count ELSE count - 1
  /\ IF held # 0 /\ count = 1 /\ ~closer
       THEN closer' = TRUE /\ offline' = FALSE
       ELSE UNCHANGED <<closer, offline>>
  /\ UNCHANGED <<held, strays, status, wireVars, disposed>>

\* The grace is over: the entry goes, and with it the only reference to an
\* offline timer that a drop during the grace has armed.
CloserFires ==
  /\ closer
  /\ held' = 0 /\ count' = 0 /\ closer' = FALSE
  /\ Shut(held)
  /\ status' = "idle"
  /\ strays' = IF offline THEN strays + 1 ELSE strays
  /\ offline' = FALSE
  /\ UNCHANGED <<users, disposed>>

\* What an offline timer does: it clears the reference of whatever entry there
\* is now, and shows red unless the stream is open.
GivesUp == status' = IF status # "open" THEN "closed" ELSE status

\* The timer the entry refers to. Timers of one length fire in the order they
\* were armed, so the strays, which are older, come first.
OfflineFires ==
  /\ offline /\ strays = 0
  /\ offline' = FALSE
  /\ GivesUp
  /\ UNCHANGED <<users, held, count, closer, strays, wireVars, disposed>>

\* A stray: should the entry there is now have a timer, that one loses its reference.
StrayFires ==
  /\ strays > 0
  /\ strays' = IF offline THEN strays ELSE strays - 1
  /\ offline' = FALSE
  /\ GivesUp
  /\ UNCHANGED <<users, held, count, closer, wireVars, disposed>>

\* dispose: everything is closed at once, whoever still subscribes; a release
\* that comes after finds no entry.
Dispose ==
  /\ ~disposed
  /\ disposed' = TRUE
  /\ held' = 0 /\ count' = 0 /\ closer' = FALSE /\ offline' = FALSE
  /\ IF held = 0 THEN UNCHANGED wireVars ELSE Shut(held)
  /\ status' = IF held = 0 THEN status ELSE "idle"
  /\ UNCHANGED <<users, strays>>

SocketsNext ==
  \/ Acquire \/ Release \/ CloserFires \/ OfflineFires \/ StrayFires \/ Dispose
  \/ \E s \in Subscriptions : \/ Opens(s)
                              \/ \E refusal \in BOOLEAN : Drops(s, refusal)
                              \/ Reconnects(s)

SocketsSpec == SocketsInit /\ [][SocketsNext]_socketsVars

\* Timers fire, and a server that goes on being asked accepts in the end.
SocketsFairness ==
  /\ WF_socketsVars(CloserFires) /\ WF_socketsVars(OfflineFires) /\ WF_socketsVars(StrayFires)
  /\ \A s \in Subscriptions : WF_socketsVars(Reconnects(s)) /\ SF_socketsVars(Opens(s))

-----------------------------------------------------------------------------
(* Properties.                                                             *)

\* The entry of the stream counts its subscribers, and while there is one its
\* subscription is not let go: neither the grace of an earlier subscriber nor
\* a disposal pulls the socket from under a later one.
HeldWhileUsed ==
  disposed \/
  /\ count = users
  /\ users > 0 => held # 0 /\ ~closed[held] /\ ~closer

\* A subscription that was let go is over: it neither reconnects nor comes up,
\* whatever its socket was doing at that moment (one stream, one live socket).
LetGoStaysDown ==
  \A s \in Made \ {held} : closed[s] /\ ~retry[s] /\ ws[s] \in {"closing", "closed"}

\* A subscription in use is never dead in silence: its socket is up or coming
\* up, or a retry is armed, unless the runner refused the token.
NeverDeadInSilence ==
  held # 0 => \/ ws[held] \in {"connecting", "open"}
              \/ retry[held]
              \/ refused[held]

\* The status says "open" exactly of a socket that is open.
OpenIsOpen == status = "open" <=> held # 0 /\ ws[held] = "open"

\* Once the runner has refused the token the subscription asks no more.
RefusedAsksNoMore ==
  [][\A s \in Subscriptions : refused[s] => ws'[s] # "connecting"]_socketsVars

\* A stream that is wanted from some time on, by a page whose token is not
\* refused, shows open again and again: the retries bring it back.
ComesBack ==
  <>[](users > 0 /\ ~disposed /\ ~refused[held]) => []<>(status = "open")

\* What the comments of setStatus and of onClose promise: a stream that nobody
\* holds is idle, and does not paint the app bar's chip.
UnheldIsIdle == held = 0 => status = "idle"
=============================================================================
