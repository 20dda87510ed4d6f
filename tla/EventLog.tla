------------------------------ MODULE EventLog ------------------------------
(***************************************************************************)
(* The rig's events in the browser: the store's list, fed by the events'   *)
(* socket and by one request (store/telemetry.ts), the hook that renders   *)
(* it (store/hooks.ts) and the one near the app's root that keeps what is  *)
(* unread and what is to be shown as a toast (hooks/useUnreadEvents.ts).   *)
(*                                                                         *)
(* The runner's log is external: a sequence of events, each with its time  *)
(* and whether its level counts. On every connect the socket sends what    *)
(* the runner holds again; events of one time may come in two messages.    *)
(***************************************************************************)
EXTENDS Naturals, Sequences, FiniteSets, SequencesExt

CONSTANTS EventCap,      \* the store keeps this many events
          Recent,        \* the runner keeps this many
          MaxEvents,     \* bound: events ever
          MaxConnects    \* bound: connections ever

ASSUME EventBounds == EventCap \in Nat \ {0} /\ Recent \in Nat \ {0}

VARIABLES log,           \* the runner's events: [time, notable]
          sent,          \* events the connection has been sent; 0 when down
          connects,
          eventList,     \* the store's list: places in the log
          seed,          \* the request: "none", "asked", or its answer, "done"
          rendered,      \* the list the root hook last ran on
          lastKey,       \* lastKeyRef: the last event it saw; 0 for none
          toasts,        \* events to show, oldest first
          watermark,     \* everything at or before it has been read
          mountedAt      \* history: events there were when the hook first saw some

eventVars == <<log, sent, connects, eventList, seed, rendered, lastKey, toasts, watermark, mountedAt>>
unreadVars == <<rendered, lastKey, toasts, watermark, mountedAt>>

Time(i) == log[i].time
LastN(s, n) == IF Len(s) > n THEN SubSeq(s, Len(s) - n + 1, Len(s)) ELSE s
Places(from) == [k \in 1..(Len(log) + 1 - from) |-> from + k - 1]
Held == LastN(Places(1), Recent)

\* Array.filter: the members of s at the places kept, in the order of s.
Rank(kept, i) == Cardinality({j \in kept : j <= i})
Filtered(s, kept) ==
    LET nth(k) == CHOOSE i \in kept : Rank(kept, i) = k
    IN [k \in 1..Cardinality(kept) |-> s[nth(k)]]

EventsInit ==
    /\ log = <<>> /\ sent = 0 /\ connects = 0 /\ eventList = <<>> /\ seed = "none"
    /\ rendered = <<>> /\ lastKey = 0 /\ toasts = <<>> /\ watermark = 0 /\ mountedAt = 0

(* Something happens on the rig: at the last event's time or after it.     *)
Happens == \E notable \in BOOLEAN, gap \in {0, 1} :
    /\ Len(log) < MaxEvents
    /\ LET now == IF log = <<>> THEN 1 ELSE log[Len(log)].time + gap
       IN log' = Append(log, [time |-> now, notable |-> notable])
    /\ UNCHANGED <<sent, connects, eventList, seed, unreadVars>>

(* onEvents: what is at or before the newest held is dropped.              *)
OnEvents(events) ==
    LET last == IF eventList = <<>> THEN 0 ELSE Time(eventList[Len(eventList)])
        fresh == Filtered(events, {k \in DOMAIN events : Time(events[k]) > last})
    IN eventList' = LastN(eventList \o fresh, EventCap)

Connects ==
    /\ sent = 0 /\ log # <<>> /\ connects < MaxConnects
    /\ connects' = connects + 1
    /\ sent' = Len(log)
    /\ OnEvents(Held)
    /\ UNCHANGED <<log, seed, unreadVars>>

EventArrives ==
    /\ sent \in 1..Len(log) - 1
    /\ sent' = sent + 1
    /\ OnEvents(<<sent + 1>>)
    /\ UNCHANGED <<log, connects, seed, unreadVars>>

Disconnects == sent # 0 /\ sent' = 0 /\ UNCHANGED <<log, connects, eventList, seed, unreadVars>>

(* seedEvents: asked once; the answer, read by the runner at any time from *)
(* there on, is merged under what the socket has delivered.                *)
SeedAsked == seed = "none" /\ seed' = "asked"
             /\ UNCHANGED <<log, sent, connects, eventList, unreadVars>>

SeedLands == \E upto \in 0..Len(log) :
    /\ seed = "asked" /\ seed' = "done"
    /\ LET first == IF eventList = <<>> THEN MaxEvents + 1 ELSE Time(eventList[1])
           answer == LastN([k \in 1..upto |-> k], Recent)
           older == Filtered(answer, {k \in DOMAIN answer : Time(answer[k]) < first})
       IN eventList' = LastN(older \o eventList, EventCap)
    /\ UNCHANGED <<log, sent, connects, unreadVars>>

SeedFails == seed = "asked" /\ seed' = "done"
             /\ UNCHANGED <<log, sent, connects, eventList, unreadVars>>

AfterLast ==
    LET at == CHOOSE k \in DOMAIN eventList : eventList[k] = lastKey
    IN SubSeq(eventList, at + 1, Len(eventList))

\* All of the list fresh where the last event seen is not in it.
FreshOrAll == IF Contains(eventList, lastKey) THEN AfterLast ELSE eventList

(* What follows the last event seen is fresh. On the first list, or when   *)
(* the last one seen fell off the front, nothing is.                       *)
Fresh == IF lastKey # 0 /\ Contains(eventList, lastKey) THEN AfterLast ELSE <<>>

(* The effect of the root hook, once a flush has rendered a new list.      *)
Renders ==
    /\ rendered # eventList /\ eventList # <<>>
    /\ rendered' = eventList
    /\ toasts' = toasts \o Filtered(Fresh, {k \in DOMAIN Fresh : log[Fresh[k]].notable})
    /\ lastKey' = eventList[Len(eventList)]
    /\ mountedAt' = IF lastKey = 0 THEN eventList[Len(eventList)] ELSE mountedAt
    /\ UNCHANGED <<log, sent, connects, eventList, seed, watermark>>

(* raise: the watermark only goes up.                                      *)
Raise(time) == watermark' = IF time > watermark THEN time ELSE watermark

(* The toast shown is the oldest; dismissing it, or its time running out,  *)
(* marks it read. The Events page marks one, or all there are.             *)
DismissToast ==
    /\ toasts # <<>>
    /\ Raise(Time(toasts[1]))
    /\ toasts' = Tail(toasts)
    /\ UNCHANGED <<log, sent, connects, eventList, seed, rendered, lastKey, mountedAt>>

MarkRead == \E k \in DOMAIN rendered :
    /\ Raise(Time(rendered[k]))
    /\ UNCHANGED <<log, sent, connects, eventList, seed, rendered, lastKey, toasts, mountedAt>>

MarkAllRead ==
    /\ rendered # <<>>
    /\ Raise(Time(rendered[Len(rendered)]))
    /\ UNCHANGED <<log, sent, connects, eventList, seed, rendered, lastKey, toasts, mountedAt>>

(* The badge: notable events of the list past the watermark.               *)
Unread == {i \in ToSet(rendered) : log[i].notable /\ Time(i) > watermark}

EventsNext ==
    \/ Happens \/ Connects \/ EventArrives \/ Disconnects
    \/ SeedAsked \/ SeedLands \/ SeedFails
    \/ Renders \/ DismissToast \/ MarkRead \/ MarkAllRead

EventsSpec == EventsInit /\ [][EventsNext]_eventVars

-----------------------------------------------------------------------------
(* The list is in the order of time with no event twice, whatever the      *)
(* socket sends again and whenever the seed's answer lands.                *)
EventsInOrder ==
    \A j, k \in DOMAIN eventList : j < k =>
        Time(eventList[j]) <= Time(eventList[k]) /\ eventList[j] < eventList[k]

(* No event is a toast twice, and none of the backlog is one: a toast is   *)
(* newer than all the hook was first shown.                                *)
ToastedOnce ==
    /\ IsInjective(toasts)
    /\ \A k \in DOMAIN toasts : toasts[k] > mountedAt

(* A dismissed toast is read: it never counts on the badge again.          *)
DismissedIsRead ==
    [][ \A i \in ToSet(toasts) : i \notin ToSet(toasts') => i \notin Unread' ]_eventVars
=============================================================================
