------------------------------- MODULE Waits -------------------------------
(***************************************************************************)
(* What the rig is waiting on, by name: the triggers that settle           *)
(* (foundation/router/trigger.py), the registry a wait is listed and       *)
(* answered through (rig/triggers.py), the newest state of each name       *)
(* (Latest, foundation/router/topic.py) and the sockets that push it       *)
(* (interfaces/server/routes/telemetry.py).                                *)
(*                                                                         *)
(* A wait has two threads: the one that registers it and blocks, and the   *)
(* one whose settlement came first, which reports it through the hook.     *)
(* The registry's lock and Latest's are held within a step.                *)
(***************************************************************************)
EXTENDS Naturals

CONSTANTS
    Waiting,        \* the waits
    Names,          \* what they are registered under
    NameOf,         \* the name of each: many steps wait under one default name
    Ways,           \* how a wait settles: fired, timeout, interrupted
    Sockets,        \* who reads the newest states
    None            \* no wait

ASSUME WaitsAssumption ==
    /\ NameOf \in [Waiting -> Names]
    /\ None \notin Waiting
    /\ "pending" \notin Ways

VARIABLES
    outcome,        \* Trigger.outcome
    event,          \* waits whose Trigger._event is set
    hook,           \* waits whose Trigger.on_settle is set
    entry,          \* Triggers._entries: the wait under each name, or None
    shown,          \* the outcome in the entry's state
    latest,         \* Triggers.latest: the wait and the outcome told last of a name
    stored,         \* the version each was stored at
    version,        \* Latest._version
    waiter,         \* what the thread that waits does next
    stamp,          \* the outcome it read, for the state it registers or reports
    settler,        \* what the thread that settled the wait does next
    asked,          \* the version each socket has seen
    view            \* what each socket has been sent

triggerVars == <<outcome, event, hook>>
registryVars == <<entry, shown>>
latestVars == <<latest, stored, version>>
threadVars == <<waiter, stamp, settler>>
socketVars == <<asked, view>>
vars == <<triggerVars, registryVars, latestVars, threadVars, socketVars>>

Outcomes == {"pending"} \cup Ways
Nothing == [wait |-> None, outcome |-> "pending"]
States == [wait : Waiting, outcome : Outcomes] \cup {Nothing}

TypeOK ==
    /\ outcome \in [Waiting -> Outcomes]
    /\ event \in SUBSET Waiting
    /\ hook \in SUBSET Waiting
    /\ entry \in [Names -> Waiting \cup {None}]
    /\ shown \in [Names -> Outcomes]
    /\ latest \in [Names -> States]
    /\ stored \in [Names -> Nat]
    /\ version \in Nat
    /\ waiter \in [Waiting -> {"new", "register", "hook", "check", "note", "publish",
                               "wait", "unhook", "over", "refused"}]
    /\ stamp \in [Waiting -> Outcomes]
    /\ settler \in [Waiting -> {"none", "set", "look", "call", "note", "publish",
                                "done", "raised"}]
    /\ asked \in [Sockets -> Nat]
    /\ view \in [Sockets -> [Names -> States]]

Init ==
    /\ outcome = [w \in Waiting |-> "pending"]
    /\ event = {} /\ hook = {}
    /\ entry = [n \in Names |-> None]
    /\ shown = [n \in Names |-> "pending"]
    /\ latest = [n \in Names |-> Nothing]
    /\ stored = [n \in Names |-> 0]
    /\ version = 0
    /\ waiter = [w \in Waiting |-> "new"]
    /\ stamp = [w \in Waiting |-> "pending"]
    /\ settler = [w \in Waiting |-> "none"]
    /\ asked = [s \in Sockets |-> 0]
    /\ view = [s \in Sockets |-> [n \in Names |-> Nothing]]

WaiterTo(w, next) == waiter' = [waiter EXCEPT ![w] = next]
SettlerTo(w, next) == settler' = [settler EXCEPT ![w] = next]

-----------------------------------------------------------------------------
(* Latest                                                                  *)

\* Latest.set.
Tell(w, how) ==
    /\ version' = version + 1
    /\ latest' = [latest EXCEPT ![NameOf[w]] = [wait |-> w, outcome |-> how]]
    /\ stored' = [stored EXCEPT ![NameOf[w]] = version']

\* Defect: the version is read after the lock is released and may be that of
\* a value not taken.
FlushAhead(s) ==
    /\ asked[s] < version
    /\ view' = [view EXCEPT ![s] = [n \in Names |-> IF stored[n] > asked[s] THEN latest[n] ELSE @[n]]]
    /\ asked' = [asked EXCEPT ![s] = version + 1]
    /\ UNCHANGED <<triggerVars, registryVars, latestVars, threadVars>>

\* Latest.changed_since, and the frame it makes.
Flush(s) ==
    /\ asked[s] < version
    /\ view' = [view EXCEPT ![s] = [n \in Names |-> IF stored[n] > asked[s] THEN latest[n] ELSE @[n]]]
    /\ asked' = [asked EXCEPT ![s] = version]
    /\ UNCHANGED <<triggerVars, registryVars, latestVars, threadVars>>

\* The socket is closed and another opened: it starts from nothing.
Reconnect(s) ==
    /\ asked[s] > 0
    /\ view' = [view EXCEPT ![s] = [n \in Names |-> Nothing]]
    /\ asked' = [asked EXCEPT ![s] = 0]
    /\ UNCHANGED <<triggerVars, registryVars, latestVars, threadVars>>

-----------------------------------------------------------------------------
(* Triggers._settled, on either thread                                     *)

\* Under the registry's lock: a wait that is no longer listed is left alone.
Listed(w) == entry[NameOf[w]] = w

Note(w) == shown' = [shown EXCEPT ![NameOf[w]] = IF Listed(w) THEN outcome[w] ELSE @]

-----------------------------------------------------------------------------
(* The thread that waits: register, wait, remove                           *)

\* The state is made before the lock is taken.
Stamp(w) ==
    /\ waiter[w] = "new"
    /\ stamp' = [stamp EXCEPT ![w] = outcome[w]]
    /\ WaiterTo(w, "register")
    /\ UNCHANGED <<triggerVars, registryVars, latestVars, settler, socketVars>>

\* ConflictError, or listed and told as it was when it was stamped.
Register(w) ==
    /\ waiter[w] = "register"
    /\ IF entry[NameOf[w]] \notin {None, w}
       THEN /\ WaiterTo(w, "refused")
            /\ UNCHANGED <<registryVars, latestVars>>
       ELSE /\ WaiterTo(w, "hook")
            /\ entry' = [entry EXCEPT ![NameOf[w]] = w]
            /\ shown' = [shown EXCEPT ![NameOf[w]] = stamp[w]]
            /\ Tell(w, stamp[w])
    /\ stamp' = [stamp EXCEPT ![w] = "pending"]
    /\ UNCHANGED <<triggerVars, settler, socketVars>>

\* Defect: a settlement from before the hook was set is nobody's to report.
HookOnly(w) ==
    /\ waiter[w] = "hook"
    /\ hook' = hook \cup {w}
    /\ WaiterTo(w, "wait")
    /\ UNCHANGED <<outcome, event, registryVars, latestVars, stamp, settler, socketVars>>

Hook(w) ==
    /\ waiter[w] = "hook"
    /\ hook' = hook \cup {w}
    /\ WaiterTo(w, "check")
    /\ UNCHANGED <<outcome, event, registryVars, latestVars, stamp, settler, socketVars>>

\* Settled before the hook was set, so nothing reported it.
CheckSettled(w) ==
    /\ waiter[w] = "check"
    /\ WaiterTo(w, IF outcome[w] = "pending" THEN "wait" ELSE "note")
    /\ UNCHANGED <<triggerVars, registryVars, latestVars, stamp, settler, socketVars>>

NoteOwn(w) ==
    /\ waiter[w] = "note"
    /\ Note(w)
    /\ stamp' = [stamp EXCEPT ![w] = outcome[w]]
    /\ WaiterTo(w, IF Listed(w) THEN "publish" ELSE "wait")
    /\ UNCHANGED <<triggerVars, entry, latestVars, settler, socketVars>>

PublishOwn(w) ==
    /\ waiter[w] = "publish"
    /\ Tell(w, stamp[w])
    /\ stamp' = [stamp EXCEPT ![w] = "pending"]
    /\ WaiterTo(w, "wait")
    /\ UNCHANGED <<triggerVars, registryVars, settler, socketVars>>

\* Trigger.wait returns, and remove takes the entry out.
Remove(w) ==
    /\ waiter[w] = "wait"
    /\ w \in event
    /\ entry' = [entry EXCEPT ![NameOf[w]] = None]
    /\ WaiterTo(w, "unhook")
    /\ UNCHANGED <<triggerVars, shown, latestVars, stamp, settler, socketVars>>

Unhook(w) ==
    /\ waiter[w] = "unhook"
    /\ hook' = hook \ {w}
    /\ WaiterTo(w, "over")
    /\ UNCHANGED <<outcome, event, registryVars, latestVars, stamp, settler, socketVars>>

-----------------------------------------------------------------------------
(* The thread that settles                                                 *)

\* fire, interrupt or expire: by the registry, by whoever owns the trigger, or
\* by its timer.  Those that come later find it settled.
Settle(w) ==
    /\ outcome[w] = "pending"
    /\ outcome' \in {[outcome EXCEPT ![w] = how] : how \in Ways}
    /\ SettlerTo(w, "set")
    /\ UNCHANGED <<event, hook, registryVars, latestVars, waiter, stamp, socketVars>>

Release(w) ==
    /\ settler[w] = "set"
    /\ event' = event \cup {w}
    /\ SettlerTo(w, "look")
    /\ UNCHANGED <<outcome, hook, registryVars, latestVars, waiter, stamp, socketVars>>

LookForHook(w) ==
    /\ settler[w] = "look"
    /\ SettlerTo(w, IF w \in hook THEN "call" ELSE "done")
    /\ UNCHANGED <<triggerVars, registryVars, latestVars, waiter, stamp, socketVars>>

\* on_settle is read again for the call.
CallHook(w) ==
    /\ settler[w] = "call"
    /\ SettlerTo(w, IF w \in hook THEN "note" ELSE "raised")
    /\ UNCHANGED <<triggerVars, registryVars, latestVars, waiter, stamp, socketVars>>

NoteSettled(w) ==
    /\ settler[w] = "note"
    /\ Note(w)
    /\ SettlerTo(w, IF Listed(w) THEN "publish" ELSE "done")
    /\ UNCHANGED <<triggerVars, entry, latestVars, waiter, stamp, socketVars>>

PublishSettled(w) ==
    /\ settler[w] = "publish"
    /\ Tell(w, outcome[w])
    /\ SettlerTo(w, "done")
    /\ UNCHANGED <<triggerVars, registryVars, waiter, stamp, socketVars>>

-----------------------------------------------------------------------------
WaiterStep(w) ==
    \/ Stamp(w) \/ Register(w) \/ Hook(w) \/ CheckSettled(w) \/ NoteOwn(w) \/ PublishOwn(w)
    \/ Remove(w) \/ Unhook(w)

SettlerStep(w) ==
    Release(w) \/ LookForHook(w) \/ CallHook(w) \/ NoteSettled(w) \/ PublishSettled(w)

Next ==
    \/ \E w \in Waiting : WaiterStep(w) \/ Settle(w) \/ SettlerStep(w)
    \/ \E s \in Sockets : Flush(s) \/ Reconnect(s)

Spec == Init /\ [][Next]_vars

\* Threads run, and sockets flush; nothing has to settle.
Fairness ==
    /\ \A w \in Waiting : WF_vars(WaiterStep(w)) /\ WF_vars(SettlerStep(w))
    /\ \A s \in Sockets : WF_vars(Flush(s))

FairSpec == Spec /\ Fairness

-----------------------------------------------------------------------------
(* Properties                                                              *)

\* On the way to its wait, or waiting.
Held == {"hook", "check", "note", "publish", "wait"}

\* One name at a time: a wait that is registered can be answered by its name
\* until it is over, whatever else asks for the name, and a name that is taken
\* is its wait's.
OwnsItsName ==
    /\ \A w \in Waiting : waiter[w] \in Held => entry[NameOf[w]] = w
    /\ \A n \in Names : entry[n] # None => waiter[entry[n]] \in Held /\ NameOf[entry[n]] = n

\* A settlement somebody has yet to tell the registry of.
Untold(w) ==
    \/ settler[w] \in {"set", "look", "call", "note"}
    \/ waiter[w] \in {"hook", "check", "note"}

\* Whatever moment it settles at, before it is listed, before it is hooked or
\* after, a listed wait is shown as what it is once both threads are past it;
\* one that has not settled is never shown as settled.
ShownAsItIs ==
    \A n \in Names : LET w == entry[n] IN
       w # None => \/ shown[n] = outcome[w]
                   \/ shown[n] = "pending" /\ Untold(w)

\* What a socket has been sent is the newest of every name up to the version
\* it has seen, so a value stored while it reads is not missed.
SocketCurrent ==
    \A s \in Sockets : \A n \in Names :
       stored[n] <= asked[s] => view[s][n] = latest[n]

\* A wait that settled lets its thread go.
SettledWaitsEnd ==
    \A w \in Waiting : outcome[w] # "pending" ~> waiter[w] \in {"over", "refused"}

\* Every socket is told, in the end, what is told last.
SocketsCatchUp ==
    \A s \in Sockets : []<>(view[s] = latest)

\* triggers.py: latest has "Every registration and settlement, by name": a wait
\* told of as pending is not over.
SettlementTold ==
    \A n \in Names : LET w == latest[n].wait IN
       w # None /\ latest[n].outcome = "pending"
          => ~(waiter[w] = "over" /\ settler[w] = "done")

\* Nobody has anything more to tell of the name.
Quiet(n) == \A w \in Waiting : NameOf[w] = n =>
    waiter[w] \notin {"note", "publish"} /\ settler[w] \in {"none", "done"}

\* telemetry.py: a socket is told "every registered wait on connect".
RegisteredTold ==
    \A n \in Names : entry[n] # None /\ Quiet(n) => latest[n].wait = entry[n]

\* trigger.py: on_settle is "Called once with the signal after it settles".
HookIsCalled == \A w \in Waiting : settler[w] # "raised"
=============================================================================
