--------------------------- MODULE BlockingWrites ---------------------------
(***************************************************************************)
(* Hardware writes to one blocking device: the rig's demand path and       *)
(* delivery path under the rig lock (rig/rig.py) and the writer threads in *)
(* front of the device (runtime/writer.py).                                *)
(*                                                                         *)
(* A demand is a number, in the order demands entered the rig lock; what   *)
(* the limits made of its values is one bit per signal (limited).  The     *)
(* writer's own lock is held for one assignment at a time, so it shows as  *)
(* the atomicity of Apply, Request and Swap.                               *)
(***************************************************************************)
EXTENDS Naturals

CONSTANTS
    Signals,        \* the writable signals of the device
    Clients,        \* threads that demand, deliver samples, or edit the rig
    Writers,        \* the Writer objects the rig can create for the device
    MaxDemands,     \* bound: demands in one behaviour
    None            \* no thread, no writer

ASSUME BlockingWritesAssumption ==
    /\ MaxDemands \in Nat
    /\ Clients \cap Writers = {}
    /\ None \notin Clients \cup Writers

Threads == Clients \cup Writers
Demands == 0..MaxDemands     \* 0: no demand

VARIABLES
    rigLock,        \* Rig.lock: the thread that holds it, or None
    onRig,          \* the device is in Rig.devices
    writerOf,       \* Rig._writers.get(device)
    touched,        \* Rig._touched: None, without the device, or with it
    requested,      \* Rig._requested[s]: the demand whose unclamped value is kept
    issued,         \* demands so far
    demanded,       \* demanded[s]: the newest demand handed to a writer for s
    pc,             \* what each thread does next
    todo,           \* signals the demand under way has still to apply
    asked,          \* signals of the demand under way
    limited,        \* those of them whose value the limits changed
    queued,         \* Writer._queued
    commitAt,       \* Writer._commit_ns is not None
    wake, stopping, \* Writer._wake, Writer._stop
    taken,          \* what the writer thread swapped out and has not applied yet
    failed,         \* Writer.failed is not None
    late,           \* commits the writer began after its stop was set
    pending,        \* Committable.pending
    hardware,       \* hardware[s]: the demand the bus holds
    written         \* Committable.written[s]: the last WriteState

rigVars == <<onRig, writerOf, touched, requested, issued, demanded>>
demandVars == <<todo, asked, limited>>
writerVars == <<queued, commitAt, wake, stopping, taken, failed, late>>
deviceVars == <<pending, hardware, written>>
vars == <<rigLock, rigVars, pc, demandVars, writerVars, deviceVars>>

NoDemand == [s \in Signals |-> 0]

\* Under the lock a thread is in one of these, whoever it is.
LockedStates == {"apply", "note", "stepping", "request", "wake"}
ClientStates == {"idle", "resolved"}
WriterStates == {"unborn", "loop", "wait", "swap", "stage", "bus", "failing",
                 "written", "ended"}

RigTypes ==
    /\ rigLock \in Threads \cup {None}
    /\ onRig \in BOOLEAN
    /\ writerOf \in Writers \cup {None}
    /\ touched \in {"outside", "clean", "dirty"}
    /\ requested \in [Signals -> Demands]
    /\ issued \in Demands
    /\ demanded \in [Signals -> Demands]

ThreadTypes ==
    /\ pc \in [Threads -> LockedStates \cup ClientStates \cup WriterStates]
    /\ \A c \in Clients : pc[c] \in LockedStates \cup ClientStates
    /\ \A w \in Writers : pc[w] \in LockedStates \cup WriterStates

DemandTypes ==
    /\ todo \in SUBSET Signals
    /\ asked \in SUBSET Signals
    /\ limited \in SUBSET Signals

WriterTypes ==
    /\ queued \in [Writers -> [Signals -> Demands]]
    /\ commitAt \in [Writers -> BOOLEAN]
    /\ wake \in [Writers -> BOOLEAN]
    /\ stopping \in [Writers -> BOOLEAN]
    /\ taken \in [Writers -> [Signals -> Demands]]
    /\ failed \in [Writers -> BOOLEAN]
    /\ late \in [Writers -> Nat]

DeviceTypes ==
    /\ pending \in [Signals -> Demands]
    /\ hardware \in [Signals -> Demands]
    /\ written \in [Signals -> [value : Demands, requested : Demands]]

TypeOK ==
    /\ RigTypes
    /\ ThreadTypes
    /\ DemandTypes
    /\ WriterTypes
    /\ DeviceTypes

Init ==
    /\ rigLock = None
    /\ onRig = TRUE
    /\ writerOf = None
    /\ touched = "outside"
    /\ requested = NoDemand
    /\ issued = 0
    /\ demanded = NoDemand
    /\ pc = [t \in Threads |-> IF t \in Clients THEN "idle" ELSE "unborn"]
    /\ todo = {}
    /\ asked = {}
    /\ limited = {}
    /\ queued = [w \in Writers |-> NoDemand]
    /\ commitAt = [w \in Writers |-> FALSE]
    /\ wake = [w \in Writers |-> FALSE]
    /\ stopping = [w \in Writers |-> FALSE]
    /\ taken = [w \in Writers |-> NoDemand]
    /\ failed = [w \in Writers |-> FALSE]
    /\ late = [w \in Writers |-> 0]
    /\ pending = NoDemand
    /\ hardware = NoDemand
    /\ written = [s \in Signals |-> [value |-> 0, requested |-> 0]]

-----------------------------------------------------------------------------
(* A demand.  Its checks run before the lock is taken; from the lock on it *)
(* is the same whether it came from a route or from a controller's step.   *)

Goto(t, state) == pc' = [pc EXCEPT ![t] = state]

\* Defect: a writer is made without looking for the one there is.
WriterForEach(t, state) ==
    \/ /\ writerOf # None
       /\ UNCHANGED writerOf
       /\ Goto(t, state)
    \/ \E w \in Writers :
          /\ pc[w] = "unborn"
          /\ writerOf' = w
          /\ pc' = [pc EXCEPT ![w] = "loop", ![t] = state]

\* Rig._writer_for: the device's writer, created, its thread started, when
\* the rig has none for it.  t goes on to the given state.
WriterFor(t, state) ==
    \/ /\ writerOf # None
       /\ UNCHANGED writerOf
       /\ Goto(t, state)
    \/ /\ writerOf = None
       /\ \E w \in Writers :
             /\ pc[w] = "unborn"
             /\ writerOf' = w
             /\ pc' = [pc EXCEPT ![w] = "loop", ![t] = state]

\* One demand begins: S its signals, L those the limits changed.
Begin(t, S, L) ==
    /\ issued < MaxDemands
    /\ issued' = issued + 1
    /\ todo' = S
    /\ asked' = S
    /\ limited' = L
    /\ WriterFor(t, "apply")

\* The caller resolved the device and the demand passed its checks, on a
\* device that was on the rig.
Resolve(c) ==
    /\ pc[c] = "idle"
    /\ onRig
    /\ Goto(c, "resolved")
    /\ UNCHANGED <<rigLock, rigVars, demandVars, writerVars, deviceVars>>

\* The checks refused it.
Refuse(c) ==
    /\ pc[c] = "resolved"
    /\ Goto(c, "idle")
    /\ UNCHANGED <<rigLock, rigVars, demandVars, writerVars, deviceVars>>

\* A manual demand takes the lock.
Demand(c, S, L) ==
    /\ pc[c] = "resolved"
    /\ rigLock = None
    /\ rigLock' = c
    /\ Begin(c, S, L)
    /\ UNCHANGED <<onRig, touched, requested, demanded, writerVars, deviceVars>>

\* Writer.apply, once per signal: the newest value wins.
Apply(t, s) ==
    /\ pc[t] = "apply"
    /\ s \in todo
    /\ queued' = [queued EXCEPT ![writerOf] = [@ EXCEPT ![s] = issued]]
    /\ demanded' = [demanded EXCEPT ![s] = issued]
    /\ todo' = todo \ {s}
    /\ IF todo = {s} THEN Goto(t, "note") ELSE UNCHANGED pc
    /\ UNCHANGED <<rigLock, onRig, writerOf, touched, requested, issued, asked,
                   limited, commitAt, wake, stopping, taken, failed, late,
                   deviceVars>>

\* What was asked for is kept where the limits changed it.  Inside a
\* delivery the device is noted as touched and the next controller steps;
\* outside one the commit is asked for at once.
Note(t) ==
    /\ pc[t] = "note"
    /\ requested' = [s \in Signals |-> IF s \in limited THEN issued
                                       ELSE IF s \in asked THEN 0
                                       ELSE requested[s]]
    /\ asked' = {}
    /\ limited' = {}
    /\ \/ /\ touched = "outside"
          /\ Goto(t, "request")
          /\ UNCHANGED touched
       \/ /\ touched # "outside"
          /\ touched' = "dirty"
          /\ Goto(t, "stepping")
    /\ UNCHANGED <<rigLock, onRig, writerOf, issued, demanded, todo, writerVars,
                   deviceVars>>

\* Writer.request, the store.
Request(t) ==
    /\ pc[t] = "request"
    /\ commitAt' = [commitAt EXCEPT ![writerOf] = TRUE]
    /\ Goto(t, "wake")
    /\ UNCHANGED <<rigLock, rigVars, demandVars, queued, wake, stopping, taken,
                   failed, late, deviceVars>>

\* What a thread does once it has left the rig lock: a writer thread was in
\* Rig.written and goes back to its loop.
AfterLock(t) == IF t \in Clients THEN "idle" ELSE "loop"

\* Defect: a writer that is busy is not woken, as it will look again anyway.
WakeOnlyWaiting(t) ==
    /\ pc[t] = "wake"
    /\ wake' = [wake EXCEPT ![writerOf] = @ \/ pc[writerOf] = "wait"]
    /\ rigLock' = None
    /\ Goto(t, AfterLock(t))
    /\ UNCHANGED <<rigVars, demandVars, queued, commitAt, stopping, taken,
                   failed, late, deviceVars>>

\* Writer.request, the wake; then the lock is left.
Wake(t) ==
    /\ pc[t] = "wake"
    /\ wake' = [wake EXCEPT ![writerOf] = TRUE]
    /\ rigLock' = None
    /\ Goto(t, AfterLock(t))
    /\ UNCHANGED <<rigVars, demandVars, queued, commitAt, stopping, taken,
                   failed, late, deviceVars>>

-----------------------------------------------------------------------------
(* A delivery: the controllers step one after the other, then the device   *)
(* is committed once if anything touched it.                               *)

\* Rig.on_samples.  A bound input among the samples touches the device.
Deliver(c) ==
    /\ pc[c] = "idle"
    /\ rigLock = None
    /\ rigLock' = c
    /\ \/ touched' = "clean"
       \/ touched' = "dirty" /\ onRig
    /\ Goto(c, "stepping")
    /\ UNCHANGED <<onRig, writerOf, requested, issued, demanded, demandVars,
                   writerVars, deviceVars>>

\* A controller on the device steps and demands its target.  Controllers
\* leave with the device.
Step(t, s, L) ==
    /\ pc[t] = "stepping"
    /\ onRig
    /\ Begin(t, {s}, L)
    /\ UNCHANGED <<rigLock, onRig, touched, requested, demanded, writerVars,
                   deviceVars>>

\* Rig._commit over the touched devices; with nothing to commit the lock
\* is left.
EndDelivery(t) ==
    /\ pc[t] = "stepping"
    /\ touched' = "outside"
    /\ \/ /\ touched = "dirty"
          /\ WriterFor(t, "request")
          /\ UNCHANGED rigLock
       \/ /\ touched = "clean"
          /\ rigLock' = None
          /\ Goto(t, AfterLock(t))
          /\ UNCHANGED writerOf
    /\ UNCHANGED <<onRig, requested, issued, demanded, demandVars, writerVars,
                   deviceVars>>

-----------------------------------------------------------------------------
(* The writer thread: Writer._run.                                         *)

Loop(w) ==
    /\ pc[w] = "loop"
    /\ Goto(w, IF stopping[w] THEN "ended" ELSE "wait")
    /\ UNCHANGED <<rigLock, rigVars, demandVars, writerVars, deviceVars>>

Awake(w) ==
    /\ pc[w] = "wait"
    /\ wake[w]
    /\ Goto(w, "swap")
    /\ UNCHANGED <<rigLock, rigVars, demandVars, writerVars, deviceVars>>

\* Under the writer's lock: take the queue and the request, clear the wake.
\* A wake with no request taken is answered by going round again.
Swap(w) ==
    /\ pc[w] = "swap"
    /\ queued' = [queued EXCEPT ![w] = NoDemand]
    /\ wake' = [wake EXCEPT ![w] = FALSE]
    /\ \/ /\ commitAt[w]
          /\ commitAt' = [commitAt EXCEPT ![w] = FALSE]
          /\ taken' = [taken EXCEPT ![w] = queued[w]]
          /\ late' = [late EXCEPT ![w] = IF stopping[w] THEN @ + 1 ELSE @]
          /\ Goto(w, "stage")
       \/ /\ ~commitAt[w]
          /\ Goto(w, "loop")
          /\ UNCHANGED <<commitAt, taken, late>>
    /\ UNCHANGED <<rigLock, rigVars, demandVars, stopping, failed, deviceVars>>

\* Committable.apply for each value taken; no I/O.
Stage(w) ==
    /\ pc[w] = "stage"
    /\ pending' = [s \in Signals |-> IF taken[w][s] # 0 THEN taken[w][s]
                                     ELSE pending[s]]
    /\ taken' = [taken EXCEPT ![w] = NoDemand]
    /\ Goto(w, "bus")
    /\ UNCHANGED <<rigLock, rigVars, demandVars, queued, commitAt, wake,
                   stopping, failed, late, hardware, written>>

\* The pending values of the signals in S reach the bus.
Put(S) == hardware' = [s \in Signals |-> IF s \in S /\ pending[s] # 0
                                         THEN pending[s] ELSE hardware[s]]

\* Committable.commit wrote everything pending: the outage, if there was
\* one, is over.
Commit(w) ==
    /\ pc[w] = "bus"
    /\ Put(Signals)
    /\ failed' = [failed EXCEPT ![w] = FALSE]
    /\ Goto(w, "written")
    /\ UNCHANGED <<rigLock, rigVars, demandVars, queued, commitAt, wake,
                   stopping, taken, late, pending, written>>

\* Defect: the exception is swallowed and the write reported.
BusFailsSilently(w) ==
    /\ pc[w] = "bus"
    /\ \E S \in SUBSET Signals : Put(S)
    /\ Goto(w, "written")
    /\ UNCHANGED <<rigLock, rigVars, demandVars, writerVars, pending, written>>

\* The bus raised, some of the values written: what is pending stays so and
\* goes out with the next commit.
BusFails(w) ==
    /\ pc[w] = "bus"
    /\ \E S \in SUBSET Signals : Put(S)
    /\ Goto(w, "failing")
    /\ UNCHANGED <<rigLock, rigVars, demandVars, writerVars, pending, written>>

\* Defect: the exception ends the thread.
FailureEndsThread(w) ==
    /\ pc[w] = "failing"
    /\ failed' = [failed EXCEPT ![w] = TRUE]
    /\ Goto(w, "ended")
    /\ UNCHANGED <<rigLock, rigVars, demandVars, queued, commitAt, wake,
                   stopping, taken, late, deviceVars>>

\* Writer._failure.
Failure(w) ==
    /\ pc[w] = "failing"
    /\ failed' = [failed EXCEPT ![w] = TRUE]
    /\ Goto(w, "loop")
    /\ UNCHANGED <<rigLock, rigVars, demandVars, queued, commitAt, wake,
                   stopping, taken, late, deviceVars>>

\* Rig._states: a WriteState per pending demand, with what was asked for.
States ==
    /\ written' = [s \in Signals |->
                     IF pending[s] # 0
                     THEN [value |-> pending[s], requested |-> requested[s]]
                     ELSE written[s]]
    /\ requested' = [s \in Signals |-> IF pending[s] # 0 THEN 0 ELSE requested[s]]
    /\ pending' = NoDemand

\* Rig.written, on the writer thread: fill in the states under the lock and
\* deliver what they pushed; dropped when the device is not the rig's any
\* more.
Written(w) ==
    /\ pc[w] = "written"
    /\ rigLock = None
    /\ \/ /\ onRig
          /\ States
          /\ \/ /\ pending # NoDemand
                /\ rigLock' = w
                /\ touched' \in {"clean", "dirty"}
                /\ Goto(w, "stepping")
             \/ /\ pending = NoDemand
                /\ Goto(w, "loop")
                /\ UNCHANGED <<rigLock, touched>>
       \/ /\ ~onRig
          /\ Goto(w, "loop")
          /\ UNCHANGED <<rigLock, touched, requested, written, pending>>
    /\ UNCHANGED <<onRig, writerOf, issued, demanded, demandVars, writerVars,
                   hardware>>

-----------------------------------------------------------------------------
(* Taking the device, or the rig, down.                                    *)

\* Writer.stop.
StopWriter(w) ==
    /\ stopping' = [stopping EXCEPT ![w] = TRUE]
    /\ wake' = [wake EXCEPT ![w] = TRUE]

\* Rig.remove_device, whole, under the lock: it joins no thread.
Remove(c) ==
    /\ pc[c] = "idle"
    /\ rigLock = None
    /\ onRig
    /\ onRig' = FALSE
    /\ requested' = NoDemand
    /\ writerOf' = None
    /\ \/ writerOf # None /\ StopWriter(writerOf)
       \/ writerOf = None /\ UNCHANGED <<stopping, wake>>
    /\ UNCHANGED <<rigLock, touched, issued, demanded, pc, demandVars, queued,
                   commitAt, taken, failed, late, deviceVars>>

\* Rig.stop: without the lock, and waiting a second at most, so that what
\* the thread does meanwhile is not held back.
StopRig(c) ==
    /\ pc[c] = "idle"
    /\ writerOf # None
    /\ ~stopping[writerOf]
    /\ StopWriter(writerOf)
    /\ UNCHANGED <<rigLock, rigVars, pc, demandVars, queued, commitAt, taken,
                   failed, late, deviceVars>>

-----------------------------------------------------------------------------
ClientStep(c) ==
    \/ Resolve(c) \/ Refuse(c) \/ Deliver(c) \/ Remove(c) \/ StopRig(c)
    \/ \E S \in SUBSET Signals \ {{}} : \E L \in SUBSET S : Demand(c, S, L)

LockedStep(t) ==
    \/ \E s \in Signals : Apply(t, s)
    \/ Note(t) \/ Request(t) \/ Wake(t) \/ EndDelivery(t)
    \/ \E s \in Signals : \E L \in SUBSET {s} : Step(t, s, L)

WriterStep(w) ==
    \/ Loop(w) \/ Awake(w) \/ Swap(w) \/ Stage(w)
    \/ Commit(w) \/ BusFails(w) \/ Failure(w) \/ Written(w)

Next ==
    \/ \E c \in Clients : ClientStep(c)
    \/ \E t \in Threads : LockedStep(t)
    \/ \E w \in Writers : WriterStep(w)

Spec == Init /\ [][Next]_vars

\* Every thread that can run does, and a thread waiting for the rig lock is
\* let in.  Nothing is said of the bus, which may never answer, nor of what
\* clients choose to do.
SoftwareRuns ==
    /\ \A t \in Threads : WF_vars(LockedStep(t))
    /\ \A w \in Writers :
          /\ WF_vars(Loop(w) \/ Awake(w) \/ Swap(w) \/ Stage(w) \/ Failure(w))
          /\ SF_vars(Written(w))

\* The bus answers every commit, well or badly.
BusAnswers == \A w \in Writers : WF_vars(Commit(w) \/ BusFails(w))

FairSpec == Spec /\ SoftwareRuns

-----------------------------------------------------------------------------
(* Properties.                                                             *)

\* No lost wakeup: while a commit is asked for, the writer's wake is set or
\* the thread that asked, still under the rig lock, is about to set it
\* (Writer.request stores, then wakes; Writer._run clears both at once).
NoLostWakeup ==
    \A w \in Writers :
        commitAt[w] =>
            \/ wake[w]
            \/ /\ rigLock # None
               /\ pc[rigLock] = "wake"
               /\ writerOf = w

\* The rig lock is held by the thread that is inside it, and by no other;
\* a thread that has a value to queue has a writer to queue it with.
LockInv ==
    \A t \in Threads :
        /\ pc[t] \in LockedStates <=> rigLock = t
        /\ pc[t] \in {"apply", "note", "request", "wake"} => writerOf # None

\* While the device is on the rig it has one writer, and one thread.
OneWriter ==
    /\ writerOf # None => pc[writerOf] # "unborn"
    /\ onRig => \A w \in Writers : pc[w] # "unborn" => writerOf = w

\* A writer whose stop is set is in its last write, or past it.
LateInv ==
    \A w \in Writers :
        \/ late[w] = 0
        \/ late[w] = 1 /\ stopping[w] /\ pc[w] \notin {"wait", "swap"}

\* Nothing the threads hold was never demanded, and a demand being applied is
\* newer than any other.
Demanded ==
    \A s \in Signals :
        /\ demanded[s] <= issued
        /\ s \in todo => demanded[s] < issued
        /\ hardware[s] <= demanded[s]
        /\ pending[s] <= demanded[s]
        /\ \A w \in Writers : taken[w][s] <= demanded[s] /\ queued[w][s] <= demanded[s]

\* From the bus back to the queue, values get newer.
NewerOnTheWay ==
    onRig =>
        \A s \in Signals :
            /\ pending[s] # 0 => hardware[s] <= pending[s]
            /\ \A w \in Writers :
                  /\ pc[w] = "unborn" => taken[w][s] = 0 /\ queued[w][s] = 0
                  /\ taken[w][s] # 0 => hardware[s] <= taken[w][s]
                                        /\ pending[s] <= taken[w][s]
                  /\ queued[w][s] # 0 => /\ hardware[s] <= queued[w][s]
                                         /\ pending[s] <= queued[w][s]
                                         /\ taken[w][s] <= queued[w][s]

\* A commit that succeeded and is waiting to be reported left nothing
\* pending that the bus does not hold.
CommittedIsOnBus ==
    onRig => \A w \in Writers : pc[w] = "written" =>
                \A s \in Signals : pending[s] \in {0, hardware[s]}

\* The inductive invariant behind the properties below: who holds the lock,
\* one writer while the device is on the rig, and the order of the values on
\* their way to the bus.
IInv ==
    /\ TypeOK
    /\ LockInv
    /\ OneWriter
    /\ NoLostWakeup
    /\ LateInv
    /\ Demanded
    /\ NewerOnTheWay
    /\ CommittedIsOnBus

\* A write state says what the bus holds at the moment it is published, and
\* is only published for a device of the rig: between the commit and
\* Rig.written no other write to the device can slip in.
ReportedIsOnBus ==
    [][\A s \in Signals :
          written'[s] # written[s] => onRig /\ written'[s].value = hardware[s]]_vars

\* The write_failed condition is held until what the failed commits left
\* pending is on the bus: a later commit clears it only by writing that too.
OutageEndsOnBus ==
    [][\A w \in Writers :
          failed[w] /\ ~failed'[w] =>
              \A s \in Signals : pending'[s] \in {0, hardware'[s]}]_vars

\* A writer that was told to stop begins one more commit at most: the one
\* already asked for when it was waiting.
AtMostOneLateWrite == \A w \in Writers : late[w] <= 1

\* While the device is on the rig the threads implement a register per
\* signal: the bus takes demanded values only, and never goes back to one
\* older than it holds.
Register == INSTANCE DemandRegister
NewestWins == Register!Spec

\* A delivery must not wait for a bus: whoever holds the rig lock leaves it,
\* even if no bus ever answers.
DeliveryNeverWaitsForBus ==
    \A t \in Threads : (rigLock = t) ~> (rigLock # t)

\* On a bus that answers, a commit asked for is taken up by the writer's
\* thread, unless it is stopped first.
RequestServed ==
    BusAnswers => \A w \in Writers : commitAt[w] ~> (~commitAt[w] \/ stopping[w])

\* The newest value queued for a signal is on the bus or on its way there
\* (module docstring of writer.py).  The code does not keep this: a wake
\* left over from a request already served makes the writer throw away what
\* was queued since.
NothingLost ==
    (writerOf # None /\ ~stopping[writerOf]) =>
        \A s \in Signals :
            demanded[s] \in {queued[writerOf][s], taken[writerOf][s],
                            pending[s], hardware[s]}

\* What a write state says was asked for was asked for by the demand whose
\* value it reports (WriteState.requested).  The code does not keep this:
\* Rig._requested is kept per signal while a write is in flight.
RequestedBelongsToValue ==
    \A s \in Signals : written[s].requested \in {0, written[s].value}

\* Everything that hung off a removed device is gone: the rig keeps no
\* writer for it (Rig.remove_device).  The code does not keep this: a demand
\* checked before the removal makes a new one after it.
RemovedHasNoWriter == ~onRig => writerOf = None
=============================================================================
