----------------------------- MODULE Recording -----------------------------
(***************************************************************************)
(* Recording: the rig's recorder slot under the rig lock (rig/rig.py) and  *)
(* the recorder with its own thread (runtime/recorder.py), among threads   *)
(* that deliver samples, report events, and start and stop recordings.     *)
(*                                                                         *)
(* A row is a number in the order rows were buffered.  The buffer lock is  *)
(* held for appends and swaps only, so it shows as the atomicity of        *)
(* Deliver, Append, Take and LastFlush.  A recorder is named by its session.*)
(***************************************************************************)
EXTENDS Naturals

CONSTANTS
    Callers,        \* threads that start and stop recordings
    Sources,        \* threads that deliver samples
    Emitters,       \* threads that report events without the rig lock
    Kinds,          \* the kinds of session they start
    MaxSessions,    \* bound: sessions opened in one behaviour
    MaxRows,        \* bound: rows buffered in one behaviour
    StoreMayFail,   \* whether a call of the store may raise
    None            \* no thread, no recorder

ASSUME RecordingAssumption ==
    /\ MaxSessions \in Nat
    /\ MaxRows \in Nat
    /\ StoreMayFail \in BOOLEAN
    /\ Callers \cap Sources = {}
    /\ None \notin Callers \cup Nat \cup Kinds

Recorders == 1..MaxSessions
Rows == 1..MaxRows
Reporters == Emitters \cup Recorders

VARIABLES
    rigLock,        \* Rig.lock, where it is held across steps: a caller, or None
    attached,       \* Rig.recorder
    opened,         \* sessions opened so far
    session,        \* the row in the store: none, open, ended
    kind,           \* SessionRow.kind
    thread,         \* what each recorder's thread does next
    stop,           \* Recorder._stop
    failed,         \* Recorder.failed is not None
    detached,       \* the recorder _recording_failed found attached
    buffer,         \* rows in the recorder's lists
    taken,          \* rows a flush has swapped out and not written yet
    stored,         \* rows in the store
    rows,           \* rows so far
    events,         \* those of them that are events
    due,            \* sources with samples, waiting for the rig lock
    reporting,      \* where each thread is in Rig.event
    target,         \* the recorder it hands its event to
    step,           \* where each caller is in start_recording / stop_recording
    wanted,         \* the kind of session it opens next, or None: it stops only
    closing         \* the recorder it is closing

slotVars == <<rigLock, attached>>
storeVars == <<opened, session, kind>>
threadVars == <<thread, stop, failed, detached>>
rowVars == <<buffer, taken, stored, rows, events>>
reportVars == <<reporting, target>>
callVars == <<step, wanted, closing>>
vars == <<slotVars, storeVars, threadVars, rowVars, due, reportVars, callVars>>

ThreadStates == {"unborn", "waiting", "flush", "writing", "failing",
                 "reporting", "ending", "done"}
LockedSteps == {"join", "flush", "write", "end", "open", "declare"}
Steps == LockedSteps \cup {"idle", "lock", "notify"}

StoreTypes ==
    /\ rigLock \in Callers \cup {None}
    /\ attached \in Recorders \cup {None}
    /\ opened \in 0..MaxSessions
    /\ session \in [Recorders -> {"none", "open", "ended"}]
    /\ kind \in [Recorders -> Kinds \cup {None}]

RecorderTypes ==
    /\ thread \in [Recorders -> ThreadStates]
    /\ stop \in [Recorders -> BOOLEAN]
    /\ failed \in [Recorders -> BOOLEAN]
    /\ detached \in [Recorders -> Recorders \cup {None}]

RowTypes ==
    /\ buffer \in [Recorders -> SUBSET Rows]
    /\ taken \in [Recorders -> SUBSET Rows]
    /\ stored \in [Recorders -> SUBSET Rows]
    /\ rows \in 0..MaxRows
    /\ events \in SUBSET Rows

ActorTypes ==
    /\ due \in SUBSET Sources
    /\ reporting \in [Reporters -> {"idle", "asked", "append", "raised"}]
    /\ target \in [Reporters -> Recorders \cup {None}]
    /\ step \in [Callers -> Steps]
    /\ wanted \in [Callers -> Kinds \cup {None}]
    /\ closing \in [Callers -> Recorders \cup {None}]

\* Every variable has its type.
TypeOK == StoreTypes /\ RecorderTypes /\ RowTypes /\ ActorTypes

Init ==
    /\ rigLock = None
    /\ attached = None
    /\ opened = 0
    /\ session = [r \in Recorders |-> "none"]
    /\ kind = [r \in Recorders |-> None]
    /\ thread = [r \in Recorders |-> "unborn"]
    /\ stop = [r \in Recorders |-> FALSE]
    /\ failed = [r \in Recorders |-> FALSE]
    /\ detached = [r \in Recorders |-> None]
    /\ buffer = [r \in Recorders |-> {}]
    /\ taken = [r \in Recorders |-> {}]
    /\ stored = [r \in Recorders |-> {}]
    /\ rows = 0
    /\ events = {}
    /\ due = {}
    /\ reporting = [x \in Reporters |-> "idle"]
    /\ target = [x \in Reporters |-> None]
    /\ step = [c \in Callers |-> "idle"]
    /\ wanted = [c \in Callers |-> None]
    /\ closing = [c \in Callers |-> None]

-----------------------------------------------------------------------------
(* Deliveries and events                                                   *)

\* The next row, appended to r's lists; past MaxRows rows are not kept apart.
Buffered(r, asEvents) ==
    IF rows < MaxRows
    THEN /\ rows' = rows + 1
         /\ buffer' = [buffer EXCEPT ![r] = @ \cup {rows'}]
         /\ events' = IF asEvents THEN events \cup {rows'} ELSE events
    ELSE UNCHANGED <<rows, buffer, events>>

\* A source has read samples and calls Rig.on_samples.
Read(s) ==
    /\ s \notin due
    /\ due' = due \cup {s}
    /\ UNCHANGED <<slotVars, storeVars, threadVars, rowVars, reportVars, callVars>>

\* The delivery, whole under the rig lock; the recorder, if any, is called last.
Deliver(s) ==
    /\ s \in due
    /\ rigLock = None
    /\ due' = due \ {s}
    /\ IF attached \in {r \in Recorders : ~failed[r]}
       THEN Buffered(attached, FALSE)
       ELSE UNCHANGED <<rows, buffer, events>>
    /\ UNCHANGED <<slotVars, storeVars, threadVars, taken, stored, reportVars, callVars>>

\* An event: Rig.event finds a recorder attached...
Report(e) ==
    /\ reporting[e] = "idle"
    /\ attached # None
    /\ reporting' = [reporting EXCEPT ![e] = "asked"]
    /\ UNCHANGED <<slotVars, storeVars, threadVars, rowVars, due, target, callVars>>

\* ... and reads the slot again to call it: empty by now, the call raises.
Reread(x) ==
    /\ reporting[x] = "asked"
    /\ IF attached \in {r \in Recorders : ~failed[r]}
       THEN /\ reporting' = [reporting EXCEPT ![x] = "append"]
            /\ target' = [target EXCEPT ![x] = attached]
       ELSE /\ reporting' = [reporting EXCEPT
                                ![x] = IF attached = None THEN "raised" ELSE "idle"]
            /\ UNCHANGED target
    /\ UNCHANGED <<slotVars, storeVars, threadVars, rowVars, due, callVars>>

Append(x) ==
    /\ reporting[x] = "append"
    /\ Buffered(target[x], TRUE)
    /\ reporting' = [reporting EXCEPT ![x] = "idle"]
    /\ target' = [target EXCEPT ![x] = None]
    /\ UNCHANGED <<slotVars, storeVars, threadVars, taken, stored, due, callVars>>

\* The exception unwinds the thread that reported.
Unwind(e) ==
    /\ reporting[e] = "raised"
    /\ reporting' = [reporting EXCEPT ![e] = "idle"]
    /\ UNCHANGED <<slotVars, storeVars, threadVars, rowVars, due, target, callVars>>

-----------------------------------------------------------------------------
(* The recorder's thread                                                   *)

Goto(r, there) == thread' = [thread EXCEPT ![r] = there]

\* _stop.wait returns: flush_s has passed, or the recorder is being closed.
Wake(r) ==
    /\ thread[r] = "waiting"
    /\ Goto(r, IF stop[r] THEN "done" ELSE "flush")
    /\ UNCHANGED <<slotVars, storeVars, stop, failed, detached, rowVars, due, reportVars, callVars>>

Swap(r) ==
    /\ taken' = [taken EXCEPT ![r] = buffer[r]]
    /\ buffer' = [buffer EXCEPT ![r] = {}]
    /\ UNCHANGED <<stored, rows, events>>

Take(r) ==
    /\ thread[r] = "flush"
    /\ Swap(r)
    /\ Goto(r, "writing")
    /\ UNCHANGED <<slotVars, storeVars, stop, failed, detached, due, reportVars, callVars>>

\* Defect: what was written is kept to be written again.
WriteAgain(r) ==
    /\ stored' = [stored EXCEPT ![r] = @ \cup taken[r]]
    /\ UNCHANGED <<buffer, taken, rows, events>>

Write(r) ==
    /\ taken' = [taken EXCEPT ![r] = {}]
    /\ stored' = [stored EXCEPT ![r] = @ \cup taken[r]]
    /\ UNCHANGED <<buffer, rows, events>>

Written(r) ==
    /\ thread[r] = "writing"
    /\ Write(r)
    /\ Goto(r, "waiting")
    /\ UNCHANGED <<slotVars, storeVars, stop, failed, detached, due, reportVars, callVars>>

\* One transaction per table: the samples may be in when a later table fails.
WriteFails(r) ==
    /\ StoreMayFail
    /\ taken[r] # {}
    /\ stored' \in {stored, [stored EXCEPT ![r] = @ \cup taken[r]]}
    /\ taken' = [taken EXCEPT ![r] = {}]

FlushFails(r) ==
    /\ thread[r] = "writing"
    /\ WriteFails(r)
    /\ buffer' = [buffer EXCEPT ![r] = {}]
    /\ failed' = [failed EXCEPT ![r] = TRUE]
    /\ Goto(r, "failing")
    /\ UNCHANGED <<slotVars, storeVars, stop, detached, rows, events, due, reportVars, callVars>>

\* Rig._recording_failed: detach under the rig lock, report, end the session.
Detach(r) ==
    /\ thread[r] = "failing"
    /\ rigLock = None
    /\ detached' = [detached EXCEPT ![r] = attached]
    /\ attached' = None
    /\ Goto(r, "reporting")
    /\ UNCHANGED <<rigLock, storeVars, stop, failed, rowVars, due, reportVars, callVars>>

ReportFailure(r) ==
    /\ thread[r] = "reporting"
    /\ Goto(r, "ending")
    /\ reporting' = [reporting EXCEPT ![r] = IF attached = None THEN "idle" ELSE "asked"]
    /\ UNCHANGED <<slotVars, storeVars, stop, failed, detached, rowVars, due, target, callVars>>

EndSession(r) ==
    /\ session' = [session EXCEPT ![r] = "ended"]
    /\ UNCHANGED <<opened, kind>>

\* writer.end, whatever it raises suppressed; not reached if the report raised.
EndFailed(r) ==
    /\ thread[r] = "ending"
    /\ \/ /\ reporting[r] = "idle"
          /\ detached[r] # None
          /\ EndSession(detached[r])
       \/ /\ reporting[r] = "raised" \/ detached[r] = None \/ StoreMayFail
          /\ reporting[r] \in {"idle", "raised"}
          /\ UNCHANGED storeVars
    /\ Goto(r, "done")
    /\ UNCHANGED <<slotVars, stop, failed, detached, rowVars, due, reportVars, callVars>>

-----------------------------------------------------------------------------
(* start_recording and stop_recording                                      *)

At(c, where) == step' = [step EXCEPT ![c] = where]

\* The caller leaves, on its return or its exception, and lets go of the lock.
Leave(c) ==
    /\ At(c, "idle")
    /\ rigLock' = None
    /\ closing' = [closing EXCEPT ![c] = None]
    /\ wanted' = [wanted EXCEPT ![c] = None]

Call(c, next) ==
    /\ step[c] = "idle"
    /\ At(c, "lock")
    /\ wanted' = [wanted EXCEPT ![c] = next]
    /\ UNCHANGED <<slotVars, storeVars, threadVars, rowVars, due, reportVars, closing>>

Start(c) == \E k \in Kinds : Call(c, k)
Stop(c) == Call(c, None)

\* Defect: the recorder stays attached while it is closed, and after.
EnterAttached(c) ==
    /\ step[c] = "lock"
    /\ attached # None \/ wanted[c] # None
    /\ rigLock = None
    /\ rigLock' = c
    /\ IF attached = None THEN At(c, "open") /\ UNCHANGED <<closing, stop>>
       ELSE /\ closing' = [closing EXCEPT ![c] = attached]
            /\ At(c, "join")
            /\ stop' = [stop EXCEPT ![attached] = TRUE]
    /\ UNCHANGED <<attached, storeVars, thread, failed, detached, rowVars, due, reportVars, wanted>>

\* Both take the rig lock and close the recorder attached, if there is one.
Enter(c) ==
    /\ step[c] = "lock"
    /\ rigLock = None
    /\ attached' = None
    /\ closing' = [closing EXCEPT ![c] = attached]
    /\ \/ /\ attached # None
          /\ rigLock' = c
          /\ At(c, "join")
          /\ stop' = [stop EXCEPT ![attached] = TRUE]
       \/ /\ attached = None
          /\ wanted[c] # None
          /\ rigLock' = c
          /\ At(c, "open")
          /\ UNCHANGED stop
       \/ /\ attached = None
          /\ wanted[c] = None
          /\ At(c, "idle")
          /\ UNCHANGED <<rigLock, stop>>
    /\ UNCHANGED <<storeVars, thread, failed, detached, rowVars, due, reportVars, wanted>>

\* Defect: the close does not wait for the thread.
JoinNothing(c) ==
    /\ step[c] = "join"
    /\ At(c, IF failed[closing[c]] THEN "end" ELSE "flush")
    /\ UNCHANGED <<slotVars, storeVars, threadVars, rowVars, due, reportVars, wanted, closing>>

\* Defect: what is left when the thread has stopped is not written.
JoinThenEnd(c) ==
    /\ step[c] = "join"
    /\ thread[closing[c]] = "done"
    /\ At(c, "end")
    /\ UNCHANGED <<slotVars, storeVars, threadVars, rowVars, due, reportVars, wanted, closing>>

\* Recorder.close: join the thread, then write what is left unless it failed.
Join(c) ==
    /\ step[c] = "join"
    /\ thread[closing[c]] = "done"
    /\ At(c, IF failed[closing[c]] THEN "end" ELSE "flush")
    /\ UNCHANGED <<slotVars, storeVars, threadVars, rowVars, due, reportVars, wanted, closing>>

LastFlush(c) ==
    /\ step[c] = "flush"
    /\ Swap(closing[c])
    /\ At(c, "write")
    /\ UNCHANGED <<slotVars, storeVars, threadVars, due, reportVars, wanted, closing>>

LastWrite(c) ==
    /\ step[c] = "write"
    /\ Write(closing[c])
    /\ At(c, "end")
    /\ UNCHANGED <<slotVars, storeVars, threadVars, due, reportVars, wanted, closing>>

LastWriteFails(c) ==
    /\ step[c] = "write"
    /\ WriteFails(closing[c])
    /\ Leave(c)
    /\ UNCHANGED <<attached, storeVars, threadVars, buffer, rows, events, due, reportVars>>

\* The session is ended: a stop lets go of the lock and tells its hook.
End(c) ==
    /\ step[c] = "end"
    /\ EndSession(closing[c])
    /\ closing' = [closing EXCEPT ![c] = None]
    /\ IF wanted[c] = None
       THEN At(c, "notify") /\ rigLock' = None
       ELSE At(c, "open") /\ UNCHANGED rigLock
    /\ UNCHANGED <<attached, threadVars, rowVars, due, reportVars, wanted>>

EndFails(c) ==
    /\ StoreMayFail
    /\ step[c] = "end"
    /\ Leave(c)
    /\ UNCHANGED <<attached, storeVars, threadVars, rowVars, due, reportVars>>

\* on_recording_stopped: nobody listens here.
Notify(c) ==
    /\ step[c] = "notify"
    /\ At(c, "idle")
    /\ UNCHANGED <<slotVars, storeVars, threadVars, rowVars, due, reportVars, wanted, closing>>

OpenSession(c) ==
    /\ step[c] = "open"
    /\ opened < MaxSessions
    /\ opened' = opened + 1
    /\ session' = [session EXCEPT ![opened'] = "open"]
    /\ kind' = [kind EXCEPT ![opened'] = wanted[c]]
    /\ At(c, "declare")
    /\ UNCHANGED <<slotVars, threadVars, rowVars, due, reportVars, wanted, closing>>

\* The store raises; past MaxSessions every open counts as one that raised.
OpenFails(c) ==
    /\ step[c] = "open"
    /\ StoreMayFail \/ opened = MaxSessions
    /\ Leave(c)
    /\ UNCHANGED <<attached, storeVars, threadVars, rowVars, due, reportVars>>

\* Recorder.__init__ declares what it records, starts its thread, is attached.
Declare(c) ==
    /\ step[c] = "declare"
    /\ attached' = opened
    /\ Goto(opened, "waiting")
    /\ Leave(c)
    /\ UNCHANGED <<storeVars, stop, failed, detached, rowVars, due, reportVars>>

DeclareFails(c) ==
    /\ StoreMayFail
    /\ step[c] = "declare"
    /\ Leave(c)
    /\ UNCHANGED <<attached, storeVars, threadVars, rowVars, due, reportVars>>

-----------------------------------------------------------------------------
CallerStep(c) ==
    \/ Enter(c) \/ Join(c) \/ LastFlush(c) \/ LastWrite(c) \/ LastWriteFails(c)
    \/ End(c) \/ EndFails(c) \/ OpenSession(c) \/ OpenFails(c)
    \/ Declare(c) \/ DeclareFails(c)

ReportStep(x) == Reread(x) \/ Append(x)

RecorderStep(r) ==
    \/ Wake(r) \/ Take(r) \/ Written(r) \/ FlushFails(r)
    \/ Detach(r) \/ ReportFailure(r) \/ EndFailed(r)

EmitterStep(e) == Report(e) \/ Unwind(e)

Next ==
    \/ \E s \in Sources : Read(s) \/ Deliver(s)
    \/ \E e \in Emitters : EmitterStep(e)
    \/ \E x \in Reporters : ReportStep(x)
    \/ \E r \in Recorders : RecorderStep(r)
    \/ \E c \in Callers : Start(c) \/ Stop(c) \/ Notify(c) \/ CallerStep(c)

Spec == Init /\ [][Next]_vars

\* Threads run, the store answers, and a thread that wants the rig lock has it
\* in the end if it is free again and again.
Fairness ==
    /\ \A s \in Sources : SF_vars(Deliver(s))
    /\ \A x \in Reporters : WF_vars(ReportStep(x))
    /\ \A e \in Emitters : WF_vars(Unwind(e))
    /\ \A r \in Recorders : WF_vars(RecorderStep(r)) /\ SF_vars(Detach(r))
    /\ \A c \in Callers : WF_vars(CallerStep(c) \/ Notify(c)) /\ SF_vars(Enter(c))

FairSpec == Spec /\ Fairness

-----------------------------------------------------------------------------
(* Properties                                                              *)

\* A recorder is in use from the open of its session until its close is over.
Closing(r) == \E c \in Callers : closing[c] = r
Opening(r) == r = opened /\ \E c \in Callers : step[c] = "declare"
InUse(r) == attached = r \/ Closing(r) \/ Opening(r)

Unwritten(r) == buffer[r] \cup taken[r]
Deliveries(some) == some \ events

\* Nobody else holds what the lock's holder works on: one caller at a time is
\* past the lock, and start_recording never has two recorders in use.
OneInUse == \A r, q \in Recorders : InUse(r) /\ InUse(q) => r = q

\* A recorder's rows go to the store in the order they were buffered, whoever
\* flushes: what it still holds is newer than all it has written.
WrittenInOrder ==
    \A r \in Recorders :
       /\ \A n \in stored[r], m \in Unwritten(r) : n < m
       /\ \A n \in taken[r], m \in buffer[r] : n < m

\* No row is recorded twice, in one session or in two.
RowsOnce ==
    \A r, q \in Recorders :
       /\ buffer[r] \cap taken[r] = {} /\ Unwritten(r) \cap stored[r] = {}
       /\ r # q => (Unwritten(r) \cup stored[r]) \cap (Unwritten(q) \cup stored[q]) = {}

\* A session that its recorder did not fail ends with every delivery in it.
EndsComplete ==
    \A r \in Recorders : session[r] = "ended" /\ ~failed[r] => Deliveries(Unwritten(r)) = {}

\* While the store works, a delivery made while recording is in a session or
\* on its way there.
NoDeliveryMissing ==
    \A n \in 1..rows : \E r \in Recorders : n \in Unwritten(r) \cup stored[r]

\* The failure callback takes no slot but its own recorder's: a recording
\* started since is not the one detached.
FailureDetachesItsOwn == \A r \in Recorders : detached[r] \in {None, r}

\* A recorder that failed and was detached stays so: nothing records into it.
FailedStaysDetached == \A r \in Recorders : detached[r] # None => ~InUse(r)

\* The store never writes to a session that is over.
NothingAfterTheEnd ==
    [][\A r \in Recorders : session[r] = "ended" =>
          session'[r] = "ended" /\ stored'[r] = stored[r]]_vars

\* The inductive invariant, part by part.  Who is past the lock, and what the
\* slot then holds.
LockInv ==
    /\ \A c \in Callers : step[c] \in LockedSteps <=> rigLock = c
    /\ \A c \in Callers :
          closing[c] # None <=> step[c] \in {"join", "flush", "write", "end"}
    /\ \A c \in Callers : step[c] \in {"open", "declare"} => wanted[c] # None
    /\ rigLock # None => attached = None

\* Sessions open one after another; one not opened yet has nothing.
BirthInv ==
    /\ \A r \in Recorders : session[r] = "none" <=> r > opened
    /\ \A r \in Recorders : thread[r] = "unborn" =>
          /\ ~stop[r] /\ ~failed[r] /\ detached[r] = None
          /\ Unwritten(r) = {} /\ stored[r] = {}
          /\ session[r] # "ended"
    /\ \A r \in Recorders : r > opened => thread[r] = "unborn"
    /\ \A c \in Callers : step[c] = "declare" =>
          opened \in Recorders /\ session[opened] = "open" /\ thread[opened] = "unborn"

\* A recorder attached is running and open; a recorder being closed runs until
\* it is joined, unless its thread waits for the lock its closer holds.
UseInv ==
    /\ \A r \in Recorders : attached = r =>
          /\ session[r] = "open" /\ ~stop[r]
          /\ thread[r] \in {"waiting", "flush", "writing", "failing"}
    /\ \A c \in Callers, r \in Recorders : closing[c] = r =>
          /\ session[r] = "open" /\ stop[r]
          /\ thread[r] \in {"waiting", "flush", "writing", "failing", "done"}
          /\ thread[r] = "done" => ~failed[r]
          /\ step[c] # "join" => thread[r] = "done"
    /\ \A r \in Recorders :
          thread[r] \in {"waiting", "flush", "writing", "failing"} => InUse(r)

\* A failure goes one way: failed, detached by its own thread, ended.
FailureInv ==
    \A r \in Recorders :
       /\ failed[r] => thread[r] \in {"failing", "reporting", "ending", "done"}
       /\ thread[r] \in {"failing", "reporting", "ending"} => failed[r]
       /\ detached[r] \in {None, r}
       /\ detached[r] = r <=> failed[r] /\ thread[r] # "failing"
       /\ thread[r] = "done" /\ ~failed[r] => stop[r]

\* Rows so far are all there are.
RowsSoFar ==
    /\ \A r \in Recorders : \A n \in Unwritten(r) \cup stored[r] : n <= rows
    /\ \A n \in events : n <= rows

\* Rows are out of the lists only during a flush, the thread's or the closer's.
FlushInv ==
    \A r \in Recorders : taken[r] # {} =>
       \/ thread[r] = "writing"
       \/ rigLock # None /\ closing[rigLock] = r /\ step[rigLock] = "write"

\* A recorder flushed for the last time is left with late events at most.
ClosedInv ==
    \A c \in Callers, r \in Recorders : closing[c] = r /\ step[c] \in {"write", "end"} =>
       Deliveries(buffer[r]) = {}

\* An event is on its way to a recorder that was born.
HandedInv ==
    \A x \in Reporters : reporting[x] = "append" =>
       target[x] \in Recorders /\ thread[target[x]] # "unborn"

RowInv == WrittenInOrder /\ RowsOnce /\ RowsSoFar /\ FlushInv /\ ClosedInv
          /\ HandedInv

IInv == TypeOK /\ LockInv /\ BirthInv /\ UseInv /\ FailureInv /\ RowInv /\ EndsComplete

\* Sessions as the outside sees them: see SessionLog.
Status(r) ==
    IF session[r] = "none" THEN "none"
    ELSE IF failed[r] THEN "lost"
    ELSE IF session[r] = "ended" THEN "ended"
    ELSE IF InUse(r) THEN "open" ELSE "lost"

Kept(r) == Deliveries(stored[r])
Accepted(r) ==
    Deliveries(stored[r] \cup IF Status(r) = "open" THEN Unwritten(r) ELSE {})

Log == INSTANCE SessionLog WITH
    Sessions <- Recorders,
    MayFail <- StoreMayFail,
    status <- [r \in Recorders |-> Status(r)],
    kept <- [r \in Recorders |-> Kept(r)],
    accepted <- [r \in Recorders |-> Accepted(r)]

\* The slot, the buffers and the threads are one session log: rows in order, a
\* session ended only with all of them, a failed one losing only its last.
ImplementsLog == Log!Spec

\* While the store works nobody waits for ever: a call of start_recording or
\* stop_recording returns, though it joins a thread with the rig lock held, and
\* meanwhile a source's samples get through to the rig.
CallsReturn ==
    /\ \A c \in Callers : step[c] # "idle" ~> step[c] = "idle"
    /\ \A s \in Sources : s \in due ~> s \notin due

\* While the store works, a delivery that was buffered reaches the disk.
RowsReachDisk ==
    \A n \in Rows :
       (\E r \in Recorders : n \in Deliveries(Unwritten(r))) ~> \E r \in Recorders : n \in stored[r]

\* recorder.py:15: "a disk that fails stops the recording, not the control".
ControlUntouched == \A s \in Sources : s \in due ~> s \notin due

\* starting.py: a session left open "would look live and overlap the next one".
NoOverlap ==
    \A r, q \in Recorders : session[r] = "open" /\ session[q] = "open" => r = q

\* recorder.py: an event handed to a recorder "is written with the next flush".
EventsWritten ==
    \A r \in Recorders : session[r] = "ended" /\ ~failed[r] => Unwritten(r) = {}

\* rig.py: reporting an event records it; it does not raise.
ReportingIsSafe == \A x \in Reporters : reporting[x] # "raised"
=============================================================================
