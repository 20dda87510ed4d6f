------------------------------- MODULE Seeding -------------------------------
(***************************************************************************)
(* How the telemetry store fills a signal's ring when a page opens         *)
(* (react/src/store/telemetry.ts): the live frames of the samples socket,  *)
(* the newest values of GET /api/devices and the history of the recording  *)
(* store reach the page in any order, and land in one ring.                *)
(*                                                                         *)
(* The rig samples every signal once per tick of its clock `now`, sends    *)
(* the samples down the socket and records them. A row is its time: the    *)
(* ring of a signal is an ascending sequence of times, which Ring keeps    *)
(* (it implements Timeline, whose operators are used here).                *)
(*                                                                         *)
(* Bound: the clock stops at MaxNow.                                       *)
(***************************************************************************)
EXTENDS Integers, Sequences, FiniteSets, SequencesExt

CONSTANTS Signals,   \* addresses a page asks for
          Opened,    \* the rig's clock when the page opens
          MaxNow,
          SeedWindowS,
          Recordings \* what the recording store may hold: sequences of sessions, newest first

Never == -1

\* A session of the recording store; where a simulated clock restarts, an older
\* one may carry later times.
RecordedSessions ==
  [start : Nat, end : {Never} \cup Nat,
   current : BOOLEAN, scratch : BOOLEAN, declared : BOOLEAN]

ASSUME SeedBounds ==
  /\ Opened \in Nat /\ SeedWindowS \in Nat
  /\ Recordings \subseteq Seq(RecordedSessions)

VARIABLES recordings, \* the sessions of this rig; end = Never while open
          now,        \* the rig's clock
          wire,       \* times of the samples on their way down the socket
          rings,      \* signal -> the times on its ring
          latest,     \* signal -> latestValues[signal].t, or Never
          seeded,     \* seededSignals
          pending,    \* pendingSeed, gathered for a tick of the event loop
          gathering,  \* the batch's timer is armed: seeding # null
          asks,       \* signal -> history requests that named it
          history,    \* the batches whose history is on its way
          newest      \* the batches whose newest values are on their way

seedVars == <<recordings, now, wire, rings, latest, seeded, pending, gathering, asks, history, newest>>

Rows == INSTANCE Timeline WITH rows <- <<>>, MaxRows <- 1000, WindowS <- SeedWindowS,
                               Times <- 0..MaxNow, Values <- {0}, MaxHistory <- MaxNow
AsRows(times) == [i \in 1..Len(times) |-> <<times[i], 0>>]
TimesOf(rows) == [i \in 1..Len(rows) |-> rows[i][1]]
PushTime(times, t) == TimesOf(Rows!Pushed(AsRows(times), <<t, 0>>))
PrependTimes(times, older) == TimesOf(Rows!Prepended(AsRows(times), AsRows(older)))

SeedInit ==
  /\ recordings \in Recordings
  /\ now = Opened
  /\ wire = <<>>
  /\ rings = [a \in Signals |-> <<>>]
  /\ latest = [a \in Signals |-> Never]
  /\ seeded = {} /\ pending = {} /\ gathering = FALSE
  /\ asks = [a \in Signals |-> 0]
  /\ history = {} /\ newest = {}

-----------------------------------------------------------------------------
(* The choice of sessions.                                                 *)

EndOf(session, at) == IF session.end = Never THEN at ELSE session.end

\* Left open by a runner that died: neither the current recording nor the scratch record.
Orphan(session) == session.end = Never /\ ~session.current /\ ~session.scratch

\* Only a session that begins after the later one's start is left out.
BeginsLater(s, at, floor) == floor # Never /\ s.start > floor

\* A session that ends after a later one began, at `floor`, overlaps it on the
\* axis; the newest overlaps none.
Overlaps(s, at, floor) == floor # Never /\ EndOf(s, at) > floor

\* The sessions a request reads at time `at`, newest first: no orphan, none that
\* overlaps a later one on the axis (a restarted clock), none after the first
\* that ends before the window.
UsedSessions(list, at) ==
  LET step(acc, s) ==
        IF acc.over \/ Orphan(s) \/ Overlaps(s, at, acc.floor) THEN acc
        ELSE IF EndOf(s, at) < at - SeedWindowS
          THEN [acc EXCEPT !.floor = s.start, !.over = TRUE]
          ELSE [acc EXCEPT !.floor = s.start, !.used = Append(@, s)]
      f[n \in 0..Len(list)] ==
        IF n = 0 THEN [floor |-> Never, over |-> FALSE, used |-> <<>>] ELSE step(f[n - 1], list[n])
  IN f[Len(list)].used

\* What a session's series answers at time `then` from an offset on: its rows at
\* every tick it was recorded, if it declared the signals.
SeriesOf(s, from, then) ==
  IF ~s.declared THEN {} ELSE {t \in s.start..EndOf(s, then) : t >= from}

\* The rows of several sessions, in the order of their first rows.
HistoryRows(list, at, then) ==
  LET used == UsedSessions(list, at)
      from(s) == IF at - SeedWindowS > s.start THEN at - SeedWindowS ELSE s.start
      chunk(i) == SetToSortSeq(SeriesOf(used[i], from(used[i]), then), <)
      chunks == SelectSeq([i \in 1..Len(used) |-> chunk(i)], LAMBDA c : c # <<>>)
  IN FlattenSeq(SortSeq(chunks, LAMBDA c, d : c[1] < d[1]))

-----------------------------------------------------------------------------
(* The rig and the socket.                                                 *)

Sample ==
  /\ now < MaxNow
  /\ now' = now + 1
  /\ wire' = Append(wire, now + 1)
  /\ UNCHANGED <<recordings, rings, latest, seeded, pending, gathering, asks, history, newest>>

\* onSamples: every signal of the frame gets its newest value and, all being
\* numbers here, a row.
OnSamples ==
  /\ wire # <<>>
  /\ wire' = Tail(wire)
  /\ rings' = [a \in Signals |-> PushTime(rings[a], Head(wire))]
  /\ latest' = [a \in Signals |-> Head(wire)]
  /\ UNCHANGED <<recordings, now, seeded, pending, gathering, asks, history, newest>>

-----------------------------------------------------------------------------
(* Seeding.                                                                *)

\* seed: a component asks; what was asked before is not asked again, the rest
\* joins the batch of this tick.
Seed(addresses) ==
  /\ LET wanted == addresses \ seeded
     IN /\ wanted # {}
        /\ seeded' = seeded \cup wanted
        /\ pending' = pending \cup wanted
        /\ gathering' = TRUE
  /\ UNCHANGED <<recordings, now, wire, rings, latest, asks, history, newest>>

\* The tick is over: one batch, its history and its newest values asked side by side.
SendBatch ==
  /\ gathering
  /\ gathering' = FALSE /\ pending' = {}
  /\ asks' = [a \in Signals |-> IF a \in pending THEN asks[a] + 1 ELSE asks[a]]
  /\ history' = history \cup {[for |-> pending, at |-> Never, rows |-> <<>>, done |-> FALSE]}
  /\ newest' = newest \cup {[for |-> pending, at |-> Never]}
  /\ UNCHANGED <<recordings, now, wire, rings, latest, seeded>>

\* The runner answers with the sessions and its clock.
ListSessions(h) ==
  /\ h.at = Never
  /\ history' = (history \ {h}) \cup {[h EXCEPT !.at = now]}
  /\ UNCHANGED <<recordings, now, wire, rings, latest, seeded, pending, gathering, asks, newest>>

\* It answers with the series, some time later.
AnswerSeries(h) ==
  /\ h.at # Never /\ ~h.done
  /\ history' = (history \ {h})
                  \cup {[h EXCEPT !.rows = HistoryRows(recordings, h.at, now), !.done = TRUE]}
  /\ UNCHANGED <<recordings, now, wire, rings, latest, seeded, pending, gathering, asks, newest>>

\* fetchHistory ends: what was answered goes in front of what the ring holds.
LandHistory(h) ==
  /\ h.done
  /\ history' = history \ {h}
  /\ rings' = [a \in Signals |-> IF a \in h.for /\ h.rows # <<>>
                                   THEN PrependTimes(rings[a], h.rows) ELSE rings[a]]
  /\ UNCHANGED <<recordings, now, wire, latest, seeded, pending, gathering, asks, newest>>

\* A request fails: live only is fine.
HistoryFails(h) ==
  /\ ~h.done
  /\ history' = history \ {h}
  /\ UNCHANGED <<recordings, now, wire, rings, latest, seeded, pending, gathering, asks, newest>>

\* GET /api/devices is answered with every signal's newest value...
AnswerNewest(n) ==
  /\ n.at = Never
  /\ newest' = (newest \ {n}) \cup {[n EXCEPT !.at = now]}
  /\ UNCHANGED <<recordings, now, wire, rings, latest, seeded, pending, gathering, asks, history>>

\* The answer put over what the socket has delivered.
FillsAll(n) == n.for

\* ... which fills a signal nothing has given a value to, and an empty ring.
Fills(n) == {a \in n.for : latest[a] = Never}
LandNewest(n) ==
  /\ n.at # Never
  /\ newest' = newest \ {n}
  /\ latest' = [a \in Signals |-> IF a \in Fills(n) THEN n.at ELSE latest[a]]
  /\ rings' = [a \in Signals |-> IF a \in Fills(n) /\ rings[a] = <<>>
                                   THEN PushTime(rings[a], n.at) ELSE rings[a]]
  /\ UNCHANGED <<recordings, now, wire, seeded, pending, gathering, asks, history>>

SeedNext ==
  \/ Sample \/ OnSamples \/ SendBatch
  \/ \E addresses \in SUBSET Signals : Seed(addresses)
  \/ \E h \in history : ListSessions(h) \/ AnswerSeries(h) \/ LandHistory(h) \/ HistoryFails(h)
  \/ \E n \in newest : AnswerNewest(n) \/ LandNewest(n)

SeedSpec == SeedInit /\ [][SeedNext]_seedVars

-----------------------------------------------------------------------------
(* Properties.                                                             *)

Members(s) == {s[i] : i \in 1..Len(s)}

\* However many components ask for a signal, and however their asking falls
\* about the batches, its history is asked for once.
AskedOnce == \A a \in Signals : asks[a] <= 1 /\ (a \in seeded => a \in pending \/ asks[a] = 1)

\* The sessions read follow one another on the axis, so no reading of another
\* timeline (a simulated clock that started anew, a session whose runner died)
\* is laid over the trace; and the newest session there is to read is read.
OneAxis ==
  \A at \in Opened..MaxNow :
    LET used == UsedSessions(recordings, at)
    IN /\ \A i \in 1..Len(used) - 1 : EndOf(used[i + 1], at) <= used[i].start
       /\ \A i \in 1..Len(used) : ~Orphan(used[i]) /\ EndOf(used[i], at) >= at - SeedWindowS
       /\ \A i \in 1..Len(recordings) :
            (/\ ~Orphan(recordings[i])
             /\ EndOf(recordings[i], at) >= at - SeedWindowS
             /\ \A j \in 1..i - 1 : Orphan(recordings[j])) => recordings[i] \in Members(used)

\* History that lands keeps every row the ring had, and adds just what is older
\* than all of them: no doubled rows at the seam, no step backwards. What it adds
\* goes only when the window moves past it.
LandingKeepsLive ==
  [][\A a \in Signals : \A h \in history \ history' :
       h.done /\ a \in h.for =>
         LET before == Members(rings[a])
             kept == before \cup {t \in Members(h.rows) : \A u \in before : t < u}
         IN Members(rings'[a]) = {t \in kept : \A u \in kept : t >= u - SeedWindowS}]_seedVars

\* When all has landed the readout shows the rig's newest value, whichever of
\* the socket and the request was first.
NewestIsShown ==
  wire = <<>> /\ now > Opened => \A a \in Signals : latest[a] = now

\* What a panel shows of the past and the present is of one timeline, and up to date.
HistoryIsTrue == OneAxis /\ NewestIsShown

\* What the comment of push says of a ring that starts afresh: the clock went
\* backwards. It never does here, so what a ring holds should stay on it until
\* the window has moved past it.
HistoryStays ==
  [][\A a \in Signals : \A t \in Members(rings[a]) :
       t >= now' - SeedWindowS => t \in Members(rings'[a])]_seedVars
=============================================================================
