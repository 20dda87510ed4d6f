------------------------------ MODULE Playback ------------------------------
(***************************************************************************)
(* Scrubbing through the rig's history: the transport bar and its hook     *)
(* (react/src/hooks/usePlayback.ts, dashboard/src/PlaybackBar.tsx) over the *)
(* telemetry store's playback (react/src/store/telemetry.ts). The hook     *)
(* holds where the user is; an effect hands it to the store after the      *)
(* render; the store cuts each signal's window from its live ring, or      *)
(* fetches it after a debounce, and drops an answer that comes too late.   *)
(*                                                                         *)
(* A window is known by the position it ends at: what its rows are is      *)
(* Ring's SliceIsWindow. playbackGen is kept as what it is compared for:   *)
(* the next seek or resume makes every answer on its way an Older one.     *)
(*                                                                         *)
(* Bound: rig time ends at LastS.                                          *)
(***************************************************************************)
EXTENDS Integers, FiniteSets, Sequences

CONSTANTS Traces,     \* addresses of signals
          TickTracks, \* controllers, whose ticks are tracks as well
          Sessions,   \* sessions of the recording store, 1..n in order
          StartOf,    \* session -> its start, in rig seconds
          WindowLen,  \* playbackWindow: the chart's window and the margin
          StepS,      \* PLAYBACK_STEP_S
          LastS       \* where rig time ends

ASSUME PlaybackBounds ==
  /\ Sessions \subseteq Nat \ {0}
  /\ StartOf \in [Sessions -> Nat]
  /\ WindowLen \in Nat /\ StepS \in Nat /\ LastS \in Nat

Live == -1
NoSession == 0
NoWindow == -2
Older == -3
Tracks == Traces \cup TickTracks

VARIABLES clock,   \* nowS: the newest sample
          record,  \* the open session as the 5 s query last said, or NoSession
          hookAt,  \* the hook's atS, or Live
          unsaid,  \* the hook rendered and its effect has not run yet
          at,      \* the store's atS, or Live
          session, \* playbackSession.id, or NoSession
          window,  \* track -> the position its window ends at, or NoWindow
          reach,   \* track -> how far back its live ring goes (LastS + 1: empty)
          readers, \* tracks some panel subscribes to (and signals seeded for one)
          known,   \* controllers the page has the state of: controllerLatest
          waiting, \* playbackPending
          timer,   \* the debounce is armed
          fetches  \* answers on their way

playbackVars == <<clock, record, hookAt, unsaid, at, session, window, reach,
                  readers, known, waiting, timer, fetches>>
hookVars == <<record, hookAt, unsaid>>
playerVars == <<at, session, window, waiting, timer, fetches>>

Positions == {Live} \cup 0..LastS

PlaybackTypeOK ==
  /\ clock \in 0..LastS
  /\ record \in Sessions \cup {NoSession}
  /\ hookAt \in Positions /\ unsaid \in BOOLEAN
  /\ at \in Positions
  /\ session \in Sessions \cup {NoSession}
  /\ window \in [Tracks -> {NoWindow} \cup 0..LastS]
  /\ reach \in [Tracks -> 0..LastS + 1]
  /\ readers \in SUBSET Tracks /\ known \in SUBSET TickTracks /\ waiting \in SUBSET Tracks
  /\ timer \in BOOLEAN
  /\ fetches \subseteq [track : Tracks, at : {Older} \cup 0..LastS]

PlaybackInit ==
  /\ clock = 1
  /\ record = NoSession /\ hookAt = Live /\ unsaid = FALSE
  /\ at = Live /\ session = NoSession
  /\ window = [k \in Tracks |-> NoWindow]
  /\ reach = [k \in Tracks |-> LastS + 1]
  /\ readers = {} /\ known = {} /\ waiting = {} /\ timer = FALSE /\ fetches = {}

-----------------------------------------------------------------------------
(* The rig and the page.                                                   *)

Smaller(a, b) == IF a < b THEN a ELSE b
Larger(a, b) == IF a > b THEN a ELSE b

\* A frame of samples: the clock moves, an empty ring begins.
SamplesArrive ==
  /\ clock < LastS
  /\ clock' = clock + 1
  /\ reach' = [k \in Tracks |-> Smaller(reach[k], clock + 1)]
  /\ UNCHANGED <<hookVars, playerVars, readers, known>>

\* The history of a track lands in its live ring (Seeding).
HistoryReaches(k) ==
  /\ record # NoSession
  /\ StartOf[record] < reach[k]
  /\ reach' = [reach EXCEPT ![k] = StartOf[record]]
  /\ UNCHANGED <<clock, hookVars, playerVars, readers, known>>

\* GET /api/recording answers with another open session, or with none.
RecordingAnswers ==
  /\ \E r \in Sessions \cup {NoSession} :
       /\ r # record
       /\ r # NoSession => r > session /\ StartOf[r] <= clock
       /\ record' = r
  /\ unsaid' = TRUE
  /\ UNCHANGED <<clock, hookAt, playerVars, readers, known, reach>>

-----------------------------------------------------------------------------
(* The bar. It is there only while a session is open.                      *)

Here == IF hookAt = Live THEN clock ELSE hookAt
\* clamp, with the clock of the last render.
Clamp(t) == Smaller(clock, Larger(StartOf[record], t))

MovesTo(position) ==
  /\ record # NoSession
  /\ hookAt' = position /\ hookAt' # hookAt
  /\ unsaid' = TRUE
  /\ UNCHANGED <<clock, record, playerVars, readers, known, reach>>

\* seek: live again on reaching now.
SeekTo(t) == MovesTo(IF Clamp(t) >= clock THEN Live ELSE Clamp(t))
Scrub == \E t \in 0..clock : record # NoSession /\ t >= StartOf[record] /\ SeekTo(t)
Rewind == record # NoSession /\ Here > StartOf[record] /\ SeekTo(Here - StepS)
FastForward == hookAt # Live /\ record # NoSession /\ SeekTo(hookAt + StepS)
Pause == hookAt = Live /\ record # NoSession /\ MovesTo(Clamp(clock))
Resume == hookAt # Live /\ MovesTo(Live)

-----------------------------------------------------------------------------
(* The store.                                                              *)

From(t) == t - WindowLen

\* The live ring reaches back to the window's start, or to the session's.
Covered(k, t, s) == /\ reach[k] <= LastS
                    /\ reach[k] <= From(t) \/ reach[k] <= StartOf[s] + 1

\* What was waiting before is forgotten.
EnsureAnew(tracks, t, s, oldWindow, oldWaiting) ==
  LET cut == {k \in tracks : Covered(k, t, s)}
  IN /\ window' = [k \in Tracks |-> IF k \in cut THEN t ELSE oldWindow[k]]
     /\ waiting' = tracks \ cut
     /\ timer' = (timer \/ tracks \ cut # {})

\* ensurePlayback: each track gets a cut of its live ring, or waits for a fetch,
\* whose debounce starts anew.
Ensure(tracks, t, s, oldWindow, oldWaiting) ==
  LET cut == {k \in tracks : Covered(k, t, s)}
  IN /\ window' = [k \in Tracks |-> IF k \in cut THEN t ELSE oldWindow[k]]
     /\ waiting' = oldWaiting \cup (tracks \ cut)
     /\ timer' = (timer \/ tracks \ cut # {})

\* The generation not counted up.
StillCurrent == fetches

\* playbackGen++: what is on its way is for an older position.
Outdated == {[f EXCEPT !.at = Older] : f \in fetches}

\* playback(null): the windows go, the rings have filled all along.
GoLive ==
  IF at = Live THEN UNCHANGED playerVars
  ELSE /\ at' = Live
       /\ fetches' = Outdated
       /\ window' = [k \in Tracks |-> NoWindow]
       /\ waiting' = {} /\ timer' = FALSE
       /\ UNCHANGED session

\* playback(t, s): every window is for the old position; all are cut or queued anew.
GoTo(t, s) ==
  /\ at' = t /\ session' = s
  /\ fetches' = Outdated
  /\ LET had == {k \in Traces : window[k] # NoWindow}
     IN Ensure((Traces \cap (readers \cup waiting \cup had)) \cup known, t, s, window, {})

\* The hook's effect: the store follows the hook; without a session both are live.
EffectRuns ==
  /\ unsaid
  /\ IF record = NoSession
       THEN /\ GoLive
            /\ hookAt' = Live
            /\ unsaid' = (hookAt # Live)
       ELSE /\ IF hookAt = Live THEN GoLive ELSE GoTo(hookAt, record)
            /\ UNCHANGED hookAt
            /\ unsaid' = FALSE
  /\ UNCHANGED <<clock, record, readers, known, reach>>

\* A panel appears: while paused one of a signal gets the past, not the live ring.
Subscribe(k) ==
  /\ k \notin readers
  /\ readers' = readers \cup {k}
  /\ IF k \in Traces /\ at # Live /\ window[k] = NoWindow /\ k \notin waiting
       THEN Ensure({k}, at, session, window, waiting)
       ELSE UNCHANGED <<window, waiting, timer>>
  /\ UNCHANGED <<clock, hookVars, at, session, fetches, known, reach>>

\* A panel goes; its window stays until playback ends.
Unsubscribe(k) ==
  /\ k \in readers
  /\ readers' = readers \ {k}
  /\ UNCHANGED <<clock, hookVars, playerVars, known, reach>>

\* The debounce is over: one request per waiting track, for the window of now.
\* A position before the session's start asks for nothing.
Fetch ==
  /\ timer
  /\ timer' = FALSE
  /\ IF at = Live THEN UNCHANGED <<waiting, fetches>>
     ELSE /\ waiting' = {}
          /\ fetches' = fetches \cup
               IF at < StartOf[session] THEN {}
               ELSE {[track |-> k, at |-> at] : k \in waiting}
  /\ UNCHANGED <<clock, hookVars, at, session, window, readers, known, reach>>

\* An answer: one for an older position is dropped; a track the session did not
\* record, or a request that failed, lands as an empty window.
Lands(f) ==
  /\ fetches' = fetches \ {f}
  /\ window' = IF f.at = Older THEN window ELSE [window EXCEPT ![f.track] = f.at]
  /\ UNCHANGED <<clock, hookVars, at, session, waiting, timer, readers, known, reach>>

\* The state of a controller arrives for the first time (its socket, or
\* GET /api/controllers).
ControllerArrives(k) ==
  /\ k \notin known
  /\ known' = known \cup {k}
  /\ UNCHANGED <<clock, hookVars, playerVars, readers, reach>>

\* latest, latestValue, read, count and readController: where a panel's rows come
\* from, the live ring or the window.
ReadFrom(k) == IF at = Live THEN Live ELSE window[k]

PlaybackNext ==
  \/ SamplesArrive \/ RecordingAnswers \/ EffectRuns \/ Fetch
  \/ Scrub \/ Rewind \/ FastForward \/ Pause \/ Resume
  \/ \E k \in Tracks : HistoryReaches(k) \/ Subscribe(k) \/ Unsubscribe(k)
  \/ \E k \in TickTracks : ControllerArrives(k)
  \/ \E f \in fetches : Lands(f)

PlaybackSpec == PlaybackInit /\ [][PlaybackNext]_playbackVars

-----------------------------------------------------------------------------
(* Properties.                                                             *)

\* A window is of the position shown, or its fetch is still to come: a panel is
\* never left with the rows of another moment, however seeks, resumes, late
\* answers, panels and sessions fall. (A session that began after the position
\* has nothing to ask for: there the old rows stay.)
ShownOrAwaited ==
  at # Live =>
    \A k \in Tracks :
      \/ ReadFrom(k) = at
      \/ window[k] = NoWindow /\ (k \in TickTracks \/ k \notin readers)
      \/ k \in waiting /\ timer
      \/ [track |-> k, at |-> at] \in fetches
      \/ at < StartOf[session]

\* No answer to an earlier question reaches a panel: a window a panel is given is
\* always one for the position shown at that moment.
NoLateAnswer ==
  [][\A k \in Tracks : window'[k] \in {window[k], NoWindow, at'}]_playbackVars

\* Live is live: nothing of the past is left, and no fetch of it is to come.
LiveKeepsNothing ==
  at = Live => /\ \A k \in Tracks : window[k] = NoWindow
               /\ waiting = {} /\ ~timer

\* Once its effect has run the store shows what the bar says: both live, or both
\* at the same position of a session that is open.
StoreFollowsBar ==
  ~unsaid => /\ at = hookAt
             /\ at # Live => session = record

\* What the comment of playback says of readController: while paused a panel of
\* a controller has its window, or is about to.
PanelsHavePast ==
  at # Live /\ at >= StartOf[session] =>
    \A k \in readers \cap known : \/ ReadFrom(k) = at
                                  \/ k \in waiting
                                  \/ [track |-> k, at |-> at] \in fetches

\* What the hook's declaration says of atS: within the session's start and now.
WithinTheSession ==
  hookAt # Live /\ record # NoSession => StartOf[record] <= hookAt /\ hookAt <= clock
=============================================================================
