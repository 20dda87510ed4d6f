------------------------------- MODULE Fanout -------------------------------
(***************************************************************************)
(* How a change of the telemetry store reaches the components that read it *)
(* (react/src/store/telemetry.ts, the fan-out; react/src/store/hooks.ts):  *)
(* a subscriber is marked when something it asked for moves, and called by *)
(* the next flush that finds its cadence over. A flush is an animation     *)
(* frame while the tab is visible, else a timer.                           *)
(*                                                                         *)
(* A topic is a stream and a key of it. A subscriber wants some topics of  *)
(* one stream, or any: Wants[s] is {} for any key.                         *)
(***************************************************************************)
EXTENDS FiniteSets

CONSTANTS Subs,      \* subscribers, each a hook of a component
          StreamOf,  \* subscriber -> its stream, "status" for the sockets' states
          Wants,     \* subscriber -> the keys it wants; {} is any
          Keys       \* addresses, names

ASSUME FanoutBounds == /\ StreamOf \in [Subs -> {"samples", "controllers", "status"}]
                       /\ Wants \in [Subs -> SUBSET Keys]

VARIABLES joined,   \* subs: the subscribers of the store
          byKey,    \* topic -> its subscribers
          anyKey,   \* stream -> those that want any key
          flagged,  \* subscribers whose own dirty mark is set
          dirty,    \* the set of those to call
          due,      \* subscribers whose cadence is over
          frame,    \* an animation frame is requested
          timer2,   \* the flush timer: "none", "soon" or "due"
          visible,  \* the tab is
          paused,   \* playback: live samples wake nobody
          behind,   \* subscribers whose data moved since they were last called
          owed      \* marks were made and the flush that follows them was not yet asked

fanoutVars == <<joined, byKey, anyKey, flagged, dirty, due, frame, timer2, visible,
                paused, behind, owed>>
indexVars == <<joined, byKey, anyKey>>

Streams == {"samples", "controllers", "status"}
Topics == Streams \X Keys

FanoutTypeOK ==
  /\ joined \subseteq Subs /\ flagged \subseteq Subs /\ dirty \subseteq Subs
  /\ due \subseteq Subs /\ behind \subseteq Subs
  /\ byKey \in [Topics -> SUBSET Subs]
  /\ anyKey \in [Streams -> SUBSET Subs]
  /\ timer2 \in {"none", "soon", "due"}
  /\ {frame, visible, paused, owed} \subseteq BOOLEAN

FanoutInit ==
  /\ joined = {} /\ flagged = {} /\ dirty = {} /\ due = {} /\ behind = {}
  /\ byKey = [t \in Topics |-> {}]
  /\ anyKey = [s \in Streams |-> {}]
  /\ frame = FALSE /\ timer2 = "none"
  /\ visible = TRUE /\ paused = FALSE /\ owed = FALSE

-----------------------------------------------------------------------------
TopicsOf(s) == {StreamOf[s]} \X Wants[s]

\* subscribe: the phase is random, so the cadence may or may not be over; a
\* subscriber of the status has none.
Subscribes(s) ==
  /\ s \notin joined
  /\ joined' = joined \cup {s}
  /\ byKey' = [t \in Topics |-> IF t \in TopicsOf(s) THEN byKey[t] \cup {s} ELSE byKey[t]]
  /\ anyKey' = IF Wants[s] = {} THEN [anyKey EXCEPT ![StreamOf[s]] = @ \cup {s}] ELSE anyKey
  /\ flagged' = flagged \ {s}
  /\ \E over \in BOOLEAN :
       due' = IF over \/ StreamOf[s] = "status" THEN due \cup {s} ELSE due \ {s}
  /\ UNCHANGED <<dirty, frame, timer2, visible, paused, behind, owed>>

\* The function subscribe returned.
Unsubscribes(s) ==
  /\ s \in joined
  /\ joined' = joined \ {s}
  /\ byKey' = [t \in Topics |-> byKey[t] \ {s}]
  /\ anyKey' = [anyKey EXCEPT ![StreamOf[s]] = @ \ {s}]
  /\ dirty' = dirty \ {s}
  /\ behind' = behind \ {s}
  /\ UNCHANGED <<flagged, due, frame, timer2, visible, paused, owed>>

\* mark: who is woken by a key of a stream, or by all of it.
Marked(stream, keys) == (UNION {byKey[<<stream, k>>] : k \in keys}) \cup anyKey[stream]
AllOf(stream) == {s \in joined : StreamOf[s] = stream}

\* wake: once, until it is called.
Wake(who) ==
  /\ dirty' = dirty \cup (who \ flagged)
  /\ flagged' = flagged \cup who
  /\ behind' = behind \cup who

\* flushSoon: a requested frame serves; else a frame, or a timer in place of the
\* one there is.
FlushSoon ==
  /\ owed' = FALSE
  /\ IF frame THEN UNCHANGED <<frame, timer2>>
     ELSE IF visible THEN frame' = TRUE /\ UNCHANGED timer2
     ELSE timer2' = "soon" /\ UNCHANGED frame

\* A frame of the socket: its keys are marked, samples only while live; then a flush.
Message(stream, keys) ==
  /\ stream # "status" /\ keys # {}
  /\ AllOf(stream) # {}
  /\ Wake(IF stream = "samples" /\ paused THEN {} ELSE Marked(stream, keys))
  /\ FlushSoon
  /\ UNCHANGED <<indexVars, due, visible, paused>>

\* setStatus.
StatusMoves ==
  /\ Wake(AllOf("status"))
  /\ FlushSoon
  /\ UNCHANGED <<indexVars, due, visible, paused>>

\* playback: a seek or a resume wakes every reader of samples and controllers.
PlaybackMoves ==
  /\ paused' \in BOOLEAN
  /\ (paused' \/ paused)
  /\ Wake(AllOf("samples") \cup AllOf("controllers"))
  /\ FlushSoon
  /\ UNCHANGED <<indexVars, due, visible>>

\* A window of playback, or the first controllers of seedControllers: marked, and
\* the flush comes when the rest has landed...
LandsOne(stream, key) ==
  /\ stream # "status"
  /\ Marked(stream, {key}) # {}
  /\ Wake(Marked(stream, {key}))
  /\ owed' = TRUE
  /\ UNCHANGED <<indexVars, due, frame, timer2, visible, paused>>

LandsLast ==
  /\ owed
  /\ FlushSoon
  /\ UNCHANGED <<indexVars, flagged, dirty, due, visible, paused, behind>>

-----------------------------------------------------------------------------
\* No timer for those whose cadence is not over.
NoNextFlush(rest) == "none"

\* The next flush, for those left.
NextFlush(rest) == IF rest # {} THEN "due" ELSE "none"

\* flush: calls those whose cadence is over, and comes back for the others. The
\* subscribers of the status are always due.
Flush ==
  LET called == dirty \cap due
      rest == dirty \ due
  IN /\ frame' = FALSE
     /\ dirty' = rest
     /\ flagged' = flagged \ called
     /\ behind' = behind \ called
     /\ due' = due \ {s \in called : StreamOf[s] # "status"}
     /\ timer2' = NextFlush(rest)
     /\ UNCHANGED <<indexVars, visible, paused, owed>>

\* The browser draws frames only while the tab is visible.
FrameFires == frame /\ visible /\ Flush
TimerFires == timer2 # "none" /\ (timer2 = "due" => dirty \cap due # {}) /\ Flush

\* A cadence is over: everyMs since the last call.
CadenceOver(s) ==
  /\ s \in joined \ due
  /\ due' = due \cup {s}
  /\ UNCHANGED <<indexVars, flagged, dirty, frame, timer2, visible, paused, behind, owed>>

Hides == visible /\ visible' = FALSE
         /\ UNCHANGED <<indexVars, flagged, dirty, due, frame, timer2, paused, behind, owed>>
Shows == ~visible /\ visible' = TRUE
         /\ UNCHANGED <<indexVars, flagged, dirty, due, frame, timer2, paused, behind, owed>>

FanoutNext ==
  \/ \E s \in Subs : Subscribes(s) \/ Unsubscribes(s) \/ CadenceOver(s)
  \/ \E stream \in Streams, keys \in SUBSET Keys : Message(stream, keys)
  \/ \E stream \in Streams, key \in Keys : LandsOne(stream, key)
  \/ StatusMoves \/ PlaybackMoves \/ LandsLast
  \/ FrameFires \/ TimerFires \/ Hides \/ Shows

FanoutSpec == FanoutInit /\ [][FanoutNext]_fanoutVars

\* The browser draws frames and fires timers, and cadences pass.
FanoutFairness ==
  /\ WF_fanoutVars(FrameFires) /\ WF_fanoutVars(TimerFires)
  /\ \A s \in Subs : WF_fanoutVars(CadenceOver(s))
FanoutFairSpec == FanoutSpec /\ FanoutFairness

-----------------------------------------------------------------------------
(* Properties.                                                             *)

\* The indexes hold exactly the subscribers there are, through any order of
\* subscribing and leaving: a change touches those that asked, and nobody gone.
IndexExact ==
  /\ \A t \in Topics : byKey[t] = {s \in joined : t \in TopicsOf(s)}
  /\ \A stream \in Streams :
       anyKey[stream] = {s \in joined : StreamOf[s] = stream /\ Wants[s] = {}}
  /\ dirty = flagged \cap joined

\* No wakeup is lost: who is behind is marked, and for the marked a flush is on
\* its way, unless what marked them has yet to ask for it.
NoWakeupLost ==
  /\ behind \subseteq dirty
  /\ dirty # {} => frame \/ timer2 # "none" \/ owed

\* Whoever is behind is called, unless it leaves or the tab is hidden.
BehindIsCalled ==
  \A s \in Subs : s \in behind ~> (s \notin behind \/ ~visible \/ owed)
=============================================================================
