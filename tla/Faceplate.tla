----------------------------- MODULE Faceplate -----------------------------
(***************************************************************************)
(* The faceplate of a controller (react/src/panels/ControllerPanel.tsx,    *)
(* the hooks of store/hooks.ts, setpointOf and alarmLevel of the client's  *)
(* schema.ts): the reading, the target, the output and the one warning an  *)
(* operator sees, computed at every render from what the store holds. A    *)
(* render follows a message or the hooks' one-second tick; all it keeps    *)
(* from one to the next is the memo of useFreshness.                       *)
(*                                                                         *)
(* Times are quarter seconds of the rig's clock. A render may come at any  *)
(* moment; the pace at which the hooks ask for one is left out, and so is  *)
(* the past that Playback shows.                                           *)
(***************************************************************************)
EXTENDS Integers

CONSTANTS Clock,      \* times the rig's clock may show
          Periods,    \* poll periods of the source's device; 0 is not known
          Aims,       \* setpoints, in the source's unit
          Gain, Lo, Hi,  \* an affine feedforward, and the target's limits
          MaxStarts,  \* starts of the runner, each with a clock of its own
          Null

ASSUME FaceBounds ==
    /\ Clock \subseteq Nat /\ 0 \in Clock /\ Periods \subseteq Nat /\ Aims \subseteq Int
    /\ Gain \in Int \ {0} /\ Lo \in Int /\ Hi \in Int /\ Lo <= Hi /\ MaxStarts \in Nat
    /\ Null \notin Int \cup {"high", "low", "no recent reading"}

NoTime == -1
Second == 4

VARIABLES rigClock,   \* the rig's time, and which start of the runner it is of
          rigStart,
          newestS,    \* the store: newest time of any sample
          sourceT,    \* time of the newest sample of the source
          period,     \* the source's device's run: period, and offline or stopped
          offline,
          controller, \* the controller's newest object, and what it aims at
          write,      \* the target's newest write state
          startS,     \* useRigStartS: the start the panel asked for
          heldAge,    \* useFreshness: the age and the period of its memo, and the memo
          heldPeriod,
          fresh,
          face        \* what the last render showed

faceVars == <<rigClock, rigStart, newestS, sourceT, period, offline, controller, write,
              startS, heldAge, heldPeriod, fresh, face>>
rigVars == <<rigClock, rigStart>>
rowVars == <<controller, write, startS>>
ageVars == <<rigClock, newestS, sourceT, period, offline>>
heldVars == <<heldAge, heldPeriod, fresh>>

Larger(x, y) == IF x > y THEN x ELSE y
Smaller(x, y) == IF x < y THEN x ELSE y

-----------------------------------------------------------------------------
(* schema.ts.                                                              *)

\* max(3 periods, 5 s).
StaleAfter(p) == Larger(3 * p, 5 * Second)

\* alarmLevel, of a value inside its bands.
Level(f) == IF f.last # NoTime /\ f.now # NoTime /\ f.now - f.last > StaleAfter(f.period)
            THEN "stale" ELSE "ok"

\* setpointOf: resolved at the last tick, else a number, else recovered from the demand.
OverGain(d) == IF Gain > 0 THEN d \div Gain ELSE (-d) \div (-Gain)
Recovered(c) == LET share == c.demand - c.correction
                IN IF Gain * OverGain(share) = share THEN OverGain(share) ELSE Null
SetpointOf(c) ==
    IF c.setpoint # Null THEN c.setpoint
    ELSE IF ~c.moving /\ c.reference # Null THEN c.reference
    ELSE IF c.demand # Null THEN Recovered(c)
    ELSE Null

-----------------------------------------------------------------------------
(* useFreshness.                                                           *)

\* Math.round, to whole seconds.
Round(q) == Second * ((q + Second \div 2) \div Second)

\* The snapshot: the age in whole seconds while stale, else -1.
Age == IF sourceT = NoTime \/ newestS = NoTime \/ newestS - sourceT <= StaleAfter(period)
       THEN -1 ELSE Round(newestS - sourceT)

\* Defect: the memo is not made anew when the age changes.
NewMemo(age) == period # heldPeriod

\* The memo is made anew when the period or the age has changed.
Remade(age) == period # heldPeriod \/ age # heldAge

Memo(age) == [period |-> period, last |-> sourceT,
              now |-> IF age >= 0 /\ sourceT # NoTime THEN sourceT + age ELSE newestS]

-----------------------------------------------------------------------------
(* The rows of the panel.                                                  *)

\* What the target will give is not what was asked.
Differs(c) == c.expected # Null /\ c.demand # c.expected

\* The target was, or will be, held at a limit; at which, and what was asked.
Clamped == IF write # Null THEN write.limit # Null ELSE Differs(controller)
Edge == IF ~Clamped THEN Null
        ELSE IF write # Null THEN write.limit
        ELSE IF controller.demand > controller.expected THEN "high" ELSE "low"
Output == IF write # Null THEN write.value
          ELSE IF controller.expected # Null THEN controller.expected ELSE controller.demand
Requested == IF write # Null /\ write.requested # Null THEN write.requested ELSE controller.demand

\* One warning, the gravest.
Banner(level) == IF offline THEN "source offline"
                 ELSE IF level = "stale" THEN "no recent reading"
                 ELSE IF Clamped THEN "target at limit"
                 ELSE IF controller.open THEN "open loop" ELSE Null

\* describeReference: a trajectory, when it ends, once the start it counts from is known.
Following == IF ~controller.moving THEN Null
             ELSE IF controller.arrived THEN "arrived"
             ELSE IF startS = NoTime THEN "moving" ELSE "ends"

Face(level) == [banner |-> Banner(level), target |-> SetpointOf(controller), output |-> Output,
                edge |-> Edge, requested |-> IF Clamped THEN Requested ELSE Null,
                following |-> Following]

Renders ==
    LET age == Age
        memo == IF Remade(age) THEN Memo(age) ELSE fresh
    IN /\ heldAge' = age /\ heldPeriod' = period /\ fresh' = memo
       /\ face' = Face(Level(memo))
       /\ UNCHANGED <<rigVars, newestS, sourceT, period, offline, controller, write, startS>>

-----------------------------------------------------------------------------
(* What reaches the store.                                                 *)

ClockMoves ==
    /\ rigClock' \in {t \in Clock : t > rigClock}
    /\ UNCHANGED <<rigStart, newestS, sourceT, period, offline, controller, write, startS,
                   heldVars, face>>

\* onSamples: the source's, or another signal's. The newest time only grows.
Samples ==
    /\ newestS' = Larger(newestS, rigClock)
    /\ sourceT' \in {sourceT, rigClock}
    /\ UNCHANGED <<rigVars, period, offline, controller, write, startS, heldVars, face>>

\* The controller as a tick tells it. The rig's demand is the feedforward of the aim,
\* and the law's share; its reference is a number or a trajectory, which ends.
Ticked(aim, share, moving, arrived, resolved, open) ==
    LET demand == Gain * aim + share
    IN [aim |-> aim, reference |-> aim, moving |-> moving, arrived |-> arrived,
        setpoint |-> IF resolved THEN aim ELSE Null, open |-> open,
        correction |-> share, demand |-> demand,
        expected |-> Larger(Lo, Smaller(Hi, demand))]

\* onControllers.
ControllerTicks == \E aim \in Aims, share \in {0, 1}, moving, arrived, resolved, open \in BOOLEAN :
    /\ arrived => moving
    /\ controller' = Ticked(aim, share, moving, arrived, resolved, open)
    /\ UNCHANGED <<rigVars, newestS, sourceT, period, offline, write, startS, heldVars, face>>

\* onSamples: the write record of what the target was set to.
TargetWritten ==
    /\ controller.demand # Null
    /\ LET asked == controller.demand
           given == Larger(Lo, Smaller(Hi, asked))
       IN write' = [value |-> given, requested |-> IF given = asked THEN Null ELSE asked,
                    limit |-> IF asked > Hi THEN "high" ELSE IF asked < Lo THEN "low" ELSE Null]
    /\ UNCHANGED <<rigVars, newestS, sourceT, period, offline, controller, startS, heldVars, face>>

\* onDevices: a run of the source's device.
DeviceRuns ==
    /\ period' \in Periods /\ offline' \in BOOLEAN
    /\ UNCHANGED <<rigVars, newestS, sourceT, controller, write, startS, heldVars, face>>

\* useRigStartS: asked once, when the panel is mounted.
ClockAnswered ==
    /\ startS = NoTime /\ startS' = rigStart
    /\ UNCHANGED <<rigVars, newestS, sourceT, period, offline, controller, write, heldVars, face>>

\* The runner starts anew: a simulated clock too.
RigRestarts ==
    /\ rigStart < MaxStarts /\ rigStart' = rigStart + 1 /\ rigClock' = 0
    /\ UNCHANGED <<newestS, sourceT, period, offline, controller, write, startS, heldVars, face>>

FaceInit ==
    /\ rigClock = 0 /\ rigStart = 1 /\ newestS = NoTime /\ sourceT = NoTime
    /\ period = 0 /\ offline = FALSE /\ write = Null /\ startS = NoTime
    /\ controller = [aim |-> Null, reference |-> Null, moving |-> FALSE, arrived |-> FALSE,
                     setpoint |-> Null, open |-> FALSE,
                     correction |-> 0, demand |-> Null, expected |-> Null]
    /\ heldAge = -1 /\ heldPeriod = 0
    /\ fresh = [period |-> 0, last |-> NoTime, now |-> NoTime]
    /\ face = Face("ok")

FaceNext ==
    \/ Renders \/ ClockMoves \/ Samples \/ ControllerTicks \/ TargetWritten \/ DeviceRuns
    \/ ClockAnswered \/ RigRestarts

FaceSpec == FaceInit /\ [][FaceNext]_faceVars

-----------------------------------------------------------------------------
(* Properties.                                                             *)

\* "Whether a signal is stale": as long as the clock has not started anew, a source
\* half a second past its time is said to be, and one within it is not, whatever the
\* memo was made of.
SaysWhenStale ==
    rigStart = 1 /\ ~offline /\ sourceT # NoTime =>
      /\ newestS - sourceT >= StaleAfter(period) + Second \div 2 => face'.banner = "no recent reading"
      /\ newestS - sourceT <= StaleAfter(period) => face'.banner # "no recent reading"

\* The target row shows the aim, whether the rig resolved it or it was found again
\* from the demand.
ShowsTheAim == face'.target = controller.aim

\* Whichever of the write and the tick is the newer, a limit shown is one the target
\* is at, with more asked of it than it gives.
LimitIsReal == /\ face'.edge = "high" => face'.output = Hi /\ face'.requested > Hi
               /\ face'.edge = "low" => face'.output = Lo /\ face'.requested < Lo

\* A faceplate tells the truth of what the store holds at every render.
FaceIsTrue == [][Renders => SaysWhenStale /\ ShowsTheAim /\ LimitIsReal]_faceVars

\* A signal that was read a moment ago is not stale, though the clock has started anew.
FreshIsFresh == [][Renders /\ sourceT = rigClock /\ ~offline => face'.banner # "no recent reading"]_faceVars

\* "arrives 17:31": counted from the start of the clock the trajectory counts from.
CountsFromTheStart == face.following = "ends" => startS = rigStart
=============================================================================
