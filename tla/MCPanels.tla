------------------------------ MODULE MCPanels ------------------------------
(* What a page draws and takes: the history of its signals, playback, its   *)
(* charts, its controllers, the rig's configuration, a program's steps, the *)
(* dashboard being edited. An initial state picks one part; the others      *)
(* stand still.                                                             *)
EXTENDS Seeding, Playback, Charts, ControllersPage, RigConfig, ProgramBuilder, DashboardEditor

CONSTANTS a, b

VARIABLE part

panelVars == <<part, seedVars, playbackVars, chartVars, controllersVars, configVars, builderVars,
               boardVars>>

\* Where a part that stands still could be one thing or another, it is this.
Resting ==
    /\ part # "seeding" => recordings = <<>>
    /\ part # "charts" => ~storeFed /\ ~sparkline /\ ~inView /\ wantedY = "auto"
    /\ part # "controllers" => attachedAs = [n \in Loops |-> 0]
    /\ part # "config" => ~rig.link
    /\ part # "builder" => steps = <<>>

PanelsInit ==
    /\ part \in {"seeding", "playback", "charts", "controllers", "config", "builder", "dashboards"}
    /\ SeedInit /\ PlaybackInit /\ ChartsInit /\ ControllersInit /\ ConfigInit /\ BuilderInit
    /\ DashboardInit
    /\ Resting

PanelsNext ==
    /\ part' = part
    /\ IF part = "seeding" THEN SeedNext ELSE UNCHANGED seedVars
    /\ IF part = "playback" THEN PlaybackNext ELSE UNCHANGED playbackVars
    /\ IF part = "charts" THEN ChartsNext ELSE UNCHANGED chartVars
    /\ IF part = "controllers" THEN ControllersNext ELSE UNCHANGED controllersVars
    /\ IF part = "config" THEN ConfigNext ELSE UNCHANGED configVars
    /\ IF part = "builder" THEN BuilderNext ELSE UNCHANGED builderVars
    \* What follows an answer for a page that was left is not looked at.
    /\ IF part = "dashboards" THEN ~strayed /\ DashboardNext ELSE UNCHANGED boardVars

PanelsSpec == PanelsInit /\ [][PanelsNext]_panelVars

\* The rig's recordings: none; a scratch; some that ended before or after the page was
\* opened, one without the signals; one of a clock that ran further before it restarted.
Recorded(start, end, current, scratch, declared) ==
    [start |-> start, end |-> end, current |-> current, scratch |-> scratch, declared |-> declared]
SomeRecordings ==
    {<<>>,
     <<Recorded(3, -1, FALSE, TRUE, TRUE), Recorded(0, 2, FALSE, FALSE, TRUE)>>,
     <<Recorded(3, -1, TRUE, FALSE, TRUE), Recorded(2, -1, FALSE, FALSE, TRUE), Recorded(0, 2, FALSE, FALSE, TRUE)>>,
     <<Recorded(2, -1, TRUE, FALSE, TRUE), Recorded(1, 3, FALSE, FALSE, TRUE), Recorded(0, 1, FALSE, FALSE, FALSE)>>,
     <<Recorded(2, -1, TRUE, FALSE, TRUE), Recorded(4, 6, FALSE, FALSE, TRUE), Recorded(0, 2, FALSE, FALSE, TRUE)>>}

TwoStarts == <<0, 2>>

\* Two units, one target of the first.
TwoUnits == [t1 |-> "V", s1 |-> "V", s2 |-> "K"]

\* A command of a device, a ramp whose fields were left, a ramp with a pace and a rate.
StepOf(tag, args) == [tag |-> tag, args |-> args, mods |-> {}]
SomeSteps ==
    {StepOf("command", [device |-> "d", device_command |-> 1, args |-> 1]),
     StepOf("ramp", [to |-> Blank, pace |-> 1]),
     StepOf("ramp", [to |-> 1, pace |-> 1, per_minute |-> 1])}
=============================================================================
