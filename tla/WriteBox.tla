------------------------------ MODULE WriteBox ------------------------------
(***************************************************************************)
(* What a writable signal is set with: the entry of its panel              *)
(* (react/src/panels/WritePanel.tsx), seeded with what the signal was last *)
(* set to and typed over, and the form of a command with an argument       *)
(* linked to it (CommandForm.tsx), filled in once, when it is mounted.     *)
(*                                                                         *)
(* The rig is external: a controller is attached to the signal or not, and *)
(* every commit says what the signal was set to and who held it then. The  *)
(* page hears of commits with the samples, and of controllers on a socket  *)
(* of their own; it never hears of one that was detached.                  *)
(*                                                                         *)
(* Bounds: Levels a signal may be set to, MaxMoves changes at the rig.     *)
(***************************************************************************)
EXTENDS Integers

CONSTANTS Levels,    \* what the signal may be set to
          Precise,   \* a level -> the level its text at the signal's precision says
          Empty,     \* nothing typed, nothing known
          MaxMoves

ASSUME BoxBounds == /\ Empty \notin Levels /\ Levels # {} /\ MaxMoves \in Nat
                    /\ Precise \in [Levels -> Levels]
                    /\ \A v \in Levels : Precise[Precise[v]] = Precise[v]

VARIABLES attachedTo,   \* the rig's: a controller is attached to the signal
          committed,    \* the rig's: the last commit, [value, by]; of no value before one
          measured,     \* the rig's: what it reads
          moves,        \* changes at the rig so far
          write,        \* the write state the panel has: live, else as the device list gave it
          reading,      \* the last reading the panel has
          attached,     \* the store has a controller of this name
          boxText,      \* the entry
          seededFor,    \* who held the signal when the entry was seeded; "no one" before that
          sending,      \* the demand under way, or Empty: busy
          typed,        \* history: the entry is as it was typed
          formArg,      \* the command form's argument
          formOpen

rigSide == <<attachedTo, committed, measured, moves>>
boxVars == <<boxText, seededFor, sending, typed>>
formVars == <<formArg, formOpen>>
writeBoxVars == <<rigSide, write, reading, attached, boxVars, formVars>>

NoWrite == [value |-> Empty, by |-> "hand"]
Writes == [value : Levels, by : {"hand", "controller"}] \cup {NoWrite}

WriteBoxTypeOK ==
    /\ {committed, write} \subseteq Writes
    /\ {measured, reading, boxText, sending, formArg} \subseteq Levels \cup {Empty}
    /\ seededFor \in {"no one", "hand", "controller"}

-----------------------------------------------------------------------------
(* The entry is seeded with the committed value, else the last reading,    *)
(* once one is known, and again after the signal changes hands: the effect *)
(* that follows a render with the write state and the reading it shows.    *)
SeedValue(w, r) == IF w.value # Empty THEN w.value ELSE r
\* The effect without its ref: every commit seeds the entry.
ReseedsAlways(w, r) == SeedValue(w, r) # Empty

Reseeds(w, r) == seededFor # w.by /\ SeedValue(w, r) # Empty
Seeded(w, r) ==
    IF Reseeds(w, r)
    THEN boxText' = Precise[SeedValue(w, r)] /\ seededFor' = w.by /\ typed' = FALSE
    ELSE UNCHANGED <<boxText, seededFor, typed>>

(* A controller is attached, or drove the last write: nothing to type into.*)
Driven == attached \/ write.by = "controller"

WriteBoxInit ==
    /\ attachedTo \in BOOLEAN /\ measured \in Levels \cup {Empty} /\ moves = 0
    /\ committed \in {NoWrite, [value |-> CHOOSE v \in Levels : TRUE, by |-> "hand"]}
    /\ write \in {NoWrite, committed} /\ reading \in {Empty, measured} /\ attached = FALSE
    /\ boxText = Empty /\ seededFor = "no one" /\ sending = Empty /\ typed = FALSE
    /\ formArg = Empty /\ formOpen = FALSE

-----------------------------------------------------------------------------
(* The rig.                                                                *)
RigAttaches ==
    /\ moves < MaxMoves /\ moves' = moves + 1
    /\ attachedTo' = ~attachedTo
    /\ UNCHANGED <<committed, measured, write, reading, attached, boxVars, formVars>>

RigCommits == \E v \in Levels :
    /\ moves < MaxMoves /\ moves' = moves + 1
    /\ committed' = [value |-> v, by |-> IF attachedTo THEN "controller" ELSE "hand"]
    /\ measured' = v
    /\ UNCHANGED <<attachedTo, write, reading, attached, boxVars, formVars>>

\* Samples, with the write record that rides on them.
SamplesReachBox ==
    /\ <<write, reading>> # <<committed, measured>>
    /\ write' = committed /\ reading' = measured
    /\ Seeded(committed, measured)
    /\ UNCHANGED <<rigSide, attached, sending, formVars>>

ControllersReachBox ==
    /\ attachedTo /\ ~attached /\ attached' = TRUE
    /\ UNCHANGED <<rigSide, write, reading, boxVars, formVars>>

\* What the panel was mounted with is known already: the first effect.
FirstRender ==
    /\ Reseeds(write, reading)
    /\ Seeded(write, reading)
    /\ UNCHANGED <<rigSide, write, reading, attached, sending, formVars>>

-----------------------------------------------------------------------------
(* The user. The box is disabled while a demand is under way.              *)
TypesDemand == \E v \in {Precise[l] : l \in Levels} \cup {Empty} :
    /\ ~Driven /\ sending = Empty
    /\ boxText' = v /\ typed' = TRUE
    /\ UNCHANGED <<rigSide, write, reading, attached, seededFor, sending, formVars>>

SetsDemand ==
    /\ ~Driven /\ sending = Empty /\ boxText # Empty
    /\ sending' = boxText
    /\ UNCHANGED <<rigSide, write, reading, attached, boxText, seededFor, typed, formVars>>

\* The rig refuses a demand by hand while a controller is attached, and may fail one.
DemandAnswered == \E ok \in BOOLEAN :
    /\ sending # Empty /\ sending' = Empty
    /\ ok => ~attachedTo
    /\ IF ok THEN committed' = [value |-> sending, by |-> "hand"] /\ measured' = sending
       ELSE UNCHANGED <<committed, measured>>
    /\ UNCHANGED <<attachedTo, moves, write, reading, attached, boxText, seededFor, typed, formVars>>

(* The command's form takes the store's value as it is mounted.            *)
OpensForm ==
    /\ ~formOpen /\ formOpen' = TRUE /\ formArg' = reading
    /\ UNCHANGED <<rigSide, write, reading, attached, boxVars>>

TypesArgument == \E v \in Levels \cup {Empty} :
    /\ formOpen /\ formArg' = v
    /\ UNCHANGED <<rigSide, write, reading, attached, boxVars, formOpen>>

\* An argument left blank keeps the signal where it is; the command interrupts a controller.
RunsCommand ==
    /\ formOpen
    /\ IF formArg = Empty THEN UNCHANGED <<attachedTo, committed, measured>>
       ELSE /\ committed' = [value |-> formArg, by |-> "hand"] /\ measured' = formArg
            /\ attachedTo' = FALSE
    /\ UNCHANGED <<moves, write, reading, attached, boxVars, formVars>>

\* The panel of the device is left: what was typed goes with it.
LeavesForm ==
    /\ formOpen /\ formOpen' = FALSE /\ formArg' = Empty
    /\ UNCHANGED <<rigSide, write, reading, attached, boxVars>>

WriteBoxNext ==
    \/ RigAttaches \/ RigCommits \/ SamplesReachBox \/ ControllersReachBox \/ FirstRender
    \/ TypesDemand \/ SetsDemand \/ DemandAnswered
    \/ OpensForm \/ TypesArgument \/ RunsCommand \/ LeavesForm

WriteBoxSpec == WriteBoxInit /\ [][WriteBoxNext]_writeBoxVars

-----------------------------------------------------------------------------
(* "Typing afterwards is never overwritten by a readback": what was typed  *)
(* in a seeded box stays until it is typed over, whatever is committed and *)
(* read meanwhile, unless the signal changes hands.                        *)
TypedStays ==
    [][ (typed /\ seededFor # "no one" /\ ~TypesDemand) => (boxText' = boxText \/ write'.by # write.by)
      ]_writeBoxVars

(* A signal no controller holds can be set, once the page has heard all    *)
(* there is to hear.                                                       *)
FreeCanBeSet ==
    ~attachedTo /\ write = committed /\ reading = measured => ~Driven
=============================================================================
