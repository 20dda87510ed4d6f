--------------------------- MODULE ProgramBuilder ---------------------------
(***************************************************************************)
(* The structured half of the program editor (pages/ProgramBuilder.tsx)    *)
(* over the tree spelling of a program (programDoc.ts).  The tree belongs  *)
(* to the page: every edit hands a whole new list of steps out.  A step    *)
(* is dragged by its index, read when the drag starts and used when it     *)
(* ends, while the text beside the builder may replace the tree.           *)
(*                                                                         *)
(* A step is the command it names, that command's arguments (a function on *)
(* the keys the file gives) and the modifiers beside it.  Three commands   *)
(* of the dialect stand for all: one that picks a device and its command,  *)
(* one that picks a device and values, one with a composite time field.    *)
(***************************************************************************)
EXTENDS Naturals, Sequences, FiniteSets, Functions

CONSTANTS Steps,       \* the steps a file may give, among those of Step
          Rig,         \* the names of the rig's devices
          Blank,       \* the empty string of a field
          MaxSteps     \* bound: the length of a program

ASSUME BuilderBounds == MaxSteps \in Nat

VARIABLES steps,       \* tree.steps
          dragged,     \* the index a drag under way carries; 0 for none
          crashed      \* a card was rendered for no step at all

builderVars == <<steps, dragged, crashed>>

Commands == {"command", "set", "ramp"}

(* The keys of a command's arguments, and those that spell its composite   *)
(* time field: the field itself and its flat spellings.                    *)
Keys(tag) == CASE tag = "command" -> {"device", "device_command", "args"}
               [] tag = "set" -> {"device", "values"}
               [] tag = "ramp" -> {"to", "pace", "per_minute", "per_second"}

TimeKeys(tag) == IF tag = "ramp" THEN {"pace", "per_minute", "per_second"} ELSE {}

Without(args, keys) == Restrict(args, DOMAIN args \ keys)
With(args, key, v) == [k \in DOMAIN args \cup {key} |-> IF k = key THEN v ELSE args[k]]

NewStep(tag) == [tag |-> tag, args |-> [k \in {} |-> Blank], mods |-> {}]
NoStep == [tag |-> "", args |-> [k \in {} |-> Blank], mods |-> {}]

(* The form of a step holds its arguments but those of the time field.     *)
ToForm(step) == Without(step.args, TimeKeys(step.tag))

(* What the form's data says in the file: an empty field says nothing.     *)
FromForm(data) == Restrict(data, {k \in DOMAIN data : data[k] # Blank})

(* A new device clears the command, its arguments and the values; a new    *)
(* command its arguments.                                                  *)
Value(args, k) == IF k \in DOMAIN args THEN args[k] ELSE Blank
OnDeviceChange(args, before) ==
    CASE Value(args, "device") # Value(before, "device") ->
           Without(args, {"device_command", "args", "values"})
      [] Value(args, "device") = Value(before, "device")
           /\ Value(args, "device_command") # Value(before, "device_command") ->
           Without(args, {"args"})
      [] OTHER -> args

(* The composite time field said one way: key with v, or not at all.       *)
WithTime(step, key, v) ==
    LET cleared == Without(step.args, TimeKeys(step.tag))
    IN [step EXCEPT !.args = IF v = Blank THEN cleared ELSE With(cleared, key, v)]

(* A step turned to another command: the arguments both have are kept.     *)
Retarget(step, tag) ==
    [tag |-> tag, args |-> Restrict(step.args, DOMAIN step.args \cap Keys(tag)), mods |-> step.mods]

(* The devices and commands a pick offers: those of the rig, and the saved *)
(* one whether or not the rig has it.                                      *)
Picks(step, k) ==
    CASE k = "device" -> Rig \cup ({Value(step.args, k)} \ {Blank}) \cup {Blank}
      [] OTHER -> {1, 2, Blank}

-----------------------------------------------------------------------------
InsertStep(at, step) == SubSeq(steps, 1, at - 1) \o <<step>> \o SubSeq(steps, at, Len(steps))
\* The step after it removed in its place.
DroppedNext(i) == SubSeq(steps, 1, i) \o SubSeq(steps, i + 2, Len(steps))

Dropped(i) == IF i \in DOMAIN steps THEN SubSeq(steps, 1, i - 1) \o SubSeq(steps, i + 1, Len(steps))
              ELSE steps

(* The step at from, put before the one at to (gaps count from 1); a gap   *)
(* beside the step itself changes nothing.                                 *)
Moved(from, to) ==
    LET rest == Dropped(from)
        at == IF to > from THEN to - 1 ELSE to
        step == IF from \in DOMAIN steps THEN steps[from] ELSE NoStep
    IN IF to \in {from, from + 1} THEN steps
       ELSE SubSeq(rest, 1, at - 1) \o <<step>> \o SubSeq(rest, at, Len(rest))

Change(next) == steps' = next /\ crashed' = (\E i \in DOMAIN next : next[i] = NoStep)

(* The palette's chip, the menus that add a step, the button to duplicate. *)
Inserts == \E at \in 1..Len(steps) + 1, tag \in Commands :
    /\ Len(steps) < MaxSteps
    /\ Change(InsertStep(at, NewStep(tag)))
    /\ UNCHANGED dragged

Duplicates == \E i \in DOMAIN steps :
    /\ Len(steps) < MaxSteps
    /\ Change(InsertStep(i + 1, steps[i]))
    /\ UNCHANGED dragged

Deletes == \E i \in DOMAIN steps : Change(Dropped(i)) /\ UNCHANGED dragged

MovesByButton == \E i \in DOMAIN steps :
    /\ \/ i > 1 /\ Change(Moved(i, i - 1))
       \/ i < Len(steps) /\ Change(Moved(i, i + 2))
    /\ UNCHANGED dragged

(* A card's handle is dragged; it is dropped at a gap of the list, or let  *)
(* go of outside.                                                          *)
DragStart == \E i \in DOMAIN steps :
    dragged = 0 /\ dragged' = i /\ UNCHANGED <<steps, crashed>>

Drop == \E to \in 1..Len(steps) + 1 :
    /\ dragged # 0
    /\ Change(Moved(dragged, to))
    /\ dragged' = 0

DragEnd == dragged # 0 /\ dragged' = 0 /\ UNCHANGED <<steps, crashed>>

(* A step's arguments after one field of its form was edited: the form's    *)
(* data is read back, what hung on a device or command that changed is     *)
(* cleared, and the time keys are carried over as they are.                *)
ArgsWith(step, k, v) ==
    LET args == FromForm(With(ToForm(step), k, v))
        kept == IF step.tag \in {"command", "set"} THEN OnDeviceChange(args, FromForm(ToForm(step)))
                ELSE args
        time == Restrict(step.args, DOMAIN step.args \cap TimeKeys(step.tag))
    IN [a \in DOMAIN kept \cup DOMAIN time |-> IF a \in DOMAIN time THEN time[a] ELSE kept[a]]

OnArgs == \E i \in DOMAIN steps : \E k \in Keys(steps[i].tag) \ TimeKeys(steps[i].tag) :
    \E v \in Picks(steps[i], k) :
        /\ FromForm(With(ToForm(steps[i]), k, v)) # FromForm(ToForm(steps[i]))
        /\ Change([steps EXCEPT ![i].args = ArgsWith(steps[i], k, v)])
        /\ UNCHANGED dragged

(* The time control: one spelling, a number in the unit picked; of several *)
(* the file gives it shows them all, and the one to keep is picked.        *)
OnTime == \E i \in DOMAIN steps : \E key \in TimeKeys(steps[i].tag), v \in {1, Blank} :
    /\ LET said == DOMAIN steps[i].args \cap TimeKeys(steps[i].tag)
       IN Cardinality(said) > 1 => key \in said /\ v = steps[i].args[key]
    /\ Change([steps EXCEPT ![i] = WithTime(steps[i], key, v)])
    /\ UNCHANGED dragged

OnCommand == \E i \in DOMAIN steps : \E tag \in Commands \ {steps[i].tag} :
    /\ Change([steps EXCEPT ![i] = Retarget(steps[i], tag)])
    /\ UNCHANGED dragged

OnModifier == \E i \in DOMAIN steps :
    /\ \/ Change([steps EXCEPT ![i].mods = @ \cup {"m"}])
       \/ Change([steps EXCEPT ![i].mods = @ \ {"m"}])
    /\ UNCHANGED dragged

(* The text beside the builder, parsed: another tree altogether.           *)
TextReplaces == \E n \in 0..MaxSteps : \E next \in [1..n -> Steps] :
    Change(next) /\ UNCHANGED dragged

BuilderInit == (\E n \in 0..MaxSteps : steps \in [1..n -> Steps]) /\ dragged = 0 /\ crashed = FALSE

(* A step that is no step breaks the page at its render: nothing follows.  *)
BuilderNext ==
    /\ ~crashed
    /\ \/ Inserts \/ Duplicates \/ Deletes \/ MovesByButton
       \/ DragStart \/ Drop \/ DragEnd
       \/ OnArgs \/ OnTime \/ OnCommand \/ OnModifier \/ TextReplaces

BuilderSpec == BuilderInit /\ [][BuilderNext]_builderVars

-----------------------------------------------------------------------------
Count(s, x) == Cardinality({i \in DOMAIN s : s[i] = x})
Permuted == \A x \in Range(steps) \cup Range(steps') : Count(steps, x) = Count(steps', x)
Unlike == {i \in DOMAIN steps : i \notin DOMAIN steps' \/ steps'[i] # steps[i]}

(* The one step an edit in place changed.                                  *)
EditedAlone(i) == Len(steps') = Len(steps) /\ Unlike = {i}

(* No step is lost or said twice by a drag or by the buttons that move     *)
(* one: the steps are the same in another order, whatever text replaced    *)
(* the tree while the handle was held. (An index past the end of a shorter *)
(* text breaks the page.)                                                  *)
DragsKeepSteps ==
    [][ (Drop \/ MovesByButton) => crashed' \/ (Len(steps') = Len(steps) /\ Permuted) ]_builderVars

(* What a step said of one device is not left to be said of another: the   *)
(* arguments and values of a step whose device changed are gone.           *)
NothingOfTheOldDevice ==
    [][ \A i \in DOMAIN steps :
          /\ EditedAlone(i) /\ steps[i].tag = steps'[i].tag
          /\ Value(steps[i].args, "device") # Value(steps'[i].args, "device")
          => DOMAIN steps'[i].args \subseteq {"device"} \/ TextReplaces ]_builderVars

(* An edit of a step's arguments keeps the time it says, in the spelling   *)
(* of the file, and its modifiers; and an edit of its time never leaves    *)
(* two spellings of it.                                                    *)
Times(s) == Restrict(s.args, DOMAIN s.args \cap TimeKeys(s.tag))
Plain(s) == Without(s.args, TimeKeys(s.tag))
TimeIsSaidOnce ==
    [][ \A i \in DOMAIN steps :
          /\ EditedAlone(i) /\ steps[i].tag = steps'[i].tag
          => \/ Times(steps'[i]) = Times(steps[i])
             \/ /\ Cardinality(DOMAIN Times(steps'[i])) <= 1
                /\ Plain(steps'[i]) = Plain(steps[i]) /\ steps'[i].mods = steps[i].mods
             \/ TextReplaces ]_builderVars
=============================================================================
