-------------------------- MODULE ControllersPage --------------------------
(***************************************************************************)
(* The Controllers page: what the store knows of the rig's controllers     *)
(* (store/telemetry.ts), the page that shows a faceplate for each of them  *)
(* and hides the ones removed from it (pages/Controllers.tsx), and the     *)
(* two controls of a faceplate, each with its own request in flight.       *)
(*                                                                         *)
(* External: the rig, which gives every message a new object for each      *)
(* controller in it, and other clients, which attach, remove, start and    *)
(* stop controllers as well.                                               *)
(***************************************************************************)
EXTENDS Naturals, Sequences, FiniteSets

CONSTANTS Loops,         \* writable signals; a controller has the name of its target
          NoObject,
          MaxObjects,    \* bound: objects the rig ever sends
          MaxAttached    \* bound: controllers ever attached to one signal

ASSUME ControllersBounds ==
    /\ MaxObjects \in Nat /\ MaxAttached \in Nat
    /\ NoObject \notin [name : Loops, stamp : Nat, mode : {"manual", "regulating"}, which : Nat]

VARIABLES attachedAs,    \* name -> which of its controllers is attached; 0 for none
          attachments,   \* name -> how many there have been
          mode,          \* name -> "manual" or "regulating"
          objects,       \* objects sent so far
          frames,        \* the socket: objects on their way, one to a message
          ctlLatest,     \* controllerLatest: name -> object or NoObject
          heard,         \* history: name -> newest object the socket delivered
          ctlSeed,       \* seedControllers: its request's step, and the objects of its answer
          ctlAnswer,
          onPage,
          pageShows,     \* the page's `all`, as last rendered
          removed,       \* name -> the object hidden
          stopping,      \* StopControl: name -> its step
          setting        \* SetpointControl: name -> its request

loopVars == <<attachedAs, attachments, mode, objects>>
storeVars == <<frames, ctlLatest, heard, ctlSeed, ctlAnswer>>
sheetVars == <<onPage, pageShows, removed, stopping, setting>>
controllersVars == <<attachedAs, attachments, mode, objects, frames, ctlLatest, heard, ctlSeed,
                     ctlAnswer, onPage, pageShows, removed, stopping, setting>>

NoMap == [n \in Loops |-> NoObject]
Idle == [n \in Loops |-> "idle"]
Stamp(o) == IF o = NoObject THEN 0 ELSE o.stamp

ControllersInit ==
    /\ attachedAs \in [Loops -> {0, 1}] /\ attachments = attachedAs
    /\ mode = [n \in Loops |-> "manual"] /\ objects = 0
    /\ frames = <<>> /\ ctlLatest = NoMap /\ heard = [n \in Loops |-> 0] /\ ctlSeed = "none" /\ ctlAnswer = {}
    /\ onPage = TRUE /\ pageShows = NoMap /\ removed = NoMap /\ stopping = Idle /\ setting = Idle

ObjectOf(n) == [name |-> n, stamp |-> objects + 1, mode |-> mode[n], which |-> attachedAs[n]]

(* A controller ticks, or the socket connects: a message with its object.  *)
Ticks == \E n \in Loops :
    /\ attachedAs[n] # 0 /\ objects < MaxObjects
    /\ objects' = objects + 1
    /\ frames' = Append(frames, ObjectOf(n))
    /\ UNCHANGED <<attachedAs, attachments, mode, ctlLatest, heard, ctlSeed, ctlAnswer, sheetVars>>

(* Another client attaches, removes, starts or stops a controller.         *)
Attach(n) ==
    /\ attachedAs[n] = 0 /\ attachments[n] < MaxAttached
    /\ attachments' = [attachments EXCEPT ![n] = @ + 1]
    /\ attachedAs' = [attachedAs EXCEPT ![n] = attachments[n] + 1]
    /\ mode' = [mode EXCEPT ![n] = "manual"]
Switch(n, to) ==
    /\ mode' = [mode EXCEPT ![n] = IF attachedAs[n] # 0 THEN to ELSE @]
    /\ UNCHANGED <<attachedAs, attachments>>
OtherClient ==
    /\ \E n \in Loops :
         \/ Attach(n)
         \/ attachedAs[n] # 0 /\ \E to \in {"manual", "regulating"} : to # mode[n] /\ Switch(n, to)
    /\ UNCHANGED <<objects, storeVars, sheetVars>>

(* onControllers: the newest message wins, and no name is ever dropped.    *)
OnControllers ==
    /\ frames # <<>>
    /\ LET o == Head(frames) IN
         /\ ctlLatest' = [ctlLatest EXCEPT ![o.name] = o]
         /\ heard' = [heard EXCEPT ![o.name] = o.stamp]
    /\ frames' = Tail(frames)
    /\ UNCHANGED <<loopVars, ctlSeed, ctlAnswer, sheetVars>>

(* seedControllers: asked when a component mounts; read at the rig, then   *)
(* landing, where only the controllers the store has not heard of are new. *)
SeedControllers ==
    /\ ctlSeed = "none" /\ onPage
    /\ ctlSeed' = "asked"
    /\ UNCHANGED <<loopVars, frames, ctlLatest, heard, ctlAnswer, sheetVars>>
SeedReads ==
    /\ ctlSeed = "asked" /\ objects < MaxObjects
    /\ objects' = objects + 1
    /\ ctlSeed' = "answered"
    /\ ctlAnswer' = {ObjectOf(n) : n \in {m \in Loops : attachedAs[m] # 0}}
    /\ UNCHANGED <<attachedAs, attachments, mode, frames, ctlLatest, heard, sheetVars>>
\* The answer put over what the socket has delivered.
AnswerAsItIs(answer) == answer

FreshOf(answer) == {o \in answer : ctlLatest[o.name] = NoObject}
SeedControllersLand ==
    /\ ctlSeed = "answered"
    /\ ctlLatest' = [n \in Loops |-> IF \E o \in FreshOf(ctlAnswer) : o.name = n
                                     THEN CHOOSE o \in FreshOf(ctlAnswer) : o.name = n
                                     ELSE ctlLatest[n]]
    /\ ctlSeed' = "none" /\ ctlAnswer' = {}
    /\ UNCHANGED <<loopVars, frames, heard, sheetVars>>

-----------------------------------------------------------------------------
(* controllerOf: what the page shows for a signal.                         *)
ControllerOf(all, gone, n) == IF all[n] # NoObject /\ gone[n] # all[n] THEN all[n] ELSE NoObject
Shows(n) == ControllerOf(pageShows, removed, n)

(* A flush wakes the hook and the page renders what the store holds.       *)
RendersControllers ==
    /\ onPage /\ pageShows # ctlLatest
    /\ pageShows' = ctlLatest
    /\ UNCHANGED <<loopVars, storeVars, onPage, removed, stopping, setting>>

(* Another page, and back: the page's own state starts anew, the store's   *)
(* does not. What is in flight lands on a page that is gone.               *)
LeavesPage ==
    /\ onPage /\ onPage' = FALSE
    /\ pageShows' = NoMap /\ removed' = NoMap /\ stopping' = Idle /\ setting' = Idle
    /\ UNCHANGED <<loopVars, storeVars>>
EntersPage ==
    /\ ~onPage /\ onPage' = TRUE /\ pageShows' = ctlLatest
    /\ UNCHANGED <<loopVars, storeVars, removed, stopping, setting>>

(* StopControl: Stop unless it shows manual; Remove asks first. Its busy   *)
(* holds both back while a request is in flight.                           *)
Step(n, from, to) == stopping[n] = from /\ stopping' = [stopping EXCEPT ![n] = to]
PressesStop == \E n \in Loops :
    /\ Shows(n) # NoObject /\ Shows(n).mode # "manual"
    /\ Step(n, "idle", "stop")
    /\ UNCHANGED <<loopVars, storeVars, onPage, pageShows, removed, setting>>
AsksToRemove == \E n \in Loops :
    /\ Shows(n) # NoObject
    /\ Step(n, "idle", "confirm")
    /\ UNCHANGED <<loopVars, storeVars, onPage, pageShows, removed, setting>>
ThinksAgain == \E n \in Loops :
    /\ Step(n, "confirm", "idle")
    /\ UNCHANGED <<loopVars, storeVars, onPage, pageShows, removed, setting>>
ConfirmsRemove == \E n \in Loops :
    /\ Step(n, "confirm", "detach")
    /\ UNCHANGED <<loopVars, storeVars, onPage, pageShows, removed, setting>>

(* The rig obeys, or refuses a name with no controller.                    *)
RigStops == \E n \in Loops :
    /\ Step(n, "stop", IF attachedAs[n] # 0 THEN "stopped" ELSE "refused")
    /\ Switch(n, "manual")
    /\ UNCHANGED <<objects, storeVars, onPage, pageShows, removed, setting>>
RigDetaches == \E n \in Loops :
    /\ Step(n, "detach", IF attachedAs[n] # 0 THEN "detached" ELSE "refused")
    /\ attachedAs' = [attachedAs EXCEPT ![n] = 0]
    /\ UNCHANGED <<attachments, mode, objects, storeVars, onPage, pageShows, removed, setting>>

(* The answer: an object that was rendered is hidden, and the page renders *)
(* with what the store holds now.                                          *)
Gone(n) == pageShows[n]
StopAnswered == \E n \in Loops :
    /\ stopping[n] \in {"stopped", "detached", "refused"}
    /\ stopping' = [stopping EXCEPT ![n] = "idle"]
    /\ removed' = IF stopping[n] = "detached" THEN [removed EXCEPT ![n] = Gone(n)] ELSE removed
    /\ pageShows' = ctlLatest
    /\ UNCHANGED <<loopVars, storeVars, onPage, setting>>

(* SetpointControl: by the mode it was rendered with, a new target for the *)
(* law that runs or a start of the law at that target.                     *)
Send(n) == IF Shows(n).mode = "regulating" THEN "reference" ELSE "regulate"
SendsTarget == \E n \in Loops :
    /\ Shows(n) # NoObject /\ setting[n] = "idle"
    /\ setting' = [setting EXCEPT ![n] = Send(n)]
    /\ UNCHANGED <<loopVars, storeVars, onPage, pageShows, removed, stopping>>

(* The rig takes a target in either mode; regulate starts the law.         *)
RigTakesTarget == \E n \in Loops :
    /\ setting[n] \in {"reference", "regulate"}
    /\ setting' = [setting EXCEPT ![n] = "answered"]
    /\ Switch(n, IF setting[n] = "regulate" THEN "regulating" ELSE mode[n])
    /\ UNCHANGED <<objects, storeVars, onPage, pageShows, removed, stopping>>
SetAnswered == \E n \in Loops :
    /\ setting[n] = "answered"
    /\ setting' = [setting EXCEPT ![n] = "idle"]
    /\ UNCHANGED <<loopVars, storeVars, onPage, pageShows, removed, stopping>>

ControllersNext ==
    \/ Ticks \/ OtherClient \/ OnControllers
    \/ SeedControllers \/ SeedReads \/ SeedControllersLand
    \/ RendersControllers \/ LeavesPage \/ EntersPage
    \/ PressesStop \/ AsksToRemove \/ ThinksAgain \/ ConfirmsRemove
    \/ RigStops \/ RigDetaches \/ StopAnswered
    \/ SendsTarget \/ RigTakesTarget \/ SetAnswered

ControllersSpec == ControllersInit /\ [][ControllersNext]_controllersVars

-----------------------------------------------------------------------------
(* The request that seeds the store and the socket that feeds it race, but *)
(* what the socket has delivered is never replaced by an older answer.     *)
SocketWins == \A n \in Loops : Stamp(ctlLatest[n]) >= heard[n]

(* "hide one we detached until the stream sends a new object for that name *)
(* (re-created)" (Controllers.tsx:748): with no controller attached and    *)
(* nothing in flight, a controller that was removed here is not shown.     *)
DetachedIsHidden ==
    [][ \A n \in Loops :
          Shows(n) = NoObject /\ attachedAs[n] = 0 /\ removed[n] # NoObject
          => \/ attachedAs'[n] # 0
             \/ ~onPage'
             \/ Shows(n)' = NoObject ]_controllersVars
=============================================================================
