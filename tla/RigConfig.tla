----------------------------- MODULE RigConfig -----------------------------
(***************************************************************************)
(* The Config page (pages/Rig.tsx) with the dialogs it opens: a device and *)
(* a link (pages/Devices.tsx), and the controller's stepper                *)
(* (pages/Controllers.tsx). The page shows what it fetched of the running  *)
(* rig, changes it one request at a time, and asks again after a change.   *)
(* A dialog is modal: one is open at a time.                               *)
(*                                                                         *)
(* External: the rig, here one device on one link, one controller at most, *)
(* and its versions; it refuses what cannot be done.                       *)
(***************************************************************************)
EXTENDS Naturals, Sequences, FiniteSets

CONSTANTS Drivers,       \* of a device
          Targets,       \* writable signals
          Sources,       \* publishing signals
          UnitOf,        \* of each of them
          Unset,
          MaxRigs        \* bound: versions of the rig

ASSUME ConfigBounds == Unset \notin {"setpoint", "none"}

VARIABLES rig,           \* [device, link, target, source]: what runs
          versions,      \* the rig as it was after each change
          schemaDoc,     \* controllerSchema as fetched: the target driven and source regulated
          shownDoc,      \* the running document as fetched
          shownVersions, \* how many versions the list shows
          fetching,      \* queries asked again and not answered
          openDialog,    \* what is open
          request,       \* its request: "none", "sent", "done" or "refused"
          restoring,     \* the version asked about
          driver, config, formData,   \* the device's dialog; fields by the driver they belong to
          draft          \* the controller's: [target, source, lawReady, feedforward]

configVars == <<rig, versions, schemaDoc, shownDoc, shownVersions, fetching, openDialog, request,
                restoring, driver, config, formData, draft>>
shownVars == <<schemaDoc, shownDoc, shownVersions>>
deviceForm == <<driver, config, formData>>

EmptyDraft == [target |-> Unset, source |-> Unset, lawReady |-> TRUE, feedforward |-> Unset]
Queries == {"document", "versions", "schema"}

ConfigInit ==
    /\ \/ rig = [device |-> Unset, link |-> FALSE, target |-> Unset, source |-> Unset]
       \/ \E d \in Drivers, t \in Targets, s \in Sources :
             rig = [device |-> d, link |-> TRUE, target |-> t, source |-> s]
    /\ versions = <<rig>>
    /\ schemaDoc = Unset /\ shownDoc = Unset /\ shownVersions = 0 /\ fetching = Queries
    /\ openDialog = "none" /\ request = "none" /\ restoring = 0
    /\ driver = Unset /\ config = {} /\ formData = {} /\ draft = EmptyDraft

(* A query lands with what the rig is by then; the document is polled.   *)
QueryLands == \E q \in fetching :
    /\ fetching' = fetching \ {q}
    /\ schemaDoc' = IF q = "schema" THEN rig ELSE schemaDoc
    /\ shownDoc' = IF q = "document" THEN rig ELSE shownDoc
    /\ shownVersions' = IF q = "versions" THEN Len(versions) ELSE shownVersions
    /\ UNCHANGED <<rig, versions, openDialog, request, restoring, deviceForm, draft>>
Polls ==
    /\ "document" \notin fetching
    /\ fetching' = fetching \union {"document"}
    /\ UNCHANGED <<rig, versions, shownVars, openDialog, request, restoring, deviceForm, draft>>

(* A change makes a version.                                               *)
Becomes(next) ==
    /\ rig' = next
    /\ versions' = Append(versions, next)
RoomForVersion == Len(versions) < MaxRigs
OpensDialog(d) ==
    /\ openDialog = "none" /\ openDialog' = d
    /\ UNCHANGED <<rig, versions, shownVars, fetching, request, deviceForm, draft>>

(* The buttons: Add always; Remove on what the document shows; Restore on  *)
(* a version that is not the head.                                         *)
OpensAdd == /\ \E d \in {"device", "link", "controller"} : OpensDialog(d)
            /\ UNCHANGED restoring
OpensRemove ==
    /\ shownDoc # Unset
    /\ \/ shownDoc.device # Unset /\ OpensDialog("removeDevice")
       \/ shownDoc.link /\ OpensDialog("removeLink")
       \/ shownDoc.target # Unset /\ OpensDialog("removeController")
    /\ UNCHANGED restoring
OpensRestore == \E v \in 1..shownVersions - 1 : OpensDialog("restore") /\ restoring' = v

(* Closing: not while busy; the device's dialog forgets what was entered,  *)
(* the controller's does not.                                              *)
ResetsDevice == driver' = Unset /\ config' = {} /\ formData' = {}
Closes ==
    /\ openDialog # "none" /\ request = "none"
    /\ openDialog' = "none" /\ restoring' = 0
    /\ IF openDialog = "device" THEN ResetsDevice ELSE UNCHANGED deviceForm
    /\ UNCHANGED <<rig, versions, shownVars, fetching, request, draft>>

(* AddDeviceDialog: the driver chosen empties the config. The form under   *)
(* it stays mounted, with its own copy of the data, and may report it at   *)
(* once, with the new driver's defaults filled in.                         *)
KeptByForm(d) == IF driver = Unset THEN {} ELSE formData
ChoosesDriver == \E d \in Drivers \ {driver}, fills \in BOOLEAN :
    /\ openDialog = "device" /\ request = "none"
    /\ driver' = d
    /\ formData' = KeptByForm(d) \union (IF fills THEN {d} ELSE {})
    /\ config' = IF fills THEN formData' ELSE {}
    /\ UNCHANGED <<rig, versions, shownVars, fetching, openDialog, request, restoring, draft>>
EditsConfig ==
    /\ openDialog = "device" /\ request = "none" /\ driver # Unset
    /\ formData' = formData \union {driver} /\ config' = formData'
    /\ UNCHANGED <<rig, versions, shownVars, fetching, openDialog, request, restoring, driver, draft>>

-----------------------------------------------------------------------------
(* AddControllerDialog. What it offers is by the schema as fetched.        *)
Taken(t) == schemaDoc.target = t
Regulated(s) == schemaDoc.source = s
UnitsAgree(d) == d.target # Unset /\ d.source # Unset /\ UnitOf[d.target] = UnitOf[d.source]
DefaultFeedforward(d) ==
    IF d.target = Unset \/ d.source = Unset THEN Unset
    ELSE IF UnitsAgree(d) THEN "setpoint" ELSE "none"
Feedforward(d) == IF d.feedforward # Unset THEN d.feedforward ELSE DefaultFeedforward(d)
Offered(d) == IF UnitsAgree(d) THEN {"setpoint", "none"} ELSE {"none"}

DraftsOpen == openDialog = "controller" /\ request = "none" /\ schemaDoc # Unset
Drafts(d) ==
    /\ draft' = d
    /\ UNCHANGED <<rig, versions, shownVars, fetching, openDialog, request, restoring, deviceForm>>
WithTarget(t) == [draft EXCEPT !.target = t, !.feedforward = Unset]
\* Another source, and what was picked for the one before.
WithSourceOnly(s) == [draft EXCEPT !.source = s]

WithSource(s) == [draft EXCEPT !.source = s, !.feedforward = Unset]
PicksTarget == \E t \in Targets : DraftsOpen /\ ~Taken(t) /\ Drafts(WithTarget(t))
PicksSource == \E s \in Sources :
    DraftsOpen /\ draft.target # Unset /\ ~Regulated(s) /\ Drafts(WithSource(s))
PicksLaw == \E ready \in BOOLEAN :
    DraftsOpen /\ draft.source # Unset /\ Drafts([draft EXCEPT !.lawReady = ready])
UsesFeedforward == \E f \in Offered(draft) :
    /\ DraftsOpen /\ draft.target # Unset /\ draft.source # Unset
    /\ Drafts([draft EXCEPT !.feedforward = f])
CanCreateController(d) ==
    d.target # Unset /\ d.source # Unset /\ d.lawReady /\ Feedforward(d) # Unset

(* The request goes out; the buttons are disabled until its answer.        *)
Sends ==
    /\ openDialog # "none" /\ request = "none"
    /\ openDialog = "device" => driver # Unset
    /\ openDialog = "controller" => schemaDoc # Unset /\ CanCreateController(draft)
    /\ request' = "sent"
    /\ UNCHANGED <<rig, versions, shownVars, fetching, openDialog, restoring, deviceForm, draft>>

(* What the rig can do of what is asked, and what it is then.              *)
Possible ==
    CASE openDialog = "device" -> rig.device = Unset
      [] openDialog = "link" -> ~rig.link
      [] openDialog = "controller" -> rig.device # Unset /\ rig.target # draft.target
                                  /\ rig.source # draft.source
      [] openDialog = "removeDevice" -> rig.device # Unset
      [] openDialog = "removeLink" -> rig.link /\ rig.device = Unset
      [] openDialog = "removeController" -> rig.target # Unset
      [] openDialog = "restore" -> TRUE
ChangedRig ==
    CASE openDialog = "device" -> [rig EXCEPT !.device = driver]
      [] openDialog = "link" -> [rig EXCEPT !.link = TRUE]
      [] openDialog = "controller" -> [rig EXCEPT !.target = draft.target, !.source = draft.source]
      [] openDialog = "removeDevice" -> [rig EXCEPT !.device = Unset, !.target = Unset, !.source = Unset]
      [] openDialog = "removeLink" -> [rig EXCEPT !.link = FALSE]
      [] openDialog = "removeController" -> [rig EXCEPT !.target = Unset, !.source = Unset]
      [] openDialog = "restore" -> versions[restoring]
RigAnswers ==
    /\ request = "sent"
    /\ \/ Possible /\ RoomForVersion /\ Becomes(ChangedRig) /\ request' = "done"
       \/ request' = "refused" /\ UNCHANGED <<rig, versions>>
    /\ UNCHANGED <<shownVars, fetching, openDialog, restoring, deviceForm, draft>>

(* The answer: a change closes the dialog and asks the queries again; a    *)
(* link asks only for the document, a restore for all but the schema.      *)
AskedAgain == IF openDialog \in {"link", "removeLink"} THEN {"document"}
              ELSE IF openDialog = "restore" THEN {"document", "versions"}
              ELSE Queries
ChangeAnswered ==
    /\ request = "done"
    /\ request' = "none" /\ openDialog' = "none" /\ restoring' = 0
    /\ fetching' = fetching \union AskedAgain
    /\ IF openDialog = "device" THEN ResetsDevice ELSE UNCHANGED deviceForm
    /\ UNCHANGED <<rig, versions, shownVars, draft>>
ChangeRefused ==
    /\ request = "refused" /\ request' = "none"
    /\ UNCHANGED <<rig, versions, shownVars, fetching, openDialog, restoring, deviceForm, draft>>

ConfigNext ==
    \/ QueryLands \/ Polls \/ OpensAdd \/ OpensRemove \/ OpensRestore \/ Closes
    \/ ChoosesDriver \/ EditsConfig
    \/ PicksTarget \/ PicksSource \/ PicksLaw \/ UsesFeedforward
    \/ Sends \/ RigAnswers \/ ChangeAnswered \/ ChangeRefused

ConfigSpec == ConfigInit /\ [][ConfigNext]_configVars

-----------------------------------------------------------------------------
(* "across differing units the rig refuses" a feedforward that passes the  *)
(* setpoint straight on: whatever was picked, in whatever order and        *)
(* changed again, no controller is asked for with one.                     *)
FeedforwardFits ==
    openDialog = "controller" /\ request # "none" /\ Feedforward(draft) = "setpoint" => UnitsAgree(draft)

(* With every query answered, the document and the list of versions are    *)
(* those of the rig: every change made here asks for them again.           *)
DocumentIsCurrent == fetching = {} /\ request # "done" => shownDoc = rig

(* "that driver's config as a form" (Devices.tsx:80): the config sent is   *)
(* of the driver chosen.                                                   *)
ConfigIsOfTheDriver == openDialog = "device" => config \subseteq {driver}

(* "Sources another controller already regulates and targets already       *)
(* driven are disabled" (Controllers.tsx:108): with every query answered,  *)
(* what the stepper offers is free.                                        *)
OfferedIsFree ==
    DraftsOpen /\ fetching = {} =>
        /\ \A t \in Targets : ~Taken(t) => rig.target # t
        /\ \A s \in Sources : ~Regulated(s) => rig.source # s
=============================================================================
