---------------------------- MODULE SessionsPage ----------------------------
(***************************************************************************)
(* The Sessions page (dashboard/src/pages/Sessions.tsx): the list of what  *)
(* the runner has recorded, fetched when asked (useQuery), beside the      *)
(* recording polled every few seconds; sessions checked for a bulk delete; *)
(* buffers (scratch records) that a Keep turns into sessions.              *)
(*                                                                         *)
(* The runner is external: sessions by id, each a recording or a buffer,   *)
(* open or ended, with the minutes of data it holds. It lists an open one  *)
(* with or without an end, the time of its last sample, and refuses to     *)
(* delete the one it is writing.                                           *)
(*                                                                         *)
(* Bounds: ids up to MaxId, Minutes of data in a buffer, MaxLists fetches, *)
(* MaxTurns changes made from elsewhere.                                   *)
(***************************************************************************)
EXTENDS Naturals, FiniteSets, Functions

CONSTANTS MaxId, Minutes, MaxLists, MaxTurns

ASSUME PageBounds == MaxId \in Nat \ {0} /\ Minutes \in Nat \ {0} /\ MaxLists \in Nat \ {0}

VARIABLES stored,     \* the runner's sessions: id -> [scratch, open, data]
          turns,      \* changes made from elsewhere
          nextId,     \* the id of the next one, never used again
          lists,      \* fetches of the list so far
          listFetch,  \* the one that counts: "none", "failed", "asked", or what was read
          rows,       \* sessions.data: id -> [scratch, ended]
          recording,  \* recording.data, polled: the id, or 0
          checked,    \* the ids selected
          anchor,     \* the row a shift-click extends from, or 0
          dialog,     \* what is asked: [kind, ids, busy]
          toGo,       \* requests of the delete confirmed that have not been answered
          failed,     \* those that were refused
          keeping,    \* the Keep dialog: [id, ended, stage, last], or no id
          copied,     \* history: the data every Keep so far put in a session
          lost        \* history: data a Keep removed and had not put in one

pageVars == <<stored, turns, nextId, lists, listFetch, rows, recording, checked, anchor, dialog, toGo,
              failed, keeping, copied, lost>>
queryVars == <<lists, listFetch, rows, recording>>
selectVars == <<checked, anchor>>
deleteVars == <<dialog, toGo, failed>>
listsVars == <<copied, lost>>

Nothing == [kind |-> "none", ids |-> {}, busy |-> FALSE]
NotKeeping == [id |-> 0, ended |-> FALSE, stage |-> "none", last |-> 0]
Data(id, n) == {<<id, m>> : m \in 1..n}

Writing == {id \in DOMAIN stored : stored[id].open}
Adds(session) ==
    /\ stored' = [i \in DOMAIN stored \cup {nextId} |-> IF i = nextId THEN session ELSE stored[i]]
    /\ nextId' = nextId + 1
Removed(ids) == Restrict(stored, DOMAIN stored \ ids)

\* A recording that has ended, and a buffer, of an earlier runner or of this one.
SessionsInit ==
    /\ \E open \in BOOLEAN :
         stored = <<[scratch |-> FALSE, open |-> FALSE, data |-> Data(1, 1)],
                    [scratch |-> TRUE, open |-> open, data |-> Data(2, Minutes)]>>
    /\ turns = 0 /\ nextId = 3 /\ lists = 1 /\ listFetch = [kind |-> "asked"] /\ rows = [id \in {} |-> 0] /\ recording = 0
    /\ checked = {} /\ anchor = 0
    /\ dialog = Nothing /\ toGo = {} /\ failed = {} /\ keeping = NotKeeping
    /\ copied = {} /\ lost = {}

-----------------------------------------------------------------------------
(* What the page shows: the recording endpoint is the word on which one is *)
(* open, if the list stamped it with an end.                               *)
Ended(id) == id # recording /\ rows[id].ended
IsScratch(id) == rows[id].scratch
OpenId == {id \in DOMAIN rows : ~Ended(id) /\ ~IsScratch(id)}
SelectableIds == {id \in DOMAIN rows : id \notin OpenId /\ ~IsScratch(id)}
OlderBuffers == {id \in DOMAIN rows : IsScratch(id) /\ Ended(id)}

(* The effect that follows new rows: ids no longer listed are dropped.     *)
StillListed(ids, data) == ids \cap DOMAIN data

Refresh == IF lists < MaxLists THEN lists' = lists + 1 /\ listFetch' = [kind |-> "asked"]
           ELSE UNCHANGED <<lists, listFetch>>

ListRead ==
    /\ listFetch = [kind |-> "asked"]
    /\ \E stamped \in SUBSET Writing :
         listFetch' = [kind |-> "read", answer |-> [id \in DOMAIN stored |->
             [scratch |-> stored[id].scratch, ended |-> ~stored[id].open \/ id \in stamped]]]
    /\ UNCHANGED <<turns, nextId, stored, lists, rows, recording, selectVars, deleteVars, keeping, listsVars>>

ListLands ==
    /\ listFetch.kind = "read"
    /\ rows' = listFetch.answer
    /\ checked' = StillListed(checked, rows')
    /\ listFetch' = [kind |-> "none"]
    /\ UNCHANGED <<turns, nextId, stored, lists, recording, anchor, deleteVars, keeping, listsVars>>

ListFails ==
    /\ listFetch = [kind |-> "asked"]
    /\ listFetch' = [kind |-> "failed"]
    /\ UNCHANGED <<turns, nextId, stored, lists, rows, recording, selectVars, deleteVars, keeping, listsVars>>

RecordingPolled ==
    /\ recording' = IF \E id \in Writing : ~stored[id].scratch
                    THEN CHOOSE id \in Writing : ~stored[id].scratch ELSE 0
    /\ UNCHANGED <<turns, nextId, stored, lists, listFetch, rows, selectVars, deleteVars, keeping, listsVars>>

-----------------------------------------------------------------------------
(* The runner, from elsewhere: what is written ends; a new recording or    *)
(* buffer is opened; retention removes a session that has ended.           *)
Ends == \E id \in Writing :
    /\ turns < MaxTurns /\ turns' = turns + 1
    /\ stored' = [stored EXCEPT ![id].open = FALSE]
    /\ UNCHANGED <<nextId, queryVars, selectVars, deleteVars, keeping, listsVars>>

Opens == \E scratch \in BOOLEAN :
    /\ turns < MaxTurns /\ turns' = turns + 1
    /\ Writing = {} /\ nextId <= MaxId
    /\ Adds([scratch |-> scratch, open |-> TRUE, data |-> Data(nextId, 1)])
    /\ UNCHANGED <<queryVars, selectVars, deleteVars, keeping, listsVars>>

AgesOut == \E id \in DOMAIN stored \ Writing :
    /\ turns < MaxTurns /\ turns' = turns + 1
    /\ stored' = Removed({id})
    /\ UNCHANGED <<nextId, queryVars, selectVars, deleteVars, keeping, listsVars>>

-----------------------------------------------------------------------------
(* The selection. The rows in the order they are listed, buffers among     *)
(* them: shift takes the range from the anchor, but the open one; a plain  *)
(* click toggles and moves the anchor, with ctrl it only toggles.          *)
Free == dialog = Nothing /\ keeping = NotKeeping

ShiftClicks(id) ==
    /\ Free /\ id \in SelectableIds /\ anchor \in DOMAIN rows
    /\ checked' = {r \in DOMAIN rows : /\ (anchor <= r /\ r <= id) \/ (id <= r /\ r <= anchor)
                                       /\ r \notin OpenId}
    /\ UNCHANGED <<turns, nextId, stored, queryVars, anchor, deleteVars, keeping, listsVars>>

Clicks(id) == \E ctrl \in BOOLEAN :
    /\ Free /\ id \in SelectableIds
    /\ checked' = IF id \in checked THEN checked \ {id} ELSE checked \cup {id}
    /\ anchor' = IF ctrl THEN anchor ELSE id
    /\ UNCHANGED <<turns, nextId, stored, queryVars, deleteVars, keeping, listsVars>>

SelectsAll ==
    /\ Free /\ SelectableIds # {}
    /\ checked' = IF SelectableIds \subseteq checked THEN {} ELSE SelectableIds
    /\ UNCHANGED <<turns, nextId, stored, queryVars, anchor, deleteVars, keeping, listsVars>>

Clears == /\ Free /\ checked # {} /\ checked' = {}
          /\ UNCHANGED <<turns, nextId, stored, queryVars, anchor, deleteVars, keeping, listsVars>>

-----------------------------------------------------------------------------
(* Deleting: a row's button, the selection's, and their dialogs, whose     *)
(* names follow the rows; while a delete is under way they stay open.      *)
CheckedIds == checked \cap DOMAIN rows

AsksDelete(id) ==
    /\ Free /\ id \in DOMAIN rows /\ ~IsScratch(id) /\ Ended(id)
    /\ dialog' = [kind |-> "one", ids |-> {id}, busy |-> FALSE]
    /\ UNCHANGED <<turns, nextId, stored, queryVars, selectVars, toGo, failed, keeping, listsVars>>

AsksBulk ==
    /\ Free /\ checked # {}
    /\ dialog' = [kind |-> "bulk", ids |-> {}, busy |-> FALSE]
    /\ UNCHANGED <<turns, nextId, stored, queryVars, selectVars, toGo, failed, keeping, listsVars>>

CancelsDelete ==
    /\ dialog # Nothing /\ ~dialog.busy
    /\ dialog' = Nothing
    /\ UNCHANGED <<turns, nextId, stored, queryVars, selectVars, toGo, failed, keeping, listsVars>>

ConfirmsDelete ==
    /\ dialog # Nothing /\ ~dialog.busy
    /\ LET ids == IF dialog.kind = "one" THEN dialog.ids ELSE CheckedIds
       IN dialog' = [dialog EXCEPT !.ids = ids, !.busy = TRUE] /\ toGo' = ids
    /\ failed' = {}
    /\ UNCHANGED <<turns, nextId, stored, queryVars, selectVars, keeping, listsVars>>

\* One request: refused for what is not there or is being written, or lost on the way.
DeleteAnswered == \E id \in toGo : \E ok \in {TRUE, FALSE} :
    /\ ok => id \in DOMAIN stored \ Writing
    /\ toGo' = toGo \ {id}
    /\ stored' = IF ok THEN Removed({id}) ELSE stored
    /\ failed' = IF ok THEN failed ELSE failed \cup {id}
    /\ UNCHANGED <<turns, nextId, queryVars, selectVars, dialog, keeping, listsVars>>

\* All are answered: what failed stays selected and the list is asked again. One that
\* failed keeps its dialog open, and nothing is refreshed.
DeleteEnds ==
    /\ dialog.busy /\ toGo = {}
    /\ IF dialog.kind = "bulk"
       THEN checked' = failed /\ dialog' = Nothing /\ Refresh
       ELSE /\ checked' = checked
            /\ IF failed = {} THEN dialog' = Nothing /\ Refresh
               ELSE dialog' = [dialog EXCEPT !.busy = FALSE] /\ UNCHANGED <<lists, listFetch>>
    /\ UNCHANGED <<turns, nextId, stored, rows, recording, anchor, toGo, failed, keeping, listsVars>>

\* A buffer forgotten: asked at once, with no dialog.
Forgets == \E id \in OlderBuffers : \E ok \in BOOLEAN :
    /\ Free
    /\ ok => id \in DOMAIN stored \ Writing
    /\ stored' = IF ok THEN Removed({id}) ELSE stored
    /\ IF ok THEN Refresh ELSE UNCHANGED <<lists, listFetch>>
    /\ UNCHANGED <<turns, nextId, rows, recording, selectVars, deleteVars, keeping, listsVars>>

-----------------------------------------------------------------------------
(* Keep: the last minutes of a buffer become a session of their own; one   *)
(* that had stopped is then forgotten, its refusal swallowed.              *)
OpensKeep == \E id \in DOMAIN rows : \E last \in 1..Minutes :
    /\ Free /\ IsScratch(id)
    /\ keeping' = [id |-> id, ended |-> Ended(id), stage |-> "asking", last |-> last]
    /\ UNCHANGED <<turns, nextId, stored, queryVars, selectVars, deleteVars, listsVars>>

ClosesKeep ==
    /\ keeping.stage = "asking" /\ keeping' = NotKeeping
    /\ UNCHANGED <<turns, nextId, stored, queryVars, selectVars, deleteVars, listsVars>>

LastOf(id, n) ==
    LET held == {m \in 1..Minutes : <<id, m>> \in stored[id].data}
    IN {<<id, m>> : m \in {k \in held : Cardinality({j \in held : j > k}) < n}}

\* The dialog goes on whether the Keep succeeded or not.
KeepAnsweredAnyway == \E ok \in BOOLEAN :
    /\ keeping.stage = "asking" /\ nextId <= MaxId
    /\ ok => keeping.id \in DOMAIN stored
    /\ IF ok
       THEN /\ Adds([scratch |-> FALSE, open |-> FALSE, data |-> LastOf(keeping.id, keeping.last)])
            /\ copied' = copied \cup LastOf(keeping.id, keeping.last)
       ELSE UNCHANGED <<stored, nextId, copied>>
    /\ keeping' = [keeping EXCEPT !.stage = "kept"]
    /\ UNCHANGED <<turns, queryVars, selectVars, deleteVars, lost>>

KeepAnswered == \E ok \in BOOLEAN :
    /\ keeping.stage = "asking" /\ nextId <= MaxId
    /\ ok => keeping.id \in DOMAIN stored
    /\ IF ok
       THEN /\ Adds([scratch |-> FALSE, open |-> FALSE, data |-> LastOf(keeping.id, keeping.last)])
            /\ copied' = copied \cup LastOf(keeping.id, keeping.last)
            /\ keeping' = [keeping EXCEPT !.stage = "kept"]
       ELSE UNCHANGED <<stored, nextId, copied, keeping>>
    /\ UNCHANGED <<turns, queryVars, selectVars, deleteVars, lost>>

KeepForgets == \E ok \in BOOLEAN :
    /\ keeping.stage = "kept"
    /\ ok => keeping.ended /\ keeping.id \in DOMAIN stored \ Writing
    /\ stored' = IF ok THEN Removed({keeping.id}) ELSE stored
    /\ lost' = IF ok THEN lost \cup (stored[keeping.id].data \ copied) ELSE lost
    /\ keeping' = NotKeeping /\ Refresh
    /\ UNCHANGED <<turns, nextId, rows, recording, selectVars, deleteVars, copied>>

-----------------------------------------------------------------------------
SessionsNext ==
    \/ ListRead \/ ListLands \/ ListFails \/ RecordingPolled
    \/ Ends \/ Opens \/ AgesOut
    \/ \E id \in DOMAIN rows : ShiftClicks(id) \/ Clicks(id) \/ AsksDelete(id)
    \/ SelectsAll \/ Clears \/ AsksBulk \/ CancelsDelete \/ ConfirmsDelete \/ DeleteAnswered
    \/ DeleteEnds \/ Forgets \/ OpensKeep \/ ClosesKeep \/ KeepAnswered \/ KeepForgets

SessionsSpec == SessionsInit /\ [][SessionsNext]_pageVars

(* What the page counts as selected is what it lists, once the list it     *)
(* asked for after a delete has come: a session removed by another hand    *)
(* while the delete was under way is not left selected out of sight.       *)
SelectionIsListed ==
    listFetch.kind = "none" /\ dialog = Nothing /\ lists < MaxLists => checked \subseteq DOMAIN rows

(* A Keep that fails, or whose Forget is refused, has removed nothing;     *)
(* what it forgets, it has kept the part of that it was asked for.         *)
KeptBeforeForgotten ==
    [][ KeepForgets /\ stored' # stored => LastOf(keeping.id, keeping.last) \subseteq copied ]_pageVars

(* "An already-stopped buffer is redundant once kept from -- its data now  *)
(* lives in the new session" (KeepDialog).                                 *)
KeepLosesNothing == lost = {}

(* "kept from, never selected" (the comment on the scratch record).        *)
BuffersAreNotSelected == \A id \in checked \cap DOMAIN rows : ~IsScratch(id)

(* "Only one session can be open at a time; it can't be selected or        *)
(* deleted."                                                               *)
OpenIsNotAskedFor == toGo \cap Writing = {}
=============================================================================
