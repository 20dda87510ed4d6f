------------------------------- MODULE MCLive -------------------------------
(* What reaches the page: the sockets, the rings, the calls of subscribers, *)
(* the events, the sign-in, an editor's undo, and the entry of a writable   *)
(* signal. An initial state picks one part; the others stand still.         *)
EXTENDS Sockets, Ring, Fanout, EventLog, Access, EditHistory, WriteBox

VARIABLE part

liveVars == <<part, socketsVars, ring, fanoutVars, eventVars, accessVars, historyVars, writeBoxVars>>

\* Where a part that stands still could be one thing or another, it is this.
Resting ==
    /\ part # "access" => anonymous = "none" /\ ~signedIn /\ signIn = "idle"
    /\ part # "history" => shown = CHOOSE edit \in Edits : TRUE
    /\ part # "box" => ~attachedTo /\ measured = Empty /\ committed = NoWrite

LiveInit ==
    /\ part \in {"sockets", "ring", "fanout", "events", "access", "history", "box"}
    /\ SocketsInit /\ RingInit /\ FanoutInit /\ EventsInit /\ AccessInit /\ HistoryInit
    /\ WriteBoxInit
    /\ Resting

LiveNext ==
    /\ part' = part
    /\ IF part = "sockets" THEN SocketsNext ELSE UNCHANGED socketsVars
    /\ IF part = "ring" THEN RingNext ELSE UNCHANGED ring
    /\ IF part = "fanout" THEN FanoutNext ELSE UNCHANGED fanoutVars
    /\ IF part = "events" THEN EventsNext ELSE UNCHANGED eventVars
    /\ IF part = "access" THEN AccessNext ELSE UNCHANGED accessVars
    /\ IF part = "history" THEN HistoryNext ELSE UNCHANGED historyVars
    /\ IF part = "box" THEN WriteBoxNext ELSE UNCHANGED writeBoxVars

\* The fairness of a part is asked for where it is the one that moves.
LiveFairness ==
    /\ part = "sockets" => SocketsFairness
    /\ part = "access" => AccessFairness

LiveSpec == LiveInit /\ [][LiveNext]_liveVars /\ LiveFairness

\* Two subscribers of samples, one of them to two addresses, and one of the status.
TwoAndStatus == [s \in Subs |-> IF s = 3 THEN "status" ELSE "samples"]
OneOrTwoKeys == [s \in Subs |-> IF s = 1 THEN {"x"} ELSE IF s = 2 THEN {"x", "y"} ELSE {}]
\* A display of even levels only: what is shown of a level is not the level.
Halves == [v \in Levels |-> (v \div 2) * 2]
=============================================================================
