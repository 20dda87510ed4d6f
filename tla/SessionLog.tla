----------------------------- MODULE SessionLog -----------------------------
(***************************************************************************)
(* What a rig that records promises, whoever starts and stops recordings:  *)
(* one session takes rows at a time; rows are kept in the order they came; *)
(* a session that ends has kept every row it took, and no row is kept in   *)
(* two sessions.  A session whose store fails is lost: what it had not     *)
(* kept by then is gone.                                                   *)
(***************************************************************************)
EXTENDS Naturals

CONSTANTS Sessions,     \* the sessions, numbered in the order they open
          Rows,         \* what is delivered, numbered in the order it comes
          MayFail       \* whether the store may fail

VARIABLES status,       \* of each session: none, open, ended, lost
          accepted,     \* the rows each took
          kept          \* those of them that are on disk

logVars == <<status, accepted, kept>>

\* What is on disk is everything up to some row.
InOrder(some, all) == \A m \in all \ some, n \in some : n < m

Init ==
    /\ status = [s \in Sessions |-> "none"]
    /\ accepted = [s \in Sessions |-> {}]
    /\ kept = [s \in Sessions |-> {}]

Open(s) ==
    /\ status[s] = "none"
    /\ \A t \in Sessions : status[t] # "open"
    /\ status' = [status EXCEPT ![s] = "open"]
    /\ UNCHANGED <<accepted, kept>>

Accept(s, n) ==
    /\ status[s] = "open"
    /\ \A t \in Sessions : \A m \in accepted[t] : m < n
    /\ accepted' = [accepted EXCEPT ![s] = @ \cup {n}]
    /\ UNCHANGED <<status, kept>>

Keep(s) ==
    /\ status[s] = "open"
    /\ \E some \in SUBSET accepted[s] :
          /\ kept[s] \subseteq some
          /\ InOrder(some, accepted[s])
          /\ kept' = [kept EXCEPT ![s] = some]
    /\ UNCHANGED <<status, accepted>>

End(s) ==
    /\ status[s] = "open"
    /\ kept[s] = accepted[s]
    /\ status' = [status EXCEPT ![s] = "ended"]
    /\ UNCHANGED <<accepted, kept>>

Lose(s) ==
    /\ MayFail
    /\ status[s] = "open"
    /\ status' = [status EXCEPT ![s] = "lost"]
    /\ \E some \in SUBSET accepted[s] :
          /\ kept[s] \subseteq some
          /\ InOrder(some, accepted[s])
          /\ kept' = [kept EXCEPT ![s] = some]
          /\ accepted' = [accepted EXCEPT ![s] = some]

Next == \E s \in Sessions :
           Open(s) \/ (\E n \in Rows : Accept(s, n)) \/ Keep(s) \/ End(s) \/ Lose(s)

Spec == Init /\ [][Next]_logVars
=============================================================================
