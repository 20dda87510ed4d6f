---------------------------- MODULE EditHistory ----------------------------
(***************************************************************************)
(* A value with undo and redo (dashboard/src/dashboard/history.ts): set    *)
(* commits a step and keeps the last Limit, reset starts over.             *)
(***************************************************************************)
EXTENDS Integers, Sequences

CONSTANTS Edits, Limit

ASSUME LimitAssumption == Limit \in Nat \ {0, 1}

VARIABLES shown,    \* present
          before,   \* past, the oldest first
          after     \* future, the next to redo first

historyVars == <<shown, before, after>>

HistoryTypeOK == shown \in Edits /\ before \in Seq(Edits) /\ after \in Seq(Edits)

HistoryInit == shown \in Edits /\ before = <<>> /\ after = <<>>

\* past.slice(-(limit - 1)): the last Limit - 1.
Newest(s) == IF Len(s) > Limit - 1 THEN SubSeq(s, Len(s) - Limit + 2, Len(s)) ELSE s

\* set: the same value is no step.
SetValue(value) ==
  /\ value # shown
  /\ before' = Append(Newest(before), shown)
  /\ after' = <<>>
  /\ shown' = value

\* The step undone put after those undone before it.
UndoToTheEnd ==
  /\ before # <<>>
  /\ shown' = before[Len(before)]
  /\ before' = SubSeq(before, 1, Len(before) - 1)
  /\ after' = after \o <<shown>>

UndoStep ==
  /\ before # <<>>
  /\ shown' = before[Len(before)]
  /\ before' = SubSeq(before, 1, Len(before) - 1)
  /\ after' = <<shown>> \o after

RedoStep ==
  /\ after # <<>>
  /\ shown' = Head(after)
  /\ after' = Tail(after)
  /\ before' = Append(before, shown)

ResetTo(value) == before' = <<>> /\ after' = <<>> /\ shown' = value

HistoryNext ==
  \/ \E value \in Edits : SetValue(value) \/ ResetTo(value)
  \/ UndoStep \/ RedoStep

HistorySpec == HistoryInit /\ [][HistoryNext]_historyVars

-----------------------------------------------------------------------------
\* However steps are committed, undone and redone, never more than the last
\* Limit are held, back and forward together.
HistoryBounded == Len(before) + Len(after) <= Limit

\* What can be reached by undo and redo stays the same, in its order, until a step
\* is committed or the history starts over.
Reach == before \o <<shown>> \o after
WayBackAndForth == [][Len(after') > 0 /\ after' # after => Reach' = Reach]_historyVars
=============================================================================
