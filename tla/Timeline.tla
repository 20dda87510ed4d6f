------------------------------ MODULE Timeline ------------------------------
(***************************************************************************)
(* What a ring of time-stamped rows promises (react/src/store/ring.ts): a  *)
(* sequence of rows <<time, value>>, oldest first, that gains a row at its *)
(* end, has its last row replaced, or begins a new timeline, and forgets   *)
(* from its old end what there are too many of or what is too old. Ring is *)
(* the buffer that implements it.                                          *)
(***************************************************************************)
EXTENDS Integers, Sequences

CONSTANTS MaxRows,  \* rows kept at most
          WindowS,  \* seconds kept behind the newest row
          Times, Values,
          MaxHistory \* bound: rows put in front at once

VARIABLE rows

NewestTime(s) == s[Len(s)][1]
Ascends(s) == \A i, j \in DOMAIN s : i < j => s[i][1] < s[j][1]

\* Without its n oldest rows s is short enough and young enough.
Fits(s, n) == Len(s) - n <= MaxRows /\ s[n + 1][1] >= NewestTime(s) - WindowS

\* The longest end of s that is.
Kept(s) ==
  LET old == CHOOSE n \in 0..Len(s) - 1 : Fits(s, n) /\ \A m \in 0..n - 1 : ~Fits(s, m)
  IN SubSeq(s, old + 1, Len(s))

\* The sequence after one more row.
Pushed(s, row) ==
  IF s = <<>> \/ row[1] < NewestTime(s) THEN <<row>>
  ELSE IF row[1] = NewestTime(s) THEN [s EXCEPT ![Len(s)] = row]
  ELSE Kept(Append(s, row))

\* History up to the first row that is not older than all of s.
Older(s, history) ==
  LET early(i) == s = <<>> \/ history[i][1] < s[1][1]
      n == CHOOSE n \in 0..Len(history) :
             (\A i \in 1..n : early(i)) /\ (n = Len(history) \/ ~early(n + 1))
  IN SubSeq(history, 1, n)

\* The sequence after history was put in front of it.
Prepended(s, history) ==
  LET all == Older(s, history) \o s IN IF all = <<>> THEN <<>> ELSE Kept(all)

Histories == {h \in UNION {[1..n -> Times \X Values] : n \in 1..MaxHistory} : Ascends(h)}

TimelineInit == rows = <<>>
TimelineNext ==
  \/ \E row \in Times \X Values : rows' = Pushed(rows, row)
  \/ \E history \in Histories : rows' = Prepended(rows, history)
TimelineSpec == TimelineInit /\ [][TimelineNext]_rows
=============================================================================
