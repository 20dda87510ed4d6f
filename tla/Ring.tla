-------------------------------- MODULE Ring --------------------------------
(***************************************************************************)
(* The ring buffer behind every chart (react/src/store/ring.ts) and the    *)
(* readers of it: parallel arrays that wrap and double, a binary search,   *)
(* the cut of a window (sliceRing) and the thinned read.                   *)
(*                                                                         *)
(* A ring is a record [t, v, head, count]: t and v are arrays indexed from *)
(* 0. One value column stands for all: columns are written alike. Times    *)
(* are whole, so a midpoint is kept doubled in the rows a read returns.    *)
(***************************************************************************)
EXTENDS Integers, Sequences, FiniteSets

CONSTANTS Initial,   \* rows of a new ring
          Cap,       \* rows at most; a ring is never smaller than Initial
          WindowS, Times, Values,
          MaxHistory, \* bound: rows of history put in front at once
          Widths, Gaps \* bound: the buckets and the breaks a read is asked for

ASSUME RingBounds ==
  /\ Initial \in Nat \ {0} /\ Cap \in Nat /\ Initial <= Cap
  /\ WindowS \in Nat /\ Times \subseteq Int /\ Widths \subseteq Nat /\ Gaps \subseteq Nat

VARIABLE ring

Nothing == -1     \* what an unused slot holds
Gap == -2         \* NaN, the break of a line

NewRing(size) == [t |-> [i \in 0..size - 1 |-> Nothing],
                  v |-> [i \in 0..size - 1 |-> Nothing], head |-> 0, count |-> 0]

Size(r) == Cardinality(DOMAIN r.t)
At(r, i) == (r.head + i) % Size(r)
TimeAt(r, i) == r.t[At(r, i)]
ValueAt(r, i) == r.v[At(r, i)]
FirstT(r) == IF r.count = 0 THEN Nothing ELSE r.t[r.head]
LastT(r) == IF r.count = 0 THEN Nothing ELSE TimeAt(r, r.count - 1)
Clear(r) == [r EXCEPT !.head = 0, !.count = 0]
DropOldest(r) == [r EXCEPT !.head = (@ + 1) % Size(r), !.count = @ - 1]

\* Twice the room with the rows where they were.
GrowInPlace(r) ==
  LET size == IF 2 * Size(r) < Cap THEN 2 * Size(r) ELSE Cap
      longer(a) == [i \in 0..size - 1 |-> IF i < Size(r) THEN a[i] ELSE Nothing]
  IN [r EXCEPT !.t = longer(r.t), !.v = longer(r.v)]

\* Twice the room, at most the cap, with the oldest row at index 0 again.
Grow(r) ==
  LET size == IF 2 * Size(r) < Cap THEN 2 * Size(r) ELSE Cap
      moved(a) == [i \in 0..size - 1 |-> IF i < r.count THEN a[At(r, i)] ELSE Nothing]
  IN [r EXCEPT !.t = moved(r.t), !.v = moved(r.v), !.head = 0]

MakeRoom(r) == IF r.count < Size(r) THEN r
               ELSE IF Size(r) < Cap THEN Grow(r) ELSE DropOldest(r)

\* Rows that fell out of the window go; the newest row stays.
Expire(r, cutoff) ==
  LET old == CHOOSE n \in 0..r.count - 1 :
               /\ \A i \in 0..n - 1 : TimeAt(r, i) < cutoff
               /\ n = r.count - 1 \/ TimeAt(r, n) >= cutoff
  IN [r EXCEPT !.head = (@ + old) % Size(r), !.count = @ - old]

\* The row is written at the end; windowS is what the ring was made with.
Append1(r, time, value, windowS) ==
  LET i == At(r, r.count)
  IN Expire([r EXCEPT !.t[i] = time, !.v[i] = value, !.count = @ + 1], time - windowS)

\* A row at the newest row's time replaces it; an older one starts afresh.
Push(r, time, value, windowS) ==
  IF r.count > 0 /\ time = LastT(r)
    THEN [r EXCEPT !.v[At(r, r.count - 1)] = value]
    ELSE Append1(MakeRoom(IF r.count > 0 /\ time < LastT(r) THEN Clear(r) ELSE r),
                 time, value, windowS)

\* Rows <<time, value>> pushed one after another.
PushAll(r, rows, windowS) ==
  LET f[n \in 0..Len(rows)] == IF n = 0 THEN r ELSE Push(f[n - 1], rows[n][1], rows[n][2], windowS)
  IN f[Len(rows)]

RowsOf(r) == [i \in 1..r.count |-> <<TimeAt(r, i - 1), ValueAt(r, i - 1)>>]

\* History in front of what is held, up to the first row that is not older.
Prepend(r, history) ==
  LET n == CHOOSE n \in 0..Len(history) :
             /\ \A i \in 1..n : r.count = 0 \/ history[i][1] < FirstT(r)
             /\ n = Len(history) \/ (r.count > 0 /\ history[n + 1][1] >= FirstT(r))
  IN PushAll(Clear(r), SubSeq(history, 1, n) \o RowsOf(r), WindowS)

\* The halving that goes past a row at the time itself.
IndexAfter(r, time) ==
  LET search[span \in (0..r.count) \X (0..r.count)] ==
        LET lo == span[1]
            hi == span[2]
            mid == (lo + hi) \div 2
        IN IF lo >= hi THEN lo
           ELSE IF TimeAt(r, mid) <= time THEN search[<<mid + 1, hi>>] ELSE search[<<lo, mid>>]
  IN search[<<0, r.count>>]

\* The first row at or after a time, by halving; count when there is none.
IndexAtOrAfter(r, time) ==
  LET search[span \in (0..r.count) \X (0..r.count)] ==
        LET lo == span[1]
            hi == span[2]
            mid == (lo + hi) \div 2
        IN IF lo >= hi THEN lo
           ELSE IF TimeAt(r, mid) < time THEN search[<<mid + 1, hi>>] ELSE search[<<lo, mid>>]
  IN search[<<0, r.count>>]

\* A window of playback, cut from the live ring: both ends belong to it.
SliceRing(r, from, to) ==
  LET start == IndexAtOrAfter(r, from)
      at == IndexAtOrAfter(r, to)
      end == CHOOSE e \in at..r.count : /\ \A i \in at..e - 1 : TimeAt(r, i) <= to
                                        /\ e = r.count \/ TimeAt(r, e) > to
      size == IF end - start > 16 THEN end - start ELSE 16
  IN PushAll(NewRing(size), [i \in 1..end - start |-> RowsOf(r)[start + i]], 1000000)

\* The read: rows from a time on, one per bucket of width w (0: every row), the
\* last of each kept, and a Gap row between raw rows more than g apart (0: none).
\* Row times come doubled.
BucketWidth(span, maxPoints, every) ==
  LET points == maxPoints \div every IN span \div (IF points > 1 THEN points ELSE 1)

Read(r, from, w, g) ==
  LET start == IndexAtOrAfter(r, from)
      step(acc, i) ==
        LET row == <<2 * TimeAt(r, i), ValueAt(r, i)>>
            broken == g > 0 /\ i > start /\ TimeAt(r, i) - TimeAt(r, i - 1) > g
            mid == <<TimeAt(r, i) + TimeAt(r, i - 1), Gap>>
            same == /\ w > 0 /\ i > start /\ ~broken
                    /\ TimeAt(r, i) \div w = TimeAt(r, i - 1) \div w
        IN IF same THEN [acc EXCEPT ![Len(acc)] = row]
           ELSE Append(IF broken THEN Append(acc, mid) ELSE acc, row)
      f[n \in 0..r.count - start] == IF n = 0 THEN <<>> ELSE step(f[n - 1], start + n - 1)
  IN f[r.count - start]

-----------------------------------------------------------------------------
PushRow == \E time \in Times, value \in Values : ring' = Push(ring, time, value, WindowS)

\* History comes from the recording store in the order of its times.
PrependRows ==
  \E history \in UNION {[1..n -> Times \X Values] : n \in 1..MaxHistory} :
    /\ \A i, j \in 1..Len(history) : i < j => history[i][1] < history[j][1]
    /\ ring' = Prepend(ring, history)

RingInit == ring = NewRing(Initial)
RingNext == PushRow \/ PrependRows
RingSpec == RingInit /\ [][RingNext]_ring

-----------------------------------------------------------------------------
(* Properties.                                                             *)

RingTypeOK ==
  /\ Size(ring) \in Initial..Cap
  /\ ring.head \in 0..Size(ring) - 1
  /\ ring.count \in 0..Size(ring)

\* The buffer that wraps and doubles is the plain sequence of Timeline: rows in
\* the order of their times, none lost but the too many and the too old.
T == INSTANCE Timeline WITH rows <- RowsOf(ring), MaxRows <- Cap
RingIsTimeline == T!TimelineInit /\ [][ring' = ring \/ T!TimelineNext]_ring

\* The window a paused panel shows is exactly the rows of that time, at the
\* edges too, however the buffer is wrapped.
SliceIsWindow ==
  \A from, to \in Times :
    from <= to => RowsOf(SliceRing(ring, from, to))
                    = SelectSeq(RowsOf(ring), LAMBDA row : from <= row[1] /\ row[1] <= to)

IsPrefixOf(s, u) == Len(s) <= Len(u) /\ SubSeq(u, 1, Len(s)) = s

\* Rows i and i + 1 are so far apart that the line between them breaks.
Broken(rows, i, g) == i < Len(rows) /\ g > 0 /\ rows[i + 1][1] - rows[i][1] > g

\* Row i is the last of its bucket, or the line breaks behind it.
LastThere(rows, i, w, g) ==
  \/ i = Len(rows) \/ w = 0 \/ Broken(rows, i, g)
  \/ rows[i][1] \div w # rows[i + 1][1] \div w

\* A thinned read is honest: in the order of their times, it shows the rows that
\* were measured, the last of each bucket and the newest of all among them, with
\* a break where two rows really are far apart, and nothing else.
ReadIsHonest ==
  \A from \in Times, w \in Widths, g \in Gaps :
    LET rows == RowsOf(ring)
        out == Read(ring, from, w, g)
        asked == {i \in 1..Len(rows) : rows[i][1] >= from}
    IN /\ {out[k] : k \in 1..Len(out)}
            = {<<2 * rows[i][1], rows[i][2]>> : i \in {j \in asked : LastThere(rows, j, w, g)}}
                \cup {<<rows[i][1] + rows[i + 1][1], Gap>> : i \in {j \in asked : Broken(rows, j, g)}}
       /\ \A j, k \in 1..Len(out) : j < k => out[j][1] < out[k][1]

\* Between two redraws the middle of a thinned chart does not reshuffle: a row
\* more at the live edge leaves all but the last row drawn as they were, as
\* long as nothing fell out of the ring.
ReadIsStable ==
  [][\A w \in {2, 3}, g \in {0, 2} :
       LET before == Read(ring, 0, w, g)
           after == Read(ring', 0, w, g)
       IN (IsPrefixOf(RowsOf(ring), RowsOf(ring')) /\ before # <<>>)
            => IsPrefixOf(SubSeq(before, 1, Len(before) - 1), after)]_ring
=============================================================================
