------------------------------ MODULE TextRanges ------------------------------
(***************************************************************************)
(* pages' text-range algebra (text_ranges.rs): how the inline marks of a   *)
(* block and the selection of a comment follow its text.  A text is a      *)
(* sequence of characters, offsets count UTF-16 units: a character of Wide *)
(* takes two.  The marks of a block are a sequence in the order of         *)
(* `normalize`; kinds are numbers because that order compares them.        *)
(***************************************************************************)
EXTENDS Integers, Sequences, FiniteSets, TLC

LOCAL INSTANCE FiniteSetsExt

CONSTANTS
  Wide,       \* characters outside the basic plane
  MaxMarks    \* MAX_SPAN_MARKS_PER_BLOCK

ASSUME RangesAssumption == MaxMarks \in Nat

Smaller(x, y) == IF x <= y THEN x ELSE y
Larger(x, y) == IF x >= y THEN x ELSE y

(* The offset of the end of the first n characters.                         *)
Offset(t, n) == n + Cardinality({i \in 1..n : t[i] \in Wide})
Utf16Len(t) == Offset(t, Len(t))

Boundary(t, at) == \E n \in 0..Len(t) : Offset(t, n) = at
ValidRange(t, start, end) ==
  start < end /\ end <= Utf16Len(t) /\ Boundary(t, start) /\ Boundary(t, end)

------------------------------------------------------------------------------
(* The smallest replaced piece: characters in common in front, then behind  *)
CommonPrefix(old, new) ==
  Max({n \in 0..Smaller(Len(old), Len(new)) : \A i \in 1..n : old[i] = new[i]})
CommonSuffix(old, new) ==
  LET room == Smaller(Len(old), Len(new)) - CommonPrefix(old, new) IN
  Max({n \in 0..room : \A i \in 0..n-1 : old[Len(old) - i] = new[Len(new) - i]})

EditBetween(old, new) ==
  LET p == CommonPrefix(old, new)
      s == CommonSuffix(old, new) IN
  [start |-> Offset(old, p), oldEnd |-> Offset(old, Len(old) - s),
   newEnd |-> Offset(new, Len(new) - s)]

Shifted(pos, e) == pos + e.newEnd - e.oldEnd

(* An insertion at the start of a range stays outside of it ...             *)
MapStart(pos, e) ==
  IF pos < e.start THEN pos ELSE IF pos >= e.oldEnd THEN Shifted(pos, e) ELSE e.start
(* ... and one at its end as well.                                          *)
MapEndGrows(pos, e) ==   \* mutant: typing at the end of a range extends it
  IF pos < e.start THEN pos ELSE IF pos >= e.oldEnd THEN Shifted(pos, e) ELSE e.newEnd
MapEnd(pos, e) ==
  IF pos <= e.start THEN pos ELSE IF pos >= e.oldEnd THEN Shifted(pos, e) ELSE e.newEnd

RebaseRange(r, e, len) ==
  LET start == Smaller(MapStart(r.start, e), len) IN
  [r EXCEPT !.start = start, !.end = Larger(Smaller(MapEnd(r.end, e), len), start)]

(* A collapsed selection stays one.                                         *)
RebaseAnchor(a, e, len) ==
  IF a.start # a.end THEN RebaseRange(a, e, len)
  ELSE LET at == Smaller(MapEnd(a.start, e), len) IN [start |-> at, end |-> at]

------------------------------------------------------------------------------
(* Marks                                                                    *)
Precedes(m, n) ==
  \/ m.kind < n.kind
  \/ m.kind = n.kind /\ m.start < n.start
  \/ m.kind = n.kind /\ m.start = n.start /\ m.end < n.end

(* Sorted, spans of one kind that overlap or touch made one.                *)
Normalize(marks) ==
  LET sorted == SortSeq(marks, Precedes)
      Joins(out, m) == out # <<>> /\ out[Len(out)].kind = m.kind /\ m.start <= out[Len(out)].end
      out[i \in 0..Len(sorted)] ==
        IF i = 0 THEN <<>>
        ELSE LET m == sorted[i] IN
             IF Joins(out[i-1], m)
             THEN [out[i-1] EXCEPT ![Len(out[i-1])].end = Larger(@, m.end)]
             ELSE Append(out[i-1], m)
  IN out[Len(sorted)]

ValidMarks(t, marks) == \A i \in DOMAIN marks : ValidRange(t, marks[i].start, marks[i].end)
ValidateOk(t, marks) == ValidMarks(t, marks) /\ Len(Normalize(marks)) <= MaxMarks

RebaseMarks(marks, e, len) ==
  LET moved == [i \in DOMAIN marks |-> RebaseRange(marks[i], e, len)]
  IN Normalize(SelectSeq(moved, LAMBDA m : m.start < m.end))

(* Applying adds the range, removing cuts it out of every span of the kind. *)
Cut(m, start, end) ==
  (IF m.start < start THEN <<[m EXCEPT !.end = start]>> ELSE <<>>)
    \o (IF m.end > end THEN <<[m EXCEPT !.start = end]>> ELSE <<>>)

SetSpanMark(marks, start, end, kind, active) ==
  LET Keeps(m) == m.kind # kind \/ m.end <= start \/ m.start >= end
      cut[i \in 0..Len(marks)] ==
        IF i = 0 THEN <<>>
        ELSE cut[i-1] \o (IF Keeps(marks[i]) THEN <<marks[i]>> ELSE Cut(marks[i], start, end))
  IN Normalize(IF active THEN Append(marks, [start |-> start, end |-> end, kind |-> kind])
               ELSE cut[Len(marks)])
==============================================================================
