---------------------------- MODULE DuckfsQueries ----------------------------
(***************************************************************************)
(* The read side of the duckfs core (queries.rs) over the trees DuckfsTree *)
(* stores: find, grep, ls and read go through the committed trees page by  *)
(* page, by a cursor the page before gave, while commits move the head and *)
(* sweeps remove what left the window; diff compares two snapshots.        *)
(*                                                                         *)
(* A prefix is a prefix of the path as text, which cuts names in two, and  *)
(* a cursor is ordered segment by segment; so here a name is a sequence of *)
(* characters, numbers in the order of their bytes.                        *)
(***************************************************************************)
EXTENDS DuckfsTree

CONSTANTS
  Slash,      \* the character between the segments of a path
  Needle,     \* the line a grep looks for
  Writes,     \* bound: Writes[n], the plans the n-th commit may have
  Asked,      \* bound: the prefixes, as text, readers ask for
  Limit,      \* MAX_PAGE
  HitCeiling, \* MAX_GREP_HITS_PER_CALL
  Budget,     \* Fs::grep_budget
  ReadLimit,  \* MAX_READ_BYTES
  ChunkSize,  \* CHUNK_SIZE
  MaxDiff     \* MAX_DIFF_ENTRIES

\* What an instance is to give: a leaf is a symlink or a file, with its lines, a
\* byte each.
QueriesAssumption ==
  /\ Name \subseteq Seq(Nat) \ {<<>>} /\ Slash \in Nat /\ Asked \subseteq Seq(Nat)
  /\ \A l \in Leaf : l.kind \in {"file", "symlink"} /\ l.lines \in Seq(Nat)
  /\ {Limit, HitCeiling, Budget, ReadLimit, ChunkSize, MaxDiff} \subseteq Nat \ {0}
  /\ HitCeiling > Limit

VARIABLE walk   \* one reader: what it asks, where it stands, what it has seen

Nobody == [kind |-> "nobody", at |-> 0, arg |-> <<>>, after |-> None,
           seen |-> <<>>, kept |-> {}, stage |-> "idle"]

------------------------------------------------------------------------------
(* Order and text.                                                          *)

\* s comes before t: it is the shorter one, or the first place they differ
\* at decides.
Precedes(s, t, Below(_, _)) ==
  \/ s # t /\ IsPrefix(s, t)
  \/ \E i \in 1..Len(s) :
       i <= Len(t) /\ SubSeq(s, 1, i - 1) = SubSeq(t, 1, i - 1) /\ Below(s[i], t[i])

NameBefore(x, y) == Precedes(x, y, <)
PathBefore(p, q) == Precedes(p, q, NameBefore)

Text(p) == FlattenSeq([i \in DOMAIN p |-> <<Slash>> \o p[i]])

Matches(p, prefix) == IsPrefix(prefix, Text(p))

PathAfterText(p, cursor) ==   \* mutant: compares the paths as text
  cursor = None \/ Precedes(Text(cursor), Text(p), <)
PathAfter(p, cursor) == cursor = None \/ PathBefore(cursor, p)

(* The two prunes of a descent: subtree_may_match, subtree_after.           *)
SubtreeMayMatch(p, prefix) == IsPrefix(prefix, Text(p)) \/ IsPrefix(Text(p), prefix)
SubtreeAfter(p, cursor) == cursor = None \/ IsPrefix(p, cursor) \/ PathBefore(cursor, p)

------------------------------------------------------------------------------
(* The walks.  A directory whose object is not there ends a walk with an    *)
(* error: it is visited as an entry None.                                   *)
SortedNames(t) == SetToSortSeq(DOMAIN t, NameBefore)

RECURSIVE Visited(_, _, _, _)
Visited(t, base, prefix, cursor) ==
  IF t \notin store THEN <<[path |-> base, entry |-> None]>>
  ELSE FlattenSeq([i \in DOMAIN SortedNames(t) |->
         LET p == Append(base, SortedNames(t)[i])
             e == t[SortedNames(t)[i]] IN
         <<[path |-> p, entry |-> e]>>
         \o IF e.kind = "dir" /\ SubtreeMayMatch(p, prefix) /\ SubtreeAfter(p, cursor)
            THEN Visited(e.id, p, prefix, cursor) ELSE <<>>])

Page(items, next) == [items |-> items, next |-> next]
Broken(visits) == \E i \in DOMAIN visits : visits[i].entry = None
Paths(visits) == [i \in DOMAIN visits |-> visits[i].path]

\* The cursor is the last path of a page that another hit follows.
FindPage(root, prefix, cursor) ==
  LET Hit(v) == v.entry = None \/ (Matches(v.path, prefix) /\ PathAfter(v.path, cursor))
      hits == SelectSeq(Visited(root, <<>>, prefix, cursor), Hit)
      read == SubSeq(hits, 1, Min({Len(hits), Limit + 1}))
      out == SubSeq(read, 1, Min({Len(read), Limit})) IN
  IF Broken(read) THEN None
  ELSE Page(Paths(out), IF Len(read) > Limit THEN Last(out).path ELSE None)

\* The lines of a file with the needle in them.
HitLines(p, leaf) ==
  SelectSeq([i \in DOMAIN leaf.lines |-> <<p, i>>], LAMBDA h : leaf.lines[h[2]] = Needle)

(* grep_file: a page ends in front of a file, never inside one.             *)
GrepFile(acc, v) ==
  LET size == Len(v.entry.id.lines)
      lines == HitLines(v.path, v.entry.id)
      room == HitCeiling - Len(acc.hits) IN
  CASE acc.done -> acc
    [] ~acc.done /\ v.entry = None -> [acc EXCEPT !.done = TRUE, !.broken = TRUE]
    [] ~acc.done /\ v.entry # None /\ Len(acc.hits) >= Limit ->
         [acc EXCEPT !.done = TRUE, !.next = acc.last]
    [] ~acc.done /\ v.entry # None /\ Len(acc.hits) < Limit /\ size > Budget ->
         [acc EXCEPT !.last = v.path]
    [] ~acc.done /\ v.entry # None /\ Len(acc.hits) < Limit /\ size <= Budget /\ size > acc.left ->
         [acc EXCEPT !.done = TRUE, !.next = acc.last]
    [] OTHER ->
         [acc EXCEPT !.left = @ - size, !.last = v.path,
                     !.hits = @ \o SubSeq(lines, 1, Min({Len(lines), room}))]

GrepPage(root, prefix, cursor) ==
  LET Candidate(v) ==
        \/ v.entry = None
        \/ /\ v.entry.kind = "leaf" /\ v.entry.id.kind = "file"
           /\ Matches(v.path, prefix) /\ PathAfter(v.path, cursor)
      files == SelectSeq(Visited(root, <<>>, prefix, cursor), Candidate)
      end == FoldLeft(GrepFile, [hits |-> <<>>, left |-> Budget, last |-> None, next |-> None,
                                 done |-> FALSE, broken |-> FALSE], files) IN
  IF end.broken THEN None ELSE Page(end.hits, end.next)

LsPage(root, p, cursor) ==
  LET dir == IF p = <<>> THEN DirEntry(root) ELSE EntryAt(root, p)
      names == SelectSeq(SortedNames(dir.id), LAMBDA x : cursor = None \/ NameBefore(cursor, x))
      out == SubSeq(names, 1, Min({Len(names), Limit})) IN
  IF dir = None \/ dir.kind # "dir" \/ dir.id \notin store THEN None
  ELSE Page(out, IF Len(names) > Limit THEN Last(out) ELSE None)

(* A file is kept as chunks of one size and a shorter last one; a range is  *)
(* put together from the chunks it spans.                                   *)
ChunkOf(leaf, i) ==
  SubSeq(leaf.lines, i * ChunkSize + 1, Min({Len(leaf.lines), (i + 1) * ChunkSize}))

ReadRange(leaf, offset, length) ==
  LET end == Min({offset + length, Len(leaf.lines)})
      Part(i) == SubSeq(ChunkOf(leaf, i), Max({offset, i * ChunkSize}) - i * ChunkSize + 1,
                        Min({end, (i + 1) * ChunkSize}) - i * ChunkSize)
      first == offset \div ChunkSize IN
  IF offset >= Len(leaf.lines) \/ length = 0 THEN <<>>
  ELSE FlattenSeq([k \in 1..((end - 1) \div ChunkSize - first + 1) |-> Part(first + k - 1)])

ReadPage(root, p, offset) ==
  LET e == EntryAt(root, p)
      bytes == ReadRange(e.id, offset, ReadLimit) IN
  IF e = None \/ e.kind # "leaf" THEN None
  ELSE Page(bytes, IF offset + Len(bytes) >= Len(e.id.lines) THEN None ELSE offset + Len(bytes))

------------------------------------------------------------------------------
(* diff of two trees: paths with what became of them, or an object missing. *)
Missing == <<<<>>, "missing">>

RECURSIVE EmitChildren(_, _, _, _)
RECURSIVE EmitSide(_, _, _, _)
EmitSide(p, e, what, prefix) ==
  SelectSeq(<<<<p, what>>>>, LAMBDA d : Matches(p, prefix))
  \o IF e.kind = "dir" THEN EmitChildren(p, e.id, what, prefix) ELSE <<>>

EmitChildren(p, t, what, prefix) ==
  IF t \notin store THEN <<Missing>>
  ELSE LET names == SelectSeq(SortedNames(t), LAMBDA x : SubtreeMayMatch(Append(p, x), prefix)) IN
       FlattenSeq([i \in DOMAIN names |-> EmitSide(Append(p, names[i]), t[names[i]], what, prefix)])

\* A name on both sides that is not the same: two directories are compared
\* in turn, anything else changed as such.
RECURSIVE DiffWalk(_, _, _, _)
Changed(p, f, t, prefix) ==
  IF f.kind = "dir" /\ t.kind = "dir" THEN DiffWalk(f.id, t.id, p, prefix)
  ELSE SelectSeq(<<<<p, "modified">>>>, LAMBDA d : Matches(p, prefix))
       \o (IF f.kind = "dir" THEN EmitChildren(p, f.id, "removed", prefix) ELSE <<>>)
       \o (IF t.kind = "dir" THEN EmitChildren(p, t.id, "added", prefix) ELSE <<>>)

DiffWalk(f, t, base, prefix) ==
  LET At(x) == Append(base, x)
      names == SelectSeq(SetToSortSeq(DOMAIN f \cup DOMAIN t, NameBefore),
                         LAMBDA x : SubtreeMayMatch(At(x), prefix))
      Of(x) == CASE x \notin DOMAIN t -> EmitSide(At(x), f[x], "removed", prefix)
                 [] x \notin DOMAIN f -> EmitSide(At(x), t[x], "added", prefix)
                 [] OTHER -> IF f[x] = t[x] THEN <<>> ELSE Changed(At(x), f[x], t[x], prefix)
  IN IF f = t THEN <<>>
     ELSE IF {f, t} \subseteq store THEN FlattenSeq([i \in DOMAIN names |-> Of(names[i])])
     ELSE <<Missing>>

\* None where the reply would be too large or an object is missing.
Diff(f, t, prefix) ==
  LET out == DiffWalk(f, t, <<>>, prefix) IN
  IF Len(out) > MaxDiff \/ Missing \in ToSet(out) THEN None ELSE out

------------------------------------------------------------------------------
(* The reader.  A snapshot is known by the number of its commit; 0 asks for *)
(* the head of the moment, page by page.                                    *)
Oldest == made - Len(window) + 1
Resolves(n) == n = 0 \/ n >= Oldest
RootOf(n) == IF n = 0 THEN window[Len(window)] ELSE window[n - Oldest + 1]

PageAt(root) ==
  CASE walk.kind = "find" -> FindPage(root, walk.arg, walk.after)
    [] walk.kind = "grep" -> GrepPage(root, walk.arg, walk.after)
    [] walk.kind = "ls" -> LsPage(root, walk.arg, walk.after)
    [] walk.kind = "read" -> ReadPage(root, walk.arg, IF walk.after = None THEN 0 ELSE walk.after)

(* What there is to see, read off the namespace as a map.  Of a file with   *)
(* many hits a grep shows as many as a page has room for in any case.       *)
Sure(p, leaf) == SubSeq(HitLines(p, leaf), 1, Min({Len(HitLines(p, leaf)), HitCeiling - Limit + 1}))

Files(ns, prefix) ==
  {p \in DOMAIN ns : /\ ns[p] # Directory /\ Matches(p, prefix)
                     /\ ns[p].kind = "file" /\ Len(ns[p].lines) <= Budget}

Due(kind, arg, ns) ==
  CASE kind = "find" -> {p \in DOMAIN ns : Matches(p, arg)}
    [] kind = "grep" -> UNION {ToSet(Sure(p, ns[p])) : p \in Files(ns, arg)}
    [] kind = "ls" -> {Last(p) : p \in {q \in DOMAIN ns : Front(q) = arg}}
    [] kind = "read" -> {}

Queries(n, ns) ==
  ({"find", "grep"} \X Asked)
  \cup ({"ls"} \X ({<<>>} \cup {p \in DOMAIN ns : ns[p] = Directory}))
  \cup ({"read"} \X {p \in DOMAIN ns : n # 0 /\ ns[p] # Directory})

Start ==
  /\ walk = Nobody /\ window # <<>>
  /\ \E n \in {0} \cup Oldest..made : \E ns \in {Namespace(RootOf(n))} : \E q \in Queries(n, ns) :
       walk' = [Nobody EXCEPT !.kind = q[1], !.arg = q[2], !.at = n, !.stage = "reading",
                              !.kept = Due(q[1], q[2], ns)]
  /\ UNCHANGED <<store, window, by, made>>

\* A page is served, or the snapshot is refused, or what is asked for broke.
Turn ==
  /\ walk.stage = "reading"
  /\ IF ~Resolves(walk.at) THEN walk' = [walk EXCEPT !.stage = "refused"]
     ELSE \E page \in {PageAt(RootOf(walk.at))} :
            walk' = IF page = None THEN [walk EXCEPT !.stage = "failed"]
                    ELSE [walk EXCEPT !.seen = @ \o page.items, !.after = page.next,
                                      !.stage = IF page.next = None THEN "done" ELSE "reading"]
  /\ UNCHANGED <<store, window, by, made>>

\* A reader of the head is owed what every head it may have read had.
Writing ==
  /\ made < Len(Writes)
  /\ \E base \in {Len(window)} : \E plan \in Writes[made + 1] : Commit(base, plan)
  /\ walk' = IF walk.stage = "reading" /\ walk.at = 0
             THEN [walk EXCEPT !.kept = @ \cap Due(walk.kind, walk.arg, Namespace(RootOf(0))')]
             ELSE walk

ReadNext == Start \/ Turn \/ Writing \/ (Sweep /\ UNCHANGED walk)

------------------------------------------------------------------------------
(* Properties.                                                              *)

InOrder(seen, Before(_, _)) == \A i \in 1..Len(seen) - 1 : Before(seen[i], seen[i + 1])
HitBefore(h, k) == PathBefore(h[1], k[1]) \/ (h[1] = k[1] /\ h[2] < k[2])

Shown(kind, arg, ns) ==
  IF kind = "grep" THEN UNION {ToSet(HitLines(p, ns[p])) : p \in Files(ns, arg)}
  ELSE Due(kind, arg, ns)

(* A reader that pages to the end has seen, once and in path order, what    *)
(* its query is for: all of a snapshot it named, and of the moving head     *)
(* whatever stayed there all the time.  A file's bytes come together from   *)
(* ranges over chunks.  A cursor means there is more, no commit and no      *)
(* sweep in between breaks a page; only the directory a lister of the head  *)
(* is in may go.                                                            *)
WalkExact ==
  /\ CASE walk.kind = "find" -> InOrder(walk.seen, PathBefore)
       [] walk.kind = "grep" -> InOrder(walk.seen, HitBefore)
       [] walk.kind = "ls" -> InOrder(walk.seen, NameBefore)
       [] OTHER -> TRUE
  /\ walk.stage = "failed" => walk.kind = "ls" /\ walk.at = 0
  /\ walk.stage = "done" => walk.kept \subseteq ToSet(walk.seen)
  /\ walk.kind \in {"find", "ls"} /\ walk.at # 0 /\ walk.stage = "reading" /\ walk.after # None =>
       ~(walk.kept \subseteq ToSet(walk.seen))
  /\ walk.at # 0 /\ Resolves(walk.at) =>
       LET ns == Namespace(RootOf(walk.at)) IN
       IF walk.kind = "read"
       THEN /\ IsPrefix(walk.seen, ns[walk.arg].lines)
            /\ walk.stage = "done" => walk.seen = ns[walk.arg].lines
       ELSE ToSet(walk.seen) \subseteq Shown(walk.kind, walk.arg, ns)

(* diff names, in path order, the paths under the prefix that are on one    *)
(* side only or differ, whatever it pruned as equal or out of the prefix;   *)
(* it refuses exactly what is too large.                                    *)
DiffExact ==
  walk = Nobody =>
    \A i, j \in DOMAIN window : \A prefix \in Asked :
      LET a == Namespace(window[i])
          b == Namespace(window[j])
          out == Diff(window[i], window[j], prefix)
          What(p) == CASE p \notin DOMAIN b -> "removed"
                       [] p \notin DOMAIN a -> "added"
                       [] OTHER -> "modified"
          want == {<<p, What(p)>> : p \in {q \in DOMAIN a \cup DOMAIN b :
                     Matches(q, prefix) /\ ~(q \in DOMAIN a \cap DOMAIN b /\ a[q] = b[q])}} IN
      IF Cardinality(want) > MaxDiff THEN out = None
      ELSE out # None /\ ToSet(out) = want /\ InOrder(out, LAMBDA d, e : PathBefore(d[1], e[1]))

(* What the read side says of the stored trees is what is in them.          *)
ReadsExact == WalkExact /\ DiffExact
==============================================================================
