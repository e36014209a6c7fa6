---------------------------- MODULE MCDuckfsTree ----------------------------
(***************************************************************************)
(* Instances of DuckfsTree for TLC, in two lanes.  With nobody reading:    *)
(* a snapshot of two changes, one change on top, then a plan of two from   *)
(* either as its base.  With a reader: a tree made in one commit, then any *)
(* one change, then a removal that pushes the first tree from the window.  *)
(***************************************************************************)
EXTENDS DuckfsTree

VARIABLE walk

MCSteps == <<2, 1, 2>>
Sym == Permutations(Name) \cup Permutations(Leaf)

------------------------------------------------------------------------------
\* The names "a" and "a!": the second begins with the first, and as text what
\* is below /a comes after /a!.
Bang == 1
Separator == 2
A == <<3>>
ABang == <<3, Bang>>

\* One line, a budget's worth of hits, more than a budget; the line is 1.
Short == [kind |-> "file", lines |-> <<1>>]
Full == [kind |-> "file", lines |-> <<1, 1, 1>>]
Large == [kind |-> "file", lines |-> <<1, 0, 1, 1>>]
Link == [kind |-> "symlink", lines |-> <<1>>]

PutAt(p, l) == [op |-> "put", path |-> p, leaf |-> l]

MCTrees == {
  <<PutAt(<<ABang, A>>, Full), PutAt(<<A, A>>, Short), PutAt(<<A, ABang>>, Large),
    PutAt(<<ABang, ABang>>, Short)>>,
  <<PutAt(<<A, A>>, Link), PutAt(<<A, ABang>>, Full), PutAt(<<ABang>>, Large)>>,
  <<PutAt(<<A, A>>, Short), PutAt(<<A, ABang>>, Full)>>}

SpelledPath == UNION {[1..n -> {A, ABang}] : n \in 1..2}

MCWrites == <<
  MCTrees,
  {<<PutAt(p, Full)>> : p \in SpelledPath}
  \cup {<<[op |-> o, path |-> p]>> : o \in {"mkdir", "rm"}, p \in SpelledPath}
  \cup {<<[op |-> "mv", from |-> p, to |-> q]>> : p, q \in SpelledPath},
  {<<[op |-> "rm", path |-> p]>> : p \in SpelledPath}>>

\* "", "/a", "/a!", "/a/", "/a/a"
MCAsked == {<<>>, <<2, 3>>, <<2, 3, 1>>, <<2, 3, 2>>, <<2, 3, 2, 3>>}

Reads == INSTANCE DuckfsQueries WITH
  Name <- {A, ABang}, Leaf <- {Short, Full, Large, Link}, Steps <- <<>>, Slash <- Separator,
  Needle <- 1,
  Writes <- MCWrites, Asked <- MCAsked, Limit <- 1, HitCeiling <- 2, Budget <- 3, ReadLimit <- 3,
  ChunkSize <- 2, MaxDiff <- 3

ASSUME Reads!QueriesAssumption

TreeInit == Init /\ walk \in {None, Reads!Nobody}

TreeNext ==
  \/ walk = None /\ Next /\ UNCHANGED walk
  \/ walk # None /\ Reads!ReadNext

TreeSpec == TreeInit /\ [][TreeNext]_<<vars, walk>>

(* DuckfsQueries's promise, in the lane that has a reader.                  *)
ReadsExact == walk # None => Reads!ReadsExact
=============================================================================
