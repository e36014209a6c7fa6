------------------------------ MODULE ViewTree ------------------------------
(***************************************************************************)
(* The widget tree a guest shows through its host (crates/view-wire): the  *)
(* bounds a host puts on a tree it was sent (lib.rs), the patches that     *)
(* edit the tree it holds and the diff that finds them (patch.rs).         *)
(*                                                                         *)
(* A node is a record: its kind, its key, its own fields (data: for text   *)
(* its length), the document an editor shows and its children.  The kinds  *)
(* stand for classes of variants that the walks treat alike:               *)
(*   list    any number of children, cut at the node budget                *)
(*   pair    a list of at most two (hover, tooltip, overlay)               *)
(*   slot    exactly one child (container, scroll, a button's content)     *)
(*   text    a leaf that spends the frame's text                           *)
(*   editor  a leaf that refers to a document                              *)
(*   space   a leaf without a key: also the stand-in for what was cut      *)
(* Indices count from 1.  The other per-frame budgets (pictures, surface   *)
(* values, canvas parts, QR codes) are spent as the text budget is.        *)
(***************************************************************************)
EXTENDS Naturals, FiniteSets, SequencesExt

CONSTANTS
  MaxDepth,       \* MAX_DEPTH: a node this deep is replaced by an empty one
  MaxNodes,       \* MAX_NODES
  MaxDecoded,     \* MAX_DECODED_NODES of one frame
  MaxText,        \* MAX_TEXT_BYTES_PER_FRAME
  MaxDocuments,   \* MAX_EDITOR_DOCUMENTS (and live bytes: a document is one unit)
  MaxProjected,   \* MAX_EDITOR_PROJECTION_BYTES in those units
  MaxPatches      \* MAX_PATCHES

ASSUME ViewBounds ==
  /\ {MaxDepth, MaxNodes, MaxDecoded, MaxText, MaxDocuments, MaxProjected, MaxPatches} \subseteq Nat
  /\ MaxNodes > 0

NoKey == <<>>
NoDocument == <<>>
Empty == [kind |-> "space", key |-> NoKey, data |-> 0, doc |-> NoDocument, kids |-> <<>>]

\* In place of a tree: the host could not take what it was sent.
Refused == [Empty EXCEPT !.kind = "refused"]

HasList(node) == node.kind \in {"list", "pair"}

------------------------------------------------------------------------------
(* What a tree holds.                                                       *)

RECURSIVE Count(_), Height(_), Keys(_), Text(_), References(_)

Total(f(_), kids) == FoldLeft(LAMBDA sum, kid : sum + f(kid), 0, kids)
Joined(f(_), kids) == FoldLeft(LAMBDA all, kid : all \o f(kid), <<>>, kids)

Count(node) == 1 + Total(Count, node.kids)

Height(node) == FoldLeft(LAMBDA h, kid : IF Height(kid) >= h THEN Height(kid) + 1 ELSE h, 0, node.kids)

Keys(node) == (IF node.key = NoKey THEN <<>> ELSE <<node.key>>) \o Joined(Keys, node.kids)

Text(node) == (IF node.kind = "text" THEN node.data ELSE 0) + Total(Text, node.kids)

References(node) ==
  (IF node.kind = "editor" THEN <<node.doc>> ELSE <<>>) \o Joined(References, node.kids)

\* Two editors on one document show the same state of it, and neither the
\* documents nor their projections are too many.
ValidReferences(refs) ==
  /\ \A i, j \in DOMAIN refs : refs[i][1] = refs[j][1] => refs[i] = refs[j]
  /\ Cardinality({refs[i][1] : i \in DOMAIN refs}) <= MaxDocuments
  /\ Len(refs) <= MaxProjected

------------------------------------------------------------------------------
(* Decoding a frame: depth and nodes are counted while they are built.  A   *)
(* list enters one node more than it has, for the end of the list.          *)

RECURSIVE EnteredDepth(_), EnteredNodes(_)

EnteredDepth(node) ==
  FoldLeft(LAMBDA h, kid : IF EnteredDepth(kid) >= h THEN EnteredDepth(kid) + 1 ELSE h,
           IF HasList(node) THEN 1 ELSE 0, node.kids)

EnteredNodes(node) ==
  Total(LAMBDA kid : 1 + EnteredNodes(kid), node.kids) + (IF HasList(node) THEN 1 ELSE 0)

Decodes(trees) ==
  /\ \A i \in DOMAIN trees : EnteredDepth(trees[i]) <= MaxDepth
  /\ Total(EnteredNodes, trees) <= MaxDecoded

------------------------------------------------------------------------------
(* sanitize: one walk in tree order that spends the frame's budgets.        *)

\* The nodes and the text left, and each key taken with the suffix its next
\* duplicate will try.
FrameBudget == [nodes |-> MaxNodes, text |-> MaxText, taken |-> << >>]

ClaimNext(key, taken) ==   \* mutant: takes the next suffix even if the guest sent it itself
  IF key \notin DOMAIN taken
  THEN [key |-> key, taken |-> (key :> 2) @@ taken]
  ELSE [key |-> Append(key, taken[key]),
        taken |-> (key :> taken[key] + 1) @@ (Append(key, taken[key]) :> 2) @@ taken]

\* A key in use is moved to the next free `key#n`.
Claim(key, taken) ==
  IF key \notin DOMAIN taken
  THEN [key |-> key, taken |-> (key :> 2) @@ taken]
  ELSE LET nth == CHOOSE n \in taken[key]..(taken[key] + Cardinality(DOMAIN taken)) :
                    /\ Append(key, n) \notin DOMAIN taken
                    /\ \A m \in taken[key]..(n - 1) : Append(key, m) \in DOMAIN taken
       IN [key |-> Append(key, nth),
           taken |-> (Append(key, nth) :> 2) @@ (key :> nth + 1) @@ taken]

\* The node's own fields, within what is left of the budgets.
SanitizeFields(node, budget) ==
  LET claimed == IF node.key = NoKey THEN [key |-> NoKey, taken |-> budget.taken]
                 ELSE Claim(node.key, budget.taken)
      kept == IF node.kind = "text" THEN Min({node.data, budget.text}) ELSE node.data
  IN [node |-> [node EXCEPT !.key = claimed.key, !.data = kept,
                            !.kids = IF node.kind = "pair" /\ Len(@) > 2 THEN SubSeq(@, 1, 2) ELSE @],
      budget |-> [budget EXCEPT !.taken = claimed.taken,
                                !.text = IF node.kind = "text" THEN @ - kept ELSE @]]

RECURSIVE SanitizeNode(_, _, _)

\* Children past the node budget: a list loses them, a slot or a pair keeps
\* an empty stand-in, which is not charged.
SanitizeKid(kind, depth, done, kid) ==
  IF done.budget.nodes > 0
  THEN LET r == SanitizeNode(kid, depth, done.budget)
       IN [kids |-> Append(done.kids, r.node), budget |-> r.budget]
  ELSE IF kind = "list" THEN done ELSE [done EXCEPT !.kids = Append(@, Empty)]

SanitizeNode(node, depth, budget) ==
  LET spent == [budget EXCEPT !.nodes = @ - 1] IN
  IF depth >= MaxDepth THEN [node |-> Empty, budget |-> spent]
  ELSE LET own == SanitizeFields(node, spent)
           r == FoldLeft(LAMBDA done, kid : SanitizeKid(node.kind, depth + 1, done, kid),
                         [kids |-> <<>>, budget |-> own.budget], own.node.kids)
       IN [node |-> [own.node EXCEPT !.kids = r.kids], budget |-> r.budget]

\* A document's projection is never cut away: such a tree is refused.
SanitizeTree(root) ==
  LET clean == SanitizeNode(root, 0, FrameBudget).node IN
  IF /\ ValidReferences(References(root))
     /\ Len(References(clean)) = Len(References(root))
  THEN clean ELSE Refused

------------------------------------------------------------------------------
(* Patches: [op, path, node, from, to], the fields an operation has no use  *)
(* for left at their defaults.                                              *)

PatchAt(op, path) == [op |-> op, path |-> path, node |-> Empty, from |-> 0, to |-> 0]
ReplaceAtPath(path, node) == [PatchAt("replace", path) EXCEPT !.node = node]
PropsAt(path, node) == [PatchAt("props", path) EXCEPT !.node = node]
InsertPatch(path, at, node) == [PatchAt("insert", path) EXCEPT !.node = node, !.to = at]
RemovePatch(path, at) == [PatchAt("remove", path) EXCEPT !.from = at]
MovePatch(path, from, to) == [PatchAt("move", path) EXCEPT !.from = from, !.to = to]

\* A node with its children set aside: an empty list, or a stand-in per slot.
Detached(node) ==
  [node EXCEPT !.kids = IF HasList(node) THEN <<>> ELSE [i \in DOMAIN @ |-> Empty]]

\* The list edits that fall inside the list.
ListEditFits(patch, length) ==
  CASE patch.op = "insert" -> patch.to \in 1..(length + 1)
    [] patch.op = "remove" -> patch.from \in 1..length
    [] patch.op = "move"   -> {patch.from, patch.to} \subseteq 1..length

EditedList(patch, kids) ==
  CASE patch.op = "insert" -> InsertAt(kids, patch.to, patch.node)
    [] patch.op = "remove" -> RemoveAt(kids, patch.from)
    [] patch.op = "move"   -> InsertAt(RemoveAt(kids, patch.from), patch.to, kids[patch.from])

Edited(target, patch) ==
  CASE patch.op = "replace" -> patch.node
    [] patch.op = "props" ->
         IF HasList(patch.node) \/ Len(patch.node.kids) = Len(target.kids)
         THEN [patch.node EXCEPT !.kids = target.kids] ELSE Refused
    [] OTHER ->
         IF HasList(target) /\ ListEditFits(patch, Len(target.kids))
         THEN [target EXCEPT !.kids = EditedList(patch, @)] ELSE Refused

RECURSIVE EditedAt(_, _, _)
EditedAt(node, path, patch) ==
  IF path = <<>> THEN Edited(node, patch)
  ELSE IF Head(path) \notin DOMAIN node.kids THEN Refused
  ELSE LET kid == EditedAt(node.kids[Head(path)], Tail(path), patch)
       IN IF kid = Refused THEN Refused ELSE [node EXCEPT !.kids[Head(path)] = kid]

ApplyOne(root, patch) == EditedAt(root, patch.path, patch)

\* The whole list is applied, then the tree it makes is bounded.
Apply(root, patches) ==
  LET edited == FoldLeft(LAMBDA tree, patch : IF tree = Refused THEN Refused ELSE ApplyOne(tree, patch),
                         root, patches)
  IN IF Len(patches) > MaxPatches \/ edited = Refused THEN Refused ELSE SanitizeTree(edited)

------------------------------------------------------------------------------
(* diff.                                                                    *)

RECURSIVE DiffNode(_, _, _)

\* Two lists of the same shape are compared child by child.
Positional(old, new) ==
  /\ Len(old) = Len(new)
  /\ \A i \in DOMAIN old :
       /\ old[i].key = new[i].key
       /\ old[i].key = NoKey => old[i].kind = new[i].kind

DiffEach(old, new, path) ==
  FoldLeftDomain(LAMBDA out, i : out \o DiffNode(old[i], new[i], Append(path, i)), <<>>, old)

\* The keys that stand on one child only.
UniqueKeys(kids) ==
  {kids[i].key : i \in {j \in DOMAIN kids :
     kids[j].key # NoKey /\ \A m \in DOMAIN kids : kids[m].key = kids[j].key => m = j}}

Surviving(old, new) == UniqueKeys(old) \cap UniqueKeys(new)

\* live: the list as the host has it after the patches so far, by the
\* indices of the old list (0 for a child that is new).
RemoveGone(old, new, path) ==
  FoldLeftDomain(
    LAMBDA acc, i :
      IF old[i].key \in Surviving(old, new) THEN [acc EXCEPT !.live = Append(@, i)]
      ELSE [acc EXCEPT !.out = Append(@, RemovePatch(path, Len(acc.live) + 1))],
    [out |-> <<>>, live |-> <<>>], old)

PlaceKeptUnmoved(old, kid, at, acc, path) ==   \* mutant: the list is not moved on with the patch
  LET wanted == CHOOSE i \in DOMAIN old : old[i].key = kid.key
      from == CHOOSE i \in DOMAIN acc.live : acc.live[i] = wanted
      moves == IF from = at THEN <<>> ELSE <<MovePatch(path, from, at)>>
  IN [out |-> acc.out \o moves \o DiffNode(old[wanted], kid, Append(path, at)), live |-> acc.live]

PlaceKept(old, kid, at, acc, path) ==
  LET wanted == CHOOSE i \in DOMAIN old : old[i].key = kid.key
      from == CHOOSE i \in DOMAIN acc.live : acc.live[i] = wanted
      moves == IF from = at THEN <<>> ELSE <<MovePatch(path, from, at)>>
  IN [out |-> acc.out \o moves \o DiffNode(old[wanted], kid, Append(path, at)),
      live |-> InsertAt(RemoveAt(acc.live, from), at, wanted)]

PlaceNew(kid, at, acc, path) ==
  [out |-> Append(acc.out, InsertPatch(path, at, kid)), live |-> InsertAt(acc.live, at, 0)]

DiffList(old, new, path) ==
  IF Positional(old, new) THEN DiffEach(old, new, path)
  ELSE FoldLeftDomain(
         LAMBDA acc, i : IF new[i].key \in Surviving(old, new)
                         THEN PlaceKept(old, new[i], i, acc, path)
                         ELSE PlaceNew(new[i], i, acc, path),
         RemoveGone(old, new, path), new).out

DiffNode(old, new, path) ==
  IF old = new THEN <<>>
  ELSE IF old.kind # new.kind \/ (~HasList(new) /\ Len(old.kids) # Len(new.kids))
  THEN <<ReplaceAtPath(path, new)>>
  ELSE (IF Detached(old) = Detached(new) THEN <<>> ELSE <<PropsAt(path, Detached(new))>>)
       \o (IF HasList(old) THEN DiffList(old.kids, new.kids, path)
           ELSE DiffEach(old.kids, new.kids, path))

Diff(old, new) == DiffNode(old, new, <<>>)
=============================================================================
