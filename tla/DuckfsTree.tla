------------------------------ MODULE DuckfsTree ------------------------------
(***************************************************************************)
(* The namespace of the duckfs core as it is stored: every directory is a  *)
(* tree object named by its content, snapshots share the directories they  *)
(* have in common, and a commit edits a lazy overlay (tree.rs): a node is  *)
(* a reference to a stored entry until a change passes through it.  Only   *)
(* the directories touched are encoded and stored again.  Between blocks a *)
(* sweep removes the trees no snapshot of the window reaches.              *)
(*                                                                         *)
(* An id stands for the body it is the hash of, so a tree is a function    *)
(* from names to entries, whether or not the store holds it.               *)
(***************************************************************************)
EXTENDS DuckfsPaths

CONSTANTS
  Steps  \* bound: Steps[n], changes in the n-th commit

ASSUME TreeAssumption == Steps \in Seq(Nat)

VARIABLES
  store,   \* tree objects in the object store
  window,  \* root trees of the snapshots of the window, the head last
  by,      \* the commit that made the head, as DuckfsFlat's `last`
  made     \* commits made

vars == <<store, window, by, made>>

NoNames == [x \in {} |-> None]
LeafEntry(l) == [kind |-> "leaf", id |-> l]
DirEntry(t) == [kind |-> "dir", id |-> t]

------------------------------------------------------------------------------
(* The overlay.  A lookup that fails, or meets an object that is not there, *)
(* is None.                                                                 *)
Ref(e) == [tag |-> "ref", entry |-> e]
Dir(kids) == [tag |-> "dir", kids |-> kids]

WithKid(kids, x, n) == [y \in DOMAIN kids \cup {x} |-> IF y = x THEN n ELSE kids[y]]
WithoutKid(kids, x) == [y \in DOMAIN kids \ {x} |-> kids[y]]

(* materialize, load_children                                               *)
Kids(n) ==
  IF n.tag = "dir" THEN n.kids
  ELSE IF n.entry.kind = "dir" /\ n.entry.id \in store
  THEN [x \in DOMAIN n.entry.id |-> Ref(n.entry.id[x])]
  ELSE None

(* navigate: the children at the end of dirs.                               *)
RECURSIVE Navigate(_, _, _)
Navigate(n, dirs, create) ==
  LET kids == Kids(n) IN
  IF kids = None \/ dirs = <<>> THEN kids
  ELSE IF Head(dirs) \in DOMAIN kids THEN Navigate(kids[Head(dirs)], Tail(dirs), create)
  ELSE IF create THEN Navigate(Dir(NoNames), Tail(dirs), create)
  ELSE None

(* The node with the children at the end of dirs replaced.                  *)
RECURSIVE Rewritten(_, _, _)
Rewritten(n, dirs, kids) ==
  IF dirs = <<>> THEN Dir(kids)
  ELSE LET here == Kids(n)
           child == IF Head(dirs) \in DOMAIN here THEN here[Head(dirs)] ELSE Dir(NoNames)
       IN Dir(WithKid(here, Head(dirs), Rewritten(child, Tail(dirs), kids)))

Put(n, p, e) ==
  LET kids == Navigate(n, Front(p), TRUE) IN
  IF kids = None THEN None ELSE Rewritten(n, Front(p), WithKid(kids, Last(p), Ref(e)))

Mkdir(n, p) ==
  LET kids == Navigate(n, Front(p), TRUE) IN
  IF kids = None \/ Last(p) \in DOMAIN kids THEN None
  ELSE Rewritten(n, Front(p), WithKid(kids, Last(p), Dir(NoNames)))

Rm(n, p) ==
  LET kids == Navigate(n, Front(p), FALSE) IN
  IF kids = None \/ Last(p) \notin DOMAIN kids THEN None
  ELSE Rewritten(n, Front(p), WithoutKid(kids, Last(p)))

(* build_dir: the entry a node is encoded to, and the trees pushed for it.  *)
RECURSIVE Encoded(_)
Encoded(n) ==
  IF n.tag = "ref" THEN n.entry
  ELSE DirEntry([x \in DOMAIN n.kids |-> Encoded(n.kids[x])])

RECURSIVE Pushed(_)
Pushed(n) ==
  IF n.tag = "ref" THEN {}
  ELSE {Encoded(n).id} \cup UNION {Pushed(n.kids[x]) : x \in DOMAIN n.kids}

MvByEntry(n, from, to) ==   \* mutant: a get, an rm and a put
  LET src == Navigate(n, Front(from), FALSE)
      dst == Navigate(n, Front(to), FALSE) IN
  IF Under(from, to) \/ src = None \/ dst = None THEN None
  ELSE IF Last(from) \notin DOMAIN src \/ Last(to) \in DOMAIN dst THEN None
  ELSE Put(Rm(n, from), to, Encoded(src[Last(from)]))

(* The node itself is moved, with what was materialised beneath it; the     *)
(* parent of the destination is not created.                                *)
Mv(n, from, to) ==
  LET src == Navigate(n, Front(from), FALSE)
      dst == Navigate(n, Front(to), FALSE) IN
  IF Under(from, to) \/ src = None \/ dst = None THEN None
  ELSE IF Last(from) \notin DOMAIN src \/ Last(to) \in DOMAIN dst THEN None
  ELSE LET lifted == Rm(n, from) IN
       Rewritten(lifted, Front(to), WithKid(Navigate(lifted, Front(to), FALSE), Last(to), src[Last(from)]))

Edited(n, c) ==
  CASE c.op = "put" -> Put(n, c.path, LeafEntry(c.leaf))
    [] c.op = "mkdir" -> Mkdir(n, c.path)
    [] c.op = "rm" -> Rm(n, c.path)
    [] c.op = "mv" -> Mv(n, c.from, c.to)

Applied(n, plan) ==
  LET step[i \in 0..Len(plan)] ==
        IF i = 0 THEN n ELSE IF step[i - 1] = None THEN None ELSE Edited(step[i - 1], plan[i])
  IN step[Len(plan)]

------------------------------------------------------------------------------
(* commit_apply                                                             *)

(* entry_at, below the tree t; a path that leads through a leaf leads to    *)
(* nothing.  (Every tree on the way is in the store: ImplementsFlat.)       *)
RECURSIVE EntryAt(_, _)
EntryAt(t, p) ==
  IF t = None \/ Head(p) \notin DOMAIN t THEN None
  ELSE LET e == t[Head(p)] IN
       IF Len(p) = 1 THEN e
       ELSE IF e.kind = "dir" THEN EntryAt(e.id, Tail(p)) ELSE None

TouchedBy(c) == IF c.op = "mv" THEN {c.from, c.to} ELSE {c.path}
Touched(plan) == UNION {TouchedBy(plan[i]) : i \in DOMAIN plan}

(* dedup: a commit names a path once.                                       *)
Deduped(plan) ==
  /\ \A i \in DOMAIN plan : plan[i].op = "mv" => plan[i].from # plan[i].to
  /\ \A i, j \in DOMAIN plan : i # j => TouchedBy(plan[i]) \cap TouchedBy(plan[j]) = {}

Root(n) == IF n = 0 THEN None ELSE window[n]

(* Step 7: what a change touches is in the head as it was in the base.      *)
UnchangedSince(base, plan) ==
  \A p \in Touched(plan) : EntryAt(Root(base), p) = EntryAt(Root(Len(window)), p)

(* TreeEdit::load                                                           *)
Loaded(root) == IF root = None THEN Dir(NoNames) ELSE Ref(DirEntry(root))

Plans(n) == UNION {[1..k -> Change] : k \in 1..n}

Commit(base, plan) ==
  /\ Deduped(plan) /\ UnchangedSince(base, plan)
  /\ \E edit \in {Applied(Loaded(Root(Len(window))), plan)} :
       /\ edit # None
       /\ store' = store \cup Pushed(edit)
       /\ \E all \in {Append(window, Encoded(edit).id)} :
            window' = IF Len(all) > Window THEN Tail(all) ELSE all
  /\ by' = [base |-> base, plan |-> plan] /\ made' = made + 1

(* gc: mark from the window, sweep the rest.                                *)
RECURSIVE Reach(_)
Reach(t) == {t} \cup UNION {Reach(t[x].id) : x \in {y \in DOMAIN t : t[y].kind = "dir"}}

Sweep ==
  /\ \E live \in {UNION {Reach(window[i]) : i \in DOMAIN window}} :
       live \subseteq store /\ live # store /\ store' = live
  /\ UNCHANGED <<window, by, made>>

Init == store = {} /\ window = <<>> /\ made = 0 /\ by = [base |-> 0, plan |-> <<>>]

Next ==
  \/ made < Len(Steps) /\ \E base \in 0..Len(window), plan \in Plans(Steps[made + 1]) : Commit(base, plan)
  \/ Sweep

Spec == Init /\ [][Next]_vars

------------------------------------------------------------------------------
(* What a reader of the store finds under a tree; None where the object is  *)
(* not there.                                                               *)
RECURSIVE Listing(_, _)
Listing(p, t) ==
  UNION {LET e == t[x]
             q == Append(p, x)
         IN IF e.kind = "leaf" THEN {<<q, e.id>>}
            ELSE IF e.id \notin store THEN {<<q, None>>}
            ELSE {<<q, Directory>>} \cup Listing(q, e.id) : x \in DOMAIN t}

Namespace(t) ==
  LET found == IF t \in store THEN Listing(<<>>, t) ELSE {<< <<>>, None>>}
  IN [q \in {f[1] : f \in found} |-> (CHOOSE f \in found : f[1] = q)[2]]

Flat == INSTANCE DuckfsFlat WITH snaps <- [i \in DOMAIN window |-> Namespace(window[i])], last <- by

(* Read back object by object, the window is what DuckfsFlat says: whatever *)
(* nodes a plan materialised, moved or left shared, and whatever a sweep    *)
(* removed, every directory a snapshot names is there, and no commit from   *)
(* a stale base loses a change its author had not seen - beneath a          *)
(* directory it moved or removed either.                                    *)
ImplementsFlat == Flat!Spec
==============================================================================
