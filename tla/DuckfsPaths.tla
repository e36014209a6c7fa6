------------------------------ MODULE DuckfsPaths ------------------------------
(***************************************************************************)
(* Paths of the files namespace and the changes a commit makes to it       *)
(* (paths.rs, wire.rs), over names that are in no way special: the rules   *)
(* on characters and lengths, and who may write where, are left out.       *)
(***************************************************************************)
EXTENDS Naturals, Sequences, SequencesExt

CONSTANTS
  Name,      \* segments of a path
  Leaf,      \* what a file or a symlink is, all of a TreeEntry but its name
  Directory, \* what a path to a directory maps to
  None,
  MaxDepth,  \* MAX_DEPTH, for a path a change names
  Window     \* HISTORY_WINDOW

ASSUME FlatAssumption ==
  /\ Directory \notin Leaf /\ None \notin Leaf \cup {Directory}
  /\ MaxDepth \in Nat \ {0} /\ Window \in Nat \ {0}

Path == UNION {[1..n -> Name] : n \in 1..MaxDepth}

Change ==
  [op : {"put"}, path : Path, leaf : Leaf] \cup [op : {"mkdir", "rm"}, path : Path]
  \cup [op : {"mv"}, from : Path, to : Path]

(* q is p or below p.                                                       *)
Under(p, q) == IsPrefix(p, q)
Ancestors(p) == {SubSeq(p, 1, n) : n \in 1..Len(p) - 1}
==============================================================================
