------------------------------ MODULE ModuleCalls ------------------------------
(***************************************************************************)
(* The calls a module's logic makes on whatever runs it: the state lane    *)
(* (MerkleStore, sdk lib.rs 619-656), a sibling query, the object plane    *)
(* and the messages it emits (Ctx).  A program is a short sequence of      *)
(* them; values are opaque.                                                *)
(***************************************************************************)
EXTENDS Naturals, Sequences, FiniteSets

CONSTANTS
  Key,      \* logical keys of the module's state
  Val,      \* values
  Obj,      \* contents of the object plane
  Refs,     \* the key an object-backed module keeps its refs image under
  None,     \* absence; as an overlay entry, a delete
  Hole,     \* not in the overlay, not in the memo
  Kind,     \* backings to consider, a subset of {"map", "store", "odb"}
  Programs  \* what the logic over each backing may do: kind -> set of programs

Slot == Key \cup {Refs}
Datum == Val \cup Obj \cup {None}
Reply == Val \cup {None}   \* what a sibling answers
Overlay == [Slot -> Datum \cup {Hole}]
NoWrites == [k \in Slot |-> Hole]

(* An object-backed module writes an object and then names it in its refs,  *)
(* or names one it finds; the others read and write keys.                   *)
ObjectStmt == [op : {"put_object", "link"}, obj : Obj]
StateStmt ==
  [op : {"put"}, to : Key, val : Val \cup {None}]
  \cup {c \in [op : {"copy", "frozen"}, from : Key, to : Key] : c.from # c.to}
  \cup [op : {"ask"}, to : Key]
  \cup [op : {"prefetch"}, keys : {Key}]
Stmt(kind) == [op : {"reject", "emit"}] \cup (IF kind = "odb" THEN ObjectStmt ELSE StateStmt)

ASSUME CallsAssumption ==
  /\ Kind \subseteq {"map", "store", "odb"}
  /\ Refs \notin Key /\ None # Hole
  /\ {None, Hole} \cap (Val \cup Obj) = {}
  /\ DOMAIN Programs = Kind
  /\ \A k \in Kind : Programs[k] \subseteq Seq(Stmt(k))
==============================================================================
