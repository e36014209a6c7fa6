------------------------------ MODULE DuckfsFlat ------------------------------
(***************************************************************************)
(* What commits promise about the files namespace, as a map from paths to  *)
(* what is there: a plan of changes takes effect as a whole and in order,  *)
(* and takes away or replaces nothing its author had not seen in the base. *)
(* A snapshot stays what it was for as long as it can be named.  DuckfsTree *)
(* implements it with shared, lazily edited tree objects.                  *)
(***************************************************************************)
EXTENDS DuckfsPaths

VARIABLES
  snaps,  \* the snapshots of the window, the head last, each a namespace
  last    \* the commit that made the head: which of the snapshots before it was its base (0: none), its plan

Nothing == [p \in {} |-> None]

Init == snaps = <<>> /\ last = [base |-> 0, plan |-> <<>>]

------------------------------------------------------------------------------
IsDirectory(ns, p) == p = <<>> \/ (p \in DOMAIN ns /\ ns[p] = Directory)
Without(ns, p) == [q \in {x \in DOMAIN ns : ~Under(p, x)} |-> ns[q]]

(* Missing parents are made; a leaf in the way refuses.                     *)
Passable(ns, p) == \A q \in Ancestors(p) \cap DOMAIN ns : ns[q] = Directory

With(ns, p, v) ==
  LET rest == Without(ns, p) IN
  [q \in DOMAIN rest \cup Ancestors(p) \cup {p} |->
     IF q = p THEN v ELSE IF q \in DOMAIN rest THEN rest[q] ELSE Directory]

(* Everything under `from` goes on under `to`.                              *)
Moved(ns, from, to) ==
  LET rest == Without(ns, from)
      Was(q) == from \o SubSeq(q, Len(to) + 1, Len(q))
      there == {to \o SubSeq(q, Len(from) + 1, Len(q)) : q \in {x \in DOMAIN ns : Under(from, x)}}
  IN [q \in DOMAIN rest \cup there |-> IF q \in there THEN ns[Was(q)] ELSE rest[q]]

Can(ns, c) ==
  CASE c.op = "put" -> Passable(ns, c.path)
    [] c.op = "mkdir" -> Passable(ns, c.path) /\ c.path \notin DOMAIN ns
    [] c.op = "rm" -> c.path \in DOMAIN ns
    [] c.op = "mv" -> /\ c.from \in DOMAIN ns /\ ~Under(c.from, c.to)
                      /\ IsDirectory(ns, Front(c.to)) /\ c.to \notin DOMAIN ns

After(ns, c) ==
  CASE c.op = "put" -> With(ns, c.path, c.leaf)
    [] c.op = "mkdir" -> With(ns, c.path, Directory)
    [] c.op = "rm" -> Without(ns, c.path)
    [] c.op = "mv" -> Moved(ns, c.from, c.to)

(* The changes of a plan see each other.                                    *)
Result(ns, plan) ==
  LET step[i \in 0..Len(plan)] ==
        IF i = 0 THEN ns
        ELSE IF step[i - 1] = None \/ ~Can(step[i - 1], plan[i]) THEN None
        ELSE After(step[i - 1], plan[i])
  IN step[Len(plan)]

(* What is gone, or is something else, was in the base as it was in the     *)
(* head.                                                                    *)
NoLostUpdate(base, head, new) ==
  \A q \in DOMAIN head :
    (q \notin DOMAIN new \/ new[q] # head[q]) => q \in DOMAIN base /\ base[q] = head[q]

At(n) == IF n = 0 THEN Nothing ELSE snaps[n]

Commit ==
  /\ last'.base \in 0..Len(snaps) /\ last'.plan # <<>>
  /\ \E new \in {Result(At(Len(snaps)), last'.plan)} :
       /\ new # None
       /\ NoLostUpdate(At(last'.base), At(Len(snaps)), new)
       /\ \E all \in {Append(snaps, new)} :
            snaps' = IF Len(all) > Window THEN Tail(all) ELSE all

Spec == Init /\ [][Commit]_<<snaps, last>>
==============================================================================
