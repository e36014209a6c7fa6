----------------------------- MODULE MCDuckfsDisk -----------------------------
(* Blocks of three objects in two directories, of which two share one, or   *)
(* blocks and joins about the two that do not.                              *)
EXTENDS DuckfsScratch, TLC

CONSTANTS o1, o2, o3, aa, bb, a1, a2

MCDirOf == (o1 :> aa) @@ (o2 :> bb) @@ (o3 :> aa)
MCTarget == {{o1, o2}, {o2}}

MCSymmetry == Permutations(Attempt)

MCBound ==
  \/ live = Canonical /\ used = {} /\ \A a \in Attempt : scratch[a] = {}
  \/ o3 \notin seen \cup durable \cup block.objs
==============================================================================
