--------------------------- MODULE MCDuckfsReplicas ---------------------------
(* Instances of DuckfsReplicas for TLC: every chunk is one byte long.        *)
EXTENDS DuckfsReplicas, TLC

MCChunkLen == [c \in Chunk |-> 1]
MCEntryLen == [e \in {"id", "staged", "pin", "watch"} |-> IF e = "pin" THEN 2 ELSE 1]

MCSymmetry == Permutations(Chunk) \cup Permutations(Path) \cup Permutations(Owner)

(* What the next steps and the properties can tell apart.  Revisions matter *)
(* by their distance from the committed one only.  A body of an earlier     *)
(* block is not minted again, so its tree is all that counts, and not even  *)
(* that when no refs name it: no verb can name it any more.                 *)
Since(r, n) == [r EXCEPT !.rev = @ - refs[n].rev]

Named == UNION {Roots(refs[n]) \cup Roots(pend[n].refs) : n \in Node}

MCView ==
  <<[s \in Snap |-> IF cat[s].at = height THEN cat[s]
                    ELSE IF s \in Named THEN [Unborn EXCEPT !.tree = cat[s].tree]
                    ELSE Unborn],
    minted,
    [n \in Node |-> <<Since(refs[n], n), Since(pend[n].refs, n), pend[n].objs>>],
    odb, height, ops>>
==============================================================================
