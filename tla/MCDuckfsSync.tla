----------------------------- MODULE MCDuckfsSync -----------------------------
(* An instance of DuckfsSync for TLC: two snapshots over trees that share a  *)
(* chunk.  The first leaves the window and is pinned again a block later; a  *)
(* chunk is staged and expires.  Neither peer can serve a whole image: both  *)
(* lack an object, one has a corrupt copy of another, and the chunks alone   *)
(* exceed a reply.                                                           *)
EXTENDS DuckfsSync

CONSTANTS s1, t1, s2, t2, c1, c2, c3, a, b

MCOrder == <<c2, t2, c1, s1, s2, t1, c3>>
MCKids == [o \in Obj |-> CASE o = s1 -> {t1} [] o = t1 -> {c1, c2}
                           [] o = s2 -> {t2} [] o = t2 -> {c2} [] OTHER -> {}]
MCCost == [o \in Obj |-> IF o \in Chunk THEN 3 ELSE 1]
MCImage == <<{s1}, {s2, c3}, {s1, s2}>>
MCLost == [p \in Peer |-> IF p = a THEN {t1} ELSE {c1, t2}]
MCSpoilt == [p \in Peer |-> IF p = a THEN {c2} ELSE {}]
==============================================================================
