------------------------------- MODULE MCDuckfs -------------------------------
(* Instances of Duckfs for TLC: every chunk is one byte long, and chunks,    *)
(* owners, paths, pin names and retention keys are interchangeable.          *)
EXTENDS Duckfs, TLC

MCChunkLen == [c \in Chunk |-> 1]

(* Sizes in the proportions of the code: a staging entry outweighs an id. *)
MCEntryLen == [e \in {"id", "staged", "pin", "watch"} |->
                 IF e \in {"staged", "pin"} THEN 2 ELSE 1]

MCSymmetry ==
  Permutations(Chunk) \cup Permutations(Owner) \cup Permutations(Path)
    \cup Permutations(PinName) \cup Permutations(Watch) \cup Permutations(RetKey)
==============================================================================
