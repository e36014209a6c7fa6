------------------------------ MODULE MCChat ------------------------------
(* An instance of chat's index and client for TLC: two message contents     *)
(* that share a word but no hashtag; message ids are interchangeable.       *)
EXTENDS ChatClient

CONSTANTS g, d, w1, w2, h1, h2

MCBody == {[tokens |-> {w1}, tags |-> {h1}], [tokens |-> {w1, w2}, tags |-> {h2}]}

(* g begins with one message older than the index; the id of d is that of   *)
(* g, a slash and a segment.                                                *)
MCFloor == [c \in Channel |-> IF c = g THEN 1 ELSE 0]
MCNested == {<<g, d>>}
(* What is said while a reader or the client is there.                      *)
MCSeenBody == {[tokens |-> {w1}, tags |-> {h1}]}
MCSymmetry == Permutations(Id)
==============================================================================
