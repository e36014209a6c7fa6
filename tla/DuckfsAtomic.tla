----------------------------- MODULE DuckfsAtomic -----------------------------
(***************************************************************************)
(* What duckfs promises about blocks: a durable image, and at most one     *)
(* draft that operations extend.  The image moves only by taking a whole   *)
(* draft; an aborted block or a crash drops the draft and nothing else.    *)
(* Flushing, adopting, sweeping and restarting are invisible here.         *)
(***************************************************************************)
EXTENDS Naturals

CONSTANTS
  Image,    \* states of the file system, each with its revision rev
  Genesis   \* the first of them

VARIABLES image, draft

vars == <<image, draft>>

Drafts == [open : BOOLEAN, refs : Image]
NoDraft == [open |-> FALSE, refs |-> Genesis]

Init == image = Genesis /\ draft = NoDraft

(* The state the next operation works on. *)
View == IF draft.open THEN draft.refs ELSE image

(* An operation leaves the state as it is, or takes it to a later revision. *)
Operate ==
  /\ draft' \in Drafts /\ draft'.open
  /\ draft'.refs = View \/ draft'.refs.rev > View.rev
  /\ UNCHANGED image

Commit == draft.open /\ image' = draft.refs /\ draft' = NoDraft

Drop == draft' = NoDraft /\ UNCHANGED image

Next == Operate \/ Commit \/ Drop

Spec == Init /\ [][Next]_vars
==============================================================================
