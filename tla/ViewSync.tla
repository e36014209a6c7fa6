------------------------------ MODULE ViewSync ------------------------------
(***************************************************************************)
(* A guest shows a tree through its host, frame by frame (lib.rs, Frame).  *)
(* A tick's tree crosses whole, not at all (unchanged), or as patches      *)
(* against the tree the host holds.  The host decodes and bounds what it   *)
(* gets; what it cannot take makes it drop its tree, and the next tick     *)
(* brings the guest Event::Resync.  Frame, apply, diff and sanitize are    *)
(* the repository's; the loop on either side is external, as the comments  *)
(* of Frame, Event::Resync, MAX_PATCHES and apply require it.              *)
(***************************************************************************)
EXTENDS ViewTree

CONSTANTS
  Views,          \* the trees a guest's view function makes
  HostilePatches, \* patches of a guest nobody wrote with care
  HostileSteps,   \* a bound on the frames with such patches
  NoTree          \* the host holds none / the guest remembers none

ASSUME ViewSentinel == NoTree \notin Views \cup {Refused}

VARIABLES
  tidy,       \* the producer sanitizes its tree before it sends (upstream_sanitization)
  last,       \* the tidy guest: the tree it sent last
  held,       \* the host: the tree it shows, NoTree or Refused
  hostile     \* frames of hostile patches so far

viewVars == <<tidy, last, held, hostile>>

HasTree == held \notin {NoTree, Refused}

------------------------------------------------------------------------------
(* The host takes a frame: what is refused leaves it without a tree.        *)

TakeWhole(root) == held' = IF Decodes(<<root>>) THEN SanitizeTree(root) ELSE Refused

TakePatches(patches) ==
  held' = IF Decodes([i \in DOMAIN patches |-> patches[i].node])
          THEN Apply(held, patches) ELSE Refused

------------------------------------------------------------------------------

ViewInit ==
  /\ tidy \in BOOLEAN
  /\ last = NoTree /\ held = NoTree /\ hostile = 0

\* A tidy guest sends its views as sanitize leaves them.
CleanViews == {SanitizeTree(view) : view \in Views} \ {Refused}

\* The first frame, the answer to Resync, and a diff past MAX_PATCHES.
SendWhole(tree) ==
  /\ tidy
  /\ \/ last = NoTree
     \/ ~HasTree
     \/ last # NoTree /\ Len(Diff(last, tree)) > MaxPatches
  /\ last' = tree
  /\ TakeWhole(tree)
  /\ UNCHANGED <<tidy, hostile>>

SendUnchanged(tree) ==
  /\ HasTree /\ last = tree
  /\ UNCHANGED viewVars

SendPatches(tree) ==
  /\ tidy /\ HasTree /\ last \notin {NoTree, tree}
  /\ LET patches == Diff(last, tree) IN
       /\ Len(patches) <= MaxPatches
       /\ TakePatches(patches)
  /\ last' = tree
  /\ UNCHANGED <<tidy, hostile>>

\* A guest that bounds nothing sends any tree and any patches.  A whole tree
\* takes the place of whatever the host holds, so it is enough to send it
\* to a host without one.
SendAny(view) ==
  /\ ~tidy /\ ~HasTree
  /\ TakeWhole(view)
  /\ UNCHANGED <<tidy, last, hostile>>

SendHostile(patches) ==
  /\ ~tidy /\ HasTree /\ hostile < HostileSteps
  /\ hostile' = hostile + 1
  /\ TakePatches(patches)
  /\ UNCHANGED <<tidy, last>>

\* The host drops its tree; a new instance of the guest remembers none.
HostDrop == HasTree /\ held' = NoTree /\ UNCHANGED <<tidy, last, hostile>>
GuestRestart == last # NoTree /\ last' = NoTree /\ UNCHANGED <<tidy, held, hostile>>

ViewNext ==
  \/ \E tree \in CleanViews : SendWhole(tree) \/ SendUnchanged(tree) \/ SendPatches(tree)
  \/ \E view \in Views : SendAny(view)
  \/ \E p, q \in HostilePatches : SendHostile(<<p>>) \/ SendHostile(<<p, q>>)
  \/ HostDrop
  \/ GuestRestart

ViewSpec == ViewInit /\ [][ViewNext]_viewVars

------------------------------------------------------------------------------

\* A guest that sanitizes what it sends is never refused, and what the host
\* shows is the tree the guest takes its next diff from: through whole
\* frames, patches with moves and renamed keys, Resync and restarts (apply,
\* diff and sanitize of lib.rs and patch.rs agree on such trees).
HostShowsSent ==
  tidy => /\ held # Refused
          /\ HasTree /\ last # NoTree => held = last

\* Whatever the guest sends, a tree the host shows is within the bounds of
\* sanitize: its height, its text and its documents; no key stands twice;
\* and its nodes exceed MAX_NODES by uncharged stand-ins at most: one for
\* each level above the node that took the last of the budget, two below it.
HostBounded ==
  HasTree => /\ Height(held) <= MaxDepth
             /\ Text(held) <= MaxText
             /\ ValidReferences(References(held))
             /\ IsInjective(Keys(held))
             /\ Count(held) <= MaxNodes + MaxDepth + 1
=============================================================================
