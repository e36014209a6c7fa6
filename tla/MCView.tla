------------------------------- MODULE MCView -------------------------------
(***************************************************************************)
(* Instances of view-wire's two lanes for TLC: the tree a guest shows      *)
(* (ViewSync) and the document an editor node refers to (EditorMirror).    *)
(* They share only the frame that carries both, so a behaviour is one of   *)
(* either lane, the other at rest.                                         *)
(***************************************************************************)
EXTENDS ViewSync, EditorMirror

Node(kind, key, kids) == [Empty EXCEPT !.kind = kind, !.key = key, !.kids = kids]
TextNode(key, length) == [Empty EXCEPT !.kind = "text", !.key = key, !.data = length]
EditorNode(key, rev) == [Empty EXCEPT !.kind = "editor", !.key = key, !.doc = <<"draft", rev>>]

KeyA == <<"a">>
KeyB == <<"b">>
KeyA2 == <<"a", 2>>     \* the key a guest may send that a renamed KeyA would take

\* Children that change in place, move, come twice, take each other's keys,
\* grow a child, and show two states of one document.
MCKids == {
  TextNode(KeyA, 1), TextNode(KeyA, 3), TextNode(KeyA2, 1), Empty,
  Node("slot", KeyB, <<>>), Node("slot", KeyB, <<TextNode(KeyA, 1)>>),
  Node("slot", KeyB, <<TextNode(KeyB, 2)>>),
  EditorNode(KeyB, 1), EditorNode(KeyA, 2)}

\* Columns of children, and shapes that meet the height and the node budget.
MCViews ==
  {Node("list", KeyA, kids) : kids \in UNION {[1..n -> MCKids] : n \in 0..3}}
  \cup {Node("pair", KeyB, <<Node("slot", KeyA, <<Node("list", KeyA, <<x, y>>)>>), x, y>>) :
          x, y \in MCKids}
  \cup {Node("list", KeyB, <<TextNode(KeyA, 1), Node("pair", KeyA, <<Node("pair", KeyB, <<x, y>>), y>>)>>) :
          x, y \in MCKids}

MCHostile == {
  RemovePatch(<<>>, 1), MovePatch(<<>>, 2, 1),
  PropsAt(<<1>>, Node("slot", KeyB, <<Empty>>)),
  InsertPatch(<<>>, 2, Node("pair", KeyA, <<Node("slot", KeyA, <<TextNode(KeyA, 2)>>), TextNode(KeyB, 2)>>)),
  ReplaceAtPath(<<1>>, Node("slot", KeyB, <<Node("pair", KeyB, <<EditorNode(KeyA, 2)>>)>>))}

\* "c" and "l" are the bytes of a line end, "p" leads the character p q and
\* the character p r.  The texts take none, one, two and three chunks.
MCJoined2 == {<<"c", "l">>, <<"l", "c">>, <<"p", "q">>, <<"p", "r">>}
MCByte == {"c", "l", "p", "q", "r", "x"}
MCTexts == {
  <<>>, <<"c", "l">>,
  <<"x", "p", "q", "x">>, <<"x", "p", "r", "x">>, <<"x", "c", "l", "p", "q">>}

MirrorRests == MirrorInit /\ texts = <<<<>>>> /\ InStep

ViewWireInit == ViewInit /\ MirrorInit

ViewWireNext ==
  \/ MirrorRests /\ ViewNext /\ UNCHANGED mirrorVars
  \/ ViewInit /\ tidy /\ MirrorNext /\ UNCHANGED viewVars

ViewWireSpec ==
  ViewWireInit /\ [][ViewWireNext]_<<viewVars, mirrorVars>> /\ MirrorFairness
=============================================================================
