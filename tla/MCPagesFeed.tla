---------------------------- MODULE MCPagesFeed ----------------------------
EXTENDS PagesFeed

(* "w" is a character of two UTF-16 units.                                  *)
MCWide == {"w"}
MCFresh == <<"a">>
MCTexts == [tree |-> {<<"a", "b">>}, records |-> {<<"a">>, <<"a", "b">>},
            text |-> {<<"a", "w">>, <<"w", "a">>, <<"a", "w", "b">>, <<"b">>, <<"a", "b", "w", "a">>}]
MCMaxOps == [tree |-> 4, records |-> 5, text |-> 4]

Sym == Permutations(Id)
=============================================================================
