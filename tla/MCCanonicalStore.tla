-------------------------- MODULE MCCanonicalStore --------------------------
(* Ids one of which is the concatenation of two others; a branching tree;  *)
(* lists that upsert must refuse.                                          *)
EXTENDS CanonicalStore

MCIdLists ==
  {<<"a">>, <<"b">>, <<"ab">>, <<"a", "b">>, <<"b", "b">>, <<"ab", "b">>,
   <<"b", "a", "b">>, <<"a", "ab", "b">>, << >>, <<"a", " ">>}
=============================================================================
