------------------------------ MODULE MCLookups ------------------------------
(* A root, two replies to it and one reply to the first of them. *)
EXTENDS Lookups

MCIdLists ==
  {<<"m1">>, <<"m2", "m1">>, <<"m3", "m1">>, <<"m4", "m2", "m1">>}
=============================================================================
