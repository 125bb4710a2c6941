---------------------------- MODULE MCEvaluation ----------------------------
(* A root, a reply with a near-duplicate, a reply to the reply, and a misnomer. *)
EXTENDS Evaluation

name(path, base, variant) == [path |-> path, base |-> base, variant |-> variant]

\* 1, 1_0, 1_0_0, 1_0b, and 1_b, which has no label.
MCFileNames ==
  <<name(<<>>, "1", ""), name(<<"1">>, "0", ""), name(<<"1", "0">>, "0", ""),
    name(<<"1">>, "0", "b"), name(<<"1">>, "", "b")>>

\* bound: only in a directory of 1_0_0 alone there is more than one departure
\* from the plain form, and with the misnomer there is none.
MCDepartures ==
  /\ Cardinality(variations(corpus')) > 1 => DOMAIN corpus' = {3}
  /\ 5 \in DOMAIN corpus' => variations(corpus') = {}

MCMessageIds == <<"m1", "m2", "m3">>
=============================================================================
