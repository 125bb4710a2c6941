------------------------- MODULE CanonicalRegistry -------------------------
(***************************************************************************)
(* What ingestion promises of its result, whichever store keeps it: a      *)
(* document is registered once, under the canonical id its content         *)
(* determines, and never moves; a canonical thread exists from the moment  *)
(* its first document is registered, and only then; nothing is removed.    *)
(* The order of registrations is free.                                     *)
(***************************************************************************)
CONSTANTS
  Documents,
  CanonicalIds,
  None,
  Outcomes   \* the <<document, canonical id>> pairs a registration can make

VARIABLES
  assigned,  \* canonical id of each registered document, None before
  observed   \* the canonical threads that exist

vars == <<assigned, observed>>

Init ==
  /\ assigned = [d \in Documents |-> None]
  /\ observed = {}

Register(d, c) ==
  /\ <<d, c>> \in Outcomes
  /\ assigned[d] = None
  /\ assigned' = [assigned EXCEPT ![d] = c]
  /\ observed' = observed \cup {c}

Next == \E d \in Documents, c \in CanonicalIds : Register(d, c)

Spec == Init /\ [][Next]_vars
=============================================================================
