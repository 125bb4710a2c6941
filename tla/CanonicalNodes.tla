--------------------------- MODULE CanonicalNodes ---------------------------
(***************************************************************************)
(* The _nodes of hierarchy.py's CanonicalStore as a value: a function from *)
(* the canonical ids that were observed to their nodes, with what upsert   *)
(* makes of it and the relations that are resolved when asked.             *)
(***************************************************************************)
EXTENDS Canonicalization

no_nodes == << >>

documents_for(nodes, c) == IF c \in DOMAIN nodes THEN nodes[c].document_ids ELSE {}

node(ids, document_ids) ==
  [message_ids        |-> ids,
   expected_parent_id |-> expected_parent_id_for(ids),
   document_ids       |-> document_ids]

\* Mutant: the node is made anew for every document.
upserted_anew(nodes, d, ids) == (canonical_id_for(ids) :> node(ids, {d})) @@ nodes

\* Mutant: the parent is remembered only if it is there already.
upserted_early(nodes, d, ids) ==
  LET c == canonical_id_for(ids)
      n == node(ids, documents_for(nodes, c) \cup {d})
  IN  (c :> [n EXCEPT !.expected_parent_id =
               IF c \in DOMAIN nodes THEN nodes[c].expected_parent_id
               ELSE IF @ \in DOMAIN nodes THEN @ ELSE None]) @@ nodes

upserted(nodes, d, ids) ==
  LET c == canonical_id_for(ids)
  IN  [x \in DOMAIN nodes \cup {c} |->
         IF x = c THEN node(ids, documents_for(nodes, c) \cup {d}) ELSE nodes[x]]

\* The digest is already that of a thread with other Message-IDs.
collides(nodes, ids) ==
  /\ canonical_id_for(ids) \in DOMAIN nodes
  /\ nodes[canonical_id_for(ids)].message_ids # ids

resolved_parent(nodes, c) ==
  IF c \in DOMAIN nodes /\ nodes[c].expected_parent_id \in DOMAIN nodes
  THEN nodes[c].expected_parent_id
  ELSE None

resolved_edges(nodes) ==
  {<<resolved_parent(nodes, c), c>> :
     c \in {x \in DOMAIN nodes : resolved_parent(nodes, x) # None}}
=============================================================================
