--------------------------- MODULE CanonicalStore ---------------------------
(***************************************************************************)
(* The in-memory store of hierarchy.py, with which scripts/evaluate.py     *)
(* scores a corpus: upsert, and the relations it resolves when asked.      *)
(***************************************************************************)
EXTENDS CanonicalNodes

CONSTANTS
  Documents,
  BlankDocuments,
  IdLists         \* the message_ids that callers pass, good and bad

ASSUME IdListsAreLists == IdLists \subseteq Seq(STRING)

VARIABLES
  nodes,      \* _nodes: the observed threads by canonical id
  documents   \* _documents: the canonical id of each document, None before

vars == <<nodes, documents>>

GoodIdLists == {ids \in IdLists : encodable(ids)}

CanonicalIds == {canonical_id_for(ids) : ids \in GoodIdLists}

ASSUME NoneIsNoCanonicalId == None \notin CanonicalIds

canonical_ids == DOMAIN nodes

Init ==
  /\ nodes = no_nodes
  /\ documents = [d \in Documents |-> None]

\* Mutant: nobody checks whether the document has moved.
rejects_without_mapping(d, ids) ==
  encodable(ids) => d \in BlankDocuments \/ collides(nodes, ids)

\* The ValueErrors of upsert; each is raised before anything is changed.
rejects(d, ids) ==
  encodable(ids) =>
    \/ d \in BlankDocuments
    \/ documents[d] \notin {None, canonical_id_for(ids)}
    \/ collides(nodes, ids)

Upsert(d, ids) ==
  /\ ~rejects(d, ids)
  /\ nodes' = upserted(nodes, d, ids)
  /\ documents' = [documents EXCEPT ![d] = canonical_id_for(ids)]

RejectUpsert(d, ids) == rejects(d, ids) /\ UNCHANGED vars

Next ==
  \E d \in Documents, ids \in IdLists : Upsert(d, ids) \/ RejectUpsert(d, ids)

Spec == Init /\ [][Next]_vars

-----------------------------------------------------------------------------

\* The variables have their types.
TypeOK ==
  /\ canonical_ids \subseteq CanonicalIds
  /\ \A c \in canonical_ids :
       /\ nodes[c].message_ids \in GoodIdLists
       /\ nodes[c].expected_parent_id \in {None} \cup {canonical_id_for(Tail(ids)) :
                                             ids \in {l \in GoodIdLists : Len(l) > 1}}
       /\ nodes[c].document_ids \subseteq Documents
  /\ documents \in [Documents -> CanonicalIds \cup {None}]

\* The two indexes of the store agree after any sequence of calls, failed
\* calls included: the documents of a node are those mapped to it
\* (CanonicalStore.upsert writes both).
IndexesAgree ==
  \A d \in Documents, c \in CanonicalIds :
    documents[d] = c <=> d \in documents_for(nodes, c)

\* Ids decide, not hashes: whatever has been upserted, no good list of ids
\* is taken for another one, so a document that is not mapped yet is always
\* accepted (encode_message_ids and the collision check of upsert).
NewDocumentsAccepted ==
  \A d \in Documents \ BlankDocuments, ids \in GoodIdLists :
    documents[d] = None => ~rejects(d, ids)

\* The edges depend on which threads were observed and not on the order:
\* they join exactly the observed threads that differ by the newest message.
EdgesFollowTheIds ==
  LET observed == {nodes[c].message_ids : c \in canonical_ids}
  IN  resolved_edges(nodes) =
        {<<canonical_id_for(Tail(ids)), canonical_id_for(ids)>> :
           ids \in {l \in observed : Tail(l) \in observed}}

\* The store implements the registry that the database implements.
Registry == INSTANCE CanonicalRegistry WITH
  Outcomes <- {<<d, canonical_id_for(ids)>> :
                 d \in Documents \ BlankDocuments, ids \in GoodIdLists},
  assigned <- documents,
  observed <- canonical_ids

UpsertsAreRegistrations == Registry!Spec
=============================================================================
