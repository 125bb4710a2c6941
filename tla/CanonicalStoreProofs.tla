------------------------ MODULE CanonicalStoreProofs ------------------------
(***************************************************************************)
(* Proofs about the in-memory store: its indexes agree, it implements the  *)
(* registry, and, where digests tell lists of ids apart, the edges it      *)
(* resolves are those of the lists it was given.                           *)
(***************************************************************************)
EXTENDS CanonicalStore, TLAPS

-----------------------------------------------------------------------------
(* The invariant                                                           *)

\* A node is found under the digest of its ids and expects their parent.
Keyed ==
  \A c \in canonical_ids :
    /\ canonical_id_for(nodes[c].message_ids) = c
    /\ nodes[c].expected_parent_id = expected_parent_id_for(nodes[c].message_ids)

StoreInv == TypeOK /\ Keyed /\ IndexesAgree

\* Digests tell the lists of ids apart, and those of their parents: SHA-256
\* has no collision among them and no id holds the separator.
IdsDecide ==
  \A ids, l \in GoodIdLists :
    /\ canonical_id_for(ids) = canonical_id_for(l) => ids = l
    /\ Len(ids) > 1 /\ canonical_id_for(Tail(ids)) = canonical_id_for(l) =>
         Tail(ids) = l

-----------------------------------------------------------------------------
(* Lists of ids                                                            *)

\* A list that is encodable has an id, and so has what is left of a longer
\* one.
LEMMA GoodIdListsAreLists ==
  ASSUME NEW ids \in GoodIdLists
  PROVE  /\ ids \in Seq(STRING)
         /\ Len(ids) \in Nat \ {0}
         /\ canonical_id_for(ids) \in CanonicalIds
         /\ canonical_id_for(ids) # None
<1>1. ids \in Seq(STRING) /\ ids # << >>
  BY IdListsAreLists DEF GoodIdLists, encodable
<1>2. Len(ids) \in Nat \ {0}
  BY <1>1
<1>3. canonical_id_for(ids) \in CanonicalIds
  BY DEF CanonicalIds
<1> QED
  BY <1>1, <1>2, <1>3, NoneIsNoCanonicalId

LEMMA TailOfList ==
  ASSUME NEW l \in Seq(STRING), Len(l) \in Nat \ {0}
  PROVE  Len(Tail(l)) = Len(l) - 1
  OBVIOUS

\* The parent of a list is None or the digest of the rest of it.
LEMMA ParentOfList ==
  ASSUME NEW ids \in GoodIdLists
  PROVE  \/ Len(ids) = 1 /\ expected_parent_id_for(ids) = None
         \/ Len(ids) > 1 /\ expected_parent_id_for(ids) = canonical_id_for(Tail(ids))
<1>1. Len(ids) = 1 \/ (Len(ids) > 1 /\ Len(ids) # 1)
  <2>1. Len(ids) \in Nat \ {0}
    BY GoodIdListsAreLists
  <2> QED
    BY <2>1
<1> QED
  BY <1>1, Zenon DEF expected_parent_id_for

-----------------------------------------------------------------------------
(* Invariance                                                              *)

LEMMA StoreInvInit == Init => StoreInv
  BY NoneIsNoCanonicalId
     DEF Init, StoreInv, TypeOK, Keyed, IndexesAgree, canonical_ids, no_nodes,
         documents_for

\* What upsert accepts, with the node it leaves.
LEMMA UpsertEffect ==
  ASSUME StoreInv, NEW d \in Documents, NEW ids \in IdLists, Upsert(d, ids)
  PROVE  \E c \in CanonicalIds :
           /\ c = canonical_id_for(ids)
           /\ ids \in GoodIdLists
           /\ d \notin BlankDocuments
           /\ documents[d] \in {None, c}
           /\ documents' = [documents EXCEPT ![d] = c]
           /\ DOMAIN nodes' = DOMAIN nodes \cup {c}
           /\ nodes'[c] = node(ids, documents_for(nodes, c) \cup {d})
           /\ \A x \in DOMAIN nodes : x # c => nodes'[x] = nodes[x]
<1>1. /\ ids \in GoodIdLists
      /\ d \notin BlankDocuments
      /\ documents[d] \in {None, canonical_id_for(ids)}
  BY DEF Upsert, rejects, GoodIdLists
<1>2. canonical_id_for(ids) \in CanonicalIds
  BY <1>1, GoodIdListsAreLists
<1>3. /\ nodes' = upserted(nodes, d, ids)
      /\ documents' = [documents EXCEPT ![d] = canonical_id_for(ids)]
  BY DEF Upsert
<1> QED
  BY <1>1, <1>2, <1>3 DEF upserted

LEMMA UpsertKeepsInv ==
  ASSUME StoreInv, NEW d \in Documents, NEW ids \in IdLists, Upsert(d, ids)
  PROVE  StoreInv'
<1>1. PICK c \in CanonicalIds :
        /\ c = canonical_id_for(ids)
        /\ ids \in GoodIdLists
        /\ d \notin BlankDocuments
        /\ documents[d] \in {None, c}
        /\ documents' = [documents EXCEPT ![d] = c]
        /\ DOMAIN nodes' = DOMAIN nodes \cup {c}
        /\ nodes'[c] = node(ids, documents_for(nodes, c) \cup {d})
        /\ \A x \in DOMAIN nodes : x # c => nodes'[x] = nodes[x]
  BY UpsertEffect
<1>2. /\ nodes'[c].message_ids = ids
      /\ nodes'[c].expected_parent_id = expected_parent_id_for(ids)
      /\ nodes'[c].document_ids = documents_for(nodes, c) \cup {d}
  BY <1>1 DEF node
<1>3. TypeOK'
  <2>1. documents_for(nodes, c) \subseteq Documents
    BY DEF StoreInv, TypeOK, documents_for, canonical_ids
  <2>2. expected_parent_id_for(ids) \in
          {None} \cup {canonical_id_for(Tail(l)) :
                         l \in {x \in GoodIdLists : Len(x) > 1}}
    BY <1>1, ParentOfList
  <2>3. documents' \in [Documents -> CanonicalIds \cup {None}]
    BY <1>1 DEF StoreInv, TypeOK
  <2> QED
    BY <1>1, <1>2, <2>1, <2>2, <2>3 DEF StoreInv, TypeOK, canonical_ids
<1>4. Keyed'
  BY <1>1, <1>2 DEF StoreInv, Keyed, canonical_ids
<1>5. IndexesAgree'
  <2> SUFFICES ASSUME NEW e \in Documents, NEW x \in CanonicalIds
               PROVE  documents'[e] = x <=> e \in documents_for(nodes', x)
    BY DEF IndexesAgree
  <2>1. documents[e] = x <=> e \in documents_for(nodes, x)
    BY DEF StoreInv, IndexesAgree
  <2>2. documents'[e] = IF e = d THEN c ELSE documents[e]
    BY <1>1 DEF StoreInv, TypeOK
  <2>3. documents_for(nodes', x) =
          documents_for(nodes, x) \cup (IF x = c THEN {d} ELSE {})
    BY <1>1, <1>2 DEF documents_for
  <2>4. x # None
    BY NoneIsNoCanonicalId
  <2> QED
    BY <1>1, <2>1, <2>2, <2>3, <2>4
<1> QED
  BY <1>3, <1>4, <1>5 DEF StoreInv

LEMMA StoreInvStep == StoreInv /\ [Next]_vars => StoreInv'
<1> SUFFICES ASSUME StoreInv, [Next]_vars PROVE StoreInv'
  OBVIOUS
<1>1. CASE UNCHANGED vars
  BY <1>1 DEF vars, StoreInv, TypeOK, Keyed, IndexesAgree, canonical_ids,
     documents_for
<1>2. CASE Next
  BY <1>1, <1>2, UpsertKeepsInv DEF Next, RejectUpsert
<1> QED
  BY <1>1, <1>2

LEMMA StoreInvHolds == Spec => []StoreInv
  BY StoreInvInit, StoreInvStep, PTL DEF Spec

-----------------------------------------------------------------------------
(* The theorems                                                            *)

\* The two indexes of the store agree after any sequence of upserts, the
\* refused ones included (CanonicalStore.upsert).
THEOREM StoreIndexesAgree == Spec => []IndexesAgree
<1>1. StoreInv => IndexesAgree
  BY DEF StoreInv
<1> QED
  BY <1>1, StoreInvHolds, PTL

\* Nodes and mappings have their types, and an expected parent is that of some
\* list of ids, for all documents and lists (CanonicalStore.upsert).
THEOREM StoreTypes == Spec => []TypeOK
<1>1. StoreInv => TypeOK
  BY DEF StoreInv
<1> QED
  BY <1>1, StoreInvHolds, PTL

\* An upsert registers a document or repeats a registration.
LEMMA UpsertRegisters ==
  ASSUME StoreInv, NEW d \in Documents, NEW ids \in IdLists, Upsert(d, ids)
  PROVE  Registry!Next \/ UNCHANGED <<documents, canonical_ids>>
<1>1. PICK c \in CanonicalIds :
        /\ c = canonical_id_for(ids)
        /\ ids \in GoodIdLists
        /\ d \notin BlankDocuments
        /\ documents[d] \in {None, c}
        /\ documents' = [documents EXCEPT ![d] = c]
        /\ DOMAIN nodes' = DOMAIN nodes \cup {c}
        /\ nodes'[c] = node(ids, documents_for(nodes, c) \cup {d})
        /\ \A x \in DOMAIN nodes : x # c => nodes'[x] = nodes[x]
  BY UpsertEffect
<1>2. CASE documents[d] = None
  <2>1. Registry!Register(d, c)
    BY <1>1, <1>2 DEF Registry!Register, canonical_ids
  <2> QED
    BY <2>1 DEF Registry!Next
<1>3. CASE documents[d] = c
  <2>1. c \in DOMAIN nodes
    BY <1>3 DEF StoreInv, IndexesAgree, documents_for
  <2> QED
    BY <1>1, <1>3, <2>1 DEF StoreInv, TypeOK, canonical_ids
<1> QED
  BY <1>1, <1>2, <1>3

\* The in-memory store keeps what the database promises: a document is
\* registered once and never moves, a thread exists from its first document
\* on, and nothing is removed (CanonicalStore.upsert).
THEOREM StoreImplementsRegistry == Spec => UpsertsAreRegistrations
<1>1. Init => Registry!Init
  BY DEF Init, Registry!Init, canonical_ids, no_nodes
<1>2. StoreInv /\ [Next]_vars => [Registry!Next]_Registry!vars
  <2> SUFFICES ASSUME StoreInv, [Next]_vars
               PROVE  Registry!Next \/ UNCHANGED <<documents, canonical_ids>>
    BY DEF Registry!vars
  <2>1. CASE UNCHANGED vars
    BY <2>1 DEF vars, canonical_ids
  <2>2. ASSUME NEW d \in Documents, NEW ids \in IdLists, Upsert(d, ids)
        PROVE  Registry!Next \/ UNCHANGED <<documents, canonical_ids>>
    BY <2>2, UpsertRegisters
  <2> QED
    BY <2>1, <2>2 DEF Next, RejectUpsert
<1> QED
  BY <1>1, <1>2, StoreInvHolds, PTL DEF Spec, UpsertsAreRegistrations, Registry!Spec

\* Where digests tell lists of ids apart, the resolved edges join exactly the
\* observed threads that differ by the newest message: they depend on what
\* was observed and not on the order (CanonicalStore.resolved_edges).
THEOREM EdgesAreThoseOfTheIds ==
  ASSUME IdsDecide
  PROVE  Spec => []EdgesFollowTheIds
<1> DEFINE observed == {nodes[c].message_ids : c \in canonical_ids}
           followed == {<<canonical_id_for(Tail(ids)), canonical_id_for(ids)>> :
                          ids \in {l \in observed : Tail(l) \in observed}}
<1>1. StoreInv => EdgesFollowTheIds
  <2> SUFFICES ASSUME StoreInv PROVE resolved_edges(nodes) = followed
    BY DEF EdgesFollowTheIds
  <2>1. ASSUME NEW c \in canonical_ids
        PROVE  /\ nodes[c].message_ids \in GoodIdLists
               /\ canonical_id_for(nodes[c].message_ids) = c
               /\ nodes[c].expected_parent_id =
                    expected_parent_id_for(nodes[c].message_ids)
               /\ c # None
    BY NoneIsNoCanonicalId DEF StoreInv, TypeOK, Keyed
  <2>2. ASSUME NEW c \in canonical_ids, resolved_parent(nodes, c) # None
        PROVE  <<resolved_parent(nodes, c), c>> \in followed
    <3> DEFINE ids == nodes[c].message_ids
               p == resolved_parent(nodes, c)
    <3>1. p \in canonical_ids /\ p = expected_parent_id_for(ids)
      BY <2>1, <2>2 DEF resolved_parent, canonical_ids
    <3>2. Len(ids) > 1 /\ p = canonical_id_for(Tail(ids))
      BY <2>1, <2>2, <3>1, ParentOfList
    <3>3. Tail(ids) = nodes[p].message_ids
      <4>1. /\ ids \in GoodIdLists
            /\ nodes[p].message_ids \in GoodIdLists
            /\ canonical_id_for(Tail(ids)) = canonical_id_for(nodes[p].message_ids)
        BY <2>1, <3>1, <3>2
      <4> HIDE DEF ids, p
      <4> QED
        BY <3>2, <4>1, Zenon DEF IdsDecide
    <3> QED
      BY <2>1, <3>1, <3>2, <3>3
  <2>3. ASSUME NEW ids \in observed, Tail(ids) \in observed
        PROVE  <<canonical_id_for(Tail(ids)), canonical_id_for(ids)>>
                 \in resolved_edges(nodes)
    <3>1. PICK c \in canonical_ids : ids = nodes[c].message_ids
      OBVIOUS
    <3>2. PICK p \in canonical_ids : Tail(ids) = nodes[p].message_ids
      BY <2>3
    <3>3. Len(ids) > 1 /\ Len(ids) # 1
      <4>1. ids \in Seq(STRING) /\ Len(ids) \in Nat \ {0}
        BY <2>1, <3>1, GoodIdListsAreLists
      <4>2. Len(Tail(ids)) \in Nat \ {0}
        BY <2>1, <3>2, GoodIdListsAreLists
      <4>3. Len(Tail(ids)) = Len(ids) - 1
        BY <4>1, TailOfList
      <4> QED
        BY <4>1, <4>2, <4>3
    <3>4. nodes[c].expected_parent_id = p
      <4>1. expected_parent_id_for(ids) = canonical_id_for(Tail(ids))
        <5>1. ids \in GoodIdLists /\ Len(ids) # 1
          BY <2>1, <3>1, <3>3
        <5> QED
          BY <5>1, Zenon DEF expected_parent_id_for
      <4>2. canonical_id_for(Tail(ids)) = p
        BY <2>1, <3>2
      <4> QED
        BY <2>1, <3>1, <4>1, <4>2
    <3>5. resolved_parent(nodes, c) = p /\ p # None
      BY <2>1, <3>4 DEF resolved_parent, canonical_ids
    <3> QED
      BY <2>1, <3>1, <3>2, <3>5 DEF resolved_edges, canonical_ids
  <2>4. resolved_edges(nodes) \subseteq followed
    BY <2>2 DEF resolved_edges, canonical_ids
  <2>5. followed \subseteq resolved_edges(nodes)
    BY <2>3
  <2> QED
    BY <2>4, <2>5
<1> QED
  BY <1>1, StoreInvHolds, PTL

\* Where digests tell lists of ids apart, no list is taken for another one,
\* so a document that is not mapped yet is accepted (CanonicalStore.upsert).
THEOREM NewDocumentsAreAccepted ==
  ASSUME IdsDecide
  PROVE  Spec => []NewDocumentsAccepted
<1>1. StoreInv => NewDocumentsAccepted
  <2> SUFFICES ASSUME StoreInv, NEW d \in Documents \ BlankDocuments,
                      NEW ids \in GoodIdLists, documents[d] = None
               PROVE  ~rejects(d, ids)
    BY DEF NewDocumentsAccepted
  <2>1. ~collides(nodes, ids)
    BY DEF StoreInv, TypeOK, Keyed, IdsDecide, collides, canonical_ids
  <2> QED
    BY <2>1 DEF rejects, GoodIdLists
<1> QED
  BY <1>1, StoreInvHolds, PTL
=============================================================================
