-------------------------- MODULE EvaluationProofs --------------------------
(***************************************************************************)
(* Proofs about Evaluation: what the loop of _build_store leaves, that the *)
(* order of ingestion makes no difference to it, and what the validations  *)
(* say of each other.                                                      *)
(***************************************************************************)
EXTENDS Evaluation, WellFoundedInduction, FiniteSetTheorems, TLAPS

-----------------------------------------------------------------------------
(* Least and greatest numbers                                              *)

\* The order of the natural numbers is well-founded: what holds of some number
\* holds of a least one.
LEMMA LeastNumber ==
  ASSUME NEW T \in SUBSET Nat, T # {}
  PROVE  Min(T) \in T /\ \A y \in T : Min(T) <= y
<1> DEFINE R == {ss \in Nat \X Nat : ss[1] < ss[2]}
<1>1. IsWellFoundedOn(R, Nat)
  BY NatLessThanWellFounded, Zenon DEF OpToRel
<1>2. PICK x \in T : \A y \in T : <<y, x>> \notin R
  BY <1>1, WFMin, Zenon
<1>3. ASSUME NEW y \in T PROVE x <= y
  <2>1. x \in Nat /\ y \in Nat
    OBVIOUS
  <2>2. y < x => <<y, x>> \in R
    BY <2>1
  <2> QED
    BY <1>2, <2>1, <2>2
<1> QED
  BY <1>3, Zenon DEF Min

\* A bounded set of numbers has a greatest one.
LEMMA GreatestNumber ==
  ASSUME NEW n \in Nat, NEW T \in SUBSET (1 .. n), T # {}
  PROVE  Max(T) \in T /\ \A y \in T : Max(T) >= y
<1> DEFINE U == {n - x : x \in T}
<1>1. U \in SUBSET Nat /\ U # {}
  <2>1. \A x \in T : n - x \in Nat
    OBVIOUS
  <2> QED
    BY <2>1
<1>2. Min(U) \in U /\ \A y \in U : Min(U) <= y
  BY <1>1, LeastNumber
<1>3. PICK x \in T : Min(U) = n - x
  BY <1>2
<1>4. \A y \in T : x >= y
  <2> SUFFICES ASSUME NEW y \in T PROVE x >= y
    OBVIOUS
  <2>1. n - x <= n - y
    BY <1>2, <1>3
  <2> QED
    BY <2>1
<1> QED
  BY <1>4, Zenon DEF Max

-----------------------------------------------------------------------------
(* What _build_store leaves                                                *)

digest(d) == canonical_id_for(d.message_ids)

\* The positions of s that name the thread c.
naming(order, s, c) == {i \in s : digest(order[i]) = c}

\* The store after the documents at the positions s: a thread for each digest,
\* with the ids of the last document and the names of all.
store_after(order, s) ==
  [c \in {digest(order[i]) : i \in s} |->
     node(order[Max(naming(order, s, c))].message_ids,
          {order[i].name : i \in naming(order, s, c)})]

\* The last upsert of a store.
LEMMA LastUpsert ==
  ASSUME NEW order, NEW n \in Nat, NEW s \in SUBSET (1 .. n), s # {},
         NEW m \in s, m = Max(s)
  PROVE  store_after(order, s) =
           upserted(store_after(order, s \ {m}), order[m].name, order[m].message_ids)
<1> DEFINE c == digest(order[m])
           before == store_after(order, s \ {m})
           ids == order[m].message_ids
           d == order[m].name
<1>1. c = canonical_id_for(ids)
  BY DEF digest
<1>2. DOMAIN before = {digest(order[i]) : i \in s \ {m}}
  BY DEF store_after
<1>3. DOMAIN store_after(order, s) = DOMAIN before \cup {c}
  BY <1>2 DEF store_after
<1>4. ASSUME NEW x \in DOMAIN before \cup {c}, x # c
      PROVE  /\ naming(order, s, x) = naming(order, s \ {m}, x)
             /\ store_after(order, s)[x] = before[x]
  <2>1. naming(order, s, x) = naming(order, s \ {m}, x)
    BY <1>4 DEF naming
  <2> QED
    BY <1>2, <1>4, <2>1 DEF store_after
<1>5. store_after(order, s)[c] = node(ids, documents_for(before, c) \cup {d})
  <2>1. m \in naming(order, s, c) /\ naming(order, s, c) \in SUBSET (1 .. n)
    BY DEF naming
  <2>2. /\ Max(naming(order, s, c)) \in naming(order, s, c)
        /\ Max(naming(order, s, c)) >= m
    BY <2>1, GreatestNumber
  <2>3. \A y \in s : m >= y
    BY GreatestNumber
  <2>4. Max(naming(order, s, c)) = m
    <3>1. PICK k \in s : k = Max(naming(order, s, c))
      BY <2>2 DEF naming
    <3> QED
      BY <2>2, <2>3, <3>1
  <2>5. documents_for(before, c) = {order[i].name : i \in naming(order, s \ {m}, c)}
    <3>1. CASE c \in DOMAIN before
      <4>1. before[c].document_ids = {order[i].name : i \in naming(order, s \ {m}, c)}
        BY <1>2, <3>1 DEF store_after, node
      <4> QED
        BY <3>1, <4>1 DEF documents_for
    <3>2. CASE c \notin DOMAIN before
      <4>1. naming(order, s \ {m}, c) = {}
        BY <1>2, <3>2 DEF naming
      <4> QED
        BY <3>2, <4>1 DEF documents_for
    <3> QED
      BY <3>1, <3>2
  <2>6. {order[i].name : i \in naming(order, s, c)}
          = {order[i].name : i \in naming(order, s \ {m}, c)} \cup {d}
    BY DEF naming
  <2>7. c \in {digest(order[i]) : i \in s}
    OBVIOUS
  <2> HIDE DEF c, ids, d, before
  <2>8. store_after(order, s)[c] =
          node(order[Max(naming(order, s, c))].message_ids,
               {order[i].name : i \in naming(order, s, c)})
    BY <2>7, Zenon DEF store_after
  <2> QED
    BY <2>4, <2>5, <2>6, <2>8, Zenon DEF ids
<1> HIDE DEF c, ids, d, before
<1>6. store_after(order, s) =
        [x \in DOMAIN before \cup {c} |->
           IF x = c THEN node(ids, documents_for(before, c) \cup {d}) ELSE before[x]]
  <2>1. store_after(order, s) =
          [x \in DOMAIN store_after(order, s) |-> store_after(order, s)[x]]
    BY DEF store_after
  <2> QED
    BY <1>3, <1>4, <1>5, <2>1
<1> QED
  BY <1>1, <1>6, Zenon DEF upserted, before, ids, d

\* The fold of build_store, written out: the documents at a set of positions,
\* the one with the greatest position last.
LEMMA BuildStoreUnfolds ==
  ASSUME NEW order
  PROVE  build_store(order) =
           (CHOOSE f : f = [s \in SUBSET (DOMAIN order) |->
              IF s = {} THEN no_nodes
              ELSE upserted(f[s \ {Max(s)}], order[Max(s)].name,
                            order[Max(s)].message_ids)])[DOMAIN order]
BY DEF build_store, FoldLeft, MapThenFoldSet

\* The loop of _build_store ends with a thread for each digest that occurs,
\* with all of its documents.
LEMMA BuildStoreLemma ==
  ASSUME NEW n \in Nat, NEW order, DOMAIN order = 1 .. n
  PROVE  build_store(order) = store_after(order, 1 .. n)
<1> DEFINE P == SUBSET (1 .. n)
           step(f) == [s \in P |->
                         IF s = {} THEN no_nodes
                         ELSE upserted(f[s \ {Max(s)}], order[Max(s)].name,
                                       order[Max(s)].message_ids)]
           g == [s \in P |-> store_after(order, s)]
           f == CHOOSE h : h = step(h)
<1>1. store_after(order, {}) = no_nodes
  BY DEF store_after, no_nodes
<1>2. ASSUME NEW s \in P, s # {}
      PROVE  /\ Max(s) \in s
             /\ s \ {Max(s)} \in P
             /\ store_after(order, s) =
                  upserted(store_after(order, s \ {Max(s)}), order[Max(s)].name,
                           order[Max(s)].message_ids)
  <2>1. Max(s) \in s
    BY <1>2, GreatestNumber
  <2> QED
    BY <1>2, <2>1, LastUpsert
<1>3. g = step(g)
  BY <1>1, <1>2
<1>4. f = step(f)
  <2> HIDE DEF step, g
  <2> QED
    BY <1>3
<1>5. ASSUME NEW s \in P
      PROVE  f[s] = IF s = {} THEN no_nodes
                    ELSE upserted(f[s \ {Max(s)}], order[Max(s)].name,
                                  order[Max(s)].message_ids)
  <2> HIDE DEF f
  <2> QED
    BY <1>4
<1> DEFINE wrong == {s \in P : f[s] # store_after(order, s)}
<1>6. wrong = {}
  <2> SUFFICES ASSUME wrong # {} PROVE FALSE
    OBVIOUS
  <2>1. IsFiniteSet(1 .. n)
    BY FS_Interval
  <2>2. FiniteSubsetsOf(1 .. n) = P
    BY <2>1, FS_FiniteSubsetsOfFinite
  <2>3. IsWellFoundedOn(StrictSubsetOrdering(1 .. n), P)
    BY <2>2, FS_StrictSubsetOrderingWellFounded
  <2>4. PICK s \in wrong : \A t \in wrong : <<t, s>> \notin StrictSubsetOrdering(1 .. n)
    <3> HIDE DEF wrong
    <3>1. wrong \subseteq P
      BY DEF wrong
    <3> QED
      BY <2>3, <3>1, WFMin, Zenon
  <2>5. s # {}
    BY <1>1, <1>5
  <2>6. s \ {Max(s)} \notin wrong
    <3>1. <<s \ {Max(s)}, s>> \in StrictSubsetOrdering(1 .. n)
      BY <1>2, <2>5 DEF StrictSubsetOrdering
    <3> QED
      BY <2>4, <3>1
  <2>7. f[s \ {Max(s)}] = store_after(order, s \ {Max(s)})
    BY <1>2, <2>5, <2>6
  <2> QED
    BY <1>2, <1>5, <2>5, <2>7
<1>7. f[1 .. n] = store_after(order, 1 .. n)
  BY <1>6
<1>8. build_store(order) = f[1 .. n]
  BY BuildStoreUnfolds
<1> QED
  BY <1>7, <1>8

-----------------------------------------------------------------------------
(* The order of ingestion                                                  *)

\* Digests tell the lists of ids in these documents apart.
IdsDecide(documents) ==
  \A d, e \in Range(documents) : digest(d) = digest(e) => d.message_ids = e.message_ids

threads_in(documents) == {digest(d) : d \in Range(documents)}

\* The edges that the ids of the documents determine.
edges_in(documents) ==
  {<<expected_parent_id_for(d.message_ids), digest(d)>> :
     d \in {e \in Range(documents) :
              expected_parent_id_for(e.message_ids) \in threads_in(documents) \ {None}}}

\* Whichever order the documents come in, the store ends with the threads and
\* the edges that their ids determine.
LEMMA OutcomeLemma ==
  ASSUME NEW documents, IsFiniteSet(DOMAIN documents), IdsDecide(documents),
         NEW o \in outcomes(documents)
  PROVE  o = <<threads_in(documents), edges_in(documents)>>
<1>1. PICK p \in Bijection(1 .. Cardinality(DOMAIN documents), DOMAIN documents) :
        o = outcome([k \in DOMAIN p |-> documents[p[k]]])
  BY DEF outcomes, orders
<1>2. PICK n \in Nat : n = Cardinality(DOMAIN documents)
  BY FS_CardinalityType
<1>3. /\ p \in [1 .. n -> DOMAIN documents]
      /\ \A i \in DOMAIN documents : \E k \in 1 .. n : p[k] = i
  BY <1>1, <1>2 DEF Bijection, Surjection
<1> DEFINE order == [k \in DOMAIN p |-> documents[p[k]]]
           nodes == build_store(order)
<1>4. /\ DOMAIN order = 1 .. n
      /\ \A k \in 1 .. n : order[k] \in Range(documents)
      /\ \A d \in Range(documents) : \E k \in 1 .. n : order[k] = d
  BY <1>3 DEF Range
<1> HIDE DEF order
<1>5. nodes = store_after(order, 1 .. n)
  BY <1>4, BuildStoreLemma
<1>6. DOMAIN nodes = threads_in(documents)
  BY <1>4, <1>5 DEF store_after, threads_in
<1>7. ASSUME NEW d \in Range(documents)
      PROVE  nodes[digest(d)].expected_parent_id = expected_parent_id_for(d.message_ids)
  <2> DEFINE k == Max(naming(order, 1 .. n, digest(d)))
  <2>1. /\ naming(order, 1 .. n, digest(d)) \in SUBSET (1 .. n)
        /\ naming(order, 1 .. n, digest(d)) # {}
    BY <1>4 DEF naming
  <2>2. k \in naming(order, 1 .. n, digest(d))
    BY <2>1, GreatestNumber
  <2>3. order[k] \in Range(documents) /\ digest(order[k]) = digest(d)
    BY <1>4, <2>2 DEF naming
  <2>4. order[k].message_ids = d.message_ids
    BY <2>3 DEF IdsDecide
  <2>5. digest(d) \in {digest(order[i]) : i \in 1 .. n}
    BY <1>4
  <2> HIDE DEF k
  <2>6. nodes[digest(d)] =
          node(order[k].message_ids,
               {order[i].name : i \in naming(order, 1 .. n, digest(d))})
    BY <1>5, <2>5, Zenon DEF store_after, k
  <2> QED
    BY <2>4, <2>6 DEF node
<1> HIDE DEF nodes
<1>8. resolved_edges(nodes) = edges_in(documents)
  <2>1. ASSUME NEW d \in Range(documents)
        PROVE  resolved_parent(nodes, digest(d)) =
                 IF expected_parent_id_for(d.message_ids) \in threads_in(documents)
                 THEN expected_parent_id_for(d.message_ids) ELSE None
    <3>1. digest(d) \in DOMAIN nodes
      BY <1>6 DEF threads_in
    <3> QED
      BY <1>6, <1>7, <3>1 DEF resolved_parent
  <2>2. \A c \in DOMAIN nodes : \E d \in Range(documents) : c = digest(d)
    BY <1>6 DEF threads_in
  <2>3. \A d \in Range(documents) : digest(d) \in DOMAIN nodes
    BY <1>6 DEF threads_in
  <2>4. resolved_edges(nodes) \subseteq edges_in(documents)
    <3> SUFFICES ASSUME NEW c \in DOMAIN nodes, resolved_parent(nodes, c) # None
                 PROVE  <<resolved_parent(nodes, c), c>> \in edges_in(documents)
      BY DEF resolved_edges
    <3>1. PICK d \in Range(documents) : c = digest(d)
      BY <2>2
    <3> QED
      BY <2>1, <3>1 DEF edges_in
  <2>5. edges_in(documents) \subseteq resolved_edges(nodes)
    <3> SUFFICES ASSUME NEW d \in Range(documents),
                        expected_parent_id_for(d.message_ids)
                          \in threads_in(documents) \ {None}
                 PROVE  <<expected_parent_id_for(d.message_ids), digest(d)>>
                          \in resolved_edges(nodes)
      BY DEF edges_in
    <3> QED
      BY <2>1, <2>3 DEF resolved_edges
  <2> QED
    BY <2>4, <2>5
<1>9. outcome(order) = <<DOMAIN nodes, resolved_edges(nodes)>>
  BY DEF outcome, nodes
<1> QED
  BY <1>1, <1>6, <1>8, <1>9 DEF order

-----------------------------------------------------------------------------
(* What is loaded                                                          *)

\* Documents have labels, their digests, and the positions of file names.
Listed(documents) ==
  /\ DOMAIN documents \in SUBSET Nat
  /\ IsFiniteSet(DOMAIN documents)
  /\ \A d \in Range(documents) :
       /\ d.label \in Seq(STRING)
       /\ Len(d.label) \in Nat \ {0}
       /\ d.canonical_id = digest(d)

readable_files == {n \in DOMAIN corpus : encodable(parsed(n))}

\* A corpus that was loaded does not change any more, and what was loaded is
\* what its files parse to.
LoadedInv ==
  /\ DOMAIN corpus \subseteq DOMAIN FileNames
  /\ loaded # None =>
       loaded = [documents |-> [n \in readable_files |-> document(n, parsed(n))],
                 failures  |-> DOMAIN corpus \ readable_files]

LEMMA LoadedInvStep ==
  ASSUME LoadedInv, [Next]_vars
  PROVE  LoadedInv'
<1>1. CASE UNCHANGED vars
  BY <1>1 DEF vars, LoadedInv, readable_files, parsed
<1>2. CASE loaded = None /\ Write /\ UNCHANGED loaded
  <2>1. DOMAIN corpus' \subseteq DOMAIN FileNames
    <3>1. ASSUME NEW n \in DOMAIN FileNames, NEW thread, write(n, thread)
          PROVE  DOMAIN corpus' \subseteq DOMAIN FileNames
      BY <3>1 DEF write, LoadedInv
    <3>2. ASSUME NEW n \in DOMAIN FileNames, Reformat(n)
          PROVE  DOMAIN corpus' \subseteq DOMAIN FileNames
      BY <3>2 DEF Reformat, LoadedInv
    <3> QED
      BY <1>2, <3>1, <3>2 DEF Write, WriteThread, WriteReply, WriteCopy
  <2> QED
    BY <1>2, <2>1 DEF LoadedInv
<1>3. CASE Load
  <2>1. corpus' = corpus
    BY <1>3 DEF Load
  <2>2. loaded' = [documents |-> [n \in readable_files |-> document(n, parsed(n))],
                   failures  |-> DOMAIN corpus \ readable_files]
    BY <1>3 DEF Load, readable_files
  <2>3. /\ readable_files' = readable_files
        /\ [n \in readable_files |-> document(n, parsed(n))]'
             = [n \in readable_files |-> document(n, parsed(n))]
    BY <2>1 DEF readable_files, parsed
  <2> QED
    BY <2>1, <2>2, <2>3 DEF LoadedInv
<1> QED
  BY <1>1, <1>2, <1>3 DEF Next

LEMMA LoadedInvHolds == Spec => []LoadedInv
<1>1. Init => LoadedInv
  BY DEF Init, CorpusInit, LoadedInv
<1>2. LoadedInv /\ [Next]_vars => LoadedInv'
  BY LoadedInvStep
<1> QED
  BY <1>1, <1>2, PTL DEF Spec

LEMMA LoadedDocuments ==
  ASSUME LoadedInv, loaded # None
  PROVE  /\ DOMAIN loaded.documents = readable_files
         /\ loaded.failures = DOMAIN corpus \ readable_files
         /\ \A n \in readable_files :
              loaded.documents[n] = document(n, parsed(n))
         /\ Listed(loaded.documents)
<1>1. /\ DOMAIN loaded.documents = readable_files
      /\ loaded.failures = DOMAIN corpus \ readable_files
      /\ \A n \in readable_files :
           loaded.documents[n] = document(n, parsed(n))
  BY DEF LoadedInv
<1>2. PICK m \in Nat : m = Len(FileNames) /\ DOMAIN FileNames = 1 .. m
  BY FileNamesAssumption
<1>3. readable_files \in SUBSET (1 .. m)
  BY <1>2 DEF LoadedInv, readable_files
<1>4. IsFiniteSet(readable_files)
  <2>1. IsFiniteSet(1 .. m)
    BY FS_Interval
  <2> QED
    BY <1>3, <2>1, FS_Subset
<1>5. ASSUME NEW n \in readable_files
      PROVE  /\ canonical_label(n) \in Seq(STRING)
             /\ Len(canonical_label(n)) \in Nat \ {0}
  <2> DEFINE Names == [path : Seq(STRING), base : STRING, variant : STRING]
  <2>1. FileNames[n] \in Names
    <3>1. FileNames \in Seq(Names) /\ n \in 1 .. Len(FileNames)
      BY <1>2, <1>3, FileNamesAssumption
    <3> HIDE DEF Names
    <3> QED
      BY <3>1
  <2>2. canonical_label(n) \in Seq(STRING) /\ canonical_label(n) # <<>>
    <3>1. PICK path \in Seq(STRING), base \in STRING :
            path = FileNames[n].path /\ base = FileNames[n].base
      BY <2>1
    <3>3. ASSUME NEW S, NEW q \in Seq(S), NEW e \in S
          PROVE  Append(q, e) \in Seq(S) /\ Append(q, e) # <<>>
      OBVIOUS
    <3>2. Append(path, base) \in Seq(STRING) /\ Append(path, base) # <<>>
      BY <3>3, Zenon
    <3> QED
      BY <3>1, <3>2 DEF canonical_label
  <2> QED
    BY <2>2
<1>6. ASSUME NEW d \in Range(loaded.documents)
      PROVE  /\ d.label \in Seq(STRING)
             /\ Len(d.label) \in Nat \ {0}
             /\ d.canonical_id = digest(d)
  <2>1. PICK n \in readable_files : d = document(n, parsed(n))
    BY <1>1 DEF Range
  <2> QED
    BY <1>5, <2>1 DEF document, digest
<1> QED
  BY <1>1, <1>3, <1>4, <1>6 DEF Listed

\* Digests tell apart the lists of ids that were loaded: SHA-256 has no
\* collision among them and no id holds the separator.
DigestsDecide == loaded # None => IdsDecide(loaded.documents)

\* Whichever order the documents of a directory are ingested in, the store
\* resolves the same threads and edges, for every directory, every list of
\* names and right and wrong labels alike (validate_hierarchy, _build_store).
THEOREM IngestionOrderIsFree == Spec => [](DigestsDecide => OrderNeverMatters)
<1>1. LoadedInv => (DigestsDecide => OrderNeverMatters)
  <2> SUFFICES ASSUME LoadedInv, DigestsDecide, loaded # None
               PROVE  order_independent(loaded.documents)
    BY DEF OrderNeverMatters
  <2>1. IsFiniteSet(DOMAIN loaded.documents) /\ IdsDecide(loaded.documents)
    BY LoadedDocuments DEF Listed, DigestsDecide
  <2> QED
    BY <2>1, OutcomeLemma DEF order_independent
<1> QED
  BY <1>1, LoadedInvHolds, PTL

-----------------------------------------------------------------------------
(* What the validations say of each other                                  *)

\* No digest is Python's None.
NoneIsNoDigest == \A encoded : sha256(encoded) # None

LEMMA DigestIsNotNone ==
  ASSUME NoneIsNoDigest, NEW ids
  PROVE  canonical_id_for(ids) # None
  BY DEF NoneIsNoDigest, canonical_id_for

\* The first document with a label has that label.
LEMMA FirstWithLabel ==
  ASSUME NEW documents, Listed(documents), NEW label, with_label(documents, label) # {}
  PROVE  /\ first_with(documents, label) \in Range(documents)
         /\ first_with(documents, label).label = label
<1> DEFINE k == Min(with_label(documents, label))
<1>1. with_label(documents, label) \in SUBSET Nat
  BY DEF Listed, with_label
<1>2. k \in with_label(documents, label)
  BY <1>1, LeastNumber
<1>3. k \in DOMAIN documents /\ documents[k].label = label
  BY <1>2 DEF with_label
<1> QED
  BY <1>3 DEF first_with, Range

\* Without a mismatch of variants, a label stands for one list of ids.
LEMMA LabelsGiveIds ==
  ASSUME NEW documents, Listed(documents),
         variant_sequence_mismatches(documents) = {},
         NEW d \in Range(documents), NEW e \in Range(documents), d.label = e.label
  PROVE  d.message_ids = e.message_ids
<1> DEFINE S == with_label(documents, d.label)
           T == {documents[k].message_ids : k \in S}
           f == [k \in S |-> documents[k].message_ids]
<1>1. IsFiniteSet(S)
  BY FS_Subset DEF Listed, with_label
<1>2. f \in Surjection(S, T)
  BY DEF Surjection
<1>3. IsFiniteSet(T)
  <2> HIDE DEF f, S, T
  <2> QED
    BY <1>1, <1>2, FS_Surjection
<1>4. Cardinality(T) \in Nat /\ ~(Cardinality(T) > 1)
  <2>1. ~(Cardinality(T) > 1)
    BY DEF variant_sequence_mismatches
  <2> QED
    BY <1>3, <2>1, FS_CardinalityType
<1>5. d.message_ids \in T /\ e.message_ids \in T
  BY DEF with_label, Range
<1> HIDE DEF f, S, T
<1>6. Cardinality(T) = 1
  <2>1. Cardinality(T) # 0
    BY <1>3, <1>5, FS_EmptySet
  <2> QED
    BY <1>4, <2>1
<1>7. \E x : T = {x}
  BY <1>3, <1>6, FS_Singleton
<1> QED
  BY <1>5, <1>7

\* Without false merges and splits, a label stands for one digest.
LEMMA LabelsGiveDigests ==
  ASSUME NEW documents, Listed(documents),
         NEW d \in Range(documents), NEW e \in Range(documents)
  PROVE  /\ false_merges(documents) = {} /\ digest(d) = digest(e) => d.label = e.label
         /\ false_splits(documents) = {} /\ d.label = e.label => digest(d) = digest(e)
<1>1. d.canonical_id = digest(d) /\ e.canonical_id = digest(e)
  BY DEF Listed
<1>2. PICK i \in DOMAIN documents, j \in DOMAIN documents :
        d = documents[i] /\ e = documents[j]
  BY DEF Range
<1>3. i \in Nat /\ j \in Nat
  BY DEF Listed
<1>4. ASSUME NEW x \in DOMAIN documents, NEW y \in DOMAIN documents, x < y
      PROVE  <<documents[x], documents[y]>> \in pairs(documents)
  <2>1. <<x, y>> \in {z \in (DOMAIN documents) \X (DOMAIN documents) : z[1] < z[2]}
    BY <1>4
  <2> QED
    BY <2>1 DEF pairs
<1>5. d = e \/ <<d, e>> \in pairs(documents) \/ <<e, d>> \in pairs(documents)
  <2>1. i = j \/ i < j \/ j < i
    BY <1>3
  <2> QED
    BY <1>2, <1>4, <2>1
<1> QED
  BY <1>1, <1>5 DEF false_merges, false_splits

\* What the check of parents says of a document that is not a root: the first
\* file with the label of the parent has its ids but the newest.
LEMMA ParentsAgree ==
  ASSUME NEW documents, Listed(documents),
         count_mismatches(documents) = {},
         parent_sequence_mismatches(documents) = {},
         NEW d \in Range(documents)
  PROVE  /\ Len(d.message_ids) = Len(d.label)
         /\ Len(d.label) = 1 => parent_label(d.label) = None
         /\ Len(d.label) # 1 =>
              /\ parent_label(d.label) = Front(d.label)
              /\ parent_label(d.label) \in Seq(STRING)
              /\ with_label(documents, parent_label(d.label)) # {}
              /\ Tail(d.message_ids) =
                   first_with(documents, parent_label(d.label)).message_ids
<1>1. d.label \in Seq(STRING) /\ Len(d.label) \in Nat \ {0}
  BY DEF Listed
<1>2. Len(d.message_ids) = Len(d.label)
  BY DEF count_mismatches, expected_message_count
<1>3. Len(d.label) = 1 => parent_label(d.label) = None
  BY DEF parent_label
<1>4. Len(d.label) # 1 => parent_label(d.label) = Front(d.label)
  <2>1. \A k \in Nat \ {0} : k # 1 => k > 1
    OBVIOUS
  <2> QED
    BY <1>1, <2>1, Zenon DEF parent_label
<1>5. Front(d.label) \in Seq(STRING)
  BY <1>1 DEF Front
<1>6. Front(d.label) # None
  BY <1>5, NoneIsNoLabel
<1> QED
  BY <1>2, <1>3, <1>4, <1>5, <1>6, Zenon DEF parent_sequence_mismatches

\* When the first two validations pass, the edges in the names are those of
\* the ids.
LEMMA EdgesAreGold ==
  ASSUME NoneIsNoDigest, NEW documents, Listed(documents),
         count_mismatches(documents) = {},
         variant_sequence_mismatches(documents) = {},
         parent_sequence_mismatches(documents) = {}
  PROVE  edges_in(documents) = gold_edges(documents)
<1> DEFINE labels == {d.label : d \in Range(documents)}
           first(l) == first_with(documents, l)
<1>1. ASSUME NEW d \in Range(documents)
      PROVE  /\ with_label(documents, d.label) # {}
             /\ first(d.label) \in Range(documents)
             /\ first(d.label).label = d.label
             /\ first(d.label).message_ids = d.message_ids
             /\ first(d.label).canonical_id = digest(d)
  <2>1. with_label(documents, d.label) # {}
    BY DEF with_label, Range
  <2>2. first(d.label) \in Range(documents) /\ first(d.label).label = d.label
    BY <2>1, FirstWithLabel
  <2>3. first(d.label).message_ids = d.message_ids
    BY <2>2, LabelsGiveIds
  <2>4. first(d.label).canonical_id = digest(first(d.label))
    BY <2>2 DEF Listed
  <2> QED
    BY <2>1, <2>2, <2>3, <2>4 DEF digest
<1>2. ASSUME NEW d \in Range(documents), Len(d.label) # 1
      PROVE  /\ parent_label(d.label) \in labels
             /\ expected_parent_id_for(d.message_ids)
                  = first(parent_label(d.label)).canonical_id
             /\ expected_parent_id_for(d.message_ids) \in threads_in(documents) \ {None}
  <2>1. /\ Len(d.message_ids) # 1
        /\ with_label(documents, parent_label(d.label)) # {}
        /\ Tail(d.message_ids) = first(parent_label(d.label)).message_ids
    BY <1>2, ParentsAgree
  <2>2. PICK e \in Range(documents) :
          e = first(parent_label(d.label)) /\ e.label = parent_label(d.label)
    BY <2>1, FirstWithLabel
  <2>3. expected_parent_id_for(d.message_ids) = digest(e)
    <3>1. expected_parent_id_for(d.message_ids) = canonical_id_for(Tail(d.message_ids))
      BY <2>1, Zenon DEF expected_parent_id_for
    <3> QED
      BY <2>1, <2>2, <3>1 DEF digest
  <2>4. e.canonical_id = digest(e)
    BY DEF Listed
  <2>5. digest(e) # None
    BY DigestIsNotNone DEF digest
  <2> QED
    BY <2>2, <2>3, <2>4, <2>5 DEF threads_in
<1>3. ASSUME NEW d \in Range(documents),
             expected_parent_id_for(d.message_ids) \in threads_in(documents) \ {None}
      PROVE  <<expected_parent_id_for(d.message_ids), digest(d)>> \in gold_edges(documents)
  <2>1. Len(d.label) # 1
    <3>1. Len(d.message_ids) # 1
      BY <1>3, Zenon DEF expected_parent_id_for
    <3> QED
      BY <3>1, ParentsAgree
  <2>2. d.label \in {k \in labels : parent_label(k) \in labels}
    BY <1>2, <2>1
  <2>3. <<first(parent_label(d.label)).canonical_id, first(d.label).canonical_id>>
          \in gold_edges(documents)
    BY <2>2 DEF gold_edges
  <2> QED
    BY <1>1, <1>2, <2>1, <2>3
<1>4. ASSUME NEW l \in labels, parent_label(l) \in labels
      PROVE  <<first(parent_label(l)).canonical_id, first(l).canonical_id>>
               \in edges_in(documents)
  <2>1. PICK d \in Range(documents) : l = d.label
    OBVIOUS
  <2>2. parent_label(l) # None
    <3>1. parent_label(l) \in Seq(STRING)
      BY <1>4 DEF Listed
    <3> QED
      BY <3>1, NoneIsNoLabel
  <2>3. Len(d.label) # 1
    BY <2>1, <2>2, ParentsAgree
  <2>4. <<expected_parent_id_for(d.message_ids), digest(d)>> \in edges_in(documents)
    BY <1>2, <2>3 DEF edges_in
  <2> QED
    BY <1>1, <1>2, <2>1, <2>3, <2>4
<1>5. edges_in(documents) \subseteq gold_edges(documents)
  BY <1>3 DEF edges_in
<1>6. gold_edges(documents) \subseteq edges_in(documents)
  BY <1>4 DEF gold_edges
<1> QED
  BY <1>5, <1>6

\* Whenever parsing and dedup pass, the hierarchy passes too, in every order of
\* ingestion: for every directory and every list of names the third validation
\* can only find what one of the first two has found. That digests tell lists
\* of ids apart is not assumed, dedup would have reported it
\* (validate_hierarchy, CanonicalStore).
THEOREM HierarchyFollowsFromScores ==
  ASSUME NoneIsNoDigest
  PROVE  Spec => []HierarchyFollows
<1>1. LoadedInv => HierarchyFollows
  <2> SUFFICES ASSUME LoadedInv, loaded # None, parsing_ok, dedup_ok
               PROVE  hierarchy_ok
    BY DEF HierarchyFollows
  <2> DEFINE documents == loaded.documents
  <2>1. Listed(documents)
    BY LoadedDocuments
  <2>2. /\ loaded.failures = {}
        /\ count_mismatches(documents) = {}
        /\ variant_sequence_mismatches(documents) = {}
        /\ parent_sequence_mismatches(documents) = {}
        /\ false_merges(documents) = {}
    BY DEF parsing_ok, dedup_ok
  <2> HIDE DEF documents
  <2>3. IdsDecide(documents)
    BY <2>1, <2>2, LabelsGiveDigests, LabelsGiveIds DEF IdsDecide
  <2>4. \A o \in outcomes(documents) : o = <<threads_in(documents), edges_in(documents)>>
    BY <2>1, <2>3, OutcomeLemma DEF Listed
  <2>5. edges_in(documents) = gold_edges(documents)
    BY <2>1, <2>2, EdgesAreGold
  <2>6. \A o \in outcomes(documents) : o[2] = gold_edges(documents)
    BY <2>4, <2>5
  <2>7. order_independent(documents)
    BY <2>4 DEF order_independent
  <2> QED
    BY <2>2, <2>6, <2>7 DEF hierarchy_ok, documents
<1> QED
  BY <1>1, LoadedInvHolds, PTL

\* Where digests tell lists of ids apart and every file was read as written,
\* parsing and dedup pass exactly for the directories whose names are right,
\* although children are only compared with the first file of a label
\* (validate_parsing, validate_dedup).
THEOREM ScoresAreSoundForAllNames == Spec => [](DigestsDecide => ScoresAreSound)
<1>1. LoadedInv => (DigestsDecide => ScoresAreSound)
  <2> SUFFICES ASSUME LoadedInv, DigestsDecide, loaded # None, loaded.failures = {},
                      \A d \in Range(loaded.documents) : d.message_ids = written(d.name)
               PROVE  parsing_ok /\ dedup_ok <=> labels_are_right
    BY DEF ScoresAreSound
  <2> DEFINE documents == loaded.documents
  <2>1. Listed(documents) /\ IdsDecide(documents)
    BY LoadedDocuments DEF DigestsDecide
  <2>2. /\ DOMAIN documents = DOMAIN corpus
        /\ \A n \in DOMAIN corpus : documents[n] = document(n, parsed(n))
    BY LoadedDocuments DEF readable_files
  <2>3. ASSUME NEW n \in DOMAIN corpus
        PROVE  /\ documents[n] \in Range(documents)
               /\ documents[n].label = canonical_label(n)
               /\ documents[n].message_ids = written(n)
               /\ Len(canonical_label(n)) \in Nat \ {0}
    <3>1. documents[n] \in Range(documents)
      BY <2>2 DEF Range
    <3>2. documents[n].name = n /\ documents[n].label = canonical_label(n)
      <4>1. \A ids : /\ document(n, ids).name = n
                     /\ document(n, ids).label = canonical_label(n)
        BY DEF document
      <4> QED
        BY <2>2, <4>1, Zenon
    <3> QED
      BY <2>1, <3>1, <3>2 DEF Listed
  <2>4. \A d \in Range(documents) : \E n \in DOMAIN corpus : d = documents[n]
    BY <2>2 DEF Range
  <2>5. loaded.failures = {}
    OBVIOUS
  <2> HIDE DEF documents
  <2>6. ASSUME parsing_ok, dedup_ok PROVE labels_are_right
    <3>1. /\ count_mismatches(documents) = {}
          /\ variant_sequence_mismatches(documents) = {}
          /\ parent_sequence_mismatches(documents) = {}
          /\ false_merges(documents) = {}
      BY <2>6 DEF parsing_ok, dedup_ok, documents
    <3>2. ASSUME NEW n \in DOMAIN corpus, NEW k \in DOMAIN corpus
          PROVE  canonical_label(n) = canonical_label(k) <=> written(n) = written(k)
      <4>1. canonical_label(n) = canonical_label(k) => written(n) = written(k)
        BY <2>1, <2>3, <3>1, LabelsGiveIds
      <4>2. written(n) = written(k) => digest(documents[n]) = digest(documents[k])
        BY <2>3 DEF digest
      <4> QED
        BY <2>1, <2>3, <3>1, <4>1, <4>2, LabelsGiveDigests
    <3>3. ASSUME NEW n \in DOMAIN corpus
          PROVE  /\ Len(written(n)) = Len(canonical_label(n))
                 /\ Len(canonical_label(n)) > 1 =>
                      \E k \in DOMAIN corpus :
                        /\ canonical_label(k) = Front(canonical_label(n))
                        /\ written(k) = Tail(written(n))
      <4>1. Len(written(n)) = Len(canonical_label(n))
        BY <2>1, <2>3, <3>1, ParentsAgree
      <4>2. ASSUME Len(canonical_label(n)) # 1
            PROVE  \E k \in DOMAIN corpus :
                     /\ canonical_label(k) = Front(canonical_label(n))
                     /\ written(k) = Tail(written(n))
        <5>1. /\ with_label(documents, Front(canonical_label(n))) # {}
              /\ Tail(written(n)) =
                   first_with(documents, Front(canonical_label(n))).message_ids
          <6>1. PICK d \in Range(documents) : /\ d.label = canonical_label(n)
                                              /\ d.message_ids = written(n)
            BY <2>3
          <6>2. /\ parent_label(d.label) = Front(d.label)
                /\ with_label(documents, parent_label(d.label)) # {}
                /\ Tail(d.message_ids) =
                     first_with(documents, parent_label(d.label)).message_ids
            BY <2>1, <3>1, <4>2, <6>1, ParentsAgree
          <6> QED
            BY <6>1, <6>2, Zenon
        <5>2. /\ first_with(documents, Front(canonical_label(n))) \in Range(documents)
              /\ first_with(documents, Front(canonical_label(n))).label
                   = Front(canonical_label(n))
          BY <2>1, <5>1, FirstWithLabel
        <5>3. PICK k \in DOMAIN corpus :
                first_with(documents, Front(canonical_label(n))) = documents[k]
          BY <2>4, <5>2
        <5> QED
          BY <2>3, <5>1, <5>2, <5>3
      <4>3. Len(canonical_label(n)) > 1 => Len(canonical_label(n)) # 1
        OBVIOUS
      <4> QED
        BY <4>1, <4>2, <4>3
    <3> QED
      BY <3>2, <3>3 DEF labels_are_right
  <2>7. ASSUME labels_are_right PROVE parsing_ok /\ dedup_ok
    <3>1. ASSUME NEW d \in Range(documents), NEW e \in Range(documents)
          PROVE  /\ d.label = e.label <=> d.message_ids = e.message_ids
                 /\ d.canonical_id = e.canonical_id <=> d.message_ids = e.message_ids
      <4>1. PICK n \in DOMAIN corpus, k \in DOMAIN corpus :
              d = documents[n] /\ e = documents[k]
        BY <2>4
      <4>2. d.label = e.label <=> d.message_ids = e.message_ids
        BY <2>3, <2>7, <4>1 DEF labels_are_right
      <4>3. d.canonical_id = digest(d) /\ e.canonical_id = digest(e)
        BY <2>1 DEF Listed
      <4> QED
        BY <2>1, <4>2, <4>3 DEF IdsDecide, digest
    <3>2. count_mismatches(documents) = {}
      <4>1. ASSUME NEW d \in Range(documents)
            PROVE  Len(d.message_ids) = Len(d.label)
        <5>1. PICK n \in DOMAIN corpus : d = documents[n]
          BY <2>4
        <5> QED
          BY <2>3, <2>7, <5>1 DEF labels_are_right
      <4> QED
        BY <4>1 DEF count_mismatches, expected_message_count
    <3>3. variant_sequence_mismatches(documents) = {}
      <4> SUFFICES ASSUME NEW d \in Range(documents)
                   PROVE  ~(Cardinality({documents[k].message_ids :
                              k \in with_label(documents, d.label)}) > 1)
        BY DEF variant_sequence_mismatches
      <4>1. \A k \in with_label(documents, d.label) :
              documents[k].message_ids = d.message_ids
        <5> SUFFICES ASSUME NEW k \in DOMAIN documents, documents[k].label = d.label
                     PROVE  documents[k].message_ids = d.message_ids
          BY DEF with_label
        <5>1. documents[k] \in Range(documents)
          BY DEF Range
        <5> QED
          BY <3>1, <5>1
      <4>2. with_label(documents, d.label) # {}
        BY DEF with_label, Range
      <4>3. {documents[k].message_ids : k \in with_label(documents, d.label)}
              = {d.message_ids}
        BY <4>1, <4>2
      <4>4. Cardinality({d.message_ids}) = 1
        BY FS_Singleton
      <4>5. ~(1 > 1)
        OBVIOUS
      <4> QED
        BY <4>3, <4>4, <4>5, Zenon
    <3>4. parent_sequence_mismatches(documents) = {}
      <4> SUFFICES ASSUME NEW d \in Range(documents), parent_label(d.label) # None
                   PROVE  /\ with_label(documents, parent_label(d.label)) # {}
                          /\ Tail(d.message_ids) =
                               first_with(documents, parent_label(d.label)).message_ids
        BY DEF parent_sequence_mismatches
      <4>1. PICK n \in DOMAIN corpus : d = documents[n]
        BY <2>4
      <4>2. Len(canonical_label(n)) > 1 /\ parent_label(d.label) = Front(canonical_label(n))
        BY <2>3, <4>1, Zenon DEF parent_label
      <4>3. PICK k \in DOMAIN corpus : /\ canonical_label(k) = Front(canonical_label(n))
                                       /\ written(k) = Tail(written(n))
        BY <2>7, <4>2 DEF labels_are_right
      <4>4. k \in with_label(documents, parent_label(d.label))
        BY <2>2, <2>3, <4>2, <4>3 DEF with_label, documents
      <4> DEFINE e == first_with(documents, parent_label(d.label))
      <4>5. e \in Range(documents) /\ e.label = parent_label(d.label)
        BY <2>1, <4>4, FirstWithLabel
      <4>6. e.message_ids = documents[k].message_ids
        BY <2>3, <3>1, <4>2, <4>3, <4>5
      <4> QED
        BY <2>3, <4>1, <4>3, <4>4, <4>6
    <3>5. false_merges(documents) = {} /\ false_splits(documents) = {}
      <4>1. \A p \in pairs(documents) : p[1] \in Range(documents) /\ p[2] \in Range(documents)
        BY DEF pairs, Range
      <4> QED
        BY <3>1, <4>1 DEF false_merges, false_splits
    <3> QED
      BY <2>5, <3>2, <3>3, <3>4, <3>5 DEF parsing_ok, dedup_ok, documents
  <2> QED
    BY <2>6, <2>7
<1> QED
  BY <1>1, LoadedInvHolds, PTL
=============================================================================
