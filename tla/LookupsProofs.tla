---------------------------- MODULE LookupsProofs ----------------------------
(***************************************************************************)
(* Proofs about the lookup routes: what a response that was put together   *)
(* from several states of the tables may be relied on for.                 *)
(***************************************************************************)
EXTENDS Lookups, TLAPS

-----------------------------------------------------------------------------
(* The invariant                                                           *)

tables == [assigned : [Documents -> CanonicalIds \cup {None}],
           observed : SUBSET CanonicalIds]

\* The tables have only grown since the lookup began.
Grown ==
  /\ began \in tables
  /\ began.observed \subseteq observed
  /\ \A d \in Documents :
       began.assigned[d] # None => assigned[d] = began.assigned[d]

\* The resolved parent p of c, as one of the states since then had it.
ParentBetween(c, p) ==
  /\ p # None => p = expected_parent[c] /\ p \in observed
  /\ p = None => expected_parent[c] \notin began.observed

\* What the SELECTs before have established.
RequestFacts ==
  LET c == request.canonical_id
  IN  /\ request.pc # "idle" => c \in CanonicalIds
      /\ request.pc = "exists" => \A d \in Documents : began.assigned[d] # c
      /\ request.pc \in {"parent", "children"} => c \in observed
      /\ request.pc = "children" => ParentBetween(c, request.parent)

\* A list of documents is one.
ListTyped ==
  Answered("documents", 200) =>
    answer.of \in CanonicalIds /\ answer.result \subseteq Documents

LookupInv ==
  /\ TypeOK
  /\ ListTyped
  /\ Grown
  /\ RequestFacts
  /\ NotFoundIsTrue
  /\ DocumentsBetween
  /\ RelationsBetween

-----------------------------------------------------------------------------

LEMMA LookupInvInit == Init => LookupInv
  BY NoneIsNoCanonicalId
     DEF Init, LookupInv, TypeOK, Grown, RequestFacts, NotFoundIsTrue, tables,
         ListTyped, DocumentsBetween, RelationsBetween, Answered, NoRequest, NoAnswer, now,
         Registry!Init

\* A registration adds a row and moves none.
LEMMA TablesGrow ==
  ASSUME TypeOK, Register
  PROVE  /\ assigned' \in [Documents -> CanonicalIds \cup {None}]
         /\ observed \subseteq observed'
         /\ observed' \subseteq CanonicalIds
         /\ \A d \in Documents : assigned[d] # None => assigned'[d] = assigned[d]
  BY DEF TypeOK, Register, Registry!Next, Registry!Register

LEMMA RegisterKeepsInv == LookupInv /\ Register => LookupInv'
<1> SUFFICES ASSUME LookupInv, Register PROVE LookupInv'
  OBVIOUS
<1> USE DEF LookupInv
<1>1. /\ assigned' \in [Documents -> CanonicalIds \cup {None}]
      /\ observed \subseteq observed'
      /\ observed' \subseteq CanonicalIds
      /\ \A d \in Documents : assigned[d] # None => assigned'[d] = assigned[d]
  BY TablesGrow
<1>2. UNCHANGED <<request, answer, began>>
  BY DEF Register
<1>3. TypeOK'
  BY <1>1, <1>2 DEF TypeOK
<1>4. Grown'
  BY <1>1, <1>2 DEF Grown, tables
<1>5. RequestFacts'
  BY <1>1, <1>2 DEF RequestFacts, ParentBetween
<1>6. NotFoundIsTrue' /\ ListTyped'
  BY <1>2 DEF NotFoundIsTrue, ListTyped, Answered
<1>7. DocumentsBetween'
  <2>1. ASSUME Answered("documents", 200), NEW d \in answer.result
        PROVE  assigned'[d] = answer.of
    BY <1>1, <1>2, <2>1, NoneIsNoCanonicalId
       DEF DocumentsBetween, ListTyped, Answered
  <2> QED
    BY <1>2, <2>1 DEF DocumentsBetween, Answered
<1>8. RelationsBetween'
  BY <1>1, <1>2 DEF RelationsBetween, Answered
<1> QED
  BY <1>3, <1>4, <1>5, <1>6, <1>7, <1>8

-----------------------------------------------------------------------------
(* The routes change no table: a step of theirs keeps what a state says of *)
(* the tables and has to justify the new request and the new answer.       *)

\* A lookup begins with what the tables are now.
LEMMA BeginIsGrown ==
  ASSUME LookupInv, Begin
  PROVE  /\ UNCHANGED <<assigned, observed>>
         /\ began' = now
         /\ Grown'
  BY DEF LookupInv, TypeOK, Begin, Grown, tables, now

\* A lookup goes on with what they were.
LEMMA ContinueIsGrown ==
  ASSUME LookupInv, NEW pc, Continue(pc)
  PROVE  UNCHANGED <<assigned, observed, began>> /\ Grown'
  BY DEF LookupInv, Continue, Grown, tables

LEMMA DocumentCanonicalKeepsInv ==
  ASSUME LookupInv, NEW d \in Documents, DocumentCanonical(d)
  PROVE  LookupInv'
<1>1. UNCHANGED <<assigned, observed>> /\ began' = now /\ Grown'
  BY BeginIsGrown DEF DocumentCanonical
<1>2. PICK code \in {200, 404} :
        /\ Respond("canonical", d, code, assigned[d])
        /\ code = 404 => assigned[d] = None
  BY DEF DocumentCanonical, get_canonical_for_document, now
<1> QED
  BY <1>1, <1>2 DEF LookupInv, TypeOK, ListTyped, RequestFacts, NotFoundIsTrue,
     DocumentsBetween, RelationsBetween, Answered, Respond, NoRequest, now

LEMMA ListDocumentsKeepsInv ==
  ASSUME LookupInv, NEW c \in CanonicalIds, ListDocuments(c)
  PROVE  LookupInv'
<1> DEFINE found == {d \in Documents : assigned[d] = c}
<1>1. UNCHANGED <<assigned, observed>> /\ began' = now /\ Grown'
  BY BeginIsGrown DEF ListDocuments
<1>2. IF found = {} THEN Proceed("exists", c, None)
                    ELSE Respond("documents", c, 200, found)
  BY DEF ListDocuments, get_documents_for_canonical, now
<1>3. CASE found = {}
  BY <1>1, <1>2, <1>3
     DEF LookupInv, TypeOK, ListTyped, RequestFacts, NotFoundIsTrue,
         DocumentsBetween, RelationsBetween, Answered, Proceed, NoAnswer, now
<1>4. CASE found # {}
  BY <1>1, <1>2, <1>4
     DEF LookupInv, TypeOK, ListTyped, RequestFacts, NotFoundIsTrue,
         DocumentsBetween, RelationsBetween, Answered, Respond, NoRequest, now
<1> QED
  BY <1>3, <1>4

LEMMA ListNothingKeepsInv == LookupInv /\ ListNothing => LookupInv'
<1> SUFFICES ASSUME LookupInv, ListNothing PROVE LookupInv'
  OBVIOUS
<1> DEFINE c == request.canonical_id
<1>1. UNCHANGED <<assigned, observed, began>> /\ Grown'
  BY ContinueIsGrown DEF ListNothing
<1>2. /\ c \in CanonicalIds
      /\ \A d \in Documents : began.assigned[d] # c
      /\ began.observed \subseteq observed
  BY DEF LookupInv, RequestFacts, Grown, ListNothing, Continue
<1>3. IF c \in observed THEN Respond("documents", c, 200, {})
                        ELSE Respond("documents", c, 404, None)
  BY DEF ListNothing
<1> QED
  BY <1>1, <1>2, <1>3
     DEF LookupInv, TypeOK, ListTyped, RequestFacts, NotFoundIsTrue,
         DocumentsBetween, RelationsBetween, Answered, Respond, NoRequest

LEMMA ReadNodeKeepsInv ==
  ASSUME LookupInv, NEW c \in CanonicalIds, ReadNode(c)
  PROVE  LookupInv'
<1>1. UNCHANGED <<assigned, observed>> /\ began' = now /\ Grown'
  BY BeginIsGrown DEF ReadNode
<1>2. CASE c \notin observed
  BY <1>1, <1>2
     DEF LookupInv, TypeOK, ListTyped, RequestFacts, NotFoundIsTrue, ReadNode,
         DocumentsBetween, RelationsBetween, Answered, Respond, NoRequest, now
<1>3. CASE c \in observed
  <2>1. PICK pc \in {"parent", "children"} :
          /\ Proceed(pc, c, None)
          /\ pc = "children" => expected_parent[c] = None
    BY <1>3 DEF ReadNode
  <2>2. None \notin observed
    BY NoneIsNoCanonicalId DEF LookupInv, TypeOK
  <2> QED
    BY <1>1, <1>3, <2>1, <2>2
       DEF LookupInv, TypeOK, ListTyped, RequestFacts, ParentBetween,
           NotFoundIsTrue, DocumentsBetween, RelationsBetween, Answered,
           Proceed, NoAnswer, now
<1> QED
  BY <1>2, <1>3

LEMMA ReadParentKeepsInv == LookupInv /\ ReadParent => LookupInv'
<1> SUFFICES ASSUME LookupInv, ReadParent PROVE LookupInv'
  OBVIOUS
<1>1. UNCHANGED <<assigned, observed, began>> /\ Grown'
  BY ContinueIsGrown DEF ReadParent
<1>2. /\ began.observed \subseteq observed
      /\ observed \subseteq CanonicalIds
      /\ None \notin observed
  BY NoneIsNoCanonicalId DEF LookupInv, Grown, TypeOK
<1>3. PICK c \in observed, p \in observed \cup {None} :
        /\ Proceed("children", c, p)
        /\ ParentBetween(c, p)
  BY <1>2 DEF LookupInv, RequestFacts, ReadParent, Continue, ParentBetween,
     parent_of, now
<1> QED
  BY <1>1, <1>2, <1>3
     DEF LookupInv, TypeOK, ListTyped, RequestFacts, ParentBetween,
         NotFoundIsTrue, DocumentsBetween, RelationsBetween, Answered, Proceed,
         NoAnswer

LEMMA ReadChildrenKeepsInv == LookupInv /\ ReadChildren => LookupInv'
<1> SUFFICES ASSUME LookupInv, ReadChildren PROVE LookupInv'
  OBVIOUS
<1> DEFINE c == request.canonical_id
           p == request.parent
           found == {x \in observed : expected_parent[x] = c}
<1>1. UNCHANGED <<assigned, observed, began>> /\ Grown'
  BY ContinueIsGrown DEF ReadChildren
<1>2. /\ c \in observed
      /\ ParentBetween(c, p)
      /\ Respond("relations", c, 200, [parent |-> p, children |-> found])
  BY DEF LookupInv, RequestFacts, ReadChildren, Continue, children_of, now
<1>3. /\ began.observed \subseteq observed
      /\ observed \subseteq CanonicalIds
  BY DEF LookupInv, Grown, TypeOK
<1> QED
  BY <1>1, <1>2, <1>3
     DEF LookupInv, TypeOK, ListTyped, RequestFacts, ParentBetween,
         NotFoundIsTrue, DocumentsBetween, RelationsBetween, Answered, Respond,
         NoRequest

-----------------------------------------------------------------------------
(* The theorems                                                            *)

LEMMA LookupInvStep == LookupInv /\ [Next]_vars => LookupInv'
<1> SUFFICES ASSUME LookupInv, [Next]_vars PROVE LookupInv'
  OBVIOUS
<1>1. CASE UNCHANGED vars
  BY <1>1 DEF vars, LookupInv, TypeOK, Grown, ListTyped, RequestFacts,
     ParentBetween, NotFoundIsTrue, DocumentsBetween, RelationsBetween, Answered
<1>2. CASE Next
  BY <1>2, RegisterKeepsInv, DocumentCanonicalKeepsInv, ListDocumentsKeepsInv,
     ListNothingKeepsInv, ReadNodeKeepsInv, ReadParentKeepsInv,
     ReadChildrenKeepsInv
     DEF Next
<1> QED
  BY <1>1, <1>2

LEMMA LookupInvHolds == Spec => []LookupInv
  BY LookupInvInit, LookupInvStep, PTL DEF Spec

\* The variables of the lookup model have their types, whatever documents,
\* Message-IDs and threads there are (the response of a route included).
THEOREM LookupTypes == Spec => []TypeOK
<1>1. LookupInv => TypeOK
  BY DEF LookupInv
<1> QED
  BY <1>1, LookupInvHolds, PTL

\* A 404 is true of the moment the client asked, whatever workers register
\* meanwhile (document_canonical, canonical_documents, canonical_relations).
THEOREM NotFoundCanBeTrusted == Spec => []NotFoundIsTrue
<1>1. LookupInv => NotFoundIsTrue
  BY DEF LookupInv
<1> QED
  BY <1>1, LookupInvHolds, PTL

\* A list of documents misses none that was there when the client asked and
\* names none that is not registered (canonical_documents).
THEOREM ListsCanBeTrusted == Spec => []DocumentsBetween
<1>1. LookupInv => DocumentsBetween
  BY DEF LookupInv
<1> QED
  BY <1>1, LookupInvHolds, PTL

\* Relations, read from three states, show every edge that existed when the
\* client asked and only edges between observed threads
\* (canonical_relations, get_canonical_relations).
THEOREM RelationsCanBeTrusted == Spec => []RelationsBetween
<1>1. LookupInv => RelationsBetween
  BY DEF LookupInv
<1> QED
  BY <1>1, LookupInvHolds, PTL
=============================================================================
