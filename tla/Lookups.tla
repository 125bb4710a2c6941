------------------------------ MODULE Lookups ------------------------------
(***************************************************************************)
(* The lookup routes (api/app.py document_canonical, canonical_documents,  *)
(* canonical_relations; the get_* functions of db/repository.py) while     *)
(* workers register documents.                                             *)
(*                                                                         *)
(* A route runs one to three SELECTs in one READ COMMITTED transaction, so *)
(* each SELECT sees the registrations committed before it and a response   *)
(* may combine several states.  The registrations are those of             *)
(* CanonicalRegistry, which IngestionPipeline implements.  Readers change  *)
(* nothing and do not meet, so one of them is enough.                      *)
(***************************************************************************)
EXTENDS Canonicalization

CONSTANTS
  Documents,
  IdLists     \* the Message-ID sequences that documents carry

CanonicalIds == {canonical_id_for(ids) : ids \in IdLists}

ASSUME NoneIsNoCanonicalId == None \notin CanonicalIds

VARIABLES
  assigned, observed,  \* the committed tables, see CanonicalRegistry
  request,             \* the lookup in flight
  answer,              \* its response, until the next lookup is under way
  began                \* history: the tables when the lookup began

vars == <<assigned, observed, request, answer, began>>

Registry == INSTANCE CanonicalRegistry WITH Outcomes <- Documents \X CanonicalIds

\* canonical_threads.expected_parent_id of a thread once it is observed.
expected_parent ==
  [c \in CanonicalIds |->
     expected_parent_id_for(CHOOSE ids \in IdLists : canonical_id_for(ids) = c)]

NoRequest == [pc |-> "idle", canonical_id |-> None, parent |-> None]

NoAnswer == [route |-> None, of |-> None, code |-> 0, result |-> None]

now == [assigned |-> assigned, observed |-> observed]

Init ==
  /\ Registry!Init
  /\ request = NoRequest
  /\ answer = NoAnswer
  /\ began = now

Begin ==
  /\ request = NoRequest
  /\ began' = now
  /\ UNCHANGED <<assigned, observed>>

Continue(pc) ==
  /\ request.pc = pc
  /\ UNCHANGED <<assigned, observed, began>>

Proceed(pc, c, parent) ==
  /\ request' = [pc |-> pc, canonical_id |-> c, parent |-> parent]
  /\ answer' = NoAnswer

Respond(route, of, code, result) ==
  /\ answer' = [route |-> route, of |-> of, code |-> code, result |-> result]
  /\ request' = NoRequest

-----------------------------------------------------------------------------
(* SELECTs of db/repository.py over the tables t                           *)

\* Mutant: only the first row is returned.
first_document_for_canonical(t, c) ==
  {d \in Documents : t.assigned[d] = c /\ d = CHOOSE x \in Documents : t.assigned[x] = c}

get_documents_for_canonical(t, c) == {d \in Documents : t.assigned[d] = c}

get_canonical_for_document(t, d) == t.assigned[d]

children_of(t, c) == {x \in t.observed : expected_parent[x] = c}

\* Mutant: the expected parent, observed or not.
unresolved_parent_of(t, c) == expected_parent[c]

parent_of(t, c) ==
  IF expected_parent[c] \in t.observed THEN expected_parent[c] ELSE None

-----------------------------------------------------------------------------
(* The routes                                                              *)

\* A worker commits.
Register == Registry!Next /\ UNCHANGED <<request, answer, began>>

\* Mutant: an unknown document is answered with no content.
DocumentCanonicalNoContent(d) ==
  LET c == get_canonical_for_document(now, d)
  IN  /\ Begin
      /\ Respond("canonical", d, IF c = None THEN 204 ELSE 200, c)

\* GET /documents/{doc_id}/canonical
DocumentCanonical(d) ==
  LET c == get_canonical_for_document(now, d)
  IN  /\ Begin
      /\ Respond("canonical", d, IF c = None THEN 404 ELSE 200, c)

\* GET /canonicals/{canonical_id}/documents: a non-empty list is the answer.
ListDocuments(c) ==
  LET found == get_documents_for_canonical(now, c)
  IN  /\ Begin
      /\ IF found = {}
         THEN Proceed("exists", c, None)
         ELSE Respond("documents", c, 200, found)

\* The list was empty: is the canonical known at all?  The other reads of
\* get_canonical_relations do not enter this response.
ListNothing ==
  LET c == request.canonical_id
  IN  /\ Continue("exists")
      /\ IF c \in observed
         THEN Respond("documents", c, 200, {})
         ELSE Respond("documents", c, 404, None)

\* Mutant: the node is joined with its parent.
ReadNodeJoined(c) ==
  /\ Begin
  /\ IF c \notin observed \/ expected_parent[c] \notin observed \cup {None}
     THEN Respond("relations", c, 404, None)
     ELSE Proceed(IF expected_parent[c] = None THEN "children" ELSE "parent", c, None)

\* GET /canonicals/{canonical_id}/relations: the node, then its parent, then
\* its children.
ReadNode(c) ==
  /\ Begin
  /\ IF c \notin observed
     THEN Respond("relations", c, 404, None)
     ELSE Proceed(IF expected_parent[c] = None THEN "children" ELSE "parent", c, None)

ReadParent ==
  LET c == request.canonical_id
  IN  Continue("parent") /\ Proceed("children", c, parent_of(now, c))

ReadChildren ==
  LET c == request.canonical_id
  IN  /\ Continue("children")
      /\ Respond("relations", c, 200,
                 [parent |-> request.parent, children |-> children_of(now, c)])

Next ==
  \/ Register
  \/ \E d \in Documents : DocumentCanonical(d)
  \/ \E c \in CanonicalIds : ListDocuments(c) \/ ReadNode(c)
  \/ ListNothing
  \/ ReadParent
  \/ ReadChildren

Spec == Init /\ [][Next]_vars

-----------------------------------------------------------------------------

\* The variables have their types.
TypeOK ==
  /\ assigned \in [Documents -> CanonicalIds \cup {None}]
  /\ observed \subseteq CanonicalIds
  /\ request.pc \in {"idle", "exists", "parent", "children"}
  /\ request.canonical_id \in CanonicalIds \cup {None}
  /\ request.parent \in CanonicalIds \cup {None}
  /\ answer.code \in {0, 200, 404}

Answered(route, code) == answer.route = route /\ answer.code = code

\* A 404 is true: what the client asked for did not exist when it asked
\* (canonical_documents looks for the thread only after it found no
\* document).
NotFoundIsTrue ==
  answer.code = 404 =>
    /\ answer.route = "canonical" => began.assigned[answer.of] = None
    /\ answer.route # "canonical" => answer.of \notin began.observed

\* A document list misses no document that was registered when the client
\* asked, and names none that is not registered (canonical_documents).
DocumentsBetween ==
  Answered("documents", 200) =>
    /\ {d \in Documents : began.assigned[d] = answer.of} \subseteq answer.result
    /\ \A d \in answer.result : assigned[d] = answer.of

\* Relations combine three states, yet each edge they show joins two observed
\* threads one message apart, and each edge that existed when the client
\* asked is shown (canonical_relations, get_canonical_relations).
RelationsBetween ==
  Answered("relations", 200) =>
    LET c == answer.of
        result == answer.result
    IN  /\ c \in observed
        /\ {x \in began.observed : expected_parent[x] = c} \subseteq result.children
        /\ \A x \in result.children : x \in observed /\ expected_parent[x] = c
        /\ result.parent # None =>
             result.parent = expected_parent[c] /\ result.parent \in observed
        /\ result.parent = None => expected_parent[c] \notin began.observed
=============================================================================
