----------------------------- MODULE Evaluation -----------------------------
(***************************************************************************)
(* scripts/evaluate.py and eval_labels.py: the three validations of a      *)
(* corpus against the labels in its file names.                            *)
(***************************************************************************)
EXTENDS ThreadCorpus, CanonicalNodes

ASSUME NoneIsNoLabel == None \notin Seq(STRING)

VARIABLE loaded   \* the result of load_eval_documents, None before the call

vars == <<corpus, loaded>>

-----------------------------------------------------------------------------
(* Labels: a file name is a path of segments and a last segment, whose     *)
(* trailing letters tell near-duplicates apart.                            *)

\* normalize_eval_stem raises a ValueError when nothing but letters is there.
has_label(n) == FileNames[n].base # ""

canonical_label(n) == Append(FileNames[n].path, FileNames[n].base)

parent_label(label) == IF Len(label) > 1 THEN Front(label) ELSE None

expected_message_count(label) == Len(label)

-----------------------------------------------------------------------------
(* load_eval_documents                                                     *)

written(n) == ids_written(corpus[n])

parsed(n) == parse_thread(snapshot(corpus[n]))

document(n, ids) ==
  [name |-> n, label |-> canonical_label(n), message_ids |-> ids,
   canonical_id |-> canonical_id_for(ids)]

\* The list of documents is in the order of the names: each document has the
\* position of its file.  A file whose name gives no label is not one of the
\* failures: the ValueError leaves the loop, and there is no result.
Load ==
  LET ids  == [n \in DOMAIN corpus |-> parsed(n)]
      good == {n \in DOMAIN corpus : encodable(ids[n])}
  IN  /\ loaded = None
      /\ \A n \in DOMAIN corpus : has_label(n)
      /\ loaded' = [documents |-> [n \in good |-> document(n, ids[n])],
                    failures  |-> DOMAIN corpus \ good]
      /\ UNCHANGED corpus

Init == CorpusInit /\ loaded = None

Next == (loaded = None /\ Write /\ UNCHANGED loaded) \/ Load

Spec == Init /\ [][Next]_vars

-----------------------------------------------------------------------------
(* validate_parsing                                                        *)

\* by_canonical: the positions of the documents of a label.
with_label(documents, label) ==
  {k \in DOMAIN documents : documents[k].label = label}

\* The first file with a label speaks for all of them.
first_with(documents, label) == documents[Min(with_label(documents, label))]

count_mismatches(documents) ==
  {d \in Range(documents) : Len(d.message_ids) # expected_message_count(d.label)}

variant_sequence_mismatches(documents) ==
  {label \in {d.label : d \in Range(documents)} :
     Cardinality({documents[k].message_ids : k \in with_label(documents, label)}) > 1}

\* Mutant: a parent that is missing is passed over.
parent_mismatches_if_present(documents) ==
  {d \in Range(documents) :
     /\ with_label(documents, parent_label(d.label)) # {}
     /\ Tail(d.message_ids) # first_with(documents, parent_label(d.label)).message_ids}

parent_sequence_mismatches(documents) ==
  {d \in Range(documents) :
     /\ parent_label(d.label) # None
     /\ \/ with_label(documents, parent_label(d.label)) = {}
        \/ Tail(d.message_ids) # first_with(documents, parent_label(d.label)).message_ids}

parsing_ok ==
  /\ loaded.failures = {}
  /\ count_mismatches(loaded.documents) = {}
  /\ variant_sequence_mismatches(loaded.documents) = {}
  /\ parent_sequence_mismatches(loaded.documents) = {}

-----------------------------------------------------------------------------
(* validate_dedup                                                          *)

pairs(documents) ==
  {<<documents[ij[1]], documents[ij[2]]>> :
     ij \in {x \in (DOMAIN documents) \X (DOMAIN documents) : x[1] < x[2]}}

false_merges(documents) ==
  {p \in pairs(documents) :
     p[1].canonical_id = p[2].canonical_id /\ p[1].label # p[2].label}

false_splits(documents) ==
  {p \in pairs(documents) :
     p[1].label = p[2].label /\ p[1].canonical_id # p[2].canonical_id}

dedup_ok ==
  /\ loaded.failures = {}
  /\ false_merges(loaded.documents) = {}
  /\ false_splits(loaded.documents) = {}

-----------------------------------------------------------------------------
(* validate_hierarchy                                                      *)

\* natural, reverse, child_first, or by some seed any order.
orders(documents) ==
  LET positions == Bijection(1 .. Cardinality(DOMAIN documents), DOMAIN documents)
  IN  {[k \in DOMAIN p |-> documents[p[k]]] : p \in positions}

build_store(order) ==
  FoldLeft(LAMBDA nodes, d : upserted(nodes, d.name, d.message_ids), no_nodes, order)

gold_edges(documents) ==
  LET labels == {d.label : d \in Range(documents)}
      canonical(label) == first_with(documents, label).canonical_id
  IN  {<<canonical(parent_label(l)), canonical(l)>> :
         l \in {k \in labels : parent_label(k) \in labels}}

\* canonical_ids and resolved_edges of the store after an order of ingestion.
outcome(order) ==
  LET nodes == build_store(order) IN <<DOMAIN nodes, resolved_edges(nodes)>>

outcomes(documents) == {outcome(order) : order \in orders(documents)}

order_independent(documents) == \A a, b \in outcomes(documents) : a = b

hierarchy_ok ==
  /\ loaded.failures = {}
  /\ \A o \in outcomes(loaded.documents) : o[2] = gold_edges(loaded.documents)
  /\ order_independent(loaded.documents)

-----------------------------------------------------------------------------
(* What the files and their names mean                                     *)

\* The name of each file is right about the thread in it.
labels_are_right ==
  /\ \A n, k \in DOMAIN corpus :
       canonical_label(n) = canonical_label(k) <=> written(n) = written(k)
  /\ \A n \in DOMAIN corpus :
       /\ Len(written(n)) = Len(canonical_label(n))
       /\ Len(canonical_label(n)) > 1 =>
            \E k \in DOMAIN corpus : /\ canonical_label(k) = Front(canonical_label(n))
                                     /\ written(k) = Tail(written(n))

\* From is the first of the quoted headers that matter, a greater-than sign
\* comes without folded headers and a pipe without a second blank.
quotation_is_readable(m) ==
  /\ Head(m.order) # "Message-ID"
  /\ m.folded # "" => m.mark = "|"
  /\ m.wide => m.mark = ">"

\* The body is not taken for headers: it does not begin with a Message-ID line,
\* nor with an indented line directly after the Message-ID.
body_is_apart(m) ==
  /\ m.body # "id_first"
  /\ m.body = "indented" => Last(m.order) # "Message-ID"

\* Nor for a quotation: no line of a quoted body says From:.
bodies_are_apart(thread) ==
  /\ \A m \in ToSet(thread) : body_is_apart(m)
  /\ \A m \in ToSet(Tail(thread)) : m.body # "forwarded"

-----------------------------------------------------------------------------

\* Whatever form mail clients give to a thread, within what quotations can
\* express, parse_thread reads the Message-IDs that were written, in their
\* order: blank lines, folded and reordered headers, bodies that begin with
\* some other header, headers forwarded in the newest body, either quote
\* style, dashes or none.
ReadableFilesParse ==
  \A n \in DOMAIN corpus :
    /\ bodies_are_apart(corpus[n])
    /\ \A m \in ToSet(Tail(corpus[n])) : quotation_is_readable(m)
    => parsed(n) = written(n)

\* A file that is not readable is refused as a whole: no thread gets the
\* canonical id of another one because a message of it was lost or its id
\* taken from elsewhere (the ParseErrors of _parse_message_block).  It takes a
\* body that passes for headers or for a quotation to deceive parse_thread.
NeverMisread ==
  \A n \in DOMAIN corpus :
    bodies_are_apart(corpus[n]) => parsed(n) \in {<<>>, written(n)}

\* The near-duplicates of a file have its Message-IDs, however they differ
\* in whitespace (parse_thread).
NearDuplicatesShareIds ==
  \A n, k \in DOMAIN corpus :
    written(n) = written(k) =>
      parsed(n) = <<>> \/ parsed(k) = <<>> \/ parsed(n) = parsed(k)

\* Parsing and dedup pass exactly for the corpora whose names are right,
\* although only the first file of a label is compared with the children
\* (validate_parsing, validate_dedup).
ScoresAreSound ==
  /\ loaded # None
  /\ loaded.failures = {}
  /\ \A d \in Range(loaded.documents) : d.message_ids = written(d.name)
  => (parsing_ok /\ dedup_ok <=> labels_are_right)

\* The hierarchy resolved by the store is the one in the file names whenever
\* the other two validations pass (validate_hierarchy, CanonicalStore).
HierarchyFollows == loaded # None /\ parsing_ok /\ dedup_ok => hierarchy_ok

\* The order of ingestion makes no difference, for wrong names either
\* (validate_hierarchy, _build_store).
OrderNeverMatters == loaded # None => order_independent(loaded.documents)
=============================================================================
