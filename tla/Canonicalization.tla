-------------------------- MODULE Canonicalization --------------------------
(***************************************************************************)
(* Canonical ids, expected parents and content hashes                      *)
(* (email_dedup/canonicalization.py, hierarchy.py, db/repository.py).      *)
(*                                                                         *)
(* A Message-ID is a TLA+ string.  SHA-256 is taken to be free of          *)
(* collisions: a digest is a record that wraps the text it was taken of.   *)
(* The text itself is built exactly as the code builds it, because two     *)
(* different sequences may have one and the same encoding.                 *)
(***************************************************************************)
EXTENDS Naturals, Sequences, SequencesExt

CONSTANT None    \* Python's None

sha256(text) == [sha256 |-> text]

content_hash_for(payload) == sha256(payload)

\* Python's str.strip() leaves nothing of these strings.
BlankTexts == {"", " ", "\n", "\t"}

\* Mutant: the ids are joined without a separator.
concatenate(message_ids) ==
  FoldLeft(LAMBDA text, id : text \o id, Head(message_ids), Tail(message_ids))

\* "\n".join(message_ids)
encode_message_ids(message_ids) ==
  FoldLeft(LAMBDA text, id : text \o "\n" \o id,
           Head(message_ids), Tail(message_ids))

\* The two ValueErrors of encode_message_ids.
encodable(message_ids) ==
  /\ message_ids # <<>>
  /\ \A i \in DOMAIN message_ids : message_ids[i] \notin BlankTexts

canonical_id_for(message_ids) == sha256(encode_message_ids(message_ids))

\* Mutant: the parent lacks the oldest message.
parent_without_oldest(message_ids) ==
  IF Len(message_ids) = 1 THEN None ELSE canonical_id_for(Front(message_ids))

\* The parent thread is the same sequence without its newest Message-ID.
expected_parent_id_for(message_ids) ==
  IF Len(message_ids) = 1 THEN None ELSE canonical_id_for(Tail(message_ids))

\* The thread row that an assignment stands for (assign_with_parent).
thread_of(message_ids) ==
  [message_ids        |-> message_ids,
   expected_parent_id |-> expected_parent_id_for(message_ids)]
=============================================================================
