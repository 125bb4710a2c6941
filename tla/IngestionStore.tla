--------------------------- MODULE IngestionStore ---------------------------
(***************************************************************************)
(* The PostgreSQL tables that the API and the workers share, and what the  *)
(* statements of db/repository.py read and write (db/models.py).           *)
(*                                                                         *)
(* The variables hold what is COMMITTED.  A transaction that has written   *)
(* but not committed keeps its writes in its own process (SubmitApi,       *)
(* IngestionWorker), and each of its statements is a step of its own: the  *)
(* engine runs at READ COMMITTED, so two statements of one transaction see *)
(* two different states of the tables.                                     *)
(***************************************************************************)
EXTENDS Canonicalization, FiniteSets

CONSTANTS
  Documents,       \* document_ids that clients submit
  BlankDocuments,  \* those that are nothing but whitespace
  Payloads,        \* contents that clients submit
  ParsedIds,       \* parse_thread: the Message-IDs of a payload, <<>> = ParseError
  MaxJobs          \* bound: ids the jobs sequence can hand out

ASSUME StoreAssumption ==
  /\ BlankDocuments \subseteq Documents
  /\ ParsedIds \in [Payloads -> Seq(STRING)]
  /\ MaxJobs \in Nat

VARIABLES
  jobs,              \* ingestion_jobs by id, None where no row is committed
  next_job_id,       \* the id sequence; it is never rolled back
  raw_documents,     \* raw_documents by document_id
  canonical_threads  \* canonical_threads by canonical_id

store == <<jobs, next_job_id, raw_documents, canonical_threads>>

JobIds == 1 .. MaxJobs

Statuses == {"pending", "processing", "completed", "failed"}

PermanentErrors == {"parse_error", "conflict"}

\* ValueError for a blank document_id, a unique violation, anything the
\* database or the connection raises.
OtherErrors == {"value_error", "integrity_error", "database_error"}

Errors == PermanentErrors \cup OtherErrors

ParseFails(payload) == ParsedIds[payload] = <<>>

canonical_of(payload) == canonical_id_for(ParsedIds[payload])

CanonicalIds == {canonical_of(p) : p \in {q \in Payloads : ~ParseFails(q)}}

Threads == {thread_of(ParsedIds[p]) : p \in {q \in Payloads : ~ParseFails(q)}}

JobRows ==
  [document_id : Documents, payload : Payloads, status : Statuses,
   attempts : Nat, error : Errors \cup {None}]

RawRows ==
  [canonical_id : CanonicalIds,
   content_hash : {content_hash_for(p) : p \in Payloads}]

ASSUME NoneAssumption ==
  /\ None \notin JobIds
  /\ None \notin JobRows
  /\ None \notin RawRows
  /\ None \notin Threads
  /\ None \notin CanonicalIds
  /\ None \notin Errors

StoreTypeOK ==
  /\ jobs \in [JobIds -> JobRows \cup {None}]
  /\ next_job_id \in 1 .. MaxJobs + 1
  /\ raw_documents \in [Documents -> RawRows \cup {None}]
  /\ canonical_threads \in [CanonicalIds -> Threads \cup {None}]

StoreInit ==
  /\ jobs = [id \in JobIds |-> None]
  /\ next_job_id = 1
  /\ raw_documents = [d \in Documents |-> None]
  /\ canonical_threads = [c \in CanonicalIds |-> None]

-----------------------------------------------------------------------------
(* Statements of db/repository.py                                          *)

JobsWith(status) ==
  {id \in JobIds : jobs[id] # None /\ jobs[id].status = status}

\* The row enqueue_job inserts.
enqueue_job(document_id, payload) ==
  [document_id |-> document_id, payload |-> payload,
   status |-> "pending", attempts |-> 0, error |-> None]

\* Mutant: a job that is being processed is not reused.
waiting_jobs(document_id, payload) ==
  {id \in JobsWith("pending") :
     /\ jobs[id].document_id = document_id
     /\ content_hash_for(jobs[id].payload) = content_hash_for(payload)}

\* Jobs that submit_document may reuse for this document and content.
active_jobs(document_id, payload) ==
  {id \in JobsWith("pending") \cup JobsWith("processing") :
     /\ jobs[id].document_id = document_id
     /\ content_hash_for(jobs[id].payload) = content_hash_for(payload)}

\* The document is registered with another content.
conflicts(document_id, payload) ==
  /\ raw_documents[document_id] # None
  /\ raw_documents[document_id].content_hash # content_hash_for(payload)

raw_row(payload) ==
  [canonical_id |-> canonical_of(payload),
   content_hash |-> content_hash_for(payload)]

\* The lowest pending id that no other transaction has locked, SKIP LOCKED.
claimable(id, locked) ==
  /\ id \in JobsWith("pending") \ locked
  /\ \A other \in JobsWith("pending") \ locked : id <= other

\* Mutant: a status nobody else knows.
claimed_job_misnamed(id) ==
  [jobs EXCEPT ![id] = [@ EXCEPT !.status = "running", !.attempts = @ + 1]]

claimed_job(id) ==
  [jobs EXCEPT ![id] = [@ EXCEPT !.status = "processing",
                                 !.attempts = jobs[id].attempts + 1]]

\* UPDATE ... WHERE id = :id, whatever the status was.
with_verdict(id, status, error) ==
  [jobs EXCEPT ![id] = [@ EXCEPT !.status = status, !.error = error]]

complete_job(id) == with_verdict(id, "completed", None)

\* Mutant: the recovery session is closed without a commit.
fail_job_uncommitted(id, error) == jobs

fail_job(id, error) == with_verdict(id, "failed", error)

requeue_job(id, error) == with_verdict(id, "pending", error)
=============================================================================
