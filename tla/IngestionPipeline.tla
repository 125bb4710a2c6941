------------------------- MODULE IngestionPipeline -------------------------
(***************************************************************************)
(* The API and the workers over the shared tables, and what must be true   *)
(* of them together.                                                       *)
(***************************************************************************)
EXTENDS SubmitApi, IngestionWorker

vars == <<store, api, worker_vars>>

Init == StoreInit /\ ApiInit /\ WorkerInit

Next ==
  \/ \E c \in Clients : Submit(c) /\ UNCHANGED worker_vars
  \/ \E w \in Workers : Work(w) /\ UNCHANGED api

Spec == Init /\ [][Next]_vars

\* A worker process that can take its next step takes it: the loop never
\* parks a worker, and the restart policy brings a dead one back.  Nothing
\* is assumed of clients and of faults.
Fairness == \A w \in Workers : WF_vars(WorkerStep(w) /\ UNCHANGED api)

FairSpec == Spec /\ Fairness

\* Every variable has its type.
TypeOK == StoreTypeOK /\ ApiTypeOK /\ WorkerTypeOK

-----------------------------------------------------------------------------
(* The queue                                                               *)

Owner(w, id) == workers[w].pc \in Working /\ workers[w].job_id = id

\* What the row of a job looks like to the worker that holds it.  A claim
\* that is not committed has not changed it; a commit whose acknowledgement
\* was lost has completed it before the recovery runs.
HeldRow(w) ==
  LET held == workers[w]
      row == jobs[held.job_id]
  IN  IF held.pc = "claimed"
      THEN row.status = "pending" /\ row.attempts + 1 = held.attempts
      ELSE /\ row.attempts = held.attempts
           /\ \/ row.status = "processing"
              \/ held.pc = "recover" /\ row.status = "completed"

\* SKIP LOCKED and the committed claim make a job the business of one worker:
\* no two workers hold the same job, and nobody changes the row of a job
\* under the worker that holds it (claim_next_job, process_next_job; the
\* UPDATEs of complete_job, fail_job and requeue_job do not check the status).
ExclusiveClaims ==
  \A w \in Workers : workers[w].pc \in Working =>
    /\ jobs[workers[w].job_id] # None
    /\ HeldRow(w)
    /\ \A v \in Workers \ {w} : ~Owner(v, workers[w].job_id)

\* The retry budget: a job waits in the queue only while it has attempts
\* left, and is never tried more than MaxAttempts times (process_next_job
\* compares the attempts it read when it claimed the job).
AttemptsBounded ==
  \A id \in JobIds : jobs[id] # None =>
    /\ jobs[id].attempts <= MaxAttempts
    /\ jobs[id].status = "pending" => jobs[id].attempts < MaxAttempts

\* A job stays "processing" without a worker only if a worker process died:
\* exceptions, retries and SIGTERM leave none behind (process_next_job,
\* run_worker_loop finish the job they claimed).
Orphans ==
  {id \in JobsWith("processing") : \A w \in Workers : ~Owner(w, id)}

OrphansNeedCrashes == Cardinality(Orphans) <= faults.crashes

ActiveJobs(d, p) ==
  {id \in JobsWith("pending") \cup JobsWith("processing") :
     jobs[id].document_id = d /\ jobs[id].payload = p}

\* Reusing the active job bounds the duplicates: however often a document is
\* resubmitted, at most one job per concurrent submitter is active for one
\* document and content, and one more for each commit whose acknowledgement
\* was lost, whose job the exception handler puts back into the queue after
\* submissions have seen it completed (the two statements of submit_document;
\* requeue_job in process_next_job).
DuplicatesBounded ==
  \A d \in Documents, p \in Payloads :
    Cardinality(ActiveJobs(d, p)) <= Cardinality(Clients) + faults.lost_acks

\* One document and content has one active job, which later submissions
\* reuse.
OneActiveJobPerContent ==
  \A d \in Documents, p \in Payloads : Cardinality(ActiveJobs(d, p)) <= 1

\* Completed jobs whose worker is about to give them another verdict.
Unheard ==
  {id \in JobsWith("completed") :
     \E w \in Workers : At(w, "recover") /\ workers[w].job_id = id}

\* The rows of ingestion_jobs follow the life cycle of JobLifecycle, although
\* no UPDATE looks at the status it replaces: no step of API, workers or
\* faults skips a state, counts a try twice or touches a failed job, and a
\* completed job is taken back only by the worker that lost the
\* acknowledgement of its commit, once for each loss (process_next_job).
Lifecycle == INSTANCE JobLifecycle WITH
  status <- [id \in JobIds |->
               IF jobs[id] = None THEN "absent" ELSE jobs[id].status],
  tries <- [id \in JobIds |-> IF jobs[id] = None THEN 0 ELSE jobs[id].attempts],
  unheard <- Unheard,
  losses <- faults.lost_acks

FollowsLifecycle == Lifecycle!Spec

-----------------------------------------------------------------------------
(* The result                                                              *)

\* A job reported "completed" has its document registered with exactly its
\* content and its canonical id (process_job completes the job in the
\* transaction that registers the document).
CompletedMeansIngested ==
  \A id \in JobsWith("completed") :
    /\ ~ParseFails(jobs[id].payload)
    /\ raw_documents[jobs[id].document_id] = raw_row(jobs[id].payload)

\* The row of a failed job says why: a cause that no retry could remove, and
\* then a real one, or a budget that is used up.
HasCause(job) ==
  CASE job.error = "parse_error" -> ParseFails(job.payload)
    [] job.error = "conflict" -> conflicts(job.document_id, job.payload)
    [] OTHER -> job.error # None /\ job.attempts = MaxAttempts

\* A job reported "failed" has a cause that no retry could remove, or has
\* used its whole budget; and a conflict is real: the document is registered
\* with another content (process_next_job, upsert_error).
FailedForCause == \A id \in JobsWith("failed") : HasCause(jobs[id])

\* Canonical threads are observed only: a thread row is there exactly when a
\* document is registered under it, with the Message-IDs and the expected
\* parent its id stands for, although two transactions may insert it and
\* either may roll back.
ObservedOnly ==
  /\ \A c \in CanonicalIds :
       canonical_threads[c] # None <=>
         \E d \in Documents :
           raw_documents[d] # None /\ raw_documents[d].canonical_id = c
  /\ \A p \in Payloads : ~ParseFails(p) =>
       canonical_threads[canonical_of(p)] \in {None, thread_of(ParsedIds[p])}

\* The tables implement the registry: whatever is retried, duplicated or
\* interrupted, every change of raw_documents and canonical_threads is one
\* whole registration of a new document.
Registry == INSTANCE CanonicalRegistry WITH
  Outcomes <- {<<d, canonical_of(p)>> :
                 d \in Documents \ BlankDocuments,
                 p \in {q \in Payloads : ~ParseFails(q)}},
  assigned <- [d \in Documents |->
                 IF raw_documents[d] = None THEN None
                 ELSE raw_documents[d].canonical_id],
  observed <- {c \in CanonicalIds : canonical_threads[c] # None}

ImplementsRegistry == Registry!Spec

-----------------------------------------------------------------------------
(* The clients                                                             *)

\* What a 202 said stays true: the job it names exists and carries that
\* document and content, or the document is registered with that content
\* under that canonical id (post_document, get_db_session).
AcceptedMeansRecorded ==
  \A c \in Clients : accepted[c] # None =>
    LET a == accepted[c]
    IN  IF a.job_id = None
        THEN /\ raw_documents[a.document_id] # None
             /\ raw_documents[a.document_id].canonical_id = a.canonical_id
             /\ ~conflicts(a.document_id, a.payload)
        ELSE /\ jobs[a.job_id] # None
             /\ jobs[a.job_id].document_id = a.document_id
             /\ jobs[a.job_id].payload = a.payload

\* A document id never gets jobs for two contents: the second submission is
\* answered 409.
OneContentPerDocument ==
  \A i, j \in JobIds :
    jobs[i] # None /\ jobs[j] # None /\ jobs[i].document_id = jobs[j].document_id
      => jobs[i].payload = jobs[j].payload

-----------------------------------------------------------------------------
(* Progress                                                                *)

Settled(id) == jobs[id] # None /\ jobs[id].status \in {"completed", "failed"}

\* Every job that is in the queue is completed or failed for good or, after
\* a lost acknowledgement, once more.
EveryJobSettles == \A id \in JobIds : jobs[id] # None ~> Settled(id)

\* A worker that was sent SIGTERM leaves its loop (or is killed first).
StopTerminates ==
  \A w \in Workers : stop_event[w] ~> workers[w].pc \in {"stopped", "down"}
=============================================================================
