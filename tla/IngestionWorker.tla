-------------------------- MODULE IngestionWorker --------------------------
(***************************************************************************)
(* The ingestion workers (worker.py; claim_next_job, process_job and       *)
(* upsert_processed_document of db/repository.py).                         *)
(*                                                                         *)
(*   check -> claim -> claimed -> process -> insert_thread                 *)
(*         -> insert_raw -> commit -> check                                *)
(*                                                                         *)
(* and from process .. commit, on an exception, to recover, where a second *)
(* transaction fails or requeues the job.  Each label is the next          *)
(* statement of the worker; what its transaction has written and not       *)
(* committed is told by the label and the flags of its record.             *)
(***************************************************************************)
EXTENDS IngestionStore

CONSTANTS
  Workers,      \* worker processes
  MaxAttempts,  \* settings.worker_max_attempts
  MaxCrashes,   \* bound: how many times a worker process dies
  MaxStops,     \* bound: how many SIGTERMs are sent
  MaxLostAcks   \* bound: how many commits succeed but raise in the worker

ASSUME WorkerAssumption ==
  /\ MaxAttempts \in Nat \ {0}
  /\ MaxCrashes \in Nat
  /\ MaxStops \in Nat
  /\ MaxLostAcks \in Nat

VARIABLES
  workers,     \* control state and locals of each worker
  stop_event,  \* the threading.Event of each worker
  faults       \* how many faults of each kind have happened

worker_vars == <<workers, stop_event, faults>>

Labels == {"check", "claim", "claimed", "process", "insert_thread",
           "insert_raw", "commit", "recover", "stopped", "down"}

\* A transaction of the worker is open on a claimed job, or about to be.
Working == {"claimed", "process", "insert_thread", "insert_raw", "commit",
            "recover"}

AtRest(label) ==
  [pc |-> label, job_id |-> None, attempts |-> 0, existing |-> FALSE,
   new_thread |-> FALSE, error |-> None]

WorkerStates ==
  [pc : Labels, job_id : JobIds \cup {None}, attempts : Nat,
   existing : BOOLEAN, new_thread : BOOLEAN, error : Errors \cup {None}]

WorkerTypeOK ==
  /\ workers \in [Workers -> WorkerStates]
  /\ stop_event \in [Workers -> BOOLEAN]
  /\ faults \in [crashes : 0 .. MaxCrashes, stops : 0 .. MaxStops,
                 lost_acks : 0 .. MaxLostAcks]

WorkerInit ==
  /\ workers = [w \in Workers |-> AtRest("check")]
  /\ stop_event = [w \in Workers |-> FALSE]
  /\ faults = [crashes |-> 0, stops |-> 0, lost_acks |-> 0]

At(w, label) == workers[w].pc = label

Goto(w, label) == workers' = [workers EXCEPT ![w].pc = label]

Return(w) == workers' = [workers EXCEPT ![w] = AtRest("check")]

\* The exception handler of process_next_job after its rollback.
Raise(w, error) ==
  workers' = [workers EXCEPT ![w] =
    [AtRest("recover") EXCEPT !.job_id = workers[w].job_id,
                              !.attempts = workers[w].attempts,
                              !.error = error]]

Job(w) == jobs[workers[w].job_id]

-----------------------------------------------------------------------------
(* run_worker_loop                                                         *)

\* Mutant: the loop does not look at the event.
LoopForever(w) ==
  /\ At(w, "check")
  /\ Goto(w, "claim")
  /\ UNCHANGED <<store, stop_event, faults>>

CheckStop(w) ==
  /\ At(w, "check")
  /\ Goto(w, IF stop_event[w] THEN "stopped" ELSE "claim")
  /\ UNCHANGED <<store, stop_event, faults>>

\* Mutant: the claim does not lock.
no_locked_jobs(w) == {}

\* Rows whose FOR UPDATE lock another claim holds.
locked_jobs(w) ==
  {workers[v].job_id : v \in {u \in Workers \ {w} : At(u, "claimed")}}

\* Nothing to claim: commit, report idle, wait for the poll interval or stop.
Idle(w) ==
  /\ At(w, "claim")
  /\ \A id \in JobIds : ~claimable(id, locked_jobs(w))
  /\ Return(w)
  /\ UNCHANGED <<store, stop_event, faults>>

\* claim_next_job: lock and update the row, not committed yet.
Claim(w) ==
  /\ At(w, "claim")
  /\ \E id \in JobIds :
       /\ claimable(id, locked_jobs(w))
       /\ workers' = [workers EXCEPT ![w] =
            [AtRest("claimed") EXCEPT !.job_id = id,
                                      !.attempts = jobs[id].attempts + 1]]
  /\ UNCHANGED <<store, stop_event, faults>>

CommitClaim(w) ==
  /\ At(w, "claimed")
  /\ jobs' = claimed_job(workers[w].job_id)
  /\ Goto(w, "process")
  /\ UNCHANGED <<next_job_id, raw_documents, canonical_threads,
                 stop_event, faults>>

-----------------------------------------------------------------------------
(* process_job                                                             *)

\* Mutant: the content of a registered document is not compared.
upsert_error_unchecked(document_id, payload) ==
  IF ParseFails(payload) THEN "parse_error"
  ELSE IF document_id \in BlankDocuments THEN "value_error"
  ELSE None

\* Read the document, then check the content, the payload and the id, in
\* this order.
upsert_error(document_id, payload) ==
  IF conflicts(document_id, payload) THEN "conflict"
  ELSE IF ParseFails(payload) THEN "parse_error"
  ELSE IF document_id \in BlankDocuments THEN "value_error"
  ELSE None

Reject(w) ==
  /\ At(w, "process")
  /\ upsert_error(Job(w).document_id, Job(w).payload) # None
  /\ Raise(w, upsert_error(Job(w).document_id, Job(w).payload))
  /\ UNCHANGED <<store, stop_event, faults>>

ReadDocument(w) ==
  /\ At(w, "process")
  /\ upsert_error(Job(w).document_id, Job(w).payload) = None
  /\ workers' = [workers EXCEPT ![w] =
       [@ EXCEPT !.pc = "insert_thread",
                 !.existing = (raw_documents[Job(w).document_id] # None)]]
  /\ UNCHANGED <<store, stop_event, faults>>

\* Another transaction has inserted this row and not committed it.
thread_in_flight(canonical_id) ==
  \E v \in Workers :
    /\ workers[v].pc \in {"insert_raw", "commit"}
    /\ workers[v].new_thread
    /\ canonical_of(Job(v).payload) = canonical_id

document_in_flight(document_id) ==
  \E v \in Workers :
    /\ At(v, "commit")
    /\ ~workers[v].existing
    /\ Job(v).document_id = document_id

\* Mutant: the thread is committed ahead of the document.
InsertThreadCommitted(w) ==
  LET payload == Job(w).payload
  IN  /\ At(w, "insert_thread")
      /\ canonical_threads' = [canonical_threads EXCEPT
           ![canonical_of(payload)] = thread_of(ParsedIds[payload])]
      /\ Goto(w, "insert_raw")
      /\ UNCHANGED <<jobs, next_job_id, raw_documents, stop_event, faults>>

\* INSERT ... ON CONFLICT DO NOTHING waits for an uncommitted duplicate.
InsertThread(w) ==
  LET canonical_id == canonical_of(Job(w).payload)
  IN  /\ At(w, "insert_thread")
      /\ ~thread_in_flight(canonical_id)
      /\ workers' = [workers EXCEPT ![w] =
           [@ EXCEPT !.pc = "insert_raw",
                     !.new_thread = (canonical_threads[canonical_id] = None)]]
      /\ UNCHANGED <<store, stop_event, faults>>

\* Mutant: the insert replaces a row that is there.
InsertRawOverwriting(w) ==
  /\ At(w, "insert_raw")
  /\ Goto(w, "commit")
  /\ UNCHANGED <<store, stop_event, faults>>

\* The flush; the document was there already, or its row goes in now.
InsertRaw(w) ==
  /\ At(w, "insert_raw")
  /\ \/ workers[w].existing
     \/ /\ ~document_in_flight(Job(w).document_id)
        /\ raw_documents[Job(w).document_id] = None
  /\ Goto(w, "commit")
  /\ UNCHANGED <<store, stop_event, faults>>

\* Another transaction has committed the document since it was read.
DuplicateRaw(w) ==
  /\ At(w, "insert_raw")
  /\ ~workers[w].existing
  /\ raw_documents[Job(w).document_id] # None
  /\ Raise(w, "integrity_error")
  /\ UNCHANGED <<store, stop_event, faults>>

\* What the process transaction makes visible, complete_job included.
commit_processed(w) ==
  LET payload == Job(w).payload
  IN  /\ jobs' = complete_job(workers[w].job_id)
      /\ canonical_threads' =
           IF workers[w].new_thread
           THEN [canonical_threads EXCEPT
                  ![canonical_of(payload)] = thread_of(ParsedIds[payload])]
           ELSE canonical_threads
      /\ raw_documents' =
           IF workers[w].existing
           THEN raw_documents
           ELSE [raw_documents EXCEPT ![Job(w).document_id] = raw_row(payload)]
      /\ UNCHANGED next_job_id

CommitProcessed(w) ==
  /\ At(w, "commit")
  /\ commit_processed(w)
  /\ Return(w)
  /\ UNCHANGED <<stop_event, faults>>

\* The server commits, but the connection breaks before the worker hears
\* of it: session.commit() raises and the exception handler runs.
CommitAckLost(w) ==
  /\ At(w, "commit")
  /\ faults.lost_acks < MaxLostAcks
  /\ faults' = [faults EXCEPT !.lost_acks = @ + 1]
  /\ commit_processed(w)
  /\ Raise(w, "database_error")
  /\ UNCHANGED stop_event

\* A statement or the commit fails; the transaction is rolled back.
TransientError(w) ==
  /\ workers[w].pc \in {"process", "insert_thread", "insert_raw", "commit"}
  /\ Raise(w, "database_error")
  /\ UNCHANGED <<store, stop_event, faults>>

-----------------------------------------------------------------------------
(* The exception handler                                                   *)

\* Mutant: whatever is not the connection's fault is permanent.
is_not_transient_error(error) == error # "database_error"

is_permanent_error(error) == error \in PermanentErrors

\* Mutant: one attempt too many.
exhausted_late(w) == workers[w].attempts > MaxAttempts

exhausted(w) == workers[w].attempts >= MaxAttempts

Recover(w) ==
  LET id == workers[w].job_id
      error == workers[w].error
  IN  /\ At(w, "recover")
      /\ jobs' = IF is_permanent_error(error) \/ exhausted(w)
                 THEN fail_job(id, error)
                 ELSE requeue_job(id, error)
      /\ Return(w)
      /\ UNCHANGED <<next_job_id, raw_documents, canonical_threads,
                     stop_event, faults>>

-----------------------------------------------------------------------------
(* The process around the loop                                             *)

\* Mutant: the handler leaves the process at once.
StopNow(w) ==
  /\ workers[w].pc \notin {"stopped", "down"}
  /\ faults.stops < MaxStops
  /\ faults' = [faults EXCEPT !.stops = @ + 1]
  /\ workers' = [workers EXCEPT ![w] = AtRest("stopped")]
  /\ UNCHANGED <<store, stop_event>>

\* SIGTERM or SIGINT: the handler only sets the event.
RequestStop(w) ==
  /\ workers[w].pc \notin {"stopped", "down"}
  /\ ~stop_event[w]
  /\ faults.stops < MaxStops
  /\ faults' = [faults EXCEPT !.stops = @ + 1]
  /\ stop_event' = [stop_event EXCEPT ![w] = TRUE]
  /\ UNCHANGED <<store, workers>>

\* The process is killed, or the claim or the recovery itself raises, which
\* nothing catches.  The server rolls the open transaction back.
Crash(w) ==
  /\ workers[w].pc \notin {"stopped", "down"}
  /\ faults.crashes < MaxCrashes
  /\ faults' = [faults EXCEPT !.crashes = @ + 1]
  /\ workers' = [workers EXCEPT ![w] = AtRest("down")]
  /\ UNCHANGED <<store, stop_event>>

\* Compose and Kubernetes start a new process, with a fresh event.
Restart(w) ==
  /\ At(w, "down")
  /\ Return(w)
  /\ stop_event' = [stop_event EXCEPT ![w] = FALSE]
  /\ UNCHANGED <<store, faults>>

\* What a worker does by itself.
WorkerStep(w) ==
  \/ CheckStop(w)
  \/ Idle(w)
  \/ Claim(w)
  \/ CommitClaim(w)
  \/ Reject(w)
  \/ ReadDocument(w)
  \/ InsertThread(w)
  \/ InsertRaw(w)
  \/ DuplicateRaw(w)
  \/ CommitProcessed(w)
  \/ Recover(w)
  \/ Restart(w)

\* What happens to it.
WorkerFault(w) ==
  \/ CommitAckLost(w)
  \/ TransientError(w)
  \/ RequestStop(w)
  \/ Crash(w)

Work(w) == WorkerStep(w) \/ WorkerFault(w)
=============================================================================
