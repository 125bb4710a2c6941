----------------------- MODULE IngestionPipelineProofs -----------------------
(***************************************************************************)
(* Proofs about IngestionPipeline, for every value of the constants: types,*)
(* and that the table of jobs is a queue, whose jobs are claimed by one    *)
(* worker at a time and tried at most MaxAttempts times.                   *)
(***************************************************************************)
EXTENDS IngestionPipeline, TLAPS

JobTable == [JobIds -> JobRows \cup {None}]

-----------------------------------------------------------------------------
(* The updates of ingestion_jobs                                           *)

\* complete_job, fail_job and requeue_job change status and error of one row.
LEMMA VerdictLemma ==
  ASSUME jobs \in JobTable, NEW id \in JobIds, jobs[id] # None,
         NEW status \in Statuses, NEW error \in Errors \cup {None},
         jobs' = with_verdict(id, status, error)
  PROVE  /\ jobs' \in JobTable
         /\ jobs'[id] # None
         /\ jobs'[id].status = status
         /\ jobs'[id].error = error
         /\ jobs'[id].attempts = jobs[id].attempts
         /\ jobs'[id].document_id = jobs[id].document_id
         /\ jobs'[id].payload = jobs[id].payload
         /\ \A other \in JobIds \ {id} : jobs'[other] = jobs[other]
<1>1. jobs[id] \in JobRows
  BY DEF JobTable
<1>2. jobs'[id] = [jobs[id] EXCEPT !.status = status, !.error = error]
  BY DEF JobTable, with_verdict
<1>3. jobs'[id] \in JobRows
  BY <1>1, <1>2 DEF JobRows
<1>4. \A other \in JobIds \ {id} : jobs'[other] = jobs[other]
  BY DEF JobTable, with_verdict
<1>5. jobs' \in JobTable
  BY <1>3, <1>4 DEF JobTable, with_verdict
<1>6. jobs'[id] # None
  BY <1>3, NoneAssumption
<1> QED
  BY <1>1, <1>2, <1>4, <1>5, <1>6 DEF JobRows

\* claim_next_job changes status and attempts of one row.
LEMMA ClaimLemma ==
  ASSUME jobs \in JobTable, NEW id \in JobIds, jobs[id] # None,
         jobs' = claimed_job(id)
  PROVE  /\ jobs' \in JobTable
         /\ jobs'[id] # None
         /\ jobs'[id].status = "processing"
         /\ jobs'[id].attempts = jobs[id].attempts + 1
         /\ jobs'[id].error = jobs[id].error
         /\ jobs'[id].document_id = jobs[id].document_id
         /\ jobs'[id].payload = jobs[id].payload
         /\ \A other \in JobIds \ {id} : jobs'[other] = jobs[other]
<1>1. jobs[id] \in JobRows
  BY DEF JobTable
<1>2. jobs'[id] = [jobs[id] EXCEPT !.status = "processing",
                                   !.attempts = jobs[id].attempts + 1]
  BY DEF JobTable, claimed_job
<1>3. jobs'[id] \in JobRows
  <2>1. jobs[id].attempts + 1 \in Nat
    BY <1>1 DEF JobRows
  <2> QED
    BY <1>1, <1>2, <2>1 DEF JobRows, Statuses
<1>4. \A other \in JobIds \ {id} : jobs'[other] = jobs[other]
  BY DEF JobTable, claimed_job
<1>5. jobs' \in JobTable
  BY <1>3, <1>4 DEF JobTable, claimed_job
<1>6. jobs'[id] # None
  BY <1>3, NoneAssumption
<1> QED
  BY <1>1, <1>2, <1>4, <1>5, <1>6 DEF JobRows

-----------------------------------------------------------------------------
(* Typing.  TypeOK is not inductive by itself: an UPDATE by id gives a row *)
(* its type only if the row exists, and a registration gives rows their    *)
(* types only if the payload parses.                                       *)

\* An id that a request has taken from the sequence and not committed.
Reserved(c) ==
  \/ requests[c].pc = "commit"
  \/ requests[c].pc = "respond" /\ RespondFirst

\* Nobody else commits a row under a reserved id.
ReservedIds ==
  /\ \A c \in Clients : requests[c].pc \in {"commit", "respond"} =>
       requests[c].job_id \in JobIds
  /\ \A c \in Clients : Reserved(c) =>
       /\ requests[c].job_id < next_job_id
       /\ jobs[requests[c].job_id] = None
       /\ \A b \in Clients \ {c} : Reserved(b) =>
            requests[b].job_id # requests[c].job_id
  /\ \A id \in JobIds : id >= next_job_id => jobs[id] = None

\* A worker that holds a job holds a row that exists.
HeldJobs ==
  \A w \in Workers : workers[w].pc \in Working =>
    workers[w].job_id \in JobIds /\ jobs[workers[w].job_id] # None

\* Only payloads that parse, of documents with a name, get to the inserts.
Registering == {"insert_thread", "insert_raw", "commit"}

ParsedJobs ==
  \A w \in Workers : workers[w].pc \in Registering =>
    ~ParseFails(Job(w).payload) /\ Job(w).document_id \notin BlankDocuments

TypeInv == TypeOK /\ ReservedIds /\ HeldJobs /\ ParsedJobs

\* The tables start empty, nobody holds anything.
LEMMA TypeInvInit == ASSUME Init PROVE TypeInv
<1>1. StoreTypeOK
  BY StoreAssumption DEF Init, StoreInit, StoreTypeOK, JobIds
<1>2. ApiTypeOK
  BY DEF Init, ApiInit, ApiTypeOK
<1>3. WorkerTypeOK
  BY WorkerAssumption DEF Init, WorkerInit, WorkerTypeOK, WorkerStates, AtRest, Labels
<1>4. ReservedIds
  BY DEF Init, StoreInit, ApiInit, ReservedIds, Reserved, NoRequest
<1>5. HeldJobs /\ ParsedJobs
  BY DEF Init, WorkerInit, AtRest, HeldJobs, ParsedJobs, Working, Registering
<1> QED
  BY <1>1, <1>2, <1>3, <1>4, <1>5 DEF TypeInv, TypeOK

\* A submission reads and writes only what is its own.
LEMMA SubmitTyped ==
  ASSUME TypeInv, NEW c \in Clients, Submit(c), UNCHANGED worker_vars
  PROVE  TypeInv'
<1> USE DEF TypeInv, TypeOK
<1>1. WorkerTypeOK'
  BY DEF WorkerTypeOK, worker_vars
<1>2. ASSUME UNCHANGED jobs PROVE (HeldJobs /\ ParsedJobs)'
  BY <1>2 DEF HeldJobs, ParsedJobs, worker_vars, Job
<1>3. requests[c] \in Requests \cup {NoRequest}
  BY DEF ApiTypeOK
<1>4. CASE \E d \in Documents, p \in Payloads : RejectConflict(c, d, p)
  <2>1. UNCHANGED <<store, api>>
    BY <1>4 DEF RejectConflict
  <2> QED
    BY <2>1, <1>1, <1>2 DEF store, api, StoreTypeOK, ApiTypeOK, ReservedIds, Reserved
<1>5. ASSUME NEW d \in Documents, NEW p \in Payloads, AcceptCompleted(c, d, p)
      PROVE  TypeInv'
  <2>1. UNCHANGED <<jobs, next_job_id, raw_documents, canonical_threads, requests>>
    BY <1>5 DEF AcceptCompleted, store
  <2>2. raw_documents[d].canonical_id \in CanonicalIds
    BY <1>5 DEF AcceptCompleted, StoreTypeOK, RawRows
  <2>3. ApiTypeOK'
    BY <2>1, <2>2, <1>5 DEF AcceptCompleted, accept, ApiTypeOK, Acceptances
  <2> QED
    BY <2>1, <2>3, <1>1, <1>2 DEF StoreTypeOK, ReservedIds, Reserved
<1>6. ASSUME NEW d \in Documents, NEW p \in Payloads, ReadNoDocument(c, d, p)
      PROVE  TypeInv'
  <2>1. UNCHANGED <<jobs, next_job_id, raw_documents, canonical_threads, accepted>>
    BY <1>6 DEF ReadNoDocument, store
  <2>2. ApiTypeOK'
    BY <2>1, <1>6 DEF ReadNoDocument, ApiTypeOK, Requests
  <2>3. ReservedIds'
    BY <2>1, <1>6 DEF ReadNoDocument, ReservedIds, Reserved, ApiTypeOK
  <2> QED
    BY <2>1, <2>2, <2>3, <1>1, <1>2 DEF StoreTypeOK
<1>7. CASE ReuseActiveJob(c)
  <2>1. UNCHANGED <<jobs, next_job_id, raw_documents, canonical_threads>>
    BY <1>7 DEF ReuseActiveJob, store
  <2>2. requests[c] \in Requests /\ requests' = [requests EXCEPT ![c] = NoRequest]
    BY <1>3, <1>7 DEF ReuseActiveJob, NoRequest
  <2>3. PICK id \in JobIds :
          accept(c, requests[c].document_id, requests[c].payload, id, None)
    BY <1>7 DEF ReuseActiveJob, active_jobs, JobsWith
  <2>4. ApiTypeOK'
    BY <2>2, <2>3 DEF ApiTypeOK, accept, Requests, Acceptances
  <2>5. ReservedIds'
    BY <2>1, <2>2 DEF ReservedIds, Reserved, ApiTypeOK, NoRequest
  <2> QED
    BY <2>1, <2>4, <2>5, <1>1, <1>2 DEF StoreTypeOK
<1>8. CASE FindNoActiveJob(c)
  <2>1. UNCHANGED <<jobs, next_job_id, raw_documents, canonical_threads, accepted>>
    BY <1>8 DEF FindNoActiveJob, store
  <2>2. /\ requests[c] \in Requests
        /\ requests' = [requests EXCEPT ![c].pc = "insert"]
    BY <1>3, <1>8 DEF FindNoActiveJob, Transition, NoRequest
  <2>3. ApiTypeOK'
    BY <2>1, <2>2 DEF ApiTypeOK, Requests
  <2>4. ReservedIds'
    BY <2>1, <2>2 DEF ReservedIds, Reserved, ApiTypeOK, Requests
  <2> QED
    BY <2>1, <2>3, <2>4, <1>1, <1>2 DEF StoreTypeOK
<1>9. CASE EnqueueJob(c)
  <2> DEFINE label == IF RespondFirst THEN "respond" ELSE "commit"
  <2>1. /\ UNCHANGED <<jobs, raw_documents, canonical_threads, accepted>>
        /\ next_job_id \in JobIds
        /\ next_job_id' = next_job_id + 1
    BY <1>9, StoreAssumption DEF EnqueueJob, StoreTypeOK, JobIds
  <2>2. /\ requests[c] \in Requests
        /\ requests[c].pc = "insert"
        /\ requests' = [requests EXCEPT ![c] =
             [requests[c] EXCEPT !.job_id = next_job_id, !.pc = label]]
    BY <1>3, <1>9 DEF EnqueueJob, NoRequest
  <2>3. /\ requests'[c].job_id = next_job_id
        /\ requests'[c].pc = label
        /\ requests'[c] \in Requests
        /\ \A b \in Clients \ {c} : requests'[b] = requests[b]
    BY <2>1, <2>2 DEF ApiTypeOK, Requests
  <2>4. ApiTypeOK'
    BY <2>1, <2>2, <2>3 DEF ApiTypeOK
  <2>5. StoreTypeOK'
    BY <2>1, StoreAssumption DEF StoreTypeOK, JobIds
  <2>6. jobs[next_job_id] = None
    BY <2>1 DEF ReservedIds, JobIds
  <2>7. ReservedIds'
    <3>1. \A b \in Clients : requests'[b].pc \in {"commit", "respond"} =>
            requests'[b].job_id \in JobIds
      BY <2>1, <2>3 DEF ReservedIds
    <3>2. ASSUME NEW b \in Clients, Reserved(b)'
          PROVE  /\ requests'[b].job_id < next_job_id'
                 /\ jobs'[requests'[b].job_id] = None
                 /\ \A e \in Clients \ {b} : Reserved(e)' =>
                      requests'[e].job_id # requests'[b].job_id
      <4>1. \A e \in Clients \ {c} : Reserved(e)' => Reserved(e)
        BY <2>3 DEF Reserved
      <4>2. \A e \in Clients \ {c} : Reserved(e)' =>
              /\ requests[e].job_id \in JobIds
              /\ requests[e].job_id < next_job_id
              /\ jobs[requests[e].job_id] = None
        BY <4>1 DEF ReservedIds, Reserved
      <4> QED
        BY <2>1, <2>3, <2>6, <3>2, <4>1, <4>2 DEF ReservedIds, JobIds
    <3>3. \A id \in JobIds : id >= next_job_id' => jobs'[id] = None
      BY <2>1 DEF ReservedIds, JobIds
    <3> QED
      BY <3>1, <3>2, <3>3 DEF ReservedIds
  <2> QED
    BY <2>1, <2>4, <2>5, <2>7, <1>1, <1>2
<1>10. CASE CommitJob(c)
  <2> DEFINE id == requests[c].job_id
             row == enqueue_job(requests[c].document_id, requests[c].payload)
  <2>1. /\ requests[c] \in Requests
        /\ requests[c].pc = "commit"
        /\ id \in JobIds
        /\ jobs[id] = None
        /\ id < next_job_id
    BY <1>3, <1>10 DEF CommitJob, NoRequest, ReservedIds, Reserved
  <2>2. /\ jobs' = [jobs EXCEPT ![id] = row]
        /\ UNCHANGED <<next_job_id, raw_documents, canonical_threads, accepted>>
        /\ requests' = [requests EXCEPT ![c] =
             IF RespondFirst THEN NoRequest
             ELSE [requests[c] EXCEPT !.pc = "respond"]]
    BY <1>10 DEF CommitJob
  <2>3. row \in JobRows
    BY <2>1 DEF enqueue_job, Requests, JobRows, Statuses
  <2>4. StoreTypeOK'
    BY <2>1, <2>2, <2>3 DEF StoreTypeOK
  <2>5. /\ \A b \in Clients \ {c} : requests'[b] = requests[b]
        /\ requests'[c] \in Requests \cup {NoRequest}
        /\ requests'[c].pc \in {"commit", "respond"} => requests'[c].job_id = id
        /\ ~Reserved(c)'
    BY <2>1, <2>2 DEF ApiTypeOK, Requests, NoRequest, Reserved
  <2>6. ApiTypeOK'
    BY <2>2, <2>5 DEF ApiTypeOK
  <2>7. ReservedIds'
    <3>1. \A b \in Clients : Reserved(b)' => b # c /\ Reserved(b)
      BY <2>5 DEF Reserved
    <3>2. \A other \in JobIds \ {id} : jobs'[other] = jobs[other]
      BY <2>1, <2>2 DEF StoreTypeOK
    <3>3. \A b \in Clients \ {c} : Reserved(b) => requests[b].job_id # id
      BY <2>1 DEF ReservedIds, Reserved
    <3> QED
      BY <2>1, <2>2, <2>5, <3>1, <3>2, <3>3 DEF ReservedIds, StoreTypeOK, JobIds, Reserved
  <2>8. (HeldJobs /\ ParsedJobs)'
    BY <2>1, <2>2 DEF HeldJobs, ParsedJobs, worker_vars, Job, StoreTypeOK,
                      Working, Registering
  <2> QED
    BY <2>4, <2>6, <2>7, <2>8, <1>1
<1>11. CASE Respond(c)
  <2>1. UNCHANGED <<jobs, next_job_id, raw_documents, canonical_threads>>
    BY <1>11 DEF Respond, store
  <2>2. /\ requests[c] \in Requests
        /\ requests[c].pc = "respond"
        /\ requests' = [requests EXCEPT ![c] =
             IF RespondFirst THEN [requests[c] EXCEPT !.pc = "commit"] ELSE NoRequest]
        /\ accept(c, requests[c].document_id, requests[c].payload,
                  requests[c].job_id, None)
    BY <1>3, <1>11 DEF Respond, NoRequest
  <2>3. ApiTypeOK'
    BY <2>2 DEF ApiTypeOK, accept, Requests, Acceptances
  <2>4. /\ \A b \in Clients \ {c} : requests'[b] = requests[b]
        /\ requests'[c].pc = "commit" =>
             RespondFirst /\ requests'[c].job_id = requests[c].job_id
        /\ requests'[c].pc # "respond"
    BY <2>2 DEF ApiTypeOK, Requests, NoRequest
  <2>5. ReservedIds'
    BY <2>1, <2>2, <2>4 DEF ReservedIds, Reserved
  <2> QED
    BY <2>1, <2>3, <2>5, <1>1, <1>2 DEF StoreTypeOK
<1>12. CASE AbortRequest(c)
  <2>1. UNCHANGED <<jobs, next_job_id, raw_documents, canonical_threads, accepted>>
    BY <1>12 DEF AbortRequest, store
  <2>2. requests' = [requests EXCEPT ![c] = NoRequest]
    BY <1>12 DEF AbortRequest
  <2>3. ApiTypeOK'
    BY <2>1, <2>2 DEF ApiTypeOK
  <2>4. ReservedIds'
    BY <2>1, <2>2 DEF ReservedIds, Reserved, ApiTypeOK, NoRequest
  <2> QED
    BY <2>1, <2>3, <2>4, <1>1, <1>2 DEF StoreTypeOK
<1> QED
  BY <1>4, <1>5, <1>6, <1>7, <1>8, <1>9, <1>10, <1>11, <1>12 DEF Submit

\* Rows keep their document and payload, and are neither made nor removed.
RowsPersist ==
  \A id \in JobIds :
    /\ jobs[id] = None => jobs'[id] = None
    /\ jobs[id] # None =>
         /\ jobs'[id] # None
         /\ jobs'[id].document_id = jobs[id].document_id
         /\ jobs'[id].payload = jobs[id].payload

\* What a worker has to establish of its next state, whoever else is at work.
LEMMA WorkerMoves ==
  ASSUME TypeInv, RowsPersist, NEW w \in Workers,
         NEW state \in WorkerStates, workers' = [workers EXCEPT ![w] = state],
         state.pc \in Working => state.job_id \in JobIds /\ jobs[state.job_id] # None,
         state.pc \in Registering =>
           /\ ~ParseFails(jobs[state.job_id].payload)
           /\ jobs[state.job_id].document_id \notin BlankDocuments
  PROVE  workers' \in [Workers -> WorkerStates] /\ (HeldJobs /\ ParsedJobs)'
<1> USE DEF TypeInv, TypeOK
<1>1. /\ workers' \in [Workers -> WorkerStates]
      /\ workers'[w] = state
      /\ \A v \in Workers \ {w} : workers'[v] = workers[v]
  BY DEF WorkerTypeOK
<1>2. HeldJobs'
  BY <1>1 DEF HeldJobs, RowsPersist
<1>3. Registering \subseteq Working
  BY DEF Registering, Working
<1>4. ParsedJobs'
  BY <1>1, <1>3 DEF ParsedJobs, HeldJobs, RowsPersist, Job
<1> QED
  BY <1>1, <1>2, <1>4

\* The exception handler takes over job and attempts.
LEMMA RaiseLemma ==
  ASSUME TypeInv, NEW w \in Workers, NEW error \in Errors,
         workers[w].pc \in Working, Raise(w, error), RowsPersist
  PROVE  workers' \in [Workers -> WorkerStates] /\ (HeldJobs /\ ParsedJobs)'
<1> DEFINE state == [AtRest("recover") EXCEPT !.job_id = workers[w].job_id,
                                              !.attempts = workers[w].attempts,
                                              !.error = error]
<1>1. workers[w] \in WorkerStates
  BY DEF TypeInv, TypeOK, WorkerTypeOK
<1>2. /\ state \in WorkerStates
      /\ state.pc = "recover"
      /\ state.job_id = workers[w].job_id
  BY <1>1 DEF AtRest, WorkerStates, Labels
<1>3. workers' = [workers EXCEPT ![w] = state]
  BY DEF Raise
<1>4. workers[w].job_id \in JobIds /\ jobs[workers[w].job_id] # None
  BY DEF TypeInv, HeldJobs
<1> HIDE DEF state
<1> QED
  BY <1>2, <1>3, <1>4, WorkerMoves DEF Registering

\* A verdict leaves every row with its document and payload.
LEMMA VerdictPersists ==
  ASSUME TypeInv, NEW id \in JobIds, jobs[id] # None,
         NEW status \in Statuses, NEW error \in Errors \cup {None},
         jobs' = with_verdict(id, status, error)
  PROVE  RowsPersist /\ jobs' \in JobTable
<1>1. jobs \in JobTable
  BY DEF TypeInv, TypeOK, StoreTypeOK, JobTable
<1>2. /\ jobs' \in JobTable
      /\ jobs'[id] # None
      /\ jobs'[id].document_id = jobs[id].document_id
      /\ jobs'[id].payload = jobs[id].payload
      /\ \A other \in JobIds \ {id} : jobs'[other] = jobs[other]
  BY <1>1, VerdictLemma
<1> QED
  BY <1>2 DEF RowsPersist

\* Registering a document keeps the tables typed.
LEMMA RegisterTyped ==
  ASSUME TypeInv, NEW w \in Workers, At(w, "commit"), commit_processed(w)
  PROVE  StoreTypeOK' /\ RowsPersist
<1> DEFINE id == workers[w].job_id
<1> USE DEF TypeInv, TypeOK
<1>1. id \in JobIds /\ jobs[id] # None
  BY DEF HeldJobs, Working, At
<1>2. jobs[id] \in JobRows
  BY <1>1 DEF StoreTypeOK
<1>3. ~ParseFails(jobs[id].payload)
  BY DEF ParsedJobs, Registering, At, Job
<1>4. RowsPersist /\ jobs' \in JobTable
  BY <1>1, VerdictPersists DEF commit_processed, complete_job, Statuses
<1>5. jobs[id].payload \in Payloads /\ jobs[id].document_id \in Documents
  BY <1>2 DEF JobRows
<1>6. canonical_of(jobs[id].payload) \in CanonicalIds
  BY <1>3, <1>5 DEF CanonicalIds
<1>7. thread_of(ParsedIds[jobs[id].payload]) \in Threads
  BY <1>3, <1>5 DEF Threads
<1>8. raw_row(jobs[id].payload) \in RawRows
  BY <1>5, <1>6 DEF raw_row, RawRows
<1>9. canonical_threads' \in [CanonicalIds -> Threads \cup {None}]
  BY <1>6, <1>7 DEF commit_processed, StoreTypeOK, Job
<1>10. raw_documents' \in [Documents -> RawRows \cup {None}]
  BY <1>5, <1>8 DEF commit_processed, StoreTypeOK, Job
<1> QED
  BY <1>4, <1>9, <1>10 DEF StoreTypeOK, JobTable, commit_processed

\* A worker at rest holds no job.
LEMMA RestTyped ==
  ASSUME NEW label \in Labels
  PROVE  /\ AtRest(label) \in WorkerStates
         /\ AtRest(label).pc = label
         /\ AtRest(label).job_id = None
BY DEF AtRest, WorkerStates

\* Nor does a worker, or what happens to it, write anything else.
LEMMA WorkTyped ==
  ASSUME TypeInv, NEW w \in Workers, Work(w), UNCHANGED api
  PROVE  TypeInv'
<1> USE DEF TypeInv, TypeOK
<1>1. ApiTypeOK'
  BY DEF ApiTypeOK, api
<1>2. workers[w] \in WorkerStates /\ stop_event[w] \in BOOLEAN
  BY DEF WorkerTypeOK
<1>3. workers[w].pc \in Working => workers[w].job_id \in JobIds /\ Job(w) \in JobRows
  BY DEF HeldJobs, StoreTypeOK, Job
<1>4. ASSUME RowsPersist, UNCHANGED next_job_id PROVE ReservedIds'
  BY <1>4 DEF ReservedIds, Reserved, RowsPersist, api
<1>5. ASSUME UNCHANGED store PROVE RowsPersist /\ StoreTypeOK' /\ ReservedIds'
  BY <1>5, <1>4 DEF store, RowsPersist, StoreTypeOK
<1>6. ASSUME workers' \in [Workers -> WorkerStates],
             UNCHANGED <<stop_event, faults>>
      PROVE  WorkerTypeOK'
  BY <1>6 DEF WorkerTypeOK
<1>7. CASE CheckStop(w)
  <2> DEFINE label == IF stop_event[w] THEN "stopped" ELSE "claim"
             state == [workers[w] EXCEPT !.pc = label]
  <2>1. UNCHANGED store /\ UNCHANGED <<stop_event, faults>>
    BY <1>7 DEF CheckStop
  <2>2. workers' = [workers EXCEPT ![w] = state]
    BY <1>7 DEF CheckStop, Goto
  <2>3. state \in WorkerStates /\ state.pc \in {"stopped", "claim"}
    BY <1>2 DEF WorkerStates, Labels
  <2> HIDE DEF state
  <2>4. workers' \in [Workers -> WorkerStates] /\ (HeldJobs /\ ParsedJobs)'
    BY <2>1, <2>2, <2>3, <1>5, WorkerMoves DEF Working, Registering
  <2> QED
    BY <2>1, <2>4, <1>1, <1>5, <1>6
<1>8. CASE Idle(w)
  <2>1. UNCHANGED store /\ UNCHANGED <<stop_event, faults>>
    BY <1>8 DEF Idle
  <2>2. workers' = [workers EXCEPT ![w] = AtRest("check")]
    BY <1>8 DEF Idle, Return
  <2>3. workers' \in [Workers -> WorkerStates] /\ (HeldJobs /\ ParsedJobs)'
    BY <2>1, <2>2, <1>5, RestTyped, WorkerMoves DEF Working, Registering, Labels
  <2> QED
    BY <2>1, <2>3, <1>1, <1>5, <1>6
<1>9. CASE Claim(w)
  <2>1. UNCHANGED store /\ UNCHANGED <<stop_event, faults>>
    BY <1>9 DEF Claim
  <2>2. PICK id \in JobIds :
          /\ claimable(id, locked_jobs(w))
          /\ workers' = [workers EXCEPT ![w] =
               [AtRest("claimed") EXCEPT !.job_id = id,
                                         !.attempts = jobs[id].attempts + 1]]
    BY <1>9 DEF Claim
  <2>3. jobs[id] # None /\ jobs[id] \in JobRows
    BY <2>2 DEF claimable, JobsWith, StoreTypeOK
  <2>4. jobs[id].attempts + 1 \in Nat
    BY <2>3 DEF JobRows
  <2> DEFINE state == [AtRest("claimed") EXCEPT !.job_id = id,
                                                !.attempts = jobs[id].attempts + 1]
  <2>5. state \in WorkerStates /\ state.pc = "claimed" /\ state.job_id = id
    BY <2>4 DEF AtRest, WorkerStates, Labels
  <2>6. workers' = [workers EXCEPT ![w] = state]
    BY <2>2
  <2> HIDE DEF state
  <2>7. workers' \in [Workers -> WorkerStates] /\ (HeldJobs /\ ParsedJobs)'
    BY <2>1, <2>3, <2>5, <2>6, <1>5, WorkerMoves DEF Registering
  <2> QED
    BY <2>1, <2>7, <1>1, <1>5, <1>6
<1>10. CASE CommitClaim(w)
  <2> DEFINE id == workers[w].job_id
             state == [workers[w] EXCEPT !.pc = "process"]
  <2>1. /\ UNCHANGED <<next_job_id, raw_documents, canonical_threads>>
        /\ UNCHANGED <<stop_event, faults>>
        /\ jobs' = claimed_job(id)
        /\ id \in JobIds
        /\ jobs[id] # None
    BY <1>10 DEF CommitClaim, HeldJobs, Working, At
  <2>2. jobs' \in JobTable /\ RowsPersist
    BY <2>1, ClaimLemma DEF JobTable, StoreTypeOK, RowsPersist
  <2>3. workers' = [workers EXCEPT ![w] = state]
    BY <1>10 DEF CommitClaim, Goto
  <2>4. state \in WorkerStates /\ state.pc = "process" /\ state.job_id = id
    BY <1>2 DEF WorkerStates, Labels
  <2> HIDE DEF state
  <2>5. workers' \in [Workers -> WorkerStates] /\ (HeldJobs /\ ParsedJobs)'
    BY <2>1, <2>2, <2>3, <2>4, WorkerMoves DEF Registering
  <2>6. StoreTypeOK'
    BY <2>1, <2>2 DEF StoreTypeOK, JobTable
  <2> QED
    BY <2>1, <2>2, <2>5, <2>6, <1>1, <1>4, <1>6
<1>11. CASE Reject(w)
  <2> DEFINE error == upsert_error(Job(w).document_id, Job(w).payload)
  <2>1. UNCHANGED store /\ UNCHANGED <<stop_event, faults>>
    BY <1>11 DEF Reject
  <2>2. error \in Errors
    BY <1>11 DEF Reject, upsert_error, Errors, PermanentErrors, OtherErrors
  <2>3. Raise(w, error) /\ workers[w].pc \in Working
    BY <1>11 DEF Reject, At, Working
  <2> HIDE DEF error
  <2>4. workers' \in [Workers -> WorkerStates] /\ (HeldJobs /\ ParsedJobs)'
    BY <2>1, <2>2, <2>3, <1>5, RaiseLemma
  <2> QED
    BY <2>1, <2>4, <1>1, <1>5, <1>6
<1>12. CASE ReadDocument(w)
  <2> DEFINE state == [workers[w] EXCEPT
                !.pc = "insert_thread",
                !.existing = (raw_documents[Job(w).document_id] # None)]
  <2>1. UNCHANGED store /\ UNCHANGED <<stop_event, faults>>
    BY <1>12 DEF ReadDocument
  <2>2. workers' = [workers EXCEPT ![w] = state]
    BY <1>12 DEF ReadDocument
  <2>3. /\ state \in WorkerStates
        /\ state.pc = "insert_thread"
        /\ state.job_id = workers[w].job_id
    BY <1>2 DEF WorkerStates, Labels
  <2>4. /\ workers[w].job_id \in JobIds
        /\ jobs[workers[w].job_id] # None
    BY <1>12 DEF ReadDocument, HeldJobs, At, Working
  <2>5. ~ParseFails(Job(w).payload) /\ Job(w).document_id \notin BlankDocuments
    BY <1>12, NoneAssumption DEF ReadDocument, upsert_error, Errors, PermanentErrors,
                                 OtherErrors
  <2> HIDE DEF state
  <2>6. workers' \in [Workers -> WorkerStates] /\ (HeldJobs /\ ParsedJobs)'
    BY <2>1, <2>2, <2>3, <2>4, <2>5, <1>5, WorkerMoves DEF Job
  <2> QED
    BY <2>1, <2>6, <1>1, <1>5, <1>6
<1>13. CASE InsertThread(w)
  <2> DEFINE state == [workers[w] EXCEPT
                !.pc = "insert_raw",
                !.new_thread = (canonical_threads[canonical_of(Job(w).payload)] = None)]
  <2>1. UNCHANGED store /\ UNCHANGED <<stop_event, faults>>
    BY <1>13 DEF InsertThread
  <2>2. workers' = [workers EXCEPT ![w] = state]
    BY <1>13 DEF InsertThread
  <2>3. /\ state \in WorkerStates
        /\ state.pc = "insert_raw"
        /\ state.job_id = workers[w].job_id
    BY <1>2 DEF WorkerStates, Labels
  <2>4. /\ workers[w].job_id \in JobIds
        /\ jobs[workers[w].job_id] # None
        /\ ~ParseFails(Job(w).payload)
        /\ Job(w).document_id \notin BlankDocuments
    BY <1>13 DEF InsertThread, HeldJobs, ParsedJobs, At, Working, Registering
  <2> HIDE DEF state
  <2>5. workers' \in [Workers -> WorkerStates] /\ (HeldJobs /\ ParsedJobs)'
    BY <2>1, <2>2, <2>3, <2>4, <1>5, WorkerMoves DEF Job
  <2> QED
    BY <2>1, <2>5, <1>1, <1>5, <1>6
<1>14. CASE InsertRaw(w)
  <2> DEFINE state == [workers[w] EXCEPT !.pc = "commit"]
  <2>1. UNCHANGED store /\ UNCHANGED <<stop_event, faults>>
    BY <1>14 DEF InsertRaw
  <2>2. workers' = [workers EXCEPT ![w] = state]
    BY <1>14 DEF InsertRaw, Goto
  <2>3. /\ state \in WorkerStates
        /\ state.pc = "commit"
        /\ state.job_id = workers[w].job_id
    BY <1>2 DEF WorkerStates, Labels
  <2>4. /\ workers[w].job_id \in JobIds
        /\ jobs[workers[w].job_id] # None
        /\ ~ParseFails(Job(w).payload)
        /\ Job(w).document_id \notin BlankDocuments
    BY <1>14 DEF InsertRaw, HeldJobs, ParsedJobs, At, Working, Registering
  <2> HIDE DEF state
  <2>5. workers' \in [Workers -> WorkerStates] /\ (HeldJobs /\ ParsedJobs)'
    BY <2>1, <2>2, <2>3, <2>4, <1>5, WorkerMoves DEF Job
  <2> QED
    BY <2>1, <2>5, <1>1, <1>5, <1>6
<1>15. CASE DuplicateRaw(w) \/ TransientError(w)
  <2>1. UNCHANGED store /\ UNCHANGED <<stop_event, faults>>
    BY <1>15 DEF DuplicateRaw, TransientError
  <2>2. PICK error \in Errors : Raise(w, error) /\ workers[w].pc \in Working
    BY <1>15 DEF DuplicateRaw, TransientError, At, Working, Errors, OtherErrors
  <2>3. workers' \in [Workers -> WorkerStates] /\ (HeldJobs /\ ParsedJobs)'
    BY <2>1, <2>2, <1>5, RaiseLemma
  <2> QED
    BY <2>1, <2>3, <1>1, <1>5, <1>6
<1>16. CASE CommitProcessed(w)
  <2>1. StoreTypeOK' /\ RowsPersist /\ UNCHANGED next_job_id
    BY <1>16, RegisterTyped DEF CommitProcessed, commit_processed
  <2>2. workers' = [workers EXCEPT ![w] = AtRest("check")]
    BY <1>16 DEF CommitProcessed, Return
  <2>3. workers' \in [Workers -> WorkerStates] /\ (HeldJobs /\ ParsedJobs)'
    BY <2>1, <2>2, RestTyped, WorkerMoves DEF Working, Registering, Labels
  <2>4. WorkerTypeOK'
    BY <2>3, <1>6, <1>16 DEF CommitProcessed
  <2> QED
    BY <2>1, <2>3, <2>4, <1>1, <1>4
<1>17. CASE CommitAckLost(w)
  <2>1. StoreTypeOK' /\ RowsPersist /\ UNCHANGED next_job_id
    BY <1>17, RegisterTyped DEF CommitAckLost, commit_processed
  <2>2. Raise(w, "database_error") /\ workers[w].pc \in Working
    BY <1>17 DEF CommitAckLost, At, Working
  <2>3. workers' \in [Workers -> WorkerStates] /\ (HeldJobs /\ ParsedJobs)'
    BY <2>1, <2>2, RaiseLemma DEF Errors, OtherErrors
  <2>4. WorkerTypeOK'
    BY <2>3, <1>17, WorkerAssumption DEF CommitAckLost, WorkerTypeOK
  <2> QED
    BY <2>1, <2>3, <2>4, <1>1, <1>4
<1>18. CASE Recover(w)
  <2> DEFINE id == workers[w].job_id
  <2>1. /\ UNCHANGED <<next_job_id, raw_documents, canonical_threads>>
        /\ UNCHANGED <<stop_event, faults>>
        /\ id \in JobIds
        /\ jobs[id] # None
    BY <1>18 DEF Recover, HeldJobs, Working, At
  <2>2. workers[w].error \in Errors \cup {None}
    BY <1>2 DEF WorkerStates
  <2>3. PICK status \in Statuses : jobs' = with_verdict(id, status, workers[w].error)
    BY <1>18 DEF Recover, fail_job, requeue_job, Statuses
  <2>4. RowsPersist /\ jobs' \in JobTable
    BY <2>1, <2>2, <2>3, VerdictPersists
  <2>5. workers' = [workers EXCEPT ![w] = AtRest("check")]
    BY <1>18 DEF Recover, Return
  <2>6. workers' \in [Workers -> WorkerStates] /\ (HeldJobs /\ ParsedJobs)'
    BY <2>4, <2>5, RestTyped, WorkerMoves DEF Working, Registering, Labels
  <2>7. StoreTypeOK'
    BY <2>1, <2>4 DEF StoreTypeOK, JobTable
  <2> QED
    BY <2>1, <2>4, <2>6, <2>7, <1>1, <1>4, <1>6
<1>19. CASE RequestStop(w)
  <2>1. UNCHANGED store /\ UNCHANGED workers
    BY <1>19 DEF RequestStop
  <2>2. WorkerTypeOK'
    BY <2>1, <1>19, WorkerAssumption DEF RequestStop, WorkerTypeOK
  <2>3. (HeldJobs /\ ParsedJobs)'
    BY <2>1 DEF HeldJobs, ParsedJobs, Job, store
  <2> QED
    BY <2>1, <2>2, <2>3, <1>1, <1>5
<1>20. CASE Crash(w)
  <2>1. UNCHANGED store /\ UNCHANGED stop_event
    BY <1>20 DEF Crash
  <2>2. workers' = [workers EXCEPT ![w] = AtRest("down")]
    BY <1>20 DEF Crash
  <2>3. workers' \in [Workers -> WorkerStates] /\ (HeldJobs /\ ParsedJobs)'
    BY <2>1, <2>2, <1>5, RestTyped, WorkerMoves DEF Working, Registering, Labels
  <2>4. WorkerTypeOK'
    BY <2>1, <2>3, <1>20, WorkerAssumption DEF Crash, WorkerTypeOK
  <2> QED
    BY <2>1, <2>3, <2>4, <1>1, <1>5
<1>21. CASE Restart(w)
  <2>1. UNCHANGED store /\ UNCHANGED faults
    BY <1>21 DEF Restart
  <2>2. workers' = [workers EXCEPT ![w] = AtRest("check")]
    BY <1>21 DEF Restart, Return
  <2>3. workers' \in [Workers -> WorkerStates] /\ (HeldJobs /\ ParsedJobs)'
    BY <2>1, <2>2, <1>5, RestTyped, WorkerMoves DEF Working, Registering, Labels
  <2>4. WorkerTypeOK'
    BY <2>1, <2>3, <1>21 DEF Restart, WorkerTypeOK
  <2> QED
    BY <2>1, <2>3, <2>4, <1>1, <1>5
<1> QED
  BY <1>7, <1>8, <1>9, <1>10, <1>11, <1>12, <1>13, <1>14, <1>15, <1>16, <1>17,
     <1>18, <1>19, <1>20, <1>21 DEF Work, WorkerStep, WorkerFault

\* Every step keeps all of it.
LEMMA TypeInvStep == ASSUME TypeInv, [Next]_vars PROVE TypeInv'
<1>1. ASSUME NEW c \in Clients, Submit(c), UNCHANGED worker_vars PROVE TypeInv'
  BY <1>1, SubmitTyped
<1>2. ASSUME NEW w \in Workers, Work(w), UNCHANGED api PROVE TypeInv'
  BY <1>2, WorkTyped
<1>3. CASE UNCHANGED vars
  BY <1>3 DEF vars, store, api, worker_vars, TypeInv, TypeOK, StoreTypeOK, ApiTypeOK,
              WorkerTypeOK, ReservedIds, Reserved, HeldJobs, ParsedJobs, Job
<1> QED
  BY <1>1, <1>2, <1>3 DEF Next

\* Every variable keeps its type, whatever the number of workers, clients,
\* documents and faults.
THEOREM TypeCorrect == Spec => []TypeOK
<1>1. Init => TypeInv
  BY TypeInvInit
<1>2. TypeInv /\ [Next]_vars => TypeInv'
  BY TypeInvStep
<1>3. TypeInv => TypeOK
  BY DEF TypeInv
<1> QED
  BY <1>1, <1>2, <1>3, PTL DEF Spec

\* A request that has been given a job id is the only one that will commit a
\* row under it, although ids are taken from the sequence outside of any lock
\* and rows appear in another order than their ids (enqueue_job,
\* get_db_session).
THEOREM IdsAreReserved == Spec => []ReservedIds
<1>1. Init => TypeInv
  BY TypeInvInit
<1>2. TypeInv /\ [Next]_vars => TypeInv'
  BY TypeInvStep
<1>3. TypeInv => ReservedIds
  BY DEF TypeInv
<1> QED
  BY <1>1, <1>2, <1>3, PTL DEF Spec

-----------------------------------------------------------------------------
(* The queue                                                               *)

\* Together these are inductive: a claim takes a pending row that is not
\* locked, while a held row is locked, processing or completed; and the
\* attempts the handler compares are those of the row it holds.
QueueInv == TypeInv /\ ExclusiveClaims /\ AttemptsBounded

-----------------------------------------------------------------------------
(* Exclusive claims                                                        *)

\* The step of a worker that changes no row but its own, and ends at rest or
\* with a job that nobody else holds, leaves all claims exclusive.
LEMMA OwnRowOnly ==
  ASSUME TypeInv, TypeInv', ExclusiveClaims, NEW w \in Workers,
         \A v \in Workers \ {w} : workers'[v] = workers[v],
         \A id \in JobIds : jobs'[id] = jobs[id] \/ Owner(w, id),
         workers'[w].pc \in Working =>
           /\ HeldRow(w)'
           /\ \A v \in Workers \ {w} : ~Owner(v, workers'[w].job_id)
  PROVE  ExclusiveClaims'
<1> SUFFICES ASSUME NEW u \in Workers, workers'[u].pc \in Working
             PROVE  /\ jobs'[workers'[u].job_id] # None
                    /\ HeldRow(u)'
                    /\ \A v \in Workers \ {u} : ~Owner(v, workers[u].job_id)'
  BY DEF ExclusiveClaims
<1>1. workers'[u].job_id \in JobIds /\ jobs'[workers'[u].job_id] # None
  BY DEF TypeInv, HeldJobs
<1>2. CASE u = w
  BY <1>1, <1>2 DEF Owner
<1>3. CASE u # w
  <2>1. workers'[u] = workers[u]
    BY <1>3
  <2>2. HeldRow(u) /\ \A v \in Workers \ {u} : ~Owner(v, workers[u].job_id)
    BY <2>1 DEF ExclusiveClaims
  <2>3. jobs'[workers[u].job_id] = jobs[workers[u].job_id]
    BY <1>1, <1>3, <2>1, <2>2
  <2>4. HeldRow(u)'
    BY <2>1, <2>2, <2>3 DEF HeldRow
  <2>5. ~Owner(w, workers[u].job_id)'
    BY <1>3, <2>1 DEF Owner
  <2>6. \A v \in Workers \ {u, w} : ~Owner(v, workers[u].job_id)'
    BY <2>1, <2>2 DEF Owner
  <2> QED
    BY <1>1, <2>4, <2>5, <2>6
<1> QED
  BY <1>2, <1>3

\* A submission only adds a row, under an id that no worker holds.
LEMMA SubmitExclusive ==
  ASSUME TypeInv, TypeInv', ExclusiveClaims, NEW c \in Clients, Submit(c),
         UNCHANGED worker_vars
  PROVE  ExclusiveClaims'
<1>1. \A id \in JobIds : jobs[id] # None => jobs'[id] = jobs[id]
  <2>1. CASE UNCHANGED jobs
    BY <2>1
  <2>2. CASE CommitJob(c)
    <3>1. requests[c].job_id \in JobIds /\ jobs[requests[c].job_id] = None
      BY <2>2 DEF CommitJob, TypeInv, ReservedIds, Reserved
    <3> QED
      BY <2>2, <3>1 DEF CommitJob, TypeInv, TypeOK, StoreTypeOK
  <2> QED
    BY <2>1, <2>2 DEF Submit, RejectConflict, AcceptCompleted, ReadNoDocument,
       ReuseActiveJob, FindNoActiveJob, EnqueueJob, Respond, AbortRequest, store
<1>2. workers' = workers
  BY DEF worker_vars
<1>3. \A w \in Workers : workers[w].pc \in Working =>
        jobs'[workers[w].job_id] = jobs[workers[w].job_id]
  BY <1>1 DEF TypeInv, HeldJobs
<1> QED
  BY <1>2, <1>3 DEF ExclusiveClaims, HeldRow, Owner

\* So does every step of a worker and every fault.
LEMMA WorkExclusive ==
  ASSUME TypeInv, TypeInv', ExclusiveClaims, NEW w \in Workers, Work(w)
  PROVE  ExclusiveClaims'
<1> DEFINE id == workers[w].job_id
<1>1. /\ jobs \in JobTable
      /\ workers \in [Workers -> WorkerStates]
      /\ workers[w] \in WorkerStates
  BY DEF TypeInv, TypeOK, StoreTypeOK, WorkerTypeOK, JobTable
<1>2. workers[w].pc \in Working =>
        /\ id \in JobIds
        /\ jobs[id] \in JobRows
        /\ jobs[id] # None
        /\ HeldRow(w)
        /\ \A v \in Workers \ {w} : ~Owner(v, id)
  BY <1>1 DEF TypeInv, HeldJobs, ExclusiveClaims, JobTable
<1>3. CASE Claim(w)
  <2>1. UNCHANGED jobs
    BY <1>3 DEF Claim, store
  <2>2. PICK new \in JobIds :
          /\ claimable(new, locked_jobs(w))
          /\ workers' = [workers EXCEPT ![w] =
               [AtRest("claimed") EXCEPT !.job_id = new,
                                         !.attempts = jobs[new].attempts + 1]]
    BY <1>3 DEF Claim
  <2>3. /\ \A v \in Workers \ {w} : workers'[v] = workers[v]
        /\ workers'[w].pc = "claimed"
        /\ workers'[w].job_id = new
        /\ workers'[w].attempts = jobs[new].attempts + 1
    BY <1>1, <2>2 DEF AtRest
  <2>4. jobs[new].status = "pending" /\ new \notin locked_jobs(w)
    BY <2>2 DEF claimable, JobsWith
  <2>5. HeldRow(w)'
    BY <2>1, <2>3, <2>4 DEF HeldRow
  <2>6. ASSUME NEW v \in Workers \ {w}, Owner(v, new) PROVE FALSE
    <3>1. HeldRow(v) /\ workers[v].job_id = new
      BY <2>6 DEF ExclusiveClaims, Owner
    <3>2. workers[v].pc = "claimed"
      BY <2>4, <3>1 DEF HeldRow
    <3> QED
      BY <2>4, <3>1, <3>2 DEF locked_jobs, At
  <2> QED
    BY <2>1, <2>3, <2>5, <2>6, OwnRowOnly
<1>4. CASE CommitClaim(w)
  <2>1. /\ workers[w].pc = "claimed"
        /\ jobs' = claimed_job(id)
        /\ workers' = [workers EXCEPT ![w] = [workers[w] EXCEPT !.pc = "process"]]
    BY <1>4 DEF CommitClaim, At, Goto
  <2>2. /\ \A v \in Workers \ {w} : workers'[v] = workers[v]
        /\ workers'[w].pc = "process"
        /\ workers'[w].job_id = id
        /\ workers'[w].attempts = workers[w].attempts
    BY <1>1, <2>1 DEF WorkerStates
  <2>3. /\ jobs'[id].status = "processing"
        /\ jobs'[id].attempts = jobs[id].attempts + 1
        /\ \A other \in JobIds \ {id} : jobs'[other] = jobs[other]
    BY <1>1, <1>2, <2>1, ClaimLemma DEF Working
  <2>4. HeldRow(w)'
    BY <1>2, <2>1, <2>2, <2>3 DEF HeldRow, Working
  <2> QED
    BY <1>2, <2>1, <2>2, <2>3, <2>4, OwnRowOnly DEF Owner, Working
<1>5. CASE Recover(w)
  <2>1. workers[w].pc = "recover" /\ workers' = [workers EXCEPT ![w] = AtRest("check")]
    BY <1>5 DEF Recover, At, Return
  <2>2. \A other \in JobIds \ {id} : jobs'[other] = jobs[other]
    BY <1>1, <1>5 DEF Recover, fail_job, requeue_job, with_verdict, JobTable
  <2>3. \A v \in Workers \ {w} : workers'[v] = workers[v]
    BY <1>1, <2>1
  <2>4. workers'[w].pc \notin Working
    BY <1>1, <2>1 DEF AtRest, Working
  <2> QED
    BY <2>1, <2>2, <2>3, <2>4, OwnRowOnly DEF Owner, Working
<1>6. CASE CommitProcessed(w) \/ CommitAckLost(w)
  <2>1. workers[w].pc = "commit" /\ jobs' = complete_job(id)
    BY <1>6 DEF CommitProcessed, CommitAckLost, At, commit_processed
  <2>2. /\ jobs'[id].status = "completed"
        /\ jobs'[id].attempts = jobs[id].attempts
        /\ \A other \in JobIds \ {id} : jobs'[other] = jobs[other]
    BY <1>1, <1>2, <2>1, VerdictLemma DEF complete_job, Statuses, Working
  <2>3. /\ \A v \in Workers \ {w} : workers'[v] = workers[v]
        /\ \/ workers'[w].pc \notin Working
           \/ /\ workers'[w].pc = "recover"
              /\ workers'[w].job_id = id
              /\ workers'[w].attempts = workers[w].attempts
    <3>1. CASE CommitProcessed(w)
      BY <1>1, <3>1 DEF CommitProcessed, Return, AtRest, Working
    <3>2. CASE CommitAckLost(w)
      BY <1>1, <3>2 DEF CommitAckLost, Raise, AtRest
    <3> QED
      BY <1>6, <3>1, <3>2
  <2>4. workers'[w].pc \in Working => HeldRow(w)'
    BY <1>2, <2>1, <2>2, <2>3 DEF HeldRow, Working
  <2> QED
    BY <1>2, <2>1, <2>2, <2>3, <2>4, OwnRowOnly DEF Owner, Working
<1>7. ASSUME UNCHANGED jobs, workers[w].pc \in Working \ {"claimed", "recover"},
             \A v \in Workers \ {w} : workers'[v] = workers[v],
             workers'[w].pc \in Working \ {"claimed"},
             workers'[w].job_id = id,
             workers'[w].attempts = workers[w].attempts
      PROVE  ExclusiveClaims'
  <2>1. HeldRow(w)'
    BY <1>2, <1>7 DEF HeldRow
  <2> QED
    BY <1>2, <1>7, <2>1, OwnRowOnly
<1>8. CASE Reject(w) \/ DuplicateRaw(w) \/ TransientError(w)
  <2>1. PICK error : Raise(w, error)
    BY <1>8 DEF Reject, DuplicateRaw, TransientError
  <2>2. /\ \A v \in Workers \ {w} : workers'[v] = workers[v]
        /\ workers'[w].pc = "recover"
        /\ workers'[w].job_id = id
        /\ workers'[w].attempts = workers[w].attempts
    BY <1>1, <2>1 DEF Raise, AtRest
  <2> QED
    BY <1>7, <1>8, <2>2 DEF Reject, DuplicateRaw, TransientError, At, Working, store
<1>9. CASE ReadDocument(w) \/ InsertThread(w) \/ InsertRaw(w)
  <2>1. /\ \A v \in Workers \ {w} : workers'[v] = workers[v]
        /\ workers'[w].pc \in {"insert_thread", "insert_raw", "commit"}
        /\ workers'[w].job_id = id
        /\ workers'[w].attempts = workers[w].attempts
    BY <1>1, <1>9 DEF ReadDocument, InsertThread, InsertRaw, Goto, WorkerStates
  <2> QED
    BY <1>7, <1>9, <2>1 DEF ReadDocument, InsertThread, InsertRaw, At, Working, store
<1>10. CASE CheckStop(w) \/ Idle(w) \/ Crash(w) \/ Restart(w)
  <2>1. /\ UNCHANGED jobs
        /\ \A v \in Workers \ {w} : workers'[v] = workers[v]
        /\ workers'[w].pc \notin Working
    BY <1>1, <1>10 DEF CheckStop, Goto, Idle, Crash, Restart, Return, AtRest, Working,
                       WorkerStates, store
  <2> QED
    BY <2>1, OwnRowOnly
<1>11. CASE RequestStop(w)
  BY <1>11 DEF RequestStop, store, ExclusiveClaims, HeldRow, Owner
<1> QED
  BY <1>3, <1>4, <1>5, <1>6, <1>8, <1>9, <1>10, <1>11
     DEF Work, WorkerStep, WorkerFault

-----------------------------------------------------------------------------
(* The retry budget                                                        *)

WithinBudget(row) ==
  /\ row.attempts <= MaxAttempts
  /\ row.status = "pending" => row.attempts < MaxAttempts

\* A new job has used no attempt.
LEMMA SubmitBounded ==
  ASSUME TypeInv, AttemptsBounded, NEW c \in Clients, Submit(c)
  PROVE  AttemptsBounded'
<1>1. CASE UNCHANGED jobs
  BY <1>1 DEF AttemptsBounded
<1>2. CASE CommitJob(c)
  <2> DEFINE new == requests[c].job_id
  <2>1. new \in JobIds
    BY <1>2 DEF CommitJob, TypeInv, ReservedIds
  <2>2. /\ \A id \in JobIds \ {new} : jobs'[id] = jobs[id]
        /\ jobs'[new] = enqueue_job(requests[c].document_id, requests[c].payload)
    BY <1>2, <2>1 DEF CommitJob, TypeInv, TypeOK, StoreTypeOK
  <2>3. WithinBudget(jobs'[new])
    BY <2>2, WorkerAssumption DEF enqueue_job, WithinBudget
  <2> QED
    BY <2>2, <2>3 DEF AttemptsBounded, WithinBudget
<1> QED
  BY <1>1, <1>2 DEF Submit, RejectConflict, AcceptCompleted, ReadNoDocument,
     ReuseActiveJob, FindNoActiveJob, EnqueueJob, Respond, AbortRequest, store

\* A claim takes a job with attempts left, and the handler that requeues it
\* compares the number the claim has written.
LEMMA WorkBounded ==
  ASSUME QueueInv, NEW w \in Workers, Work(w)
  PROVE  AttemptsBounded'
<1> DEFINE id == workers[w].job_id
<1>1. /\ jobs \in JobTable
      /\ workers[w] \in WorkerStates
      /\ \A other \in JobIds : jobs[other] # None => WithinBudget(jobs[other])
  BY DEF QueueInv, TypeInv, TypeOK, StoreTypeOK, WorkerTypeOK, JobTable,
         AttemptsBounded, WithinBudget
<1>2. workers[w].pc \in Working =>
        /\ id \in JobIds
        /\ jobs[id] \in JobRows
        /\ jobs[id] # None
        /\ HeldRow(w)
        /\ WithinBudget(jobs[id])
  BY <1>1 DEF QueueInv, TypeInv, HeldJobs, ExclusiveClaims, JobTable
<1>3. ASSUME id \in JobIds, WithinBudget(jobs'[id]),
             \A other \in JobIds \ {id} : jobs'[other] = jobs[other]
      PROVE  AttemptsBounded'
  BY <1>1, <1>3 DEF AttemptsBounded, WithinBudget
<1>4. CASE CommitClaim(w)
  <2>1. workers[w].pc = "claimed" /\ jobs' = claimed_job(id)
    BY <1>4 DEF CommitClaim, At
  <2>2. /\ jobs'[id].status = "processing"
        /\ jobs'[id].attempts = jobs[id].attempts + 1
        /\ \A other \in JobIds \ {id} : jobs'[other] = jobs[other]
    BY <1>1, <1>2, <2>1, ClaimLemma DEF Working
  <2>3. jobs[id].attempts < MaxAttempts
    BY <1>2, <2>1 DEF HeldRow, WithinBudget, Working
  <2>4. WithinBudget(jobs'[id])
    BY <1>2, <2>1, <2>2, <2>3, WorkerAssumption DEF WithinBudget, JobRows, Working
  <2> QED
    BY <1>2, <1>3, <2>1, <2>2, <2>4 DEF Working
<1>5. CASE CommitProcessed(w) \/ CommitAckLost(w)
  <2>1. workers[w].pc = "commit" /\ jobs' = complete_job(id)
    BY <1>5 DEF CommitProcessed, CommitAckLost, At, commit_processed
  <2>2. /\ jobs'[id].status = "completed"
        /\ jobs'[id].attempts = jobs[id].attempts
        /\ \A other \in JobIds \ {id} : jobs'[other] = jobs[other]
    BY <1>1, <1>2, <2>1, VerdictLemma DEF complete_job, Statuses, Working
  <2> QED
    BY <1>2, <1>3, <2>1, <2>2 DEF Working, WithinBudget
<1>6. CASE Recover(w)
  <2>1. /\ workers[w].pc = "recover"
        /\ workers[w].error \in Errors \cup {None}
        /\ workers[w].attempts \in Nat
    BY <1>1, <1>6 DEF Recover, At, WorkerStates
  <2>2. PICK status \in {"failed", "pending"} :
          /\ jobs' = with_verdict(id, status, workers[w].error)
          /\ status = "pending" => ~exhausted(w)
    BY <1>6 DEF Recover, fail_job, requeue_job
  <2>3. /\ jobs'[id].status = status
        /\ jobs'[id].attempts = jobs[id].attempts
        /\ \A other \in JobIds \ {id} : jobs'[other] = jobs[other]
    BY <1>1, <1>2, <2>1, <2>2, VerdictLemma DEF Statuses, Working
  <2>4. jobs[id].attempts = workers[w].attempts
    BY <1>2, <2>1 DEF HeldRow, Working
  <2>5. WithinBudget(jobs'[id])
    BY <1>2, <2>1, <2>2, <2>3, <2>4, WorkerAssumption
       DEF WithinBudget, exhausted, Working
  <2> QED
    BY <1>2, <1>3, <2>1, <2>3, <2>5 DEF Working
<1>7. CASE UNCHANGED jobs
  BY <1>7 DEF QueueInv, AttemptsBounded
<1> QED
  BY <1>4, <1>5, <1>6, <1>7 DEF Work, WorkerStep, WorkerFault, CheckStop, Idle, Claim,
     Reject, ReadDocument, InsertThread, InsertRaw, DuplicateRaw, TransientError,
     RequestStop, Crash, Restart, store

-----------------------------------------------------------------------------

\* The queue starts empty, with nobody at work.
LEMMA QueueInvInit == ASSUME Init PROVE QueueInv
<1>1. TypeInv
  BY TypeInvInit
<1>2. ExclusiveClaims
  BY DEF Init, WorkerInit, AtRest, ExclusiveClaims, Working
<1>3. AttemptsBounded
  BY DEF Init, StoreInit, AttemptsBounded
<1> QED
  BY <1>1, <1>2, <1>3 DEF QueueInv

\* Every step keeps both, on top of the types.
LEMMA QueueInvStep == ASSUME QueueInv, [Next]_vars PROVE QueueInv'
<1>1. TypeInv'
  BY TypeInvStep DEF QueueInv
<1>2. ASSUME NEW c \in Clients, Submit(c), UNCHANGED worker_vars PROVE QueueInv'
  BY <1>1, <1>2, SubmitExclusive, SubmitBounded DEF QueueInv
<1>3. ASSUME NEW w \in Workers, Work(w) PROVE QueueInv'
  BY <1>1, <1>3, WorkExclusive, WorkBounded DEF QueueInv
<1>4. CASE UNCHANGED vars
  <2>1. ExclusiveClaims'
    BY <1>4 DEF vars, store, worker_vars, QueueInv, ExclusiveClaims, HeldRow, Owner
  <2>2. AttemptsBounded'
    BY <1>4 DEF vars, store, QueueInv, AttemptsBounded
  <2> QED
    BY <1>1, <2>1, <2>2 DEF QueueInv
<1> QED
  BY <1>2, <1>3, <1>4 DEF Next

\* Whatever the numbers of workers, clients, crashes and lost answers: no two
\* workers hold one job, and a worker finds the row of its job as its claim
\* has left it (claim_next_job with FOR UPDATE SKIP LOCKED, process_next_job).
THEOREM ClaimsAreExclusive == Spec => []ExclusiveClaims
<1>1. Init => QueueInv
  BY QueueInvInit
<1>2. QueueInv /\ [Next]_vars => QueueInv'
  BY QueueInvStep
<1>3. QueueInv => ExclusiveClaims
  BY DEF QueueInv
<1> QED
  BY <1>1, <1>2, <1>3, PTL DEF Spec

\* Whatever the budget: no job is tried more often, and none waits in the
\* queue without an attempt left (process_next_job, claim_next_job).
THEOREM AttemptsAreBounded == Spec => []AttemptsBounded
<1>1. Init => QueueInv
  BY QueueInvInit
<1>2. QueueInv /\ [Next]_vars => QueueInv'
  BY QueueInvStep
<1>3. QueueInv => AttemptsBounded
  BY DEF QueueInv
<1> QED
  BY <1>1, <1>2, <1>3, PTL DEF Spec
=============================================================================
