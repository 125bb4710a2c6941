------------------------ MODULE IngestionRegistryProofs ------------------------
(***************************************************************************)
(* Proofs about what ingestion leaves in the tables: a document is         *)
(* registered once and never moves, verdicts are justified, canonical      *)
(* threads are observed only; and that the pipeline implements             *)
(* CanonicalRegistry and JobLifecycle.                                     *)
(***************************************************************************)
EXTENDS IngestionPipelineProofs

-----------------------------------------------------------------------------
(* The invariant                                                           *)

\* Why a job may be failed or tried again with this error.
Cause(error, document_id, payload) ==
  /\ error # None
  /\ error = "parse_error" => ParseFails(payload)
  /\ error = "conflict" => conflicts(document_id, payload)

\* Registered rows stand for a payload.
RegisteredRows ==
  \A d \in Documents : raw_documents[d] # None =>
    \E p \in Payloads : ~ParseFails(p) /\ raw_documents[d] = raw_row(p)

\* The first half of ObservedOnly.
ThreadsObserved ==
  \A c \in CanonicalIds :
    canonical_threads[c] # None <=>
      \E d \in Documents :
        raw_documents[d] # None /\ raw_documents[d].canonical_id = c

\* The verdict and the error in the row of a job.
JobFacts(id) ==
  LET job == jobs[id]
  IN  job # None =>
        /\ job.status = "completed" =>
             /\ ~ParseFails(job.payload)
             /\ raw_documents[job.document_id] = raw_row(job.payload)
        /\ job.status = "failed" =>
             /\ Cause(job.error, job.document_id, job.payload)
             /\ job.error \notin PermanentErrors => job.attempts = MaxAttempts

Inserting == {"insert_raw", "commit"}

\* What a worker has read and written since, against the tables.
WorkerFacts(w) ==
  LET held == workers[w]
      job == Job(w)
  IN  /\ held.pc \in Registering /\ held.existing =>
           raw_documents[job.document_id] = raw_row(job.payload)
      /\ held.pc = "commit" /\ ~held.existing =>
           raw_documents[job.document_id] = None
      /\ held.pc \in Inserting =>
           (held.new_thread <=> canonical_threads[canonical_of(job.payload)] = None)
      /\ held.pc = "recover" => Cause(held.error, job.document_id, job.payload)

\* The uncommitted rows of two workers have different keys.
KeysDiffer(v, w) ==
  /\ /\ workers[v].pc = "commit" /\ ~workers[v].existing
     /\ workers[w].pc = "commit" /\ ~workers[w].existing
     => Job(v).document_id # Job(w).document_id
  /\ /\ workers[v].pc \in Inserting /\ workers[v].new_thread
     /\ workers[w].pc \in Inserting /\ workers[w].new_thread
     => canonical_of(Job(v).payload) # canonical_of(Job(w).payload)

RegistryFacts ==
  /\ RegisteredRows
  /\ ThreadsObserved
  /\ \A id \in JobIds : JobFacts(id)
  /\ \A w \in Workers : WorkerFacts(w)
  /\ \A v, w \in Workers : v # w => KeysDiffer(v, w)

RegistryInv == QueueInv /\ RegistryFacts

\* Rows of jobs that exist are not touched.
RowsExtend == \A id \in JobIds : jobs[id] # None => jobs'[id] = jobs[id]

\* Registrations stay.
TablesGrow ==
  \A d \in Documents : raw_documents[d] # None => raw_documents'[d] = raw_documents[d]

-----------------------------------------------------------------------------
(* What others leave alone                                                 *)

\* Content hashes tell payloads apart.
LEMMA HashLemma ==
  ASSUME NEW p, NEW q, content_hash_for(p) = content_hash_for(q)
  PROVE  p = q
BY DEF content_hash_for, sha256

\* The row of a payload that parses is typed.
LEMMA RawRowLemma ==
  ASSUME NEW p \in Payloads, ~ParseFails(p)
  PROVE  /\ canonical_of(p) \in CanonicalIds
         /\ raw_row(p) \in RawRows
         /\ raw_row(p) # None
         /\ raw_row(p).canonical_id = canonical_of(p)
         /\ raw_row(p).content_hash = content_hash_for(p)
         /\ thread_of(ParsedIds[p]) # None
<1>1. canonical_of(p) \in CanonicalIds /\ thread_of(ParsedIds[p]) \in Threads
  BY DEF CanonicalIds, Threads
<1>2. raw_row(p) \in RawRows
  BY <1>1 DEF raw_row, RawRows
<1> QED
  BY <1>1, <1>2, NoneAssumption DEF raw_row

\* A worker whose row exists, unpacked.
LEMMA HeldTypes ==
  ASSUME TypeInv, NEW w \in Workers, workers[w].pc \in Working
  PROVE  /\ workers[w] \in WorkerStates
         /\ workers[w].job_id \in JobIds
         /\ Job(w) = jobs[workers[w].job_id]
         /\ Job(w) # None
         /\ Job(w) \in JobRows
         /\ Job(w).document_id \in Documents
         /\ Job(w).payload \in Payloads
<1>1. workers[w].job_id \in JobIds /\ Job(w) # None
  BY DEF TypeInv, HeldJobs, Job
<1>2. Job(w) \in JobRows
  BY <1>1 DEF TypeInv, TypeOK, StoreTypeOK, Job
<1> QED
  BY <1>1, <1>2 DEF TypeInv, TypeOK, WorkerTypeOK, Job, JobRows

\* A row that is not touched keeps its facts.
LEMMA JobFactsPersist ==
  ASSUME TypeInv, TablesGrow, NEW id \in JobIds, JobFacts(id), jobs'[id] = jobs[id]
  PROVE  JobFacts(id)'
<1>1. CASE jobs[id] = None
  BY <1>1 DEF JobFacts
<1>2. CASE jobs[id] # None
  <2>1. jobs[id].document_id \in Documents
    BY <1>2 DEF TypeInv, TypeOK, StoreTypeOK, JobRows
  <2>2. raw_documents[jobs[id].document_id] # None =>
          raw_documents'[jobs[id].document_id] = raw_documents[jobs[id].document_id]
    BY <2>1 DEF TablesGrow
  <2>3. jobs[id].status = "completed" => raw_row(jobs[id].payload) # None
    <3>1. jobs[id].payload \in Payloads
      BY <1>2 DEF TypeInv, TypeOK, StoreTypeOK, JobRows
    <3> QED
      BY <1>2, <3>1, RawRowLemma DEF JobFacts
  <2> QED
    BY <1>2, <2>2, <2>3 DEF JobFacts, Cause, conflicts
<1> QED
  BY <1>1, <1>2

\* Nor does a worker notice what happens to other documents and threads.
LEMMA WorkerFactsPersist ==
  ASSUME TypeInv, RowsPersist, NEW v \in Workers, WorkerFacts(v),
         workers'[v] = workers[v],
         workers[v].pc \in Working =>
           raw_documents'[Job(v).document_id] = raw_documents[Job(v).document_id],
         workers[v].pc \in Inserting =>
           canonical_threads'[canonical_of(Job(v).payload)] =
             canonical_threads[canonical_of(Job(v).payload)]
  PROVE  WorkerFacts(v)'
<1>1. CASE workers[v].pc \notin Working
  BY <1>1 DEF WorkerFacts, Working, Registering, Inserting
<1>2. CASE workers[v].pc \in Working
  <2>1. Job(v)'.document_id = Job(v).document_id /\ Job(v)'.payload = Job(v).payload
    BY <1>2, HeldTypes DEF RowsPersist, Job
  <2> QED
    BY <1>2, <2>1 DEF WorkerFacts, Working, Registering, Inserting, Cause, conflicts
<1> QED
  BY <1>1, <1>2

\* Two workers that do not move keep different keys.
LEMMA KeysPersist ==
  ASSUME TypeInv, RowsPersist, NEW v \in Workers, NEW w \in Workers, KeysDiffer(v, w),
         workers'[v] = workers[v], workers'[w] = workers[w]
  PROVE  KeysDiffer(v, w)'
<1>1. ASSUME NEW u \in {v, w}, workers[u].pc \in Working
      PROVE  /\ Job(u)'.document_id = Job(u).document_id
             /\ Job(u)'.payload = Job(u).payload
  BY <1>1, HeldTypes DEF RowsPersist, Job
<1>2. CASE workers[v].pc \in Working /\ workers[w].pc \in Working
  BY <1>1, <1>2 DEF KeysDiffer
<1>3. CASE workers[v].pc \notin Working \/ workers[w].pc \notin Working
  BY <1>3 DEF KeysDiffer, Working, Inserting
<1> QED
  BY <1>2, <1>3

\* The step of a worker that does not touch the results.
LEMMA QuietStep ==
  ASSUME TypeInv, RegistryFacts, RowsPersist, NEW w \in Workers,
         UNCHANGED <<raw_documents, canonical_threads>>,
         \A v \in Workers \ {w} : workers'[v] = workers[v],
         \A id \in JobIds : jobs'[id] = jobs[id] \/ JobFacts(id)',
         WorkerFacts(w)',
         \A v \in Workers \ {w} : KeysDiffer(v, w)' /\ KeysDiffer(w, v)'
  PROVE  RegistryFacts'
<1> USE DEF RegistryFacts
<1>1. RegisteredRows' /\ ThreadsObserved'
  BY DEF RegisteredRows, ThreadsObserved
<1>2. ASSUME NEW id \in JobIds PROVE JobFacts(id)'
  BY JobFactsPersist DEF TablesGrow
<1>3. ASSUME NEW v \in Workers PROVE WorkerFacts(v)'
  <2>1. CASE v # w
    BY <2>1, WorkerFactsPersist
  <2> QED
    BY <2>1
<1>4. ASSUME NEW u \in Workers, NEW v \in Workers, u # v PROVE KeysDiffer(u, v)'
  <2>1. CASE u # w /\ v # w
    BY <1>4, <2>1, KeysPersist
  <2> QED
    BY <1>4, <2>1
<1> QED
  BY <1>1, <1>2, <1>3, <1>4

-----------------------------------------------------------------------------
(* The steps                                                               *)

\* A submission adds at most a pending row without an error.
LEMMA SubmitFrame ==
  ASSUME TypeInv, NEW c \in Clients, Submit(c), UNCHANGED worker_vars
  PROVE  /\ UNCHANGED <<raw_documents, canonical_threads, workers>>
         /\ RowsExtend
         /\ \A id \in JobIds :
              jobs'[id] # jobs[id] =>
                jobs'[id].status = "pending" /\ jobs'[id].error = None
<1>1. UNCHANGED <<raw_documents, canonical_threads, workers>>
  BY DEF Submit, RejectConflict, AcceptCompleted, ReadNoDocument, ReuseActiveJob,
     FindNoActiveJob, EnqueueJob, CommitJob, Respond, AbortRequest, store, worker_vars
<1>2. CASE UNCHANGED jobs
  BY <1>1, <1>2 DEF RowsExtend
<1>3. CASE CommitJob(c)
  <2> DEFINE row == enqueue_job(requests[c].document_id, requests[c].payload)
  <2>1. PICK new \in JobIds : new = requests[c].job_id /\ jobs[new] = None
    BY <1>3 DEF CommitJob, TypeInv, ReservedIds, Reserved
  <2>2. jobs'[new] = row /\ \A id \in JobIds \ {new} : jobs'[id] = jobs[id]
    BY <1>3, <2>1 DEF CommitJob, TypeInv, TypeOK, StoreTypeOK
  <2>3. row.status = "pending" /\ row.error = None
    BY DEF enqueue_job
  <2> QED
    BY <1>1, <2>1, <2>2, <2>3 DEF RowsExtend
<1> QED
  BY <1>2, <1>3 DEF Submit, RejectConflict, AcceptCompleted, ReadNoDocument,
     ReuseActiveJob, FindNoActiveJob, EnqueueJob, Respond, AbortRequest, store

\* So the facts hold after it.
LEMMA SubmitRegistry ==
  ASSUME TypeInv, RegistryFacts, NEW c \in Clients, Submit(c), UNCHANGED worker_vars
  PROVE  RegistryFacts'
<1> USE DEF RegistryFacts
<1>1. /\ UNCHANGED <<raw_documents, canonical_threads, workers>>
      /\ RowsExtend
      /\ \A id \in JobIds : jobs'[id] # jobs[id] =>
           jobs'[id].status = "pending" /\ jobs'[id].error = None
  BY SubmitFrame
<1>2. \A id \in JobIds : jobs'[id] = jobs[id] \/ JobFacts(id)'
  <2>1. None # "integrity_error"
    BY NoneAssumption DEF Errors, OtherErrors
  <2> QED
    BY <1>1, <2>1 DEF JobFacts
<1>3. RegisteredRows' /\ ThreadsObserved'
  BY <1>1 DEF RegisteredRows, ThreadsObserved
<1>4. ASSUME NEW id \in JobIds PROVE JobFacts(id)'
  BY <1>1, <1>2, JobFactsPersist DEF TablesGrow
<1>5. ASSUME NEW w \in Workers, workers[w].pc \in Working PROVE Job(w)' = Job(w)
  BY <1>1, <1>5, HeldTypes DEF RowsExtend, Job
<1>6. ASSUME NEW w \in Workers PROVE WorkerFacts(w)'
  BY <1>1, <1>5 DEF WorkerFacts, Working, Registering, Inserting, Cause, conflicts
<1>7. ASSUME NEW v \in Workers, NEW w \in Workers, v # w PROVE KeysDiffer(v, w)'
  BY <1>1, <1>5, <1>7 DEF KeysDiffer, Working, Inserting
<1> QED
  BY <1>3, <1>4, <1>6, <1>7

\* A registration: the document gets its row, if it has none, and the thread.
LEMMA CommitTables ==
  ASSUME TypeInv, RegistryFacts, NEW w \in Workers, At(w, "commit"), commit_processed(w)
  PROVE  LET d == Job(w).document_id
             p == Job(w).payload
             c == canonical_of(p)
         IN  /\ raw_documents'[d] = raw_row(p)
             /\ \A e \in Documents \ {d} : raw_documents'[e] = raw_documents[e]
             /\ raw_documents[d] \in {None, raw_row(p)}
             /\ raw_documents[d] = None <=> ~workers[w].existing
             /\ canonical_threads'[c] # None
             /\ \A x \in CanonicalIds \ {c} :
                  canonical_threads'[x] = canonical_threads[x]
             /\ canonical_threads[c] = None <=> workers[w].new_thread
             /\ TablesGrow
<1> DEFINE d == Job(w).document_id
           p == Job(w).payload
           c == canonical_of(p)
<1>1. d \in Documents /\ p \in Payloads
  BY HeldTypes DEF At, Working
<1>2. ~ParseFails(p)
  BY DEF TypeInv, ParsedJobs, At, Registering
<1>3. /\ c \in CanonicalIds
      /\ raw_row(p) # None
      /\ thread_of(ParsedIds[p]) # None
  BY <1>1, <1>2, RawRowLemma
<1>4. WorkerFacts(w)
  BY DEF RegistryFacts
<1>5. /\ workers[w].existing => raw_documents[d] = raw_row(p)
      /\ ~workers[w].existing => raw_documents[d] = None
      /\ workers[w].new_thread <=> canonical_threads[c] = None
  BY <1>4 DEF WorkerFacts, At, Registering, Inserting
<1>6. /\ raw_documents \in [Documents -> RawRows \cup {None}]
      /\ canonical_threads \in [CanonicalIds -> Threads \cup {None}]
  BY DEF TypeInv, TypeOK, StoreTypeOK
<1>7. /\ raw_documents'[d] = raw_row(p)
      /\ \A e \in Documents \ {d} : raw_documents'[e] = raw_documents[e]
  BY <1>1, <1>5, <1>6 DEF commit_processed
<1>8. /\ canonical_threads'[c] # None
      /\ \A x \in CanonicalIds \ {c} : canonical_threads'[x] = canonical_threads[x]
  BY <1>3, <1>5, <1>6 DEF commit_processed
<1>9. TablesGrow
  BY <1>5, <1>7 DEF TablesGrow
<1> HIDE DEF d, p, c
<1> QED
  BY <1>3, <1>5, <1>7, <1>8, <1>9 DEF d, p, c

\* The step that does touch the results.
LEMMA CommitRegistry ==
  ASSUME TypeInv, RegistryFacts, NEW w \in Workers, At(w, "commit"), commit_processed(w),
         \A v \in Workers \ {w} : workers'[v] = workers[v],
         workers'[w].pc \notin Registering,
         WorkerFacts(w)'
  PROVE  RegistryFacts'
<1> DEFINE d == Job(w).document_id
           p == Job(w).payload
           c == canonical_of(p)
<1>1. /\ raw_documents'[d] = raw_row(p)
      /\ \A e \in Documents \ {d} : raw_documents'[e] = raw_documents[e]
      /\ raw_documents[d] \in {None, raw_row(p)}
      /\ raw_documents[d] = None <=> ~workers[w].existing
      /\ canonical_threads'[c] # None
      /\ \A x \in CanonicalIds \ {c} : canonical_threads'[x] = canonical_threads[x]
      /\ canonical_threads[c] = None <=> workers[w].new_thread
      /\ TablesGrow
  BY CommitTables
<1>2. PICK id \in JobIds : id = workers[w].job_id /\ jobs[id] # None /\ Job(w) = jobs[id]
  BY HeldTypes DEF At, Working
<1>3. /\ d \in Documents
       /\ p \in Payloads
       /\ ~ParseFails(p)
  BY HeldTypes DEF At, Working, TypeInv, ParsedJobs, Registering
<1>4. /\ c \in CanonicalIds
      /\ raw_row(p) # None
      /\ raw_row(p).canonical_id = c
  BY <1>3, RawRowLemma
<1>5. RowsPersist
  BY <1>2, VerdictPersists DEF commit_processed, complete_job, Statuses
<1>6. JobFacts(id)' /\ \A other \in JobIds \ {id} : jobs'[other] = jobs[other]
  <2>1. /\ jobs'[id].status = "completed"
        /\ jobs'[id].error = None
        /\ jobs'[id].document_id = d
        /\ jobs'[id].payload = p
        /\ \A other \in JobIds \ {id} : jobs'[other] = jobs[other]
    <3>1. jobs \in JobTable
      BY DEF TypeInv, TypeOK, StoreTypeOK, JobTable
    <3>2. jobs' = with_verdict(id, "completed", None)
      BY <1>2 DEF commit_processed, complete_job
    <3>3. /\ jobs'[id].status = "completed"
          /\ jobs'[id].error = None
          /\ jobs'[id].document_id = jobs[id].document_id
          /\ jobs'[id].payload = jobs[id].payload
          /\ \A other \in JobIds \ {id} : jobs'[other] = jobs[other]
      BY <1>2, <3>1, <3>2, VerdictLemma DEF Statuses
    <3> QED
      BY <1>2, <3>3
  <2>2. None # "integrity_error"
    BY NoneAssumption DEF Errors, OtherErrors
  <2> QED
    BY <1>1, <1>2, <1>3, <2>1, <2>2 DEF JobFacts
<1>7. RegisteredRows'
  BY <1>1, <1>3 DEF RegistryFacts, RegisteredRows, raw_row
<1>8. ThreadsObserved'
  <2>1. ASSUME NEW x \in CanonicalIds \ {c}
        PROVE  canonical_threads'[x] # None <=>
                 \E e \in Documents :
                   raw_documents'[e] # None /\ raw_documents'[e].canonical_id = x
    <3>1. \A e \in Documents :
            raw_documents'[e] # None /\ raw_documents'[e].canonical_id = x
            <=> raw_documents[e] # None /\ raw_documents[e].canonical_id = x
      BY <1>1, <1>4
    <3> QED
      BY <1>1, <3>1 DEF RegistryFacts, ThreadsObserved
  <2> QED
    BY <1>1, <1>3, <1>4, <2>1 DEF ThreadsObserved
<1>9. ASSUME NEW other \in JobIds PROVE JobFacts(other)'
  BY <1>1, <1>6, JobFactsPersist DEF RegistryFacts
<1>10. ASSUME NEW v \in Workers \ {w} PROVE WorkerFacts(v)'
  <2>1. CASE workers[v].pc \notin Working
    BY <2>1 DEF WorkerFacts, Working, Registering, Inserting
  <2>2. CASE workers[v].pc \in Working
    <3>1. /\ Job(v)'.document_id = Job(v).document_id
          /\ Job(v)'.payload = Job(v).payload
          /\ Job(v).document_id \in Documents
          /\ Job(v).payload \in Payloads
      BY <1>5, <2>2, HeldTypes DEF RowsPersist, Job
    <3>2. WorkerFacts(v) /\ KeysDiffer(v, w)
      BY DEF RegistryFacts
    <3>3. raw_documents[Job(v).document_id] # None =>
            raw_documents'[Job(v).document_id] = raw_documents[Job(v).document_id]
      BY <1>1, <3>1 DEF TablesGrow
    <3>4. workers[v].pc \in Registering => ~ParseFails(Job(v).payload)
      BY DEF TypeInv, ParsedJobs
    <3>5. workers[v].pc \in Registering =>
            /\ canonical_of(Job(v).payload) \in CanonicalIds
            /\ raw_row(Job(v).payload) # None
      BY <3>1, <3>4, RawRowLemma
    <3>6. workers[v].pc = "commit" /\ ~workers[v].existing =>
            raw_documents'[Job(v).document_id] = None
      BY <1>1, <3>1, <3>2 DEF WorkerFacts, KeysDiffer, At
    <3>7. workers[v].pc \in Inserting =>
            (workers[v].new_thread <=>
               canonical_threads'[canonical_of(Job(v).payload)] = None)
      BY <1>1, <3>2, <3>5 DEF WorkerFacts, KeysDiffer, At, Inserting, Registering
    <3> QED
      BY <3>1, <3>2, <3>3, <3>5, <3>6, <3>7 DEF WorkerFacts, Cause, conflicts
  <2> QED
    BY <2>1, <2>2
<1>11. ASSUME NEW u \in Workers, NEW v \in Workers, u # v PROVE KeysDiffer(u, v)'
  <2>1. CASE u # w /\ v # w
    BY <1>5, <1>11, <2>1, KeysPersist DEF RegistryFacts
  <2>2. CASE u = w \/ v = w
    BY <2>2 DEF KeysDiffer, Registering, Inserting
  <2> QED
    BY <2>1, <2>2
<1> QED
  BY <1>7, <1>8, <1>9, <1>10, <1>11 DEF RegistryFacts

\* Every step of a worker, and every fault.
LEMMA WorkRegistry ==
  ASSUME RegistryInv, QueueInv', NEW w \in Workers, Work(w)
  PROVE  RegistryFacts'
<1> USE DEF RegistryInv, QueueInv
<1>1. /\ jobs \in JobTable
      /\ workers \in [Workers -> WorkerStates]
      /\ workers[w] \in WorkerStates
      /\ WorkerFacts(w)
  BY DEF TypeInv, TypeOK, StoreTypeOK, WorkerTypeOK, JobTable, RegistryFacts
<1>2. workers[w].pc \in Working =>
        /\ workers[w].job_id \in JobIds
        /\ Job(w) = jobs[workers[w].job_id]
        /\ Job(w) # None
        /\ Job(w).document_id \in Documents
        /\ Job(w).payload \in Payloads
  BY HeldTypes
<1>3. ASSUME UNCHANGED jobs
      PROVE  /\ RowsPersist
             /\ \A id \in JobIds : jobs'[id] = jobs[id] \/ JobFacts(id)'
  BY <1>3 DEF RowsPersist
<1>4. ASSUME NEW label \in {"check", "claim", "claimed", "process", "stopped", "down"},
             workers'[w].pc = label
      PROVE  /\ WorkerFacts(w)'
             /\ \A v \in Workers \ {w} : KeysDiffer(v, w)' /\ KeysDiffer(w, v)'
  BY <1>4 DEF WorkerFacts, KeysDiffer, Registering, Inserting
<1>5. CASE CheckStop(w) \/ Idle(w) \/ Claim(w) \/ Crash(w) \/ Restart(w)
  <2>1. UNCHANGED store
    BY <1>5 DEF CheckStop, Idle, Claim, Crash, Restart
  <2>2. /\ \A v \in Workers \ {w} : workers'[v] = workers[v]
        /\ workers'[w].pc \in {"check", "claim", "claimed", "stopped", "down"}
    <3>1. CASE CheckStop(w) \/ Idle(w) \/ Crash(w) \/ Restart(w)
      BY <1>1, <3>1 DEF CheckStop, Goto, Idle, Crash, Restart, Return, AtRest, WorkerStates
    <3>2. CASE Claim(w)
      BY <1>1, <3>2 DEF Claim, AtRest
    <3> QED
      BY <1>5, <3>1, <3>2
  <2> QED
    BY <1>3, <1>4, <2>1, <2>2, QuietStep DEF store
<1>6. CASE RequestStop(w)
  <2>1. UNCHANGED <<store, workers>>
    BY <1>6 DEF RequestStop
  <2> QED
    BY <2>1 DEF store, RegistryFacts, RegisteredRows, ThreadsObserved, JobFacts,
                WorkerFacts, KeysDiffer, Job, Cause, conflicts
<1>7. CASE CommitClaim(w)
  <2>1. PICK id \in JobIds : id = workers[w].job_id /\ jobs[id] # None
    BY <1>2, <1>7 DEF CommitClaim, At, Working
  <2>2. /\ jobs' = claimed_job(id)
        /\ UNCHANGED <<raw_documents, canonical_threads>>
        /\ \A v \in Workers \ {w} : workers'[v] = workers[v]
        /\ workers'[w].pc = "process"
    BY <1>1, <1>7, <2>1 DEF CommitClaim, Goto, WorkerStates
  <2>3. /\ jobs'[id] # None
        /\ jobs'[id].status = "processing"
        /\ jobs'[id].error = jobs[id].error
        /\ jobs'[id].document_id = jobs[id].document_id
        /\ jobs'[id].payload = jobs[id].payload
        /\ \A other \in JobIds \ {id} : jobs'[other] = jobs[other]
    BY <1>1, <2>1, <2>2, ClaimLemma
  <2>4. RowsPersist
    BY <2>1, <2>3 DEF RowsPersist
  <2>5. JobFacts(id)'
    BY <2>1, <2>2, <2>3 DEF RegistryFacts, JobFacts
  <2> QED
    BY <1>4, <2>2, <2>3, <2>4, <2>5, QuietStep
<1>8. CASE Reject(w) \/ DuplicateRaw(w) \/ TransientError(w)
  <2>1. UNCHANGED store /\ workers[w].pc \in Working
    BY <1>8 DEF Reject, DuplicateRaw, TransientError, At, Working
  <2>2. PICK error :
          Raise(w, error) /\ Cause(error, Job(w).document_id, Job(w).payload)
    <3>1. CASE Reject(w)
      <4>1. Cause(upsert_error(Job(w).document_id, Job(w).payload),
                  Job(w).document_id, Job(w).payload)
        BY <3>1 DEF Reject, upsert_error, Cause
      <4> QED
        BY <3>1, <4>1 DEF Reject
    <3>2. CASE DuplicateRaw(w)
      BY <3>2, NoneAssumption DEF DuplicateRaw, Cause, Errors, OtherErrors
    <3>3. CASE TransientError(w)
      BY <3>3, NoneAssumption DEF TransientError, Cause, Errors, OtherErrors
    <3> QED
      BY <1>8, <3>1, <3>2, <3>3
  <2>3. /\ \A v \in Workers \ {w} : workers'[v] = workers[v]
        /\ workers'[w].pc = "recover"
        /\ workers'[w].job_id = workers[w].job_id
        /\ workers'[w].error = error
    BY <1>1, <2>2 DEF Raise, AtRest
  <2>4. WorkerFacts(w)'
    BY <2>1, <2>2, <2>3 DEF WorkerFacts, Registering, Inserting, Job, Cause, conflicts,
                            store
  <2>5. \A v \in Workers \ {w} : KeysDiffer(v, w)' /\ KeysDiffer(w, v)'
    BY <2>3 DEF KeysDiffer, Inserting
  <2> QED
    BY <1>3, <2>1, <2>3, <2>4, <2>5, QuietStep DEF store
<1>9. CASE ReadDocument(w)
  <2>1. UNCHANGED store /\ workers[w].pc \in Working
    BY <1>9 DEF ReadDocument, At, Working
  <2>2. /\ \A v \in Workers \ {w} : workers'[v] = workers[v]
        /\ workers'[w].pc = "insert_thread"
        /\ workers'[w].job_id = workers[w].job_id
        /\ workers'[w].existing => raw_documents[Job(w).document_id] # None
    BY <1>1, <1>9 DEF ReadDocument, WorkerStates
  <2>3. ASSUME raw_documents[Job(w).document_id] # None
        PROVE  raw_documents[Job(w).document_id] = raw_row(Job(w).payload)
    <3>1. ~conflicts(Job(w).document_id, Job(w).payload)
      BY <1>9, NoneAssumption DEF ReadDocument, upsert_error, Errors, PermanentErrors
    <3>2. PICK p \in Payloads : raw_documents[Job(w).document_id] = raw_row(p)
      BY <1>2, <2>1, <2>3 DEF RegistryFacts, RegisteredRows
    <3>3. content_hash_for(p) = content_hash_for(Job(w).payload)
      BY <2>3, <3>1, <3>2 DEF conflicts, raw_row
    <3> QED
      BY <3>2, <3>3, HashLemma
  <2>4. WorkerFacts(w)'
    BY <2>1, <2>2, <2>3 DEF WorkerFacts, Inserting, Job, store
  <2>5. \A v \in Workers \ {w} : KeysDiffer(v, w)' /\ KeysDiffer(w, v)'
    BY <2>2 DEF KeysDiffer, Inserting
  <2> QED
    BY <1>3, <2>1, <2>2, <2>4, <2>5, QuietStep DEF store
<1>10. CASE InsertThread(w)
  <2>1. UNCHANGED store /\ workers[w].pc = "insert_thread"
    BY <1>10 DEF InsertThread, At
  <2>2. /\ \A v \in Workers \ {w} : workers'[v] = workers[v]
        /\ workers'[w].pc = "insert_raw"
        /\ workers'[w].job_id = workers[w].job_id
        /\ workers'[w].existing = workers[w].existing
        /\ workers'[w].new_thread <=>
             canonical_threads[canonical_of(Job(w).payload)] = None
    BY <1>1, <1>10 DEF InsertThread, WorkerStates
  <2>3. WorkerFacts(w)'
    BY <1>1, <2>1, <2>2 DEF WorkerFacts, Registering, Inserting, Job, store
  <2>4. ASSUME NEW v \in Workers \ {w} PROVE KeysDiffer(v, w)' /\ KeysDiffer(w, v)'
    <3>1. ~thread_in_flight(canonical_of(Job(w).payload))
      BY <1>10 DEF InsertThread
    <3>2. workers[v].pc \in Inserting /\ workers[v].new_thread =>
            canonical_of(Job(v).payload) # canonical_of(Job(w).payload)
      BY <3>1 DEF thread_in_flight, Inserting
    <3> QED
      BY <2>1, <2>2, <3>2 DEF KeysDiffer, Job, store
  <2> QED
    BY <1>3, <2>1, <2>2, <2>3, <2>4, QuietStep DEF store
<1>11. CASE InsertRaw(w)
  <2>1. UNCHANGED store /\ workers[w].pc = "insert_raw"
    BY <1>11 DEF InsertRaw, At
  <2>2. /\ \A v \in Workers \ {w} : workers'[v] = workers[v]
        /\ workers'[w].pc = "commit"
        /\ workers'[w].job_id = workers[w].job_id
        /\ workers'[w].existing = workers[w].existing
        /\ workers'[w].new_thread = workers[w].new_thread
    BY <1>1, <1>11 DEF InsertRaw, Goto, WorkerStates
  <2>3. ~workers[w].existing =>
          /\ ~document_in_flight(Job(w).document_id)
          /\ raw_documents[Job(w).document_id] = None
    BY <1>11 DEF InsertRaw
  <2>4. WorkerFacts(w)'
    BY <1>1, <2>1, <2>2, <2>3 DEF WorkerFacts, Registering, Inserting, Job, store
  <2>5. ASSUME NEW v \in Workers \ {w} PROVE KeysDiffer(v, w)' /\ KeysDiffer(w, v)'
    <3>1. ~workers[w].existing /\ workers[v].pc = "commit" /\ ~workers[v].existing =>
            Job(v).document_id # Job(w).document_id
      BY <2>3 DEF document_in_flight, At
    <3>2. KeysDiffer(v, w)
      BY DEF RegistryFacts
    <3> QED
      BY <2>1, <2>2, <3>1, <3>2 DEF KeysDiffer, Job, store, Inserting
  <2> QED
    BY <1>3, <2>1, <2>2, <2>4, <2>5, QuietStep DEF store
<1>12. CASE CommitProcessed(w) \/ CommitAckLost(w)
  <2>1. At(w, "commit") /\ commit_processed(w)
    BY <1>12 DEF CommitProcessed, CommitAckLost
  <2>2. /\ \A v \in Workers \ {w} : workers'[v] = workers[v]
        /\ \/ workers'[w].pc = "check"
           \/ workers'[w].pc = "recover" /\ workers'[w].error = "database_error"
    <3>1. CASE CommitProcessed(w)
      BY <1>1, <3>1 DEF CommitProcessed, Return, AtRest
    <3>2. CASE CommitAckLost(w)
      BY <1>1, <3>2 DEF CommitAckLost, Raise, AtRest
    <3> QED
      BY <1>12, <3>1, <3>2
  <2>3. "database_error" # None
    BY NoneAssumption DEF Errors, OtherErrors
  <2>4. WorkerFacts(w)'
    BY <2>2, <2>3 DEF WorkerFacts, Registering, Inserting, Cause
  <2> QED
    BY <2>1, <2>2, <2>4, CommitRegistry DEF Registering
<1>13. CASE Recover(w)
  <2>1. PICK id \in JobIds : id = workers[w].job_id /\ jobs[id] # None /\ Job(w) = jobs[id]
    BY <1>2, <1>13 DEF Recover, At, Working
  <2>2. /\ workers[w].pc = "recover"
        /\ workers[w].error \in Errors \cup {None}
        /\ Cause(workers[w].error, jobs[id].document_id, jobs[id].payload)
        /\ UNCHANGED <<raw_documents, canonical_threads>>
        /\ \A v \in Workers \ {w} : workers'[v] = workers[v]
        /\ workers'[w].pc = "check"
    BY <1>1, <1>13, <2>1 DEF Recover, At, WorkerStates, WorkerFacts, Return, AtRest
  <2>3. PICK status \in {"failed", "pending"} :
          /\ jobs' = with_verdict(id, status, workers[w].error)
          /\ status = "failed" => is_permanent_error(workers[w].error) \/ exhausted(w)
    BY <1>13, <2>1 DEF Recover, fail_job, requeue_job
  <2>4. /\ jobs'[id].status = status
        /\ jobs'[id].error = workers[w].error
        /\ jobs'[id].attempts = jobs[id].attempts
        /\ jobs'[id].document_id = jobs[id].document_id
        /\ jobs'[id].payload = jobs[id].payload
        /\ \A other \in JobIds \ {id} : jobs'[other] = jobs[other]
    BY <1>1, <2>1, <2>2, <2>3, VerdictLemma DEF Statuses
  <2>5. RowsPersist
    BY <2>1, <2>2, <2>3, VerdictPersists DEF Statuses
  <2>6. /\ jobs[id].attempts = workers[w].attempts
        /\ jobs[id].attempts <= MaxAttempts
        /\ jobs[id].attempts \in Nat
    BY <1>1, <2>1, <2>2 DEF ExclusiveClaims, HeldRow, AttemptsBounded, Working, JobTable,
                            JobRows
  <2>7. exhausted(w) => jobs[id].attempts = MaxAttempts
    BY <2>6, WorkerAssumption DEF exhausted
  <2>8. JobFacts(id)'
    BY <2>1, <2>2, <2>3, <2>4, <2>7 DEF JobFacts, Cause, conflicts, is_permanent_error
  <2> QED
    BY <1>4, <2>2, <2>4, <2>5, <2>8, QuietStep
<1> QED
  BY <1>5, <1>6, <1>7, <1>8, <1>9, <1>10, <1>11, <1>12, <1>13
     DEF Work, WorkerStep, WorkerFault

\* The tables start empty.
LEMMA RegistryInvInit == ASSUME Init PROVE RegistryInv
<1>1. QueueInv
  BY QueueInvInit
<1>2. /\ \A d \in Documents : raw_documents[d] = None
      /\ \A c \in CanonicalIds : canonical_threads[c] = None
      /\ \A id \in JobIds : jobs[id] = None
      /\ \A w \in Workers : workers[w].pc = "check"
  BY DEF Init, StoreInit, WorkerInit, AtRest
<1>3. RegisteredRows /\ ThreadsObserved /\ \A id \in JobIds : JobFacts(id)
  BY <1>2 DEF RegisteredRows, ThreadsObserved, JobFacts
<1>4. /\ \A w \in Workers : WorkerFacts(w)
      /\ \A v, w \in Workers : KeysDiffer(v, w)
  BY <1>2 DEF WorkerFacts, KeysDiffer, Registering, Inserting
<1> QED
  BY <1>1, <1>3, <1>4 DEF RegistryInv, RegistryFacts

\* Every step keeps the facts, on top of the queue.
LEMMA RegistryInvStep == ASSUME RegistryInv, [Next]_vars PROVE RegistryInv'
<1>1. QueueInv'
  BY QueueInvStep DEF RegistryInv
<1>2. ASSUME NEW c \in Clients, Submit(c), UNCHANGED worker_vars PROVE RegistryInv'
  BY <1>1, <1>2, SubmitRegistry DEF RegistryInv, QueueInv
<1>3. ASSUME NEW w \in Workers, Work(w) PROVE RegistryInv'
  BY <1>1, <1>3, WorkRegistry DEF RegistryInv
<1>4. CASE UNCHANGED vars
  BY <1>1, <1>4 DEF vars, store, worker_vars, RegistryInv, RegistryFacts, RegisteredRows,
     ThreadsObserved, JobFacts, WorkerFacts, KeysDiffer, Job, Cause, conflicts
<1> QED
  BY <1>2, <1>3, <1>4 DEF Next

-----------------------------------------------------------------------------
(* The results                                                             *)

\* A completed job has its document registered with its content, whatever
\* races, retries, crashes and lost acknowledgements preceded (process_job).
THEOREM CompletedIsIngested == Spec => []CompletedMeansIngested
<1>1. Init => RegistryInv
  BY RegistryInvInit
<1>2. RegistryInv /\ [Next]_vars => RegistryInv'
  BY RegistryInvStep
<1>3. RegistryInv => CompletedMeansIngested
  BY DEF RegistryInv, RegistryFacts, JobFacts, CompletedMeansIngested, JobsWith
<1> QED
  BY <1>1, <1>2, <1>3, PTL DEF Spec

\* A failed job has a cause that no retry removes, or has no attempt left
\* (process_next_job).
THEOREM FailuresHaveCauses == Spec => []FailedForCause
<1>1. Init => RegistryInv
  BY RegistryInvInit
<1>2. RegistryInv /\ [Next]_vars => RegistryInv'
  BY RegistryInvStep
<1>3. RegistryInv => FailedForCause
  BY DEF RegistryInv, RegistryFacts, JobFacts, Cause, FailedForCause, HasCause, JobsWith,
         PermanentErrors
<1> QED
  BY <1>1, <1>2, <1>3, PTL DEF Spec

-----------------------------------------------------------------------------
(* What a step of a worker may change                                      *)

\* Rows of other jobs, and of registered documents, are not touched, and no
\* row of a job changes its document or payload.
LEMMA WorkFrame ==
  ASSUME RegistryInv, NEW w \in Workers, Work(w)
  PROVE  /\ RowsPersist
         /\ TablesGrow
         /\ \A id \in JobIds : jobs'[id] = jobs[id] \/ Owner(w, id)
<1> USE DEF RegistryInv, QueueInv
<1>1. jobs \in JobTable
  BY DEF TypeInv, TypeOK, StoreTypeOK, JobTable
<1>2. CASE UNCHANGED <<jobs, raw_documents>>
  BY <1>2 DEF RowsPersist, TablesGrow
<1>3. ASSUME workers[w].pc \in Working
      PROVE  \E id \in JobIds : id = workers[w].job_id /\ jobs[id] # None
  BY <1>3, HeldTypes DEF Job
<1>4. CASE CommitClaim(w)
  <2>1. PICK id \in JobIds : id = workers[w].job_id /\ jobs[id] # None
    BY <1>3, <1>4 DEF CommitClaim, At, Working
  <2>2. jobs' = claimed_job(id) /\ UNCHANGED raw_documents /\ Owner(w, id)
    BY <1>4, <2>1 DEF CommitClaim, At, Owner, Working
  <2>3. /\ jobs'[id] # None
        /\ jobs'[id].document_id = jobs[id].document_id
        /\ jobs'[id].payload = jobs[id].payload
        /\ \A other \in JobIds \ {id} : jobs'[other] = jobs[other]
    BY <1>1, <2>1, <2>2, ClaimLemma
  <2> QED
    BY <2>1, <2>2, <2>3 DEF RowsPersist, TablesGrow
<1>5. CASE CommitProcessed(w) \/ CommitAckLost(w)
  <2>1. At(w, "commit") /\ commit_processed(w)
    BY <1>5 DEF CommitProcessed, CommitAckLost
  <2>2. TablesGrow
    BY <2>1, CommitTables
  <2>3. PICK id \in JobIds : id = workers[w].job_id /\ jobs[id] # None
    BY <1>3, <2>1 DEF At, Working
  <2>4. jobs' = with_verdict(id, "completed", None) /\ Owner(w, id)
    BY <2>1, <2>3 DEF commit_processed, complete_job, Owner, At, Working
  <2>5. RowsPersist
    BY <2>3, <2>4, VerdictPersists DEF Statuses
  <2>6. \A other \in JobIds \ {id} : jobs'[other] = jobs[other]
    BY <1>1, <2>4 DEF with_verdict, JobTable
  <2> QED
    BY <2>2, <2>4, <2>5, <2>6
<1>6. CASE Recover(w)
  <2>1. PICK id \in JobIds : id = workers[w].job_id /\ jobs[id] # None
    BY <1>3, <1>6 DEF Recover, At, Working
  <2>2. PICK status \in Statuses : jobs' = with_verdict(id, status, workers[w].error)
    BY <1>6, <2>1 DEF Recover, fail_job, requeue_job, Statuses
  <2>3. /\ workers[w].error \in Errors \cup {None}
        /\ Owner(w, id)
        /\ UNCHANGED raw_documents
    BY <1>6, <2>1 DEF Recover, At, Owner, Working, TypeInv, TypeOK, WorkerTypeOK,
                      WorkerStates
  <2>4. RowsPersist
    BY <2>1, <2>2, <2>3, VerdictPersists
  <2>5. \A other \in JobIds \ {id} : jobs'[other] = jobs[other]
    BY <1>1, <2>2 DEF with_verdict, JobTable
  <2> QED
    BY <2>3, <2>4, <2>5 DEF TablesGrow
<1> QED
  BY <1>2, <1>4, <1>5, <1>6 DEF Work, WorkerStep, WorkerFault, CheckStop, Idle, Claim,
     Reject, ReadDocument, InsertThread, InsertRaw, DuplicateRaw, TransientError,
     RequestStop, Crash, Restart, store

-----------------------------------------------------------------------------
(* CanonicalRegistry                                                       *)

\* The commit of the process transaction is one registration, or none.
LEMMA CommitRegisters ==
  ASSUME RegistryInv, NEW w \in Workers, At(w, "commit"), commit_processed(w)
  PROVE  [Registry!Next]_(Registry!vars)
<1> DEFINE assigned == [e \in Documents |->
                          IF raw_documents[e] = None THEN None
                          ELSE raw_documents[e].canonical_id]
           observed == {x \in CanonicalIds : canonical_threads[x] # None}
           outcomes == {<<e, canonical_of(q)>> :
                          e \in Documents \ BlankDocuments,
                          q \in {r \in Payloads : ~ParseFails(r)}}
<1>1. PICK d \in Documents \ BlankDocuments, p \in Payloads :
        d = Job(w).document_id /\ p = Job(w).payload /\ ~ParseFails(p)
  BY HeldTypes DEF At, Working, RegistryInv, QueueInv, TypeInv, ParsedJobs, Registering
<1>2. PICK c \in CanonicalIds :
        c = canonical_of(p) /\ raw_row(p) # None /\ raw_row(p).canonical_id = c
  BY <1>1, RawRowLemma
<1>3. /\ raw_documents'[d] = raw_row(p)
      /\ \A e \in Documents \ {d} : raw_documents'[e] = raw_documents[e]
      /\ raw_documents[d] \in {None, raw_row(p)}
      /\ canonical_threads'[c] # None
      /\ \A x \in CanonicalIds \ {c} : canonical_threads'[x] = canonical_threads[x]
  BY <1>1, <1>2, CommitTables DEF RegistryInv, QueueInv
<1>4. <<d, c>> \in outcomes
  BY <1>1, <1>2
<1>5. assigned' = [assigned EXCEPT ![d] = c]
  <2>1. \A e \in Documents \ {d} : assigned'[e] = assigned[e]
    BY <1>3
  <2>2. assigned'[d] = c
    BY <1>2, <1>3
  <2>3. /\ assigned = [e \in Documents |-> assigned[e]]
        /\ assigned' = [e \in Documents |-> assigned'[e]]
    OBVIOUS
  <2> HIDE DEF assigned
  <2> QED
    BY <2>1, <2>2, <2>3
<1>6. observed' = observed \cup {c}
  BY <1>3
<1>7. CASE raw_documents[d] = None
  <2>1. assigned[d] = None
    BY <1>7
  <2>2. Registry!Register(d, c)
    BY <1>4, <1>5, <1>6, <2>1 DEF Registry!Register
  <2> QED
    BY <2>2 DEF Registry!Next
<1>8. CASE raw_documents[d] # None
  <2>1. assigned[d] = c
    BY <1>2, <1>3, <1>8
  <2>2. c \in observed
    BY <1>2, <1>3, <1>8 DEF RegistryInv, RegistryFacts, ThreadsObserved
  <2>3. assigned' = assigned /\ observed' = observed
    BY <1>5, <1>6, <2>1, <2>2
  <2> QED
    BY <2>3 DEF Registry!vars
<1> QED
  BY <1>7, <1>8

\* Whatever races, fails or is retried: every change of raw_documents and
\* canonical_threads is the whole registration of one new document with its
\* thread, so that documents never move and nothing is left half done
\* (upsert_processed_document in the transaction of process_next_job).
THEOREM RegistryImplemented == Spec => ImplementsRegistry
<1>1. Init => RegistryInv
  BY RegistryInvInit
<1>2. RegistryInv /\ [Next]_vars => RegistryInv'
  BY RegistryInvStep
<1>3. Init => Registry!Init
  BY DEF Init, StoreInit, Registry!Init
<1>4. RegistryInv /\ [Next]_vars => [Registry!Next]_(Registry!vars)
  <2> SUFFICES ASSUME RegistryInv, [Next]_vars
               PROVE  [Registry!Next]_(Registry!vars)
    OBVIOUS
  <2>1. CASE UNCHANGED <<raw_documents, canonical_threads>>
    BY <2>1 DEF Registry!vars
  <2>2. ASSUME NEW c \in Clients, Submit(c), UNCHANGED worker_vars
        PROVE  [Registry!Next]_(Registry!vars)
    BY <2>1, <2>2, SubmitFrame DEF RegistryInv, QueueInv
  <2>3. ASSUME NEW w \in Workers, Work(w) PROVE [Registry!Next]_(Registry!vars)
    <3>1. CASE CommitProcessed(w) \/ CommitAckLost(w)
      BY <3>1, CommitRegisters DEF CommitProcessed, CommitAckLost
    <3> QED
      BY <2>1, <2>3, <3>1 DEF Work, WorkerStep, WorkerFault, CheckStop, Idle, Claim,
         CommitClaim, Reject, ReadDocument, InsertThread, InsertRaw, DuplicateRaw,
         TransientError, Recover, RequestStop, Crash, Restart, store
  <2> QED
    BY <2>1, <2>2, <2>3 DEF Next, vars, store
<1> QED
  BY <1>1, <1>2, <1>3, <1>4, PTL DEF Spec, ImplementsRegistry, Registry!Spec

-----------------------------------------------------------------------------
(* Threads                                                                 *)

\* One canonical id stands for one list of Message-IDs: true as long as no
\* Message-ID contains the newline that encode_message_ids joins them with,
\* and a header value is one line (parser.py).
Unambiguous ==
  \A p, q \in Payloads :
    ~ParseFails(p) /\ ~ParseFails(q) /\ canonical_of(p) = canonical_of(q)
      => thread_of(ParsedIds[p]) = thread_of(ParsedIds[q])

\* The second half of ObservedOnly.
ThreadsMatch ==
  \A p \in Payloads : ~ParseFails(p) =>
    canonical_threads[canonical_of(p)] \in {None, thread_of(ParsedIds[p])}

\* Only a registration writes a thread, and it writes the one of its payload.
LEMMA ThreadsMatchStep ==
  ASSUME Unambiguous, RegistryInv, ThreadsMatch, [Next]_vars
  PROVE  ThreadsMatch'
<1>1. CASE UNCHANGED canonical_threads
  BY <1>1 DEF ThreadsMatch
<1>2. ASSUME NEW w \in Workers, At(w, "commit"), commit_processed(w)
      PROVE  ThreadsMatch'
  <2>1. PICK q \in Payloads : q = Job(w).payload /\ ~ParseFails(q)
    BY <1>2, HeldTypes DEF At, Working, RegistryInv, QueueInv, TypeInv, ParsedJobs,
                           Registering
  <2>2. canonical_of(q) \in CanonicalIds
    BY <2>1, RawRowLemma
  <2>3. \/ canonical_threads' = canonical_threads
        \/ canonical_threads' = [canonical_threads EXCEPT
             ![canonical_of(q)] = thread_of(ParsedIds[q])]
    BY <1>2, <2>1 DEF commit_processed
  <2>4. \A c \in CanonicalIds :
          \/ canonical_threads'[c] = canonical_threads[c]
          \/ c = canonical_of(q) /\ canonical_threads'[c] = thread_of(ParsedIds[q])
    BY <2>2, <2>3 DEF RegistryInv, QueueInv, TypeInv, TypeOK, StoreTypeOK
  <2>5. ASSUME NEW p \in Payloads, ~ParseFails(p)
        PROVE  canonical_threads'[canonical_of(p)] \in {None, thread_of(ParsedIds[p])}
    <3>1. canonical_of(p) \in CanonicalIds
      BY <2>5, RawRowLemma
    <3>2. CASE canonical_threads'[canonical_of(p)] = canonical_threads[canonical_of(p)]
      BY <2>5, <3>2 DEF ThreadsMatch
    <3>3. CASE /\ canonical_of(p) = canonical_of(q)
               /\ canonical_threads'[canonical_of(p)] = thread_of(ParsedIds[q])
      BY <2>1, <2>5, <3>3 DEF Unambiguous
    <3> QED
      BY <2>4, <3>1, <3>2, <3>3
  <2> QED
    BY <2>5 DEF ThreadsMatch
<1>3. ASSUME NEW c \in Clients, Submit(c), UNCHANGED worker_vars PROVE ThreadsMatch'
  BY <1>1, <1>3, SubmitFrame DEF RegistryInv, QueueInv
<1>4. ASSUME NEW w \in Workers, Work(w) PROVE ThreadsMatch'
  <2>1. CASE CommitProcessed(w) \/ CommitAckLost(w)
    BY <1>2, <2>1 DEF CommitProcessed, CommitAckLost
  <2> QED
    BY <1>1, <1>4, <2>1 DEF Work, WorkerStep, WorkerFault, CheckStop, Idle, Claim,
       CommitClaim, Reject, ReadDocument, InsertThread, InsertRaw, DuplicateRaw,
       TransientError, Recover, RequestStop, Crash, Restart, store
<1> QED
  BY <1>1, <1>3, <1>4 DEF Next, vars, store

\* A thread is there exactly when a document is registered under it, and has
\* the Message-IDs and the expected parent of all of them
\* (upsert_processed_document, whose insert of a thread that is there does
\* nothing).
THEOREM ThreadsAreObservedOnly ==
  ASSUME Unambiguous
  PROVE  Spec => []ObservedOnly
<1>1. Init => RegistryInv /\ ThreadsMatch
  <2> SUFFICES ASSUME Init PROVE RegistryInv /\ ThreadsMatch
    OBVIOUS
  <2>1. \A p \in Payloads : ~ParseFails(p) => canonical_of(p) \in CanonicalIds
    BY RawRowLemma
  <2> QED
    BY <2>1, RegistryInvInit DEF Init, StoreInit, ThreadsMatch
<1>2. RegistryInv /\ ThreadsMatch /\ [Next]_vars => (RegistryInv /\ ThreadsMatch)'
  BY RegistryInvStep, ThreadsMatchStep
<1>3. RegistryInv /\ ThreadsMatch => ObservedOnly
  BY DEF RegistryInv, RegistryFacts, ThreadsObserved, ThreadsMatch, ObservedOnly
<1> QED
  BY <1>1, <1>2, <1>3, PTL DEF Spec

-----------------------------------------------------------------------------
(* JobLifecycle                                                            *)

\* JobLifecycle's view of the table.
StatusOf(id) == IF jobs[id] = None THEN "absent" ELSE jobs[id].status

TriesOf(id) == IF jobs[id] = None THEN 0 ELSE jobs[id].attempts

Recants(w, id) == At(w, "recover") /\ workers[w].job_id = id

\* A step that changes one row changes that row in the view.
LEMMA RowMoves ==
  ASSUME NEW id \in JobIds, NEW to, NEW n,
         \A other \in JobIds \ {id} : jobs'[other] = jobs[other],
         StatusOf(id)' = to, TriesOf(id)' = n
  PROVE  /\ [x \in JobIds |-> StatusOf(x)]'
              = [[x \in JobIds |-> StatusOf(x)] EXCEPT ![id] = to]
         /\ [x \in JobIds |-> TriesOf(x)]'
              = [[x \in JobIds |-> TriesOf(x)] EXCEPT ![id] = n]
         /\ TriesOf(id) = n => UNCHANGED [x \in JobIds |-> TriesOf(x)]
         /\ StatusOf(id) = to => UNCHANGED [x \in JobIds |-> StatusOf(x)]
<1>1. \A other \in JobIds \ {id} :
        StatusOf(other)' = StatusOf(other) /\ TriesOf(other)' = TriesOf(other)
  BY DEF StatusOf, TriesOf
<1> HIDE DEF StatusOf, TriesOf
<1> QED
  BY <1>1

\* Who is unheard, in terms of the view.
IsUnheard(id) ==
  StatusOf(id) = "completed" /\ \E w \in Workers : Recants(w, id)

LEMMA UnheardView ==
  /\ Unheard = {id \in JobIds : IsUnheard(id)}
  /\ Unheard' = {id \in JobIds : IsUnheard(id)'}
BY DEF Unheard, JobsWith, IsUnheard, StatusOf, Recants

-----------------------------------------------------------------------------
\* A submission enqueues a job or changes none.
LEMMA SubmitEnqueues ==
  ASSUME RegistryInv, NEW c \in Clients, Submit(c), UNCHANGED worker_vars
  PROVE  [Lifecycle!Next]_(Lifecycle!vars)
<1> USE DEF RegistryInv, QueueInv
<1>1. CASE UNCHANGED jobs
  BY <1>1 DEF Lifecycle!vars, Unheard, JobsWith, At, worker_vars
<1>2. CASE CommitJob(c)
  <2>1. PICK id \in JobIds : id = requests[c].job_id /\ jobs[id] = None
    BY <1>2 DEF CommitJob, TypeInv, ReservedIds, Reserved
  <2>2. requests[c] \in Requests
    BY <1>2 DEF CommitJob, TypeInv, TypeOK, ApiTypeOK, NoRequest
  <2>3. /\ jobs'[id] = enqueue_job(requests[c].document_id, requests[c].payload)
        /\ \A other \in JobIds \ {id} : jobs'[other] = jobs[other]
    BY <1>2, <2>1 DEF CommitJob, TypeInv, TypeOK, StoreTypeOK
  <2>4. jobs'[id] \in JobRows
    BY <2>2, <2>3 DEF enqueue_job, JobRows, Statuses, Requests
  <2>5. /\ StatusOf(id) = "absent" /\ StatusOf(id)' = "pending"
        /\ TriesOf(id) = 0 /\ TriesOf(id)' = 0
    BY <2>1, <2>3, <2>4, NoneAssumption DEF enqueue_job, StatusOf, TriesOf
  <2>6. UNCHANGED <<Unheard, faults>>
    <3>1. \A x \in JobIds : /\ StatusOf(x) = "completed" <=> StatusOf(x)' = "completed"
                            /\ \A w \in Workers : Recants(w, x) <=> Recants(w, x)'
      BY <2>3, <2>5 DEF StatusOf, Recants, At, worker_vars
    <3> QED
      BY <3>1, UnheardView DEF IsUnheard, worker_vars
  <2>7. Lifecycle!Enqueue(id)
    BY <2>3, <2>5, <2>6, RowMoves DEF StatusOf, TriesOf, Lifecycle!Enqueue, Lifecycle!Move
  <2> QED
    BY <2>7 DEF Lifecycle!Next
<1> QED
  BY <1>1, <1>2 DEF Submit, RejectConflict, AcceptCompleted, ReadNoDocument,
     ReuseActiveJob, FindNoActiveJob, EnqueueJob, Respond, AbortRequest, store

\* The row of the job a worker holds.
LEMMA HeldView ==
  ASSUME RegistryInv, NEW w \in Workers, workers[w].pc \in Working,
         NEW id \in JobIds, id = workers[w].job_id
  PROVE  /\ jobs[id] # None /\ jobs[id] \in JobRows
         /\ \/ StatusOf(id) = IF workers[w].pc = "claimed" THEN "pending"
                              ELSE "processing"
            \/ workers[w].pc = "recover" /\ StatusOf(id) = "completed"
         /\ TriesOf(id) = jobs[id].attempts
         /\ TriesOf(id) \in Nat /\ TriesOf(id) <= MaxAttempts
         /\ workers[w].pc = "claimed" => TriesOf(id) < MaxAttempts
         /\ workers[w].pc # "claimed" => TriesOf(id) = workers[w].attempts
         /\ workers[w].attempts \in Nat
<1>1. HeldRow(w) /\ jobs[id] # None /\ jobs[id] \in JobRows
  BY DEF RegistryInv, QueueInv, ExclusiveClaims, TypeInv, HeldJobs, TypeOK, StoreTypeOK
<1>2. workers[w].attempts \in Nat
  BY DEF RegistryInv, QueueInv, TypeInv, TypeOK, WorkerTypeOK, WorkerStates
<1>3. \/ jobs[id].status = IF workers[w].pc = "claimed" THEN "pending" ELSE "processing"
      \/ workers[w].pc = "recover" /\ jobs[id].status = "completed"
  BY <1>1 DEF HeldRow
<1>4. /\ jobs[id].attempts \in Nat /\ jobs[id].attempts <= MaxAttempts
      /\ workers[w].pc = "claimed" => jobs[id].attempts < MaxAttempts
  BY <1>1 DEF RegistryInv, QueueInv, AttemptsBounded, HeldRow, JobRows
<1> QED
  BY <1>1, <1>2, <1>3, <1>4 DEF HeldRow, StatusOf, TriesOf

\* A step of the worker that holds a job decides whether it is unheard, and
\* decides nothing about others.
LEMMA UnheardMoves ==
  ASSUME RegistryInv, NEW w \in Workers, workers[w].pc \in Working,
         NEW id \in JobIds, id = workers[w].job_id,
         \A v \in Workers \ {w} : workers'[v] = workers[v],
         At(w, "recover")' => workers'[w].job_id = id,
         \A other \in JobIds \ {id} : jobs'[other] = jobs[other]
  PROVE  /\ StatusOf(id)' = "completed" /\ At(w, "recover")'
              => Unheard' = Unheard \cup {id}
         /\ ~(StatusOf(id)' = "completed" /\ At(w, "recover")')
              => Unheard' = Unheard \ {id}
         /\ /\ ~(StatusOf(id) = "completed" /\ At(w, "recover"))
            /\ ~(StatusOf(id)' = "completed" /\ At(w, "recover")')
            => Unheard' = Unheard
         /\ id \in Unheard <=> StatusOf(id) = "completed" /\ At(w, "recover")
<1>1. \A v \in Workers \ {w} : ~Recants(v, id) /\ ~Recants(v, id)'
  BY DEF RegistryInv, QueueInv, ExclusiveClaims, Owner, Recants, At, Working
<1>2. /\ Recants(w, id) <=> At(w, "recover")
      /\ Recants(w, id)' <=> At(w, "recover")'
  BY DEF Recants
<1>3. ASSUME NEW x \in JobIds \ {id}
      PROVE  x \in Unheard <=> x \in Unheard'
  <2>1. StatusOf(x)' = StatusOf(x)
    BY <1>3 DEF StatusOf
  <2>2. \A v \in Workers : Recants(v, x)' <=> Recants(v, x)
    BY <1>3 DEF Recants, At
  <2> QED
    BY <2>1, <2>2, UnheardView DEF IsUnheard
<1>4. /\ id \in Unheard <=> StatusOf(id) = "completed" /\ At(w, "recover")
      /\ id \in Unheard' <=> StatusOf(id)' = "completed" /\ At(w, "recover")'
  BY <1>1, <1>2, UnheardView DEF IsUnheard
<1>5. Unheard \subseteq JobIds /\ Unheard' \subseteq JobIds
  BY UnheardView
<1> QED
  BY <1>3, <1>4, <1>5

\* Steps that leave the tables alone and do not end a recovery.
LEMMA QuietLifecycle ==
  ASSUME RegistryInv, NEW w \in Workers, UNCHANGED <<jobs, faults.lost_acks>>,
         \A v \in Workers \ {w} : workers'[v] = workers[v],
         \/ workers[w].pc \notin Working /\ ~At(w, "recover")'
         \/ /\ workers[w].pc \in Working \ {"recover"}
            /\ At(w, "recover")' => workers'[w].job_id = workers[w].job_id
  PROVE  UNCHANGED Lifecycle!vars
<1>1. CASE workers[w].pc \notin Working /\ ~At(w, "recover")'
  <2>1. \A v \in Workers, x \in JobIds : Recants(v, x)' <=> Recants(v, x)
    BY <1>1 DEF Recants, At, Working
  <2>2. Unheard' = Unheard
    BY <2>1, UnheardView DEF IsUnheard, StatusOf
  <2> QED
    BY <2>2 DEF Lifecycle!vars
<1>2. CASE /\ workers[w].pc \in Working \ {"recover"}
           /\ At(w, "recover")' => workers'[w].job_id = workers[w].job_id
  <2>1. PICK id \in JobIds : id = workers[w].job_id
    BY <1>2, HeldTypes DEF RegistryInv, QueueInv
  <2>2. StatusOf(id) # "completed" /\ StatusOf(id)' # "completed"
    BY <1>2, <2>1, HeldView DEF StatusOf
  <2>3. Unheard' = Unheard
    <3>1. \A other \in JobIds \ {id} : jobs'[other] = jobs[other]
      OBVIOUS
    <3> QED
      BY <1>2, <2>1, <2>2, <3>1, UnheardMoves
  <2> QED
    BY <2>3 DEF Lifecycle!vars
<1> QED
  BY <1>1, <1>2

\* A verdict on the job of a worker that leaves it or goes to recover.
LEMMA VerdictMoves ==
  ASSUME RegistryInv, NEW w \in Workers, workers[w].pc \in Working \ {"claimed"},
         NEW id \in JobIds, id = workers[w].job_id,
         \A v \in Workers \ {w} : workers'[v] = workers[v],
         At(w, "recover")' => workers'[w].job_id = id,
         NEW status \in Statuses, NEW error \in Errors \cup {None},
         jobs' = with_verdict(id, status, error)
  PROVE  /\ StatusOf(id)' = status
         /\ TriesOf(id)' = TriesOf(id)
         /\ \A other \in JobIds \ {id} : jobs'[other] = jobs[other]
<1>1. jobs \in JobTable
  BY DEF RegistryInv, QueueInv, TypeInv, TypeOK, StoreTypeOK, JobTable
<1>2. jobs[id] # None
  BY HeldView
<1>3. /\ jobs'[id] # None
      /\ jobs'[id].status = status
      /\ jobs'[id].attempts = jobs[id].attempts
      /\ \A other \in JobIds \ {id} : jobs'[other] = jobs[other]
  BY <1>1, <1>2, VerdictLemma
<1> QED
  BY <1>2, <1>3 DEF StatusOf, TriesOf

-----------------------------------------------------------------------------
\* A claim, a verdict, a verdict taken back, or no change.
LEMMA WorkMoves ==
  ASSUME RegistryInv, NEW w \in Workers, Work(w)
  PROVE  [Lifecycle!Next]_(Lifecycle!vars)
<1> USE DEF RegistryInv, QueueInv
<1>1. jobs \in JobTable
  BY DEF TypeInv, TypeOK, StoreTypeOK, JobTable
<1>2. workers \in [Workers -> WorkerStates]
  BY DEF TypeInv, TypeOK, WorkerTypeOK
<1>3. faults \in [crashes : 0 .. MaxCrashes, stops : 0 .. MaxStops,
                  lost_acks : 0 .. MaxLostAcks]
  BY DEF TypeInv, TypeOK, WorkerTypeOK
<1>4. ASSUME workers[w].pc \in Working
      PROVE  \E id \in JobIds : id = workers[w].job_id
  BY <1>4, HeldTypes
<1>5. \A label : AtRest(label).pc = label
  BY DEF AtRest
<1>6. CASE CheckStop(w) \/ InsertRaw(w)
  <2>1. PICK label \in {"stopped", "claim", "commit"} : Goto(w, label)
    BY <1>6 DEF CheckStop, InsertRaw
  <2>2. /\ workers'[w].pc = label
        /\ \A v \in Workers \ {w} : workers'[v] = workers[v]
    BY <1>2, <2>1 DEF Goto, WorkerStates
  <2> QED
    BY <1>6, <2>1, <2>2, QuietLifecycle DEF CheckStop, InsertRaw, At, Working, store
<1>7. CASE Idle(w) \/ Claim(w) \/ Restart(w)
  <2>1. /\ workers[w].pc \notin Working
        /\ workers'[w].pc \in {"check", "claimed"}
        /\ \A v \in Workers \ {w} : workers'[v] = workers[v]
    BY <1>2, <1>5, <1>7 DEF Idle, Claim, Restart, Return, At, Working, AtRest
  <2> QED
    BY <1>7, <2>1, QuietLifecycle DEF Idle, Claim, Restart, At, store
<1>8. CASE ReadDocument(w) \/ InsertThread(w)
  <2>1. PICK state \in WorkerStates : state = workers[w]
    BY <1>2
  <2> DEFINE reading(flag) == [state EXCEPT !.pc = "insert_thread", !.existing = flag]
             writing(flag) == [state EXCEPT !.pc = "insert_raw", !.new_thread = flag]
  <2>2. \/ \E flag : workers' = [workers EXCEPT ![w] = reading(flag)]
        \/ \E flag : workers' = [workers EXCEPT ![w] = writing(flag)]
    BY <1>8, <2>1 DEF ReadDocument, InsertThread
  <2>3. \A flag : /\ reading(flag).pc = "insert_thread"
                  /\ writing(flag).pc = "insert_raw"
    BY DEF WorkerStates
  <2> HIDE DEF reading, writing
  <2>4. /\ workers'[w].pc \in {"insert_thread", "insert_raw"}
        /\ \A v \in Workers \ {w} : workers'[v] = workers[v]
    BY <1>2, <2>2, <2>3
  <2> QED
    BY <1>8, <2>4, QuietLifecycle DEF ReadDocument, InsertThread, At, Working, store
<1>9. CASE Reject(w) \/ DuplicateRaw(w) \/ TransientError(w)
  <2>1. /\ workers[w].pc \in Working \ {"claimed", "recover"}
        /\ \E error : Raise(w, error)
        /\ UNCHANGED <<store, faults>>
    BY <1>9 DEF Reject, DuplicateRaw, TransientError, At, Working
  <2>2. /\ workers'[w].job_id = workers[w].job_id
        /\ \A v \in Workers \ {w} : workers'[v] = workers[v]
    BY <1>2, <2>1 DEF Raise, AtRest
  <2> QED
    BY <2>1, <2>2, QuietLifecycle DEF store
<1>10. CASE RequestStop(w)
  <2>1. UNCHANGED <<jobs, workers>> /\ faults'.lost_acks = faults.lost_acks
    BY <1>3, <1>10 DEF RequestStop, store
  <2> QED
    BY <2>1 DEF Lifecycle!vars, Unheard, JobsWith, At
<1>11. CASE CommitClaim(w)
  <2>1. At(w, "claimed") /\ workers[w].pc \in Working
    BY <1>11 DEF CommitClaim, At, Working
  <2>2. PICK id \in JobIds : id = workers[w].job_id
    BY <1>4, <2>1
  <2>3. /\ jobs[id] # None
        /\ StatusOf(id) = "pending"
        /\ TriesOf(id) = jobs[id].attempts
        /\ TriesOf(id) < MaxAttempts
    BY <2>1, <2>2, HeldView DEF At
  <2>4. jobs' = claimed_job(id) /\ Goto(w, "process") /\ UNCHANGED faults
    BY <1>11, <2>2 DEF CommitClaim
  <2>5. /\ jobs'[id] # None
        /\ jobs'[id].status = "processing"
        /\ jobs'[id].attempts = jobs[id].attempts + 1
        /\ \A other \in JobIds \ {id} : jobs'[other] = jobs[other]
    BY <1>1, <2>3, <2>4, ClaimLemma
  <2>6. StatusOf(id)' = "processing" /\ TriesOf(id)' = TriesOf(id) + 1
    BY <2>3, <2>5 DEF StatusOf, TriesOf
  <2>7. /\ ~At(w, "recover")'
        /\ \A v \in Workers \ {w} : workers'[v] = workers[v]
    BY <1>2, <2>4 DEF Goto, At, WorkerStates
  <2>8. Unheard' = Unheard
    BY <2>1, <2>2, <2>3, <2>5, <2>7, UnheardMoves DEF At
  <2>9. Lifecycle!Claim(id)
    BY <2>3, <2>4, <2>5, <2>6, <2>8, RowMoves
       DEF StatusOf, TriesOf, Lifecycle!Claim, Lifecycle!Move
  <2> QED
    BY <2>9 DEF Lifecycle!Next
<1>12. CASE CommitProcessed(w)
  <2>1. At(w, "commit") /\ workers[w].pc \in Working \ {"claimed"}
    BY <1>12 DEF CommitProcessed, At, Working
  <2>2. PICK id \in JobIds : id = workers[w].job_id
    BY <1>4, <2>1
  <2>3. StatusOf(id) = "processing"
    BY <2>1, <2>2, HeldView DEF At
  <2>4. jobs' = with_verdict(id, "completed", None) /\ Return(w) /\ UNCHANGED faults
    BY <1>12, <2>2 DEF CommitProcessed, commit_processed, complete_job
  <2>5. /\ ~At(w, "recover")'
        /\ \A v \in Workers \ {w} : workers'[v] = workers[v]
    BY <1>2, <1>5, <2>4 DEF Return, At
  <2>6. /\ StatusOf(id)' = "completed" /\ TriesOf(id)' = TriesOf(id)
        /\ \A other \in JobIds \ {id} : jobs'[other] = jobs[other]
    BY <2>1, <2>2, <2>4, <2>5, VerdictMoves DEF Statuses
  <2>7. Unheard' = Unheard
    BY <2>1, <2>2, <2>3, <2>5, <2>6, UnheardMoves DEF At
  <2>8. Lifecycle!Complete(id)
    BY <2>3, <2>4, <2>6, <2>7, RowMoves
       DEF StatusOf, TriesOf, Lifecycle!Complete, Lifecycle!Move
  <2> QED
    BY <2>8 DEF Lifecycle!Next
<1>13. CASE CommitAckLost(w)
  <2>1. At(w, "commit") /\ workers[w].pc \in Working \ {"claimed"}
    BY <1>13 DEF CommitAckLost, At, Working
  <2>2. PICK id \in JobIds : id = workers[w].job_id
    BY <1>4, <2>1
  <2>3. StatusOf(id) = "processing"
    BY <2>1, <2>2, HeldView DEF At
  <2>4. /\ jobs' = with_verdict(id, "completed", None)
        /\ Raise(w, "database_error")
        /\ faults'.lost_acks = faults.lost_acks + 1
    BY <1>3, <1>13, <2>2 DEF CommitAckLost, commit_processed, complete_job
  <2>5. /\ At(w, "recover")' /\ workers'[w].job_id = id
        /\ \A v \in Workers \ {w} : workers'[v] = workers[v]
    BY <1>2, <2>2, <2>4 DEF Raise, AtRest, At
  <2>6. /\ StatusOf(id)' = "completed" /\ TriesOf(id)' = TriesOf(id)
        /\ \A other \in JobIds \ {id} : jobs'[other] = jobs[other]
    BY <2>1, <2>2, <2>4, <2>5, VerdictMoves DEF Statuses
  <2>7. Unheard' = Unheard \cup {id}
    BY <2>1, <2>2, <2>5, <2>6, UnheardMoves
  <2>8. Lifecycle!CompleteUnheard(id)
    BY <2>3, <2>4, <2>6, <2>7, RowMoves
       DEF StatusOf, TriesOf, Lifecycle!CompleteUnheard, Lifecycle!Move
  <2> QED
    BY <2>8 DEF Lifecycle!Next
<1>14. CASE Recover(w)
  <2>1. At(w, "recover") /\ workers[w].pc \in Working \ {"claimed"}
    BY <1>14 DEF Recover, At, Working
  <2>2. PICK id \in JobIds : id = workers[w].job_id
    BY <1>4, <2>1
  <2>3. /\ StatusOf(id) \in {"processing", "completed"}
        /\ TriesOf(id) \in Nat /\ TriesOf(id) <= MaxAttempts
        /\ TriesOf(id) = workers[w].attempts
    BY <2>1, <2>2, HeldView DEF At
  <2>4. workers[w].error \in Errors \cup {None}
    BY <1>2 DEF WorkerStates
  <2>5. /\ Return(w) /\ UNCHANGED faults
        /\ \/ /\ jobs' = with_verdict(id, "failed", workers[w].error)
              /\ is_permanent_error(workers[w].error) \/ exhausted(w)
           \/ jobs' = with_verdict(id, "pending", workers[w].error) /\ ~exhausted(w)
    BY <1>14, <2>2 DEF Recover, fail_job, requeue_job
  <2>6. /\ ~At(w, "recover")'
        /\ \A v \in Workers \ {w} : workers'[v] = workers[v]
    BY <1>2, <1>5, <2>5 DEF Return, At
  <2>7. /\ \/ /\ StatusOf(id)' = "failed"
              /\ is_permanent_error(workers[w].error) \/ exhausted(w)
           \/ StatusOf(id)' = "pending" /\ ~exhausted(w)
        /\ TriesOf(id)' = TriesOf(id)
        /\ \A other \in JobIds \ {id} : jobs'[other] = jobs[other]
    BY <2>1, <2>2, <2>4, <2>5, <2>6, VerdictMoves DEF Statuses
  <2>8. Unheard' = Unheard \ {id} /\ (id \in Unheard <=> StatusOf(id) = "completed")
    BY <2>1, <2>2, <2>6, <2>7, UnheardMoves
  <2>9. ~exhausted(w) => TriesOf(id) < MaxAttempts
    BY <2>3, WorkerAssumption DEF exhausted
  <2>10. CASE StatusOf(id) = "processing"
    <3>1. Lifecycle!Fail(id) \/ Lifecycle!Requeue(id)
      BY <2>5, <2>7, <2>8, <2>9, <2>10, RowMoves
         DEF StatusOf, TriesOf, Lifecycle!Fail, Lifecycle!Requeue, Lifecycle!Move
    <3> QED
      BY <3>1 DEF Lifecycle!Next
  <2>11. CASE StatusOf(id) = "completed"
    <3>1. StatusOf(id)' = "failed" => TriesOf(id) = MaxAttempts
      <4>1. ~ParseFails(Job(w).payload) /\ ~conflicts(Job(w).document_id, Job(w).payload)
        <5>1. jobs[id] # None /\ jobs[id].status = "completed"
          BY <2>11 DEF StatusOf
        <5>2. /\ ~ParseFails(jobs[id].payload)
              /\ raw_documents[jobs[id].document_id] = raw_row(jobs[id].payload)
          BY <5>1 DEF RegistryFacts, JobFacts
        <5> QED
          BY <2>2, <5>2 DEF Job, conflicts, raw_row
      <4>2. Cause(workers[w].error, Job(w).document_id, Job(w).payload)
        BY <2>1 DEF RegistryFacts, WorkerFacts, At
      <4>3. ~is_permanent_error(workers[w].error)
        BY <4>1, <4>2 DEF Cause, is_permanent_error, PermanentErrors
      <4>4. StatusOf(id)' = "failed" => exhausted(w)
        BY <2>2, <2>5, <2>7, <4>3
      <4> QED
        BY <2>3, <4>4, WorkerAssumption DEF exhausted
    <3>2. Lifecycle!Recant(id)
      BY <2>5, <2>7, <2>8, <2>9, <2>11, <3>1, RowMoves
         DEF StatusOf, TriesOf, Lifecycle!Recant, Lifecycle!Move
    <3> QED
      BY <3>2 DEF Lifecycle!Next
  <2> QED
    BY <2>3, <2>10, <2>11
<1>15. CASE Crash(w)
  <2>1. /\ workers'[w].pc = "down" /\ UNCHANGED jobs
        /\ faults'.lost_acks = faults.lost_acks
        /\ \A v \in Workers \ {w} : workers'[v] = workers[v]
    BY <1>2, <1>3, <1>5, <1>15 DEF Crash, store
  <2>2. CASE workers[w].pc # "recover"
    BY <2>1, <2>2, QuietLifecycle DEF At, Working
  <2>3. CASE workers[w].pc = "recover"
    <3>1. PICK id \in JobIds : id = workers[w].job_id
      BY <1>4, <2>3 DEF Working
    <3>2. Unheard' = Unheard \ {id}
      BY <2>1, <2>3, <3>1, UnheardMoves DEF At, Working
    <3>3. CASE id \in Unheard
      <4>1. Lifecycle!Recant(id)
        BY <2>1, <3>2, <3>3 DEF Lifecycle!Recant
      <4> QED
        BY <4>1 DEF Lifecycle!Next
    <3>4. CASE id \notin Unheard
      BY <2>1, <3>2, <3>4 DEF Lifecycle!vars
    <3> QED
      BY <3>3, <3>4
  <2> QED
    BY <2>2, <2>3
<1> QED
  BY <1>6, <1>7, <1>8, <1>9, <1>10, <1>11, <1>12, <1>13, <1>14, <1>15
     DEF Work, WorkerStep, WorkerFault

\* No step of the API, the workers or the faults skips a state, grants a try
\* too many or touches a failed job, and a completed one is taken back only
\* by the worker that did not hear of it: the UPDATEs do not look at the
\* status they replace, and need not (complete_job, fail_job, requeue_job).
THEOREM LifecycleFollowed == Spec => FollowsLifecycle
<1>1. Init => RegistryInv
  BY RegistryInvInit
<1>2. RegistryInv /\ [Next]_vars => RegistryInv'
  BY RegistryInvStep
<1>3. Init => Lifecycle!Init
  BY DEF Init, StoreInit, WorkerInit, AtRest, Lifecycle!Init, Unheard, JobsWith
<1>4. RegistryInv /\ [Next]_vars => [Lifecycle!Next]_(Lifecycle!vars)
  <2> SUFFICES ASSUME RegistryInv, [Next]_vars
               PROVE  [Lifecycle!Next]_(Lifecycle!vars)
    OBVIOUS
  <2>1. CASE UNCHANGED vars
    BY <2>1 DEF vars, store, worker_vars, Lifecycle!vars, Unheard, JobsWith, At
  <2> QED
    BY <2>1, SubmitEnqueues, WorkMoves DEF Next
<1> QED
  BY <1>1, <1>2, <1>3, <1>4, PTL DEF Spec, FollowsLifecycle, Lifecycle!Spec
=============================================================================
