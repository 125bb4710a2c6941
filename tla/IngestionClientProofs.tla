------------------------- MODULE IngestionClientProofs -------------------------
(***************************************************************************)
(* Proofs about what clients can rely on: what a 202 said stays true, when *)
(* the commit comes before the response; and the two counts that bound     *)
(* what goes wrong, jobs that nobody works on any more and active jobs for *)
(* one document and content.                                               *)
(***************************************************************************)
EXTENDS IngestionRegistryProofs, FiniteSetTheorems

-----------------------------------------------------------------------------
(* What a 202 said                                                         *)

\* The job is there and is for this document and payload.
Names(id, document_id, payload) ==
  /\ jobs[id] # None
  /\ jobs[id].document_id = document_id
  /\ jobs[id].payload = payload

\* The tables bear out what a 202 says.
Recorded(a) ==
  IF a.job_id = None
  THEN /\ raw_documents[a.document_id] # None
       /\ raw_documents[a.document_id].canonical_id = a.canonical_id
       /\ ~conflicts(a.document_id, a.payload)
  ELSE Names(a.job_id, a.document_id, a.payload)

\* What a 202 can say.
Answers == Acceptances \ {None}

\* AcceptedMeansRecorded, and the same of what is about to be said: the
\* commit comes before the response.
ResponsesInv ==
  /\ \A c \in Clients, a \in Answers : accepted[c] = a => Recorded(a)
  /\ \A c \in Clients, r \in Requests :
       requests[c] = r /\ r.pc = "respond"
         => Names(r.job_id, r.document_id, r.payload)

\* No job is removed or turned into another.
RowsKept ==
  \A id \in JobIds : jobs[id] # None =>
    /\ jobs'[id] # None
    /\ jobs'[id].document_id = jobs[id].document_id
    /\ jobs'[id].payload = jobs[id].payload

-----------------------------------------------------------------------------
\* What is recorded stays recorded.
LEMMA RecordedPersists ==
  ASSUME RowsKept, TablesGrow, NEW a \in Answers, Recorded(a)
  PROVE  Recorded(a)'
<1>1. CASE a.job_id = None
  <2>1. a.document_id \in Documents
    BY DEF Answers, Acceptances
  <2>2. raw_documents'[a.document_id] = raw_documents[a.document_id]
    BY <1>1, <2>1 DEF Recorded, TablesGrow
  <2> QED
    BY <1>1, <2>2 DEF Recorded, conflicts
<1>2. CASE a.job_id # None
  <2>1. a.job_id \in JobIds
    BY <1>2 DEF Answers, Acceptances
  <2> QED
    BY <1>2, <2>1 DEF Recorded, Names, RowsKept
<1> QED
  BY <1>1, <1>2

\* So a step has to account for what it says, and for what it is about to
\* say.
LEMMA ResponsesPersist ==
  ASSUME TypeInv, ResponsesInv, RowsKept, TablesGrow,
         \A c \in Clients, a \in Answers :
           accepted'[c] = a => accepted[c] = a \/ Recorded(a)',
         \A c \in Clients, r \in Requests :
           requests'[c] = r /\ r.pc = "respond"
             => requests[c] = r \/ Names(r.job_id, r.document_id, r.payload)'
  PROVE  ResponsesInv'
<1>1. ASSUME NEW c \in Clients, NEW a \in Answers, accepted'[c] = a
      PROVE  Recorded(a)'
  BY <1>1, RecordedPersists DEF ResponsesInv
<1>2. ASSUME NEW c \in Clients, NEW r \in Requests, requests'[c] = r, r.pc = "respond"
      PROVE  Names(r.job_id, r.document_id, r.payload)'
  <2>1. CASE requests[c] = r
    <3>1. r.job_id \in JobIds
      BY <1>2, <2>1 DEF TypeInv, ReservedIds
    <3> QED
      BY <1>2, <2>1, <3>1 DEF ResponsesInv, Names, RowsKept
  <2> QED
    BY <1>2, <2>1
<1> QED
  BY <1>1, <1>2 DEF ResponsesInv

\* A submission says what it has read or committed.
LEMMA SubmitResponds ==
  ASSUME ~RespondFirst, TypeInv, ResponsesInv,
         NEW c \in Clients, Submit(c), UNCHANGED worker_vars
  PROVE  ResponsesInv'
<1>1. RowsKept /\ TablesGrow /\ raw_documents' = raw_documents
  BY SubmitFrame DEF RowsExtend, RowsKept, TablesGrow
<1>2. /\ requests \in [Clients -> Requests \cup {NoRequest}]
      /\ accepted \in [Clients -> Acceptances \cup {None}]
      /\ NoRequest.pc = "idle"
  BY DEF TypeInv, TypeOK, ApiTypeOK, NoRequest
<1>3. ASSUME accepted' = accepted,
             requests' = requests
               \/ \E new : /\ requests' = [requests EXCEPT ![c] = new]
                           /\ new.pc # "respond"
      PROVE  ResponsesInv'
  <2>1. \A b \in Clients, r \in Requests :
          requests'[b] = r /\ r.pc = "respond" => requests[b] = r
    BY <1>2, <1>3
  <2> QED
    BY <1>1, <1>3, <2>1, ResponsesPersist
<1>4. ASSUME NEW a, Recorded(a)', accepted' = [accepted EXCEPT ![c] = a],
             requests' = requests \/ requests' = [requests EXCEPT ![c] = NoRequest]
      PROVE  ResponsesInv'
  <2>1. \A b \in Clients, r \in Requests :
          requests'[b] = r /\ r.pc = "respond" => requests[b] = r
    BY <1>2, <1>4
  <2>2. \A b \in Clients, e \in Answers :
          accepted'[b] = e => accepted[b] = e \/ Recorded(e)'
    BY <1>2, <1>4
  <2> QED
    BY <1>1, <2>1, <2>2, ResponsesPersist
<1>5. ASSUME NEW d \in Documents, NEW p \in Payloads, AcceptCompleted(c, d, p)
      PROVE  ResponsesInv'
  <2>1. PICK canonical_id : canonical_id = raw_documents[d].canonical_id
    OBVIOUS
  <2> DEFINE a == [document_id |-> d, payload |-> p, job_id |-> None,
                   canonical_id |-> canonical_id]
  <2>2. accepted' = [accepted EXCEPT ![c] = a] /\ requests' = requests
    BY <1>5, <2>1 DEF AcceptCompleted, accept
  <2>3. Recorded(a)'
    BY <1>1, <1>5, <2>1 DEF AcceptCompleted, Recorded, conflicts
  <2> HIDE DEF a
  <2> QED
    BY <1>4, <2>2, <2>3
<1>6. CASE ReuseActiveJob(c)
  <2>1. PICK id \in active_jobs(requests[c].document_id, requests[c].payload) :
          accept(c, requests[c].document_id, requests[c].payload, id, None)
    BY <1>6 DEF ReuseActiveJob
  <2>2. PICK d, p : d = requests[c].document_id /\ p = requests[c].payload
    OBVIOUS
  <2> DEFINE a == [document_id |-> d, payload |-> p, job_id |-> id,
                   canonical_id |-> None]
  <2>3. Names(id, d, p) /\ id \in JobIds
    BY <2>1, <2>2, HashLemma DEF active_jobs, JobsWith, Names
  <2>4. Names(id, d, p)' /\ id # None
    BY <1>1, <2>3, NoneAssumption DEF Names, RowsKept
  <2>5. Recorded(a)'
    BY <2>4 DEF Recorded
  <2>6. /\ accepted' = [accepted EXCEPT ![c] = a]
        /\ requests' = [requests EXCEPT ![c] = NoRequest]
    BY <1>6, <2>1, <2>2 DEF ReuseActiveJob, accept
  <2> HIDE DEF a
  <2> QED
    BY <1>4, <2>5, <2>6
<1>7. CASE CommitJob(c)
  <2>1. PICK r \in Requests : r = requests[c] /\ r.job_id \in JobIds
    BY <1>2, <1>7 DEF CommitJob, TypeInv, ReservedIds
  <2>2. jobs'[r.job_id] = enqueue_job(r.document_id, r.payload)
    BY <1>7, <2>1 DEF CommitJob, TypeInv, TypeOK, StoreTypeOK
  <2>3. enqueue_job(r.document_id, r.payload) \in JobRows
    BY <2>1 DEF enqueue_job, JobRows, Statuses, Requests
  <2>4. Names(r.job_id, r.document_id, r.payload)'
    BY <2>2, <2>3, NoneAssumption DEF Names, enqueue_job
  <2>5. /\ accepted' = accepted
        /\ requests' = [requests EXCEPT ![c] = [r EXCEPT !.pc = "respond"]]
    BY <1>7, <2>1 DEF CommitJob
  <2>6. \A b \in Clients, e \in Requests : requests'[b] = e =>
          \/ requests[b] = e
          \/ /\ e.job_id = r.job_id
             /\ e.document_id = r.document_id
             /\ e.payload = r.payload
    BY <1>2, <2>1, <2>5 DEF Requests
  <2> QED
    BY <1>1, <2>4, <2>5, <2>6, ResponsesPersist
<1>8. CASE Respond(c)
  <2>1. PICK r \in Requests : r = requests[c] /\ r.pc = "respond"
    BY <1>2, <1>8 DEF Respond
  <2>2. Names(r.job_id, r.document_id, r.payload) /\ r.job_id \in JobIds
    BY <2>1 DEF ResponsesInv, TypeInv, ReservedIds
  <2>3. Names(r.job_id, r.document_id, r.payload)' /\ r.job_id # None
    BY <1>1, <2>2, NoneAssumption DEF Names, RowsKept
  <2> DEFINE a == [document_id |-> r.document_id, payload |-> r.payload,
                   job_id |-> r.job_id, canonical_id |-> None]
  <2>4. Recorded(a)'
    BY <2>3 DEF Recorded
  <2>5. /\ accepted' = [accepted EXCEPT ![c] = a]
        /\ requests' = [requests EXCEPT ![c] = NoRequest]
    BY <1>8, <2>1 DEF Respond, accept
  <2> HIDE DEF a
  <2> QED
    BY <1>4, <2>4, <2>5
<1>9. CASE \/ \E d \in Documents, p \in Payloads : RejectConflict(c, d, p)
           \/ AbortRequest(c)
  BY <1>2, <1>3, <1>9 DEF RejectConflict, AbortRequest, api
<1>10. ASSUME NEW d \in Documents, NEW p \in Payloads, ReadNoDocument(c, d, p)
       PROVE  ResponsesInv'
  <2> DEFINE new == [pc |-> "lookup", document_id |-> d, payload |-> p,
                     job_id |-> None]
  <2>1. accepted' = accepted /\ requests' = [requests EXCEPT ![c] = new]
    BY <1>10 DEF ReadNoDocument
  <2>2. new.pc = "lookup"
    OBVIOUS
  <2> HIDE DEF new
  <2> QED
    BY <1>3, <2>1, <2>2
<1>11. CASE FindNoActiveJob(c)
  <2>1. PICK r \in Requests : r = requests[c]
    BY <1>2, <1>11 DEF FindNoActiveJob, Transition
  <2>2. /\ accepted' = accepted
        /\ requests' = [requests EXCEPT ![c] = [r EXCEPT !.pc = "insert"]]
    BY <1>11, <2>1 DEF FindNoActiveJob, Transition
  <2>3. [r EXCEPT !.pc = "insert"].pc = "insert"
    BY DEF Requests
  <2> QED
    BY <1>3, <2>2, <2>3
<1>12. CASE EnqueueJob(c)
  <2>1. /\ requests' = [requests EXCEPT ![c] =
             [requests[c] EXCEPT !.job_id = next_job_id, !.pc = "commit"]]
        /\ accepted' = accepted
    BY <1>12 DEF EnqueueJob
  <2>2. PICK r \in Requests : r = requests[c]
    BY <1>2, <1>12 DEF EnqueueJob
  <2>3. [r EXCEPT !.job_id = next_job_id, !.pc = "commit"].pc = "commit"
    BY DEF Requests
  <2> QED
    BY <1>3, <2>1, <2>2, <2>3
<1> QED
  BY <1>5, <1>6, <1>7, <1>8, <1>9, <1>10, <1>11, <1>12 DEF Submit

LEMMA ResponsesInvInit == ASSUME Init PROVE ResponsesInv
BY DEF Init, ApiInit, Answers, ResponsesInv, NoRequest

LEMMA ResponsesInvStep ==
  ASSUME ~RespondFirst, RegistryInv, ResponsesInv, [Next]_vars
  PROVE  ResponsesInv'
<1> USE DEF RegistryInv, QueueInv
<1>1. ASSUME NEW c \in Clients, Submit(c), UNCHANGED worker_vars PROVE ResponsesInv'
  BY <1>1, SubmitResponds
<1>2. ASSUME NEW w \in Workers, Work(w), UNCHANGED api PROVE ResponsesInv'
  <2>1. RowsKept /\ TablesGrow
    BY <1>2, WorkFrame DEF RowsPersist, RowsKept
  <2> QED
    BY <1>2, <2>1, ResponsesPersist DEF api
<1>3. CASE UNCHANGED vars
  BY <1>3 DEF vars, store, api, ResponsesInv, Recorded, Names, conflicts
<1> QED
  BY <1>1, <1>2, <1>3 DEF Next

-----------------------------------------------------------------------------
\* What a 202 told a client stays true when the session is committed before
\* the response is sent: requests, retries, crashes and the other clients do
\* not take it back (post_document, get_db_session).  The run early_response
\* shows that the assumption is needed.
THEOREM AcceptancesAreRecorded ==
  ASSUME ~RespondFirst
  PROVE  Spec => []AcceptedMeansRecorded
<1>1. Init => RegistryInv /\ ResponsesInv
  BY RegistryInvInit, ResponsesInvInit
<1>2. RegistryInv /\ ResponsesInv /\ [Next]_vars => (RegistryInv /\ ResponsesInv)'
  BY RegistryInvStep, ResponsesInvStep
<1>3. RegistryInv /\ ResponsesInv => AcceptedMeansRecorded
  <2> SUFFICES ASSUME RegistryInv, ResponsesInv PROVE AcceptedMeansRecorded
    OBVIOUS
  <2>1. ASSUME NEW c \in Clients, accepted[c] # None
        PROVE  Recorded(accepted[c])
    BY <2>1 DEF ResponsesInv, Answers, RegistryInv, QueueInv, TypeInv, TypeOK,
                ApiTypeOK
  <2> QED
    BY <2>1 DEF AcceptedMeansRecorded, Recorded, Names
<1> QED
  BY <1>1, <1>2, <1>3, PTL DEF Spec

-----------------------------------------------------------------------------
(* Who works on a job                                                      *)

Processing(id) == jobs[id] # None /\ jobs[id].status = "processing"

Active(id) == jobs[id] # None /\ jobs[id].status \in {"pending", "processing"}

\* The exception handler of the worker is about to write a verdict.
Recovers(w, id) == workers[w].pc = "recover" /\ workers[w].job_id = id

-----------------------------------------------------------------------------
(* What a step of a worker does to the status of a job                     *)

\* The job that is held, and its row.
LEMMA HeldStatus ==
  ASSUME RegistryInv, NEW w \in Workers, workers[w].pc \in Working
  PROVE  \E id \in JobIds :
           /\ id = workers[w].job_id
           /\ Owner(w, id)
           /\ jobs[id] # None
           /\ workers[w].pc = "claimed" => jobs[id].status = "pending"
           /\ workers[w].pc \notin {"claimed", "recover"} => Processing(id)
<1>1. /\ workers[w].job_id \in JobIds
      /\ jobs[workers[w].job_id] # None
  BY HeldTypes DEF RegistryInv, QueueInv, Job
<1>2. HeldRow(w)
  BY DEF RegistryInv, QueueInv, ExclusiveClaims
<1> QED
  BY <1>1, <1>2 DEF HeldRow, Owner, Processing

\* The worker's own step changes its own control state.
LEMMA OthersStay ==
  ASSUME RegistryInv, NEW w \in Workers, Work(w)
  PROVE  \A v \in Workers \ {w} : workers'[v] = workers[v]
  BY DEF Work, WorkerStep, WorkerFault, CheckStop, Idle, Claim, CommitClaim, Reject,
     ReadDocument, InsertThread, InsertRaw, DuplicateRaw, TransientError,
     CommitProcessed, CommitAckLost, commit_processed, Recover, RequestStop, Crash,
     Restart, Goto, Return, Raise, RegistryInv, QueueInv, TypeInv, TypeOK,
     WorkerTypeOK

\* Between claim and verdict: the table is as it was.
LEMMA QuietWork ==
  ASSUME RegistryInv, NEW w \in Workers,
         \/ CheckStop(w) \/ Idle(w) \/ Claim(w) \/ Reject(w) \/ ReadDocument(w)
         \/ InsertThread(w) \/ InsertRaw(w) \/ DuplicateRaw(w) \/ TransientError(w)
         \/ RequestStop(w) \/ Restart(w)
  PROVE  /\ jobs' = jobs
         /\ workers[w].pc \in Working =>
              /\ workers'[w].pc \in Working
              /\ workers'[w].job_id = workers[w].job_id
         /\ workers'[w].pc = "recover" =>
              workers[w].pc \in Working \ {"claimed"}
<1>1. workers \in [Workers -> WorkerStates]
  BY DEF RegistryInv, QueueInv, TypeInv, TypeOK, WorkerTypeOK
<1>2. PICK state \in WorkerStates : state = workers[w]
  BY <1>1
<1>3. CASE CheckStop(w) \/ InsertRaw(w)
  <2>1. PICK label \in {"stopped", "claim", "commit"} :
          /\ workers' = [workers EXCEPT ![w] = [state EXCEPT !.pc = label]]
          /\ \/ workers[w].pc = "check"
             \/ workers[w].pc = "insert_raw" /\ label = "commit"
    BY <1>2, <1>3 DEF CheckStop, InsertRaw, Goto, At
  <2>2. /\ [state EXCEPT !.pc = label].pc = label
        /\ [state EXCEPT !.pc = label].job_id = state.job_id
    BY DEF WorkerStates
  <2>3. jobs' = jobs
    BY <1>3 DEF CheckStop, InsertRaw, store
  <2> QED
    BY <1>1, <1>2, <2>1, <2>2, <2>3 DEF Working
<1>4. CASE Idle(w) \/ Restart(w)
  <2>1. workers' = [workers EXCEPT ![w] = AtRest("check")] /\ AtRest("check").pc = "check"
    BY <1>4 DEF Idle, Restart, Return, AtRest
  <2> QED
    BY <1>1, <1>4, <2>1 DEF Idle, Restart, At, Working, store
<1>5. CASE Claim(w)
  BY <1>1, <1>5 DEF Claim, At, Working, AtRest, store
<1>6. CASE Reject(w) \/ DuplicateRaw(w) \/ TransientError(w)
  <2>1. /\ jobs' = jobs
        /\ workers[w].pc \in Working \ {"claimed", "recover"}
        /\ \E error : Raise(w, error)
    BY <1>6 DEF Reject, DuplicateRaw, TransientError, At, Working, store
  <2>2. workers'[w].pc = "recover" /\ workers'[w].job_id = workers[w].job_id
    BY <1>1, <2>1 DEF Raise, AtRest
  <2> QED
    BY <2>1, <2>2 DEF Working
<1>7. CASE ReadDocument(w) \/ InsertThread(w)
  <2>1. PICK flag :
          \/ workers' = [workers EXCEPT ![w] =
               [state EXCEPT !.pc = "insert_thread", !.existing = flag]]
          \/ workers' = [workers EXCEPT ![w] =
               [state EXCEPT !.pc = "insert_raw", !.new_thread = flag]]
    BY <1>2, <1>7 DEF ReadDocument, InsertThread
  <2> DEFINE read == [state EXCEPT !.pc = "insert_thread", !.existing = flag]
             inserted == [state EXCEPT !.pc = "insert_raw", !.new_thread = flag]
  <2>2. /\ read.pc = "insert_thread" /\ read.job_id = state.job_id
        /\ inserted.pc = "insert_raw" /\ inserted.job_id = state.job_id
    BY DEF WorkerStates
  <2>3. workers'[w] = read \/ workers'[w] = inserted
    BY <1>1, <2>1
  <2> HIDE DEF read, inserted
  <2>4. jobs' = jobs
    BY <1>7 DEF ReadDocument, InsertThread, store
  <2> QED
    BY <1>2, <2>2, <2>3, <2>4 DEF Working
<1>8. CASE RequestStop(w)
  BY <1>8 DEF RequestStop, Working, store
<1> QED
  BY <1>3, <1>4, <1>5, <1>6, <1>7, <1>8

\* A job becomes "processing" with a worker, and loses the worker with
\* "processing", unless that dies; it becomes active again only by a
\* recovery, and a recovery finds it inactive only if an acknowledgement of
\* a commit was lost.
LEMMA WorkEffects ==
  ASSUME RegistryInv, NEW w \in Workers, Work(w), NEW id \in JobIds
  PROVE  /\ Processing(id)' => Processing(id) \/ Owner(w, id)'
         /\ Owner(w, id) /\ ~Owner(w, id)' => Crash(w) \/ ~Processing(id)'
         /\ Active(id)' => Active(id) \/ Recovers(w, id)
         /\ Recovers(w, id)' => Active(id) \/ Recovers(w, id)
         /\ Recovers(w, id)' /\ ~Active(id)' =>
              \/ ~Active(id) /\ Recovers(w, id)
              \/ CommitAckLost(w) /\ id = workers[w].job_id
<1>1. jobs \in JobTable /\ workers \in [Workers -> WorkerStates]
  BY DEF RegistryInv, QueueInv, TypeInv, TypeOK, StoreTypeOK, WorkerTypeOK, JobTable
<1>2. CASE \/ CheckStop(w) \/ Idle(w) \/ Claim(w) \/ Reject(w) \/ ReadDocument(w)
           \/ InsertThread(w) \/ InsertRaw(w) \/ DuplicateRaw(w) \/ TransientError(w)
           \/ RequestStop(w) \/ Restart(w)
  <2>1. /\ jobs' = jobs
        /\ workers[w].pc \in Working =>
             /\ workers'[w].pc \in Working
             /\ workers'[w].job_id = workers[w].job_id
        /\ workers'[w].pc = "recover" => workers[w].pc \in Working \ {"claimed"}
    BY <1>2, QuietWork
  <2>2. Owner(w, id) => Owner(w, id)'
    BY <2>1 DEF Owner
  <2>3. Recovers(w, id)' => Active(id) \/ Recovers(w, id)
    BY <2>1, HeldStatus DEF Recovers, Processing, Active
  <2> QED
    BY <2>1, <2>2, <2>3 DEF Processing, Active
<1>3. CASE Crash(w)
  <2>1. jobs' = jobs /\ workers'[w].pc = "down"
    BY <1>1, <1>3 DEF Crash, AtRest, store
  <2> QED
    BY <1>3, <2>1 DEF Processing, Active, Recovers
<1>4. CASE CommitClaim(w)
  <2>1. PICK held \in JobIds : /\ held = workers[w].job_id
                               /\ jobs[held] # None
                               /\ jobs[held].status = "pending"
    BY <1>4, HeldStatus DEF CommitClaim, At, Working
  <2>2. jobs' = claimed_job(held)
    BY <1>4, <2>1 DEF CommitClaim
  <2>3. \A other \in JobIds \ {held} : jobs'[other] = jobs[other]
    BY <1>1, <2>1, <2>2, ClaimLemma
  <2>4. workers'[w].pc = "process" /\ workers'[w].job_id = held
    BY <1>1, <1>4, <2>1 DEF CommitClaim, Goto, WorkerStates
  <2>5. Owner(w, held)' /\ ~Recovers(w, id)'
    BY <2>4 DEF Owner, Working, Recovers
  <2>6. Owner(w, id) => id = held
    BY <2>1 DEF Owner
  <2> QED
    BY <2>1, <2>3, <2>5, <2>6 DEF Processing, Active
<1>5. ASSUME NEW held \in JobIds, held = workers[w].job_id, jobs[held] # None,
             NEW status \in Statuses \ {"processing"}, NEW error \in Errors \cup {None},
             jobs' = with_verdict(held, status, error)
      PROVE  /\ ~Processing(held)' /\ (Active(held)' => status = "pending")
             /\ \A other \in JobIds \ {held} : jobs'[other] = jobs[other]
  BY <1>1, <1>5, VerdictLemma DEF Processing, Active
<1>6. ASSUME NEW held \in JobIds, held = workers[w].job_id, ~Processing(held)',
             \A other \in JobIds \ {held} : jobs'[other] = jobs[other],
             Active(held)' => Recovers(w, held),
             workers'[w].pc = "check"
      PROVE  /\ Processing(id)' => Processing(id)
             /\ Owner(w, id) => ~Processing(id)'
             /\ Active(id)' => Active(id) \/ Recovers(w, id)
             /\ ~Recovers(w, id)'
  BY <1>6 DEF Processing, Active, Owner, Recovers
<1>7. CASE CommitProcessed(w)
  <2>1. PICK held \in JobIds : held = workers[w].job_id /\ jobs[held] # None
    BY <1>7, HeldStatus DEF CommitProcessed, At, Working
  <2>2. jobs' = with_verdict(held, "completed", None)
    BY <1>7, <2>1 DEF CommitProcessed, commit_processed, complete_job
  <2>3. workers'[w].pc = "check"
    BY <1>1, <1>7 DEF CommitProcessed, Return, AtRest
  <2> QED
    BY <1>5, <1>6, <2>1, <2>2, <2>3 DEF Statuses
<1>8. CASE Recover(w)
  <2>1. PICK held \in JobIds : held = workers[w].job_id /\ jobs[held] # None
    BY <1>8, HeldStatus DEF Recover, At, Working
  <2>2. PICK status \in {"failed", "pending"} :
          jobs' = with_verdict(held, status, workers[w].error)
    BY <1>8, <2>1 DEF Recover, fail_job, requeue_job
  <2>3. workers[w].error \in Errors \cup {None}
    BY <1>1 DEF WorkerStates
  <2>4. workers'[w].pc = "check" /\ Recovers(w, held)
    BY <1>1, <1>8, <2>1 DEF Recover, Return, AtRest, At, Recovers
  <2> QED
    BY <1>5, <1>6, <2>1, <2>2, <2>3, <2>4 DEF Statuses
<1>9. CASE CommitAckLost(w)
  <2>1. PICK held \in JobIds : /\ held = workers[w].job_id
                               /\ jobs[held] # None
                               /\ Processing(held)
    BY <1>9, HeldStatus DEF CommitAckLost, At, Working
  <2>2. jobs' = with_verdict(held, "completed", None)
    BY <1>9, <2>1 DEF CommitAckLost, commit_processed, complete_job
  <2>3. workers'[w].pc = "recover" /\ workers'[w].job_id = held
    BY <1>1, <1>9, <2>1 DEF CommitAckLost, Raise, AtRest
  <2>4. /\ ~Active(held)'
        /\ \A other \in JobIds \ {held} : jobs'[other] = jobs[other]
    BY <1>5, <2>1, <2>2 DEF Statuses
  <2>5. Active(held) /\ ~Processing(held)'
    BY <2>1, <2>4 DEF Processing, Active
  <2>6. Recovers(w, id)' => id = held
    BY <2>3 DEF Recovers
  <2>7. Owner(w, id) => id = held
    BY <2>1 DEF Owner
  <2> QED
    BY <1>9, <2>1, <2>4, <2>5, <2>6, <2>7 DEF Processing, Active
<1> QED
  BY <1>2, <1>3, <1>4, <1>7, <1>8, <1>9 DEF Work, WorkerStep, WorkerFault

\* Crashes and lost acknowledgements are counted, nothing else is.
LEMMA FaultCounts ==
  ASSUME RegistryInv, NEW w \in Workers, Work(w)
  PROVE  /\ faults'.crashes \in Nat /\ faults'.lost_acks \in Nat
         /\ faults.crashes \in Nat /\ faults.lost_acks \in Nat
         /\ faults'.crashes >= faults.crashes
         /\ faults'.lost_acks >= faults.lost_acks
         /\ Crash(w) => faults'.crashes = faults.crashes + 1
         /\ CommitAckLost(w) => faults'.lost_acks = faults.lost_acks + 1
<1>1. faults \in [crashes : 0 .. MaxCrashes, stops : 0 .. MaxStops,
                  lost_acks : 0 .. MaxLostAcks]
  BY DEF RegistryInv, QueueInv, TypeInv, TypeOK, WorkerTypeOK
<1>2. PICK f \in [crashes : Nat, stops : Nat, lost_acks : Nat] : f = faults
  BY <1>1, WorkerAssumption
<1>3. CASE UNCHANGED faults
  BY <1>2, <1>3 DEF Crash, CommitAckLost
<1>4. CASE Crash(w) \/ CommitAckLost(w) \/ RequestStop(w)
  BY <1>2, <1>4 DEF Crash, CommitAckLost, RequestStop, At
<1> QED
  BY <1>3, <1>4 DEF Work, WorkerStep, WorkerFault, CheckStop, Idle, Claim, CommitClaim,
     Reject, ReadDocument, InsertThread, InsertRaw, DuplicateRaw, TransientError,
     CommitProcessed, Recover, Restart

\* A submission touches no worker, and adds at most a pending job.
LEMMA SubmitEffects ==
  ASSUME RegistryInv, NEW c \in Clients, Submit(c), UNCHANGED worker_vars
  PROVE  /\ workers' = workers /\ faults' = faults
         /\ \A id \in JobIds :
              \/ jobs'[id] = jobs[id]
              \/ (jobs[id] = None /\ jobs'[id].status = "pending")
BY SubmitFrame DEF RowsExtend, RegistryInv, QueueInv, worker_vars

LEMMA JobIdsFinite == IsFiniteSet(JobIds)
BY StoreAssumption, FS_Interval DEF JobIds

LEMMA AddOne ==
  ASSUME NEW S, IsFiniteSet(S), NEW x
  PROVE  /\ IsFiniteSet(S \cup {x})
         /\ Cardinality(S \cup {x}) \in Nat
         /\ Cardinality(S \cup {x}) <= Cardinality(S) + 1
<1>1. Cardinality(S) \in Nat
  BY FS_CardinalityType
<1>2. IsFiniteSet(S \cup {x})
  BY FS_AddElement
<1>3. Cardinality(S \cup {x}) = Cardinality(S) \/ Cardinality(S \cup {x}) = Cardinality(S) + 1
  BY FS_AddElement
<1> QED
  BY <1>1, <1>2, <1>3

-----------------------------------------------------------------------------
(* Orphans                                                                 *)

OrphansInv == OrphansNeedCrashes /\ faults.crashes \in Nat

LEMMA OrphansInvStep ==
  ASSUME RegistryInv, OrphansInv, [Next]_vars
  PROVE  OrphansInv'
<1>1. IsFiniteSet(Orphans) /\ Cardinality(Orphans) \in Nat
  BY JobIdsFinite, FS_Subset, FS_CardinalityType DEF Orphans, JobsWith
<1>2. ASSUME NEW S, IsFiniteSet(S), Orphans' \subseteq S,
             Cardinality(S) <= faults'.crashes, faults'.crashes \in Nat
      PROVE  OrphansInv'
  <2>1. /\ Cardinality(Orphans') <= Cardinality(S)
        /\ Cardinality(Orphans') \in Nat /\ Cardinality(S) \in Nat
    BY <1>2, FS_Subset, FS_CardinalityType
  <2> QED
    BY <1>2, <2>1 DEF OrphansInv, OrphansNeedCrashes
<1>3. CASE UNCHANGED vars
  BY <1>3 DEF vars, store, worker_vars, OrphansInv, OrphansNeedCrashes, Orphans,
              JobsWith, Owner
<1>4. ASSUME NEW c \in Clients, Submit(c), UNCHANGED worker_vars PROVE OrphansInv'
  <2>1. Orphans' \subseteq Orphans
    BY <1>4, SubmitEffects DEF Orphans, JobsWith, Owner
  <2>2. faults' = faults
    BY <1>4, SubmitEffects
  <2> QED
    BY <1>1, <1>2, <2>1, <2>2 DEF OrphansInv, OrphansNeedCrashes
<1>5. ASSUME NEW w \in Workers, Work(w) PROVE OrphansInv'
  <2>1. ASSUME NEW id \in Orphans'
        PROVE  id \in Orphans \/ (Crash(w) /\ id = workers[w].job_id)
    <3>1. /\ id \in JobIds /\ Processing(id)'
          /\ \A v \in Workers : ~Owner(v, id)'
      BY <2>1 DEF Orphans, JobsWith, Processing
    <3>2. Processing(id)
      BY <1>5, <3>1, WorkEffects
    <3>3. \A v \in Workers \ {w} : ~Owner(v, id)
      BY <1>5, <3>1, OthersStay DEF Owner
    <3>4. Owner(w, id) => Crash(w) /\ id = workers[w].job_id
      BY <1>5, <3>1, WorkEffects DEF Owner
    <3> QED
      BY <3>1, <3>2, <3>3, <3>4 DEF Orphans, JobsWith, Processing
  <2>2. CASE ~Crash(w)
    <3>1. Orphans' \subseteq Orphans
      BY <2>1, <2>2
    <3>2. Cardinality(Orphans) <= faults'.crashes /\ faults'.crashes \in Nat
      BY <1>1, <1>5, FaultCounts DEF OrphansInv, OrphansNeedCrashes
    <3> QED
      BY <1>1, <1>2, <3>1, <3>2
  <2>3. CASE Crash(w)
    <3> DEFINE S == Orphans \cup {workers[w].job_id}
    <3>1. Orphans' \subseteq S
      BY <2>1
    <3>2. IsFiniteSet(S) /\ Cardinality(S) <= Cardinality(Orphans) + 1
      BY <1>1, AddOne
    <3>3. Cardinality(S) <= faults'.crashes /\ faults'.crashes \in Nat
      <4>1. Cardinality(S) \in Nat
        BY <3>2, FS_CardinalityType
      <4> QED
        BY <1>1, <1>5, <2>3, <3>2, <4>1, FaultCounts DEF OrphansInv, OrphansNeedCrashes
    <3> HIDE DEF S
    <3> QED
      BY <1>2, <3>1, <3>2, <3>3
  <2> QED
    BY <2>2, <2>3
<1> QED
  BY <1>3, <1>4, <1>5 DEF Next

\* However many workers, clients and faults: the jobs that stay "processing"
\* without a worker are no more than the worker processes that died; an
\* exception, a retry, a lost acknowledgement or SIGTERM leaves none
\* (process_next_job, run_worker_loop).
THEOREM OrphansAreCrashes == Spec => []OrphansNeedCrashes
<1>1. Init => RegistryInv /\ OrphansInv
  <2> SUFFICES ASSUME Init PROVE OrphansInv
    BY RegistryInvInit
  <2>1. Orphans = {} /\ faults.crashes = 0
    BY DEF Init, StoreInit, WorkerInit, Orphans, JobsWith
  <2> QED
    BY <2>1, FS_EmptySet DEF OrphansInv, OrphansNeedCrashes
<1>2. RegistryInv /\ OrphansInv /\ [Next]_vars => (RegistryInv /\ OrphansInv)'
  BY RegistryInvStep, OrphansInvStep
<1>3. OrphansInv => OrphansNeedCrashes
  BY DEF OrphansInv
<1> QED
  BY <1>1, <1>2, <1>3, PTL DEF Spec

-----------------------------------------------------------------------------
(* Duplicates                                                              *)

\* Jobs for this document and content that are active or may become active
\* again.
Open(d, p) ==
  {id \in JobIds :
     /\ jobs[id] # None /\ jobs[id].document_id = d /\ jobs[id].payload = p
     /\ Active(id) \/ \E w \in Workers : Recovers(w, id)}

\* Jobs that are done, while the worker that did them takes them for failed.
Mistaken ==
  {id \in JobIds : ~Active(id) /\ \E w \in Workers : Recovers(w, id)}

\* A submission has seen no active job and has not committed its own.
Enqueuing(c) ==
  \/ requests[c].pc \in {"insert", "commit"}
  \/ RespondFirst /\ requests[c].pc = "respond"

Submitting(d, p) ==
  {c \in Clients : /\ Enqueuing(c)
                   /\ requests[c].document_id = d
                   /\ requests[c].payload = p}

\* What is open and what is about to be, together.
DuplicatesInv ==
  /\ Cardinality(Mistaken) <= faults.lost_acks
  /\ \A d \in Documents, p \in Payloads :
       Cardinality(Open(d, p)) + Cardinality(Submitting(d, p))
         <= Cardinality(Clients) + faults.lost_acks

LEMMA DuplicatesFinite ==
  ASSUME IsFiniteSet(Clients), NEW d, NEW p
  PROVE  /\ IsFiniteSet(Open(d, p)) /\ Cardinality(Open(d, p)) \in Nat
         /\ IsFiniteSet(Submitting(d, p)) /\ Cardinality(Submitting(d, p)) \in Nat
         /\ IsFiniteSet(Mistaken) /\ Cardinality(Mistaken) \in Nat
         /\ Cardinality(Clients) \in Nat
<1>1. /\ Open(d, p) \in SUBSET JobIds
      /\ Submitting(d, p) \in SUBSET Clients
      /\ Mistaken \in SUBSET JobIds
  BY DEF Open, Submitting, Mistaken
<1>2. /\ IsFiniteSet(Open(d, p))
      /\ IsFiniteSet(Submitting(d, p))
      /\ IsFiniteSet(Mistaken)
  BY <1>1, JobIdsFinite, FS_Subset
<1> QED
  BY <1>2, FS_CardinalityType

\* The work of a worker opens nothing, and mistakes a job only with an
\* acknowledgement that is lost.
LEMMA WorkDuplicates ==
  ASSUME IsFiniteSet(Clients), RegistryInv, DuplicatesInv,
         NEW w \in Workers, Work(w), UNCHANGED api
  PROVE  DuplicatesInv'
<1>1. /\ RowsPersist
      /\ \A id \in JobIds : jobs'[id] = jobs[id] \/ Owner(w, id)
      /\ \A v \in Workers \ {w} : workers'[v] = workers[v]
  BY WorkFrame, OthersStay
<1>2. ASSUME NEW d \in Documents, NEW p \in Payloads
      PROVE  Open(d, p)' \subseteq Open(d, p)
  <2> SUFFICES ASSUME NEW id \in Open(d, p)' PROVE id \in Open(d, p)
    OBVIOUS
  <2>1. /\ id \in JobIds
        /\ jobs'[id] # None /\ jobs'[id].document_id = d /\ jobs'[id].payload = p
        /\ Active(id)' \/ \E v \in Workers : Recovers(v, id)'
    BY DEF Open
  <2>2. jobs[id] # None /\ jobs[id].document_id = d /\ jobs[id].payload = p
    BY <1>1, <2>1 DEF RowsPersist
  <2>3. Active(id) \/ \E v \in Workers : Recovers(v, id)
    BY <1>1, <2>1, WorkEffects DEF Recovers
  <2> QED
    BY <2>1, <2>2, <2>3 DEF Open
<1>3. ASSUME NEW id \in Mistaken'
      PROVE  id \in Mistaken \/ (CommitAckLost(w) /\ id = workers[w].job_id)
  <2>1. PICK v \in Workers : Recovers(v, id)'
    BY DEF Mistaken
  <2>2. id \in JobIds /\ ~Active(id)'
    BY DEF Mistaken
  <2>3. CASE v = w
    BY <2>1, <2>2, <2>3, WorkEffects DEF Mistaken
  <2>4. CASE v # w
    <3>1. Recovers(v, id) /\ Owner(v, id)
      BY <1>1, <2>1, <2>4 DEF Recovers, Owner, Working
    <3>2. ~Owner(w, id)
      BY <2>4, <3>1 DEF RegistryInv, QueueInv, ExclusiveClaims, Owner
    <3>3. ~Active(id)
      BY <1>1, <2>2, <3>2 DEF Active
    <3> QED
      BY <2>2, <3>1, <3>3 DEF Mistaken
  <2> QED
    BY <2>3, <2>4
<1>4. /\ faults.lost_acks \in Nat /\ faults'.lost_acks \in Nat
      /\ faults'.lost_acks >= faults.lost_acks
      /\ CommitAckLost(w) => faults'.lost_acks = faults.lost_acks + 1
  BY FaultCounts
<1>5. /\ IsFiniteSet(Mistaken) /\ Cardinality(Mistaken) \in Nat
      /\ IsFiniteSet(Mistaken') /\ Cardinality(Mistaken') \in Nat
  <2>1. Mistaken \in SUBSET JobIds /\ Mistaken' \in SUBSET JobIds
    BY DEF Mistaken
  <2> QED
    BY <2>1, JobIdsFinite, FS_Subset, FS_CardinalityType
<1>6. Cardinality(Mistaken') <= faults'.lost_acks
  <2>1. CASE ~CommitAckLost(w)
    <3>1. Mistaken' \subseteq Mistaken
      BY <1>3, <2>1
    <3>2. Cardinality(Mistaken') <= Cardinality(Mistaken)
      BY <1>5, <3>1, FS_Subset
    <3> QED
      BY <1>4, <1>5, <3>2 DEF DuplicatesInv
  <2>2. CASE CommitAckLost(w)
    <3> DEFINE S == Mistaken \cup {workers[w].job_id}
    <3>1. Mistaken' \subseteq S
      BY <1>3
    <3>2. /\ IsFiniteSet(S) /\ Cardinality(S) \in Nat
          /\ Cardinality(S) <= Cardinality(Mistaken) + 1
      BY <1>5, AddOne
    <3> HIDE DEF S
    <3>3. Cardinality(Mistaken') <= Cardinality(S)
      BY <3>1, <3>2, FS_Subset
    <3> QED
      BY <1>4, <1>5, <2>2, <3>2, <3>3 DEF DuplicatesInv
  <2> QED
    BY <2>1, <2>2
<1>7. ASSUME NEW d \in Documents, NEW p \in Payloads
      PROVE  Cardinality(Open(d, p)') + Cardinality(Submitting(d, p)')
               <= Cardinality(Clients) + faults'.lost_acks
  <2>1. Submitting(d, p)' = Submitting(d, p)
    BY DEF api, Submitting, Enqueuing
  <2>2. /\ IsFiniteSet(Open(d, p)) /\ Cardinality(Open(d, p)) \in Nat
        /\ Cardinality(Submitting(d, p)) \in Nat /\ Cardinality(Clients) \in Nat
    BY DuplicatesFinite
  <2>3. /\ Cardinality(Open(d, p)') <= Cardinality(Open(d, p))
        /\ Cardinality(Open(d, p)') \in Nat
    BY <1>2, <2>2, FS_Subset, FS_CardinalityType
  <2>4. Cardinality(Open(d, p)) + Cardinality(Submitting(d, p))
          <= Cardinality(Clients) + faults.lost_acks
    BY DEF DuplicatesInv
  <2> QED
    BY <1>4, <2>1, <2>2, <2>3, <2>4
<1> QED
  BY <1>6, <1>7 DEF DuplicatesInv

\* A step of a submission, as far as one document and content are concerned.
LEMMA SubmitCounts ==
  ASSUME IsFiniteSet(Clients), DuplicatesInv, faults.lost_acks \in Nat,
         faults' = faults, NEW d \in Documents, NEW p \in Payloads,
         \/ Open(d, p)' \subseteq Open(d, p) /\ Submitting(d, p)' \subseteq Submitting(d, p)
         \/ Open(d, p)' \subseteq Mistaken
         \/ \E id, c : /\ Open(d, p)' \subseteq Open(d, p) \cup {id}
                       /\ c \in Submitting(d, p)
                       /\ Submitting(d, p)' \subseteq Submitting(d, p) \ {c}
  PROVE  Cardinality(Open(d, p)') + Cardinality(Submitting(d, p)')
           <= Cardinality(Clients) + faults'.lost_acks
<1>1. /\ IsFiniteSet(Open(d, p)) /\ Cardinality(Open(d, p)) \in Nat
      /\ IsFiniteSet(Submitting(d, p)) /\ Cardinality(Submitting(d, p)) \in Nat
      /\ IsFiniteSet(Mistaken) /\ Cardinality(Mistaken) \in Nat
      /\ Cardinality(Clients) \in Nat
  BY DuplicatesFinite
<1>2. /\ Open(d, p)' \in SUBSET JobIds
      /\ Submitting(d, p)' \in SUBSET Clients
  BY DEF Open, Submitting
<1>3. /\ Cardinality(Open(d, p)') \in Nat
      /\ Cardinality(Submitting(d, p)') \in Nat
      /\ Cardinality(Submitting(d, p)') <= Cardinality(Clients)
  BY <1>2, JobIdsFinite, FS_Subset, FS_CardinalityType
<1>4. /\ Cardinality(Mistaken) <= faults.lost_acks
      /\ Cardinality(Open(d, p)) + Cardinality(Submitting(d, p))
           <= Cardinality(Clients) + faults.lost_acks
  BY DEF DuplicatesInv
<1>5. CASE Open(d, p)' \subseteq Open(d, p) /\ Submitting(d, p)' \subseteq Submitting(d, p)
  <2>1. /\ Cardinality(Open(d, p)') <= Cardinality(Open(d, p))
        /\ Cardinality(Submitting(d, p)') <= Cardinality(Submitting(d, p))
    BY <1>1, <1>5, FS_Subset
  <2> QED
    BY <1>1, <1>3, <1>4, <2>1
<1>6. CASE Open(d, p)' \subseteq Mistaken
  <2>1. Cardinality(Open(d, p)') <= Cardinality(Mistaken)
    BY <1>1, <1>6, FS_Subset
  <2> QED
    BY <1>1, <1>3, <1>4, <2>1
<1>7. ASSUME NEW id, NEW c \in Submitting(d, p),
             Open(d, p)' \subseteq Open(d, p) \cup {id},
             Submitting(d, p)' \subseteq Submitting(d, p) \ {c}
      PROVE  Cardinality(Open(d, p)') + Cardinality(Submitting(d, p)')
               <= Cardinality(Clients) + faults'.lost_acks
  <2>1. PICK S : S = Open(d, p) \cup {id}
    OBVIOUS
  <2>2. PICK T : T = Submitting(d, p) \ {c}
    OBVIOUS
  <2>3. /\ IsFiniteSet(S) /\ Cardinality(S) \in Nat
        /\ Cardinality(S) <= Cardinality(Open(d, p)) + 1
    BY <1>1, <2>1, AddOne
  <2>4. IsFiniteSet(T) /\ Cardinality(T) = Cardinality(Submitting(d, p)) - 1
    BY <1>1, <1>7, <2>2, FS_RemoveElement
  <2>5. /\ Cardinality(Open(d, p)') <= Cardinality(S)
        /\ Cardinality(Submitting(d, p)') <= Cardinality(T)
    BY <1>7, <2>1, <2>2, <2>3, <2>4, FS_Subset
  <2> QED
    BY <1>1, <1>3, <1>4, <2>3, <2>4, <2>5
<1> QED
  BY <1>5, <1>6, <1>7

\* A submission opens a job only for the client that has seen none active,
\* or for the one that was counted before.
LEMMA SubmitDuplicates ==
  ASSUME IsFiniteSet(Clients), RegistryInv, DuplicatesInv,
         NEW c \in Clients, Submit(c), UNCHANGED worker_vars
  PROVE  DuplicatesInv'
<1>1. /\ workers' = workers /\ faults' = faults
      /\ \A id \in JobIds : \/ jobs'[id] = jobs[id]
                            \/ (jobs[id] = None /\ jobs'[id].status = "pending")
  BY SubmitEffects
<1>2. faults.lost_acks \in Nat
  BY WorkerAssumption DEF RegistryInv, QueueInv, TypeInv, TypeOK, WorkerTypeOK
<1>3. /\ requests \in [Clients -> Requests \cup {NoRequest}]
      /\ NoRequest.pc = "idle"
      /\ jobs \in JobTable
  BY DEF RegistryInv, QueueInv, TypeInv, TypeOK, StoreTypeOK, ApiTypeOK, NoRequest, JobTable
<1>4. Mistaken' \subseteq Mistaken
  <2> SUFFICES ASSUME NEW id \in JobIds, ~Active(id)',
                      NEW w \in Workers, Recovers(w, id)'
               PROVE  id \in Mistaken
    BY DEF Mistaken
  <2>1. Recovers(w, id)
    BY <1>1 DEF Recovers
  <2>2. jobs[id] # None
    BY <2>1 DEF Recovers, Working, RegistryInv, QueueInv, ExclusiveClaims
  <2>3. ~Active(id)
    BY <1>1, <2>2 DEF Active
  <2> QED
    BY <2>1, <2>3 DEF Mistaken
<1>5. Cardinality(Mistaken') <= faults'.lost_acks
  <2>1. Mistaken \in SUBSET JobIds /\ Mistaken' \in SUBSET JobIds
    BY DEF Mistaken
  <2>2. /\ IsFiniteSet(Mistaken) /\ Cardinality(Mistaken) \in Nat
        /\ Cardinality(Mistaken') \in Nat
    BY <2>1, JobIdsFinite, FS_Subset, FS_CardinalityType
  <2>3. Cardinality(Mistaken') <= Cardinality(Mistaken)
    BY <1>4, <2>2, FS_Subset
  <2> QED
    BY <1>1, <1>2, <2>2, <2>3 DEF DuplicatesInv
<1>6. SUFFICES ASSUME NEW d \in Documents, NEW p \in Payloads
               PROVE  Cardinality(Open(d, p)') + Cardinality(Submitting(d, p)')
                        <= Cardinality(Clients) + faults'.lost_acks
  BY <1>5 DEF DuplicatesInv
<1>7. ASSUME jobs' = jobs PROVE Open(d, p)' = Open(d, p)
  BY <1>1, <1>7 DEF Open, Active, Recovers
<1>8. ASSUME jobs' = jobs, \A b \in Clients \ {c} : requests'[b] = requests[b],
             c \in Submitting(d, p)' => c \in Submitting(d, p)
      PROVE  Cardinality(Open(d, p)') + Cardinality(Submitting(d, p)')
               <= Cardinality(Clients) + faults'.lost_acks
  <2>1. Submitting(d, p)' \subseteq Submitting(d, p)
    BY <1>8 DEF Submitting, Enqueuing
  <2> QED
    BY <1>1, <1>2, <1>7, <1>8, <2>1, SubmitCounts
<1>9. CASE \E e \in Documents, q \in Payloads :
             RejectConflict(c, e, q) \/ AcceptCompleted(c, e, q)
  BY <1>8, <1>9 DEF RejectConflict, AcceptCompleted, store, api, Submitting, Enqueuing
<1>10. CASE \E e \in Documents, q \in Payloads : ReadNoDocument(c, e, q)
  <2>1. /\ jobs' = jobs
        /\ \A b \in Clients \ {c} : requests'[b] = requests[b]
        /\ requests'[c].pc = "lookup"
    BY <1>3, <1>10 DEF ReadNoDocument, store
  <2> QED
    BY <1>8, <2>1 DEF Submitting, Enqueuing
<1>11. ASSUME requests[c] \in Requests,
              \/ ReuseActiveJob(c) \/ AbortRequest(c)
              \/ EnqueueJob(c) \/ Respond(c)
       PROVE  Cardinality(Open(d, p)') + Cardinality(Submitting(d, p)')
                <= Cardinality(Clients) + faults'.lost_acks
  <2>1. /\ jobs' = jobs
        /\ \A b \in Clients \ {c} : requests'[b] = requests[b]
    BY <1>3, <1>11 DEF ReuseActiveJob, AbortRequest, EnqueueJob, Respond, store
  <2>2. PICK r \in Requests : r = requests[c]
    BY <1>11
  <2>3. \/ requests'[c] = NoRequest
        \/ r.pc = "insert" /\ \E to \in {"respond", "commit"} :
             requests'[c] = [r EXCEPT !.job_id = next_job_id, !.pc = to]
        \/ /\ r.pc = "respond" /\ RespondFirst
           /\ requests'[c] = [r EXCEPT !.pc = "commit"]
    BY <1>3, <1>11, <2>2 DEF ReuseActiveJob, AbortRequest, EnqueueJob, Respond
  <2>4. \/ requests'[c].pc = "idle"
        \/ /\ Enqueuing(c)
           /\ requests'[c].document_id = r.document_id
           /\ requests'[c].payload = r.payload
    BY <1>3, <2>2, <2>3 DEF Enqueuing, Requests
  <2> QED
    BY <1>8, <2>1, <2>2, <2>4 DEF Submitting, Enqueuing
<1>12. CASE FindNoActiveJob(c)
  <2>1. PICK r \in Requests : r = requests[c]
    BY <1>3, <1>12 DEF FindNoActiveJob, Transition
  <2>2. /\ jobs' = jobs
        /\ active_jobs(r.document_id, r.payload) = {}
        /\ requests' = [requests EXCEPT ![c] = [r EXCEPT !.pc = "insert"]]
    BY <1>12, <2>1 DEF FindNoActiveJob, Transition, store
  <2>3. CASE r.document_id = d /\ r.payload = p
    <3>1. Open(d, p)' \subseteq Mistaken
      BY <1>7, <2>2, <2>3 DEF Open, Active, Mistaken, active_jobs, JobsWith
    <3> QED
      BY <1>1, <1>2, <3>1, SubmitCounts
  <2>4. CASE ~(r.document_id = d /\ r.payload = p)
    <3>1. /\ requests'[c].document_id = r.document_id
          /\ requests'[c].payload = r.payload
      BY <1>3, <2>2 DEF Requests
    <3>2. \A b \in Clients \ {c} : requests'[b] = requests[b]
      BY <1>3, <2>2
    <3> QED
      BY <1>8, <2>2, <2>4, <3>1, <3>2 DEF Submitting
  <2> QED
    BY <2>3, <2>4
<1>13. CASE CommitJob(c)
  <2>1. PICK r \in Requests : r = requests[c] /\ r.pc = "commit"
    BY <1>3, <1>13 DEF CommitJob
  <2>2. r.job_id \in JobIds
    BY <2>1 DEF RegistryInv, QueueInv, TypeInv, ReservedIds
  <2>3. /\ \A b \in Clients \ {c} : requests'[b] = requests[b]
        /\ \/ requests'[c].pc = "idle"
           \/ ~RespondFirst /\ requests'[c].pc = "respond"
    <3>1. \/ requests' = [requests EXCEPT ![c] = NoRequest]
          \/ /\ ~RespondFirst
             /\ requests' = [requests EXCEPT ![c] = [r EXCEPT !.pc = "respond"]]
      BY <1>13, <2>1 DEF CommitJob
    <3>2. [r EXCEPT !.pc = "respond"].pc = "respond"
      BY DEF Requests
    <3> QED
      BY <1>3, <3>1, <3>2
  <2>4. /\ jobs'[r.job_id] = enqueue_job(r.document_id, r.payload)
        /\ \A id \in JobIds \ {r.job_id} : jobs'[id] = jobs[id]
    BY <1>3, <1>13, <2>1, <2>2 DEF CommitJob, JobTable
  <2>5. Submitting(d, p)' \subseteq Submitting(d, p) \ {c}
    BY <1>3, <2>3 DEF Submitting, Enqueuing
  <2>6. \A id \in JobIds \ {r.job_id} : id \in Open(d, p)' => id \in Open(d, p)
    BY <1>1, <2>4 DEF Open, Active, Recovers
  <2>7. CASE r.document_id = d /\ r.payload = p
    <3>1. c \in Submitting(d, p)
      BY <2>1, <2>7 DEF Submitting, Enqueuing
    <3>2. Open(d, p)' \subseteq Open(d, p) \cup {r.job_id}
      BY <2>6 DEF Open
    <3> QED
      BY <1>1, <1>2, <2>5, <3>1, <3>2, SubmitCounts
  <2>8. CASE ~(r.document_id = d /\ r.payload = p)
    <3>1. r.job_id \notin Open(d, p)'
      BY <2>4, <2>8 DEF Open, enqueue_job
    <3>2. Open(d, p)' \subseteq Open(d, p)
      BY <2>6, <3>1 DEF Open
    <3> QED
      BY <1>1, <1>2, <2>5, <3>2, SubmitCounts
  <2> QED
    BY <2>7, <2>8
<1>14. requests[c] # NoRequest => requests[c] \in Requests
  BY <1>3
<1> QED
  BY <1>3, <1>9, <1>10, <1>11, <1>12, <1>13, <1>14
     DEF Submit, ReuseActiveJob, AbortRequest, EnqueueJob, Respond

\* Without lost acknowledgements no more jobs are active for one document and
\* content than clients submit at a time, however often they do, and whatever
\* the workers retry; each lost acknowledgement allows for one more
\* (submit_document reads and inserts in two statements).
THEOREM DuplicatesAreBounded ==
  ASSUME IsFiniteSet(Clients)
  PROVE  Spec => []DuplicatesBounded
<1>1. Init => RegistryInv /\ DuplicatesInv
  <2> SUFFICES ASSUME Init PROVE DuplicatesInv
    BY RegistryInvInit
  <2>1. /\ Mistaken = {} /\ faults.lost_acks = 0
        /\ \A d, p : Open(d, p) = {} /\ Submitting(d, p) = {}
    BY DEF Init, StoreInit, ApiInit, WorkerInit, AtRest, NoRequest, Mistaken, Open,
           Submitting, Recovers, Enqueuing
  <2>2. Cardinality(Clients) \in Nat
    BY FS_CardinalityType
  <2> QED
    BY <2>1, <2>2, FS_EmptySet DEF DuplicatesInv
<1>2. RegistryInv /\ DuplicatesInv /\ [Next]_vars => (RegistryInv /\ DuplicatesInv)'
  <2> SUFFICES ASSUME RegistryInv, DuplicatesInv, [Next]_vars PROVE DuplicatesInv'
    BY RegistryInvStep
  <2>1. CASE UNCHANGED vars
    BY <2>1 DEF vars, store, api, worker_vars, DuplicatesInv, Mistaken, Open, Submitting,
                Active, Recovers, Enqueuing
  <2> QED
    BY <2>1, SubmitDuplicates, WorkDuplicates DEF Next
<1>3. RegistryInv /\ DuplicatesInv => DuplicatesBounded
  <2> SUFFICES ASSUME RegistryInv, DuplicatesInv, NEW d \in Documents, NEW p \in Payloads
               PROVE  Cardinality(ActiveJobs(d, p))
                        <= Cardinality(Clients) + faults.lost_acks
    BY DEF DuplicatesBounded
  <2>1. ActiveJobs(d, p) \in SUBSET Open(d, p)
    BY DEF ActiveJobs, JobsWith, Open, Active
  <2>2. /\ IsFiniteSet(Open(d, p)) /\ Cardinality(Open(d, p)) \in Nat
        /\ Cardinality(Submitting(d, p)) \in Nat /\ Cardinality(Clients) \in Nat
    BY DuplicatesFinite
  <2>3. /\ Cardinality(ActiveJobs(d, p)) <= Cardinality(Open(d, p))
        /\ Cardinality(ActiveJobs(d, p)) \in Nat
    BY <2>1, <2>2, FS_Subset, FS_CardinalityType
  <2>4. faults.lost_acks \in Nat
    BY WorkerAssumption DEF RegistryInv, QueueInv, TypeInv, TypeOK, WorkerTypeOK
  <2> QED
    BY <2>2, <2>3, <2>4 DEF DuplicatesInv
<1> QED
  BY <1>1, <1>2, <1>3, PTL DEF Spec
=============================================================================
