----------------------------- MODULE SubmitApi -----------------------------
(***************************************************************************)
(* POST /documents (api/app.py post_document, api/deps.py get_db_session,  *)
(* db/repository.py submit_document).  Each client has at most one request *)
(* in flight; a request is one transaction whose statements are separate   *)
(* steps.                                                                  *)
(*                                                                         *)
(* The session is committed by the code after the `yield' of               *)
(* get_db_session.  FastAPI before 0.118 runs that code before it sends    *)
(* the response, later versions after it; pyproject.toml allows both, and  *)
(* RespondFirst says which one is installed.                               *)
(***************************************************************************)
EXTENDS IngestionStore

CONSTANTS
  Clients,      \* concurrent submitters (the loader, users)
  RespondFirst  \* the 202 leaves before the commit

ASSUME ApiAssumption == RespondFirst \in BOOLEAN

VARIABLES
  requests,  \* the request each client has in flight
  accepted   \* what the last 202 response that reached a client said

api == <<requests, accepted>>

NoRequest == [pc |-> "idle", document_id |-> None, payload |-> None,
              job_id |-> None]

Requests ==
  [pc : {"lookup", "insert", "commit", "respond"}, document_id : Documents,
   payload : Payloads, job_id : JobIds \cup {None}]

Acceptances ==
  [document_id : Documents, payload : Payloads,
   job_id : JobIds \cup {None}, canonical_id : CanonicalIds \cup {None}]

ApiTypeOK ==
  /\ requests \in [Clients -> Requests \cup {NoRequest}]
  /\ accepted \in [Clients -> Acceptances \cup {None}]

ApiInit ==
  /\ requests = [c \in Clients |-> NoRequest]
  /\ accepted = [c \in Clients |-> None]

\* DocumentSubmitResponse, once the client has read it.
accept(c, document_id, payload, job_id, canonical_id) ==
  accepted' = [accepted EXCEPT ![c] =
    [document_id |-> document_id, payload |-> payload,
     job_id |-> job_id, canonical_id |-> canonical_id]]

Transition(c, from, to) ==
  /\ requests[c].pc = from
  /\ requests' = [requests EXCEPT ![c].pc = to]

-----------------------------------------------------------------------------
(* submit_document, statement by statement                                 *)

\* The first read finds the document with another content: 409.
RejectConflict(c, d, p) ==
  /\ requests[c] = NoRequest
  /\ conflicts(d, p)
  /\ UNCHANGED <<store, api>>

\* It finds the document with the same content: 202 "completed", no job.
AcceptCompleted(c, d, p) ==
  /\ requests[c] = NoRequest
  /\ raw_documents[d] # None
  /\ ~conflicts(d, p)
  /\ accept(c, d, p, None, raw_documents[d].canonical_id)
  /\ UNCHANGED <<store, requests>>

\* It finds nothing: go on to the second read.
ReadNoDocument(c, d, p) ==
  /\ requests[c] = NoRequest
  /\ raw_documents[d] = None
  /\ requests' = [requests EXCEPT ![c] =
       [pc |-> "lookup", document_id |-> d, payload |-> p, job_id |-> None]]
  /\ UNCHANGED <<store, accepted>>

\* The second read finds an active job: 202 with the latest such job.
ReuseActiveJob(c) ==
  LET r == requests[c]
      active == active_jobs(r.document_id, r.payload)
  IN  /\ r.pc = "lookup"
      /\ \E id \in active :
           /\ \A other \in active : other <= id
           /\ accept(c, r.document_id, r.payload, id, None)
      /\ requests' = [requests EXCEPT ![c] = NoRequest]
      /\ UNCHANGED store

FindNoActiveJob(c) ==
  /\ active_jobs(requests[c].document_id, requests[c].payload) = {}
  /\ Transition(c, "lookup", "insert")
  /\ UNCHANGED <<store, accepted>>

\* enqueue_job: the INSERT takes an id; the row is not visible yet.
EnqueueJob(c) ==
  /\ requests[c].pc = "insert"
  /\ next_job_id <= MaxJobs
  /\ requests' = [requests EXCEPT ![c] =
       [@ EXCEPT !.job_id = next_job_id,
                 !.pc = IF RespondFirst THEN "respond" ELSE "commit"]]
  /\ next_job_id' = next_job_id + 1
  /\ UNCHANGED <<jobs, raw_documents, canonical_threads, accepted>>

\* Mutant: get_db_session closes the session without a commit.
CloseJob(c) ==
  LET r == requests[c]
  IN  /\ r.pc = "commit"
      /\ requests' = [requests EXCEPT ![c] =
           IF RespondFirst THEN NoRequest ELSE [r EXCEPT !.pc = "respond"]]
      /\ UNCHANGED <<store, accepted>>

\* get_db_session commits after the yield.
CommitJob(c) ==
  LET r == requests[c]
  IN  /\ r.pc = "commit"
      /\ jobs' = [jobs EXCEPT ![r.job_id] = enqueue_job(r.document_id, r.payload)]
      /\ requests' = [requests EXCEPT ![c] =
           IF RespondFirst THEN NoRequest ELSE [r EXCEPT !.pc = "respond"]]
      /\ UNCHANGED <<next_job_id, raw_documents, canonical_threads, accepted>>

\* The 202 for a new job reaches the client.
Respond(c) ==
  LET r == requests[c]
  IN  /\ r.pc = "respond"
      /\ accept(c, r.document_id, r.payload, r.job_id, None)
      /\ requests' = [requests EXCEPT ![c] =
           IF RespondFirst THEN [r EXCEPT !.pc = "commit"] ELSE NoRequest]
      /\ UNCHANGED store

\* The database raises, the API process dies or the connection to the
\* client is lost: what is not committed is rolled back, an id it took is
\* gone, and a response that was not sent is never read.
AbortRequest(c) ==
  /\ requests[c] # NoRequest
  /\ requests' = [requests EXCEPT ![c] = NoRequest]
  /\ UNCHANGED <<store, accepted>>

Submit(c) ==
  \/ \E d \in Documents, p \in Payloads :
       \/ RejectConflict(c, d, p)
       \/ AcceptCompleted(c, d, p)
       \/ ReadNoDocument(c, d, p)
  \/ ReuseActiveJob(c)
  \/ FindNoActiveJob(c)
  \/ EnqueueJob(c)
  \/ CommitJob(c)
  \/ Respond(c)
  \/ AbortRequest(c)
=============================================================================
