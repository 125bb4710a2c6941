-------------------------- MODULE DirectoryLoader --------------------------
(***************************************************************************)
(* The directory loader (loader.py) as the Kubernetes Job of               *)
(* k8s/06-loader-test.yaml runs it.  Its pods are the clients of the API.  *)
(*                                                                         *)
(* A pod submits the files one after the other.  What it does not wait for *)
(* goes on without it: the request of a pod that timed out or was killed   *)
(* stays in the API, and the next pod starts from the first file.  The pod *)
(* of a Job that was deleted may go on next to the pod of the new Job, for *)
(* the grace period that Kubernetes gives it.  The other clients of the    *)
(* API are the connections of such pods.                                   *)
(***************************************************************************)
EXTENDS IngestionPipeline

CONSTANTS
  Directories,  \* the files an image has, in sorted order, for each ingest
  BackoffLimit  \* spec.backoffLimit

ASSUME LoaderAssumption ==
  /\ Directories \in Seq(Seq([document_id : Documents, payload : Payloads]))
  /\ BackoffLimit \in Nat

VARIABLES
  load_job,  \* status of the Kubernetes Job, its retries, and how often it was applied
  pod,       \* the connection of the running pod, and whether it awaits a response
  summary,   \* the counters of load_directory
  old_pods   \* the files that the pods of deleted Jobs would still submit

loader == <<load_job, pod, summary, old_pods>>

loader_vars == <<vars, loader>>

Zero == [submitted |-> 0, accepted |-> 0, already_completed |-> 0,
         conflicts |-> 0, errors |-> 0]

NoPod == [client |-> None, waiting |-> FALSE]

LoaderInit ==
  /\ Init
  /\ load_job = [status |-> "deleted", retries |-> 0, ingests |-> 0]
  /\ pod = NoPod
  /\ summary = Zero
  /\ old_pods = [c \in Clients |-> << >>]

Running == load_job.status = "running" /\ pod.client # None

\* iter_document_files: name and content of the files in the image.
Files == Directories[load_job.ingests]

NextFile == Files[summary.submitted + 1]

-----------------------------------------------------------------------------
(* load_directory                                                          *)

\* Mutant: any response will do.
count_as_accepted(counter) ==
  /\ summary' = [summary EXCEPT !.accepted = @ + 1]
  /\ pod' = [pod EXCEPT !.waiting = FALSE]
  /\ UNCHANGED <<load_job, old_pods>>

\* The response to the file: one of the counters goes up.
count(counter) ==
  /\ summary' = [summary EXCEPT ![counter] = @ + 1]
  /\ pod' = [pod EXCEPT !.waiting = FALSE]
  /\ UNCHANGED <<load_job, old_pods>>

\* The response comes at once, from the first read of the server.
count_submitted(counter) ==
  /\ summary' = [summary EXCEPT !.submitted = @ + 1, ![counter] = @ + 1]
  /\ UNCHANGED <<load_job, pod, old_pods>>

\* submit_file: POST the next file.  A server error may come before any
\* read, whatever is registered.
SubmitFile ==
  LET c == pod.client
      d == NextFile.document_id
      p == NextFile.payload
  IN  /\ Running
      /\ ~pod.waiting
      /\ summary.submitted < Len(Files)
      /\ \/ RejectConflict(c, d, p) /\ count_submitted("conflicts")
         \/ AcceptCompleted(c, d, p) /\ count_submitted("already_completed")
         \/ UNCHANGED <<store, api>> /\ count_submitted("errors")
         \/ /\ ReadNoDocument(c, d, p)
            /\ summary' = [summary EXCEPT !.submitted = @ + 1]
            /\ pod' = [pod EXCEPT !.waiting = TRUE]
            /\ UNCHANGED <<load_job, old_pods>>

\* A 202, or a 500 after which the next file is tried.
ReadResponse ==
  LET c == pod.client
  IN  /\ Running
      /\ pod.waiting
      /\ \/ (ReuseActiveJob(c) \/ Respond(c)) /\ count("accepted")
         \/ AbortRequest(c) /\ count("errors")

\* What the server does for a request by itself.
serve(c) == FindNoActiveJob(c) \/ EnqueueJob(c) \/ CommitJob(c)

Serve == \E c \in Clients : serve(c) /\ UNCHANGED loader

\* Nobody reads the response to a request whose pod is gone.
ServeAbandoned ==
  \E c \in Clients :
    /\ ~(Running /\ c = pod.client)
    /\ ReuseActiveJob(c) \/ Respond(c) \/ AbortRequest(c)
    /\ UNCHANGED loader

\* The pod of a deleted Job goes on with its next file; it counts for itself.
OldPodSubmits ==
  \E c \in Clients :
    LET file == Head(old_pods[c])
        d == file.document_id
        p == file.payload
    IN  /\ old_pods[c] # << >>
        /\ \/ RejectConflict(c, d, p)
           \/ AcceptCompleted(c, d, p)
           \/ ReadNoDocument(c, d, p)
           \/ requests[c] = NoRequest /\ UNCHANGED <<store, api>>
        /\ old_pods' = [old_pods EXCEPT ![c] = Tail(@)]
        /\ UNCHANGED <<load_job, pod, summary>>

\* It is killed, or fails.
OldPodEnds ==
  /\ \E c \in Clients :
       old_pods[c] # << >> /\ old_pods' = [old_pods EXCEPT ![c] = << >>]
  /\ UNCHANGED <<store, api, load_job, pod, summary>>

-----------------------------------------------------------------------------
(* The Job                                                                 *)

\* The controller replaces a failed pod, from the first file on.
retry ==
  /\ pod' = NoPod
  /\ summary' = Zero
  /\ load_job' = IF load_job.retries < BackoffLimit
                 THEN [load_job EXCEPT !.retries = @ + 1]
                 ELSE [load_job EXCEPT !.status = "failed"]
  /\ UNCHANGED old_pods

StartPod ==
  /\ load_job.status = "running"
  /\ pod = NoPod
  /\ \E c \in Clients :
       /\ requests[c] = NoRequest
       /\ old_pods[c] = << >>
       /\ pod' = [client |-> c, waiting |-> FALSE]
  /\ UNCHANGED <<store, api, load_job, summary, old_pods>>

\* Mutant: conflicts do not matter.
exit_code_errors_only == IF summary.errors > 0 THEN 1 ELSE 0

exit_code == IF summary.errors > 0 \/ summary.conflicts > 0 THEN 1 ELSE 0

Exit ==
  /\ Running
  /\ ~pod.waiting
  /\ summary.submitted = Len(Files)
  /\ IF exit_code = 0
     THEN /\ load_job' = [load_job EXCEPT !.status = "complete"]
          /\ pod' = NoPod
          /\ UNCHANGED <<summary, old_pods>>
     ELSE retry
  /\ UNCHANGED <<store, api>>

\* The request times out, the connection is refused or lost, or the pod is
\* killed: the exception leaves load_directory, and the server may or may
\* not go on with the request.
PodFails ==
  /\ Running
  /\ UNCHANGED <<store, api>> \/ AbortRequest(pod.client)
  /\ retry

\* make ingest: delete the Job, whatever it is doing, and apply it again,
\* perhaps with an image that was built from other files.  A pod that was
\* running has until the end of its grace period.
Ingest ==
  /\ load_job.ingests < Len(Directories)
  /\ load_job' = [status |-> "running", retries |-> 0, ingests |-> load_job.ingests + 1]
  /\ pod' = NoPod
  /\ summary' = Zero
  /\ old_pods' = IF Running
                 THEN [old_pods EXCEPT ![pod.client] =
                         SubSeq(Files, summary.submitted + 1, Len(Files))]
                 ELSE old_pods
  /\ UNCHANGED <<store, api>>

Load == SubmitFile \/ ReadResponse \/ Serve \/ ServeAbandoned
        \/ OldPodSubmits \/ OldPodEnds \/ StartPod \/ Exit \/ PodFails \/ Ingest

LoaderNext ==
  \/ Load /\ UNCHANGED worker_vars
  \/ \E w \in Workers : Work(w) /\ UNCHANGED <<api, loader>>

LoaderSpec == LoaderInit /\ [][LoaderNext]_loader_vars

-----------------------------------------------------------------------------

\* The document is registered with this content.
registered(file) ==
  raw_documents[file.document_id] # None /\ ~conflicts(file.document_id, file.payload)

jobs_of(file) ==
  {id \in JobIds :
     /\ jobs[id] # None
     /\ jobs[id].document_id = file.document_id
     /\ jobs[id].payload = file.payload}

\* The document is registered with this content, or the queue has a row for
\* it, whatever became of that job.
recorded(file) == registered(file) \/ jobs_of(file) # {}

\* The document is registered with this content, or a job that is still to
\* be done will see to it, or a row says why that is not possible.
accounted(file) ==
  \/ registered(file)
  \/ \E id \in jobs_of(file) :
       \/ jobs[id].status \in {"pending", "processing"}
       \/ jobs[id].status = "failed" /\ HasCause(jobs[id])

\* The files the running pod has had a response for.
answered ==
  1 .. IF pod.waiting THEN summary.submitted - 1 ELSE summary.submitted

\* The summary of a pod is true of the database, whoever else submits the
\* same documents meanwhile: each file is counted once, and the counts of
\* accepted, completed and conflicting files are those of files that are
\* recorded, registered, and registered with another content.  "Accepted" is
\* no promise that the job succeeds (load_directory, submit_document).
SummaryIsTrue ==
  LET files(P(_)) == Cardinality({i \in answered : P(Files[i])})
  IN  /\ summary.accepted + summary.already_completed + summary.conflicts
           + summary.errors = Cardinality(answered)
      /\ summary.accepted + summary.already_completed <= files(recorded)
      /\ summary.already_completed <= files(registered)
      /\ summary.conflicts <=
           files(LAMBDA f : conflicts(f.document_id, f.payload))

\* Exit code 0 is no promise that the files are registered: it only means
\* that no response was a 409 or an error.  What can be said of a Job that is
\* complete is that none of its files is lost: each is registered with its
\* content, or is still queued, or has a failed row that names a true cause,
\* such as another content that was registered while its job waited; whatever
\* the pods before went through or old pods still do (main of loader.py).
CompleteMeansAccounted ==
  load_job.status = "complete" => \A i \in DOMAIN Files : accounted(Files[i])

\* To the API, loader pods and the requests they leave behind are clients
\* like others: the loader adds no behaviour to the pipeline.
ImplementsPipeline == Spec
=============================================================================
