------------------------ MODULE DirectoryLoaderProofs ------------------------
(***************************************************************************)
(* Proofs about DirectoryLoader: the loader is a client of the pipeline,   *)
(* and a Job that is complete has lost none of its files.                  *)
(***************************************************************************)
EXTENDS DirectoryLoader, IngestionClientProofs

FileRecords == [document_id : Documents, payload : Payloads]

LoadJobs ==
  [status : {"deleted", "running", "failed", "complete"}, retries : Nat,
   ingests : 0 .. Len(Directories)]

Pods == [client : Clients \cup {None}, waiting : BOOLEAN]

Summaries ==
  [submitted : Nat, accepted : Nat, already_completed : Nat, conflicts : Nat,
   errors : Nat]

\* The state of the loader is typed, only a Job that was applied runs, and
\* its pod has a connection of its own.
LoaderTyped ==
  /\ load_job \in LoadJobs
  /\ load_job.status # "deleted" => load_job.ingests # 0
  /\ pod \in Pods
  /\ summary \in Summaries
  /\ old_pods \in [Clients -> Seq(FileRecords)]
  /\ Running => old_pods[pod.client] = << >>

-----------------------------------------------------------------------------
(* Refinement                                                              *)

\* The files of a Job that was applied have documents and payloads that the
\* API knows.
LEMMA FilesLemma ==
  ASSUME LoaderTyped, load_job.ingests # 0, NEW i \in Nat, i < Len(Files)
  PROVE  /\ Len(Files) \in Nat
         /\ i + 1 \in DOMAIN Files
         /\ Files[i + 1] \in FileRecords
<1>1. load_job.ingests \in 1 .. Len(Directories)
  BY DEF LoaderTyped, LoadJobs
<1>2. Files \in Seq(FileRecords)
  BY <1>1, LoaderAssumption DEF Files, FileRecords
<1>3. Len(Files) \in Nat /\ i + 1 \in 1 .. Len(Files) /\ DOMAIN Files = 1 .. Len(Files)
  BY <1>2
<1> QED
  BY <1>2, <1>3

\* What a pod has left of its files.
LEMMA RestLemma ==
  ASSUME LoaderTyped, load_job.ingests # 0
  PROVE  SubSeq(Files, summary.submitted + 1, Len(Files)) \in Seq(FileRecords)
<1>1. load_job.ingests \in 1 .. Len(Directories)
  BY DEF LoaderTyped, LoadJobs
<1>2. PICK s \in Seq(FileRecords) : s = Files
  BY <1>1, LoaderAssumption DEF Files, FileRecords
<1>3. PICK n \in Nat : n = summary.submitted
  BY DEF LoaderTyped, Summaries
<1>4. SubSeq(s, n + 1, Len(s)) \in Seq(FileRecords)
  BY <1>2, <1>3
<1> QED
  BY <1>2, <1>3, <1>4

LEMMA LoaderTypedInit == ASSUME LoaderInit PROVE LoaderTyped
<1>1. /\ load_job \in LoadJobs /\ load_job.status = "deleted"
      /\ pod \in Pods /\ summary \in Summaries
  BY LoaderAssumption DEF LoaderInit, LoadJobs, Pods, Summaries, NoPod, Zero
<1>2. old_pods \in [Clients -> Seq(FileRecords)]
  BY DEF LoaderInit
<1> QED
  BY <1>1, <1>2 DEF LoaderTyped, Running

LEMMA RetryTyped == ASSUME LoaderTyped, Running, retry PROVE LoaderTyped'
<1>1. Zero \in Summaries /\ NoPod \in Pods
  BY DEF Zero, Summaries, NoPod, Pods
<1>2. load_job' \in LoadJobs /\ load_job'.ingests = load_job.ingests
  BY DEF retry, LoaderTyped, LoadJobs
<1>3. NoPod.client = None
  BY DEF NoPod
<1> QED
  BY <1>1, <1>2, <1>3 DEF retry, Running, LoaderTyped

\* Counting is typed.
LEMMA CountLemma ==
  ASSUME NEW s \in Summaries
  PROVE  /\ [s EXCEPT !.submitted = @ + 1] \in Summaries
         /\ [s EXCEPT !.accepted = @ + 1] \in Summaries
         /\ [s EXCEPT !.errors = @ + 1] \in Summaries
         /\ [s EXCEPT !.submitted = @ + 1, !.conflicts = @ + 1] \in Summaries
         /\ [s EXCEPT !.submitted = @ + 1, !.already_completed = @ + 1] \in Summaries
         /\ [s EXCEPT !.submitted = @ + 1, !.errors = @ + 1] \in Summaries
<1>1. /\ [s EXCEPT !.submitted = @ + 1] \in Summaries
      /\ [s EXCEPT !.accepted = @ + 1] \in Summaries
      /\ [s EXCEPT !.errors = @ + 1] \in Summaries
  BY DEF Summaries
<1>2. PICK t \in Summaries : t = [s EXCEPT !.submitted = @ + 1]
  BY <1>1
<1>3. /\ [t EXCEPT !.conflicts = @ + 1] \in Summaries
      /\ [t EXCEPT !.already_completed = @ + 1] \in Summaries
      /\ [t EXCEPT !.errors = @ + 1] \in Summaries
  BY DEF Summaries
<1>4. /\ [s EXCEPT !.submitted = @ + 1, !.conflicts = @ + 1]
            = [t EXCEPT !.conflicts = @ + 1]
      /\ [s EXCEPT !.submitted = @ + 1, !.already_completed = @ + 1]
            = [t EXCEPT !.already_completed = @ + 1]
      /\ [s EXCEPT !.submitted = @ + 1, !.errors = @ + 1]
            = [t EXCEPT !.errors = @ + 1]
  BY <1>2 DEF Summaries
<1> QED
  BY <1>1, <1>3, <1>4

\* Each action of the loader keeps the types.
LEMMA LoaderTypedStep ==
  ASSUME LoaderTyped, [LoaderNext]_loader_vars
  PROVE  LoaderTyped'
<1>1. CASE UNCHANGED loader
  BY <1>1 DEF loader, LoaderTyped, Running
<1>2. ASSUME UNCHANGED <<load_job, old_pods>>, summary' \in Summaries,
             pod' \in Pods, pod'.client = pod.client
      PROVE  LoaderTyped'
  BY <1>2 DEF LoaderTyped, Running
<1>3. CASE SubmitFile
  <2>1. pod' \in Pods /\ pod'.client = pod.client /\ UNCHANGED <<load_job, old_pods>>
    BY <1>3 DEF SubmitFile, count_submitted, LoaderTyped, Pods
  <2>2. summary' \in Summaries
    BY <1>3, CountLemma DEF SubmitFile, count_submitted, LoaderTyped
  <2> QED
    BY <1>2, <2>1, <2>2
<1>4. CASE ReadResponse
  <2>1. pod' \in Pods /\ pod'.client = pod.client /\ UNCHANGED <<load_job, old_pods>>
    BY <1>4 DEF ReadResponse, count, LoaderTyped, Pods
  <2>2. summary' \in Summaries
    BY <1>4, CountLemma DEF ReadResponse, count, LoaderTyped
  <2> QED
    BY <1>2, <2>1, <2>2
<1>5. CASE StartPod
  <2>1. PICK c \in Clients :
          pod' = [client |-> c, waiting |-> FALSE] /\ old_pods[c] = << >>
    BY <1>5 DEF StartPod
  <2>2. pod' \in Pods /\ UNCHANGED <<load_job, summary, old_pods>>
    BY <1>5, <2>1 DEF StartPod, Pods
  <2> QED
    BY <2>1, <2>2 DEF LoaderTyped
<1>6. CASE Exit
  <2>1. CASE exit_code = 0
    <3>1. load_job' \in LoadJobs /\ load_job'.ingests # 0
      BY <1>6, <2>1 DEF Exit, Running, LoaderTyped, LoadJobs
    <3>2. pod' = NoPod /\ summary' = summary /\ old_pods' = old_pods
      BY <1>6, <2>1 DEF Exit
    <3>3. NoPod \in Pods /\ NoPod.client = None
      BY DEF NoPod, Pods
    <3> QED
      BY <3>1, <3>2, <3>3 DEF LoaderTyped, Running
  <2>2. CASE exit_code # 0
    BY <1>6, <2>2, RetryTyped DEF Exit
  <2> QED
    BY <2>1, <2>2
<1>7. CASE PodFails
  BY <1>7, RetryTyped DEF PodFails
<1>8. CASE Ingest
  <2>1. load_job' \in LoadJobs /\ load_job'.ingests # 0
    BY <1>8, LoaderAssumption DEF Ingest, LoaderTyped, LoadJobs
  <2>2. pod' \in Pods /\ summary' \in Summaries /\ ~Running'
    BY <1>8 DEF Ingest, NoPod, Pods, Zero, Summaries, Running
  <2>3. old_pods' \in [Clients -> Seq(FileRecords)]
    <3>1. CASE Running
      <4>1. load_job.ingests # 0
        BY <3>1 DEF Running, LoaderTyped
      <4>2. PICK rest \in Seq(FileRecords) :
              rest = SubSeq(Files, summary.submitted + 1, Len(Files))
        BY <4>1, RestLemma
      <4>3. old_pods' = [old_pods EXCEPT ![pod.client] = rest]
        BY <1>8, <3>1, <4>2 DEF Ingest
      <4> QED
        BY <4>3 DEF LoaderTyped
    <3>2. CASE ~Running
      BY <1>8, <3>2 DEF Ingest, LoaderTyped
    <3> QED
      BY <3>1, <3>2
  <2> QED
    BY <2>1, <2>2, <2>3 DEF LoaderTyped
<1>9. CASE OldPodSubmits \/ OldPodEnds
  <2>1. UNCHANGED <<load_job, pod, summary>>
    BY <1>9 DEF OldPodSubmits, OldPodEnds
  <2>2. PICK c \in Clients :
          /\ old_pods[c] # << >>
          /\ \/ old_pods' = [old_pods EXCEPT ![c] = Tail(old_pods[c])]
             \/ old_pods' = [old_pods EXCEPT ![c] = << >>]
    BY <1>9 DEF OldPodSubmits, OldPodEnds
  <2>3. Tail(old_pods[c]) \in Seq(FileRecords) /\ << >> \in Seq(FileRecords)
    BY <2>2 DEF LoaderTyped
  <2>4. old_pods' \in [Clients -> Seq(FileRecords)]
    BY <2>2, <2>3 DEF LoaderTyped
  <2>5. Running => c # pod.client
    BY <2>2 DEF LoaderTyped
  <2>6. Running' => Running
    BY <2>1 DEF Running
  <2>7. Running => old_pods'[pod.client] = old_pods[pod.client]
    BY <2>2, <2>5 DEF LoaderTyped, Running, Pods
  <2> QED
    BY <2>1, <2>4, <2>6, <2>7 DEF LoaderTyped
<1> QED
  BY <1>1, <1>3, <1>4, <1>5, <1>6, <1>7, <1>8, <1>9
     DEF LoaderNext, Load, Serve, ServeAbandoned, loader_vars, loader

\* Each step of the loader is a step of the pipeline or changes nothing of
\* it.
LEMMA LoaderStepIsClientStep ==
  ASSUME LoaderTyped, [LoaderNext]_loader_vars
  PROVE  [Next]_vars
<1>1. ASSUME NEW c \in Clients, Submit(c), UNCHANGED worker_vars PROVE Next
  BY <1>1 DEF Next
<1>2. Running => pod.client \in Clients
  BY DEF Running, LoaderTyped, Pods
<1>3. CASE SubmitFile /\ UNCHANGED worker_vars
  <2>1. /\ NextFile.document_id \in Documents
        /\ NextFile.payload \in Payloads
    BY <1>3, FilesLemma
       DEF SubmitFile, Running, NextFile, LoaderTyped, Summaries, FileRecords
  <2>2. CASE UNCHANGED <<store, api>>
    BY <1>3, <2>2 DEF vars
  <2> QED
    BY <1>1, <1>2, <1>3, <2>1, <2>2 DEF SubmitFile, Submit
<1>4. CASE ReadResponse /\ UNCHANGED worker_vars
  BY <1>1, <1>2, <1>4 DEF ReadResponse, Submit
<1>5. CASE (Serve \/ ServeAbandoned) /\ UNCHANGED worker_vars
  BY <1>1, <1>5 DEF Serve, serve, ServeAbandoned, Submit
<1>6. CASE PodFails /\ UNCHANGED worker_vars
  BY <1>1, <1>2, <1>6 DEF PodFails, Submit, vars
<1>7. CASE (StartPod \/ Exit \/ Ingest) /\ UNCHANGED worker_vars
  BY <1>7 DEF StartPod, Exit, Ingest, vars
<1>8. ASSUME NEW w \in Workers, Work(w), UNCHANGED <<api, loader>> PROVE Next
  BY <1>8 DEF Next
<1>9. CASE UNCHANGED loader_vars
  BY <1>9 DEF loader_vars
<1>10. CASE OldPodSubmits /\ UNCHANGED worker_vars
  <2>1. PICK c \in Clients, f \in FileRecords :
          \/ RejectConflict(c, f.document_id, f.payload)
          \/ AcceptCompleted(c, f.document_id, f.payload)
          \/ ReadNoDocument(c, f.document_id, f.payload)
          \/ UNCHANGED <<store, api>>
    <3>1. PICK c \in Clients :
            /\ old_pods[c] # << >>
            /\ LET f == Head(old_pods[c])
               IN  \/ RejectConflict(c, f.document_id, f.payload)
                   \/ AcceptCompleted(c, f.document_id, f.payload)
                   \/ ReadNoDocument(c, f.document_id, f.payload)
                   \/ UNCHANGED <<store, api>>
      BY <1>10 DEF OldPodSubmits
    <3>2. Head(old_pods[c]) \in FileRecords
      BY <3>1 DEF LoaderTyped
    <3> QED
      BY <3>1, <3>2
  <2>2. f.document_id \in Documents /\ f.payload \in Payloads
    BY DEF FileRecords
  <2>3. CASE UNCHANGED <<store, api>>
    BY <1>10, <2>3 DEF vars
  <2> QED
    BY <1>1, <1>10, <2>1, <2>2, <2>3 DEF Submit
<1>11. CASE OldPodEnds /\ UNCHANGED worker_vars
  BY <1>11 DEF OldPodEnds, vars
<1> QED
  BY <1>3, <1>4, <1>5, <1>6, <1>7, <1>8, <1>9, <1>10, <1>11 DEF LoaderNext, Load

\* To the API, loader pods and the requests they leave behind are clients
\* like others: whatever is true of the pipeline for any clients is true of
\* it under the loader.
THEOREM LoaderIsClient == LoaderSpec => ImplementsPipeline
<1>1. LoaderInit => Init /\ LoaderTyped
  BY LoaderTypedInit DEF LoaderInit
<1>2. LoaderTyped /\ [LoaderNext]_loader_vars => LoaderTyped' /\ [Next]_vars
  BY LoaderTypedStep, LoaderStepIsClientStep
<1> QED
  BY <1>1, <1>2, PTL DEF LoaderSpec, ImplementsPipeline, Spec

-----------------------------------------------------------------------------
(* What a complete Job has recorded                                        *)

Clean == summary.errors = 0 /\ summary.conflicts = 0

Answered == {Files[i] : i \in answered}

\* As long as nothing went wrong, the files that were answered are recorded.
RecordedFiles == Clean => \A f \in FileRecords : f \in Answered => recorded(f)

\* The request that a pod waits for carries the file it submitted last.
Awaited ==
  pod.waiting =>
    /\ Running
    /\ \E c \in Clients, r \in Requests, f \in FileRecords :
         /\ c = pod.client
         /\ r = requests[c]
         /\ f = Files[summary.submitted]
         /\ r.document_id = f.document_id
         /\ r.payload = f.payload

\* A pod submits no file twice, and the Job is complete after all of them.
LoadBounds ==
  /\ summary.submitted # 0 =>
       load_job.ingests # 0 /\ summary.submitted <= Len(Files)
  /\ load_job.status = "complete" =>
       Clean /\ summary.submitted = Len(Files) /\ ~pod.waiting

LoadInv == RecordedFiles /\ Awaited /\ LoadBounds

\* What the loader relies on: rows and registrations stay.
LEMMA PipelineKeeps ==
  ASSUME RegistryInv, [Next]_vars
  PROVE  RowsKept /\ TablesGrow
<1> USE DEF RegistryInv, QueueInv
<1>1. ASSUME NEW c \in Clients, Submit(c), UNCHANGED worker_vars
      PROVE  RowsKept /\ TablesGrow
  BY <1>1, SubmitFrame DEF RowsExtend, RowsKept, TablesGrow
<1>2. ASSUME NEW w \in Workers, Work(w) PROVE RowsKept /\ TablesGrow
  BY <1>2, WorkFrame DEF RowsPersist, RowsKept
<1>3. CASE UNCHANGED vars
  BY <1>3 DEF vars, store, RowsKept, TablesGrow
<1> QED
  BY <1>1, <1>2, <1>3 DEF Next

LEMMA FileStaysRecorded ==
  ASSUME RowsKept, TablesGrow, NEW f \in FileRecords, recorded(f)
  PROVE  recorded(f)'
<1>1. f.document_id \in Documents
  BY DEF FileRecords
<1>2. CASE registered(f)
  <2>1. raw_documents'[f.document_id] = raw_documents[f.document_id]
    BY <1>1, <1>2 DEF registered, TablesGrow
  <2> QED
    BY <1>2, <2>1 DEF recorded, registered, conflicts
<1>3. CASE ~registered(f)
  <2>1. PICK id \in JobIds : Names(id, f.document_id, f.payload)
    BY <1>3 DEF recorded, jobs_of, Names
  <2>2. Names(id, f.document_id, f.payload)'
    BY <2>1 DEF Names, RowsKept
  <2> QED
    BY <2>2 DEF recorded, jobs_of, Names
<1> QED
  BY <1>2, <1>3

\* So a step has to account for the file that is newly answered.
LEMMA RecordedFilesPersist ==
  ASSUME RowsKept, TablesGrow, RecordedFiles,
         Clean' => Clean,
         \A f \in FileRecords : f \in Answered' /\ Clean' => f \in Answered \/ recorded(f)'
  PROVE  RecordedFiles'
<1> SUFFICES ASSUME Clean', NEW f \in FileRecords, f \in Answered'
             PROVE  recorded(f)'
  BY DEF RecordedFiles
<1> QED
  BY FileStaysRecorded DEF RecordedFiles

LEMMA LoadInvInit == ASSUME LoaderInit PROVE LoadInv
<1>1. /\ summary = Zero /\ Zero.submitted = 0
      /\ pod = NoPod /\ NoPod.waiting = FALSE
      /\ load_job.status = "deleted"
  BY DEF LoaderInit, Zero, NoPod
<1>2. Answered = {}
  BY <1>1 DEF Answered, answered
<1> QED
  BY <1>1, <1>2 DEF LoadInv, RecordedFiles, Awaited, LoadBounds

\* A new start forgets what was answered.
LEMMA LoadInvRestart ==
  ASSUME summary' = Zero, pod' = NoPod, load_job'.status # "complete"
  PROVE  LoadInv'
<1>1. Zero.submitted = 0 /\ NoPod.waiting = FALSE
  BY DEF Zero, NoPod
<1>2. Answered' = {}
  BY <1>1 DEF Answered, answered
<1>3. RecordedFiles'
  BY <1>2 DEF RecordedFiles
<1>4. Awaited'
  BY <1>1 DEF Awaited
<1>5. LoadBounds'
  BY <1>1 DEF LoadBounds
<1> QED
  BY <1>3, <1>4, <1>5 DEF LoadInv

\* What the server, a worker or an old pod does leaves the pod with its
\* request.
LEMMA LoadInvElsewhere ==
  ASSUME LoadInv, RowsKept, TablesGrow, UNCHANGED <<load_job, pod, summary>>,
         \A c \in Clients, r \in Requests :
           Running /\ pod.waiting /\ c = pod.client /\ r = requests[c] =>
             \E s \in Requests : /\ s = requests'[c]
                                 /\ s.document_id = r.document_id
                                 /\ s.payload = r.payload
  PROVE  LoadInv'
<1>1. load_job' = load_job /\ pod' = pod /\ summary' = summary
  OBVIOUS
<1>2. /\ Files' = Files /\ Answered' = Answered
      /\ Clean' = Clean /\ Running' = Running
  BY <1>1 DEF Files, Answered, answered, Clean, Running
<1>3. RecordedFiles'
  BY <1>2, RecordedFilesPersist DEF LoadInv
<1>4. LoadBounds'
  BY <1>1, <1>2 DEF LoadInv, LoadBounds
<1>5. ASSUME pod.waiting PROVE Awaited'
  <2>1. PICK c \in Clients, r \in Requests, f \in FileRecords :
          /\ c = pod.client
          /\ r = requests[c]
          /\ f = Files[summary.submitted]
          /\ r.document_id = f.document_id
          /\ r.payload = f.payload
    BY <1>5 DEF LoadInv, Awaited
  <2>2. Running
    BY <1>5 DEF LoadInv, Awaited
  <2>3. PICK s \in Requests : /\ s = requests'[c]
                              /\ s.document_id = r.document_id
                              /\ s.payload = r.payload
    BY <1>5, <2>1, <2>2
  <2>4. c = pod'.client /\ f = Files'[summary'.submitted]
    BY <1>1, <1>2, <2>1
  <2> QED
    BY <1>2, <2>1, <2>2, <2>3, <2>4 DEF Awaited
<1>6. ASSUME ~pod.waiting PROVE Awaited'
  BY <1>1, <1>6 DEF Awaited
<1> QED
  BY <1>3, <1>4, <1>5, <1>6 DEF LoadInv

\* A request that the server works on keeps its file until it is answered.
LEMMA ServedRequestKeepsFile ==
  ASSUME ~RespondFirst, TypeInv, TypeInv', NEW b \in Clients, serve(b),
         NEW c \in Clients, NEW r \in Requests, r = requests[c]
  PROVE  \E s \in Requests : /\ s = requests'[c]
                             /\ s.document_id = r.document_id
                             /\ s.payload = r.payload
<1>1. /\ requests \in [Clients -> Requests \cup {NoRequest}]
      /\ requests' \in [Clients -> Requests \cup {NoRequest}]
  BY DEF TypeInv, TypeOK, ApiTypeOK
<1>2. CASE b # c
  <2>1. requests'[c] = requests[c]
    BY <1>1, <1>2 DEF serve, FindNoActiveJob, Transition, EnqueueJob, CommitJob
  <2> QED
    BY <2>1
<1>3. CASE b = c
  <2>1. \/ requests'[c] = [r EXCEPT !.pc = "insert"]
        \/ requests'[c] = [r EXCEPT !.job_id = next_job_id, !.pc = "commit"]
        \/ requests'[c] = [r EXCEPT !.pc = "respond"]
    BY <1>1, <1>3 DEF serve, FindNoActiveJob, Transition, EnqueueJob, CommitJob
  <2>2. /\ requests'[c].document_id = r.document_id
        /\ requests'[c].payload = r.payload
        /\ requests'[c].pc # "idle"
    BY <2>1 DEF Requests
  <2>3. requests'[c] \in Requests
    BY <1>1, <2>2 DEF NoRequest
  <2> QED
    BY <2>2, <2>3
<1> QED
  BY <1>2, <1>3

-----------------------------------------------------------------------------
\* The answer to the next file: 409 and 202 come from the first read, which
\* finds the document registered.
LEMMA SubmitFileRecords ==
  ASSUME TypeInv, LoaderTyped, LoadInv, RowsKept, TablesGrow, SubmitFile
  PROVE  LoadInv'
<1>1. /\ Running /\ ~pod.waiting /\ load_job' = load_job
      /\ summary.submitted < Len(Files)
      /\ load_job.status = "running" /\ load_job.ingests # 0
      /\ pod.client \in Clients
  BY DEF SubmitFile, count_submitted, Running, LoaderTyped, Pods
<1>2. PICK n \in Nat : n = summary.submitted
  BY DEF LoaderTyped, Summaries
<1>3. PICK f \in FileRecords : f = Files[n + 1]
  BY <1>1, <1>2, FilesLemma
<1>4. Files' = Files /\ Len(Files) \in Nat
  BY <1>1, <1>2, FilesLemma DEF Files
<1>5. summary'.submitted = n + 1
  BY <1>2 DEF SubmitFile, count_submitted, LoaderTyped, Summaries
<1>6. LoadBounds'
  BY <1>1, <1>2, <1>4, <1>5 DEF LoadBounds
<1>7. answered = 1 .. n
  BY <1>1, <1>2 DEF answered
<1>8. f = NextFile
  BY <1>2, <1>3 DEF NextFile
<1>9. CASE RejectConflict(pod.client, NextFile.document_id, NextFile.payload)
           /\ count_submitted("conflicts")
  <2>1. ~Clean' /\ pod' = pod
    BY <1>9 DEF count_submitted, Clean, LoaderTyped, Summaries
  <2> QED
    BY <1>1, <1>6, <2>1 DEF LoadInv, RecordedFiles, Awaited
<1>10. CASE AcceptCompleted(pod.client, NextFile.document_id, NextFile.payload)
            /\ count_submitted("already_completed")
  <2>1. /\ pod' = pod
        /\ Clean' => Clean
    BY <1>10 DEF count_submitted, Clean, LoaderTyped, Summaries
  <2>2. answered' = 1 .. n + 1
    BY <1>1, <1>5, <2>1 DEF answered
  <2>3. \A i \in 1 .. n + 1 : i \in 1 .. n \/ i = n + 1
    BY <1>2
  <2>4. Answered' \subseteq Answered \cup {f}
    BY <1>3, <1>4, <1>7, <2>2, <2>3 DEF Answered
  <2>5. recorded(f)'
    BY <1>8, <1>10 DEF AcceptCompleted, store, recorded, registered, conflicts
  <2>6. RecordedFiles'
    BY <2>1, <2>4, <2>5, RecordedFilesPersist DEF LoadInv
  <2> QED
    BY <1>1, <1>6, <2>1, <2>6 DEF LoadInv, Awaited
<1>11. CASE ReadNoDocument(pod.client, NextFile.document_id, NextFile.payload)
            /\ summary' = [summary EXCEPT !.submitted = @ + 1]
            /\ pod' = [pod EXCEPT !.waiting = TRUE]
  <2>1. /\ pod'.waiting /\ pod'.client = pod.client
        /\ Clean' = Clean
    BY <1>11 DEF Clean, LoaderTyped, Summaries, Pods
  <2>2. answered' = 1 .. n
    BY <1>2, <1>5, <2>1 DEF answered
  <2>3. RecordedFiles'
    BY <1>4, <1>7, <2>1, <2>2, RecordedFilesPersist DEF LoadInv, Answered
  <2>4. PICK c \in Clients : c = pod.client
    BY <1>1
  <2> DEFINE r == [pc |-> "lookup", document_id |-> f.document_id,
                   payload |-> f.payload, job_id |-> None]
  <2>5. r \in Requests
    BY DEF Requests, FileRecords
  <2>6. requests' = [requests EXCEPT ![c] = r]
    BY <1>8, <1>11, <2>4 DEF ReadNoDocument
  <2>7. r.document_id = f.document_id /\ r.payload = f.payload
    OBVIOUS
  <2> HIDE DEF r
  <2>8. PICK s \in Requests : s = requests'[c] /\ s = r
    BY <2>5, <2>6 DEF TypeInv, TypeOK, ApiTypeOK
  <2>9. Running' /\ c = pod'.client /\ f = Files'[summary'.submitted]
    BY <1>1, <1>3, <1>4, <1>5, <2>1, <2>4 DEF Running
  <2>10. Awaited'
    BY <2>7, <2>8, <2>9 DEF Awaited
  <2> QED
    BY <1>6, <2>3, <2>10 DEF LoadInv
<1>12. CASE count_submitted("errors")
  <2>1. ~Clean' /\ pod' = pod
    BY <1>12 DEF count_submitted, Clean, LoaderTyped, Summaries
  <2> QED
    BY <1>1, <1>6, <2>1 DEF LoadInv, RecordedFiles, Awaited
<1> QED
  BY <1>9, <1>10, <1>11, <1>12 DEF SubmitFile

\* The answer that the pod waits for: the job that a 202 names is there.
LEMMA ReadResponseRecords ==
  ASSUME ~RespondFirst, TypeInv, ResponsesInv, LoaderTyped, LoadInv,
         RowsKept, TablesGrow, ReadResponse
  PROVE  LoadInv'
<1>1. /\ pod.waiting /\ load_job' = load_job
      /\ pod' = [pod EXCEPT !.waiting = FALSE]
  BY DEF ReadResponse, count
<1>2. ~pod'.waiting /\ Files' = Files
  BY <1>1 DEF LoaderTyped, Pods, Files
<1>3. summary'.submitted = summary.submitted
  BY DEF ReadResponse, count, LoaderTyped, Summaries
<1>4. load_job.status = "running"
  BY DEF ReadResponse, Running
<1>5. LoadBounds' /\ Awaited'
  BY <1>1, <1>2, <1>3, <1>4 DEF LoadInv, LoadBounds, Awaited
<1>6. CASE count("errors")
  <2>1. ~Clean'
    BY <1>6 DEF count, Clean, LoaderTyped, Summaries
  <2> QED
    BY <1>5, <2>1 DEF LoadInv, RecordedFiles
<1>7. CASE (ReuseActiveJob(pod.client) \/ Respond(pod.client)) /\ count("accepted")
  <2>1. PICK c \in Clients, r \in Requests, f \in FileRecords :
          /\ c = pod.client
          /\ r = requests[c]
          /\ f = Files[summary.submitted]
          /\ r.document_id = f.document_id
          /\ r.payload = f.payload
    BY <1>1 DEF LoadInv, Awaited
  <2>2. \E id \in JobIds : Names(id, r.document_id, r.payload)
    <3>1. CASE ReuseActiveJob(c)
      BY <2>1, <3>1, HashLemma DEF ReuseActiveJob, active_jobs, JobsWith, Names
    <3>2. CASE Respond(c)
      BY <2>1, <3>2 DEF Respond, ResponsesInv, TypeInv, ReservedIds
    <3> QED
      BY <1>7, <2>1, <3>1, <3>2
  <2>3. recorded(f)
    BY <2>1, <2>2 DEF recorded, jobs_of, Names
  <2>4. PICK n \in Nat : n = summary.submitted
    BY DEF LoaderTyped, Summaries
  <2>5. answered = 1 .. n - 1 /\ answered' = 1 .. n
    BY <1>1, <1>2, <1>3, <2>4 DEF answered
  <2>6. \A i \in 1 .. n : i \in 1 .. n - 1 \/ i = n
    BY <2>4
  <2>7. Answered' \subseteq Answered \cup {f}
    BY <1>2, <2>1, <2>4, <2>5, <2>6 DEF Answered
  <2>8. Clean' => Clean
    BY <1>7 DEF count, Clean, LoaderTyped, Summaries
  <2>9. RecordedFiles'
    BY <2>3, <2>7, <2>8, FileStaysRecorded, RecordedFilesPersist DEF LoadInv
  <2> QED
    BY <1>5, <2>9 DEF LoadInv
<1> QED
  BY <1>6, <1>7 DEF ReadResponse

\* What the pod keeps to itself: a start, an exit, a failure.
LEMMA LoadJobSteps ==
  ASSUME LoaderTyped, LoadInv, RowsKept, TablesGrow,
         StartPod \/ Exit \/ PodFails \/ Ingest
  PROVE  LoadInv'
<1>1. ASSUME retry, Running PROVE LoadInv'
  <2>1. load_job'.status # "complete"
    BY <1>1 DEF retry, Running, LoaderTyped, LoadJobs
  <2> QED
    BY <1>1, <2>1, LoadInvRestart DEF retry
<1>2. ASSUME ~pod.waiting, ~pod'.waiting, UNCHANGED summary,
             load_job'.ingests = load_job.ingests,
             load_job'.status = "complete" =>
               Clean /\ summary.submitted = Len(Files)
      PROVE  LoadInv'
  <2>1. Files' = Files /\ Clean' = Clean /\ answered' = answered
    BY <1>2 DEF Files, Clean, answered
  <2>2. RecordedFiles'
    BY <2>1, RecordedFilesPersist DEF Answered, LoadInv
  <2>3. LoadBounds' /\ Awaited'
    BY <1>2, <2>1 DEF LoadInv, LoadBounds, Awaited
  <2> QED
    BY <2>2, <2>3 DEF LoadInv
<1>3. CASE StartPod
  BY <1>2, <1>3 DEF StartPod, NoPod
<1>4. CASE Exit
  <2>1. CASE exit_code = 0
    <3>1. Clean
      BY <2>1 DEF exit_code, Clean, LoaderTyped, Summaries
    <3> QED
      BY <1>2, <1>4, <2>1, <3>1 DEF Exit, NoPod, LoaderTyped, LoadJobs
  <2>2. CASE exit_code # 0
    BY <1>1, <1>4, <2>2 DEF Exit
  <2> QED
    BY <2>1, <2>2
<1>5. CASE PodFails
  BY <1>1, <1>5 DEF PodFails
<1>6. CASE Ingest
  BY <1>6, LoadInvRestart DEF Ingest
<1> QED
  BY <1>3, <1>4, <1>5, <1>6

LEMMA LoadInvStep ==
  ASSUME ~RespondFirst, TypeInv, TypeInv', RegistryInv, ResponsesInv,
         LoaderTyped, LoadInv, [LoaderNext]_loader_vars
  PROVE  LoadInv'
<1>1. RowsKept /\ TablesGrow
  BY LoaderStepIsClientStep, PipelineKeeps
<1>2. ASSUME UNCHANGED <<load_job, pod, summary>>,
             \A c \in Clients : Running /\ pod.waiting /\ c = pod.client
                                  => requests'[c] = requests[c]
      PROVE  LoadInv'
  BY <1>1, <1>2, LoadInvElsewhere
<1>3. CASE SubmitFile
  BY <1>1, <1>3, SubmitFileRecords
<1>4. CASE ReadResponse
  BY <1>1, <1>4, ReadResponseRecords
<1>5. ASSUME NEW b \in Clients, serve(b), UNCHANGED loader PROVE LoadInv'
  <2>1. UNCHANGED <<load_job, pod, summary>>
    BY <1>5 DEF loader
  <2> QED
    BY <1>1, <1>5, <2>1, ServedRequestKeepsFile, LoadInvElsewhere
<1>6. ASSUME NEW b \in Clients, ~(Running /\ b = pod.client),
             ReuseActiveJob(b) \/ Respond(b) \/ AbortRequest(b), UNCHANGED loader
      PROVE  LoadInv'
  <2>1. \A c \in Clients \ {b} : requests'[c] = requests[c]
    BY <1>6 DEF ReuseActiveJob, Respond, AbortRequest, TypeInv, TypeOK, ApiTypeOK
  <2>2. UNCHANGED <<load_job, pod, summary>>
    BY <1>6 DEF loader
  <2> QED
    BY <1>2, <1>6, <2>1, <2>2
<1>7. CASE StartPod \/ Exit \/ PodFails \/ Ingest
  BY <1>1, <1>7, LoadJobSteps
<1>8. CASE UNCHANGED <<api, loader>>
  BY <1>2, <1>8 DEF api, loader
<1>9. CASE OldPodSubmits
  <2>1. PICK b \in Clients :
          /\ old_pods[b] # << >>
          /\ \A c \in Clients : c # b => requests'[c] = requests[c]
    BY <1>9 DEF OldPodSubmits, RejectConflict, AcceptCompleted, ReadNoDocument, api,
                TypeInv, TypeOK, ApiTypeOK
  <2>2. Running => b # pod.client
    BY <2>1 DEF LoaderTyped
  <2>3. UNCHANGED <<load_job, pod, summary>>
    BY <1>9 DEF OldPodSubmits
  <2> QED
    BY <1>2, <2>1, <2>2, <2>3
<1>10. CASE OldPodEnds
  BY <1>2, <1>10 DEF OldPodEnds, api
<1> QED
  BY <1>3, <1>4, <1>5, <1>6, <1>7, <1>8, <1>9, <1>10
     DEF LoaderNext, Load, Serve, ServeAbandoned, loader_vars, vars

\* A file with a row in the queue is accounted for: what the row says is true
\* of the tables.
LEMMA RecordedIsAccounted ==
  ASSUME RegistryInv, NEW f \in FileRecords, recorded(f)
  PROVE  accounted(f)
<1>1. TypeInv /\ CompletedMeansIngested /\ FailedForCause
  BY DEF RegistryInv, QueueInv, RegistryFacts, JobFacts, Cause, PermanentErrors,
         CompletedMeansIngested, FailedForCause, HasCause, JobsWith
<1>2. CASE registered(f)
  BY <1>2 DEF accounted
<1>3. ASSUME NEW id \in jobs_of(f) PROVE accounted(f)
  <2>1. /\ id \in JobIds /\ jobs[id] # None
        /\ jobs[id].document_id = f.document_id /\ jobs[id].payload = f.payload
    BY DEF jobs_of
  <2>2. jobs[id].status \in Statuses
    BY <1>1, <2>1 DEF TypeInv, TypeOK, StoreTypeOK, JobRows
  <2>3. CASE jobs[id].status \in {"pending", "processing"}
    BY <2>3 DEF accounted
  <2>4. CASE jobs[id].status = "failed"
    BY <1>1, <2>1, <2>4 DEF accounted, FailedForCause, JobsWith
  <2>5. CASE jobs[id].status = "completed"
    <3>1. raw_documents[f.document_id] = raw_row(f.payload)
      BY <1>1, <2>1, <2>5 DEF CompletedMeansIngested, JobsWith
    <3>2. f.document_id \in Documents /\ f.payload \in Payloads
      BY DEF FileRecords
    <3>3. ~ParseFails(f.payload)
      BY <1>1, <2>1, <2>5 DEF CompletedMeansIngested, JobsWith
    <3>4. raw_row(f.payload) \in RawRows
      BY <3>2, <3>3 DEF raw_row, RawRows, CanonicalIds
    <3>5. raw_documents[f.document_id] # None
      BY <3>1, <3>4, NoneAssumption
    <3>6. registered(f)
      BY <3>1, <3>5 DEF registered, conflicts, raw_row
    <3> QED
      BY <3>6 DEF accounted
  <2> QED
    BY <2>2, <2>3, <2>4, <2>5 DEF Statuses
<1> QED
  BY <1>2, <1>3 DEF recorded

\* A Job that is complete has lost none of its files, for any directory, any
\* number of pods, old pods, requests left behind and other clients, provided
\* the commit comes before the response: the Job ran with exit code 0, so its
\* last pod had an answer to every file that was neither a conflict nor an
\* error; such an answer names a row or a registration, and a row that is
\* settled is true of the tables.
THEOREM CompleteJobsAreAccounted ==
  ASSUME ~RespondFirst
  PROVE  LoaderSpec => []CompleteMeansAccounted
<1> DEFINE Inv == RegistryInv /\ ResponsesInv /\ LoaderTyped /\ LoadInv
<1>1. LoaderInit => Inv
  BY RegistryInvInit, ResponsesInvInit, LoaderTypedInit, LoadInvInit DEF LoaderInit
<1>2. Inv /\ [LoaderNext]_loader_vars => Inv'
  <2> SUFFICES ASSUME Inv, [LoaderNext]_loader_vars PROVE Inv'
    OBVIOUS
  <2>1. [Next]_vars /\ LoaderTyped'
    BY LoaderStepIsClientStep, LoaderTypedStep
  <2>2. RegistryInv' /\ ResponsesInv'
    BY <2>1, RegistryInvStep, ResponsesInvStep
  <2>3. LoadInv'
    BY <2>2, LoadInvStep DEF RegistryInv, QueueInv
  <2> QED
    BY <2>1, <2>2, <2>3
<1>3. Inv => CompleteMeansAccounted
  <2> SUFFICES ASSUME Inv, load_job.status = "complete", NEW i \in DOMAIN Files
               PROVE  accounted(Files[i])
    BY DEF CompleteMeansAccounted
  <2>1. Clean /\ summary.submitted = Len(Files) /\ ~pod.waiting
    BY DEF LoadInv, LoadBounds
  <2>2. load_job.ingests \in 1 .. Len(Directories)
    BY DEF LoaderTyped, LoadJobs
  <2>3. Files \in Seq(FileRecords)
    BY <2>2, LoaderAssumption DEF Files, FileRecords
  <2>4. Files[i] \in FileRecords /\ i \in 1 .. Len(Files)
    BY <2>3
  <2>5. Files[i] \in Answered
    BY <2>1, <2>4 DEF Answered, answered
  <2>6. recorded(Files[i])
    BY <2>1, <2>4, <2>5 DEF LoadInv, RecordedFiles
  <2> QED
    BY <2>4, <2>6, RecordedIsAccounted
<1> QED
  BY <1>1, <1>2, <1>3, PTL DEF LoaderSpec

-----------------------------------------------------------------------------
(* What the summary of a pod says                                          *)

RecordedOnes ==
  {i \in answered : \E f \in FileRecords : f = Files[i] /\ recorded(f)}

RegisteredOnes ==
  {i \in answered : \E f \in FileRecords : f = Files[i] /\ registered(f)}

ConflictingOnes ==
  {i \in answered : \E f \in FileRecords :
                      f = Files[i] /\ conflicts(f.document_id, f.payload)}

Responses == IF pod.waiting THEN summary.submitted - 1 ELSE summary.submitted

\* Each answer raises one counter, and a counter never exceeds the files it
\* is about.
CountersInv ==
  /\ pod.waiting => summary.submitted # 0
  /\ summary.accepted + summary.already_completed + summary.conflicts + summary.errors
       = Responses
  /\ summary.accepted + summary.already_completed <= Cardinality(RecordedOnes)
  /\ summary.already_completed <= Cardinality(RegisteredOnes)
  /\ summary.conflicts <= Cardinality(ConflictingOnes)

\* Counting the positions of a property that only spreads.
LEMMA OneMore ==
  ASSUME NEW n \in Nat, NEW S \in SUBSET (1 .. n),
         NEW m \in Nat, NEW T \in SUBSET (1 .. m), S \subseteq T
  PROVE  /\ Cardinality(S) \in Nat
         /\ Cardinality(T) \in Nat
         /\ Cardinality(S) <= Cardinality(T)
         /\ n + 1 \in T => Cardinality(S) + 1 <= Cardinality(T)
<1>1. IsFiniteSet(S) /\ IsFiniteSet(T)
  <2>1. IsFiniteSet(1 .. n) /\ IsFiniteSet(1 .. m)
    BY FS_Interval
  <2> QED
    BY <2>1, FS_Subset
<1>2. n + 1 \notin S
  OBVIOUS
<1>3. /\ IsFiniteSet(S \cup {n + 1})
      /\ Cardinality(S \cup {n + 1}) = Cardinality(S) + 1
  BY <1>1, <1>2, FS_AddElement
<1>4. n + 1 \in T => Cardinality(S \cup {n + 1}) <= Cardinality(T)
  BY <1>1, FS_Subset
<1> QED
  BY <1>1, <1>3, <1>4, FS_CardinalityType, FS_Subset

\* What was true of an answered file stays true of it, so the sets that are
\* counted only grow.
LEMMA OnesGrow ==
  ASSUME RowsKept, TablesGrow, Files' = Files, answered \subseteq answered'
  PROVE  /\ RecordedOnes \subseteq RecordedOnes'
         /\ RegisteredOnes \subseteq RegisteredOnes'
         /\ ConflictingOnes \subseteq ConflictingOnes'
<1>1. ASSUME NEW f \in FileRecords
      PROVE  /\ registered(f) => registered(f)'
             /\ conflicts(f.document_id, f.payload)
                  => conflicts(f.document_id, f.payload)'
  <2>1. f.document_id \in Documents
    BY DEF FileRecords
  <2>2. raw_documents[f.document_id] # None =>
          raw_documents'[f.document_id] = raw_documents[f.document_id]
    BY <2>1 DEF TablesGrow
  <2> QED
    BY <2>2 DEF registered, conflicts
<1>2. RecordedOnes \subseteq RecordedOnes'
  BY FileStaysRecorded DEF RecordedOnes
<1>3. RegisteredOnes \subseteq RegisteredOnes'
  BY <1>1 DEF RegisteredOnes
<1>4. ConflictingOnes \subseteq ConflictingOnes'
  BY <1>1 DEF ConflictingOnes
<1> QED
  BY <1>2, <1>3, <1>4

\* The counts before and after a step that answers at most one file more.
LEMMA CountsGrow ==
  ASSUME RowsKept, TablesGrow, Files' = Files,
         NEW n \in Nat, answered = 1 .. n,
         NEW m \in Nat, answered' = 1 .. m, n <= m
  PROVE  /\ Cardinality(RecordedOnes) \in Nat
         /\ Cardinality(RecordedOnes)' \in Nat
         /\ Cardinality(RecordedOnes) <= Cardinality(RecordedOnes)'
         /\ n + 1 \in RecordedOnes' =>
              Cardinality(RecordedOnes) + 1 <= Cardinality(RecordedOnes)'
         /\ Cardinality(RegisteredOnes) \in Nat
         /\ Cardinality(RegisteredOnes)' \in Nat
         /\ Cardinality(RegisteredOnes) <= Cardinality(RegisteredOnes)'
         /\ n + 1 \in RegisteredOnes' =>
              Cardinality(RegisteredOnes) + 1 <= Cardinality(RegisteredOnes)'
         /\ Cardinality(ConflictingOnes) \in Nat
         /\ Cardinality(ConflictingOnes)' \in Nat
         /\ Cardinality(ConflictingOnes) <= Cardinality(ConflictingOnes)'
         /\ n + 1 \in ConflictingOnes' =>
              Cardinality(ConflictingOnes) + 1 <= Cardinality(ConflictingOnes)'
<1>1. /\ RecordedOnes \subseteq RecordedOnes'
      /\ RegisteredOnes \subseteq RegisteredOnes'
      /\ ConflictingOnes \subseteq ConflictingOnes'
  BY OnesGrow
<1>2. /\ RecordedOnes \in SUBSET (1 .. n) /\ RecordedOnes' \in SUBSET (1 .. m)
      /\ RegisteredOnes \in SUBSET (1 .. n) /\ RegisteredOnes' \in SUBSET (1 .. m)
      /\ ConflictingOnes \in SUBSET (1 .. n) /\ ConflictingOnes' \in SUBSET (1 .. m)
  BY DEF RecordedOnes, RegisteredOnes, ConflictingOnes
<1>3. PICK R \in SUBSET (1 .. n), S \in SUBSET (1 .. m) :
        R = RecordedOnes /\ S = RecordedOnes' /\ R \subseteq S
  BY <1>1, <1>2
<1>4. PICK T \in SUBSET (1 .. n), U \in SUBSET (1 .. m) :
        T = RegisteredOnes /\ U = RegisteredOnes' /\ T \subseteq U
  BY <1>1, <1>2
<1>5. PICK V \in SUBSET (1 .. n), W \in SUBSET (1 .. m) :
        V = ConflictingOnes /\ W = ConflictingOnes' /\ V \subseteq W
  BY <1>1, <1>2
<1> QED
  BY <1>3, <1>4, <1>5, OneMore

\* The counters are typed, and they are about the first files.
LEMMA CountersTyped ==
  ASSUME LoaderTyped, pod.waiting => summary.submitted # 0
  PROVE  /\ Responses \in Nat
         /\ answered = 1 .. Responses
         /\ summary.submitted \in Nat
         /\ summary.accepted \in Nat
         /\ summary.already_completed \in Nat
         /\ summary.conflicts \in Nat
         /\ summary.errors \in Nat
<1>1. summary \in Summaries
  BY DEF LoaderTyped
<1>2. /\ summary.submitted \in Nat
      /\ summary.accepted \in Nat
      /\ summary.already_completed \in Nat
      /\ summary.conflicts \in Nat
      /\ summary.errors \in Nat
  BY <1>1 DEF Summaries
<1> QED
  BY <1>2 DEF Responses, answered

\* No answers, no counts.
LEMMA CountersRestart ==
  ASSUME summary = Zero, pod = NoPod
  PROVE  CountersInv
<1>1. /\ Zero.submitted = 0 /\ Zero.accepted = 0 /\ Zero.already_completed = 0
      /\ Zero.conflicts = 0 /\ Zero.errors = 0
      /\ NoPod.waiting = FALSE
  BY DEF Zero, NoPod
<1>2. answered = {} /\ Responses = 0
  BY <1>1 DEF answered, Responses
<1>3. RecordedOnes = {} /\ RegisteredOnes = {} /\ ConflictingOnes = {}
  BY <1>2 DEF RecordedOnes, RegisteredOnes, ConflictingOnes
<1> QED
  BY <1>1, <1>2, <1>3, FS_EmptySet DEF CountersInv

\* A step with no answer to the pod, and with no new start, keeps the counts.
LEMMA CountersStay ==
  ASSUME LoaderTyped, LoaderTyped', CountersInv, RowsKept, TablesGrow,
         Files' = Files, Responses' = Responses,
         pod'.waiting => summary'.submitted # 0,
         summary'.accepted = summary.accepted,
         summary'.already_completed = summary.already_completed,
         summary'.conflicts = summary.conflicts,
         summary'.errors = summary.errors
  PROVE  CountersInv'
<1>1. PICK n \in Nat : n = Responses /\ answered = 1 .. n
  BY CountersTyped DEF CountersInv
<1>2. answered' = 1 .. n
  BY <1>1 DEF answered, Responses
<1>3. /\ Cardinality(RecordedOnes) <= Cardinality(RecordedOnes)'
      /\ Cardinality(RecordedOnes) \in Nat /\ Cardinality(RecordedOnes)' \in Nat
      /\ Cardinality(RegisteredOnes) <= Cardinality(RegisteredOnes)'
      /\ Cardinality(RegisteredOnes) \in Nat /\ Cardinality(RegisteredOnes)' \in Nat
      /\ Cardinality(ConflictingOnes) <= Cardinality(ConflictingOnes)'
      /\ Cardinality(ConflictingOnes) \in Nat /\ Cardinality(ConflictingOnes)' \in Nat
  BY <1>1, <1>2, CountsGrow
<1>4. /\ summary.accepted \in Nat /\ summary.already_completed \in Nat
      /\ summary.conflicts \in Nat /\ summary.errors \in Nat
  BY CountersTyped DEF CountersInv
<1> QED
  BY <1>3, <1>4 DEF CountersInv

\* An answer raises the counter that says what is now true of the file.
LEMMA CountersRise ==
  ASSUME LoaderTyped, LoaderTyped', CountersInv, RowsKept, TablesGrow,
         Files' = Files, Responses' = Responses + 1, ~pod'.waiting,
         NEW f \in FileRecords, f = Files[Responses + 1],
         \/ /\ summary'.accepted = summary.accepted + 1
            /\ summary'.already_completed = summary.already_completed
            /\ summary'.conflicts = summary.conflicts
            /\ summary'.errors = summary.errors
            /\ recorded(f)'
         \/ /\ summary'.accepted = summary.accepted
            /\ summary'.already_completed = summary.already_completed + 1
            /\ summary'.conflicts = summary.conflicts
            /\ summary'.errors = summary.errors
            /\ registered(f)'
         \/ /\ summary'.accepted = summary.accepted
            /\ summary'.already_completed = summary.already_completed
            /\ summary'.conflicts = summary.conflicts + 1
            /\ summary'.errors = summary.errors
            /\ conflicts(f.document_id, f.payload)'
         \/ /\ summary'.accepted = summary.accepted
            /\ summary'.already_completed = summary.already_completed
            /\ summary'.conflicts = summary.conflicts
            /\ summary'.errors = summary.errors + 1
  PROVE  CountersInv'
<1>1. PICK n \in Nat : n = Responses /\ answered = 1 .. n
  BY CountersTyped DEF CountersInv
<1>2. answered' = 1 .. n + 1 /\ n + 1 \in answered' /\ f = Files'[n + 1]
  <2>1. answered' = 1 .. Responses'
    BY DEF answered, Responses
  <2> QED
    BY <1>1, <2>1
<1>3. /\ recorded(f)' => n + 1 \in RecordedOnes'
      /\ registered(f)' => n + 1 \in RegisteredOnes'
      /\ conflicts(f.document_id, f.payload)' => n + 1 \in ConflictingOnes'
  BY <1>2 DEF RecordedOnes, RegisteredOnes, ConflictingOnes
<1>4. registered(f)' => recorded(f)'
  BY DEF recorded
<1>5. n + 1 \in Nat /\ n <= n + 1
  OBVIOUS
<1>6. /\ Cardinality(RecordedOnes) <= Cardinality(RecordedOnes)'
      /\ Cardinality(RecordedOnes) \in Nat /\ Cardinality(RecordedOnes)' \in Nat
      /\ recorded(f)' => Cardinality(RecordedOnes) + 1 <= Cardinality(RecordedOnes)'
      /\ Cardinality(RegisteredOnes) <= Cardinality(RegisteredOnes)'
      /\ Cardinality(RegisteredOnes) \in Nat /\ Cardinality(RegisteredOnes)' \in Nat
      /\ registered(f)' => Cardinality(RegisteredOnes) + 1 <= Cardinality(RegisteredOnes)'
      /\ Cardinality(ConflictingOnes) <= Cardinality(ConflictingOnes)'
      /\ Cardinality(ConflictingOnes) \in Nat /\ Cardinality(ConflictingOnes)' \in Nat
      /\ conflicts(f.document_id, f.payload)' =>
           Cardinality(ConflictingOnes) + 1 <= Cardinality(ConflictingOnes)'
  BY <1>1, <1>2, <1>3, <1>5, CountsGrow
<1>7. /\ summary.accepted \in Nat /\ summary.already_completed \in Nat
      /\ summary.conflicts \in Nat /\ summary.errors \in Nat
  BY CountersTyped DEF CountersInv
<1>8. PICK R \in Nat, S \in Nat, T \in Nat, U \in Nat, V \in Nat, W \in Nat :
        /\ R = Cardinality(RecordedOnes) /\ S = Cardinality(RecordedOnes)'
        /\ T = Cardinality(RegisteredOnes) /\ U = Cardinality(RegisteredOnes)'
        /\ V = Cardinality(ConflictingOnes) /\ W = Cardinality(ConflictingOnes)'
  BY <1>6
<1>9. PICK a \in Nat, b \in Nat, c \in Nat, e \in Nat :
        /\ a = summary.accepted /\ b = summary.already_completed
        /\ c = summary.conflicts /\ e = summary.errors
  BY <1>7
<1>10. /\ a + b + c + e = n
       /\ a + b <= R
       /\ b <= T
       /\ c <= V
  BY <1>1, <1>8, <1>9 DEF CountersInv
<1>11. /\ summary'.accepted + summary'.already_completed + summary'.conflicts
            + summary'.errors = n + 1
       /\ summary'.accepted + summary'.already_completed <= S
       /\ summary'.already_completed <= U
       /\ summary'.conflicts <= W
  BY <1>4, <1>6, <1>8, <1>9, <1>10
<1> QED
  BY <1>1, <1>8, <1>11 DEF CountersInv

\* The answer to the next file, if it comes from the first read.
LEMMA SubmitFileCounts ==
  ASSUME TypeInv, LoaderTyped, LoaderTyped', CountersInv, RowsKept, TablesGrow,
         SubmitFile
  PROVE  CountersInv'
<1>1. /\ ~pod.waiting /\ Files' = Files
      /\ summary.submitted < Len(Files)
      /\ load_job.status = "running" /\ load_job.ingests # 0
  BY DEF SubmitFile, count_submitted, Running, LoaderTyped, Files
<1>2. PICK n \in Nat : n = summary.submitted /\ n = Responses
  BY <1>1 DEF LoaderTyped, Summaries, Responses
<1>3. PICK f \in FileRecords : f = Files[n + 1]
  BY <1>1, <1>2, FilesLemma
<1>4. f = NextFile
  BY <1>2, <1>3 DEF NextFile
<1>5. summary \in Summaries /\ pod \in Pods
  BY DEF LoaderTyped
<1>6. CASE RejectConflict(pod.client, NextFile.document_id, NextFile.payload)
           /\ count_submitted("conflicts")
  <2>1. /\ summary'.submitted = n + 1 /\ pod' = pod
        /\ summary'.accepted = summary.accepted
        /\ summary'.already_completed = summary.already_completed
        /\ summary'.conflicts = summary.conflicts + 1
        /\ summary'.errors = summary.errors
    BY <1>2, <1>5, <1>6 DEF count_submitted, Summaries
  <2>2. Responses' = n + 1 /\ ~pod'.waiting
    BY <1>1, <2>1 DEF Responses
  <2>3. conflicts(f.document_id, f.payload)'
    BY <1>4, <1>6 DEF RejectConflict, store, conflicts
  <2> QED
    BY <1>1, <1>2, <1>3, <2>1, <2>2, <2>3, CountersRise
<1>7. CASE AcceptCompleted(pod.client, NextFile.document_id, NextFile.payload)
           /\ count_submitted("already_completed")
  <2>1. /\ summary'.submitted = n + 1 /\ pod' = pod
        /\ summary'.accepted = summary.accepted
        /\ summary'.already_completed = summary.already_completed + 1
        /\ summary'.conflicts = summary.conflicts
        /\ summary'.errors = summary.errors
    BY <1>2, <1>5, <1>7 DEF count_submitted, Summaries
  <2>2. Responses' = n + 1 /\ ~pod'.waiting
    BY <1>1, <2>1 DEF Responses
  <2>3. registered(f)'
    BY <1>4, <1>7 DEF AcceptCompleted, store, registered, conflicts
  <2> QED
    BY <1>1, <1>2, <1>3, <2>1, <2>2, <2>3, CountersRise
<1>8. CASE /\ summary' = [summary EXCEPT !.submitted = @ + 1]
           /\ pod' = [pod EXCEPT !.waiting = TRUE]
  <2>1. /\ summary'.submitted = n + 1 /\ pod'.waiting
        /\ summary'.accepted = summary.accepted
        /\ summary'.already_completed = summary.already_completed
        /\ summary'.conflicts = summary.conflicts
        /\ summary'.errors = summary.errors
    BY <1>2, <1>5, <1>8 DEF Summaries, Pods
  <2>2. Responses' = Responses /\ summary'.submitted # 0
    BY <1>2, <2>1 DEF Responses
  <2> QED
    BY <1>1, <2>1, <2>2, CountersStay
<1>9. CASE count_submitted("errors")
  <2>1. /\ summary'.submitted = n + 1 /\ pod' = pod
        /\ summary'.accepted = summary.accepted
        /\ summary'.already_completed = summary.already_completed
        /\ summary'.conflicts = summary.conflicts
        /\ summary'.errors = summary.errors + 1
    BY <1>2, <1>5, <1>9 DEF count_submitted, Summaries
  <2>2. Responses' = n + 1 /\ ~pod'.waiting
    BY <1>1, <2>1 DEF Responses
  <2> QED
    BY <1>1, <1>2, <1>3, <2>1, <2>2, CountersRise
<1> QED
  BY <1>6, <1>7, <1>8, <1>9 DEF SubmitFile

\* The answer that the pod waits for: a 202 names a job with the content of
\* the file, and the file is the last one submitted.
LEMMA ReadResponseCounts ==
  ASSUME ~RespondFirst, TypeInv, ResponsesInv, LoaderTyped, LoaderTyped',
         LoadInv, CountersInv, RowsKept, TablesGrow, ReadResponse
  PROVE  CountersInv'
<1>1. /\ pod.waiting /\ Files' = Files
      /\ pod' = [pod EXCEPT !.waiting = FALSE]
  BY DEF ReadResponse, count, Files
<1>2. ~pod'.waiting
  BY <1>1 DEF LoaderTyped, Pods
<1>3. PICK c \in Clients, r \in Requests, f \in FileRecords :
        /\ c = pod.client
        /\ r = requests[c]
        /\ f = Files[summary.submitted]
        /\ r.document_id = f.document_id
        /\ r.payload = f.payload
  BY <1>1 DEF LoadInv, Awaited
<1>4. PICK n \in Nat : n = Responses /\ summary.submitted = n + 1
  <2>1. Responses \in Nat /\ summary.submitted \in Nat
    BY CountersTyped DEF CountersInv
  <2> QED
    BY <1>1, <2>1 DEF Responses
<1>5. f = Files[Responses + 1]
  BY <1>3, <1>4
<1>6. summary \in Summaries
  BY DEF LoaderTyped
<1>7. Responses' = summary'.submitted
  BY <1>2 DEF Responses
<1>8. CASE count("errors")
  <2>1. /\ summary'.submitted = n + 1
        /\ summary'.accepted = summary.accepted
        /\ summary'.already_completed = summary.already_completed
        /\ summary'.conflicts = summary.conflicts
        /\ summary'.errors = summary.errors + 1
    BY <1>4, <1>6, <1>8 DEF count, Summaries
  <2> QED
    BY <1>1, <1>2, <1>4, <1>5, <1>7, <2>1, CountersRise
<1>9. CASE (ReuseActiveJob(pod.client) \/ Respond(pod.client)) /\ count("accepted")
  <2>1. /\ summary'.submitted = n + 1
        /\ summary'.accepted = summary.accepted + 1
        /\ summary'.already_completed = summary.already_completed
        /\ summary'.conflicts = summary.conflicts
        /\ summary'.errors = summary.errors
    BY <1>4, <1>6, <1>9 DEF count, Summaries
  <2>2. \E id \in JobIds : Names(id, r.document_id, r.payload)
    <3>1. CASE ReuseActiveJob(c)
      BY <1>3, <3>1, HashLemma DEF ReuseActiveJob, active_jobs, JobsWith, Names
    <3>2. CASE Respond(c)
      BY <1>3, <3>2 DEF Respond, ResponsesInv, TypeInv, ReservedIds
    <3> QED
      BY <1>3, <1>9, <3>1, <3>2
  <2>3. recorded(f)
    BY <1>3, <2>2 DEF recorded, jobs_of, Names
  <2>4. recorded(f)'
    BY <2>3, FileStaysRecorded
  <2> QED
    BY <1>1, <1>2, <1>4, <1>5, <1>7, <2>1, <2>4, CountersRise
<1> QED
  BY <1>8, <1>9 DEF ReadResponse

LEMMA CountersStep ==
  ASSUME ~RespondFirst, TypeInv, RegistryInv, ResponsesInv,
         LoaderTyped, LoaderTyped', LoadInv, CountersInv, [LoaderNext]_loader_vars
  PROVE  CountersInv'
<1>1. RowsKept /\ TablesGrow
  BY LoaderStepIsClientStep, PipelineKeeps
<1>2. ASSUME summary' = Zero, pod' = NoPod PROVE CountersInv'
  <2>1. (summary = Zero /\ pod = NoPod => CountersInv)'
    BY CountersRestart, PTL
  <2> QED
    BY <1>2, <2>1
<1>3. ASSUME ~pod.waiting, ~pod'.waiting, UNCHANGED summary,
             load_job'.ingests = load_job.ingests
      PROVE  CountersInv'
  <2>1. Files' = Files /\ Responses' = Responses
    BY <1>3 DEF Files, Responses
  <2> QED
    BY <1>1, <1>3, <2>1, CountersStay
<1>4. CASE UNCHANGED loader \/ OldPodSubmits \/ OldPodEnds
  <2>1. UNCHANGED <<load_job, pod, summary>>
    BY <1>4 DEF loader, OldPodSubmits, OldPodEnds
  <2>2. Files' = Files /\ Responses' = Responses
    BY <2>1 DEF Files, Responses
  <2>3. pod'.waiting => summary'.submitted # 0
    BY <2>1 DEF CountersInv
  <2> QED
    BY <1>1, <2>1, <2>2, <2>3, CountersStay
<1>5. CASE SubmitFile
  BY <1>1, <1>5, SubmitFileCounts
<1>6. CASE ReadResponse
  BY <1>1, <1>6, ReadResponseCounts
<1>7. CASE StartPod
  BY <1>3, <1>7 DEF StartPod, NoPod
<1>8. CASE Exit
  <2>1. CASE exit_code = 0
    BY <1>3, <1>8, <2>1 DEF Exit, NoPod, LoaderTyped, LoadJobs
  <2>2. CASE exit_code # 0
    BY <1>2, <1>8, <2>2 DEF Exit, retry
  <2> QED
    BY <2>1, <2>2
<1>9. CASE PodFails \/ Ingest
  BY <1>2, <1>9 DEF PodFails, Ingest, retry
<1> QED
  BY <1>4, <1>5, <1>6, <1>7, <1>8, <1>9
     DEF LoaderNext, Load, Serve, ServeAbandoned, loader_vars

\* The summary of a pod is true of the database at every moment, for any
\* directories and any number of pods, clients and workers, provided the
\* commit comes before the response: an answer is counted when the row or the
\* registration that it speaks of is there, and neither ever goes away.
THEOREM SummariesAreTrue ==
  ASSUME ~RespondFirst
  PROVE  LoaderSpec => []SummaryIsTrue
<1> DEFINE Inv == RegistryInv /\ ResponsesInv /\ LoaderTyped /\ LoadInv /\ CountersInv
<1>1. LoaderInit => Inv
  BY RegistryInvInit, ResponsesInvInit, LoaderTypedInit, LoadInvInit, CountersRestart
     DEF LoaderInit
<1>2. Inv /\ [LoaderNext]_loader_vars => Inv'
  <2> SUFFICES ASSUME Inv, [LoaderNext]_loader_vars PROVE Inv'
    OBVIOUS
  <2>1. [Next]_vars /\ LoaderTyped'
    BY LoaderStepIsClientStep, LoaderTypedStep
  <2>2. RegistryInv' /\ ResponsesInv'
    BY <2>1, RegistryInvStep, ResponsesInvStep
  <2>3. TypeInv /\ TypeInv'
    BY <2>2 DEF RegistryInv, QueueInv
  <2>4. LoadInv'
    BY <2>3, LoadInvStep
  <2>5. CountersInv'
    BY <2>1, <2>3, CountersStep
  <2> QED
    BY <2>1, <2>2, <2>4, <2>5
<1>3. Inv => SummaryIsTrue
  <2> SUFFICES ASSUME Inv PROVE SummaryIsTrue
    OBVIOUS
  <2>1. PICK n \in Nat : n = Responses /\ answered = 1 .. n
    BY CountersTyped DEF CountersInv
  <2>2. \A i \in answered : \E f \in FileRecords : f = Files[i]
    <3> SUFFICES ASSUME NEW i \in 1 .. n PROVE \E f \in FileRecords : f = Files[i]
      BY <2>1
    <3>1. n <= summary.submitted /\ summary.submitted \in Nat
      BY <2>1 DEF Responses, LoaderTyped, Summaries
    <3>2. load_job.ingests # 0 /\ summary.submitted <= Len(Files)
      BY <3>1 DEF LoadInv, LoadBounds
    <3>3. Len(Files) \in Nat
      BY <3>2, FilesLemma DEF LoadInv, LoadBounds, LoaderTyped, LoadJobs, Files, LoaderAssumption
    <3>4. i - 1 \in Nat /\ i - 1 < Len(Files) /\ (i - 1) + 1 = i
      BY <3>1, <3>2, <3>3
    <3> QED
      BY <3>2, <3>4, FilesLemma
  <2>3. /\ {i \in answered : recorded(Files[i])} = RecordedOnes
        /\ {i \in answered : registered(Files[i])} = RegisteredOnes
        /\ {i \in answered : conflicts(Files[i].document_id, Files[i].payload)}
             = ConflictingOnes
    BY <2>2 DEF RecordedOnes, RegisteredOnes, ConflictingOnes
  <2>4. Cardinality(answered) = n
    BY <2>1, FS_Interval
  <2> QED
    BY <2>1, <2>3, <2>4 DEF SummaryIsTrue, CountersInv
<1> QED
  BY <1>1, <1>2, <1>3, PTL DEF LoaderSpec
=============================================================================
