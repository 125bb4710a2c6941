# Verification of email_dedup

`email_dedup` is an asynchronous ingestion prototype: clients POST snapshots of
e-mail threads, workers parse them, give each thread a canonical id and register
the document under it, and clients look up canonical ids, the documents of a
canonical thread and its parent and children. PostgreSQL is both the store and
the job queue. This directory holds TLA+ models of that program, TLC
configurations that check them, and TLAPS proofs about them.

Run everything from this directory: `tlc -workers 2 -config faults.cfg MCPipeline`,
`tlapm IngestionPipelineProofs.tla`.

## 1. The system

| Part | Code | State | Operations | Modelled by |
|---|---|---|---|---|
| Canonical ids | `canonicalization.py`, `hierarchy.py` 11-33 | none | encode, digest, expected parent | `Canonicalization` |
| Tables and statements | `db/models.py`, `db/repository.py`, `db/session.py`, `alembic/` | `ingestion_jobs`, `raw_documents`, `canonical_threads`, the id sequence | the statements of `repository.py` | `IngestionStore` |
| Submission | `api/app.py` 62-88, `api/deps.py`, `repository.submit_document` | one transaction per request | POST /documents | `SubmitApi` |
| Workers | `worker.py`, `claim_next_job`, `process_job`, `upsert_processed_document` | locals of the loop, the stop event, the open transaction | claim, process, recover, stop, die, restart | `IngestionWorker` |
| Lookups | `api/app.py` 112-177, `repository.get_*` | none | three GET routes of one to three SELECTs | `Lookups` |
| In-memory store | `hierarchy.CanonicalStore` | `_nodes`, `_documents` | upsert, parent, children, edges | `CanonicalNodes`, `CanonicalStore` |
| Parser | `parser.py`, `models.py` | none | split blocks, strip quotes, read headers | `ThreadParser` |
| Loader | `loader.py`, `scripts/load_directory.py`, `k8s/06-loader-test.yaml`, `Makefile` (ingest) | counters, position in the directory; status and retries of the Job | submit every file, exit, re-run | `DirectoryLoader` |
| Evaluation | `scripts/evaluate.py`, `eval_labels.py` | the loaded documents | labels, three validations, order comparison | `Evaluation` |
| Job status, health | `api/app.py` 54-60, 90-110 | none | read one row | not modelled: one read, no decision |
| Settings, packaging | `settings.py`, `compose.yaml`, `k8s/`, `Dockerfile` | none | configuration, restart policy | constants; the `Restart` action |

**Interaction.** The API and each worker are operating-system processes that
share nothing but the database. Each SELECT, INSERT, UPDATE and COMMIT is a step
of its own and the isolation level is PostgreSQL's default, READ COMMITTED, so
two statements of one transaction see two states. Workers coordinate by row
locks only: `FOR UPDATE SKIP LOCKED` when they claim, and the unique keys of
`canonical_threads` and `raw_documents` when they insert. The loader is a client of
the API; the evaluation reads the same files without it and feeds their ids to
the in-memory store.

**What is hard in it.** Two workers at one job, one document or one thread; two
submitters of one document; a read that is stale when it is used; the claim being
committed before the work is done, so that a worker can die in between; a commit
that succeeds although the worker sees it fail; the retry budget; the order of
commit and response; SIGTERM at any time; a loader that gives up on a request
which the API goes on with; header blocks that blank lines do not end and quote
prefixes that take part of the text with them. `PROJECT.json` lists them as hazards,
each at the line where it bites, with the properties that watch it.

**What makes each part correct.**
- *Queue*: a job has one owner, is tried at most `MaxAttempts` times, is never
  lost unless a process dies, and settles for good, unless an acknowledgement was
  lost: then its worker may reopen it, once.
- *Registration*: a document is registered once, under the id of its content, and
  never moves; a thread exists exactly when a document has been observed in it.
- *Submission*: a 202 stays true; resubmission does not multiply jobs.
- *Lookups*: an answer lies between the state when it was asked and the state
  when it was given.
- *In-memory store*: both indexes agree, and edges do not depend on the order of
  upserts.
- *Parser*: a file yields the Message-IDs that are in it, or is refused; the form
  of a near-duplicate makes no difference. Bodies that pass for headers or for a
  quotation are the exceptions.
- *Loader*: its counters and its exit code are true of the database.
- *Evaluation*: the scores tell a corpus with right names from one with wrong ones.

## 2. The modules

```
Canonicalization
 +- IngestionStore                    tables, statements
 |   +- SubmitApi                     POST /documents
 |   +- IngestionWorker               the worker processes
 |        both: IngestionPipeline     Init, Next, Spec, FairSpec, properties
 |              |  implements JobLifecycle and CanonicalRegistry (abstract)
 |              +- MCPipeline                       instances for TLC
 |              +- DirectoryLoader                  the loader as its clients; MCLoader
 |              +- IngestionPipelineProofs          typing, claims, retry budget
 |                   +- IngestionRegistryProofs     verdicts, registrations, and both
 |                        |                         abstract specifications
 |                        +- IngestionClientProofs  what a 202 said, orphans, duplicates
 |                             +- DirectoryLoaderProofs
 +- Lookups      over CanonicalRegistry; MCLookups, LookupsProofs
 +- CanonicalNodes                    the nodes of the in-memory store
     +- CanonicalStore                implements CanonicalRegistry;
     |                                MCCanonicalStore, CanonicalStoreProofs
     +- Evaluation                    scripts/evaluate.py; MCEvaluation,
          |                           EvaluationProofs, ThreadParserProofs
          +- ThreadCorpus             a directory of snapshots
               +- ThreadParser        parse_thread
```

**Canonicalization.** Message-IDs are TLA+ strings and are joined with a newline
as the code joins them, so an encoding that takes two lists for one would show.
SHA-256 is a record around its input, that is, free of collisions. (An id that
contains a newline would make two lists collide; neither a header value of the
parser nor an id of the models contains one.)

**IngestionStore.** The variables hold what is *committed*: `jobs` (`None` where
no row is), `next_job_id` (a sequence: never rolled back, so an aborted request
leaves a gap, and rows appear in another order than their ids), `raw_documents`,
`canonical_threads`. A payload is a model value; `ParsedIds` gives the ids it
parses to, `<<>>` for a `ParseError`. Timestamps, indexes and column widths are
left out.

**SubmitApi.** A request runs *lookup* (`session.get(RawDocument)`), *insert* (the
SELECT of an active job has found none), *commit* and *respond*. The commit is
the code after the `yield` of `get_db_session`; `RespondFirst` says whether it
runs after the response (FastAPI from 0.118 on; `pyproject.toml` asks for 0.115
or later). `AbortRequest` stands for an exception, the death of the API process
or a lost connection at any of these points. `accepted[c]` is what the last 202
that reached client `c` said.

**IngestionWorker.** The labels are the statements of `run_worker_loop` and
`process_next_job`:

| Label | Next statement | Action |
|---|---|---|
| `check` | `stop_event.is_set()` | `CheckStop` |
| `claim` | SELECT ... FOR UPDATE SKIP LOCKED, UPDATE | `Claim`, `Idle` |
| `claimed` | commit of the claim | `CommitClaim` |
| `process` | read document, compare content, parse, check id | `ReadDocument`, `Reject` |
| `insert_thread` | INSERT ... ON CONFLICT DO NOTHING | `InsertThread` |
| `insert_raw` | flush of the new `RawDocument` | `InsertRaw`, `DuplicateRaw` |
| `commit` | complete_job, commit | `CommitProcessed`, `CommitAckLost` |
| `recover` | fail_job or requeue_job in a second transaction | `Recover` |

What an open transaction has written is told by the label and by `existing` and
`new_thread`, so a crash or a rollback is the mere loss of these. An INSERT on a
key that another open transaction has inserted waits for it, as PostgreSQL does.
`TransientError` may hit any statement or the commit; `Crash` may hit at any
label, also because the claim or the recovery transaction raises, which nothing
catches; `Restart` is the restart policy of compose and Kubernetes.

**Lookups** takes the registrations from `CanonicalRegistry`, which the pipeline
is checked to implement, and runs one reader against them: readers write nothing,
so they cannot meet each other.

**CanonicalNodes, CanonicalStore.** The store is sequential; its model takes every
order of calls, the refused ones included. What upsert makes of `_nodes`, and the
relations resolved from it, are operators on a value, so that the evaluation can
build several stores from one list of documents.

**DirectoryLoader** extends the pipeline: a pod is a client of `SubmitApi`, so each
response is one that the API gives, with its reads, its commit and its failures, or
a 5xx or 422 before any read, whatever is registered.
`SubmitFile` and `ReadResponse` are the two halves of the loop body, since the API
and the workers go on while the pod waits. `PodFails` is the exception that leaves
`load_directory` on a timeout or a refused connection, and the death of the pod;
the request it leaves stays in the API (`ServeAbandoned`), and the next pod, another
client, starts from the first file until `BackoffLimit` is spent. `Ingest` is `make
ingest`, which deletes and applies the Job again, perhaps with other files in the
image. A pod that was running has a grace period: it goes on with its remaining
files (`OldPodSubmits`) next to the pods of the new Job until it ends (`OldPodEnds`).

**ThreadParser** works on lines as records: the quote mark, whether the text is
indented, and whether it is a header with name and value, other text, a row of
dashes or blank. These are what the regular expressions of `parser.py` tell
apart. A quoted block starts at a mark and `From:`, in just this case, or at the
dashes before it; as whitespace may be line ends, blank lines may follow the dashes
and the mark may stand on a line of its own. A pipe takes one blank with it and
a greater-than sign all of them; headers of a block are read up to the first line
that is neither header, nor blank, nor an indented continuation, which is
appended whole. The name Message-ID counts in any case. Characters, the values of
other headers and the rest of the bodies are left out. `<<>>` stands for a `ParseError`.

**ThreadCorpus** writes the files: whole threads, replies and near-duplicates,
each message in one of the forms that DESIGN.md lists (header order, blank lines,
folded headers, bodies, quote style, dashes with and without a blank line). Bodies are
empty, plain text, or begin with some other header line, with an indented line or
with a line "Message-Id: x", or forward the headers of another message, `From:` and
`Message-ID:`, in their text. It is the environment, so its definitions are
external. It gives the reference for the parser: `written(n)`, the ids of the
messages a file was made of. Names are free: a file may stand under a name that
is wrong about its thread.

**Evaluation** loads the corpus as `load_eval_documents` does and defines the three
validations as predicates on the documents. A file name is a path of segments, the
base of the last one and the letters after it, which `normalize_eval_stem` strips;
if only letters are there it raises a `ValueError`, outside the `try` of the loop,
and the script ends without a result: `Load` asks for `has_label` of every name. The list of documents is a function
from the position of a file name to the document of that file: gaps are files
that do not exist or do not parse. `by_canonical` and `by_label` are the
positions that have a label, and `first_with` is the one `setdefault` keeps. The
"random" order may be any order, so `orders` is every arrangement of the
documents, natural, reverse and child-first among them.

**Abstract specifications.** `JobLifecycle`: absent, pending, processing, then
completed, failed or pending again while tries are left. A verdict is final, but for
a completion that the worker did not hear of (`CompleteUnheard`): it may be taken back
(`Recant`), once for each acknowledgement that was lost, and `failed` never is.
`CanonicalRegistry`: the only change is the whole registration of a new document
together with its thread. The pipeline implements both (`FollowsLifecycle`,
`ImplementsRegistry`), and the in-memory store implements the second
(`UpsertsAreRegistrations`), so both stores of the repository have one specification.

## 3. The runs

All runs use small sets of model values; symmetry over workers and clients is
used only where no liveness property is checked. The bounds are `MaxJobs` (ids
the sequence can hand out), `MaxCrashes`, `MaxStops`, `MaxLostAcks`; for the loader
`BackoffLimit` and the length of `Directories`; for the corpus `MaxDepth` (messages in
a thread) and `MaxWrites` (files, and departures from the plain form, together). Retries
are bounded by `MaxAttempts = 2`, the least number that tells the first, a
further and the last try apart; `loader`, which is not about retries of jobs, has one try.

| Run | Instance | Shows |
|---|---|---|
| `faults` | 2 workers, 1 client, 3 documents (one blank), a payload that parses and one that does not, 2 jobs, one crash, one lost acknowledgement, response before commit | `ExclusiveClaims`, `AttemptsBounded`, `ObservedOnly`, `FollowsLifecycle` |
| `same_document` | 2 workers, 2 clients, 1 document, 2 contents, 3 jobs, one crash, one lost acknowledgement | `CompletedMeansIngested`, `FailedForCause`, `DuplicatesBounded`, `ImplementsRegistry` |
| `loader` | 2 ingests (2 files, then one of them changed), 2 pods at a time, 1 retry, 1 worker, 3 jobs, commit before response | `SummaryIsTrue`, `CompleteMeansAccounted`, `AcceptedMeansRecorded` |
| `progress` | fair workers, one SIGTERM, one lost acknowledgement, no crash | `TypeOK`, `OrphansNeedCrashes`, `EveryJobSettles`, `StopTerminates` |
| `lookups` | 3 documents, a root, two replies, a reply to a reply | `NotFoundIsTrue`, `DocumentsBetween`, `RelationsBetween`, `TypeOK` |
| `canonical_store` | 4 documents (one blank), 10 id lists, some of which are concatenations of others, some illegal | `IndexesAgree`, `NewDocumentsAccepted`, `EdgesFollowTheIds`, `UpsertsAreRegistrations`, `TypeOK` |
| `corpus` | 5 file names (a root, a reply, its near-duplicate, a reply to the reply, a name without a label), 3 Message-IDs, threads of 3 messages, 4 files or departures from the plain form | `ReadableFilesParse`, `NeverMisread`, `ScoresAreSound`, `HierarchyFollows`, `OrderNeverMatters` |

Why these sizes: a hazard of the queue takes two workers and one job; of a
registration two jobs for one document, and a third to meet the result of both
after a retry; of threads two documents with one thread; of duplicates two
submitters, or one and an acknowledgement that is lost. One crash or lost
answer is enough to make every shape of orphan and of repeated work; what more
of them add is a repetition. `AcceptedMeansRecorded` needs two submitters, which
the loader is when a pod has left a request behind or outlives its Job. The loader
needs a file before the one that fails and a second ingest that meets a conflict. A
hazard of the parser is two departures from the plain form in one thread (a mark
and a fold, an order and a body), and a wrong score takes a third file. All checks of
the evaluation are over at most four files, one for each part a file can have in
them: parent, child, the child's near-duplicate, grandchild.

Further bounds keep the larger instances small:
- `MCBound` (`same_document`): two requests are in flight only while the first content
  is all that was submitted, no worker has died and one is free. Two
  concurrent submitters can so meet before, during and after a lost acknowledgement,
  and open three active jobs for one content, but not next to a crash.
- `MCView` (`faults`, `same_document`) leaves out what the clients were told, which
  no property of these runs reads.
- `MCIngest` (`loader`): a Job that is deleted while it runs has had no pod replaced.
- `MCDepartures` (`corpus`): more than one departure from the plain form only in a
  directory of the longest name alone, none next to the name without a label.

What they leave out is covered by the theorems of section 6, which have no bounds.
The same holds of the crashes that `OrphansNeedCrashes` counts: `progress` has none,
so there the property says that no job is left behind.

Each property has a mutant in `PROJECT.json`: a plausible bug in a mapped definition
which the run must then refute. The mutated forms stand before the definition
they replace and are marked as such.

### Runs that refute what the repository says

| Run | The repository says | The run shows |
|---|---|---|
| `duplicate_jobs` | an active job with the same content is reused (`repository.py:68`) | two concurrent submissions both enqueue one: the SELECT and the INSERT are two statements without lock or unique index |
| `second_content` | same id with different content is answered 409 (`DESIGN.md:194`) | the comparison is with `raw_documents` only, so a second content is accepted while the first job is pending |
| `early_response` | POST enqueues and answers 202 on accept (`DESIGN.md:190`) | with FastAPI 0.118 or later the 202 names a job that is not committed |
| `orphaned_job` | the queue is durable (`DESIGN.md:184`) | a worker that dies after the commit of its claim leaves the job `processing` for ever, and resubmissions reuse it |
| `indented_body` | near-duplicates may differ in whitespace and header order, "but Message-IDs match" (`DESIGN.md:27`) | blank lines do not end the header block: an indented first body line after a Message-ID that is the last header becomes part of the id |

Milder ones without a run:

- If a worker registers the document between the two reads of `submit_document`,
  the request finds neither and enqueues a job for a registered document. The job
  completes against the row that is there, as `CompletedMeansIngested` says.
- A whitespace `document_id` passes `min_length=1` and raises a plain `ValueError`,
  which is retried, although `worker.py:27` says that permanent failures do not
  burn the retry budget. The run `faults` has such a document.
- A registration between the two SELECTs of `canonical_documents` gives an empty
  200, which "should not happen if FK holds" (`app.py:144`). `DocumentsBetween` holds
  all the same: nothing was registered when the client asked.
- A body that starts with a line "Message-ID: ..." replaces the id, for the same
  reason as `indented_body`, and a quoted body line "From: ..." starts a block of its
  own. `ReadableFilesParse` and `NeverMisread` name both as exceptions.
- A folded header in a block quoted with `>`, a second blank after a pipe, and a
  quoted Message-ID above From are refused with `ParseError`, which `NeverMisread`
  shows.
- One file whose name is letters only after the last underscore ends the whole
  evaluation with a `ValueError` (`evaluate.py:140`).

## 4. Fairness

`FairSpec` assumes weak fairness of `WorkerStep(w)` for each worker: the loop never
parks a worker, a blocked INSERT returns when the other transaction ends, and a
dead process is restarted. Nothing is assumed of clients, of `TransientError`,
`CommitAckLost`, `RequestStop` or `Crash`. An error may therefore hit every try;
the retry budget is what makes `EveryJobSettles` true all the same.
The other worker may be stopped by SIGTERM, but `MaxStops` is below
the number of workers: if all are stopped, jobs wait. `StopTerminates` allows a
worker to finish its job first, as the handler's message says.

Nothing is assumed of the loader: `retry` may repeat up to the backoff limit and
the Job may then fail, so that it completes is no promise of the code. Its
properties are safety properties.

## 5. The properties in words

- `ExclusiveClaims`: no two workers hold one job, and the row of a held job is as
  the claim left it. The three verdict UPDATEs do not check the status they
  replace; this is why they need not.
- `AttemptsBounded`: never more than `MaxAttempts` tries, and no job waits without one left.
- `OrphansNeedCrashes`: no more jobs are `processing` without a worker than processes died.
- `DuplicatesBounded`: at most one active job per concurrent submitter and per lost
  acknowledgement for one document and content (the strong form, one, is what
  `duplicate_jobs` refutes; a lost acknowledgement revives a completed job next to
  one that was submitted since).
- `CompletedMeansIngested`, `FailedForCause`: every verdict is justified by the tables.
- `FollowsLifecycle`: every change of a job's row is a step of `JobLifecycle`: a finished
  job is reopened, or failed, by its own worker only, and once for each
  acknowledgement that was lost; a failed one never.
- `ObservedOnly`: a thread row exists if and only if a document is registered under it,
  with the ids and the expected parent it stands for.
- `AcceptedMeansRecorded`: the job or the registration that a 202 named is there.
- `EveryJobSettles`: a job in the queue becomes completed or failed. After a lost
  acknowledgement the recovery may take a completed job back to pending, or fail
  it when the budget is gone; `completed` is final only without such a loss.
- `NotFoundIsTrue`, `DocumentsBetween`, `RelationsBetween`: an answer is right for
  some moment between question and answer, each edge by itself.
- `IndexesAgree`, `EdgesFollowTheIds`, `NewDocumentsAccepted`, `UpsertsAreRegistrations`:
  the in-memory store is a function of what was upserted, not of the order.
- `SummaryIsTrue`: while the files are submitted, by whomever, each file that was
  answered is counted once, and the counters count files that are recorded,
  registered, or registered with another content.
- `CompleteMeansAccounted`: a Job that is complete has lost none of its files: each is
  registered with its content, or still queued, or behind a job that a worker has failed
  for a true cause. That all are registered is no promise of exit code 0: a second
  content may be accepted while the first is pending (`second_content`), and
  the conflict comes to light after the Job is complete.
- `ReadableFilesParse`: what quotations can express is read as it was written.
- `NeverMisread`: any other file is refused; no message is lost silently, and none is
  made up. Both have the exceptions of `bodies_are_apart`: a body that begins with a
  Message-ID line, an indented body directly after the Message-ID (`indented_body`) and
  a quoted body with a line "From:".
- `ScoresAreSound`: of files that were read correctly, parsing and dedup pass
  exactly if the names are right about the threads.
- `HierarchyFollows`: then the resolved edges are those of the names, too.
- `OrderNeverMatters`: the stores built in all orders agree, for wrong names as well.

## 6. The proofs

TLAPS proves the following for every set of workers, clients, documents and
payloads and every bound. The assumptions are those the modules state about their
constants: `StoreAssumption`, `NoneAssumption` (`None` is no row, id or error),
`WorkerAssumption` (`MaxAttempts` is at least 1), `ApiAssumption`, `LoaderAssumption`
(directories are lists of files), `IdListsAreLists`, `NoneIsNoCanonicalId`,
`FileNamesAssumption` (a file name is a path of segments, a base and the letters
after it), `FormsAssumption` (Message-IDs are not empty, bodies have one of the six
forms that `ThreadCorpus` writes) and `NoneIsNoLabel`. TLC evaluates them in every run of the modules that state them.
Where a theorem needs more, its hypothesis is in the table.

| Theorem | Says |
|---|---|
| `TypeCorrect` | `Spec => []TypeOK` |
| `IdsAreReserved` | a job id that a request holds has no row and no other holder |
| `ClaimsAreExclusive` | `Spec => []ExclusiveClaims` |
| `AttemptsAreBounded` | `Spec => []AttemptsBounded` |
| `CompletedIsIngested` | `Spec => []CompletedMeansIngested` |
| `FailuresHaveCauses` | `Spec => []FailedForCause` |
| `RegistryImplemented` | `Spec => ImplementsRegistry` |
| `ThreadsAreObservedOnly` | `Spec => []ObservedOnly`, if `Unambiguous` |
| `AcceptancesAreRecorded` | `Spec => []AcceptedMeansRecorded`, if `~RespondFirst` |
| `LifecycleFollowed` | `Spec => FollowsLifecycle` |
| `OrphansAreCrashes` | `Spec => []OrphansNeedCrashes` |
| `DuplicatesAreBounded` | `Spec => []DuplicatesBounded`, if `Clients` is finite |
| `LoaderIsClient` | `LoaderSpec => ImplementsPipeline` |
| `CompleteJobsAreAccounted` | `LoaderSpec => []CompleteMeansAccounted`, if `~RespondFirst` |
| `SummariesAreTrue` | `LoaderSpec => []SummaryIsTrue`, if `~RespondFirst` |
| `LookupTypes`, `NotFoundCanBeTrusted`, `ListsCanBeTrusted`, `RelationsCanBeTrusted` | the four invariants of `Lookups` |
| `StoreTypes`, `StoreIndexesAgree` | `TypeOK` and `IndexesAgree` of `CanonicalStore` |
| `StoreImplementsRegistry` | `Spec => UpsertsAreRegistrations` of `CanonicalStore` |
| `EdgesAreThoseOfTheIds`, `NewDocumentsAreAccepted` | `EdgesFollowTheIds`, `NewDocumentsAccepted`, if `IdsDecide` |
| `IngestionOrderIsFree` | `Spec => [](DigestsDecide => OrderNeverMatters)` of `Evaluation` |
| `HierarchyFollowsFromScores` | `Spec => []HierarchyFollows`, if `NoneIsNoDigest` |
| `ScoresAreSoundForAllNames` | `Spec => [](DigestsDecide => ScoresAreSound)` |
| `NothingIsMisread`, `ReadableThreadsParse` | `Spec => []NeverMisread`, `Spec => []ReadableFilesParse` |

*Typing* (`IngestionPipelineProofs`). `TypeOK` is not inductive: an UPDATE by id
yields a row only if there was one, and a registration yields rows only if the
payload parses. `TypeInv` adds `HeldJobs` (a worker at work holds an existing row),
`ParsedJobs` (what reaches the inserts parses and has a name) and `ReservedIds`. One
lemma says that a submission preserves it, one that a step of a worker does, with
a step per action; `WorkerMoves` carries what all actions share: rows persist, and
the one worker that moves ends in a legal state.

*Queue* (`IngestionPipelineProofs`). `ExclusiveClaims` and `AttemptsBounded` are
inductive on top of `TypeInv`. A claim takes a pending row which is not locked;
a held row is locked (claim not committed), processing or completed, so the claim
cannot take it. `OwnRowOnly` reduces each action to: only the worker's own row
changes. The budget follows because the number the handler compares is, by
`ExclusiveClaims`, the number in the row.

*Registration* (`IngestionRegistryProofs`). What a worker has read may be stale when
it commits, so the invariant `RegistryInv` says what is still true of it:
`WorkerFacts` relates the flags `existing` and `new_thread` of an open transaction
to the committed tables, and `KeysDiffer` says that two open transactions
never hold the same new key, which is what the waiting INSERTs buy. With it a
commit registers a document that is absent, or meets the row of its own content.
`JobFacts` carries the reasons of verdicts, which later registrations keep true
(`JobFactsPersist`), since registrations stay. `QuietStep` treats all steps that do not
touch the results, so that only the commit needs an argument of its own
(`CommitTables`, `CommitRegistry`).

*Refinement* (`IngestionRegistryProofs`). `WorkFrame` states what a worker may
change at all; `CommitRegisters` maps the commit to `Register`, or to a stutter
when the document was there. That the row of a thread has the ids of *every*
document under it needs that ids joined with newlines tell lists of ids apart,
the hypothesis `Unambiguous`: it holds of Message-IDs, which are taken from one line of a
header and so contain no newline, and TLC checks the conclusion for the ids of the
models without it.

*Clients* (`IngestionClientProofs`). `ResponsesInv` adds to the property that a
request which is about to answer names a committed row. Rows are never removed
and keep document and payload, registrations stay, so what is recorded stays
recorded. The hypothesis is the order that `early_response` shows to be needed.

*Life cycle* (`IngestionRegistryProofs`). The variables `unheard` and `losses` of the
abstract specification are the completed jobs whose worker is about to recover
(`Recants`) and the count of lost acknowledgements. By `ExclusiveClaims` no other worker
holds such a job, so each action moves at most one job in or out of the set
(`UnheardMoves`), and each UPDATE is one step of `JobLifecycle` although it does not
check the status it replaces.

*Counts* (`IngestionClientProofs`). `WorkEffects` says what a step of a worker does to
the jobs that are processing and to those that have an owner. The jobs
that are processing without one then grow only with the count of crashes. For
duplicates the property alone is not inductive: a submission that has seen no
active job will open one later, and a job that was completed may be
opened again by a recovery that mistakes it. `DuplicatesInv` counts
both in advance: jobs that are `Open` or `Mistaken` by their worker, with the
clients that are `Submitting`.

*Loader* (`DirectoryLoaderProofs`). Each action of the loader, and of the pods of deleted
Jobs, is a submission step of some client, or leaves API and store alone, so `LoaderIsClient` follows and with
it every safety property of the pipeline. `LoadInv` says that as long as a pod has
counted neither conflict nor error, the files it was answered are recorded, and
that the request it waits for carries the file it submitted last. Rows and
registrations stay (`PipelineKeeps`), so a step has only to account for the file
that is newly answered; an old pod has a connection of its own. A recorded file is
accounted for by the facts about verdicts (`RecordedIsAccounted`). For the summary, `CountersInv` compares each counter
with the number of answered positions its claim is true of: `RecordedOnes`,
`RegisteredOnes`, `ConflictingOnes`. These sets only grow, since what is recorded,
registered or in conflict stays so (`OnesGrow`), and a response that raises a counter puts
its position into the set (`OneMore`). The hypothesis is again the order of commit and
response: with the other order the file that was just accepted may be rolled back.

*Lookups* (`LookupsProofs`). `Grown`: the tables have only grown since the lookup
began. `RequestFacts`: what each SELECT has established, in terms of the tables then
and now, which later registrations cannot undo.

*In-memory store* (`CanonicalStoreProofs`). `Keyed` ties a node to the digest of its
ids. That the edges are those of the ids needs `IdsDecide`, that digests tell the
lists apart; the implementation of the registry and the indexes do not, since
upsert refuses a collision.

*Evaluation* (`EvaluationProofs`). `LoadedInv` says what the result of
`load_eval_documents` is in terms of the files: one document for each that parses,
at the position of its name. The rest is about these values. `BuildStoreLemma` gives
the store after any order of ingestion in closed form, `store_after`: a node for each
list of ids, with the names of all documents that have it. It is proved by taking
a smallest set of documents for which it fails (`WFMin` of the library, over the finite
sets); the step is that the last upsert adds one document (`LastUpsert`). The closed form does
not mention the order, so all orders agree (`OutcomeLemma`).
`HierarchyFollowsFromScores` goes from labels to ids: when parsing passes, the
files of a label have one list of ids (`LabelsGiveIds`) and the parent label has its
tail (`ParentsAgree`), so the edges in the names are those in the ids (`EdgesAreGold`).
It does not assume that digests tell lists apart: a collision of two
labels is a false merge, which dedup has reported. The other two theorems need it, and
only for the documents that were loaded (`DigestsDecide`). `NoneIsNoDigest` says that
the digest of a text is not Python's `None`.

*Parser* (`ThreadParserProofs`). Both theorems are about threads of any length, with every
mix of forms of their messages in which no body passes for headers or for a
quotation. The argument follows the code, in three parts.
The *loop*: `StatesOfLoop` turns the fold of `message_id_of` into a sequence of states, one
after each line, and `Through` carries a set of states over a stretch of lines
(`Before` the Message-ID, `Just` read, `Kept` for good, or `Lost` because the body
began). `IdRead` says what a block yields that has its id on one line or two: that
id or nothing, and the id if only headers come before it; `NoIdRead` and
`IndentedRead` say which blocks are refused. `BodyKeeps` says that lines after
one that opens the body are not read as headers, whatever they look like; the
headers a newest body forwards are such lines.
The *layout*: `Shape` says where a message has its From, its Message-ID, the end of
that value, the blank lines after it and the line after which its body may say
anything, whatever its form (`MessageShape`); `SnapshotLayout` puts the messages,
with the dashes and blank lines between them, one after the other. `MessageStarts`
shows that blocks start at the quoted From headers or the dashes before them and
nowhere else (`Quotable`: no quoted body says From), so
there is one block for each message (`Blocks`): its lines from the From on, then
those of the *next* message above its From, because the split is at From.
The *whole*: a message whose Message-ID stands above From leaves it in the block before. The
last such message then has no id left, so the file is refused (`IdFirstIsRefused`); so it
is if a pipe is followed by two blanks (`BlockIndented`). Otherwise each block yields
the id of its message or nothing (`BlockWithId`). The invariant is `CorpusTyped`,
that every file is a non-empty list of messages in some form.

**Only model-checked**: liveness (`EveryJobSettles`, `StopTerminates`; temporal
fairness arguments are out of the prover's reach). What the folds of `Canonicalization`
compute for every list is not proved either; the theorems need only that digests tell
the lists apart, and TLC uses the values on the ids of the models.

## 7. Not modelled, and what could follow

Every part that decides something is modelled. What could be added: precision and
recall of the reports, which are quotients of the counts; liveness of
the loader, if a retry policy is ever added to the code.

Left out for good: HTTP and SQL syntax, logging, health and job status routes (one
read each), characters and encodings of the files (`ThreadParser` starts from
lines), configuration parsing, the migration scripts, deployment files beyond the
restart policy and the loader's Job.
