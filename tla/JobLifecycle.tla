---------------------------- MODULE JobLifecycle ----------------------------
(***************************************************************************)
(* What the job queue promises of one row of ingestion_jobs: a job is      *)
(* enqueued once, every try is a claim, a try ends in one verdict, at most *)
(* MaxAttempts tries are made, and a verdict is final.  The one exception  *)
(* is a completion the worker did not hear of: it may be taken back, once  *)
(* for each acknowledgement that was lost, and "failed" never is.          *)
(***************************************************************************)
EXTENDS Naturals

CONSTANTS JobIds, MaxAttempts

VARIABLES
  status,   \* of each job, "absent" before it is enqueued
  tries,    \* how often it has been claimed
  unheard,  \* jobs whose worker takes their completion for a failure
  losses    \* how many acknowledgements were lost

vars == <<status, tries, unheard, losses>>

Init ==
  /\ status = [id \in JobIds |-> "absent"]
  /\ tries = [id \in JobIds |-> 0]
  /\ unheard = {}
  /\ losses = 0

Move(id, from, to) ==
  /\ status[id] = from
  /\ status' = [status EXCEPT ![id] = to]

Enqueue(id) == Move(id, "absent", "pending") /\ UNCHANGED <<tries, unheard, losses>>

Claim(id) ==
  /\ tries[id] < MaxAttempts
  /\ Move(id, "pending", "processing")
  /\ tries' = [tries EXCEPT ![id] = @ + 1]
  /\ UNCHANGED <<unheard, losses>>

Complete(id) ==
  Move(id, "processing", "completed") /\ UNCHANGED <<tries, unheard, losses>>

CompleteUnheard(id) ==
  /\ Move(id, "processing", "completed")
  /\ unheard' = unheard \cup {id}
  /\ losses' = losses + 1
  /\ UNCHANGED tries

Fail(id) == Move(id, "processing", "failed") /\ UNCHANGED <<tries, unheard, losses>>

Requeue(id) ==
  /\ tries[id] < MaxAttempts
  /\ Move(id, "processing", "pending")
  /\ UNCHANGED <<tries, unheard, losses>>

\* The worker's verdict on a completion it did not hear of, if it lives to
\* give one.
Recant(id) ==
  /\ id \in unheard
  /\ unheard' = unheard \ {id}
  /\ \/ tries[id] < MaxAttempts /\ Move(id, "completed", "pending")
     \/ tries[id] = MaxAttempts /\ Move(id, "completed", "failed")
     \/ UNCHANGED status
  /\ UNCHANGED <<tries, losses>>

Next == \E id \in JobIds :
  \/ Enqueue(id) \/ Claim(id)
  \/ Complete(id) \/ CompleteUnheard(id) \/ Fail(id) \/ Requeue(id)
  \/ Recant(id)

Spec == Init /\ [][Next]_vars
=============================================================================
