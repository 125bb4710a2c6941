----------------------------- MODULE MCPipeline -----------------------------
(* Small instances of IngestionPipeline. *)
EXTENDS IngestionPipeline, TLC

CONSTANTS p1, p2, p3   \* the payloads a configuration takes its own from

\* p1 is a reply to the root thread of p2; p3 does not parse.
MCParsedIds ==
  [p \in Payloads |-> CASE p = p1 -> <<"m2", "m1">>
                        [] p = p2 -> <<"m1">>
                        [] p = p3 -> << >>]

\* Workers and clients are interchangeable.
MCSymmetry == Permutations(Workers) \cup Permutations(Clients)

\* Nothing reads what the clients were told.
MCView == <<store, requests, worker_vars>>

\* Bound: two requests are in flight only while p1 is all that was submitted,
\* no worker has died and one is free.
MCBound ==
  (\A c \in Clients : requests[c] # NoRequest)
    => /\ \A c \in Clients : requests[c].payload = p1
       /\ \A id \in JobIds : jobs[id] # None => jobs[id].payload = p1
       /\ faults.crashes = 0
       /\ \E w \in Workers : workers[w].pc \in {"check", "claim"}
=============================================================================
