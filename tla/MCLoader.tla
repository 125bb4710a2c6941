------------------------------ MODULE MCLoader ------------------------------
(* Two files, the second of which has changed when they are loaded again. *)
EXTENDS DirectoryLoader, TLC

CONSTANTS p1, p2, d1, d2

MCParsedIds == [p \in Payloads |-> IF p = p1 THEN <<"m2", "m1">> ELSE <<"m1">>]

MCDirectories ==
  LET file(d, p) == [document_id |-> d, payload |-> p]
  IN  <<<<file(d1, p1), file(d2, p2)>>, <<file(d2, p1)>>>>

MCSymmetry == Permutations(Clients)

\* Bound: a Job that is deleted while it runs has had no pod replaced.
MCIngest ==
  load_job'.ingests > load_job.ingests /\ load_job.status = "running"
    => load_job.retries = 0
=============================================================================
