SPECIFICATION Spec
CONSTANTS
  None = None
  p1 = p1
  p2 = p2
  p3 = p3
  Documents = {d1}
  BlankDocuments = {}
  Payloads = {p1, p2}
  ParsedIds <- MCParsedIds
  MaxJobs = 3
  Clients = {c1, c2}
  RespondFirst = FALSE
  Workers = {w1, w2}
  MaxAttempts = 2
  MaxCrashes = 1
  MaxStops = 0
  MaxLostAcks = 1
SYMMETRY MCSymmetry
VIEW MCView
CONSTRAINT MCBound
INVARIANTS
  CompletedMeansIngested
  FailedForCause
  DuplicatesBounded
PROPERTIES
  ImplementsRegistry
