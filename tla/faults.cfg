SPECIFICATION Spec
CONSTANTS
  None = None
  p1 = p1
  p2 = p2
  p3 = p3
  Documents = {d1, d2, d3}
  BlankDocuments = {d3}
  Payloads = {p1, p3}
  ParsedIds <- MCParsedIds
  MaxJobs = 2
  Clients = {c1}
  RespondFirst = TRUE
  Workers = {w1, w2}
  MaxAttempts = 2
  MaxCrashes = 1
  MaxStops = 0
  MaxLostAcks = 1
SYMMETRY MCSymmetry
VIEW MCView
INVARIANTS
  ExclusiveClaims
  AttemptsBounded
  ObservedOnly
PROPERTIES
  FollowsLifecycle
