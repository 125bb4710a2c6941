SPECIFICATION LoaderSpec
CONSTANTS
  None = None
  p1 = p1
  p2 = p2
  d1 = d1
  d2 = d2
  Documents = {d1, d2}
  BlankDocuments = {}
  Payloads = {p1, p2}
  ParsedIds <- MCParsedIds
  Directories <- MCDirectories
  BackoffLimit = 1
  MaxJobs = 3
  Clients = {l1, l2}
  RespondFirst = FALSE
  Workers = {w1}
  MaxAttempts = 1
  MaxCrashes = 0
  MaxStops = 0
  MaxLostAcks = 0
CHECK_DEADLOCK FALSE
SYMMETRY MCSymmetry
ACTION_CONSTRAINT MCIngest
INVARIANTS
  SummaryIsTrue
  CompleteMeansAccounted
  AcceptedMeansRecorded
