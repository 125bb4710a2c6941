SPECIFICATION FairSpec
CONSTANTS
  None = None
  p1 = p1
  p2 = p2
  p3 = p3
  Documents = {d1}
  BlankDocuments = {}
  Payloads = {p1, p3}
  ParsedIds <- MCParsedIds
  MaxJobs = 2
  Clients = {c1}
  RespondFirst = FALSE
  Workers = {w1, w2}
  MaxAttempts = 2
  MaxCrashes = 0
  MaxStops = 1
  MaxLostAcks = 1
INVARIANTS
  TypeOK
  OrphansNeedCrashes
PROPERTIES
  EveryJobSettles
  StopTerminates
