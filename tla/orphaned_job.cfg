SPECIFICATION FairSpec
CONSTANTS
  None = None
  p1 = p1
  p2 = p2
  p3 = p3
  Documents = {d1}
  BlankDocuments = {}
  Payloads = {p1}
  ParsedIds <- MCParsedIds
  MaxJobs = 1
  Clients = {c1}
  RespondFirst = FALSE
  Workers = {w1, w2}
  MaxAttempts = 2
  MaxCrashes = 1
  MaxStops = 0
  MaxLostAcks = 0
PROPERTIES
  EveryJobSettles
