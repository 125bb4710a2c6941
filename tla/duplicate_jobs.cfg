SPECIFICATION Spec
CONSTANTS
  None = None
  p1 = p1
  p2 = p2
  p3 = p3
  Documents = {d1}
  BlankDocuments = {}
  Payloads = {p1}
  ParsedIds <- MCParsedIds
  MaxJobs = 2
  Clients = {c1, c2}
  RespondFirst = FALSE
  Workers = {w1}
  MaxAttempts = 2
  MaxCrashes = 0
  MaxStops = 0
  MaxLostAcks = 0
SYMMETRY MCSymmetry
INVARIANTS
  OneActiveJobPerContent
