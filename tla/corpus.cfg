SPECIFICATION Spec
CONSTANTS
  None = None
  FileNames <- MCFileNames
  MessageIds <- MCMessageIds
  Bodies = {"empty", "text", "named", "indented", "id_first", "forwarded"}
  MaxDepth = 3
  MaxWrites = 4
ACTION_CONSTRAINT MCDepartures
CHECK_DEADLOCK FALSE
INVARIANTS
  ReadableFilesParse
  NeverMisread
  ScoresAreSound
  HierarchyFollows
  OrderNeverMatters
