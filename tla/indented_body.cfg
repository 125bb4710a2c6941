SPECIFICATION Spec
CONSTANTS
  None = None
  FileNames <- MCFileNames
  MessageIds <- MCMessageIds
  Bodies = {"text", "indented"}
  MaxDepth = 2
  MaxWrites = 3
CHECK_DEADLOCK FALSE
INVARIANTS
  NearDuplicatesShareIds
