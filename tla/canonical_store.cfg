SPECIFICATION Spec
CONSTANTS
  None = None
  Documents = {d1, d2, d3, d4}
  BlankDocuments = {d4}
  IdLists <- MCIdLists
INVARIANTS
  TypeOK
  IndexesAgree
  NewDocumentsAccepted
  EdgesFollowTheIds
PROPERTY UpsertsAreRegistrations
