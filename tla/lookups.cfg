SPECIFICATION Spec
CONSTANTS
  None = None
  Documents = {d1, d2, d3}
  IdLists <- MCIdLists
INVARIANTS
  TypeOK
  NotFoundIsTrue
  DocumentsBetween
  RelationsBetween
