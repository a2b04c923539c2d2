CONSTANTS
  NumUsers = 2
  MaxMemo = 1
  Bodies = {b1, b2}
  Workers = {w1, w2}
  Ops = {"create", "patch", "delete", "get", "deleteUser"}
  NoRow = NoRow
  NoRequest = NoRequest
  Anonymous = Anonymous
SPECIFICATION Spec
SYMMETRY Symmetry
INVARIANTS
  IInv
  ServedWasCommitted
PROPERTIES
  OwnerOnlyWrites
  NoResurrection
  RefinesTables
