CONSTANTS
  NumUsers = 2
  MaxMemo = 2
  Bodies = {b1, b2}
  Workers = {w1}
  Ops = {"create", "patch", "delete", "get", "organize", "unlink", "list", "deleteUser"}
  NoRow = NoRow
  NoRequest = NoRequest
  Anonymous = Anonymous
SPECIFICATION FairSpec
INVARIANTS
  TurnInv
  ServedIsCurrent
  ListsFindCreators
PROPERTIES
  DeletedUsersStayOut
  EveryRequestEnds
  HandlersAdvance
