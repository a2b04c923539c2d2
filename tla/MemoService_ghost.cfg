CONSTANTS
  NumUsers = 2
  MaxMemo = 1
  Bodies = {b1}
  Workers = {w1, w2}
  Ops = {"create", "patch", "delete", "get", "organize", "unlink", "list", "deleteUser"}
  NoRow = NoRow
  NoRequest = NoRequest
  Anonymous = Anonymous
SPECIFICATION Spec
PROPERTIES
  DeletedUsersStayOut
