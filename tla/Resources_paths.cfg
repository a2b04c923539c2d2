CONSTANTS
  Users = {u1, u2}
  MaxResource = 2
  MaxStorage = 1
  Paths = {p1, p2}
  Fresh = {p2}
  Contents = {c1}
  Workers = {w1, w2}
  NoRow = NoRow
  NoRequest = NoRequest
  NoPath = NoPath
  NoContent = NoContent
  NoFile = NoFile
  Empty = Empty
SPECIFICATION Spec
SYMMETRY Symmetry
INVARIANTS
  IInv
  FilesKept
  OwnContent
PROPERTIES
  OwnersDelete
