CONSTANTS
  Users = {u1}
  MaxResource = 0
  MaxStorage = 1
  Paths = {p1}
  Contents = {c1}
  Fresh = {}
  Workers = {w1, w2}
  NoRow = NoRow
  NoRequest = NoRequest
  NoPath = NoPath
  NoContent = NoContent
  NoFile = NoFile
  Empty = Empty
SPECIFICATION Spec
PROPERTIES
  InUseStays
