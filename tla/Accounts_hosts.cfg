CONSTANTS
  MaxUser = 2
  Workers = {w1, w2}
  NoRow = NoRow
  NoRequest = NoRequest
SPECIFICATION Spec
INVARIANTS
  OneHost
