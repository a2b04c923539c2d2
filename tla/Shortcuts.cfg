CONSTANTS
  NumUsers = 2
  MaxShortcut = 1
  Bodies = {b1, b2}
  Workers = {w1, w2, w3}
  NoRow = NoRow
  NoRequest = NoRequest
SPECIFICATION Spec
SYMMETRY Symmetry
INVARIANTS
  IInv
  StaleOnlyAfterRace
PROPERTIES
  OwnerOnlyWrites
  NoResurrection
  RefinesTables
