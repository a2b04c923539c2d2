CONSTANTS
  NumUsers = 2
  Regular = {2}
  Values = {"PUBLIC", "null"}
  Asked = {"", "other"}
  Workers = {w1, w2}
  Unset = Unset
  Miss = Miss
  NoRequest = NoRequest
SPECIFICATION Spec
SYMMETRY Symmetry
INVARIANTS
  IInv
  StaleOnlyAfterRace
  DefaultIsRecent
PROPERTIES
  PublicOnlyIfAllowed
