CONSTANTS
  MaxUser = 2
  Workers = {w1, w2}
  NoRow = NoRow
  NoRequest = NoRequest
SPECIFICATION Spec
SYMMETRY Symmetry
INVARIANTS
  IInv
  TurnInv
  FoundersBounded
  OneHostInTurn
  CacheIsCurrent
PROPERTIES
  OnlyHostsAdminister
  SignupsAllowed
  RefinesTables
