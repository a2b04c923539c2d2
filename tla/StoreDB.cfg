CONSTANTS
  MaxUser = 2
  MaxMemo = 2
  MaxResource = 1
  MaxShortcut = 1
  Keys = {locale}
  Names = {work}
SPECIFICATION Spec
INVARIANTS
  IInv
  VacuumIsExact
PROPERTIES
  DeletionLeavesNoOrphans
  NoInheritance
  NoCollateralLoss
