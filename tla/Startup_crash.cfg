CONSTANTS
  Servers = {s1}
  Setups = {t1}
  MaxId = 1
  Modes = {"dev"}
  Names = {"allow_signup"}
  Absent = Absent
SPECIFICATION Spec
INVARIANTS
  AlwaysMigrated
