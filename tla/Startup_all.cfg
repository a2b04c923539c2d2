CONSTANTS
  Servers = {s1}
  Setups = {t1, t2}
  MaxId = 3
  Modes = {"prod", "dev", "demo"}
  Names = {"allow_signup", "additional_style", "storage_service_id", "customized_profile", "openai_config"}
  Absent = Absent
SPECIFICATION Spec
INVARIANTS
  ServesOnTables
  StatusTellsTruth
PROPERTIES
  ServiceIdStays
