SPECIFICATION PolicySpec
CONSTANTS
  Targets = {"t1"}
  PolicyKeys = {"p1", "p2"}
  RuleIds = {"rule"}
  Judges = {"judge"}
  Resources = {"provider_a"}
  NoResource = "none"
  Effects <- MCEffects
  IncidentIds = {"a"}
  Rules <- MCRules
  ProviderA = "provider_a"
  ProviderB = "provider_b"
  NoPolicy = "none"
  NoTarget = "none"
  OwnerActions = {"PAUSE"}
  MinDelay = 1
  MaxTime = 2
INVARIANTS PolicyTypeOK ActivePolicyAgrees
PROPERTIES PowersGrowOnlyAfterDelay
