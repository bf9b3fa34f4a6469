SPECIFICATION SystemSpec
CONSTANTS
  Targets = {"t1"}
  PolicyKeys = {"p1"}
  RuleIds = {"rule"}
  Judges = {"judge"}
  Resources = {"provider_a", "provider_b"}
  NoResource = "none"
  IncidentIds = {"a", "b"}
  NoIncident = "none"
  NoDecision = NoDecision
  Effects <- MCEffects
  Decisions <- Overlapping
  LateProvisional = FALSE
  ProviderA = "provider_a"
  ProviderB = "provider_b"
  Requests = {}
  Amounts = {}
  PerRequestLimit = 0
  SafeModeLimit = 0
  HumanOverride = FALSE
  MaxBalance = 0
  Overtaking = TRUE
  MaxFailed = 0
  MaxInflight = 1
INVARIANTS RestrictionsInForce
