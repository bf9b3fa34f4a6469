SPECIFICATION MCFairSpec
CONSTANTS
  Targets = {"t1"}
  PolicyKeys = {"p1", "p2"}
  RuleIds = {"incident", "remediation", "recovery"}
  Judges = {"judge"}
  Resources = {"provider_a"}
  NoResource = "none"
  Effects <- MCEffects
  Rules <- MCRules
  ProviderA = "provider_a"
  ProviderB = "provider_b"
  NoPolicy = "none"
  NoTarget = "none"
  OwnerActions = {"ENTER_SAFE_MODE"}
  MinDelay = 1
  MaxTime = 2
  IncidentIds = {"a", "b", "ma", "va"}
  NoIncident = "none"
  NoDecision = NoDecision
  Decisions <- MCDecisions
  LateProvisional = FALSE
PROPERTIES EveryProvisionalReconciled
