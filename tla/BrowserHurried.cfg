SPECIFICATION ConstructionSpec
CONSTANTS
  Targets = {"t1"}
  PolicyKeys = {"p1"}
  RuleIds = {"incident", "recovery"}
  Judges = {"judge"}
  Resources = {"provider_a"}
  NoResource = "none"
  Effects <- MCEffectsAll
  IncidentIds = {"a"}
  Rules = {}
  ProviderA = "provider_a"
  ProviderB = "provider_b"
  NoPolicy = "none"
  NoTarget = "none"
  OwnerActions = {}
  MinDelay = 1
  MaxTime = 3
  MaxTxs = 10
  Owner = "owner"
  Accounts = {"owner", "other"}
  Ways = {"browser"}
  Manifests <- MCManifests
  ScriptDelay = 1
  MaxCrashes = 1
  Authored <- MCAuthored
  Patient = FALSE
  NoAccount = "no account"
  Anyone = "anyone"
  MaxBuilds = 2
  MaxInterruptions = 0
PROPERTY SubmitsTheCurrentStep
CHECK_DEADLOCK FALSE
