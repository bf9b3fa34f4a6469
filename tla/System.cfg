SPECIFICATION FairSystemSpec
CONSTANTS
  Targets = {"t1"}
  PolicyKeys = {"p1"}
  RuleIds = {"rule"}
  Judges = {"judge"}
  Resources = {"provider_a", "provider_b"}
  NoResource = "none"
  IncidentIds = {"a", "b", "ma", "va"}
  NoIncident = "none"
  NoDecision = NoDecision
  Effects <- MCEffects
  Decisions <- MCDecisions
  LateProvisional = FALSE
  ProviderA = "provider_a"
  ProviderB = "provider_b"
  Requests = {}
  Amounts = {}
  PerRequestLimit = 0
  SafeModeLimit = 0
  HumanOverride = FALSE
  MaxBalance = 0
  Overtaking = FALSE
  MaxFailed = 1
  MaxInflight = 2
INVARIANTS RestrictionsInForce NothingLeftBehind
PROPERTIES StateIsReached
