SPECIFICATION MCSpec
CONSTANTS
  Targets = {"t1"}
  PolicyKeys = {"p1"}
  RuleIds = {"rule"}
  Judges = {"judge"}
  Resources = {"provider_a", "provider_b"}
  NoResource = "none"
  Effects = {}
  IncidentIds = {"a"}
  ProviderA = "provider_a"
  ProviderB = "provider_b"
  Requests = {"r1", "r2"}
  Amounts = {1, 2}
  PerRequestLimit = 2
  SafeModeLimit = 1
  HumanOverride = TRUE
  MaxBalance = 2
INVARIANTS PaidOnce
PROPERTIES OnlyRestoreWeakens MoneyConserved
