SPECIFICATION LedgerSpec
CONSTANTS
  Targets = {"t1", "t2"}
  PolicyKeys = {"p1"}
  RuleIds = {"rule"}
  Judges = {"judge"}
  Resources = {"provider_a"}
  NoResource = "none"
  IncidentIds = {"a", "b", "ma", "va", "mb", "vb"}
  NoIncident = "none"
  NoDecision = NoDecision
  Effects <- MCEffects
  Decisions <- MCDecisions
  LateProvisional = FALSE
INVARIANTS LedgerTypeOK CountersExact NoOrphanRestriction RestoreNeverUndercuts
PROPERTIES ImplementsAbstract
