SPECIFICATION ReportingSpec
CONSTANTS
  Targets = {"t1"}
  PolicyKeys = {"p1", "p2"}
  RuleIds = {"incident", "remediation"}
  Judges = {"judge"}
  Resources = {"provider_a"}
  NoResource = "none"
  Effects = {}
  IncidentIds <- MCIncidents
  BondIds = {"b1", "b2"}
  NoBond = NoBond
  Reporters = {"alice", "bob"}
  Offers <- MCOffers
  ReportBond <- MCReportBond
  ConfirmedBounty <- MCConfirmedBounty
  GracePeriod = 1
  Funding = {4}
  MaxPool = 4
  MaxTime = 1
  Reports <- MCReports
  NoIncident = NoIncident
  RuleKind <- MCRuleKind
  ProvisionalAllowed <- MCProvisional
INVARIANTS ReportingTypeOK Solvent PaidOutOnce ConsumedByItsReport KernelAgreesWithJudge
