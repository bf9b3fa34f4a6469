SPECIFICATION MCSpec
CONSTANTS
  Runners = {"first"}
  Rules = {"compromise"}
  RuleOf <- MCRuleOf
  Sources = {"registry", "mirror"}
  MaxSources = 1
  Cooldown = 1
  Trackers = {"file", "memory", "stub"}
  ActiveSets <- MCActiveSets
  MaxTime = 2
  MaxReports = 2
  MaxCrashes = 1
INVARIANTS ReportedAgainOnlyIfLost CooldownIsKept
PROPERTIES PendingUntilFinal FollowedToTheEnd
CHECK_DEADLOCK FALSE
