CHECK_DEADLOCK FALSE
CONSTANTS
  SkipBaseline = FALSE
  WithAnswers = TRUE
  Probes <- MCProbes
  KillsTarget = TRUE
  MaxWindows = 2
  MaxDockerFaults = 2
  MaxFaults = 2
  MaxInterrupts = 1
SPECIFICATION FairSpec
INVARIANTS ReportedCleanIsClean RestoredAsFound
PROPERTY CampaignEnds
