SPECIFICATION ScheduleFairSpec
CONSTANTS
  Campaigns = {1, 2}
  Stages = {1, 2}
  CampaignOf <- FirstCampaign
  Recipients <- SameContact
  Initial <- InitialCampaigns
  InitialStage <- InitialStages
  Scopes = {"campaigns", "stages", "locks"}
  MaxPresses = 2
  MaxClicks = 1
  MaxStops = 1
INVARIANTS
  SchedTypeOK
  StopWins
  StageWordTrue
  LockExclusive
PROPERTIES
  RefusedAfterQuietDay
  DueCampaignEnds
  OwedStageEnds
