SPECIFICATION ScheduleSpec
CONSTANTS
  Campaigns = {1, 2}
  Stages = {1, 2}
  CampaignOf <- FirstCampaign
  Recipients <- SameContact
  Initial <- InitialCampaigns
  InitialStage <- InitialStages
  Scopes = {"campaigns"}
  MaxPresses = 2
  MaxClicks = 0
  MaxStops = 0
INVARIANT NothingEarly
