SPECIFICATION FairSpec
CONSTANTS
  Faults = {"clock", "loss"}
  MaxDay = 1
  TornCrash = FALSE
  MaxCrashes = 1
PROPERTY AutoPauseLifts
