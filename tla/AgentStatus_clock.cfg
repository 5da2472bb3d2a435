SPECIFICATION Spec
CONSTANTS
  Faults = {"clock", "books"}
  MaxDay = 0
  TornCrash = FALSE
  MaxCrashes = 0
PROPERTY ClockPauseHolds
