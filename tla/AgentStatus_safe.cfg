SPECIFICATION Spec
CONSTANTS
  Faults = {"clock", "books", "heartbeats", "equity", "loss"}
  MaxDay = 1
  TornCrash = TRUE
  MaxCrashes = 1
INVARIANTS OwnerStopSticks DeadmanBlocksEntries
PROPERTIES HaltNeedsResume StopBindsNextCycle
