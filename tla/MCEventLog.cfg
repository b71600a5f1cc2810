SPECIFICATION LogSpec
CONSTANTS
  SlotCount = 3
  Batch = 2
  WriteOutcomes = {TRUE, FALSE}
  MaxEvents = 4
INVARIANTS
  LogSound
PROPERTIES
  FetchShows
CHECK_DEADLOCK FALSE
