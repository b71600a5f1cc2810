SPECIFICATION InputSpec
CONSTANTS
  ButtonCount = 2
  ComboCount = 3
  Configs <- MCConfigs
  QueueLen = 16
  Intervals = {1, 2}
  MaxTime = 10
INVARIANTS
  PressesTold
  SequenceTracks
CHECK_DEADLOCK FALSE
