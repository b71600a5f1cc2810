SPECIFICATION FairSpec
CONSTANTS
  NumChannels = 2
  Shape = "two"
  Configs <- MCConfigs
  Codes <- MCCodes
  Button = {"a"}
  Grace = 1
  Window = 1
  QuietReset = 1
  FreeAttempts = 1
  BackoffTicks <- MCBackoffTicks
  OwnerConfig <- MCOwnerConfig
  Levels = {1}
  Debounce = 1
  LocalOps = {"set", "code"}
  BleOps = {"commit"}
  WriteOutcomes = {TRUE}
PROPERTIES
  Settles
  AutoLocks
  MirrorConverges
