SPECIFICATION Spec
CONSTANTS
  NumChannels = 2
  Shape = "one"
  Configs <- MCConfigs
  Codes <- MCCodes
  Button = {"a"}
  Grace = 0
  Window = 1
  QuietReset = 1
  FreeAttempts = 1
  BackoffTicks <- MCBackoffTicks
  OwnerConfig <- MCOwnerConfig
  Levels = {1}
  Debounce = 1
  LocalOps = {"set", "hazard", "code"}
  BleOps = {"set", "hazard", "lock", "unlock"}
  WriteOutcomes = {TRUE, FALSE}
INVARIANTS
  DeviceSound
  OutputsOwed
PROPERTIES
  BootsAsLeft
