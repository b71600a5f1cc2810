SPECIFICATION Spec
CONSTANTS
  NumChannels = 4
  Configs <- MCConfigs
  Codes <- MCCodes
  Button = {"a", "b"}
  Grace = 1
  Window = 2
  QuietReset = 4
  FreeAttempts = 1
  BackoffTicks <- MCBackoffTicks
INVARIANTS
  LockSound
  LockedParked
  WayBackIn
PROPERTIES
  BackoffServed
  UnlockAuthorized
  ImplementsImmobilizer
