SPECIFICATION Spec
CONSTANTS
  Keys = {k1, k2}
  NoKey = NoKey
  TornKey = TornKey
  MaxKeys = 2
  Handles = {1, 2}
  MaxSessions = 2
  MaxNonce = 2
SYMMETRY AnyPhone
INVARIANTS
  SessionSound
  AuthedOnThisLink
  KeysOwed
PROPERTIES
  OwnersRule
  ResetForgets
