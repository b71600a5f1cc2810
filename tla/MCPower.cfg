SPECIFICATION FairSpec
CONSTANTS
  b1 = b1
  b2 = b2
  Buttons = {b1, b2}
  Gates = {"outputs"}
  Sequence <- MCSequence
  IdleAfter = 1
  ParkedAfter = 2
  TickOf <- MCTickOf
INVARIANTS
  PowerSound
PROPERTIES
  Parks
