SPECIFICATION TransferFairSpec
CONSTANTS
  p1 = p1
  p2 = p2
  c1 = c1
  c2 = c2
  c3 = c3
  Phones = {p1, p2}
  Callers = {c1, c2, c3}
  ClientOf <- MCClientOf
  Sizes = {1, 2}
  NoOne = NoOne
  Largest = 2
  MaxEvents = 3
CHECK_DEADLOCK FALSE
INVARIANTS
  TransferSound
  RepliesTrue
PROPERTIES
  CallsEnd
