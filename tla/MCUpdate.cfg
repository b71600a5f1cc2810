SPECIFICATION Spec
CONSTANTS
  shipped = shipped
  release = release
  large = large
  unsigned = unsigned
  Images = {shipped, release, large, unsigned}
  Signed = {shipped, release, large}
  Size <- MCSize
  MaxSize = 2
  Factory = shipped
  Bundles <- MCBundles
  Phones = {p1, p2}
SYMMETRY AnyPhone
INVARIANTS
  UpdateSound
  CommittedWhole
PROPERTIES
  StaysOnConfirmed
  RollsBack
