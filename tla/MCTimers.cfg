SPECIFICATION TimersSpec
CONSTANTS
  Wrap = 32
  Period = 5
  Backoffs = {0, 4}
  Pass = 3
  MaxUptime = 80
INVARIANTS
  TimersServed
