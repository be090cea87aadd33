CONSTANTS
  Passports = {1, 2}
  Exp <- MCExp
  DryRun = {2}
  VolumeMax = 1
  WindowS = 1
  c1 = c1
  c2 = c2
  Consumers = {c1, c2}
  Quanta = {1, 2}
  MaxPassports = 1
  MaxClock = 3
  NoCounter = NoCounter
SPECIFICATION MCSpec
SYMMETRY Symmetry
INVARIANT
  RecordedOnce
CHECK_DEADLOCK FALSE
