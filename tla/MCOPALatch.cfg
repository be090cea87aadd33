CONSTANTS
  e1 = e1
  Evals = {e1}
  TripAfter = 2
  MinUnanswered = 1
  Probes = 2
  MaxFactor = 2
  MaxProofs = 1
SPECIFICATION LatchFairSpec
PROPERTIES
  ClearsAreEarned
  Recovers
  SwapIsLatched
