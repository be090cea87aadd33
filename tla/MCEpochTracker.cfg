CONSTANTS
  a = a
  b = b
  k1 = k1
  k2 = k2
  Cells = {a, b}
  Controllers = {k1, k2}
  Quorum = 2
  Tokens <- StepTokens
  Genesis <- MCGenesis
  NoEpoch = NoEpoch
  NoRoster = NoRoster
  MinTTL = 2
  MaxTTL = 4
  Skew = 1
  Hour = 3
  MaxAuto = 1
  MaxClock = 5
  MaxFaults = 1
  w1 = w1
  w2 = w2
  pol = pol
  other = other
  k3 = k3
  Proofs <- SecondProofs
  Actions = {w1, w2}
  PolicyID = pol
  GateControllers = {k1, k2, k3}
  K = 2
  Second = 2
  MaxProofTTL = 5
  Capacity = 2
  MaxGateClock = 7
  MaxEpoch = 1
  u1 = u1
  u2 = u2
  Sources <- MCSources
  ConfirmRuns = 2
  RestDelay = 1
  MaxPerHour = 2
  BudgetHour = 6
  MaxStalls = 1
  MaxDown = 1
  MaxLeafFaults = 1
  MaxDogCrashes = 1
SPECIFICATION MCSpec
INVARIANTS
  SingleAuthority
  RevocationSticks
PROPERTIES
  OneAuthorisationPerProof
  NoSilentOutage
