CONSTANTS
  t1 = t1
  t2 = t2
  t3 = t3
  bad = bad
  Handlers = {h1, h2}
  Tokens = {t1, t2, t3, bad}
  NoToken = NoToken
  Iat <- MCIat
  Exp <- MCExp
  TokEpoch <- MCTokEpoch
  Defect <- MCDefect
  Metered <- MCMetered
  MinTTL = 1
  MaxTTL = 2
  Capacity = 2
  MaxClock = 3
  MaxEpoch = 1
  AnoReqs = {"a", "b"}
  Body <- MCBody
  Query <- MCQuery
  KeepPaths <- MCKeep
  MaskPaths <- MCMask
  Patterned = {"iban"}
  Reserved = "TBP_VAR_1"
  TokenIat <- MCTokenIat
  TokenExp <- MCTokenExp
  Grace = 1
  AnoTTL = 2
  MaxExchanges = 1
  MaxEntries = 3
  MaxClassifierCalls = 1
  MaxCalls = 1
  MaxMasks = 2
  MaxAnoClock = 3
  MaxAnoCrashes = 1
  MaxPepCrashes = 1
SPECIFICATION MCSpec
SYMMETRY Symmetry
INVARIANTS
  FreshNeverForgotten
  NoProofNoAccess
  LeavesMasked
  OnlyOwnValues
PROPERTIES
  OneShotWhileFresh
  TokensKeepMeaning
CHECK_DEADLOCK FALSE
