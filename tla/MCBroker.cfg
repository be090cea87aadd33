SPECIFICATION MCSpec
CONSTANTS
  None = None
  a = a
  c = c
  p = 1
  Reqs <- MCReqs
  Request <- Requests
  Agent <- MCAgent
  Limit = 2
  MaxEntities = 1
  MaxUint = 3
  MaxEpoch = 1
  MaxRestarts = 1
INVARIANTS
  ConsentUsedOnce
PROPERTY
  QuotaSpec
