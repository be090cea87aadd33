CONSTANTS
  r1 = r1
  r2 = r2
  s1 = s1
  i = i
  j = j
  None = None
  Reqs = {r1, r2, s1}
  Critical = {}
  Ids = {i, j}
  IdOf <- MCIdOf
  EntryTTL = 1
  MinDecision = 1
  PresenceTTL = 1
  Skew = 0
  MaxEntries = 1
  MaxTime = 1
  MaxTickets = 2
  MaxSigned = 1
  MaxRecords = 5
  MaxFaults = 1
  MaxRestarts = 1
  k1 = k1
  k2 = k2
  m1 = m1
  m2 = m2
  b1 = b1
  b2 = b2
  AnchorFiles <- MCFiles
  Signatories = {k1, k2}
  AnchorQuorum = 2
  MaxAnchorWindow = 3
  Receipts <- MCReceipts
  MirrorKeys = {m1, m2}
  MirrorEpochs = {0, 1}
  Promoters = {p1, p2}
  NoCell = NoCell
  NoAuthority = NoAuthority
  MaxNow = 4
  MaxPromotions = 2
  MaxFileChanges = 2
  MaxMirrorCrashes = 1
  v1 = v1
  v2 = v2
  q1 = q1
  q2 = q2
  Versions = {v1, v2}
  ComponentVersions = {c1, c2}
  Keyrings = {q1, q2}
  Keyring <- MCKeyring
  NoVersion = NoVersion
  NoFile = NoFile
  MaxEdits = 1
  MaxBootProofs = 1
  MaxErasures = 1
  MaxBootCrashes = 1
SPECIFICATION MCSpec
INVARIANTS
  UsedOnce
  FailoverIsAnchored
  AttestationIsLogged
PROPERTIES
  AttestedByProof
  RestartsRefuse
SYMMETRY Symmetry
CHECK_DEADLOCK FALSE
