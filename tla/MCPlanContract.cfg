CONSTANTS
  long = long
  agent = agent
  s1 = s1
  s2 = s2
  k1 = k1
  k2 = k2
  k3 = k3
  Contents = {long}
  Subject <- MCSubject
  Steps <- MCSteps
  Required <- MCRequired
  Keys = {k1, k2, k3}
  Submitters = {k1}
  Approvers = {k1, k2, k3}
  Revokers = {k1}
  Separate = FALSE
  NoPlan = NoPlan
  NoKey = NoKey
  MaxPending = 1
  MaxApproved = 1
  MaxTombstones = 1
  MaxReplay = 2
  PendingTTL = 1
  MinTTL = 1
  ApprovalTTL = 1
  SubmissionTTL = 1
  MaxClock = 2
  MaxPlanFaults = 1
  MaxPlans = 2
  a1 = a1
  a2 = a2
  a3 = a3
  b1 = b1
  A = A
  B = B
  Nobody = Nobody
  Reqs = {a1, a2, a3, b1}
  Subjects = {A, B}
  SubjectOf <- MCSubjectOf
  MaxInflight = 2
  MaxQueue = 2
  SubjectShare = 75
SPECIFICATION MCSpec
SYMMETRY Symmetry
INVARIANTS
  ApprovedIsProved
  EachStepOnce
  SlotsAccounted
  WorkConserving
PROPERTIES
  RevokedNeverRuns
  
  FairService
