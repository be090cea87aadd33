CONSTANTS
  w1 = w1
  Writers = {w1}
  Deadline = {w1}
  Capacity = 2
  Window = 0
  MaxLeaves = 2
SPECIFICATION FairSpec
INVARIANTS
  StopIsLast
PROPERTIES
  AcceptedInWindow
  CutEnds
  
