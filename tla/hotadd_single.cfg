SPECIFICATION FairSpec
CONSTANTS
  m1 = m1  m2 = m2
  Migrations = {m1}
  None = None
  NumDisks = 3
  NumSlots = 3
  NumPorts = 3
  MaxFaults = 1
  MaxLeftovers = 0
  MaxLost = 0
  MaxRestarts = 1
  MaxDeletes = 1
  MaxCrashes = 0
INVARIANTS CopiedOwn SnapshotLast
PROPERTIES LockComesFree
