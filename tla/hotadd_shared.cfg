SPECIFICATION Spec
CONSTANTS
  m1 = m1  m2 = m2
  Migrations = {m1, m2}
  None = None
  NumDisks = 2
  NumSlots = 4
  NumPorts = 4
  MaxFaults = 1
  MaxLeftovers = 1
  MaxLost = 1
  MaxRestarts = 0
  MaxDeletes = 0
  MaxCrashes = 0
SYMMETRY MigrationSymmetry
INVARIANTS TypeOK DisksApart
