SPECIFICATION Spec
CONSTANTS
  s1 = s1  s2 = s2  p1 = p1  p2 = p2  vc1 = vc1  vc2 = vc2  pcd = pcd
  Clusters <- TwoEach
  CredOf <- Owner
  ValidCreds = {vc1, vc2, pcd}
  None = None
  Methods = {"normal", "StorageAcceleratedCopy"}
  Failing = {"poll", "delete", "network", "storage", "array", "mapping", "plan"}
  InOrder = TRUE
  Impatient = FALSE
  MaxMounts = 2
  MaxEdits = 3
  MaxFaults = 1
INVARIANTS TypeOK PlanAsChosen PlanKeepsTemplate SyncedWhenQuiet
