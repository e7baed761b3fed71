SPECIFICATION FairSpec
CONSTANTS
  b1 = b1  b2 = b2
  NumDisks = 2
  Blocks = {b1, b2}
  SnapDev <- InOrder
  MigTypes = {"hot", "mock", "cold"}
  AdminChoices = {TRUE, FALSE}
  Threshold = 1
  MaxWrites = 2
  MaxFaults = 1
  MaxForeign = 0
  MaxPowerOn = 0
INVARIANTS TypeOK NoWriteLost PointInTime ChangeIdBehindVolume
PROPERTIES CopiesPointInTime Returns CutoverHonoured
