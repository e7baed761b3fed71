SPECIFICATION Spec
CONSTANTS
  b1 = b1  b2 = b2
  NumDisks = 2
  Blocks = {b1}
  SnapDev <- Permuted
  MigTypes = {"hot", "cold"}
  AdminChoices = {TRUE,FALSE}
  Threshold = 1
  MaxWrites = 2
  MaxFaults = 1
  MaxForeign = 1
  MaxPowerOn = 1
INVARIANTS ColdUnaffected
PROPERTIES UserSnapshotKept
