SPECIFICATION Spec
CONSTANTS
  v1 = v1  v2 = v2  v3 = v3  p1 = p1  p2 = p2  q1 = q1  q2 = q2
  VMs = {v1, v2}
  None = None
  OldPlans = {p1}
  NewPlans = {q1, q2}
  Batches <- TwoVMs
  Cached = FALSE
  Impatient = FALSE
  StaleRows = FALSE
  Failing = {"plan", "migration", "wait", "post"}
  MaxConcurrentReconciles = 1
  MaxOps = 2
  MaxFaults = 1
  MaxEvents = 2
INVARIANTS TypeOK OnePlanPerVM DeletionSticks FirstFailureReported
PROPERTIES OthersKept
SYMMETRY Symmetry
CHECK_DEADLOCK FALSE
