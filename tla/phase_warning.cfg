SPECIFICATION Spec
CONSTANTS
  Paths = {"nbdAdmin"}
  Answers = {}
  MaxRecover = 0
  MaxFail = 0
  MaxCrash = 0
  MaxWarn = 1
  MaxFaults = 0
  MaxTies = 0
  MaxExpiry = 0
  MaxMishaps = 2
INVARIANTS FailedMeansFailed
