SPECIFICATION FairSpec
CONSTANTS
  Paths = {"nbdAdmin", "dataOnly", "ldm"}
  Answers = {"success"}
  MaxRecover = 0
  MaxFail = 1
  MaxCrash = 0
  MaxWarn = 0
  MaxFaults = 0
  MaxTies = 0
  MaxExpiry = 1
  MaxMishaps = 2
INVARIANTS FailedMeansFailed
PROPERTIES SuccessReported FailureReported
