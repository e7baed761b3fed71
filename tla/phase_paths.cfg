SPECIFICATION Spec
CONSTANTS
  Paths = {"nbd", "nbdTimed", "nbdAdmin", "hotAdd", "xcopy", "dataOnly", "ldm"}
  Answers = {"success", "finish", "failed"}
  MaxRecover = 1
  MaxFail = 1
  MaxCrash = 1
  MaxWarn = 1
  MaxFaults = 1
  MaxTies = 1
  MaxExpiry = 1
  MaxMishaps = 1
INVARIANTS TypeOK SucceededMeansCreated PromotingMeansAnswered
PROPERTIES PhaseOnlyAdvances AnswerWrittenOnce
CHECK_DEADLOCK FALSE
