SPECIFICATION FairSpec
CONSTANTS
  w1 = w1  w2 = w2
  NumExtents = 3
  Workers = {w1, w2}
  HandlePoolSize = 2
  NumBlocks = 2
  SubRanges = 2
  MaxRetries = 2
  MaxFaults = 2
  MaxShort = 1
  CallerCancels = TRUE
INVARIANTS TypeOK NilMeansCopied NoUseAfterClose ErrorNotLost
PROPERTIES Terminates
