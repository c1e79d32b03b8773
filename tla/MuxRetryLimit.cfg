SPECIFICATION Spec
CONSTANTS
  Muxers = {m1}
  Slots = {s1}
  MaxJobs = 1
  Confs <- LongRetry
  RetryDur = 1
  Horizon = 11
  MaxFaults = 0
  MaxCrashes = 0
  MaxAdmin = 0
  MaxTaken = 0
SYMMETRY Symmetry
INVARIANTS AtMostTenRetries
CHECK_DEADLOCK FALSE
