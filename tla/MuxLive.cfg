SPECIFICATION FairSpec
CONSTANTS
  Muxers = {m1, m2}
  Slots = {s1}
  MaxJobs = 1
  Confs <- ConsumeOrNot
  RetryDur = 1
  Horizon = 1
  MaxFaults = 0
  MaxCrashes = 1
  MaxAdmin = 0
  MaxTaken = 0
PROPERTIES EveryJobSettles 
CHECK_DEADLOCK FALSE
