SPECIFICATION Spec
CONSTANTS
  Muxers = {m1, m2}
  Slots = {s1}
  MaxJobs = 1
  Confs <- OneConf
  RetryDur = 1
  Horizon = 1
  MaxFaults = 0
  MaxCrashes = 1
  MaxAdmin = 0
  MaxTaken = 0
SYMMETRY Symmetry
INVARIANTS RestartKeepsJobs
CHECK_DEADLOCK FALSE
