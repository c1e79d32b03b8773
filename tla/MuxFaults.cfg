SPECIFICATION Spec
CONSTANTS
  Muxers = {m1, m2}
  Slots = {s1}
  MaxJobs = 2
  Confs <- OneConf
  RetryDur = 1
  Horizon = 1
  MaxFaults = 1
  MaxCrashes = 1
  MaxAdmin = 0
  MaxTaken = 0
SYMMETRY Symmetry
INVARIANTS TypeOK NothingForgotten FirstInFirstOut
PROPERTIES ImplementsJobBus
CHECK_DEADLOCK FALSE
