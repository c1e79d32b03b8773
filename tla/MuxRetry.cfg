SPECIFICATION Spec
CONSTANTS
  Muxers = {m1, m2}
  Slots = {s1}
  MaxJobs = 1
  Confs <- RetryOrNot
  RetryDur = 1
  Horizon = 2
  MaxFaults = 1
  MaxCrashes = 0
  MaxAdmin = 2
  MaxTaken = 1
SYMMETRY Symmetry
INVARIANTS OnePlace RetriesBounded TimeoutDeserved
PROPERTIES BudgetNeverRefilled
CHECK_DEADLOCK FALSE
