SPECIFICATION Spec
CONSTANTS
  Clients = {c1, c2}
  Queue = "q"
  Topics = {"t1", "t2"}
  Passwords = {p1, p2}
  MaxCmds = 4
  MaxUpdates = 1
  MaxFaults = 1
  ChannelBuff = 1
  Times = {1, 2}
  MaxAdds = 3
  MaxTicks = 1
  Cleaners = {a}
  NumOfWorkers = 1
  MaxPushes = 2
  MaxPops = 2
  MaxHttpFaults = 1
  Slots = {s1}
  Pids = {100, 101}
  MaxRuns = 2
  MaxProcs = 3
  MaxSignals = 3
  MaxConns = 1
  QueueSize = 1
  MaxFileSize = 0
  MaxFileCount = 2
  MaxLines = 4
  MaxHour = 2
  MaxLogFaults = 1
  Callers = {c1, c2}
  DebugMax = 2
  DebugKeep = 0
  DefaultCount = 2
  MaxTasks = 3
  MaxErrors = 1
  MaxCallFaults = 1
  MaxRequests = 6
  MaxNetFaults = 1
  RetryTimes = 2
  ConfQueues = {q1, q2}
  CmdCap = 4
  MaxDeliveries = 2
INVARIANTS  RepliesInStep AnswerTruthful  ChildrenBounded StraySignals     ConversionsTotal
PROPERTIES PartsSettle
CHECK_DEADLOCK FALSE
