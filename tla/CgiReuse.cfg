SPECIFICATION Spec
CONSTANTS
  Workers = {w1}
  Conns = {c1}
  InitConnNum = 1
  MaxConnNum = 1
  ReuseCounts = 1
  MaxRepeats = 1
  NoConn = NoConn
INVARIANTS PooledConnsReadable
