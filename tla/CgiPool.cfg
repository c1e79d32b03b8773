SPECIFICATION FairSpec
CONSTANTS
  Workers = {w1, w2, w3}
  Conns = {c1, c2}
  InitConnNum = 1
  MaxConnNum = 1
  ReuseCounts = 1
  MaxRepeats = 1
  NoConn = NoConn
INVARIANTS TypeOK OneOwner CounterExact ConnsBounded NewConnNeverBlocks UseBounded
PROPERTIES RequestReturns
