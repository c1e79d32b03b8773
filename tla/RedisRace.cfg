SPECIFICATION Spec
CONSTANTS
  Callers = {w1, w2}
  Conns = {c1, c2, c3, c4}
  MaxConnNum = 2
  MaxIdleNum = 1
  MaxErrs = 2
  NoConn = NoConn
SYMMETRY Symmetry
INVARIANTS ExclusiveUse
