SPECIFICATION Spec
CONSTANTS
  Callers = {w1, w2, w3}
  Conns = {c1, c2, c3, c4}
  MaxConnNum = 1
  MaxIdleNum = 0
  MaxErrs = 1
  NoConn = NoConn
SYMMETRY Symmetry
INVARIANTS TypeOK ExclusiveUnlessRaced 
 
