SPECIFICATION Spec
CONSTANTS
  outer = outer
  inner = inner
  other = other
  c1 = c1
  c2 = c2
  c3 = c3
  c4 = c4
  NoCaller = noCaller
  NoConn = noConn
  Checkouts = {outer}
  Caller <- MCFlat
  Conns = {c1, c2}
  maxsize = 1
  MaxLosses = 1
INVARIANT
  GaugeReturnsToZero
