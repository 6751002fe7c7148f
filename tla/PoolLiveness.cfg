SPECIFICATION FairSpec
CONSTANTS
  outer = outer
  inner = inner
  other = other
  c1 = c1
  c2 = c2
  c3 = c3
  c4 = c4
  NoCaller = noCaller
  NoConn = noConn
  Checkouts = {outer, inner}
  Caller <- MCPair
  Conns = {c1, c2, c3}
  maxsize = 1
  MaxLosses = 1
PROPERTY
  CheckoutEnds
