SPECIFICATION Spec
CONSTANTS
  s1 = s1  s2 = s2  c1 = c1  c2 = c2  c3 = c3  c4 = c4
  None = None
  Servers <- OneServer
  Conns <- TwoConns
  ServerOf <- AllToFirst
  Pooled <- OneServer
  MaxConnections <- AtMostOne
  ThreadLimits = {1}
INVARIANT ConnectionLimit
