\* A service in the main thread beside a pooled one that takes one connection,
\* under the fairness of the event loops.
SPECIFICATION FairSpec
CONSTANTS
  s1 = s1  s2 = s2  c1 = c1  c2 = c2  c3 = c3  c4 = c4
  None = None
  Servers <- TwoServers
  Conns <- ThreeConns
  ServerOf <- FirstAlone
  Pooled = {s2}
  MaxConnections <- SecondAtMostOne
  ThreadLimits = {2}
INVARIANT SingleOwner
PROPERTIES ImplementsService SuspendReturns PostedIsHandled ClosedIsForgotten PoolIsDestroyed
