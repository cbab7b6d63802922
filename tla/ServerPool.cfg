SPECIFICATION Spec
CONSTANTS
  s1 = s1  s2 = s2  c1 = c1  c2 = c2  c3 = c3  c4 = c4
  None = None
  Servers <- TwoServers
  Conns <- FourConns
  ServerOf <- LastToSecond
  Pooled <- TwoServers
  MaxConnections <- Unlimited
  ThreadLimits = {2}
SYMMETRY SymmetricConns
INVARIANTS TypeOK ThreadBound BalancedLoad CallKeepsSocket SuspendQuiescent
PROPERTY DropsOnlySuspended
