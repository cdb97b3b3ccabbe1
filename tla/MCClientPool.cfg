SPECIFICATION Spec
CONSTANTS
  Tasks = {t1, t2}
  Conns = {c1, c2, c3}
  NoConn = NoConn
  Keys = {k1, k2}
  SecureKeys = {k2}
  Responses <- AllGood
  MaxIdle = 2
  MaxRedirects = 1
  ServerMax = 2
  ServerTimeout = 1
  MaxTime = 1
  WebSockets = TRUE
SYMMETRY PoolSymmetry
INVARIANTS TypeOK OneOwner OwnResponse IdleUsable BundleWhole
