SPECIFICATION Spec
CONSTANTS
  Tasks = {t1, t2}
  Conns = {c1, c2}
  NoConn = NoConn
  Keys = {k1}
  SecureKeys = {}
  Responses <- BadLocation
  MaxIdle = 1
  MaxRedirects = 1
  ServerMax = 0
  ServerTimeout = 0
  MaxTime = 0
  WebSockets = FALSE
SYMMETRY PoolSymmetry
INVARIANT OwnResponse
