SPECIFICATION FairSpec
CONSTANTS
  Tasks = {t1, t2}
  Conns = {c1, c2}
  NoConn = NoConn
  Keys = {k1, k2}
  SecureKeys = {k2}
  Responses <- OnlyRedirects
  MaxIdle = 1
  MaxRedirects = 2
  ServerMax = 0
  ServerTimeout = 0
  MaxTime = 0
  WebSockets = FALSE
PROPERTY EveryFetchEnds
