SPECIFICATION FairSpec
CONSTANTS
  Conns = {c1, c2}
  MinBackoff = 5
  MaxBackoff = 8
  Tls = TRUE
  ShutdownTimeout = TRUE
  TaskTimeouts = FALSE
INVARIANTS
  TypeOK
  CountIsExact
  NoLostWakeup
  ResourcesOutliveTasks
  DrainedMeansClosed
  OneLateKeepalive
PROPERTY CancelLeadsToReturn
