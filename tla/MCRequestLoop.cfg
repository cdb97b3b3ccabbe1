SPECIFICATION FairSpec
CONSTANTS
  Requests <- AllKinds
  MaxRequests = 3
  MaxFrames = 2
  MaxBodySize = 1
  MaxCount = 2
  RequestTimeout = TRUE
  KeepaliveTimeout = TRUE
  HandlerCatches = TRUE
  Patient = FALSE
INVARIANTS TypeOK InStep NoneSwallowed AnswersInOrder LimitAnnounced TimerMatchesPhase
PROPERTIES StallInterrupted ImplementsExchange
