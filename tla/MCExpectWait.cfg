SPECIFICATION FairPeerSpec
CONSTANTS
  Requests <- ExpectKinds
  MaxRequests = 1
  MaxFrames = 2
  MaxBodySize = 1
  MaxCount = 0
  RequestTimeout = FALSE
  KeepaliveTimeout = FALSE
  HandlerCatches = FALSE
  Patient = TRUE
PROPERTY EveryRequestAnswered
