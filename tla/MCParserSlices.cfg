SPECIFICATION Spec
CONSTANTS
  Messages <- MCMessages
  Follow <- MCFollow
  LenMax = 41
  MaxHeaders = 3
  Room = 3
  Arrivals = {1, 2, 3, 12}
  Dests = {1, 2, 3}
CHECK_DEADLOCK FALSE
INVARIANT SlicesContinue
