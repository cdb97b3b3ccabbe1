SPECIFICATION Spec
CONSTANTS
  Senders = {s1}
  Receiver = r
  PeerFrames <- MCPeerFrames
  SendLens = {124, 65536}
  MaxMessage = 65536
  MaxReads = 3
  MaxSends = 2
  MaxFaults = 1
INVARIANTS FramesWhole PeerReadsFrames PongsMirrorPings MessageWhole
PROPERTIES WritesEnd CloseAnswered
