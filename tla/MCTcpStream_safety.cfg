SPECIFICATION FairSpec
CONSTANTS
  Senders = {s1, s2, s3}
  Disconnects = {d1, d2}
  Chunks = 2
  CancelPoints = {"granted", "writing"}
  AppCloses = TRUE
  PeerStates = {"stalled", "gone"}
INVARIANTS TypeOK MutualExclusion FramesContiguous
PROPERTIES DisconnectCutsNoFrame ImplementsSerialWriter EverySendEnds TimedDisconnectsEnd
CHECK_DEADLOCK FALSE
