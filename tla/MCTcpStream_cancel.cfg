SPECIFICATION Spec
CONSTANTS
  Senders = {s1, s2, s3}
  Disconnects = {}
  Chunks = 2
  CancelPoints = {"waiting"}
  AppCloses = FALSE
  PeerStates = {}
INVARIANTS FramesContiguous
CHECK_DEADLOCK FALSE
