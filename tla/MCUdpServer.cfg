SPECIFICATION FairSpec
CONSTANTS
  Clients = {c1, c2}
  Casts = {b1}
  Kicks = {k1}
  MaxSessions = 3
INVARIANTS
  TypeOK
  RegisteredIsWatched
  LiveIsRegistered
PROPERTY
  StopEndsAll
\* Once stopped the server has nothing left to do.
CHECK_DEADLOCK FALSE
