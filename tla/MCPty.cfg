SPECIFICATION PtySpec
CONSTANTS
  r1 = r1
  r2 = r2
  u1 = u1
  MaxSessions = 1
  ScrollbackCap = 1
  Fds <- TwoFds
  Requests <- OneRequest
  Subscribers <- OneSubscriber
  MaxCreated = 2
  MaxOutput = 2
INVARIANTS
  FullReplayNoGap
  NoSilentDeadTerminal
  ReadLoopOwnsDescriptor
PROPERTIES
  DeleteEndsSession
  DescriptorsReturned
CHECK_DEADLOCK FALSE
