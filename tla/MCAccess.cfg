\* Job events and sessions, each by itself.
SPECIFICATION SuiteSpec
CONSTANTS
  Ids = {1}
  Conns = {1, 2}
  None = None
  IdleTimeout = 2
  AbsoluteLifetime = 3
  MaxTime = 3
  MaxVersion = 2
  MaxErrors = 1
  Publishers = {1, 2}
  NoPublisher = NoPublisher
  Streams = {"c1"}
  Cap = 2
  MaxEvents = 5
  MaxReplayErrors = 1
  MaxReconnects = 1
  MaxPolls = 1
INVARIANTS
  StreamIsFaithful
  SessionsAreSound
CHECK_DEADLOCK FALSE
