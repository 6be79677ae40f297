SPECIFICATION Spec
CONSTANTS
  r1 = r1
  r2 = r2
  None = None
  Directory = Directory
  MaxObservers = 2
  QueueSize = 2
  AckTimeout = 1
  MaxRetransmit = 1
  MaxSpan = 2
  MaxAge = 2
  Delta = 1
  ConEvery = 2
  MidSpace = 65536
  MaxMessages = 4
  Leavers <- MCRemotes0
  Remotes <- MCRemotes1
INVARIANTS
  NotifyCallbackFinds
CHECK_DEADLOCK FALSE
