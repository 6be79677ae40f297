SPECIFICATION Spec
CONSTANTS
  r1 = r1
  r2 = r2
  None = None
  Directory = Directory
  MaxObservers = 2
  QueueSize = 2
  AckTimeout = 1
  MaxRetransmit = 2
  MaxSpan = 4
  MaxAge = 3
  Delta = 1
  ConEvery = 3
  MidSpace = 65536
  MaxMessages = 3
  Leavers <- MCRemotes0
  Remotes <- MCRemotes2
INVARIANTS
  TypeOK
  CountExact
  ObserversUnique
  OneOutcome
  OneConPending
  FullNeedsRequests
  NoMemMeansFull
SYMMETRY SymmetryRemotes
CHECK_DEADLOCK FALSE
