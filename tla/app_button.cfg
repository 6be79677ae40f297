SPECIFICATION Spec
CONSTANTS
  tick = tick
  button = button
  None = None
  Timers <- MCTimers
  Repeated <- MCRepeated
  Interval <- MCInterval
  CounterMod = 50
  OffsetMin = 2
  QueueSize = 3
  MaxLag = 1
  PinCount = 2
  MaxEdges = 2
  MaxEarlyEdges = 2
INVARIANTS
  TypeOK
  DeadlinesKept
  NeverEarly
  Armed
  SettledPinReported
VIEW View
