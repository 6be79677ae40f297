SPECIFICATION Spec
CONSTANTS
  tick = tick
  button = button
  None = None
  Timers <- MCTimers
  Repeated <- MCRepeated
  Interval <- MCInterval
  CounterMod = 50
  OffsetMin = 2
  QueueSize = 6
  MaxLag = 1
  PinCount = 2
  MaxEdges = 3
  MaxEarlyEdges = 0
INVARIANTS
  RecordedEdgeTimed
VIEW View
