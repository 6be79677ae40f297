SPECIFICATION FairSpec
CONSTANTS
  tick = tick
  button = button
  None = None
  Timers <- MCTimers
  Repeated <- MCRepeated
  Interval <- MCInterval
  CounterMod = 50
  OffsetMin = 2
  QueueSize = 2
  MaxLag = 1
  PinCount = 1
  MaxEdges = 2
  MaxEarlyEdges = 2
PROPERTIES
  TickRings
  PressReported
VIEW View
