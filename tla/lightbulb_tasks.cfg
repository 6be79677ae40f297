SPECIFICATION Spec
CONSTANTS
  t1 = t1
  t2 = t2
  t3 = t3
  c1 = c1
  c2 = c2
  white = white
  red = red
  None = None
  Tasks <- MCTasks2
  Clients <- MCClients0
  Hues <- MCOneHue
  White <- white
  Kinds = {"fade", "on", "off", "blink", "toggle"}
  MaxSteps = 1
INVARIANTS
  TypeOK
  NoStaleResource
  LocationNamesTask
  CancelStopsTask
  InterruptHitsItsTask
PROPERTIES
  ImplementsLifecycle
SYMMETRY SymmetryTasks
CHECK_DEADLOCK FALSE
