SPECIFICATION Spec
CONSTANTS
  t1 = t1
  t2 = t2
  t3 = t3
  c1 = c1
  c2 = c2
  white = white
  red = red
  None = None
  Tasks <- MCTasks1
  Clients <- MCClients2
  Hues <- MCHues
  White <- white
  Kinds = {"fade", "on", "off", "toggle"}
  MaxSteps = 0
INVARIANTS
  NoLostUpdate
  ActionEffect
SYMMETRY SymmetryClients
CHECK_DEADLOCK FALSE
