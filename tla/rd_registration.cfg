SPECIFICATION Spec
CONSTANTS
  Servers = {s1, s2}
  Delay <- MCDelay
  Lifetime <- MCLifetime
  Timeout <- MCTimeout
  Minimum <- MCMinimum
  Stagger = 3
  MaxRestarts = 1
  MaxCount = 2
  Never = Never
INVARIANTS
  TypeOK
  KeepsUp
PROPERTIES
  OneLossTolerated
  RefreshesForEver
