SPECIFICATION Spec
CONSTANTS
  BlockCount <- MCBlocks
  PbufferCount = 2
  None = None
  MaxAddresses = 2
  MaxContexts = 1
  LinkLocal = linkLocal
  Globals = {g1, g2}
  Cids = {c1, c2}
  Unspecified = Unspecified
  Encodings <- MCEncodings
  MaxSends = 2
  QueueSize = 2
  Sizes <- MCSizes
  AllNodes = allNodes
  Destinations = {allNodes, stranger}
INVARIANTS
  TypeOK
  PbuffersReturned
  AddressesConsistent
  ContextsCounted
PROPERTIES
  BlocksKept
  AddressesKept
SYMMETRY Symmetry
CHECK_DEADLOCK FALSE
