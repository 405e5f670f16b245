SPECIFICATION CarefulSpec
CONSTANTS
  plain = plain
  single = single
  doubled = doubled
  Row = {plain, single, doubled}
  Pasted <- MCPasted
  Unpastable <- MCUnpastable
  MaxId = 4
  MaxOverlap = 0
  MaxListed = 2
  MaxThrows = 2
INVARIANTS
  CountCoversRows
  NextIdAhead
  OneLossPerOpening
PROPERTIES
  ImplementsStore
