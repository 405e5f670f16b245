SPECIFICATION CarefulSpec
CONSTANTS
  plain = plain
  single = single
  doubled = doubled
  Row = {plain, single, doubled}
  Pasted <- MCPasted
  Unpastable <- MCUnpastable
  MaxId = 3
  MaxOverlap = 0
  MaxListed = 4
  MaxThrows = 2
INVARIANTS
  AddedIsStored
