SPECIFICATION Spec
CONSTANTS
  plain = plain
  single = single
  doubled = doubled
  Row = {single, doubled}
  Pasted <- MCPasted
  Unpastable <- MCUnpastable
  MaxId = 4
  MaxOverlap = 1
  MaxListed = 4
  MaxThrows = 2
INVARIANTS
  TypeOK
  
  RiskBoundedByDrift
