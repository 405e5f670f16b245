SPECIFICATION Spec
CONSTANTS
  Object = {o1, o2, o3}
  Connection = {c1, c2}
  Null = Null
  Row = {row}
  MaxId = 3
  MaxCount = 3
  MaxForeign = 2
  MaxMoves = 1
SYMMETRY Symmetry
INVARIANTS
  TypeOK
  ConnectionsAccounted
  CountMissesMoves
  LossBoundedBySharing
