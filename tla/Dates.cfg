SPECIFICATION Spec
CONSTANTS
  Holder = {h1, h2}
  Hours <- BackOrOn
  MaxClock = 4
  MaxRecords = 3
SYMMETRY Symmetry
INVARIANTS
  TypeOK
  EntryDatedWithRecords
