SPECIFICATION Spec
CONSTANTS
  Half = 16
  Openings = {0}
  Values = {0}
  Descriptions = {"it's", "it''s"}
  Pasted <- Unescaped
  Unpastable <- SingleQuoted
  MaxListed = 1
  GivenStatus = {}
  Ratios = {0}
  Flaws = {"cycle", "daily", "undo", "remove"}
  MaxEntry = 2
  MaxRecord = 3
  MaxPolicy = 0
INVARIANTS
  TypeOK
  SameEntries
