SPECIFICATION Spec
CONSTANTS
  Half = 16
  Openings <- AmountFive
  Values <- AmountNine
  Descriptions = {"rent", "it's", "it''s"}
  Pasted <- Unescaped
  Unpastable <- SingleQuoted
  MaxListed = 5
  GivenStatus = {"UNKNOWN"}
  Ratios = {0}
  Flaws = {}
  MaxEntry = 2
  MaxRecord = 5
  MaxPolicy = 0
INVARIANTS
  RecordsPartition
  BooksBalance
  EntryMirrorsLastRecord
  UndoInvertsUpdate
