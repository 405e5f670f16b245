SPECIFICATION Spec
CONSTANTS
  Half = 512
  Openings <- AmountFive
  Values <- AmountNine
  Descriptions = {"rent", "it's"}
  Pasted <- Unescaped
  Unpastable <- SingleQuoted
  MaxListed = 5
  GivenStatus = {}
  Ratios <- RatioHalf
  Flaws = {"cycle", "daily", "undo", "remove"}
  MaxEntry = 2
  MaxRecord = 4
  MaxPolicy = 1
PROPERTIES
  UndoRollsBack
