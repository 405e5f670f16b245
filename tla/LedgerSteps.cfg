SPECIFICATION StepsSpec
CONSTANTS
  Half = 512
  Openings <- AmountTwo
  Values <- AmountThree
  Descriptions = {"rent"}
  Pasted <- Unescaped
  Unpastable = {}
  MaxListed = 2
  GivenStatus = {"EXPENSE"}
  Ratios <- RatioHalf
  Flaws = {"cycle", "daily", "undo", "remove"}
  MaxEntry = 2
  MaxRecord = 4
  MaxPolicy = 1
  Links <- Transfers
  MaxAfter = 2
INVARIANTS
  OthersUnharmed
  RemoveHeals
  UndoHeals
PROPERTIES
  ImplementsLedger
