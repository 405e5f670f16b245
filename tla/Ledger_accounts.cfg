SPECIFICATION Spec
CONSTANTS
  Half = 512
  Openings <- AmountFive
  Values <- AmountNine
  Descriptions = {"rent"}
  Pasted <- Unescaped
  Unpastable = {}
  MaxListed = 5
  GivenStatus = {}
  Ratios <- RatioHalf
  Flaws = {}
  MaxEntry = 2
  MaxRecord = 4
  MaxPolicy = 1
INVARIANTS
  UndoPolicyInvertsApply
PROPERTIES
  TransferConserves
  ImplementsAccounts
