SPECIFICATION Spec
CONSTANTS
  Names = {1, 2, 3}
  RawNames = {1, 2, 3, 4}
  Canonical <- Spelled
  Values = {0, 1, 2}
  Blank = 0
  Maps <- TwoNames
  Lists <- OddAndEven
  MaxHeaders = 3
INVARIANTS ReadsAsGiven NeverPanics
CHECK_DEADLOCK FALSE
