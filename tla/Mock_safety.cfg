SPECIFICATION Spec
CONSTANTS
  Goroutines = {g1, g2}
  Requests <- MCRequests
  Asserters <- MCAsserters
  Selections <- MCSelections
  Document <- MCDocument
  NoURL = NoURL
  NoBody = NoBody
  MaxSetup = 4
SYMMETRY Interchangeable
CHECK_DEADLOCK FALSE
INVARIANTS GreenMeansChecked SelectedRequestsPass
