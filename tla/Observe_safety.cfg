SPECIFICATION ObserveSpec
CONSTANTS
  Callbacks = {c1, c2, c3}
  Panicky = {c1, c3}
  Registering = {c2, c3}
  Codes = {0, 103, 404}
  MaxBytes = 2
INVARIANTS
  InterfacesPreserved
  NothingSentUnobserved
  HeardInOrder
  ReportedStatusIsSent
PROPERTY StatusIsStable
CHECK_DEADLOCK FALSE
