SPECIFICATION Spec
CONSTANTS
  Callbacks = {c1, c2, c3}
  Panicky = {c1}
  Registering = {c2}
  Codes = {0, 103, 404}
  MaxBytes = 2
  NoStatus <- MCNoStatus
  ObjectCodes = {0, 103, 403}
  Configured = {99, 503, 1000}
  MaxListeners = 2
  RecoveryPanics = TRUE
INVARIANTS
  PanicIsAnswered
  RecoveredIsObserved
  ListenersHearOfAnswers
  LengthIsTheResponse
  EscapeHasACause
CHECK_DEADLOCK FALSE
