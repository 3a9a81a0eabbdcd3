SPECIFICATION Spec
CONSTANTS
  h1 = h1
  h2 = h2
  h3 = h3
  h4 = h4
  Procs = {p1, p2, p3}
  Hooks = {h1, h3, h4}
  Callbacks <- MCCallbacks
  ConfigHooks <- MCConfigOne
  Panicky = {h1, h3}
  NoProc = NoProc
  NoHook = NoHook
SYMMETRY Interchangeable
INVARIANTS HooksAgree CallbackSeesItsState
PROPERTIES ImplementsAtomicGate
