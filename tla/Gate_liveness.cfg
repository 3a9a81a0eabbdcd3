SPECIFICATION FairSpec
CONSTANTS
  h1 = h1
  h2 = h2
  h3 = h3
  h4 = h4
  Procs = {p1, p2}
  Hooks = {h1, h2, h3, h4}
  Callbacks <- MCCallbacks
  ConfigHooks <- MCConfigTwo
  Panicky = {h1, h3}
  NoProc = NoProc
  NoHook = NoHook
PROPERTIES EveryCallReturns
