SPECIFICATION Spec
CONSTANTS
  Requests = {r1, r2, r3, r4, r5}
  Limits = {0, 1, 2, 3}
SYMMETRY Interchangeable
INVARIANTS LimitHolds CounterExact
PROPERTY ImplementsAtomicLimiter
