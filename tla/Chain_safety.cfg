SPECIFICATION Spec
CONSTANTS
  Nops = {"nop"}
  Plain = {"plain"}
  Caring = {"caring"}
  MaxChains = 2
  MaxLen = 4
  MaxThens = 2
INVARIANTS TripsInOrder ClosesEveryIdler
CHECK_DEADLOCK FALSE
