CONSTANTS
  Procs = {p1, p2, p3}
  Locks = TRUE
  MaxCrashes = 2
SPECIFICATION Spec
SYMMETRY Sym
INVARIANTS FallbackPossible LoadFallsBack
CHECK_DEADLOCK FALSE
