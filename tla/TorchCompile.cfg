CONSTANTS
  Side = {s1, s2}
  Length = 4
  MaxColl = 1
SPECIFICATION CompileSpec
SYMMETRY Sym
INVARIANTS EagerOrderKept ReadsAfterWrites TransfersSettled LayoutIsAten BackwardIsAdjoint OrderIsAten
CHECK_DEADLOCK FALSE
