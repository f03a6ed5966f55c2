CONSTANTS
  NCalls = 2
  Libs = {"nccl", "mojoccl"}
  Kinds = {"inplace", "flat", "alltoall", "allgather", "reduce_scatter", "gather", "scatter", "send", "recv"}
  MaxRaises = 1
SPECIFICATION Spec
INVARIANTS NoUseAfterRelease ResultsInOrder BlockLeavesNothing
CHECK_DEADLOCK FALSE
