\* A run resumed with another plan.
CONSTANTS
  N = 2
  DependsOn <- PairDeps
  Bindings <- None
  SuccessOf <- None
  NonEmptyOf <- None
  Gated = {}
  Rerun = {}
  MaxParallel = 2
  MaxAttempts = 1
  Outputs = {"full"}
  Plans = {"p", "q"}
  Commands = {}
SPECIFICATION Spec
CHECK_DEADLOCK FALSE
INVARIANT NoStaleReuse
