\* Two gated steps, one of which reruns when its input changes; two plans.
CONSTANTS
  N = 3
  DependsOn <- FanDeps
  Bindings <- FanBindings
  SuccessOf <- None
  NonEmptyOf <- FanBindings
  Gated = {2, 3}
  Rerun = {2}
  MaxParallel = 2
  MaxAttempts = 1
  Outputs = {"full", "empty"}
  Plans = {"p", "q"}
  Commands = {"pause", "resume", "cancel"}
SPECIFICATION Spec
CHECK_DEADLOCK FALSE
INVARIANT GatedIsDecided
PROPERTY SuccessKept
