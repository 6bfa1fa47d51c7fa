\* Resuming with the approval a run that paused for it; no task command.
CONSTANTS
  N = 2
  DependsOn <- PairDeps
  Bindings <- None
  SuccessOf <- None
  NonEmptyOf <- None
  Gated = {2}
  Rerun = {}
  MaxParallel = 2
  MaxAttempts = 1
  Outputs = {"full"}
  Plans = {"p"}
  Commands = {}
SPECIFICATION Spec
CHECK_DEADLOCK FALSE
INVARIANT ApprovedResumeProceeds
