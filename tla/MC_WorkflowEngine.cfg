\* Four steps with a gate, a condition and bindings; cancels, crashes, failed saves;
\* every invocation ends.
CONSTANTS
  N = 4
  DependsOn <- DiamondDeps
  Bindings <- DiamondBindings
  SuccessOf <- DiamondSuccess
  NonEmptyOf <- DiamondNonEmpty
  Gated = {3}
  Rerun = {}
  MaxParallel = 2
  MaxAttempts = 2
  Outputs = {"full", "empty", "malformed"}
  Plans = {"p"}
  Commands = {"pause", "resume", "cancel"}
SPECIFICATION FairSpec
CHECK_DEADLOCK FALSE
INVARIANTS TypeOK CompletedMeansAll SomeStepRunnable WaveIndependent
PROPERTY RunEnds
