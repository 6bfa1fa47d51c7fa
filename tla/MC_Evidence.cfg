\* A service execution and a worker execution of the same step, two purgers.
CONSTANTS
  e = e
  w = w
  s1 = s1
  Runs = {e, w}
  Steps = {s1}
  StepOf <- MCStepOf
  WorkerRuns = {w}
  MaxFaults = 1
  Purgers = {p1, p2}
  PurgeLimit = 2
SPECIFICATION Spec
CHECK_DEADLOCK FALSE
INVARIANTS TypeOK ContentWhileLive ReferencesResolve StoredOnlyAllowed ReportedIsDurable
PROPERTY ExpiredEventuallyGone
