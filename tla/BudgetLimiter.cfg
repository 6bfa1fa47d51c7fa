\* Three callers, one program with two slots, one provider, two hosts; the
\* provider limit 0 is raised to 1 by NewLocal.
CONSTANTS
  Callers = {c1, c2, c3}
  Programs = {p1}
  Providers = {v1}
  Hosts = {h1, h2}
  ProgramLimit = 2
  ProviderLimit = 0
  HostLimit = 1
  MaxCalls = 2
SPECIFICATION FairSpec
CHECK_DEADLOCK FALSE
INVARIANTS TypeOK LimitsRespected CountersExact NoLostWakeup
PROPERTY AcquireReturns
