\* Two concurrent invocations over plans that add an include, drop an exclude, or do both.
CONSTANTS
  p0 = p0
  wide = wide
  open = open
  both = both
  Plans <- AllPlans
  Includes <- AllIncludes
  Excludes <- AllExcludes
  Callers = {c1, c2}
  NoPlan = NoPlan
SPECIFICATION FairSpec
INVARIANTS TypeOK RunsWithinReviewed HistoryAgrees
PROPERTIES AcceptanceKept CheckEnds
