\* A plan that was accepted, reverted and brought back.
CONSTANTS
  p0 = p0
  wide = wide
  open = open
  both = both
  Plans <- TwoPlans
  Includes <- TwoIncludes
  Excludes <- TwoExcludes
  Callers = {c1}
  NoPlan = NoPlan
SPECIFICATION Spec
PROPERTY ExpansionBlocked
