SPECIFICATION FairSpec
CONSTANTS
  p1 = p1
  p2 = p2
  c1 = c1
  c2 = c2
  s1 = s1
  s2 = s2
  PlanId = {p1, p2}
  Cell = {c1, c2}
  Scope <- HousingScope
  Housing <- HousingScope
  Session = {s1, s2}
  Duty <- NightlyDuty
  Crashes = FALSE
  Watched = {}
  NoRow = NoRow
INVARIANTS IInv LockOrder
PROPERTIES EveryRequestEnds
