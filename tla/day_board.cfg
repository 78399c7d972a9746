SPECIFICATION Spec
CONSTANTS
  p1 = p1
  p2 = p2
  c1 = c1
  c2 = c2
  s1 = s1
  s2 = s2
  PlanId = {p1, p2}
  Cell = {c1, c2}
  Scope <- SectionScope
  Housing <- OneHousing
  Session = {s1, s2}
  Duty <- RivalDuty
  Crashes = TRUE
  Watched = {c1, c2}
  NoRow = NoRow
SYMMETRY Symmetry
INVARIANTS OneAutoPerCell ReferencedRowsStay
PROPERTIES BoardSpec RemovalIsAskedFor SwapIsAtomic
CONSTRAINTS ByHand Met
