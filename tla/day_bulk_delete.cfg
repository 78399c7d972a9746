SPECIFICATION Spec
CONSTANTS
  p1 = p1
  p2 = p2
  p3 = p3
  c1 = c1
  c2 = c2
  s1 = s1
  s2 = s2
  PlanId = {p1, p2, p3}
  Cell = {c1, c2}
  Scope <- SectionScope
  Housing <- OneHousing
  Session = {s1, s2}
  Duty <- BoardDuty
  Crashes = FALSE
  Watched = {}
  NoRow = NoRow
SYMMETRY Symmetry
INVARIANTS JournaledDeletesHappen
