SPECIFICATION Spec
CONSTANTS
  s1 = s1
  a = a
  b = b
  a1 = a1
  a2 = a2
  b1 = b1
  Section = {s1}
  Work = {a, b}
  Task = {a1, a2, b1}
  WorkOf <- Works
  Plans <- TwoPlans
  Template <- OnlyA
  Proc = {p1, p2}
  p1 = p1
  p2 = p2
  None = None
INVARIANTS SequenceMatches VolumesSurvive
SYMMETRY Symmetry
CONSTRAINT Overlaps
