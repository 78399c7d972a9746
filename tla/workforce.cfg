SPECIFICATION Spec
CONSTANTS
  c1 = c1
  c2 = c2
  p1 = p1
  p2 = p2
  Proc = {p1, p2}
  ch = ch
  Challenge = {ch}
  OfChallenge <- OneChallenge
  Checkpoint = {c1, c2}
  CheckWeek <- OneAWeek
  LastWeek = 3
  None = None
INVARIANTS MissedIsRecorded EscalationIsDue
PROPERTIES JudgedOnce StepByStep ResolutionsStand
SYMMETRY Symmetry
CONSTRAINT Few
