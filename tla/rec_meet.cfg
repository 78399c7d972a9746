SPECIFICATION FairSpec
CONSTANTS
  h1 = h1
  h2 = h2
  k1 = k1
  k2 = k2
  e1 = e1
  w1 = w1
  r1 = r1
  r2 = r2
  Run = {r1, r2}
  Housing = {h1}
  Projects <- NoProject
  Day = {1, 2}
  Contractor = {k1}
  Spot = {e1}
  WorkOf <- OneWork
  Position <- OnePosition
  Fact <- OtherFact
  Percent = {100}
  Full = 100
  None = None
  Crashes = TRUE
INVARIANTS DaysAreWhole CountsAddUp
PROPERTIES BoardSpec EveryRunEnds
CHECK_DEADLOCK FALSE
