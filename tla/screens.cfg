SPECIFICATION Spec
CONSTANTS
  s1 = s1
  s2 = s2
  x1 = x1
  x2 = x2
  Section = {s1, s2}
  Day = {1, 2}
  Place = {x1, x2}
  SectionOf <- OneEach
  Outcomes = {"done_full", "not_done", "no_report", "unplanned"}
  PerPage = 2
  MaxRebuilds = 3
  None = None
INVARIANTS OverviewIsTheSummaries SectionsAddUp WalkCoversTheDays FiltersFind
CONSTRAINT Followed
