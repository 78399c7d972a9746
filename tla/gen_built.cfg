SPECIFICATION FairSpec
CONSTANTS
  wa = wa
  wb = wb
  k1 = k1
  k2 = k2
  Section <- Sections1
  Floor <- Floors2
  Work = {wa, wb}
  Contractor = {k1, k2}
  HousingNodes <- SlopeGraph
  SectionNodes <- NoOwnGraph
  Crew <- Alone
  Assigned <- Alone
  Limits <- MixedLimits
  Anyone = Anyone
  DefaultLimit = 4
  Synced = {k1, k2}
  Outages = FALSE
  Closings = FALSE
PROPERTIES HousingGetsBuilt
