SPECIFICATION Spec
CONSTANTS
  wa = wa
  wb = wb
  k1 = k1
  k2 = k2
  Section <- Sections2
  Floor <- Floors2
  Work = {wa, wb}
  Contractor = {k1, k2}
  HousingNodes <- ChainGraph
  SectionNodes <- OwnGraphOf2
  Crew <- Patchy
  Assigned <- Gappy
  Limits <- TwoOfOne
  Anyone = Anyone
  DefaultLimit = 4
  Synced = {k1, k2}
  Outages = TRUE
  Closings = TRUE
INVARIANTS GInv PredecessorsHold FirstFloorsFirst LimitKept
CONSTRAINT InTurn
