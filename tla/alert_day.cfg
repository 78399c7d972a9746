SPECIFICATION FairAlertSpec
CONSTANTS
  c1 = c1
  c2 = c2
  q1 = q1
  q2 = q2
  k1 = k1
  Call = {c1}
  Check = {q1, q2}
  Contractor = {k1}
  Type <- Types
  Role <- Roles
  FirstRole <- FirstRoles
  Rules <- RaisedRules
  MaxHour = 2
  Crashes = TRUE
  NoContractor = NoContractor
INVARIANTS EscalationIsDue
PROPERTIES AcksAreKept CallsAreWhole DueAlertsClimb
CHECK_DEADLOCK FALSE
