SPECIFICATION Spec
CONSTANTS
  k1 = k1
  k2 = k2
  p1 = p1
  p2 = p2
  Proc = {p1, p2}
  Key = {k1, k2}
  Mode = {"authz", "users-me"}
  TTL = 2
  NegTTL = 1
  Leeway = 1
  MaxLife = 3
  Patience = 1
  None = None
PROPERTIES ValidTokensPass LossesTakeEffect OutagesAreNotRefusals TokenBoundsAnswer
SYMMETRY Symmetry
CONSTRAINT Focus
