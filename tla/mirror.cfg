SPECIFICATION Spec
CONSTANTS
  p = p
  q = q
  o1 = o1
  o2 = o2
  h = h
  s = s
  e = e
  k = k
  k2 = k2
  c = c
  w = w
  y = y
  y2 = y2
  f = f
  sync = sync
  other = other
  Thing = {p, q, o1, o2, h, s, e, k, k2, c, w, y, y2, f}
  KindOf <- Kinds
  Versions <- TwoVersions
  Dumps <- OldDump
  Shared = {}
  Coded = {w}
  Proc = {sync, other}
  Duty <- Duties
  Removable = {h}
  None = None
INVARIANTS SyncRepairs FactsArrive
CONSTRAINT EditedAlone
