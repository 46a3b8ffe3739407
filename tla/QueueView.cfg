SPECIFICATION Spec
CONSTANTS
  Stored = {a, b}
  Promotable = {p}
  PageLimit = 1
  Slots = {r1, r2}
  NoItem = NoItem
  NoRequest = NoRequest
  MaxOthers = 1
INVARIANTS
  TypeOK
  PagesFit
  ShownIsServer
SYMMETRY Symmetry
CONSTRAINT Followed
