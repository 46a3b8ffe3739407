SPECIFICATION Spec
CONSTANTS
  Items = {item}
  Texts = {t1, t2}
  Sources = {s1, s2}
  Projects = {p1}
  Writers = {w1, w2}
  Snapshot = snapshot
  NoRow = NoRow
  NoPrint = NoPrint
INVARIANTS
  TypeOK
  LeftOutIsCurrent
  OnlyDeletionHurts
SYMMETRY Symmetry
