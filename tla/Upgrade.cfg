SPECIFICATION Spec
CONSTANTS
  Images = {1, 7, 12}
  Keys = {k1, k2}
  NoKey = NoKey
  MaxCuts = 1
INVARIANTS
  TypeOK
  ServedIsMigrated
  RefusalsExplained
