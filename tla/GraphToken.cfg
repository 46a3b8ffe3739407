SPECIFICATION FairSpec
CONSTANTS
  Threads = {t1, t2, t3}
  Accounts = {target, other}
  Target = target
  MAX_RETRIES = 1
  Limit = 2
  MaxSignIns = 2
  Absent = Absent
  Empty = Empty
  Garbled = Garbled
  Nothing = Nothing
INVARIANTS
  TypeOK
  OnlyTargetConnected
  OwnerHasLastWord
  RefreshedOnce
PROPERTY EverySyncEnds
