SPECIFICATION FairSpec
CONSTANTS
  p1 = p1
  p2 = p2
  Proc = {p1, p2}
  TTL = 2
  LoadTime = 1
  MaxTime = 5
  MaxSaves = 2
INVARIANTS
  TypeOK
  FreshDecisions
PROPERTIES
  ServiceSpec
  SavedMapTakesOver
  DamagedMapDenies
