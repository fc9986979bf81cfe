SPECIFICATION Spec
CONSTANTS
  Procs = {p1}
  Sites = {"site"}
  Site <- OneSite
  Commits = {c1, c2, c3}
  Keys = {page, asset}
  Binary = {asset}
  SourceRaw = {page}
  MK = MK
  Objects <- MCObjects
  Flaw <- Decode
  Labels = {l1, l2}
  Tables <- MCTables
  Skewed <- MCSkewed
  NoPin = NoPin
  Nobody = Nobody
  Torn = Torn
  Absent = Absent
  MaxFaults = 1
  c1 = c1
  c2 = c2
  c3 = c3
  page = page
  asset = asset
  l1 = l1
  l2 = l2
  p1 = p1
  p2 = p2
INVARIANTS PrefetchedIsExact PruneIsBacked
PROPERTIES EventuallyExact
