SPECIFICATION Spec
CONSTANTS
  Procs = {p1, p2}
  Sites = {p1, p2}
  Site <- OwnSite
  Commits = {c1}
  Keys = {page}
  Binary = {}
  SourceRaw = {page}
  MK = MK
  Objects <- PageOnly
  Flaw <- Sound
  Labels = {l1}
  Tables <- OneTable
  Skewed = {}
  NoPin = NoPin
  Nobody = Nobody
  Torn = Torn
  Absent = Absent
  MaxFaults = 0
  c1 = c1
  c2 = c2
  c3 = c3
  page = page
  asset = asset
  l1 = l1
  l2 = l2
  p1 = p1
  p2 = p2
INVARIANTS PrefetchedIsExact
