SPECIFICATION Spec
CONSTANTS
  Publishers = {p1, p2}
  Keys = {a, b}
  MK = MK
  Digests = {d1, d2}
  Manifests = {m1, m2, m3}
  Objects <- MCObjects
  Pages = 2
  Page <- MCPage
  Absent = Absent
  NoSum = NoSum
  ForeignKeys = {a, MK}
  MaxFaults = 1
  p1 = p1
  p2 = p2
  a = a
  b = b
  d1 = d1
  d2 = d2
  m1 = m1
  m2 = m2
  m3 = m3
INVARIANTS ManifestImpliesComplete PublishedIsStored FailureHasACause
PROPERTIES WriteOnce ImplementsStore
SYMMETRY Symmetric
