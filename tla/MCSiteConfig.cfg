SPECIFICATION Spec
CONSTANTS
  Commits = {c1, c2, c3, c4}
  Slugs = {home, guide, index, old, extra}
  Address <- MCAddress
  PagesOf <- MCPages
  HiddenOf <- MCHidden
  RedirectsOf <- MCRedirects
  Misfiled = {c4}
  Misnamed = {c3}
  Unpublished = {c2}
  Labels = {v1, V1, v2}
  Fold <- MCFold
  NoPin = NoPin
  MaxVersions = 2
  MaxPatches = 1
  c1 = c1
  c2 = c2
  c3 = c3
  c4 = c4
  home = home
  guide = guide
  index = index
  old = old
  extra = extra
  v1 = v1
  V1 = V1
  v2 = v2
INVARIANTS GreenSyncIsFetchable
PROPERTIES GreenPatchFits
