SPECIFICATION Spec
CONSTANTS
  Common = Common
  Beside = Beside
  Mounts <- MCMounts
  Conventional = Common
  Here = Here
  Odd = Odd
  None = None
  Own = Own
  Opaque = Opaque
  Other = Other
  Starts <- MCStarts
  Rewrites <- MCRewrites
INVARIANTS NothingShipsUnwired InstallKeepsTheBuild
PROPERTIES EventuallyWired
