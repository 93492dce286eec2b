SPECIFICATION Spec
CONSTANTS
  Procs = {p1, p2}
  Files <- SingleFiles
  Nobody = Nobody
  Recoverers = {}
  Sweepers = {}
  Inodes = {1, 2, 3, 4}
  SyncReachesEntry = TRUE
INVARIANTS LiveIsProtected
