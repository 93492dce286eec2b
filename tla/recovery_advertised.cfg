SPECIFICATION Spec
CONSTANTS
  Procs = {p1}
  Files <- PairFiles
  Nobody = Nobody
  Recoverers = {}
  Sweepers = {}
  Inodes = {1, 2}
  SyncReachesEntry = TRUE
INVARIANTS DeletedBackupsAreNotAdvertised
