SPECIFICATION Spec
SYMMETRY Interchangeable
CONSTRAINT NoneWorksBeside
CONSTANTS
  Procs = {p1, p2}
  Files <- PairFiles
  Nobody = Nobody
  Recoverers = {p1, p2}
  Sweepers = {p1, p2}
  Inodes = {1, 2, 3, 4}
  SyncReachesEntry = TRUE
INVARIANTS TypeOK AlwaysRecoverable LiveIsProtected NothingHalfPublished AdvertisedBackupsExist LiveOwnsImage
