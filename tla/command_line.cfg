SPECIFICATION ViewedSpec
VIEW RunningView
CONSTANTS
  MaxDaemon = 2
  Fronts = {f1}
  Launchers = {"systemd", "process"}
  NoRecord = NoRecord
  MaxFile = 2
  Publishers = {p1, p2}
  Spellings = {lower, upper}
  NoFile = NoFile
  Other = Other
  MaxOther = 1
  Blocks = {a, b}
  MaxBlocks = 2
  Capacity = 2
  MaxStamp = 2
  Nobody = Nobody
  Another = Another
  MapSectors = 1
  DirSectors = 1
  SectorSize = 2
  Totals = {4}
  MaxStart = 3
  MaxBytes = 3
  MaxItems = 2
  NoAudit = NoAudit
  PCDrives = {A}
  ShugartDrives = {s0}
  MaxTrack = 2
  MaxEdition = 2
  NoDrive = NoDrive
  Old = Old
  Bad = Bad
  Sessions = {h1, h2, h3}
  NoSession = NoSession
  MaxOutside = 1
  HeaderBytes = 1
  SlotBytes = 1
  ExtentSlots = 2
  MaxExtents = 2
INVARIANTS
  CommandTypeOK
  UnmountReportsTruth
  PublishedWhole
  ExportSurvivesPowerLoss
  ImportIsFaithful
  ReportIsExact
  UncheckedRepairIsRecoverable
  AuditKeepsUp
  WrittenIsTheImage
  SavedEditsAreKept
  PartsAreIsolated
PROPERTIES
  OthersAreKept
  ImportReplacesNothing
CHECK_DEADLOCK FALSE
