SPECIFICATION MountSpec
CONSTANTS
  MaxDaemon = 2
  Fronts = {f1}
  Launchers = {"systemd", "process"}
  NoRecord = NoRecord
  MaxFile = 1
INVARIANT RecordsOutliveTheImage
CHECK_DEADLOCK FALSE
