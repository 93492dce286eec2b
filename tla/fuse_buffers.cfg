SPECIFICATION FairSpec
CONSTANTS
  Names = {n1}
  Values = {v0, v1}
  Loads = {l1}
  Empty = v0
  Fhs = {f1, f2}
  Unset = Unset
  Failures = {"refused", "fatal"}
  AheadLimit = 1
  MaxInode = 2
INVARIANTS TypeOK VisibleIsLatest UncommittedIsQueued WritableHandleHasBuffer CleanShutdownIsDurable ReadAheadIsCurrent
PROPERTIES ShutdownEnds MountIsWriteBack
