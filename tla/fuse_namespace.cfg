SPECIFICATION Spec
CONSTANTS
  Names = {n1, n2}
  Values = {v0, v1}
  Loads = {}
  Empty = v0
  Fhs = {f1}
  Unset = Unset
  Failures = {"refused"}
  AheadLimit = 0
  MaxInode = 3
SYMMETRY FuseSymmetry
INVARIANTS UncommittedIsQueued WritableHandleHasBuffer
PROPERTIES MountIsWriteBack
