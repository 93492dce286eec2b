SPECIFICATION Spec
CONSTANTS
  Names = {n1, n2}
  Values = {v0, v1}
  Loads = {l1}
  Empty = v0
  Fhs = {f1}
  Unset = Unset
  Failures = {}
  AheadLimit = 0
  MaxInode = 3
INVARIANTS QueuedAttributesAreLive
