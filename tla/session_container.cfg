SPECIFICATION Spec
CONSTANTS
  Blocks = {b1, b2}
  Values = {v0, v1}
  OldMap = FALSE
  Container = TRUE
  IdMod = 2
  MaxCommits = 1
  MaxSig = 1
INVARIANTS IndexMatchesImage CleanCloseIsCommitted
PROPERTIES FailClosed MutationsAreAtomic
