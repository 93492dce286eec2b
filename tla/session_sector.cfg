SPECIFICATION Spec
CONSTANTS
  Blocks = {b1, b2, b3}
  Values = {v0, v1}
  OldMap = TRUE
  Container = FALSE
  IdMod = 2
  MaxCommits = 2
  MaxSig = 1
SYMMETRY BlockSymmetry
INVARIANTS TypeOK IndexMatchesImage CycleIdCountsCommits TailMatchesOutcome
PROPERTIES FailClosed
