\* One death between the replacement and the commit, then another run.
SPECIFICATION Spec
CONSTANTS
  Runs = {r1, r2, r3, r4}
  Downgrades = FALSE
  MaxDeaths = 1
  MaxBroken = 0
  MaxLeftovers = 0
  None = None
SYMMETRY Symmetry
INVARIANT PreviousNeverLost
