\* Runs that fail at every call, two deaths, a broken call and a deletion that
\* stops half way.
SPECIFICATION Spec
CONSTANTS
  Runs = {r1, r2, r3, r4}
  Downgrades = TRUE
  MaxDeaths = 2
  MaxBroken = 1
  MaxLeftovers = 1
  None = None
SYMMETRY Symmetry
INVARIANTS SettledFilesMatch FailedRerunKeepsPrevious
