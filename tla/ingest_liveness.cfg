\* Two occurrences share a polling worker that is started again after a crash.
SPECIFICATION FairSpec
CONSTANTS
  Jobs = {j1, j2}
  Posts = {p1, p2}
  MaxAssignments = 0
  MaxFaults = 1
  NoJob = NoJob
  NoRows = NoRows
PROPERTY QueuedJobSettles
