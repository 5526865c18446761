\* One occurrence, three POSTs that may race, one assignment, one crash or lost connection.
SPECIFICATION Spec
CONSTANTS
  Jobs = {j1}
  Posts = {p1, p2, p3}
  MaxAssignments = 1
  MaxFaults = 1
  NoJob = NoJob
  NoRows = NoRows
SYMMETRY Symmetry
INVARIANTS CheckpointSoundness DoneOnlyWhenSettled
PROPERTY RecordingKept
